---------------------------- MODULE Synchronizer ----------------------------
(***************************************************************************)
(* The push synchronizer (Synchronization/COSynchronizer*.m): one branch   *)
(* shared by a server, which is a user like the others, and clients that   *)
(* each talk to the server only.  A site commits to its own store and      *)
(* pushes; the server fast-forwards or rebases what it receives and sends  *)
(* the result to everybody; a client rebases the commits it made while its *)
(* last push was in transit.                                               *)
(*                                                                         *)
(* A revision is a number into history, given out in the order revisions   *)
(* are created anywhere, so a parent is smaller than its children; its     *)
(* line is the set of its ancestors and itself (no revision of this        *)
(* protocol has a merge parent), and its items are the elements of the one *)
(* multivalued attribute users edit.  A list of consecutive revisions is a *)
(* set, whose order is that of the numbers.                                *)
(*                                                                         *)
(* The server may be paused through COSynchronizerJSONServer, which then   *)
(* queues what arrives and what it would send.  A transport keeps the      *)
(* order of the messages between two sites and may lose one.               *)
(***************************************************************************)
EXTENDS Integers, Sequences, FiniteSets, FiniteSetsExt, SequencesExt

CONSTANTS Client,     \* the client IDs that may join
          Server,     \* the serving site
          MaxEvents   \* bound: users' commits, pauses of the server, lost
                      \* messages and removed clients, all together

ASSUME SynchronizerAssumption == Server \notin Client /\ MaxEvents \in Nat

VARIABLES
  history,    \* every revision written at some site
  current,    \* site -> current revision of the branch, 0 if it has no branch
  held,       \* site -> revisions in its store
  lastSent,   \* lastSentRevisionForClientID: its domain is the active clients
  lastServer, \* client -> _lastRevisionUUIDFromServer
  inTransit,  \* client -> _lastRevisionUUIDInTransitToServer, 0 for nil
  toServer, toClient,  \* client -> messages under way
  paused, queue,       \* COSynchronizerJSONServer's flag and queuedMessages
  responding, \* currentlyRespondingToClient and ...HandlingLastSentRevision
  failed,     \* sites where a handler raised an exception
  edits, inserted, removed,  \* what the users did
  pauses, losses, removals   \* and the other bounded events

vars == <<history, current, held, lastSent, lastServer, inTransit, toServer,
          toClient, paused, queue, responding, failed, edits, inserted, removed, pauses,
          losses, removals>>
clientVars == <<lastServer, inTransit, toServer>>
serverVars == <<lastSent, responding, toClient, queue>>
userVars == <<edits, inserted, removed>>
boundVars == <<pauses, losses, removals>>

Site == Client \cup {Server}
None == 0
Nobody == [client |-> Server, revision |-> None]

-----------------------------------------------------------------------------
(* Revisions                                                               *)

Line(h, r) == h[r].line
Parent(h, r) ==
  LET above == Line(h, r) \ {r}
  IN  IF above = {} THEN None ELSE Max(above)

IsEqualToOrParent(h, a, b) == b # None /\ a \in Line(h, b)

RevisionsFromTo(h, start, end) == {r \in Line(h, end) : r > start}

CommonAncestor(h, a, b) == Max(Line(h, a) \cap Line(h, b))

\* A list of revisions: the set revs, the oldest first.
InOrder(revs) ==
  CHOOSE s \in [1..Cardinality(revs) -> revs] :
    \A j, k \in DOMAIN s : j < k => s[j] < s[k]

\* What merging the changes ancestor -> source and ancestor -> dest gives.
Merge3(ancestor, source, dest) ==
  (ancestor \cap source \cap dest) \cup (source \ ancestor)
                                   \cup (dest \ ancestor)

\* The graph each revision of revs, which follow ancestor, is compared with:
\* the one the revision before it had.
\* (Mutant: the common ancestor's is kept.)
MutantComparedWith(ancestor, revs) == [k \in DOMAIN revs |-> ancestor]

ComparedWith(ancestor, revs) == <<ancestor>> \o revs

\* The items dest has after the changes of revs were merged into it in turn.
RebasedItems(h, revs, dest, ancestor) ==
  LET lcas == ComparedWith(ancestor, revs)
      merged[k \in 0..Len(revs)] ==
        IF k = 0 THEN h[dest].items
        ELSE Merge3(h[lcas[k]].items, h[revs[k]].items, merged[k - 1])
  IN  merged

\* history with the revisions ancestor (exclusive) to source written again
\* on top of dest; the last revision of the result is the new tip.
Rebase(h, source, dest, ancestor) ==
  LET sourceRevs == RevisionsFromTo(h, ancestor, source)
      items == RebasedItems(h, InOrder(sourceRevs), dest, ancestor)
  IN  h \o [k \in 1..Cardinality(sourceRevs) |->
              [line  |-> Line(h, dest) \cup (Len(h) + 1)..(Len(h) + k),
               items |-> items[k]]]

-----------------------------------------------------------------------------
(* Messages                                                                *)

SetupMessage(r) == [class |-> "setup", revisions |-> {r}, answers |-> None]
PushMessage(revs) ==
  [class |-> "push", revisions |-> revs, answers |-> None]
ResponseMessage(revs, r) ==
  [class |-> "response", revisions |-> revs, answers |-> r]
ClientMessage(revs, last) ==
  [revisions |-> revs, lastRevisionSentByServer |-> last]

Outgoing(c, m) == [type |-> "outgoing", client |-> c, message |-> m]
Incoming(c, m) == [type |-> "incoming", client |-> c, message |-> m]

\* The JSON server, with the queue q, hands every message of msgs (client ->
\* message) to the transport, or queues it while it is paused.
SendToClients(msgs, q) ==
  LET receivers == SetToSeq(DOMAIN msgs)
      out == [i \in DOMAIN receivers |-> Outgoing(receivers[i], msgs[receivers[i]])]
  IN /\ queue' = IF paused THEN q \o out ELSE q
     /\ toClient' = [c \in Client |-> IF ~paused /\ c \in DOMAIN msgs
                                     THEN Append(toClient[c], msgs[c])
                                     ELSE toClient[c]]

Draining == ~paused /\ queue # <<>>

CanHappen == edits + pauses + losses + removals < MaxEvents

-----------------------------------------------------------------------------
Init ==
  /\ history = <<[line |-> {1}, items |-> {}]>>
  /\ current = [s \in Site |-> IF s = Server THEN 1 ELSE None]
  /\ held = [s \in Site |-> IF s = Server THEN {1} ELSE {}]
  /\ lastSent = << >>
  /\ lastServer = [c \in Client |-> None]
  /\ inTransit = [c \in Client |-> None]
  /\ toServer = [c \in Client |-> << >>]
  /\ toClient = [c \in Client |-> << >>]
  /\ paused = FALSE /\ queue = << >>
  /\ responding = Nobody
  /\ failed = {}
  /\ edits = 0 /\ inserted = {} /\ removed = {}
  /\ pauses = 0 /\ losses = 0 /\ removals = 0

-----------------------------------------------------------------------------
(* The server.  A site where a handler raised takes no further step.       *)

Raise(s) == failed' = failed \cup {s}

ServerMayStep == Server \notin failed /\ ~Draining

\* (Mutant: the push just answered is answered again with the next change.)
MutantStillAsked(asked, behind) == asked

\* The push to answer once the clients behind were sent their messages.
StillAsked(asked, behind) == IF asked.client \in behind THEN Nobody ELSE asked

\* -persistentRootDidChange:, with the branch at cur and the clients sent:
\* everyone that was sent another revision is sent what follows it.
NotifyClients(h, cur, sent, asked, q) ==
  LET behind == {c \in DOMAIN sent : sent[c] # cur}
      Message(c) ==
        LET revs == RevisionsFromTo(h, sent[c], cur)
        IN  IF asked.client = c THEN ResponseMessage(revs, asked.revision)
                                ELSE PushMessage(revs)
  IN IF \A c \in behind : IsEqualToOrParent(h, sent[c], cur)
     THEN /\ SendToClients([c \in behind |-> Message(c)], q)
          /\ lastSent' = [c \in DOMAIN sent |-> cur]
          /\ responding' = StillAsked(asked, behind)
          /\ failed' = failed
     ELSE /\ Raise(Server)
          /\ queue' = q
          /\ UNCHANGED <<toClient, lastSent, responding>>

\* lastSentRevisionForClientID after the client c was sent revision r.
SentTo(c, r, sent) ==
  [d \in DOMAIN sent \cup {c} |-> IF d = c THEN r ELSE sent[d]]

AddClientID(c) ==
  /\ ServerMayStep
  /\ c \notin DOMAIN lastSent
  /\ current[c] = None /\ toClient[c] = << >>
  /\ \A i \in DOMAIN queue : queue[i].client # c
  /\ lastSent' = SentTo(c, current[Server], lastSent)
  /\ SendToClients([d \in {c} |-> SetupMessage(current[Server])], queue)
  /\ UNCHANGED <<history, current, held, clientVars, responding, paused, failed,
                 userVars, boundVars>>

RemoveClientID(c) ==
  /\ ServerMayStep
  /\ c \in DOMAIN lastSent
  /\ CanHappen /\ removals' = removals + 1
  /\ lastSent' = [d \in DOMAIN lastSent \ {c} |-> lastSent[d]]
  /\ UNCHANGED <<history, current, held, clientVars, responding, toClient, queue,
                 paused, failed, userVars, pauses, losses>>

\* (Mutant: the server's own commits are rebased onto those received.)
MutantMergedHistory(tip) ==
  IF IsEqualToOrParent(history, current[Server], tip) THEN history
  ELSE Rebase(history, current[Server], tip,
              CommonAncestor(history, tip, current[Server]))

\* The revisions the server has after fast-forwarding to tip or rebasing it,
\* the last of which is the branch's current revision.
MergedHistory(tip) ==
  IF IsEqualToOrParent(history, current[Server], tip) THEN history
  ELSE Rebase(history, tip, current[Server],
              CommonAncestor(history, tip, current[Server]))

\* (Mutant: what the server has sent the client meanwhile counts as received.)
MutantSentAfterPush(c, m) ==
  IF c \in DOMAIN lastSent THEN lastSent
  ELSE SentTo(c, m.lastRevisionSentByServer, lastSent)

\* lastSentRevisionForClientID goes back to what the client had, or has the
\* client again.
SentAfterPush(c, m) == SentTo(c, m.lastRevisionSentByServer, lastSent)

\* A push of client c is handled, and the queue q is left.
HandlePushedRevisions(c, m, q) ==
  LET tip == Max(m.revisions)
      merged == MergedHistory(tip)
      rebased == (Len(history) + 1)..Len(merged)
      cur == IF rebased = {} THEN tip ELSE Len(merged)
  IN IF m.revisions \cap held[Server] = {}
     THEN /\ history' = merged
          /\ current' = [current EXCEPT ![Server] = cur]
          /\ held' = [held EXCEPT ![Server] = @ \cup m.revisions \cup rebased]
          /\ NotifyClients(merged, cur, SentAfterPush(c, m),
                           [client |-> c, revision |-> tip], q)
     ELSE /\ Raise(Server)
          /\ queue' = q
          /\ UNCHANGED <<history, current, held, lastSent, responding, toClient>>

\* -receiveText:fromClient:
ServerReceives(c) ==
  /\ ServerMayStep
  /\ toServer[c] # << >>
  /\ LET m == Head(toServer[c])
     IN \/ /\ paused
           /\ queue' = Append(queue, Incoming(c, m))
           /\ UNCHANGED <<history, current, held, lastSent, responding, toClient,
                          failed>>
        \/ ~paused /\ HandlePushedRevisions(c, m, queue)
  /\ toServer' = [toServer EXCEPT ![c] = Tail(@)]
  /\ UNCHANGED <<lastServer, inTransit, paused, userVars, boundVars>>

Pause ==
  /\ ServerMayStep /\ ~paused
  /\ CanHappen /\ pauses' = pauses + 1
  /\ paused' = TRUE
  /\ UNCHANGED <<history, current, held, clientVars, serverVars, failed, userVars,
                 losses, removals>>

Unpause ==
  /\ paused /\ Server \notin failed
  /\ paused' = FALSE
  /\ UNCHANGED <<history, current, held, clientVars, serverVars, failed, userVars,
                 boundVars>>

\* -processQueuedMessages takes the next message; no other method of the
\* server runs in between, but the clients may.
ProcessQueuedMessage ==
  /\ Draining /\ Server \notin failed
  /\ LET m == Head(queue)
     IN \/ /\ m.type = "outgoing"
           /\ toClient' = [toClient EXCEPT ![m.client] = Append(@, m.message)]
           /\ queue' = Tail(queue)
           /\ UNCHANGED <<history, current, held, lastSent, responding, failed>>
        \/ /\ m.type = "incoming"
           /\ HandlePushedRevisions(m.client, m.message, Tail(queue))
  /\ UNCHANGED <<clientVars, paused, userVars, boundVars>>

-----------------------------------------------------------------------------
(* A client                                                                *)

\* (Mutant: the client does not wait for the answer to its last push.)
MutantHasToPush(cur, last, transit) == cur # last

HasToPush(cur, last, transit) == transit = None /\ cur # last

\* -sendPushToServer, with the branch at cur, the last revision the server
\* is known to have and the one in transit.
SendPush(c, h, cur, last, transit) ==
  IF ~HasToPush(cur, last, transit)
  THEN /\ inTransit' = [inTransit EXCEPT ![c] = transit]
       /\ UNCHANGED <<toServer, failed>>
  ELSE IF IsEqualToOrParent(h, last, cur)
  THEN /\ inTransit' = [inTransit EXCEPT ![c] = cur]
       /\ toServer' = [toServer EXCEPT
                         ![c] = Append(@, ClientMessage(RevisionsFromTo(h, last, cur), last))]
       /\ failed' = failed
  ELSE /\ Raise(c)
       /\ UNCHANGED <<inTransit, toServer>>

HandleSetup(c, m) ==
  LET r == Max(m.revisions)
  IN IF current[c] # None
     THEN UNCHANGED <<history, current, held, clientVars, failed>>
     ELSE /\ current' = [current EXCEPT ![c] = r]
          /\ held' = [held EXCEPT ![c] = {r}]
          /\ lastServer' = [lastServer EXCEPT ![c] = r]
          /\ UNCHANGED <<history, inTransit, toServer, failed>>

\* (Mutant: revisions are taken though what comes before them is missing.)
MutantFollows(c, r) == lastServer[c] # None

Follows(c, r) == lastServer[c] # None /\ Parent(history, r) = lastServer[c]

\* The server's revisions up to tip are in the store of c: its own commits
\* are rebased onto them, or it fast-forwards, or it is ahead already.
ApplyRevisions(c, used, tip) ==
  LET sent == inTransit[c]
      ahead == IsEqualToOrParent(history, tip, current[c])
      rebases == ~ahead /\ sent # None /\ current[c] # sent
      h == IF rebases THEN Rebase(history, current[c], tip, sent) ELSE history
      cur == IF rebases THEN Len(h) ELSE IF ahead THEN current[c] ELSE tip
  IN /\ history' = h
     /\ current' = [current EXCEPT ![c] = cur]
     /\ held' = [held EXCEPT ![c] = @ \cup used \cup (Len(history) + 1)..Len(h)]
     /\ lastServer' = [lastServer EXCEPT ![c] = tip]
     /\ SendPush(c, h, cur, tip, None)

HandleRevisions(c, revs) ==
  LET tip == Max(revs)
      next == {r \in revs : Follows(c, r)}
  IN IF tip = current[c]
     THEN /\ lastServer' = [lastServer EXCEPT ![c] = tip]
          /\ inTransit' = [inTransit EXCEPT ![c] = None]
          /\ UNCHANGED <<history, current, held, toServer, failed>>
     ELSE IF next = {}
     THEN UNCHANGED <<history, current, held, clientVars, failed>>
     ELSE ApplyRevisions(c, {r \in revs : r >= Max(next)}, tip)

\* (Mutant: a push is taken while one of the client's own is in transit.)
MutantHandlePush(c, m) == HandleRevisions(c, m.revisions)

HandlePush(c, m) ==
  IF inTransit[c] # None
  THEN UNCHANGED <<history, current, held, clientVars, failed>>
  ELSE HandleRevisions(c, m.revisions)

\* (Mutant: an answer is dropped if the user has committed since the push.)
MutantHandleResponse(c, m) ==
  IF m.answers # inTransit[c] \/ current[c] # inTransit[c]
  THEN UNCHANGED <<history, current, held, clientVars, failed>>
  ELSE HandleRevisions(c, m.revisions)

HandleResponse(c, m) ==
  IF m.answers # inTransit[c]
  THEN UNCHANGED <<history, current, held, clientVars, failed>>
  ELSE HandleRevisions(c, m.revisions)

ClientReceives(c) ==
  /\ c \notin failed
  /\ toClient[c] # << >>
  /\ LET m == Head(toClient[c])
     IN \/ m.class = "setup" /\ HandleSetup(c, m)
        \/ m.class = "push" /\ HandlePush(c, m)
        \/ m.class = "response" /\ HandleResponse(c, m)
  /\ toClient' = [toClient EXCEPT ![c] = Tail(@)]
  /\ UNCHANGED <<lastSent, responding, paused, queue, userVars, boundVars>>

-----------------------------------------------------------------------------
(* Users and the transport                                                 *)

\* A user of site s commits the attribute with the value items.
WriteRevision(s, items) ==
  LET r == Len(history) + 1
  IN /\ current[s] # None /\ s \notin failed
     /\ CanHappen /\ edits' = edits + 1
     /\ history' = Append(history, [line |-> Line(history, current[s]) \cup {r},
                                    items |-> items])
     /\ current' = [current EXCEPT ![s] = r]
     /\ held' = [held EXCEPT ![s] = @ \cup {r}]

DidCommit(s) ==
  IF s = Server
  THEN /\ ServerMayStep
       /\ NotifyClients(history', current'[s], lastSent, responding, queue)
       /\ UNCHANGED <<clientVars, paused, boundVars>>
  ELSE /\ SendPush(s, history', current'[s], lastServer[s], inTransit[s])
       /\ UNCHANGED <<lastServer, serverVars, paused, boundVars>>

InsertItem(s) ==
  /\ current[s] # None
  /\ WriteRevision(s, history[current[s]].items \cup {edits + 1})
  /\ inserted' = inserted \cup {edits + 1}
  /\ removed' = removed
  /\ DidCommit(s)

RemoveItem(s) ==
  /\ current[s] # None
  /\ \E x \in history[current[s]].items :
       /\ WriteRevision(s, history[current[s]].items \ {x})
       /\ removed' = removed \cup {x}
  /\ inserted' = inserted
  /\ DidCommit(s)

Lose(c) ==
  /\ CanHappen /\ losses' = losses + 1
  /\ \/ /\ toServer[c] # << >>
        /\ toServer' = [toServer EXCEPT ![c] = Tail(@)]
        /\ toClient' = toClient
     \/ /\ toClient[c] # << >>
        /\ toClient' = [toClient EXCEPT ![c] = Tail(@)]
        /\ toServer' = toServer
  /\ UNCHANGED <<history, current, held, lastSent, lastServer, inTransit, paused,
                 queue, responding, failed, userVars, pauses, removals>>

Next ==
  \/ \E c \in Client : AddClientID(c) \/ RemoveClientID(c) \/ ServerReceives(c)
                       \/ ClientReceives(c) \/ Lose(c)
  \/ Pause \/ Unpause \/ ProcessQueuedMessage
  \/ \E s \in Site : InsertItem(s) \/ RemoveItem(s)

Spec == Init /\ [][Next]_vars

\* Something is delivered or handled as long as there is something, and the
\* server does not stay paused.
Progress ==
  \/ \E c \in Client : ServerReceives(c) \/ ClientReceives(c)
  \/ Unpause \/ ProcessQueuedMessage

Fairness == WF_vars(Progress)

FairSpec == Spec /\ Fairness

-----------------------------------------------------------------------------
(* Properties                                                              *)

Revision == 1..Len(history)

(* Revisions, sites and messages have the shapes the code gives them; a    *)
(* push answers nobody once the handler is over (the ivars the server      *)
(* passes to itself through the commit notification are cleared).          *)
TypeOK ==
  /\ \A r \in Revision : /\ history[r].line \subseteq 1..r
                         /\ {1, r} \subseteq history[r].line
                         /\ history[r].items \subseteq inserted
  /\ current \in [Site -> Revision \cup {None}]
  /\ held \in [Site -> SUBSET Revision]
  /\ DOMAIN lastSent \subseteq Client
  /\ \A c \in DOMAIN lastSent : lastSent[c] \in Revision
  /\ {lastServer, inTransit} \subseteq [Client -> Revision \cup {None}]
  /\ paused \in BOOLEAN
  /\ responding = Nobody
  /\ failed \subseteq Site
  /\ removed \subseteq inserted /\ inserted \subseteq 1..edits

(* No handler raises: a client never has to push from a revision that is   *)
(* not an ancestor of its own, the server never has to push from one that  *)
(* the branch has left, and no revision reaches a store twice.             *)
NoHandlerRaises == failed = {}

(* Every delta in a store can be read back: the revision it is relative to *)
(* is in the same store, but for the one a client was set up with.         *)
ParentsHeld ==
  \A s \in Site : \A r \in held[s] :
     Parent(history, r) \in held[s] \/ r = Min(held[s])

(* What a client takes for the server's state, and a client with nothing   *)
(* to push, are on the line of the server's branch.                        *)
ClientsFollowServer ==
  \A c \in Client :
    /\ lastServer[c] # None => lastServer[c] \in Line(history, current[Server])
    /\ lastServer[c] # None /\ inTransit[c] = None /\ c \notin failed =>
         current[c] = lastServer[c]

Quiescent ==
  /\ \A c \in Client : toServer[c] = << >> /\ toClient[c] = << >>
  /\ ~paused /\ queue = << >>

(* When every message is handled and none was lost, the server's branch    *)
(* has what users inserted less what they removed: rebasing neither loses  *)
(* an edit nor brings back what somebody removed.                          *)
EditsMerged ==
  Quiescent /\ losses = 0 =>
    history[current[Server]].items = inserted \ removed

(* When every message is handled, every client of the server has its       *)
(* branch at the server's revision (COSynchronizerClient.h:38).            *)
ClientsConverge ==
  Quiescent /\ losses = 0 =>
    \A c \in DOMAIN lastSent : current[c] = current[Server]

(* The same, as long as the server was never paused.                       *)
ClientsConvergeUnpaused == pauses = 0 => ClientsConverge

(* The server's branch never leaves a revision behind: clients never       *)
(* rebase away from what the server once had.                              *)
ServerNeverReverts ==
  [][current[Server] \in Line(history', current'[Server])]_vars

(* Unless a message is lost the sites settle: the server ends up with all  *)
(* edits and, if it was never paused, its clients end up at its revision;  *)
(* pushes and answers do not go on for ever.                               *)
SitesSettle ==
  <>[](losses = 0 => Quiescent /\ EditsMerged /\ ClientsConvergeUnpaused)

=============================================================================
