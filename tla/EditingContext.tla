--------------------------- MODULE EditingContext ---------------------------
(***************************************************************************)
(* Several editing contexts (Core/COEditingContext.m), each in a process   *)
(* of its own, over one store.  A context keeps a working copy of the      *)
(* persistent roots it has loaded; a commit carries, for every root it     *)
(* changes, the transaction id the context last saw, and the store takes   *)
(* it only if the id is still the store's (optimistic concurrency).  What  *)
(* was committed reaches the other contexts as notifications.              *)
(*                                                                         *)
(* A root has one branch here; revisions are numbered in the order their   *)
(* UUIDs are drawn.  Roots are created before the initial state.           *)
(***************************************************************************)
EXTENDS Integers

CONSTANTS
  Context,
  PersistentRoot,
  MaxRevision,          \* bound: UUIDs drawn per root
  MaxTransactionID,     \* bound: transactions accepted per root
  MaxLosses,            \* bound: notifications lost
  SurvivesExceptions    \* does the application go on after -commit raises?

ASSUME EditingContextAssumption ==
  /\ MaxRevision \in Nat \ {0}
  /\ MaxTransactionID \in Nat \ {0}
  /\ MaxLosses \in Nat
  /\ SurvivesExceptions \in BOOLEAN

VARIABLES
  persistentroots,    \* the store's mutable state of each root
  revisions,          \* the revisions in each root's backing store
  drawn,              \* how many revision UUIDs were drawn for each root
  notifications,      \* commit notifications under way, in no order
  losses,             \* how many of them were lost
  loaded,             \* _loadedPersistentRoots: context -> root -> instance
  orphans,            \* unloaded roots still among the pending (un)deletions
  lastTransactionID,  \* _lastTransactionIDForPersistentRootUUID, 0 for nil
  committing,         \* the roots of a commit that -didCommit... is to refresh
  raised              \* ghost: contexts that went on after an exception

storeVars   == <<persistentroots, revisions, drawn>>
channelVars == <<notifications, losses>>
contextVars == <<loaded, orphans, lastTransactionID, committing, raised>>
vars        == <<storeVars, channelVars, contextVars>>

Revision      == 1 .. MaxRevision
TransactionID == 1 .. MaxTransactionID

(* A row of the store, and COPersistentRootInfo, a copy of one. *)
Row == [current : Revision, deleted : BOOLEAN, transactionID : TransactionID]

(* info is _persistentRootInfo; base, which the code does not keep, is the *)
(* row when the instance was last loaded, reloaded or committed.           *)
Instance == [info    : Row,
             base    : Row,
             current : Revision,    \* the branch's _currentRevisionUUID
             dirty   : BOOLEAN,     \* the object graph has changes
             pending : {"none", "deletion", "undeletion"}]

IsNotification(n) ==
  /\ n.to \in Context
  /\ DOMAIN n.ids \subseteq PersistentRoot
  /\ n.ids \in [DOMAIN n.ids -> TransactionID]
  /\ n.deleted \subseteq DOMAIN n.ids

(* Types: of the rows, the working copies and the notifications.           *)
TypeOK ==
  /\ persistentroots \in [PersistentRoot -> Row]
  /\ revisions \in [PersistentRoot -> SUBSET Revision]
  /\ drawn \in [PersistentRoot -> Revision]
  /\ losses \in 0 .. MaxLosses
  /\ \A n \in notifications : IsNotification(n)
  /\ DOMAIN loaded = Context
  /\ \A c \in Context : /\ DOMAIN loaded[c] \subseteq PersistentRoot
                        /\ \A p \in DOMAIN loaded[c] : loaded[c][p] \in Instance
  /\ orphans \in [Context -> SUBSET PersistentRoot]
  /\ lastTransactionID \in [Context -> [PersistentRoot -> Nat]]
  /\ committing \in [Context -> SUBSET PersistentRoot]
  /\ raised \subseteq Context

-----------------------------------------------------------------------------
(* Reading an instance *)

IsDeleted(i) == i.pending = "deletion" \/ (i.pending = "none" /\ i.info.deleted)

HasChanges(i) == i.dirty \/ i.current # i.info.current

Touched(c, R) ==
  {p \in R : HasChanges(loaded[c][p]) \/ loaded[c][p].pending # "none"}

ContextHasChanges(c) == orphans[c] # {} \/ Touched(c, DOMAIN loaded[c]) # {}

InstanceFor(row) ==
  [info |-> row, base |-> row, current |-> row.current,
   dirty |-> FALSE, pending |-> "none"]

(* -storePersistentRootDidChange:: the edits go, a pending (un)deletion,    *)
(* which the context keeps, stays.                                         *)
Reloaded(i, row) == [InstanceFor(row) EXCEPT !.pending = i.pending]

(* -saveCommitWithMetadata:transaction: on a root with changes. *)
Saved(i, p) ==
  IF i.dirty THEN [i EXCEPT !.current = drawn[p] + 1, !.dirty = FALSE] ELSE i

(* -saveCommit... raises for a root that is deleted here and in the store. *)
Raising(c, R) ==
  {p \in R : LET i == loaded[c][p]
             IN HasChanges(i) /\ IsDeleted(i) /\ i.info.deleted}

-----------------------------------------------------------------------------
(* The store *)

(* (Mutant: the branch moves although no revision is written.) *)
MutantCommittedRow(i, p) ==
  [current       |-> drawn[p] + 1,
   deleted       |-> i.pending = "deletion",
   transactionID |-> persistentroots[p].transactionID + 1]

(* What a commit of the instance i leaves in the store. *)
CommittedRow(i, p) ==
  [current       |-> IF HasChanges(i) THEN Saved(i, p).current
                     ELSE persistentroots[p].current,
   deleted       |-> CASE i.pending = "deletion"   -> TRUE
                       [] i.pending = "undeletion" -> FALSE
                       [] OTHER -> persistentroots[p].deleted,
   transactionID |-> persistentroots[p].transactionID + 1]

(* (Mutant: deleted roots are left out of the transaction ids.) *)
MutantNotificationsOf(rows) ==
  {[to |-> d, ids |-> [p \in {q \in DOMAIN rows : ~rows[q].deleted} |->
                         rows[p].transactionID], deleted |-> {}] :
   d \in {x \in Context : rows # << >>}}

(* Every context is told, the distributed notification comes back to the   *)
(* sender too.                                                             *)
NotificationsOf(rows) ==
  {[to      |-> d,
    ids     |-> [p \in DOMAIN rows |-> rows[p].transactionID],
    deleted |-> {p \in DOMAIN rows : rows[p].deleted}] :
   d \in {x \in Context : rows # << >>}}

StoreCommit(rows) ==
  /\ persistentroots' = [p \in PersistentRoot |->
                            IF p \in DOMAIN rows THEN rows[p] ELSE persistentroots[p]]
  /\ notifications' = notifications \cup NotificationsOf(rows)
  /\ UNCHANGED losses

(* (Mutant: an older id is taken too.) *)
MutantIdAccepted(c, p) ==
  lastTransactionID[c][p] <= persistentroots[p].transactionID

IdAccepted(c, p) == lastTransactionID[c][p] = persistentroots[p].transactionID

TransactionAccepted(c, T) == \A p \in T : IdAccepted(c, p)

CanCommit(R) == \A p \in R : persistentroots[p].transactionID < MaxTransactionID

(* (bound: one exception per process) *)
CanSurvive(c) == SurvivesExceptions /\ c \notin raised

CanDraw(c, R) == \A p \in R : loaded[c][p].dirty => drawn[p] < MaxRevision

-----------------------------------------------------------------------------
(* A context *)

Init ==
  /\ persistentroots = [p \in PersistentRoot |->
                          [current |-> 1, deleted |-> FALSE, transactionID |-> 1]]
  /\ revisions = [p \in PersistentRoot |-> {1}]
  /\ drawn = [p \in PersistentRoot |-> 1]
  /\ notifications = {}
  /\ losses = 0
  /\ loaded = [c \in Context |-> << >>]
  /\ orphans = [c \in Context |-> {}]
  /\ lastTransactionID = [c \in Context |-> [p \in PersistentRoot |-> 0]]
  /\ committing = [c \in Context |-> {}]
  /\ raised = {}

(* Its main thread is not inside a commit. *)
Idle(c) == committing[c] = {}

Without(f, S) == [x \in DOMAIN f \ S |-> f[x]]

Load(c, p) ==
  /\ Idle(c)
  /\ p \notin DOMAIN loaded[c]
  /\ loaded' = [loaded EXCEPT ![c] =
                  [q \in DOMAIN loaded[c] \cup {p} |->
                     IF q = p THEN InstanceFor(persistentroots[p]) ELSE loaded[c][q]]]
  /\ lastTransactionID' =
       [lastTransactionID EXCEPT ![c][p] = persistentroots[p].transactionID]
  /\ UNCHANGED <<storeVars, channelVars, orphans, committing, raised>>

(* -unloadPersistentRoot: leaves the transaction id, and the pending sets. *)
Unload(c, p) ==
  /\ Idle(c)
  /\ p \in DOMAIN loaded[c]
  /\ loaded' = [loaded EXCEPT ![c] = Without(loaded[c], {p})]
  /\ orphans' = [orphans EXCEPT ![c] =
                   @ \cup {q \in {p} : loaded[c][q].pending # "none"}]
  /\ UNCHANGED <<storeVars, channelVars, lastTransactionID, committing, raised>>

Edit(c, p) ==
  /\ Idle(c)
  /\ p \in DOMAIN loaded[c]
  /\ ~loaded[c][p].dirty
  /\ loaded' = [loaded EXCEPT ![c][p].dirty = TRUE]
  /\ UNCHANGED <<storeVars, channelVars, orphans, lastTransactionID, committing, raised>>

(* -[COBranch setCurrentRevision:] reloads the object graph. *)
SetCurrentRevision(c, p, r) ==
  /\ Idle(c)
  /\ p \in DOMAIN loaded[c]
  /\ r \in revisions[p]
  /\ loaded' = [loaded EXCEPT ![c][p].current = r, ![c][p].dirty = FALSE]
  /\ UNCHANGED <<storeVars, channelVars, orphans, lastTransactionID, committing, raised>>

(* -[COPersistentRoot setDeleted:] takes back a pending opposite first. *)
SetDeleted(c, p, deleted) ==
  /\ Idle(c)
  /\ p \in DOMAIN loaded[c]
  /\ IsDeleted(loaded[c][p]) # deleted
  /\ loaded' = [loaded EXCEPT ![c][p].pending =
                  CASE @ # "none" -> "none"
                    [] deleted    -> "deletion"
                    [] OTHER      -> "undeletion"]
  /\ UNCHANGED <<storeVars, channelVars, orphans, lastTransactionID, committing, raised>>

(* (Mutant: the branch has no info to go back to.) *)
MutantDiscarded(i) == [i EXCEPT !.current = 0, !.dirty = FALSE, !.pending = "none"]

Discarded(i) ==
  [i EXCEPT !.current = i.info.current, !.dirty = FALSE, !.pending = "none"]

DiscardAllChanges(c) ==
  /\ Idle(c)
  /\ loaded' = [loaded EXCEPT ![c] =
                  [p \in DOMAIN @ |-> Discarded(loaded[c][p])]]
  /\ orphans' = [orphans EXCEPT ![c] = {}]
  /\ UNCHANGED <<storeVars, channelVars, lastTransactionID, committing, raised>>

(* The process ends: by itself, in a crash, or on an uncaught exception.   *)
Terminate(c) ==
  /\ loaded' = [loaded EXCEPT ![c] = << >>]
  /\ orphans' = [orphans EXCEPT ![c] = {}]
  /\ lastTransactionID' = [lastTransactionID EXCEPT ![c] = [p \in PersistentRoot |-> 0]]
  /\ committing' = [committing EXCEPT ![c] = {}]
  /\ notifications' = {n \in notifications : n.to # c}
  /\ raised' = raised \ {c}
  /\ UNCHANGED <<storeVars, losses>>

Quit(c) == Terminate(c)

-----------------------------------------------------------------------------
(* -commitWithMetadata:restrictedToPersistentRoots:withUndoTrack:error:    *)

(* -[COEditingContext commit] takes every loaded root, -[COPersistentRoot  *)
(* commit] only one.                                                       *)
CommitScopes(c) ==
  {R \in {DOMAIN loaded[c]} \cup {{p} : p \in DOMAIN loaded[c]} : R # {}}

(* The context after the save phase, which precedes the store's answer:    *)
(* changes accepted, nothing pending, roots to delete unloaded.            *)
AfterSave(c, R) ==
  [p \in {q \in DOMAIN loaded[c] : q \in R => loaded[c][q].pending # "deletion"} |->
     IF p \in R THEN [Saved(loaded[c][p], p) EXCEPT !.pending = "none"]
     ELSE loaded[c][p]]

DrawnBy(c, R) ==
  [p \in PersistentRoot |->
     IF p \in R /\ loaded[c][p].dirty THEN drawn[p] + 1 ELSE drawn[p]]

(* (Mutant: the ids of roots the transaction does not touch move on too.) *)
MutantIdsAfter(c, T) ==
  [lastTransactionID EXCEPT ![c] =
     [p \in PersistentRoot |-> IF p \in DOMAIN loaded[c] THEN @[p] + 1 ELSE @[p]]]

(* The ids move on before the transaction is submitted. *)
IdsAfter(c, T) ==
  [lastTransactionID EXCEPT ![c] =
     [p \in PersistentRoot |-> IF p \in T THEN @[p] + 1 ELSE @[p]]]

(* The store takes the transaction; -didCommitWithCommand:... is to come.  *)
AcceptCommit(c, R) ==
  LET T    == Touched(c, R)
      rows == [p \in T |-> CommittedRow(loaded[c][p], p)]
      kept == AfterSave(c, R)
  IN /\ Raising(c, R) = {}
     /\ TransactionAccepted(c, T)
     /\ CanDraw(c, R) /\ CanCommit(T)
     /\ StoreCommit(rows)
     /\ drawn' = DrawnBy(c, R)
     /\ revisions' = [p \in PersistentRoot |->
                        IF p \in T /\ loaded[c][p].dirty
                        THEN revisions[p] \cup {drawn[p] + 1} ELSE revisions[p]]
     /\ loaded' = [loaded EXCEPT ![c] =
                     [p \in DOMAIN kept |->
                        IF p \in T THEN [kept[p] EXCEPT !.base = rows[p]] ELSE kept[p]]]
     /\ lastTransactionID' = IdsAfter(c, T)
     /\ committing' = [committing EXCEPT ![c] = R]
     /\ UNCHANGED <<orphans, raised>>

(* The store refuses: the assertion on its answer raises. *)
RejectCommit(c, R) ==
  LET T == Touched(c, R)
  IN /\ Raising(c, R) = {}
     /\ ~TransactionAccepted(c, T)
     /\ CanDraw(c, R)
     /\ \/ ~SurvivesExceptions /\ Terminate(c)
        \/ /\ CanSurvive(c)
           /\ loaded' = [loaded EXCEPT ![c] = AfterSave(c, R)]
           /\ drawn' = DrawnBy(c, R)
           /\ lastTransactionID' = IdsAfter(c, T)
           /\ raised' = raised \cup {c}
           /\ UNCHANGED <<persistentroots, revisions, channelVars, orphans, committing>>

(* Saving a deleted root raises, after the roots S were saved. *)
RaiseCommit(c, R) ==
  /\ Raising(c, R) # {}
  /\ CanDraw(c, R)
  /\ \/ ~SurvivesExceptions /\ Terminate(c)
     \/ /\ CanSurvive(c)
        /\ \E S \in SUBSET (R \ Raising(c, R)) :
             /\ loaded' = [loaded EXCEPT ![c] =
                             [p \in DOMAIN @ |->
                                IF p \in S THEN Saved(@[p], p) ELSE @[p]]]
             /\ drawn' = DrawnBy(c, S)
        /\ raised' = raised \cup {c}
        /\ UNCHANGED <<persistentroots, revisions, channelVars,
                       orphans, lastTransactionID, committing>>

Commit(c) ==
  /\ Idle(c)
  /\ \E R \in CommitScopes(c) :
       AcceptCommit(c, R) \/ RejectCommit(c, R) \/ RaiseCommit(c, R)

(* -didMakeNewCommit, on every root of the commit, changed or not: the     *)
(* info is read again, the branch and the transaction id are not.          *)
DidCommit(c) ==
  /\ ~Idle(c)
  /\ loaded' = [loaded EXCEPT ![c] =
                  [p \in DOMAIN @ |->
                     IF p \in committing[c]
                     THEN [@[p] EXCEPT !.info = persistentroots[p]] ELSE @[p]]]
  /\ committing' = [committing EXCEPT ![c] = {}]
  /\ UNCHANGED <<storeVars, channelVars, orphans, lastTransactionID, raised>>

-----------------------------------------------------------------------------
(* -storePersistentRootsDidChange:isDistributed:, for the changes of rows  *)
(* to the roots ids, of which those in deleted are deleted.                *)
PersistentRootsDidChange(c, instances, lastIds, rows, ids, deleted) ==
  LET reload == {p \in DOMAIN ids \cap DOMAIN instances : ids[p] > lastIds[p]}
      fresh  == [p \in DOMAIN instances |->
                   IF p \in reload THEN Reloaded(instances[p], rows[p])
                   ELSE instances[p]]
      gone   == {p \in reload : IsDeleted(fresh[p])}
      forget == (DOMAIN ids \ DOMAIN instances) \ deleted
  IN /\ loaded' = [loaded EXCEPT ![c] = Without(fresh, gone)]
     /\ orphans' = [orphans EXCEPT ![c] =
                      @ \cup {p \in gone : fresh[p].pending = "deletion"}]
     /\ lastTransactionID' = [lastTransactionID EXCEPT ![c] =
          [p \in PersistentRoot |-> CASE p \in reload -> rows[p].transactionID
                                      [] p \in forget -> 0
                                      [] OTHER        -> lastIds[p]]]

(* (Mutant: a context with changes leaves the notification for later.) *)
MutantDeliver(c, n) ==
  /\ Idle(c)
  /\ n.to = c
  /\ ~ContextHasChanges(c)
  /\ notifications' = notifications \ {n}
  /\ PersistentRootsDidChange(c, loaded[c], lastTransactionID[c], persistentroots,
                              n.ids, n.deleted)
  /\ UNCHANGED <<storeVars, losses, committing, raised>>

Deliver(c, n) ==
  /\ Idle(c)
  /\ n.to = c
  /\ notifications' = notifications \ {n}
  /\ PersistentRootsDidChange(c, loaded[c], lastTransactionID[c], persistentroots,
                              n.ids, n.deleted)
  /\ UNCHANGED <<storeVars, losses, committing, raised>>

Lose ==
  /\ losses < MaxLosses
  /\ losses' = losses + 1
  /\ \E n \in notifications : notifications' = notifications \ {n}
  /\ UNCHANGED <<storeVars, contextVars>>

(* An undo or redo on a COUndoTrack commits to the store directly, with    *)
(* the id the context last saw if it has one; the notification the store   *)
(* posts before it returns refreshes the context.  (One command of the     *)
(* group a transaction may hold.)                                          *)
UndoOrRedo(c, p, row, instances, lastIds) ==
  /\ lastIds[p] \in {0, persistentroots[p].transactionID}
  /\ CanCommit({p})
  /\ StoreCommit([q \in {p} |-> row])
  /\ PersistentRootsDidChange(c, instances, lastIds, [persistentroots EXCEPT ![p] = row],
                              [q \in {p} |-> row.transactionID],
                              {q \in {p} : row.deleted})
  /\ UNCHANGED <<committing, raised>>

(* A command on a branch loads its root first.  It goes back to a revision *)
(* or, selectively undone, writes a new one.                               *)
UndoOrRedoRevision(c, p) ==
  LET old       == persistentroots[p]
      isLoaded  == p \in DOMAIN loaded[c]
      instances == [q \in DOMAIN loaded[c] \cup {p} |->
                      IF q \in DOMAIN loaded[c] THEN loaded[c][q] ELSE InstanceFor(old)]
      lastIds   == IF isLoaded THEN lastTransactionID[c]
                   ELSE [lastTransactionID[c] EXCEPT ![p] = old.transactionID]
  IN /\ Idle(c)
     /\ \E r \in revisions[p] \cup {drawn[p] + 1} :
          /\ r \in Revision
          /\ UndoOrRedo(c, p, [old EXCEPT !.current = r,
                                          !.transactionID = @ + 1], instances, lastIds)
          /\ revisions' = [revisions EXCEPT ![p] = @ \cup {r}]
          /\ drawn' = [drawn EXCEPT ![p] = IF r > @ THEN r ELSE @]

(* A command that deletes or undeletes a root does not load it. *)
UndoOrRedoDeletion(c, p) ==
  /\ Idle(c)
  /\ \E deleted \in BOOLEAN :
       UndoOrRedo(c, p, [persistentroots[p] EXCEPT !.deleted = deleted,
                                                  !.transactionID = @ + 1],
                  loaded[c], lastTransactionID[c])
  /\ UNCHANGED <<revisions, drawn>>

(* The store refuses the id: an assertion raises, with nothing changed. *)
RefuseUndoOrRedo(c, p) ==
  /\ ~SurvivesExceptions
  /\ Idle(c)
  /\ lastTransactionID[c][p] \notin {0, persistentroots[p].transactionID}
  /\ Terminate(c)

-----------------------------------------------------------------------------

(* Once a branch is at a revision nobody wrote, whoever reads it raises;   *)
(* the model goes no further.                                              *)
CurrentRevisionsStored ==
  \A p \in PersistentRoot : persistentroots[p].current \in revisions[p]

ContextStep(c) ==
  \/ \E p \in PersistentRoot :
       \/ Load(c, p)
       \/ Unload(c, p)
       \/ Edit(c, p)
       \/ \E r \in revisions[p] : SetCurrentRevision(c, p, r)
       \/ \E deleted \in BOOLEAN : SetDeleted(c, p, deleted)
       \/ UndoOrRedoRevision(c, p)
       \/ UndoOrRedoDeletion(c, p)
       \/ RefuseUndoOrRedo(c, p)
  \/ DiscardAllChanges(c)
  \/ Commit(c)
  \/ DidCommit(c)
  \/ \E n \in notifications : Deliver(c, n)

Next ==
  \/ CurrentRevisionsStored /\ \E c \in Context : ContextStep(c)
  \/ Lose
  \/ \E c \in Context : Quit(c)

Spec == Init /\ [][Next]_vars

(* A commit runs to its end, and a run loop that is back from its commits  *)
(* again and again takes the notifications that wait.                      *)
Fairness ==
  \A c \in Context :
    /\ WF_vars(DidCommit(c))
    /\ SF_vars(\E n \in notifications : Deliver(c, n))

FairSpec == Spec /\ Fairness

-----------------------------------------------------------------------------
(* Properties, of the contexts no exception went through *)

Sound == Context \ raised

(* The guard of the optimistic commits.  An id the store would take proves *)
(* that the context has seen the store's row as it is, and no context is   *)
(* ahead of the store (or it would ignore the next notification).          *)
IdsProveFreshness ==
  \A c \in Sound : \A p \in PersistentRoot :
    /\ lastTransactionID[c][p] <= persistentroots[p].transactionID
    /\ p \in DOMAIN loaded[c] =>
         loaded[c][p].base.transactionID = lastTransactionID[c][p]
    /\ p \in DOMAIN loaded[c] /\ IdAccepted(c, p) =>
         loaded[c][p].base = persistentroots[p]

CommitsWhatItSaw(c, p) ==
  /\ Idle(c) /\ committing'[c] # {}
  /\ p \in DOMAIN loaded[c]
  /\ persistentroots'[p] # persistentroots[p]
  => loaded[c][p].base = persistentroots[p]

(* No commit of a working copy overwrites what its context has not seen,   *)
(* whichever notifications are late or lost (the ids of a transaction).    *)
NoLostUpdate ==
  [][\A c \in Sound, p \in PersistentRoot : CommitsWhatItSaw(c, p)]_vars

Outstanding(c) == {n \in notifications : n.to = c}

(* A context to which every notification was delivered is up to date in    *)
(* every root it has loaded: row, transaction id, deletion status.         *)
QuietContextIsCurrent ==
  \A c \in Sound :
    losses = 0 /\ Idle(c) /\ Outstanding(c) = {} =>
      \A p \in DOMAIN loaded[c] :
        /\ IdAccepted(c, p)
        /\ loaded[c][p].info = persistentroots[p]
        /\ loaded[c][p].base = persistentroots[p]

(* Sooner or later a context is rid of a stale root, by a reload, by an    *)
(* unload or with its process.                                             *)
Stale(c, p) == p \in DOMAIN loaded[c] /\ loaded[c][p].base # persistentroots[p]

StaleRootsAreReloaded ==
  \A c \in Context, p \in PersistentRoot : Stale(c, p) ~> ~Stale(c, p)

=============================================================================
