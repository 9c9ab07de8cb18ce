------------------------------ MODULE UndoTrack ------------------------------
(***************************************************************************)
(* Undo tracks (Undo/COUndoTrack.m) and their store                        *)
(* (Undo/COUndoTrackStore.m), over the object store that the recorded      *)
(* commands change.  A track is a tree of commands with a head, the leaf   *)
(* of the branch that is shown, and a current command, what is applied.    *)
(* Undoing and redoing moves a root back to a revision it had, or, when    *)
(* somebody else changed it since, merges the change into a new revision.  *)
(*                                                                         *)
(*   - A track object shows one track, or, for a pattern, the commands of  *)
(*     several tracks; objects of one process cache the store and hear of  *)
(*     each other's commits by notifications, posted synchronously.        *)
(*   - The undo store and the object store are two databases.  The object  *)
(*     store commits first; a crash may come between.                      *)
(*   - A command has one operation on one root, with one branch.  A        *)
(*     command's sequence number stands for its UUID too.  A revision's    *)
(*     content is the set of the edits it holds, each named by the         *)
(*     revision that made it, and edits do not conflict.                   *)
(*   - Coalescing and -clear are left out.                                 *)
(***************************************************************************)
EXTENDS Integers, Sequences, SequencesExt

CONSTANTS
  PersistentRoot,
  TrackName,
  Track,                 \* the COUndoTrack objects of the process
  NamesOf,               \* Track -> the names its name or pattern matches
  PatternTrack,          \* the COPatternUndoTrack objects
  Deletable,             \* the roots that get deleted and undeleted
  MaxSequenceNumber,     \* bound: commands recorded
  MaxRevid,              \* bound: revisions of a root
  MaxCrashes             \* bound: crashes

ASSUME UndoTrackAssumption ==
  /\ NamesOf \in [Track -> SUBSET TrackName]
  /\ PatternTrack \subseteq Track
  /\ \A i \in Track \ PatternTrack : \E t \in TrackName : NamesOf[i] = {t}
  /\ Deletable \subseteq PersistentRoot
  /\ MaxSequenceNumber \in Nat /\ MaxRevid \in Nat \ {0} /\ MaxCrashes \in Nat

VARIABLES
  objectStore,  \* [rows, revisions, stored, misapplied]: see IsObjectStore
  undoStore,    \* [commands, rows, marked, tracks]: see IsUndoStore
  memory,       \* Track -> what the object has in memory
  baseline,     \* ghost: edits that are there whatever the tracks say
  interrupted,  \* ghost: commands whose undo or redo a crash cut short
  crashes

ghosts == <<baseline, interrupted>>
vars   == <<objectStore, undoStore, memory, ghosts, crashes>>

Placeholder    == 0
SequenceNumber == 1 .. MaxSequenceNumber
Revid          == 1 .. MaxRevid

(* Root and op of a command: COCommandSetCurrentVersionForBranch, or        *)
(* COCommandDeletePersistentRoot and its inverse.                          *)
Operation ==
  [kind : {"set"}, old : Revid, new : Revid, oldHead : Revid, newHead : Revid]
    \cup [kind : {"delete", "undelete"}]

Command == [parent : 0 .. MaxSequenceNumber, trackName : TrackName,
            root : PersistentRoot, operation : Operation]

TrackState == [head : 0 .. MaxSequenceNumber, current : 0 .. MaxSequenceNumber]

(* revisions has every revision ever written, stored those still there.    *)
(* misapplied is a ghost: the edits lost or brought back by merges into a  *)
(* revision that was not written yet (see Merged).                         *)
IsObjectStore(o) ==
  /\ o.rows \in [PersistentRoot -> [current : Revid, head : Revid, deleted : BOOLEAN]]
  /\ o.revisions \in [PersistentRoot -> Seq([parent : 0 .. MaxRevid, edits : SUBSET Revid])]
  /\ \A p \in PersistentRoot :
       {o.rows[p].current, o.rows[p].head} \cup o.stored[p] \cup o.misapplied[p]
         \subseteq DOMAIN o.revisions[p]

(* commands has every command ever recorded, rows those still in the      *)
(* table, marked those of them with deleted = 1.                          *)
IsUndoStore(u) ==
  /\ u.commands \in Seq(Command)
  /\ u.rows \subseteq 1 .. Len(u.commands)
  /\ u.marked \subseteq u.rows
  /\ DOMAIN u.tracks \subseteq TrackName
  /\ u.tracks \in [DOMAIN u.tracks -> TrackState]

(* states is _trackStateForName, parents the parent UUIDs of the commands  *)
(* in _commandsByUUID, nodes _nodesOnCurrentUndoBranch, << >> for nil.     *)
IsMemory(m) ==
  /\ DOMAIN m.states \subseteq TrackName
  /\ m.states \in [DOMAIN m.states -> TrackState]
  /\ DOMAIN m.parents \subseteq SequenceNumber
  /\ m.parents \in [DOMAIN m.parents -> 0 .. MaxSequenceNumber]
  /\ m.nodes \in Seq(0 .. MaxSequenceNumber)

(* Types: of the two databases and of what the track objects remember. *)
UndoTypeOK ==
  /\ IsObjectStore(objectStore)
  /\ IsUndoStore(undoStore)
  /\ DOMAIN memory = Track /\ \A i \in Track : IsMemory(memory[i])
  /\ baseline \in [PersistentRoot -> SUBSET Revid]
  /\ interrupted \subseteq 1 .. Len(undoStore.commands)
  /\ crashes \in 0 .. MaxCrashes

-----------------------------------------------------------------------------
(* The undo store *)

(* f with the value v at x. *)
Put(f, x, v) == [y \in DOMAIN f \cup {x} |-> IF y = x THEN v ELSE f[y]]

NoState == [head |-> 0, current |-> 0]

LiveRows(u) == u.rows \ u.marked

StateForTrackName(u, t) ==
  IF t \in DOMAIN u.tracks /\ u.tracks[t].head \in LiveRows(u)
  THEN [u.tracks[t] EXCEPT !.current = IF @ \in LiveRows(u) THEN @ ELSE 0]
  ELSE NoState

(* A head that is no row any more breaks NOT NULL, and the update is lost. *)
SetTrackState(u, t, state) ==
  IF state.head \in u.rows
  THEN [u EXCEPT !.tracks =
          Put(@, t, [state EXCEPT !.current = IF @ \in u.rows THEN @ ELSE 0])]
  ELSE u

-----------------------------------------------------------------------------
(* A track object; m is its memory, u the undo store *)

Known(m, u) == DOMAIN m.parents \cup LiveRows(u)

ParentOf(m, u, c) ==
  IF c \in DOMAIN m.parents THEN m.parents[c]
  ELSE IF u.commands[c].parent \in u.rows THEN u.commands[c].parent ELSE Placeholder

(* The command and its ancestors, up to the first that is gone. *)
Lineage(m, u, c) ==
  LET known == Known(m, u)
      up[n \in 0 .. Len(u.commands)] ==
        IF n = Placeholder THEN {}
        ELSE {n} \cup (IF n \in known THEN up[ParentOf(m, u, n)] ELSE {})
  IN up[c]

Chain(m, u, c) == Lineage(m, u, c) \cap Known(m, u)

(* Commands by their sequence number *)
Ascending(C) ==
  CHOOSE s \in [1 .. Cardinality(C) -> C] :
    Range(s) = C /\ \A j, k \in DOMAIN s : j < k => s[j] < s[k]

(* -currentNode: the latest of the tracks' current commands. *)
CurrentNode(m, u) ==
  Max({Placeholder}
        \cup ({m.states[t].current : t \in DOMAIN m.states} \cap Known(m, u)))

(* -reloadNodesOnCurrentBranch *)
ReloadNodes(i, m, u) ==
  LET names   == DOMAIN m.states
      branch  == [t \in names |-> Chain(m, u, m.states[t].head)]
      applied == [t \in names |-> IF m.states[t].current \in branch[t]
                                  THEN Chain(m, u, m.states[t].current) ELSE {}]
      walked  == UNION {branch[t] : t \in names}
      undo    == UNION {applied[t] : t \in names}
      redo    == UNION {branch[t] \ applied[t] : t \in names}
      all     == IF i \in PatternTrack \/ names = {} THEN {}
                 ELSE {c \in LiveRows(u) : u.commands[c].trackName \in NamesOf[i]}
  IN [m EXCEPT
        !.parents = [c \in DOMAIN m.parents \cup walked \cup all |-> ParentOf(m, u, c)],
        !.nodes = <<Placeholder>> \o Ascending(undo) \o Ascending(redo)]

(* -reload *)
Reload(i, m, u) ==
  LET names == NamesOf[i] \cap DOMAIN u.tracks
  IN ReloadNodes(i, [m EXCEPT !.states =
                       [t \in names \cup DOMAIN @ |->
                          IF t \in names THEN StateForTrackName(u, t) ELSE @[t]]], u)

(* -loadIfNeeded, of a track object that is asked for its nodes or current *)
(* node for the first time, which is when the application shows it.        *)
Loaded(i, u) == Reload(i, [states |-> << >>, parents |-> << >>, nodes |-> << >>], u)

(* -storeTrackDidChange:, for the tracks a commit changed *)
StoreTrackDidChange(i, m, u, changed) ==
  IF \E t \in DOMAIN changed \cap NamesOf[i] :
       \/ changed[t].head = 0
       \/ t \notin DOMAIN m.states
       \/ m.states[t] # changed[t]
  THEN Reload(i, m, u) ELSE m

(* -commitTransactionWithCompletionHandler: of the undo store: i's own     *)
(* memory becomes m, the other track objects are notified.                 *)
CommitUndoStore(i, m, u, changed) ==
  /\ undoStore' = u
  /\ memory' = [j \in Track |->
                  StoreTrackDidChange(j, IF j = i THEN m ELSE memory[j], u, changed)]

-----------------------------------------------------------------------------
(* The object store; o is its state *)

Edits(o, p, r) == o.revisions[p][r].edits

LastRevid(o, p) == Len(o.revisions[p])

(* A compaction takes a finalized root out with all of its revisions. *)
Exists(p) == objectStore.stored[p] # {}

IsEqualToOrParent(o, p, a, b) ==
  LET reaches[r \in 0 .. LastRevid(o, p)] ==
        r # 0 /\ (r = a \/ reaches[o.revisions[p][r].parent])
  IN reaches[b]

(* Mutant: the row number is taken twice. *)
MutantWriteRevision(o, p, edits) ==
  LET r == LastRevid(o, p) + 2
  IN [o EXCEPT !.revisions[p] = Append(@, [parent |-> o.rows[p].current, edits |-> edits]),
               !.stored[p]    = @ \cup {r},
               !.rows[p]      = [@ EXCEPT !.current = r, !.head = r]]

(* A new revision on top of the current one, made current and head. *)
WriteRevision(o, p, edits) ==
  LET r == LastRevid(o, p) + 1
  IN [o EXCEPT !.revisions[p] = Append(@, [parent |-> o.rows[p].current, edits |-> edits]),
               !.stored[p]    = @ \cup {r},
               !.rows[p]      = [@ EXCEPT !.current = r, !.head = r]]

Inversed(op) ==
  CASE op.kind = "set"      -> [op EXCEPT !.old = op.new, !.new = op.old,
                                          !.oldHead = op.newHead, !.newHead = op.oldHead]
    [] op.kind = "delete"   -> [kind |-> "undelete"]
    [] op.kind = "undelete" -> [kind |-> "delete"]

(* -diffToSelectivelyApplyToBranchCurrentRevision:assumingEditingContext:, *)
(* applied: the difference the operation made, merged with everybody       *)
(* else's.                                                                 *)
SelectivelyApplied(o, p, op) ==
  LET current == Edits(o, p, o.rows[p].current)
      old == Edits(o, p, op.old)
      new == Edits(o, p, op.new)
  IN (current \ (old \ new)) \cup (new \ old)

(* Mutant: the current revision is never asked for. *)
MutantMerged(o, p, op) == Edits(o, p, op.old)

(* What the code's merge gives.  It asks the store for the current         *)
(* revision, and gets nil for one that the transaction itself is to write: *)
(* the merge is then empty, and the operation's old revision is the result.*)
Merged(o, p, op) ==
  IF o.rows[p].current \in objectStore.stored[p]
  THEN SelectivelyApplied(o, p, op) ELSE Edits(o, p, op.old)

(* It is written; the ghost takes down where it went wrong. *)
WriteMerge(o, p, op) ==
  [WriteRevision(o, p, Merged(o, p, op)) EXCEPT
     !.misapplied[p] = @ \cup SymDiff(Merged(o, p, op), SelectivelyApplied(o, p, op))]

KeepsHead(o, p, op) == IsEqualToOrParent(o, p, op.newHead, op.oldHead)

(* Mutant: the revision is set whatever the current one is. *)
MutantAddToStoreTransaction(o, p, op) ==
  IF op.kind # "set" THEN [o EXCEPT !.rows[p].deleted = op.kind = "delete"]
  ELSE [o EXCEPT !.rows[p] = [@ EXCEPT !.current = op.new,
                                !.head = IF KeepsHead(o, p, op) THEN @ ELSE op.newHead]]

(* -addToStoreTransaction:withRevisionMetadata:assumingEditingContextState:*)
(* o is the store with the transaction so far applied.                     *)
AddToStoreTransaction(o, p, op) ==
  CASE op.kind # "set" -> [o EXCEPT !.rows[p].deleted = op.kind = "delete"]
    [] op.kind = "set" /\ o.rows[p].current = op.old ->
         [o EXCEPT !.rows[p] = [@ EXCEPT !.current = op.new,
                     !.head = IF KeepsHead(o, p, op) THEN o.rows[p].head ELSE op.newHead]]
    [] OTHER -> WriteMerge(o, p, op)

-----------------------------------------------------------------------------
(* What the tracks say of the store *)

(* The edits that are in one of the operation's revisions and not in the   *)
(* other, and those of the commands of C.                                  *)
TouchedBy(o, p, op) ==
  IF op.kind = "set" THEN SymDiff(Edits(o, p, op.old), Edits(o, p, op.new)) ELSE {}

CommandsOn(u, C, p) == {c \in C : u.commands[c].root = p}

Touched(o, u, C, p) ==
  UNION {TouchedBy(o, p, u.commands[c].operation) : c \in CommandsOn(u, C, p)}

(* The command and those recorded on top of each other before it. *)
AncestorsAndSelf(u, c) ==
  LET up[n \in 0 .. Len(u.commands)] ==
        IF n = 0 THEN {} ELSE {n} \cup up[u.commands[n].parent]
  IN up[c]

(* The commands that are applied: those up to the current ones. *)
AppliedCommands(u) ==
  UNION {AncestorsAndSelf(u, u.tracks[t].current) : t \in DOMAIN u.tracks}

(* The edits the root has when the last command of C that made or took     *)
(* back an edit decides on it.                                             *)
EditsAfter(o, u, C, p) ==
  LET touching(e) == {c \in CommandsOn(u, C, p) : e \in TouchedBy(o, p, u.commands[c].operation)}
      touched == Touched(o, u, C, p)
  IN (baseline[p] \ touched)
       \cup {e \in touched : e \in Edits(o, p, u.commands[Max(touching(e))].operation.new)}

-----------------------------------------------------------------------------
(* Recording *)

Init ==
  /\ objectStore = [rows |-> [p \in PersistentRoot |->
                                [current |-> 1, head |-> 1, deleted |-> FALSE]],
                    revisions |-> [p \in PersistentRoot |-> <<[parent |-> 0, edits |-> {}]>>],
                    stored |-> [p \in PersistentRoot |-> {1}],
                    misapplied |-> [p \in PersistentRoot |-> {}]]
  /\ undoStore = [commands |-> << >>, rows |-> {}, marked |-> {}, tracks |-> << >>]
  /\ memory = [i \in Track |-> Loaded(i, undoStore)]
  /\ baseline = [p \in PersistentRoot |-> {}]
  /\ interrupted = {}
  /\ crashes = 0

(* The command for a commit that took the root's row from one to the other.*)
CommandFor(p, from, to) ==
  IF from.deleted # to.deleted
  THEN [kind |-> IF to.deleted THEN "delete" ELSE "undelete"]
  ELSE [kind |-> "set", old |-> from.current, new |-> to.current,
        oldHead |-> from.head, newHead |-> to.head]

(* -recordCommand:.  The parent is the current command of the store, which *)
(* is compared with the memory first.                                      *)
RecordCommand(i, p, op) ==
  LET u == undoStore
      t == CHOOSE t \in NamesOf[i] : TRUE
      n == Len(u.commands) + 1
      parent == StateForTrackName(u, t).current
      state  == [head |-> n, current |-> n]
      added  == [u EXCEPT !.commands = Append(@, [parent |-> parent, trackName |-> t,
                                                  root |-> p, operation |-> op]),
                          !.rows = @ \cup {n}]
      stored == SetTrackState(added, t, state)
      held   == [memory[i] EXCEPT !.states = Put(@, t, state),
                              !.parents = Put(@, n, parent)]
  IN CommitUndoStore(i, ReloadNodes(i, held, stored), stored, [s \in {t} |-> state])

MayRecord(i) == i \notin PatternTrack /\ Len(undoStore.commands) < MaxSequenceNumber

(* A commit that takes the object store to o and is recorded on i. *)
RecordedCommit(i, p, o) ==
  /\ MayRecord(i)
  /\ LastRevid(o, p) <= MaxRevid
  /\ objectStore' = o
  /\ RecordCommand(i, p, CommandFor(p, objectStore.rows[p], o.rows[p]))
  /\ UNCHANGED <<ghosts, crashes>>

(* An edit, named by the revision that makes it. *)
NewEdit(o, p) == WriteRevision(o, p, Edits(o, p, o.rows[p].current) \cup {LastRevid(o, p) + 1})

Commit(i, p) ==
  /\ ~objectStore.rows[p].deleted
  /\ RecordedCommit(i, p, NewEdit(objectStore, p))

(* A commit without an undo track, and one whose process ends before the   *)
(* command is recorded.                                                    *)
CommitUnrecorded(p) ==
  /\ ~objectStore.rows[p].deleted
  /\ LastRevid(objectStore, p) < MaxRevid
  /\ objectStore' = NewEdit(objectStore, p)
  /\ baseline' = [baseline EXCEPT ![p] = @ \cup {LastRevid(objectStore, p) + 1}]
  /\ UNCHANGED <<undoStore, memory, interrupted, crashes>>

AtRevision(o, p, r) ==
  [o EXCEPT !.rows[p] = [@ EXCEPT !.current = r,
     !.head = IF IsEqualToOrParent(o, p, r, o.rows[p].head) THEN o.rows[p].head ELSE r]]

(* -[COBranch setCurrentRevision:], committed *)
Revert(i, p, r) ==
  /\ ~objectStore.rows[p].deleted
  /\ r \in objectStore.stored[p] \ {objectStore.rows[p].current}
  /\ RecordedCommit(i, p, AtRevision(objectStore, p, r))

SetDeleted(i, p, deleted) ==
  /\ p \in Deletable /\ Exists(p)
  /\ objectStore.rows[p].deleted # deleted
  /\ RecordedCommit(i, p, [objectStore EXCEPT !.rows[p].deleted = deleted])

(* -applyToContext:, and what the commit after it leaves in the store *)
AppliedToContext(o, p, op) ==
  CASE op.kind # "set" -> [o EXCEPT !.rows[p].deleted = op.kind = "delete"]
    [] op.kind = "set" /\ o.rows[p].current = op.old ->
         IF KeepsHead(o, p, op) THEN AtRevision(o, p, op.new)
         ELSE [o EXCEPT !.rows[p] = [@ EXCEPT !.current = op.new, !.head = op.newHead]]
    [] OTHER ->
         LET edits == SelectivelyApplied(o, p, op)
         IN IF edits = Edits(o, p, o.rows[p].current) THEN o ELSE WriteRevision(o, p, edits)

(* -undoNode: and -redoNode: record a command of their own.  When nothing  *)
(* changes, the commit is empty.                                           *)
SelectiveApply(i, c, op) ==
  LET p == undoStore.commands[c].root
      o == AppliedToContext(objectStore, p, op)
  IN /\ MayRecord(i)
     /\ c \in DOMAIN memory[i].parents
     /\ Exists(p) /\ (op.kind = "set" => ~objectStore.rows[p].deleted)
     /\ o # objectStore
     /\ RecordedCommit(i, p, o)

UndoNode(i, c) == SelectiveApply(i, c, Inversed(undoStore.commands[c].operation))

RedoNode(i, c) == SelectiveApply(i, c, undoStore.commands[c].operation)

-----------------------------------------------------------------------------
(* Moving along a track *)

Position(m, n) == CHOOSE k \in DOMAIN m.nodes : m.nodes[k] = n

(* The steps from one position of the nodes to another. *)
StepsAlong(m, from, to) ==
  IF to < from
  THEN [k \in 1 .. from - to |-> [command |-> m.nodes[from - k + 1], inverse |-> TRUE]]
  ELSE [k \in 1 .. to - from |-> [command |-> m.nodes[from + k], inverse |-> FALSE]]

ReachesPlaceholder(m, u, n) == Lineage(m, u, n) \subseteq Known(m, u)

(* -commonAncestorForNode:andNode: *)
CommonAncestor(m, u, a, b) ==
  Max({Placeholder} \cup (Chain(m, u, a) \cap Chain(m, u, b)))

(* -nodesFromNode:toTargetNode: *)
StepsToDescendant(m, u, from, to) ==
  LET between == Ascending(Chain(m, u, to) \ Chain(m, u, from))
  IN [k \in DOMAIN between |-> [command |-> between[k], inverse |-> FALSE]]

IsDivergent(m, n) == n \notin Range(m.nodes)

(* -setCurrentNode: and -setCurrentNodeToDivergentNode:, up to -undo:redo: *)
StepsTo(m, u, n) ==
  LET current == CurrentNode(m, u)
      common  == CommonAncestor(m, u, current, n)
      along(to) == StepsAlong(m, Position(m, current), Position(m, to))
  IN IF IsDivergent(m, n) THEN along(common) \o StepsToDescendant(m, u, common, n)
     ELSE along(n)

(* Its ETAsserts hold, and the node is one the track object has. *)
MayMoveTo(i, m, u, n) ==
  LET current == CurrentNode(m, u)
  IN /\ n # current
     /\ current \in Range(m.nodes)
     /\ IsDivergent(m, n) =>
          /\ i \notin PatternTrack /\ n \in DOMAIN m.parents
          /\ ReachesPlaceholder(m, u, current)
          /\ CommonAncestor(m, u, current, n) = Placeholder => ReachesPlaceholder(m, u, n)

(* Mutant: the head stays. *)
MutantHeadAfter(m, u, head, current) == head

(* The head stays when the new current command is on its branch. *)
HeadAfter(m, u, head, current) ==
  IF current \in {Placeholder} \cup Lineage(m, u, head) THEN head ELSE current

(* -doCommand:inverse:addToStoreTransaction: *)
DoCommand(done, step) ==
  LET m == done.m
      u == done.u
      c == u.commands[step.command]
      t == c.trackName
      head    == m.states[t].head
      current == IF step.inverse THEN m.parents[step.command] ELSE step.command
      state   == [current |-> current, head |-> HeadAfter(m, u, head, current)]
  IN [o |-> AddToStoreTransaction(done.o, c.root,
                                  IF step.inverse THEN Inversed(c.operation) ELSE c.operation),
      u |-> SetTrackState(u, t, state),
      m |-> [m EXCEPT !.states[t] = state]]

(* -undo:redo:, one command after another *)
Done(i, steps) ==
  LET done[k \in 0 .. Len(steps)] ==
        IF k = 0 THEN [o |-> objectStore, u |-> undoStore, m |-> memory[i]]
        ELSE DoCommand(done[k - 1], steps[k])
  IN done[Len(steps)]

CommandsOf(steps) == {steps[k].command : k \in DOMAIN steps}

(* The assertion that the commands' roots are there, and the bound.        *)
MayCommit(o, C) ==
  \A p \in PersistentRoot :
    /\ CommandsOn(undoStore, C, p) # {} => Exists(p)
    /\ LastRevid(o, p) <= MaxRevid

(* Mutant: the nodes of a pattern are kept. *)
MutantNodesAfterMove(i, done, n) ==
  IF IsDivergent(done.m, n) THEN ReloadNodes(i, done.m, done.u) ELSE done.m

(* A move can reorder the commands of a pattern, and one to a divergent    *)
(* node changes the branch.                                                *)
NodesAfterMove(i, done, n) ==
  IF i \in PatternTrack \/ IsDivergent(done.m, n)
  THEN ReloadNodes(i, done.m, done.u) ELSE done.m

(* The undo store commits, after the object store. *)
CommitMove(i, n, steps, done) ==
  /\ CommitUndoStore(i, NodesAfterMove(i, done, n), done.u,
                     [t \in {undoStore.commands[c].trackName : c \in CommandsOf(steps)} |->
                        done.m.states[t]])
  /\ interrupted' = interrupted \cup (CommandsOf(steps) \ undoStore.rows)
  /\ UNCHANGED crashes

Crash ==
  /\ crashes' = crashes + 1
  /\ memory' = [i \in Track |-> Loaded(i, undoStore')]

(* The process ends in between. *)
CrashInMove(steps) ==
  /\ crashes < MaxCrashes
  /\ interrupted' = interrupted \cup CommandsOf(steps)
  /\ UNCHANGED undoStore
  /\ Crash

(* -setCurrentNode:, of which -undo and -redo are the cases to a neighbour *)
SetCurrentNode(i, n) ==
  LET m     == memory[i]
      steps == StepsTo(m, undoStore, n)
      done  == Done(i, steps)
  IN /\ MayMoveTo(i, m, undoStore, n)
     /\ MayCommit(done.o, CommandsOf(steps))
     /\ objectStore' = done.o
     /\ CommitMove(i, n, steps, done) \/ CrashInMove(steps)
     /\ UNCHANGED baseline

-----------------------------------------------------------------------------

Next ==
  \/ \E p \in PersistentRoot : CommitUnrecorded(p)
  \/ \E i \in Track :
       \/ \E p \in PersistentRoot :
            \/ Commit(i, p)
            \/ \E r \in Revid : Revert(i, p, r)
            \/ \E deleted \in BOOLEAN : SetDeleted(i, p, deleted)
       \/ \E c \in DOMAIN memory[i].parents : UndoNode(i, c) \/ RedoNode(i, c)
       \/ \E n \in {Placeholder} \cup DOMAIN memory[i].parents : SetCurrentNode(i, n)

Spec == Init /\ [][Next]_vars

-----------------------------------------------------------------------------
(* Properties *)

(* Commands of different tracks, or of different branches of which one was  *)
(* discarded by a compaction: none of them is the later one.               *)
Unordered(c, d) ==
  \/ undoStore.commands[c].trackName # undoStore.commands[d].trackName
  \/ /\ c \notin LiveRows(undoStore)
     /\ c \notin AncestorsAndSelf(undoStore, d)
     /\ d \notin AncestorsAndSelf(undoStore, c)

Contested(p) ==
  LET on == CommandsOn(undoStore, DOMAIN undoStore.commands, p)
      touched(c) == TouchedBy(objectStore, p, undoStore.commands[c].operation)
      pairs == {q \in on \X on : Unordered(q[1], q[2])}
  IN UNION {touched(q[1]) \cap touched(q[2]) : q \in pairs}

(* The edits that a root has and the tracks do not say, or lacks and they  *)
(* say: an edit should be there when the last applied command that made it *)
(* or took it back says so.  (Left out are edits of a command whose undo   *)
(* or redo a crash cut short, also when the command is undone or redone    *)
(* again: a command recorded in between starts from a revision the tracks  *)
(* do not speak of.)                                                       *)
Astray(p) ==
  LET applied == AppliedCommands(undoStore) \cap LiveRows(undoStore)
      current == Edits(objectStore, p, objectStore.rows[p].current)
      told    == EditsAfter(objectStore, undoStore, applied, p)
  IN SymDiff(current, told)
       \ (Touched(objectStore, undoStore, interrupted, p) \cup Contested(p))

(* What a root holds is what the tracks say, whichever commands were       *)
(* undone and redone, in whatever order, on one track, on several, through *)
(* a pattern, selectively, or beside commits no track knows, but for the   *)
(* edits that a move misapplied: one that merged into a root again, after  *)
(* a merge in the same transaction, and so read the first merge's revision *)
(* as nothing.  (Without this exception it is false: two recorded commits, *)
(* a revert between them or a foreign one after, and a jump back by two.)  *)
StoreFollowsTracks ==
  \A p \in PersistentRoot : Astray(p) \subseteq objectStore.misapplied[p]

(* The exception is no wider: only a move that writes two revisions of a   *)
(* root misapplies edits, so one merge keeps everybody's changes, whatever *)
(* commits, reverts and other moves came before it.                        *)
OneMergeIsRight ==
  [][\A p \in PersistentRoot :
       objectStore'.misapplied[p] # objectStore.misapplied[p]
         => LastRevid(objectStore', p) >= LastRevid(objectStore, p) + 2]_vars

(* Every loaded track object shows what one that is loaded now would show, *)
(* in the same order, with the same current node, and a plain track every  *)
(* command of the track, the divergent ones too.                           *)
TracksShowTheStore ==
  \A i \in Track :
    LET m == memory[i]
        fresh == Loaded(i, undoStore)
    IN /\ m.nodes = fresh.nodes
       /\ CurrentNode(m, undoStore) = CurrentNode(fresh, undoStore)
       /\ i \notin PatternTrack => DOMAIN m.parents = DOMAIN fresh.parents

(* The current command of a track is on the branch its head ends, and both *)
(* are rows, after a crash too.                                            *)
TrackRowsHold ==
  \A t \in DOMAIN undoStore.tracks :
    LET state == undoStore.tracks[t]
    IN /\ state.head \in undoStore.rows
       /\ state.current \in
            {0} \cup (undoStore.rows \cap AncestorsAndSelf(undoStore, state.head))

=============================================================================
