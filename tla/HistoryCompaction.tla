-------------------------- MODULE HistoryCompaction --------------------------
(***************************************************************************)
(* Compacting the history up to a command of an undo track                 *)
(* (Undo/COUndoTrackHistoryCompaction.m, Store/COHistoryCompaction.m), on  *)
(* top of undoing and redoing.  -compactHistory: marks the discarded       *)
(* commands as deleted, collects roots and revisions in the object store,  *)
(* and deletes the marked commands, each in a transaction of its own.  The *)
(* application waits for it, a crash does not.                             *)
(***************************************************************************)
EXTENDS UndoTrack

CONSTANTS
  Compacted,               \* the track objects that histories are compacted on
  CollectsCurrentRevision  \* also where that collects a root's current revision or head?

ASSUME HistoryCompactionAssumption ==
  Compacted \subseteq Track /\ CollectsCurrentRevision \in BOOLEAN

VARIABLE compaction  \* the COUndoTrackHistoryCompaction under way

compactionVars == <<vars, compaction>>

(* finalizable and live (of the compactable roots) are what -compute made. *)
Idle == [phase |-> "idle", finalizable |-> {}, live |-> << >>]

(* Types: those of the tracks, and of the strategy. *)
CompactionTypeOK ==
  /\ UndoTypeOK
  /\ compaction.phase \in {"idle", "begun", "collected"}
  /\ compaction.finalizable \subseteq PersistentRoot
  /\ DOMAIN compaction.live \subseteq PersistentRoot \ compaction.finalizable
  /\ \A p \in DOMAIN compaction.live : compaction.live[p] \in (SUBSET Revid) \ {{}}

-----------------------------------------------------------------------------
(* -compute; C is -allCommands of the track, D those of them to discard *)

OperationOf(c) == undoStore.commands[c].operation

(* Mutant: newer commands than the current one may be discarded. *)
MutantNewestCommandToDiscard(i, c) == c

NewestCommandToDiscard(i, c) == Min({c, CurrentNode(memory[i], undoStore)})

RootsOf(C) == {undoStore.commands[c].root : c \in C}

(* -scanPersistentRoots: no live command, and the last dead one a deletion *)
FinalizableRoots(C, D) ==
  {p \in RootsOf(D) \ RootsOf(C \ D) :
     OperationOf(Max(CommandsOn(undoStore, D, p))).kind = "delete"}

(* Mutant: a deletion leaves the root among the compactable ones. *)
MutantCompactableRoots(C, D) == RootsOf(C)

CompactableRoots(C, D) == RootsOf(C) \ FinalizableRoots(C, D)

RevisionsOf(op) ==
  IF op.kind = "set" THEN {op.old, op.new, op.oldHead, op.newHead} ELSE {}

Sets(C, p) == {c \in CommandsOn(undoStore, C, p) : OperationOf(c).kind = "set"}

(* Mutant: of a live command, only the revision it sets is live. *)
MutantLiveRevisions(C, D, p) ==
  LET live == {OperationOf(c).new : c \in Sets(C \ D, p)}
  IN IF live = {} THEN {OperationOf(Max(Sets(D, p))).new} ELSE live

(* -scanRevisions and -chooseLiveRevisionsIfFoundNone *)
LiveRevisions(C, D, p) ==
  LET live == UNION {RevisionsOf(OperationOf(c)) : c \in Sets(C \ D, p)}
  IN IF live = {} THEN {OperationOf(Max(Sets(D, p))).new} ELSE live

(* It raises on a live undeletion, which has no initial revision, and on a *)
(* root that no command has a revision of.                                 *)
IsComputable(C, D) ==
  /\ \A c \in C \ D : OperationOf(c).kind # "undelete"
  /\ \A p \in CompactableRoots(C, D) : Sets(C, p) # {}

(* Are the current revisions of the roots, and the heads, among those that *)
(* will be kept?                                                           *)
KeepsCurrentRevisions(C, D) ==
  /\ \A p \in CompactableRoots(C, D) :
       \A r \in {objectStore.rows[p].current, objectStore.rows[p].head} :
         r >= Min(LiveRevisions(C, D, p))
  /\ \A p \in FinalizableRoots(C, D) :
       LET row == objectStore.rows[p]
       IN row.deleted \/ IsEqualToOrParent(objectStore, p, row.current, row.head)

-----------------------------------------------------------------------------
(* Phases *)

(* -markCommandsAsDeletedForUUIDs:, with the notifications that clear the  *)
(* caches of the track objects                                             *)
MarkCommandsAsDeleted(D) ==
  LET u == [undoStore EXCEPT !.marked = @ \cup (D \cap undoStore.rows)]
      changed == {u.commands[c].trackName : c \in u.marked}
  IN /\ undoStore' = u
     /\ memory' = [i \in Track |->
                     IF NamesOf[i] \cap changed = {} THEN memory[i]
                     ELSE Reload(i, [memory[i] EXCEPT !.parents = << >>], u)]

(* -initWithUndoTrack:upToCommand:, -compute and -beginCompaction.  (Not   *)
(* once the object is left with a divergent command that a compaction of   *)
(* the whole track deleted: see FinalizeDeletions.)                        *)
BeginCompaction(i, c) ==
  LET C == DOMAIN memory[i].parents
      newest == NewestCommandToDiscard(i, c)
      D == {d \in C : d <= newest}
  IN /\ compaction.phase = "idle"
     /\ i \in Compacted /\ c \in C
     /\ C \subseteq LiveRows(undoStore)
     /\ newest # Placeholder
     /\ newest \in Range(memory[i].nodes)
     /\ IsComputable(C, D)
     /\ CollectsCurrentRevision \/ KeepsCurrentRevisions(C, D)
     /\ compaction' = [phase |-> "begun", finalizable |-> FinalizableRoots(C, D),
                       live |-> [p \in CompactableRoots(C, D) |-> LiveRevisions(C, D, p)]]
     /\ MarkCommandsAsDeleted(D)
     /\ baseline' = [p \in PersistentRoot |->
                       EditsAfter(objectStore, undoStore, AppliedCommands(undoStore) \cap D, p)]
     /\ UNCHANGED <<objectStore, interrupted, crashes>>

FinalizedRoots == {p \in compaction.finalizable : objectStore.rows[p].deleted}

(* What is reachable from the head, or, if there are live revisions, all   *)
(* from the first of them on.                                              *)
KeptRevisions(p) ==
  IF p \in DOMAIN compaction.live
  THEN {r \in Revid : r >= Min(compaction.live[p])}
  ELSE {r \in Revid : IsEqualToOrParent(objectStore, p, r, objectStore.rows[p].head)}

(* The transaction of -compactHistory: in the object store *)
CompactHistory ==
  /\ compaction.phase = "begun"
  /\ compaction' = [compaction EXCEPT !.phase = "collected"]
  /\ objectStore' = [objectStore EXCEPT !.stored =
       [p \in PersistentRoot |->
          CASE p \in FinalizedRoots -> {}
            [] p \in (compaction.finalizable \ FinalizedRoots) \cup DOMAIN compaction.live ->
                 @[p] \cap KeptRevisions(p)
            [] OTHER -> @[p]]]
  /\ UNCHANGED <<undoStore, memory, ghosts, crashes>>

CompactedTracks(u) == {u.commands[c].trackName : c \in u.marked}

EmptyTracks(u) == {t \in CompactedTracks(u) : StateForTrackName(u, t).head = 0}

(* Mutant: the current command of a track that is kept is not reset. *)
MutantFinalizeDeletions(u, blocked) ==
  LET emptied == {c \in u.rows : u.commands[c].trackName \in EmptyTracks(u)}
      deleted == emptied \cup u.marked
  IN [u EXCEPT !.rows = @ \ deleted,
               !.marked = @ \ deleted,
               !.tracks = [t \in DOMAIN @ \ EmptyTracks(u) |-> @[t]]]

(* Mutant: the current command of a track that is kept is always reset. *)
MutantFinalizeDeletionsReset(u, blocked) ==
  LET emptied == {c \in u.rows : u.commands[c].trackName \in EmptyTracks(u)}
      kept    == CompactedTracks(u) \ EmptyTracks(u)
      deleted == emptied \cup (IF kept = {} \/ blocked THEN {} ELSE u.marked)
  IN [u EXCEPT !.rows = @ \ deleted,
               !.marked = @ \ deleted,
               !.tracks = [t \in DOMAIN @ \ EmptyTracks(u) |->
                             IF t \in kept THEN [@[t] EXCEPT !.current = 0] ELSE @[t]]]

(* -finalizeDeletions.  When one track is emptied and another not, the     *)
(* deletion of the marked commands may meet a foreign key of the emptied   *)
(* track, and leaves them all.                                             *)
FinalizeDeletions(u, blocked) ==
  LET emptied == {c \in u.rows : u.commands[c].trackName \in EmptyTracks(u)}
      kept    == CompactedTracks(u) \ EmptyTracks(u)
      deleted == emptied \cup (IF kept = {} \/ blocked THEN {} ELSE u.marked)
  IN [u EXCEPT !.rows = @ \ deleted,
               !.marked = @ \ deleted,
               !.tracks = [t \in DOMAIN @ \ EmptyTracks(u) |->
                             IF t \in kept THEN StateForTrackName(u, t) ELSE @[t]]]

(* -endCompaction: *)
EndCompaction ==
  /\ compaction.phase = "collected"
  /\ compaction' = Idle
  /\ \E blocked \in BOOLEAN :
       /\ blocked => /\ EmptyTracks(undoStore) # {}
                     /\ EmptyTracks(undoStore) # CompactedTracks(undoStore)
       /\ undoStore' = FinalizeDeletions(undoStore, blocked)
  /\ UNCHANGED <<objectStore, memory, ghosts, crashes>>

CrashInCompaction ==
  /\ crashes < MaxCrashes
  /\ compaction.phase # "idle"
  /\ compaction' = Idle
  /\ UNCHANGED <<objectStore, undoStore, ghosts>>
  /\ Crash

-----------------------------------------------------------------------------

CompactionInit == Init /\ compaction = Idle

CompactionNext ==
  \/ compaction.phase = "idle" /\ Next /\ UNCHANGED compaction
  \/ \E i \in Compacted : \E c \in DOMAIN memory[i].parents : BeginCompaction(i, c)
  \/ CompactHistory
  \/ EndCompaction
  \/ CrashInCompaction

CompactionSpec == CompactionInit /\ [][CompactionNext]_compactionVars

-----------------------------------------------------------------------------
(* Properties *)

(* Whatever can still be undone or redone on a compacted track finds its   *)
(* root and its revisions in the store, between the phases and after a     *)
(* crash too.                                                              *)
LiveRevisionsKept ==
  \A c \in LiveRows(undoStore) :
    LET stored == objectStore.stored[undoStore.commands[c].root]
    IN stored # {} /\ RevisionsOf(OperationOf(c)) \subseteq stored

(* The revision a root shows is never collected. *)
CurrentRevisionKept ==
  interrupted = {} =>
    \A p \in PersistentRoot :
      objectStore.stored[p] = {} \/ objectStore.rows[p].current \in objectStore.stored[p]

(* COUndoTrackHistoryCompaction.h: only the tail is cut.  What a track     *)
(* object could redo before a phase it can redo after it.                  *)
Redoable(i) ==
  LET m == memory[i]
  IN {m.nodes[k] : k \in {k \in DOMAIN m.nodes : k > Position(m, CurrentNode(m, undoStore))}}

RedoKept ==
  [][compaction' # compaction => \A i \in Track : Redoable(i) = Redoable(i)']_compactionVars

=============================================================================
