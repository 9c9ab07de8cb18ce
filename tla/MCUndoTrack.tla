---------------------------- MODULE MCUndoTrack ----------------------------
(* Two track objects, each of one track, and one that shows both. *)
EXTENDS UndoTrack

CONSTANTS x, y, both, X, Y

MCNamesOf == [i \in Track |-> CASE i = x -> {X} [] i = y -> {Y} [] i = both -> {X, Y}]

(* The two tracks, each with its object, may be swapped. *)
Symmetric == {f \in Permutations({x, y, X, Y}) :
                f[x] \in {x, y} /\ f[X] \in {X, Y} /\ (f[x] = x) = (f[X] = X)}

(* After a crash, only histories of one command less go on. *)
ShorterAfterCrash == Len(undoStore.commands) + crashes <= MaxSequenceNumber

(* The fifth revision of a root, which a move needs to merge twice after   *)
(* other commits, ends a behaviour in which both tracks are used, or with  *)
(* no command left to record.                                              *)
LongerOnOneTrack ==
  \A r \in PersistentRoot :
    LastRevid(objectStore, r) = MaxRevid =>
      /\ Len(undoStore.commands) + crashes < MaxSequenceNumber
      /\ Cardinality(DOMAIN undoStore.tracks) <= 1

=============================================================================
