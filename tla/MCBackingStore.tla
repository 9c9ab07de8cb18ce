--------------------------- MODULE MCBackingStore ---------------------------
(* A small backing store: two items, of which one may refer to the other   *)
(* or to itself.                                                           *)
EXTENDS BackingStore, TLC

CONSTANTS x, y, leaf, toY

MCItem == {x, y}
MCRootItem == {x}
MCData == {leaf, toY}
MCReferences == (leaf :> {}) @@ (toY :> {y})

RevisionSymmetry == Permutations(Revision)
=============================================================================
