------------------------ MODULE MCObjectGraphContext ------------------------
(* One root object that may or may not refer to a child.                   *)
EXTENDS ObjectGraphContext, TLC

CONSTANTS x, y, leaf, toY

MCItem == {x, y}
MCRootItem == {x}
MCData == {leaf, toY}
MCReferences == (leaf :> {}) @@ (toY :> {y})

RevisionSymmetry == Permutations(Revision)
=============================================================================
