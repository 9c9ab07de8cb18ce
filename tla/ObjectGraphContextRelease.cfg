SPECIFICATION ContextSpec
CONSTANTS
  x = x
  y = y
  leaf = leaf
  toY = toY
  Item <- MCItem
  RootItem <- MCRootItem
  Data <- MCData
  References <- MCReferences
  NoItem = NoItem
  Revision = {r1, r2, r3}
  NoRevision = NoRevision
  MaxNumberOfDeltaCommits = 2
  MaxRevid = 2
  GCInterval = 3
SYMMETRY RevisionSymmetry
INVARIANT
  CommitsReadBack
