SPECIFICATION Spec
CONSTANTS
  x = x
  y = y
  leaf = leaf
  toY = toY
  Item <- MCItem
  RootItem <- MCRootItem
  Data <- MCData
  References <- MCReferences
  NoItem = NoItem
  Revision = {r1, r2, r3}
  NoRevision = NoRevision
  MaxNumberOfDeltaCommits = 3
  MaxRevid = 3
SYMMETRY RevisionSymmetry
INVARIANTS
  DeltaRunsUnbroken
  BackingStoreInv
  StoredGraphsComplete
  PartialGraphsSuffice
PROPERTY
  ImplementsRevisionStore
