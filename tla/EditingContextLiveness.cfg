SPECIFICATION FairSpec
CONSTANTS
  Context = {c1, c2}
  PersistentRoot = {p1}
  MaxRevision = 1
  MaxTransactionID = 3
  MaxLosses = 0
  SurvivesExceptions = FALSE
PROPERTY StaleRootsAreReloaded
