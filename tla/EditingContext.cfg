SPECIFICATION Spec
CONSTANTS
  Context = {c1, c2}
  PersistentRoot = {p1}
  MaxRevision = 2
  MaxTransactionID = 3
  MaxLosses = 1
  SurvivesExceptions = FALSE
SYMMETRY Symmetric
INVARIANTS
  TypeOK
  CurrentRevisionsStored
  IdsProveFreshness
  QuietContextIsCurrent
PROPERTY NoLostUpdate
