SPECIFICATION Spec
CONSTANTS
  Attribute = {"text", "tags", "name", "left", "right"}
  Ordered = {"text", "left", "right"}
  Unordered = {"tags"}
  Composite = {"left", "right"}
  Value = {1, 2, 3, 4}
  Input <- MCInput
CHECK_DEADLOCK FALSE
INVARIANTS
  DiffTypeOK
  DiffsRoundTrip
  DiffsAreShortest
  ConflictsFound
  FavoredSideWins
  MergesKeepBothSides
  MergesAreGraphs
