SPECIFICATION CompactionSpec
CONSTANTS
  x = x
  X = X
  PersistentRoot = {p}
  TrackName = {X}
  Track = {x}
  Compacted = {x}
  NamesOf <- MCNamesOf
  PatternTrack = {}
  Deletable = {p}
  MaxSequenceNumber = 3
  MaxRevid = 4
  MaxCrashes = 0
  CollectsCurrentRevision = TRUE
CHECK_DEADLOCK FALSE
INVARIANTS
  CurrentRevisionKept
