SPECIFICATION CompactionSpec
CONSTANTS
  x = x
  X = X
  PersistentRoot = {p}
  TrackName = {X}
  Track = {x}
  Compacted = {x}
  NamesOf <- MCNamesOf
  PatternTrack = {}
  Deletable = {p}
  MaxSequenceNumber = 3
  MaxRevid = 4
  MaxCrashes = 1
  CollectsCurrentRevision = FALSE
CHECK_DEADLOCK FALSE
INVARIANTS
  CompactionTypeOK
  StoreFollowsTracks
  TrackRowsHold
  LiveRevisionsKept
PROPERTY RedoKept
