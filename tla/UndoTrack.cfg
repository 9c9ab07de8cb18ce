SPECIFICATION Spec
CONSTANTS
  x = x
  y = y
  both = both
  X = X
  Y = Y
  PersistentRoot = {p}
  TrackName = {X, Y}
  Track = {x, y, both}
  NamesOf <- MCNamesOf
  PatternTrack = {both}
  Deletable = {p}
  MaxSequenceNumber = 3
  MaxRevid = 5
  MaxCrashes = 1
SYMMETRY Symmetric
CHECK_DEADLOCK FALSE
INVARIANTS
  UndoTypeOK
  StoreFollowsTracks
  TracksShowTheStore
  TrackRowsHold
PROPERTY OneMergeIsRight
CONSTRAINTS
  ShorterAfterCrash
  LongerOnOneTrack
