SPECIFICATION Spec
CONSTANTS
  me = me
  other = other
  p1 = p1
  p2 = p2
  Runs = {1, 2}
  Users = {me, other}
  Me = me
  Publishers = {p1, p2}
  UserLimit = 2
  SnapshotLimit = 1
  ReadCount = 2
  MaxVersion <- OlderChanges
  Sought = {1}
  MaxTrims = 1
  NoCursor = NoCursor
SYMMETRY Symmetric
INVARIANTS
  CursorIsEarned
PROPERTIES
  NeverGoesBack
  MetadataLossNeedsOverlap
CHECK_DEADLOCK FALSE
