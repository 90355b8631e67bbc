SPECIFICATION Spec
CONSTANTS
  w1 = w1
  w2 = w2
  s1 = s1
  s2 = s2
  Nobody = Nobody
  Jobs = {1}
  Workers = {w1, w2}
  Senders = {s1, s2}
  MaxAttempts = 2
  MaxActive = 1
  MaxFiles = 1
  MaxMessages = 1
  BrokerMayLose = TRUE
SYMMETRY Symmetric
INVARIANTS
  ReadyHasFile
  NothingIsKept
PROPERTIES
  RefinesLife
