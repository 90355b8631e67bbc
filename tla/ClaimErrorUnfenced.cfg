SPECIFICATION Spec
CONSTANTS
  w1 = w1
  w2 = w2
  t1 = t1
  t2 = t2
  NoOwner = NoOwner
  NoMessage = NoMessage
  Runs = {1}
  Workers = {w1, w2}
  Tokens = {t1, t2}
  MaxAttempts = 2
  DispatchBatch = 1
  ProviderMayBeDisabled = TRUE
  RedeliverInFlight = TRUE
SYMMETRY Symmetric
PROPERTY OnlyOwnerEndsLiveRun
