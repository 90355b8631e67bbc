SPECIFICATION ReadsSpec
CONSTANTS
  a1 = a1
  a2 = a2
  a3 = a3
  ax = ax
  bx = bx
  pek = pek
  pkx = pkx
  sha = sha
  pvg = pvg
  wuh = wuh
  NoId = NoId
  NoPrice = NoPrice
  NoDate = NoDate
  Nothing = Nothing
  MaxDiagnostics = 7
  Runs = {1, 2}
  Answers = {a1, a2, a3}
  Provided <- TheProvided
  Filters <- TheFilters
  Readings <- TheReadings
  ReadAt = 2
  RoundTrip = TRUE
  DayLength = 2
  MaxTime = 5
  PageLimit = 1
  Window = 4
INVARIANTS
  PagesAreWhole
  ViewsAgree
  TrendsAreExact
  LossIsExplained
CHECK_DEADLOCK FALSE
