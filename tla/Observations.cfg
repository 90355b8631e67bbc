SPECIFICATION Spec
CONSTANTS
  r1 = r1
  r2 = r2
  direct = direct
  connecting = connecting
  Nothing = Nothing
  Runs = {r1, r2}
  Keys = {direct, connecting}
  Queries = {1, 2}
  QueryOf <- BothRunsOfTwo
  RowId <- Ids
  DayLength = 2
  MonthLength = 1
  ArchiveAfter = 1
  PurgeAfter = 2
  MaxActions = 2
  BatchSize = 2
  PageSize = 2
  MaxTime = 6
  Ranges <- ExportRanges
  LastEnd = 3
  Fleeting = {1}
  Together = FALSE
  Scopes <- BackfillScopes
INVARIANTS
  LatestIsNewest
  TrendIsExact
  CompleteBackfillCovers
  ExportIsComplete
CHECK_DEADLOCK FALSE
