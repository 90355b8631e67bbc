SPECIFICATION MCSpec
CONSTANTS
  e1 = e1
  e2 = e2
  s1 = s1
  s2 = s2
  r1 = r1
  r2 = r2
  u1 = u1
  c1 = c1
  Nobody = Nobody
  Runs = {r1, r2}
  Rules = {u1}
  Channels = {c1}
  Evaluators = {e1, e2}
  Senders = {s1, s2}
  Links <- AllChannels
  MaxAttempts = 2
  MaxTrouble = 1
  DayLength = 4
  Week = 7
  Moments <- TheMoments
  Zones <- TheZones
  QuietHours <- TheQuietHours
  NoQuiet = NoQuiet
  None = None
  WeekdaySets <- TheWeekdaySets
SYMMETRY Symmetric
INVARIANTS
  CooldownNeedsOverlap
  RepeatsNeedTrouble
  WaitsNoLongerThanNeeded
PROPERTIES
  EvaluatedOnce
CHECK_DEADLOCK FALSE
