SPECIFICATION FairSpec
CONSTANTS
  s1 = s1
  s2 = s2
  r1 = r1
  r2 = r2
  t1 = t1
  t2 = t2
  t3 = t3
  NoToken = NoToken
  Slots = {s1, s2}
  Routes = {r1, r2}
  Tokens = {t1, t2, t3}
  ProviderLimit = 1
  RouteLimit = 1
  LeaseTTL = 2
  PaceInterval = 1
  AcquireTimeout = 1
INVARIANTS
  UnharmedWithinLimits
PROPERTIES
  DisplacedFails
  OrphansExpire
  WaitingEnds
