SPECIFICATION Spec
CONSTANTS
  q1 = q1
  c1 = c1
  s1 = s1
  s2 = s2
  p1 = p1
  p2 = p2
  NoTime = NoTime
  Queries = {q1}
  Providers = {c1}
  ProviderOf <- OneProvider
  Subs = {s1, s2}
  QueryOf <- OneQuery
  Requests = {p1, p2}
  Interval = 2
  ScheduleBucket = 1
  OnDemandBucket = 2
  SubscriptionBatch = 2
  Horizon = 2
  MaxRuns = 2
  Crowd = 3
SYMMETRY Symmetric
INVARIANTS
  TypeOK
  ConflictNeedsOverlap
PROPERTIES
  AdvancedPollsAreServed
  PollsKeepTheirGrid
