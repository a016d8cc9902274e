SPECIFICATION FairSpec
CONSTANTS
  NoOne = NoOne
  NoWorker = NoWorker
  d1 = d1
  d2 = d2
  p1 = p1
  p2 = p2
  k1 = k1
  k2 = k2
  Calls = {c1, c2}
  Resolvers = {a1}
  Workers = {w1}
  Deliveries = {d1, d2}
  Periods = {p1, p2}
  PeriodOf <- SinglePeriods
  MaxAttempts = 1
  Requests <- Retries
  MaxDeaths = 1
INVARIANTS
  
  PeriodReflectsLines
PROPERTIES
  HandlersReturn
