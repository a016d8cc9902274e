SPECIFICATION Spec
CONSTANTS
  d1 = d1
  p1 = p1
  h1 = h1
  h2 = h2
  c1 = c1
  c2 = c2
  NoWorker = NoWorker
  Plugins = {h1, h2}
  Calls = {c1, c2}
  HostOf <- Hosts
  Workers = {w1}
  Deliveries = {d1}
  Periods = {p1}
  PeriodOf <- OneLine
  Scopes = {s1, s2}
  Limits = {1, 3}
  Lowest = 1
  Highest = 3
  Requests <- Decisions
  MaxRevision = 2
  MaxLost = 1
INVARIANTS
  TypeOK
  EventsFollowTheAccount
  DeliveredAsSent
  FailureIsKnown
PROPERTIES
  ImplementsDelivery
