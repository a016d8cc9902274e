SPECIFICATION Spec
CONSTANTS
  d1 = d1
  d2 = d2
  Accounts = {1, 2, 3}
  Periods = {1}
  Deliveries = {d1, d2}
  PeriodOf <- TwoLines
  Requests <- Decisions
  MinAttempts = 1
  MaxAttempts = 1
  MaxRevision = 2
  PageSizes = {1, 2}
INVARIANTS
  TypeOK
  PeriodViewsAreSound
  CurrentViewsAreExact
  WalksAreComplete
