SPECIFICATION Spec
SYMMETRY Interchangeable
CONSTANTS
  NoOne = NoOne
  u0 = u0
  u1 = u1
  v1 = v1
  k1 = k1
  k2 = k2
  k3 = k3
  m1 = m1
  m2 = m2
  m3 = m3
  Putters = {x1}
  Closers = {y1}
  PutRequests <- Updates
  CloseRequests <- Closes
  Tick = 2
INVARIANTS
  RepeatedCloseReplays
