SPECIFICATION FairSpec
CONSTANTS
  g1 = g1
  p1 = p1
  x1 = x1
  c1 = c1
  NoRequest = NoRequest
  Request = {g1, p1, x1}
  CircuitOf <- MCCircuitOf
  Call = {c1}
CHECK_DEADLOCK FALSE
INVARIANTS NotLostWhileRouting CircuitReady LostIsReal
PROPERTIES MarkersGo
