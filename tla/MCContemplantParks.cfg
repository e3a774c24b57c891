SPECIFICATION Spec
CONSTANTS
  s1 = s1
  s2 = s2
  m1 = m1
  o1 = o1
  z1 = z1
  NoRequest = NoRequest
  Request = {s1, s2}
  VmOf <- MCVmOf
  Mock <- MCMock
  Configs <- MCConfigs
  MaxProofsStored = 1
  MaxDeaths = 2
  Evictions = FALSE
CHECK_DEADLOCK FALSE
INVARIANTS Parks
