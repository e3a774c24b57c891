SPECIFICATION Spec
CONSTANTS
  c1 = c1
  c2 = c2
  k1 = k1
  k2 = k2
  Call = {c1, c2}
  Config = {k1}
  Retries = 3
  MaxHiccups = 1
  Panics = {}
INVARIANTS VerifySurvives
