SPECIFICATION Spec
CONSTANTS
  s1 = s1
  s2 = s2
  x1 = x1
  Default = Default
  Uri <- MCUri
  TypeOf <- MCTypeOf
  Max <- MCMax
  Failures <- MCWriteFails
INVARIANTS DiskBounded
PROPERTIES NoEarlyEviction KeepsLatest
