SPECIFICATION Spec
CONSTANTS
  j1 = j1
  j2 = j2
  j3 = j3
  a = a
  b = b
  c = c
  f1 = f1
  f2 = f2
  f3 = f3
  Jobs = {j1, j2, j3}
  Ids = {a, b, c}
  IdOf <- MCIdOf
  Fingerprints = {f1, f2, f3}
  FingerprintOf <- MCColliding
  FilterSlots = 9
  NoJob = NoJob
  PastSpoke = PastSpoke
  NoSpoke = NoSpoke
  SpokeSpan = 2
  StartTime = 1
  PastStart = 1
  PastEnd = 99
  MaxTrigger = 5
  MaxTime = 8
INVARIANT NoFalseNegatives
