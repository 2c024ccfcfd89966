SPECIFICATION FairSpec
CONSTANTS
  i1 = i1
  i2 = i2
  j1 = j1
  j2 = j2
  s1 = s1
  s2 = s2
  Inspectors = {i1}
  Limits = {0, 1, 4}
  Jobs = {j1, j2}
  Spokes = {s1, s2}
  PastSpoke = PastSpoke
  NoJob = NoJob
  NoSpoke = NoSpoke
  Free = Free
INVARIANTS TypeOK ReportedOnce NothingMissed OvershootBounded
PROPERTIES ImplementsSpokeMap NobodyWaitsForever
CHECK_DEADLOCK FALSE
