SPECIFICATION FairSpec
CONSTANTS
  p1 = p1
  p2 = p2
  t1 = t1
  t2 = t2
  r1 = r1
  r2 = r2
  r3 = r3
  r4 = r4
  g1 = g1
  s1 = s1
  Putters = {p1, p2}
  Takers = {t1, t2}
  Jobs = {r1, r2, r3, g1, s1}
  GrpcJobs = {g1}
  RestoredJobs = {s1}
  IdOf <- MCIdOf
  SizeOf <- MCSizeOf
  Watermark = 2048
  Tebibyte = 20480
  NoJob = NoJob
  Free = Free
INVARIANTS TypeOK NoLostWakeup AccountingExplained FenceBounds GrpcNeverUnderflows
PROPERTY FencedPutsWake
CHECK_DEADLOCK FALSE
