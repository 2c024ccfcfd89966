SPECIFICATION FairSpec
CONSTANTS
  c1 = c1
  c2 = c2
  Conns = {c1, c2}
  NumJobs = 2
  MaxOrphans = 1
  NoJob = NoJob
INVARIANTS TypeOK JobsAccounted LossBounded ExitMeansAll OnlyReusedIdsHurt
PROPERTY LoadTestEnds
CHECK_DEADLOCK FALSE
