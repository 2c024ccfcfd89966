SPECIFICATION FairSpec
CONSTANTS
  named = named
  auto = auto
  auto2 = auto2
  far = far
  Jobs = {named, auto, auto2, far}
  IdOf <- MCIdOf
  TriggerOf <- MCTriggerOf
  StartTime = 4
  MaxCalls = 1
  Half = 8
  HundredYears = 3
INVARIANTS TypeOK SnapshotAccounted
PROPERTIES SnapshotIsMemory LossExplained AnsweredOncePerLife ShutdownEnds
