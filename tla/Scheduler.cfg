CONSTANTS
  Configs <- MCConfigs
  JitterDivisor = 4
  JitterMax = 3
  OffsetMax = 2
  StaggerMax = 5
  ManualStagger = 2
  ManualStaggerMax = 7
  SaveOutcomes = {TRUE, FALSE}
  MaxSaving = 2
SPECIFICATION FairSpec
INVARIANTS TypeOK NoLostWake IntervalKept LaunchesSpread
PROPERTIES PollsResume LoopCatchesUp
