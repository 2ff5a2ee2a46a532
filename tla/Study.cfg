SPECIFICATION StudySpec
CONSTANTS
  Programs <- AllPrograms
  JobCount = 3
  MaxInflight = 2
  MaxErrors = 1
  MaxRuns = 2
  MaxTrouble = 2
CHECK_DEADLOCK FALSE
INVARIANT NothingLeftRunning
INVARIANT RecordsHonest
PROPERTY StudyEnds
PROPERTY RunningIsExplained
