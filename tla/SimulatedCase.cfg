SPECIFICATION SimSpec
CONSTANTS
  Policies = {"fixed_window", "size_or_time"}
  MaxBatch = 2
  Window = 2
  MaxWait = 1
  Capacity = 2
  Count = 5
  LastArrival = 3
  Timeout = 1
  Executions <- WithZero
CHECK_DEADLOCK FALSE
INVARIANT SimHonest
PROPERTY DeadlineSlotWins
PROPERTY Serves
PROPERTY SimEnds
