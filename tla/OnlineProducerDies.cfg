SPECIFICATION OnlineSpec
CONSTANTS
  Policies = {"no_batching"}
  MaxBatch = 1
  Window = 0
  MaxWait = 0
  Capacity = 1
  trace <- GroupThenLate
  Timeout = 1
  ProducerMayFail = TRUE
  MaxTime = 3
  MaxLag = 1
CHECK_DEADLOCK FALSE
PROPERTY CaseEnds
