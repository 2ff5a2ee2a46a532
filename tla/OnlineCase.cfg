SPECIFICATION OnlineSpec
CONSTANTS
  Policies = {"fixed_window", "size_or_time"}
  MaxBatch = 3
  Window = 2
  MaxWait = 1
  Capacity = 2
  trace <- OneThenPair
  Timeout = 1
  ProducerMayFail = TRUE
  MaxTime = 3
  MaxLag = 1
CHECK_DEADLOCK FALSE
INVARIANT CaseHonest
INVARIANT ArrivalsPrecedeFlush
PROPERTY Serves
PROPERTY CaseEndsUnlessProducerDies
