SPECIFICATION TraceSpec
CONSTANTS
  Policies = {"fixed_window", "size_or_time"}
  MaxBatch = 3
  Window = 2
  MaxWait = 2
  Capacity = 4
  Requests <- FiveRequests
  MaxTime = 5
  MaxSlots = 1
  LastArrival = 3
CHECK_DEADLOCK FALSE
INVARIANT FifoExactlyOnce
INVARIANT WakeupAgreesWithDispatch
INVARIANT PolicyKept
PROPERTY DriverTerminates
PROPERTY NoForgedWindow
