SPECIFICATION TraceSpec
CONSTANTS
  Policies = {"fixed_window", "size_or_time"}
  MaxBatch = 2
  Window = 2
  MaxWait = 2
  Capacity = 3
  Requests <- FourRequests
  MaxTime = 5
  MaxSlots = 1
  LastArrival = 3
CHECK_DEADLOCK FALSE
PROPERTY ArrivalsEnterFirst
