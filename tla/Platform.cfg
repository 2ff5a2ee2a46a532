SPECIFICATION LabSpec
CONSTANTS
  PlatformPlans <- PlatformLines
  ClusterPlans <- ClusterLines
  Cells = 2
  MaxSessions = 3
  MaxTrouble = 2
CHECK_DEADLOCK FALSE
INVARIANT OneChain
INVARIANT ResultsHonest
INVARIANT FaultIsUndone
PROPERTY ForeignStays
PROPERTY SessionEnds
