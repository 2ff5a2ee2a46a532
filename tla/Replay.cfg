SPECIFICATION ReplaySpec
CONSTANTS
  Workers = 1
  Arrivals <- TwoTogether
  Measured <- Both
  CaseCount = 2
  LagLimit = 0
  MaxAttempts = 2
  MaxRuns = 2
  Horizon = 1
  MaxWeek03 = 2
CHECK_DEADLOCK FALSE
INVARIANT InFlightBounded
INVARIANT EvidenceHonest
PROPERTY ReplayEnds
