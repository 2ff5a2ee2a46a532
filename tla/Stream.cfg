SPECIFICATION StreamSpec
CONSTANTS
  Wires <- MCWires
  MaxLine = 4
  MaxEvent = 9
  Timeout = 2
  MaxDuration = 3
  ReadSize = 3
  MaxResponse = 15
  LastSend = 4
CHECK_DEADLOCK FALSE
INVARIANT EventsAsSent
INVARIANT OutcomeHonest
PROPERTY RequestEnds
