SPECIFICATION GatewaySpec
CONSTANTS
  Uids <- Pair
  Requests = {r1, r2}
  Service = TRUE
  Streams = {TRUE}
  MaxBody = 1
  MaxTrouble = 1
CHECK_DEADLOCK FALSE
INVARIANT RoutingLogHonest
INVARIANT CompletedStreamsEndWithDone
PROPERTY EveryPickEnds
PROPERTY PoolFollowsCluster
