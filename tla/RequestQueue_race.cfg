SPECIFICATION Spec
CONSTANTS
  ra = ra
  rb = rb
  rc = rc
  rd = rd
  Requests <- MCRequests
  ArrivalTime <- MCArrivalTime
  Percent = 100
  ChannelCapacity = 3
  MaxTime = 4
CHECK_DEADLOCK FALSE
INVARIANT NoRequestLost
