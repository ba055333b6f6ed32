SPECIFICATION FairSpec
CONSTANTS
  ra = ra
  rb = rb
  rc = rc
  rd = rd
  Requests <- MCRequests
  ArrivalTime <- MCArrivalTime
  Percent = 0
  ChannelCapacity = 2
  MaxTime = 4
CHECK_DEADLOCK FALSE
INVARIANT NoRequestLost
PROPERTY EveryRequestDownloaded
