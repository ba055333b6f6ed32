SPECIFICATION FairSpec
CONSTANTS
  ra = ra
  rb = rb
  rc = rc
  rd = rd
  Requests <- MCRequests
  ArrivalTime <- MCArrivalTime
  Percent = 50
  ChannelCapacity = 2
  MaxTime = 4
CHECK_DEADLOCK FALSE
INVARIANTS TypeOK NeverTopOfEmpty StartsInTime DownloadsConserved
PROPERTIES EveryCallAnswered EveryItemTaken
