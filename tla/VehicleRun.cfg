SPECIFICATION FairSpec
CONSTANTS
  na = na
  nb = nb
  none = none
  None = none
  Nodes <- MCNodes
  NumClients = 2
  Trajectory <- MCTrajectory
  VideoLength = 4
  TotalSize <- MCTotalSize
  Lead = 2
  TruncationTime = 7
  TimeIncr = 1
  EndOfTime = 8
  MaxFailures = 2
CHECK_DEADLOCK FALSE
INVARIANTS TypeOK BytesAccounted EdgesInStep NoStallOutsideContacts
PROPERTY RunEnds
