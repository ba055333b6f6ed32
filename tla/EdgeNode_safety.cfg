SPECIFICATION Spec
CONSTANTS
  ra = ra
  rb = rb
  sa = sa
  sb = sb
  sc = sc
  t1 = t1
  t2 = t2
  Requests <- MCRequests
  ArrivalTime <- MCArrivalTime
  Percent = 100
  ChannelCapacity = 2
  MaxTime = 1
  Segments <- MCSegments
  TotalSize <- MCTotalSize
  Capacity = 2
  CachePolicy = "lru"
  MaxTimestamp = 6
  Tokens <- MCTokens
  TokenId <- MCTokenId
  SegmentsOf <- MCSegmentsOf
  KnownSource = {sa, sb}
CHECK_DEADLOCK FALSE
INVARIANTS TypeOK OwedExactlyPinned
