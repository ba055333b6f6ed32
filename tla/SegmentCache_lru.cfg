SPECIFICATION Spec
CONSTANTS
  sa = sa
  sb = sb
  sc = sc
  sd = sd
  Segments <- MCSegments
  Routes = {r1, r2}
  TotalSize <- MCTotalSize
  Capacity = 4
  CachePolicy = "lru"
  MaxTimestamp = 6
INVARIANTS TypeOK EvictableIsUnused SpaceAccounted
PROPERTY ImplementsPinnedStore
