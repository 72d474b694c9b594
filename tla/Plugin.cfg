SPECIFICATION PluginSpec
CONSTANTS
  Threads = {t1, t2}
  totalCount = 3
  Stores = {s1, s2}
  NoStore = NoStore
  Serial = TRUE
  Indices = {i1, i2, i3, i4}
  FreeIndex = FreeIndex
  kDecodeCacheSize = 3
  SeqMod = 16
  MaxSeq = 7
  Addr = {d}
  LifeAddr = {a1, a2, a3, a4, a5, a6, a7}
  Objects = {p1, p2}
  Null = Null
INVARIANTS ListingExact PointersStay NothingLeft HandleUsable PluginSound
PROPERTIES LeastRecentlyUsed
CHECK_DEADLOCK FALSE
