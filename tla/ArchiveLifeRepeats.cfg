SPECIFICATION PluginSpec
CONSTANTS
  Threads = {t1}
  totalCount = 1
  Stores = {s1, s2}
  NoStore = NoStore
  Serial = TRUE
  Indices = {i1}
  FreeIndex = FreeIndex
  kDecodeCacheSize = 1
  SeqMod = 16
  MaxSeq = 2
  Addr = {d}
  LifeAddr = {a1, a2, a3, a4, a5}
  Objects = {p1}
  Null = Null
INVARIANTS AllFreed
CHECK_DEADLOCK FALSE
