SPECIFICATION CacheSpec
CONSTANTS
  Indices = {i1, i2, i3, i4}
  FreeIndex = FreeIndex
  kDecodeCacheSize = 3
  SeqMod = 5
  MaxSeq = 5
  Addr = {d}
  Null = Null
PROPERTIES LastUsedStays
