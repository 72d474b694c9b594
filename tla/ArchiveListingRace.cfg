SPECIFICATION Spec
CONSTANTS
  Threads = {t1, t2}
  totalCount = 2
  Stores = {s1, s2}
  NoStore = NoStore
  Serial = FALSE
INVARIANTS ListingExact
