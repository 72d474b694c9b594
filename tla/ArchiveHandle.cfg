SPECIFICATION Spec
CONSTANTS
  fA = fA  fB = fB  fC = fC  x = x  y = y  bad = bad
  t1 = t1  t2 = t2  a1 = a1  a2 = a2  a3 = a3  a4 = a4
  Byte <- MCByte
  BadByte = bad
  NumFiles = 5
  Folders <- MCFolders
  NoFolder = NoFolder
  FileToFolder <- MCFileToFolder
  FolderToFile <- MCFolderToFile
  UnpackPositions <- MCUnpackPositions
  Block <- MCBlock
  Content <- MCContent
  HasCrc = {0, 3}
  Damaged = {3}
  SizeMax = 3
  Addr = {a1, a2, a3, a4}
  Null = Null
  Free = Free
  Indices <- MCIndices
  FreeIndex = FreeIndex
  kDecodeCacheSize = 2
  SeqMod = 2
  MaxSeq = 2
  Threads = {t1, t2}
  NoOwner = NoOwner
  Untouched = Untouched
SYMMETRY Symmetry
INVARIANTS CachesValid NoDuplicates OwnedOnce
PROPERTIES ImplementsService
