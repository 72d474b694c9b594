SPECIFICATION ThreadsSpec
CONSTANTS
  LiveStreams <- MCLiveStreams
  LiveLengths = {2}
  LaterLengths = {1}
  LiveSizes = {3}
  ThreadsMax = 2
  ExtraBlocks = 0
  BlockSize = 1
  Lengths = {0, 1, 2, 4}
  CodeCalls = 2
  CodeFaults = 1
  DecThreads = 3
  InBufSize = 2
  OutBlockMax = 2
  SmallBlock = 1
  TokenStreams <- MCStreams
  OutSizes <- MCOutSizes
  DecCalls = 2
  DecFaults = 1
  FinderHistory = 1
  FinderMaxLen = 2
  FinderHash = 2
  HashBlocks = 2
  HashBlockSize = 3
  BtBlocks = 1
  BtBlockSize = 9
  WindowReserve = 1
  StreamSizes = {3, 25}
  Starts = 2
  fA = fA  fB = fB  fC = fC  x = x  y = y  bad = bad
  t1 = t1  t2 = t2  a1 = a1  a2 = a2  a3 = a3  a4 = a4
  Byte <- MCByte
  BadByte = bad
  NumFiles = 5
  Folders <- MCFolders
  NoFolder = NoFolder
  FileToFolder <- MCFileToFolder
  FolderToFile <- MCFolderToFile
  UnpackPositions <- MCUnpackPositions
  Block <- MCBlock
  Content <- MCContent
  HasCrc = {0, 3}
  Damaged = {3}
  SizeMax = 3
  Addr = {a1, a2, a3}
  Null = Null
  Free = Free
  Indices <- MCIndices
  FreeIndex = FreeIndex
  kDecodeCacheSize = 1
  SeqMod = 1
  MaxSeq = 2
  Threads = {t1, t2}
  NoOwner = NoOwner
  Untouched = Untouched
INVARIANTS WriteErrorReported
CHECK_DEADLOCK FALSE
