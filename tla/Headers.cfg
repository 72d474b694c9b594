SPECIFICATION HeadersSpec
CONSTANTS
  MaxFolders = 2
  NumPackStreams = 3
  CodersMax = 2
  PackMax = 2
  ScanCodersMax = 3
  ScanStreamsMax = 4
  MainBytes = {16, 37, 64}
  Numbers = {0, 1, 2}
  NoFolderIndex = NoFolderIndex
  Absent = Absent
  Junk = Junk
  TableFolders = 2
  TableStreams = 3
  TableFiles = 4
  TableU64 = 6
  ByteBits = 2
  TableSizes = {0, 2, 5}
  FlagSizes = {2}
  NumFoldersMax = 2
  NumPacksMax = 2
  RangeLimit = 12
  PackSizes = {0, 5, 12}
  CountCodes <- SomeCounts
  SizeCodes <- SomeSizes
  InfoU64 = 16
  FilesMax = 2
  PropsMax = 3
  NamesMax = 4
  TempBufs <- OneBuffer
INVARIANTS FoldersAgree GraphSound EntriesExact WellFormedAccepted InsideBlock StreamInfoExact FilesInfoExact
CHECK_DEADLOCK FALSE
