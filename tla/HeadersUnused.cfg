SPECIFICATION HeadersSpec
CONSTANTS
  MaxFolders = 1
  NumPackStreams = 1
  CodersMax = 1
  PackMax = 1
  ScanCodersMax = 1
  ScanStreamsMax = 1
  MainBytes = {}
  Numbers = {}
  NoFolderIndex = NoFolderIndex
  Absent = Absent
  Junk = Junk
  TableFolders = 2
  TableStreams = 2
  TableFiles = 3
  TableU64 = 16
  ByteBits = 2
  TableSizes = {0, 1, 2}
  FlagSizes = {}
  NumFoldersMax = 2
  NumPacksMax = 2
  RangeLimit = 12
  PackSizes = {0, 5, 12}
  CountCodes <- SomeCounts
  SizeCodes <- SomeSizes
  InfoU64 = 16
  FilesMax = 2
  PropsMax = 3
  NamesMax = 4
  TempBufs <- OneBuffer
INVARIANTS UncompressedSizes
CHECK_DEADLOCK FALSE
