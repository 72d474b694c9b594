SPECIFICATION DataSpec
CONSTANTS
  b1 = b1  b2 = b2  b3 = b3
  Byte = {b1, b2, b3}
  File <- MCFile
  bufSize = 2
  MaxAsk = 4
  w1 = w1  w2 = w2
  Word = {w1, w2}
  MaxMain = 3
  Absolute <- MCAbsolute
  Mains <- MCMains
  Calls <- MCCalls
  MaxSize = 11
  RcSizes = {0, 3, 5, 6, 8}
  Folders <- MCFolders
  SizeMax = 31
  Window = 2
  Width = 12
  MoveAlign = 2
  Reserve = 2
  LzWidth = 30
  FinderFiles <- MCFiles
  FinderSetups <- MCFinders
  TreeSetups <- MCTrees
  EncoderInputs <- MCPlains
  EncoderSetups <- MCEncoderSetups
  Base = 4
  BufSize = 2
  CoderBits = 8
  WriteLimit = {3, 99}
  BranchInputs <- MCBranches
  BranchPieces = {1, 3, 99}
  BranchRooms = {1, 3}
INVARIANTS ReadContiguous WriterBehindReader InputsRight OkMeansWhole NothingLeft
           FindersExact EncodingRight CodingReturns BranchingReturns
PROPERTIES ImplementsByteStream ImplementsMerge Terminates
CHECK_DEADLOCK FALSE
