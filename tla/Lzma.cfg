SPECIFICATION CodersSpec
CONSTANTS
  Streams <- MCStreams
  ChunkStreams <- MCChunkStreams
  DicBufSize = 3
  RequiredMax = 3
  InitSize = 2
  Offers = {0, 1, 3}
INVARIANTS ChunksExact VerdictsExact OutputExact StateExact VerdictExact
PROPERTIES CallsReturn
CHECK_DEADLOCK FALSE
