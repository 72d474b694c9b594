SPECIFICATION CoderSpec
CONSTANTS
  ThreadsMax = 2
  ExtraBlocks = 0
  BlockSize = 1
  Lengths = {2}
  CodeCalls = 2
  CodeFaults = 0
INVARIANTS OkIsWhole
CHECK_DEADLOCK FALSE
