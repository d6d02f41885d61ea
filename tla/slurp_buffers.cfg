\* The number of input buffers in circulation.
SPECIFICATION Spec
CONSTANTS
  FileHeaderLength = 31
  U32 = 16
  Dumps <- TruncatedDumps
  ReadSizes = {2, 20}
  PoolBuffers = 2
  Faults = {}
INVARIANT LoopBufferJoinsPool
