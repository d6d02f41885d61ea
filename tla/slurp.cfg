\* Every file that stops at any byte, cut into buffers of any size, no faults.
SPECIFICATION FairSpec
CONSTANTS
  FileHeaderLength = 31
  U32 = 16
  Dumps <- CutDumps
  ReadSizes = {1, 2, 3, 5, 20}
  PoolBuffers = 2
  Faults = {}
INVARIANTS
  RecordsInOrder
  SuccessIsWholeDump
  HeapDumpTracked
  FailureHasCause
  MemoryBounded
  NeededIsJustified
PROPERTIES
  ProgressMonotone
  Termination
  Completion
