\* A file that stops within its last record.
SPECIFICATION Spec
CONSTANTS
  FileHeaderLength = 31
  U32 = 16
  Dumps <- TruncatedDumps
  ReadSizes = {2, 20}
  PoolBuffers = 2
  Faults = {}
INVARIANT SuccessIsWholeFile
