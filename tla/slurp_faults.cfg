\* Reads, thread creation and rendering may fail at any moment; bad headers.
SPECIFICATION FairSpec
CONSTANTS
  FileHeaderLength = 31
  U32 = 16
  Dumps <- FaultyDumps
  ReadSizes = {2, 4, 20}
  PoolBuffers = 2
  Faults = {"io", "spawn", "render"}
INVARIANTS
  TypeOK
  SlurpInv
PROPERTIES
  KeepsPromise
  Termination
  ThreadsEnd
