\* Every kind of record, whatever the cuts of the input.
SPECIFICATION Spec
CONSTANTS
  Streams <- RecordStreams
  ChunkSizes = {1, 2, 6, 13, 64}
INVARIANTS
  TypeOK
  Aligned
  RightTable
  AsksOnlyForRecord
  RetriesBounded
PROPERTY
  AllParsed
