\* A CPU_SAMPLES record in which a trace was sampled more than once.
SPECIFICATION Spec
CONSTANTS
  Streams <- SampledTwice
  ChunkSizes = {64}
INVARIANT Aligned
