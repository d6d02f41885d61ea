-------------------------- MODULE PipelineChannels --------------------------
(***************************************************************************)
(* The input of slurp_file and the six channels that it creates between    *)
(* the threads of the pipeline.                                            *)
(***************************************************************************)
EXTENDS HprofDump, Channel

CONSTANTS ReadSizes,    \* the values considered for READ_BUFFER_SIZE
          PoolBuffers,  \* input buffers put in the pool at the start (the code: 2)
          Faults        \* what may go wrong: "io", "spawn" (the operating system refuses a read
                        \* or a thread), "render" (a class name that rendering panics on)

ASSUME PipelineAssumption ==
  /\ ReadSizes \subseteq Nat \ {0}
  /\ PoolBuffers \in Nat \ {0}

VARIABLES
  dump,        \* the file
  read_size,   \* READ_BUFFER_SIZE
  data,        \* pre-fetcher -> parser: filled input buffers [lo, hi], the bytes lo+1..hi
  pool,        \* parser -> pre-fetcher: empty input buffers
  records,     \* parser -> recorder: vectors of records
  vecs,        \* recorder -> parser: pooled vectors
  progress,    \* parser -> main: bytes processed so far
  result       \* recorder -> main: what the recorder had recorded when it rendered

input == <<dump, read_size>>

\* An empty buffer with storage, waiting in the pool.
EmptyBuffer == "empty"

\* A filled input buffer holds consecutive bytes of the file.
Chunks == [lo : Nat, hi : Nat]

TypeOKChannels ==
  /\ dump \in Dumps
  /\ read_size \in ReadSizes
  /\ data \in Channels(Chunks)
  /\ pool \in Channels({EmptyBuffer})
  /\ records \in Channels(Seq(Nat))
  /\ vecs \in Channels(Seq(Nat))
  /\ progress \in Channels(Nat)
  /\ result \in Channels(Seq(Nat))

InitChannels ==
  /\ dump \in Dumps
  /\ read_size \in ReadSizes
  /\ data = Open(<< >>)
  /\ pool = Open([i \in 1..PoolBuffers |-> EmptyBuffer])
  /\ records = Open(<< >>)
  /\ vecs = Open(<< >>)
  /\ progress = Open(<< >>)
  /\ result = Open(<< >>)
=============================================================================
