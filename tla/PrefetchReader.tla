--------------------------- MODULE PrefetchReader ---------------------------
(***************************************************************************)
(* The "hprof-prefetch" thread: it fills pooled buffers with the next      *)
(* bytes of the file and sends them to the parser until the length that    *)
(* the file had when it was opened has been read.                          *)
(***************************************************************************)
EXTENDS PipelineChannels

VARIABLES
  fetcher,  \* where the thread is
  fetched   \* processed_len: bytes of the file read so far, header included

fetcherVars == <<fetcher, fetched>>

TypeOKFetcher ==
  /\ fetcher \in {"unborn", "loop", "filling", "done", "panicked", "dropped"}
  /\ fetched \in Nat

InitFetcher ==
  /\ fetcher = "unborn"
  /\ fetched = FileHeaderLength

\* Mutant: the read size is not limited by what is left of the file.
next_size_UNLIMITED == read_size

\* The bytes of the file that the next read asks for.
next_size == IF dump.len - fetched < read_size THEN dump.len - fetched ELSE read_size

\* Mutant: the parser's channel stays open when the thread is gone.
FetcherEnds_KEEPS_SENDER(how) ==
  /\ fetcher' = how
  /\ data' = data
  /\ pool' = DropReceiver(pool)
  /\ UNCHANGED <<input, fetched>>

\* The thread ends, in one way or another, and drops its ends of the channels.
FetcherEnds(how) ==
  /\ fetcher' = how
  /\ data' = DropSender(data)
  /\ pool' = DropReceiver(pool)
  /\ UNCHANGED <<input, fetched>>

\* A pooled buffer arrives.
TakeBuffer ==
  /\ fetcher = "loop"
  /\ fetched # dump.len
  /\ Ready(pool)
  /\ pool' = Taken(pool)
  /\ fetcher' = "filling"
  /\ UNCHANGED <<input, fetched, data>>

\* read_exact fills the buffer, which goes to the parser.
FillAndSend ==
  /\ fetcher = "filling"
  /\ Accepts(data)
  /\ data' = Sent(data, [lo |-> fetched, hi |-> fetched + next_size])
  /\ fetched' = fetched + next_size
  /\ fetcher' = "loop"
  /\ UNCHANGED <<input, pool>>

\* expect("channel should not be closed"), on either channel, once the parser is gone.
FetcherPanicsOnClosed ==
  /\ \/ fetcher = "loop" /\ fetched # dump.len /\ Disconnected(pool)
     \/ fetcher = "filling" /\ ~Accepts(data)
  /\ FetcherEnds("panicked")

\* read_exact fails: the file shrank or the disk failed.
ReadFails ==
  /\ fetcher = "filling"
  /\ "io" \in Faults
  /\ FetcherEnds("panicked")

\* Everything has been read.
FetcherFinishes ==
  /\ fetcher = "loop"
  /\ fetched = dump.len
  /\ FetcherEnds("done")

FetcherNext ==
  \/ TakeBuffer
  \/ FillAndSend
  \/ FetcherPanicsOnClosed
  \/ ReadFails
  \/ FetcherFinishes
=============================================================================
