--------------------------- MODULE SlurpInvariant ---------------------------
(***************************************************************************)
(* The inductive invariant of the pipeline: what relates the position of   *)
(* each thread in the file to the buffers and vectors on their way.        *)
(* Nothing is said of the records once the recorder's ends were dropped    *)
(* unused (a thread could not be started): they are then lost for good and *)
(* the call has failed.                                                    *)
(***************************************************************************)
EXTENDS Slurp

Gone == {"done", "panicked", "dropped"}

\* A thread runs only after the header was accepted, so that the dump is well formed.
HeaderRead ==
  (main \notin {"open", "returned"} \/ parser \notin {"unborn", "dropped"})
    => WellFormedRecords(dump)

\* What a round consumed is not negative.
RestFits == parser \in {"first", "more", "parsed"} => Len(rest) <= Len(loop_buffer)

TypeInv == TypeOK /\ HeaderRead /\ RestFits

\* Threads are started in order, and only by a main that goes on.
Lifecycle ==
  /\ fetcher = "unborn" <=> main \in {"open", "spawn_prefetch"}
  /\ parser = "unborn" <=> main \in {"open", "spawn_prefetch", "spawn_parser"}
  /\ recorder = "unborn" <=>
       main \in {"open", "spawn_prefetch", "spawn_parser", "spawn_recorder"}
  /\ recorder = "dropped" => main = "returned"
  /\ parser = "dropped" => recorder = "dropped"
  /\ fetcher = "dropped" => parser = "dropped"

\* A sender is dropped when, and only when, its thread is gone.
Ownership ==
  /\ data.tx = "dropped" <=> fetcher \in Gone
  /\ records.tx = "dropped" <=> parser \in Gone

\* The records recorded, then those being recorded, those sent, and those parsed.
Recorded == Len(recorded)
Taking == Recorded + Len(batch)
Sending == Taking + (IF records.q = << >> THEN 0 ELSE Len(records.q[1]))
Pushed == Sending + Len(pooled_vec)

\* Each group of records goes on where the one before it ends.
Order ==
  recorder # "dropped" =>
    /\ recorded = Span(0, Recorded)
    /\ batch = Span(Recorded, Taking)
    /\ records.q # << >> => records.q[1] = Span(Taking, Sending)
    /\ pooled_vec = Span(Sending, Pushed)

\* There is one spare vector: it is empty in the pool, on its way to the recorder,
\* or being recorded.
Vectors ==
  recorder # "dropped" =>
    /\ Len(vecs.q) + Len(records.q) + (IF recorder = "recording" THEN 1 ELSE 0) <= 1
    /\ \A i \in 1..Len(vecs.q) : vecs.q[i] = << >>
    /\ recorder # "recording" => batch = << >>
    /\ recorder = "unborn" => recorded = << >>
    /\ recorder \in {"rendering", "done", "panicked"} => parser \in Gone /\ records.q = << >>
    /\ parser = "unborn" => records.q = << >> /\ pooled_vec = << >>
    /\ main \in {"open", "spawn_prefetch"} => vecs.q = << >>

\* The end of the bytes that the parser has received.
BufferEnd == processed + Len(loop_buffer)

\* The pre-fetcher stays within the file, and ends at its end.
Fetching ==
  /\ fetcher = "unborn" => fetched = FileHeaderLength
  /\ fetcher \notin {"unborn", "dropped"} => fetched <= dump.len
  /\ fetcher = "done" => fetched = dump.len

\* The chunks of q go on where `from` ends, one behind the other, up to `to`.
Chain(q, from, to) ==
  /\ \A i \in 1..Len(q) :
       /\ q[i].lo = IF i = 1 THEN from ELSE q[i - 1].hi
       /\ q[i].lo <= q[i].hi
       /\ q[i].hi <= to
  /\ to = IF q = << >> THEN from ELSE q[Len(q)].hi

\* The working buffer holds the bytes behind those processed, and the buffers on
\* their way to the parser go on from there up to where the pre-fetcher is.
Contiguous ==
  /\ parser \notin Gone =>
       /\ loop_buffer = Span(processed, BufferEnd)
       /\ Chain(data.q, BufferEnd, fetched)
  /\ parser = "done" => fetcher \in Gone /\ fetched = BufferEnd

\* Before the parser is started it holds nothing.
Fresh ==
  parser = "unborn" =>
    /\ loop_buffer = << >>
    /\ processed = FileHeaderLength
    /\ needed = 0
    /\ remaining = 0

Bytes == Fetching /\ Contiguous /\ Fresh

\* The parser knows where it is: the working buffer starts at the bytes of the
\* records that were not handed on, the rest at the record behind those parsed,
\* heap_dump_remaining_len is that of this record, and between two rounds the
\* buffer does not hold the record to its end.
Position ==
  (recorder # "dropped" /\ parser \notin {"unborn", "panicked", "dropped"}) =>
    /\ Pushed <= dump.n
    /\ remaining = dump.rem[Pushed + 1]
    /\ processed <= dump.start[Pushed + 1]
    /\ dump.start[Pushed + 1] <= BufferEnd
    /\ parser \in {"recv", "first", "swap", "done"} => processed = dump.start[Pushed + 1]
    /\ parser \in {"recv", "first", "done"} => pooled_vec = << >>
    /\ parser \in {"first", "more", "parsed"} => rest = Span(dump.start[Pushed + 1], BufferEnd)
    /\ (parser \in {"recv", "parsed", "swap", "done"} /\ Pushed < dump.n)
         => BufferEnd < dump.start[Pushed + 2]
    /\ (parser = "recv" /\ needed > 0)
         => Pushed < dump.n /\ processed + needed <= dump.start[Pushed + 2]

\* No more records are handed on than are whole in the file.
WithinFile ==
  (recorder # "dropped" /\ parser # "unborn") => Pushed <= WholeRecords(dump)

Records == Order /\ Vectors /\ Position /\ WithinFile

\* The result that main receives is that of everything recorded, and main joins
\* the threads in order.
Answering ==
  /\ recorder # "done" => result.q = << >>
  /\ (recorder = "done" /\ main \in {"progress", "result"}) => result.q = <<recorded>>
  /\ main \in {"join_prefetch", "join_parser", "join_recorder"} =>
       recorder = "done" /\ answer = recorded
  /\ main \in {"join_parser", "join_recorder"} => fetcher = "done"
  /\ main = "join_recorder" => parser = "done"
  /\ main # "returned" => outcome = "none"
  /\ main \notin {"open", "returned"} => HeaderOutcome(dump) = "ok"
  /\ outcome = "ok" => answer = Span(0, WholeRecords(dump))

\* At any moment, with any fault, the bytes and records held by the threads and under
\* way in the channels of slurp_file fit together without a gap or an overlap, the
\* parser's counters agree with its place in the file, and main's result is that of
\* everything recorded.
SlurpInv == TypeInv /\ Lifecycle /\ Ownership /\ Bytes /\ Records /\ Answering

\* The numbers of q do not fall, and lie between `from` and `to`.
Rising(q, from, to) ==
  /\ \A i \in 1..Len(q) : from <= q[i] /\ q[i] <= to
  /\ \A i, j \in 1..Len(q) : i <= j => q[i] <= q[j]

\* The progress bar is behind the reports on their way to it, and those are behind
\* the parser.
Progressing == position <= processed /\ Rising(progress.q, position, processed)

-----------------------------------------------------------------------------
(***************************************************************************)
(* Memory.  What bounds the working buffer is independent of the recorder  *)
(* and of where in the file the parser is, so that it holds as well after  *)
(* a failure.                                                              *)
(***************************************************************************)

\* Bytes that are less than some record of the dump.
Carried(bytes) == bytes = 0 \/ \E i \in 1..dump.n : bytes < Size(dump, i)

\* Between two rounds the working buffer holds less than a record, and `needed` makes
\* it wait for no more than one: so a buffer more is all it ever holds.
Buffering ==
  /\ parser \in {"recv", "swap"} => Carried(Len(loop_buffer))
  /\ parser = "parsed" => Carried(Len(rest))
  /\ parser = "first" => rest = loop_buffer
  /\ needed = 0 \/ \E i \in 1..dump.n : needed <= Size(dump, i)
  /\ \/ Len(loop_buffer) <= read_size
     \/ \E i \in 1..dump.n : Len(loop_buffer) < Size(dump, i) + read_size

\* No input buffer is added to those in circulation, and none is filled with more than
\* READ_BUFFER_SIZE bytes.
Pooling ==
  /\ Circulating <= PoolBuffers
  /\ \A i \in 1..Len(data.q) : data.q[i].hi - data.q[i].lo <= read_size

\* There is one spare vector at most, also when a thread could not be started.
Recording == IF recorder = "recording" THEN 1 ELSE 0
Spare == Len(vecs.q) + Len(records.q) + Recording <= 1

MemoryInv == Buffering /\ Pooling /\ Spare

-----------------------------------------------------------------------------
(***************************************************************************)
(* Failure.                                                                *)
(***************************************************************************)

\* An end of a channel is dropped only with the thread that owns it.
Handles ==
  /\ "dropped" \in {pool.tx, data.rx} => parser \in Gone
  /\ "dropped" \in {vecs.tx, records.rx, result.tx} => recorder \in Gone
  /\ "dropped" \in {progress.rx, result.rx} => main = "returned"

\* A dump that the parser can read, on a system that refuses nothing.
Healthy ==
  /\ Faults = {}
  /\ HeaderOutcome(dump) = "ok"
  /\ \A i \in 1..dump.n : dump.kind[i] # "unreadable"

\* On such a dump no thread panics or is left unstarted, and main returns only when all
\* three have ended normally.
Unharmed ==
  Healthy =>
    /\ {fetcher, parser, recorder} \cap {"panicked", "dropped"} = {}
    /\ main = "returned" =>
         outcome = "ok" /\ fetcher = "done" /\ parser = "done" /\ recorder = "done"

CauseInv == Handles /\ Unharmed
=============================================================================
