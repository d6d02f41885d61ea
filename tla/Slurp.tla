------------------------------- MODULE Slurp -------------------------------
(***************************************************************************)
(* One call of slurp_file: the main thread reads the file header, starts   *)
(* the three threads of the pipeline one after the other, feeds the        *)
(* progress bar until the parser is gone, waits for the result and joins   *)
(* the threads.  The call returns Ok with the result, returns an error, or *)
(* panics.                                                                 *)
(***************************************************************************)
EXTENDS PrefetchReader, RecordStreamParser, RecorderThread

VARIABLES
  main,      \* where the main thread is
  outcome,   \* what the call ended with: "ok", the error, "panic"
  position,  \* the position of the progress bar
  answer     \* the result received: the records it was rendered from

mainVars == <<main, outcome, position, answer>>
channels == <<data, pool, records, vecs, progress, result>>
vars == <<input, channels, fetcherVars, parserVars, recorderVars, mainVars>>

HeaderErrors == {"StdIoError", "InvalidHprofFile", "InvalidIdSize", "InvalidHeaderSize"}
Outcomes == {"none", "ok", "StdThreadError", "panic"} \cup HeaderErrors

TypeOKMain ==
  /\ main \in {"open", "spawn_prefetch", "spawn_parser", "spawn_recorder", "progress",
               "result", "join_prefetch", "join_parser", "join_recorder", "returned"}
  /\ outcome \in Outcomes
  /\ position \in Nat
  /\ answer \in Seq(Nat)

\* Every variable has its type.
TypeOK ==
  /\ TypeOKChannels
  /\ TypeOKFetcher
  /\ TypeOKParser
  /\ TypeOKRecorder
  /\ TypeOKMain

Init ==
  /\ InitChannels
  /\ InitFetcher
  /\ InitParser
  /\ InitRecorder
  /\ main = "open"
  /\ outcome = "none"
  /\ position = 0
  /\ answer = << >>

-----------------------------------------------------------------------------

\* Mutant: an end of a thread that was never started stays open.
LoseSender_LEAKED(c, thread) == c

\* The ends that main still holds for a thread that was never started.
LoseSender(c, thread)   == IF thread = "unborn" THEN DropSender(c) ELSE c
LoseReceiver(c, thread) == IF thread = "unborn" THEN DropReceiver(c) ELSE c
Lost(thread)            == IF thread = "unborn" THEN "dropped" ELSE thread

\* slurp_file returns (or unwinds) and drops what it owns.
Return(how) ==
  /\ main' = "returned"
  /\ outcome' = how
  /\ fetcher' = Lost(fetcher)
  /\ parser' = Lost(parser)
  /\ recorder' = Lost(recorder)
  /\ data' = LoseSender(LoseReceiver(data, parser), fetcher)
  /\ pool' = LoseSender(LoseReceiver(pool, fetcher), parser)
  /\ records' = LoseSender(LoseReceiver(records, recorder), parser)
  /\ vecs' = LoseSender(LoseReceiver(vecs, parser), recorder)
  /\ progress' = DropReceiver(LoseSender(progress, parser))
  /\ result' = DropReceiver(LoseSender(result, recorder))
  /\ UNCHANGED <<input, fetched, loop_buffer, rest, pooled_vec, needed, remaining,
                 processed, batch, recorded, position, answer>>

\* The file is opened and its header read.
ReadHeader ==
  /\ main = "open"
  /\ HeaderOutcome(dump) = "ok"
  /\ main' = "spawn_prefetch"
  /\ UNCHANGED <<input, channels, fetcherVars, parserVars, recorderVars,
                 outcome, position, answer>>

RejectHeader ==
  /\ main = "open"
  /\ HeaderOutcome(dump) # "ok"
  /\ Return(HeaderOutcome(dump))

OpenFails ==
  /\ main = "open"
  /\ "io" \in Faults
  /\ Return("StdIoError")

\* The threads are started one after the other; the pool of record vectors is
\* filled between the first and the second.
SpawnPrefetch ==
  /\ main = "spawn_prefetch"
  /\ fetcher' = "loop"
  /\ vecs' = Sent(vecs, << >>)
  /\ main' = "spawn_parser"
  /\ UNCHANGED <<input, data, pool, records, progress, result, fetched, parserVars,
                 recorderVars, outcome, position, answer>>

SpawnParser ==
  /\ main = "spawn_parser"
  /\ parser' = "recv"
  /\ main' = "spawn_recorder"
  /\ UNCHANGED <<input, channels, fetcherVars, loop_buffer, rest, pooled_vec, needed,
                 remaining, processed, recorderVars, outcome, position, answer>>

SpawnRecorder ==
  /\ main = "spawn_recorder"
  /\ recorder' = "recv"
  /\ main' = "progress"
  /\ UNCHANGED <<input, channels, fetcherVars, parserVars, batch, recorded,
                 outcome, position, answer>>

SpawnFails ==
  /\ main \in {"spawn_prefetch", "spawn_parser", "spawn_recorder"}
  /\ "spawn" \in Faults
  /\ Return("StdIoError")

\* while let Ok(processed) = receive_progress.recv()
ShowProgress ==
  /\ main = "progress"
  /\ Ready(progress)
  /\ position' = Head(progress.q)
  /\ progress' = Taken(progress)
  /\ UNCHANGED <<input, data, pool, records, vecs, result, fetcherVars, parserVars,
                 recorderVars, main, outcome, answer>>

FinishProgress ==
  /\ main = "progress"
  /\ Disconnected(progress)
  /\ main' = "result"
  /\ UNCHANGED <<input, channels, fetcherVars, parserVars, recorderVars,
                 outcome, position, answer>>

ReceiveResult ==
  /\ main = "result"
  /\ Ready(result)
  /\ answer' = Head(result.q)
  /\ result' = Taken(result)
  /\ main' = "join_prefetch"
  /\ UNCHANGED <<input, data, pool, records, vecs, progress, fetcherVars, parserVars,
                 recorderVars, outcome, position>>

\* expect("result channel should be alive"): the recorder died before it answered.
NoResult ==
  /\ main = "result"
  /\ Disconnected(result)
  /\ Return("panic")

\* Mutant: the result of a join is not looked at.
JoinNext_IGNORES_PANIC ==
  /\ \/ /\ main = "join_prefetch"
        /\ fetcher \in {"done", "panicked"}
        /\ main' = "join_parser"
     \/ /\ main = "join_parser"
        /\ parser \in {"done", "panicked"}
        /\ main' = "join_recorder"
  /\ UNCHANGED <<input, channels, fetcherVars, parserVars, recorderVars,
                 outcome, position, answer>>

\* The thread that main waits for has ended normally.
JoinNext ==
  /\ \/ main = "join_prefetch" /\ fetcher = "done" /\ main' = "join_parser"
     \/ main = "join_parser" /\ parser = "done" /\ main' = "join_recorder"
  /\ UNCHANGED <<input, channels, fetcherVars, parserVars, recorderVars,
                 outcome, position, answer>>

JoinLast ==
  /\ main = "join_recorder"
  /\ recorder = "done"
  /\ Return("ok")

\* join() returns the panic of the thread.
JoinFails ==
  /\ \/ main = "join_prefetch" /\ fetcher = "panicked"
     \/ main = "join_parser" /\ parser = "panicked"
     \/ main = "join_recorder" /\ recorder = "panicked"
  /\ Return("StdThreadError")

MainNext ==
  \/ ReadHeader \/ RejectHeader \/ OpenFails
  \/ SpawnPrefetch \/ SpawnParser \/ SpawnRecorder \/ SpawnFails
  \/ ShowProgress \/ FinishProgress
  \/ ReceiveResult \/ NoResult
  \/ JoinNext \/ JoinLast \/ JoinFails

FetcherStep ==
  /\ FetcherNext
  /\ UNCHANGED <<records, vecs, progress, result, parserVars, recorderVars, mainVars>>

ParserStep ==
  /\ ParserNext
  /\ UNCHANGED <<result, fetcherVars, recorderVars, mainVars>>

RecorderStep ==
  /\ RecorderNext
  /\ UNCHANGED <<data, pool, progress, fetcherVars, parserVars, mainVars>>

\* The call is over; the process goes on or exits, with whatever still runs.
Terminated == main = "returned" /\ UNCHANGED vars

Next == FetcherStep \/ ParserStep \/ RecorderStep \/ MainNext \/ Terminated

Spec == Init /\ [][Next]_vars

\* Every thread that can take a step eventually does: they are threads of the
\* operating system, they take no locks, and reads of a file return.
Fairness ==
  /\ WF_vars(FetcherStep)
  /\ WF_vars(ParserStep)
  /\ WF_vars(RecorderStep)
  /\ WF_vars(MainNext)

FairSpec == Spec /\ Fairness
-----------------------------------------------------------------------------
(***************************************************************************)
(* Properties.                                                             *)
(***************************************************************************)

\* The vectors on their way from the parser to the recorder, joined.
InFlight == IF records.q = << >> THEN batch ELSE batch \o records.q[1]

\* The number of records that parse_hprof_record has returned so far.
Parsed == Len(recorded) + Len(InFlight) + Len(pooled_vec)

\* As long as the recorder lives (or is still to be started), the records
\* recorded, on their way and being parsed are at any moment the first Parsed
\* records of the dump, each once and in the order of the file: cutting
\* the file into buffers, carrying the rest of a buffer over to the next one (record_stream_parser.rs drain and append), the early return of lazy_many1
\* and the swap of pooled vectors neither lose, repeat nor reorder a record.
RecordsInOrder ==
  recorder # "dropped" => recorded \o InFlight \o pooled_vec = Span(0, Parsed)

\* When slurp_file returns Ok, the result was rendered from all the records that
\* are whole in the file: no thread stopped early without main noticing.
SuccessIsWholeDump == outcome = "ok" => answer = Span(0, WholeRecords(dump))

\* The parser looks tags up in the right table: heap_dump_remaining_len is what
\* is left of the enclosing heap dump before the next record, whatever the
\* buffers were and however often a record was tried in vain.
HeapDumpTracked ==
  (parser \in {"recv", "first", "more"} /\ recorder # "dropped")
    => remaining = dump.rem[Parsed + 1]

\* Without faults, slurp_file fails on a dump with a valid header only if the
\* dump has a record that the parser cannot read: the expects on the channels,
\* the assertion on processed_len and the joins never fail on their own.
FailureHasCause ==
  (Faults = {} /\ outcome \in {"StdThreadError", "StdIoError", "panic"}
               /\ HeaderOutcome(dump) = "ok")
    => \E i \in 1..dump.n : dump.kind[i] = "unreadable"

\* The memory of the streaming pass is bounded whatever the length of the file:
\* the working buffer holds less than one record and one input buffer, and no
\* more than the pooled input buffers and one vector of records are under way.
MemoryBounded ==
  /\ \/ Len(loop_buffer) <= read_size
     \/ \E i \in 1..dump.n : Len(loop_buffer) < Size(dump, i) + read_size
  /\ Len(data.q) <= PoolBuffers
  /\ \A i \in 1..Len(data.q) : data.q[i].hi - data.q[i].lo <= read_size
  /\ Len(records.q) + Len(vecs.q) <= 1

\* The parser waits for more data only as long as the file may still have it:
\* `needed` never asks for more than the current record.
NeededIsJustified ==
  (parser = "recv" /\ needed > 0 /\ recorder # "dropped") =>
    /\ Parsed < dump.n
    /\ processed + needed <= dump.start[Parsed + 2]

\* When slurp_file returns Ok, and main prints "File successfully processed", the
\* parser has processed the file to its last byte.
SuccessIsWholeFile == outcome = "ok" => processed = dump.len

\* The input buffers in circulation between the pre-fetcher and the parser.
Filling == IF fetcher = "filling" THEN 1 ELSE 0
Circulating == Len(pool.q) + Len(data.q) + Filling

\* The initial working buffer joins the pool of input buffers after the first chunk
\* (the comment on initial_loop_buffer in slurp.rs).
LoopBufferJoinsPool ==
  (parser = "recv" /\ processed > FileHeaderLength /\ fetcher \in {"loop", "filling"})
    => Circulating = PoolBuffers + 1

\* The progress bar never moves back.
ProgressMonotone == [][position' >= position]_position

\* The call ends: no thread waits for ever on a channel whose other end is gone
\* or waits for it in turn, whichever thread fails first.
Termination == <>(main = "returned")

\* No thread is left behind: whatever fails, and also after slurp_file has
\* returned, every thread that was started comes to an end.
ThreadsEnd ==
  <>[](/\ fetcher \in {"done", "panicked", "dropped"}
       /\ parser \in {"done", "panicked", "dropped"}
       /\ recorder \in {"done", "panicked", "dropped"})

\* slurp_file keeps the promise of SlurpSpec: its threads, buffers, pools and
\* joins implement a pass that records the file in order and answers with all
\* of it or fails.
Promise == INSTANCE SlurpSpec WITH answer <- IF outcome = "ok" THEN answer ELSE << >>
KeepsPromise == Promise!SlurpSpec

\* A dump with a valid header and only readable records is processed.
Completion ==
  (/\ main = "open"
   /\ Faults = {}
   /\ HeaderOutcome(dump) = "ok"
   /\ \A i \in 1..dump.n : dump.kind[i] # "unreadable") ~> outcome = "ok"
=============================================================================
