---------------------------- MODULE RecordParser ----------------------------
(***************************************************************************)
(* HprofRecordParser at the level of the single reads, fed by the stream   *)
(* parser with the bytes received so far.  A read that runs out of input   *)
(* makes the whole record be tried again from its tag when more bytes have *)
(* come.  RecordStreamParser sees a call of parse_hprof_record as one step *)
(* and the ends of its reads as the stops of the record.                   *)
(***************************************************************************)
EXTENDS HprofFormat

CONSTANTS Streams,    \* the sequences of records considered, each with its id_size
          ChunkSizes  \* the values considered for READ_BUFFER_SIZE

ASSUME StreamAssumption == \A f \in Streams : WellFormed(f)
ASSUME ChunkAssumption == ChunkSizes \subseteq Nat \ {0}

VARIABLES
  file,       \* [id_size, records]: what is in the file behind its header
  chunk,      \* READ_BUFFER_SIZE
  at,         \* the record that is being parsed
  pos,        \* the bytes consumed by the records before it
  reads,      \* the reads done of this attempt
  offset,     \* the bytes they took
  available,  \* the bytes received
  pushed,     \* the records pushed in this round of lazy_many1
  needed,     \* the bytes from pos on that must be there before the next attempt
  remaining,  \* heap_dump_remaining_len
  tries,      \* the attempts at this record that ran out of input
  phase       \* "parse", "wait" for input, "panicked"

vars == <<file, chunk, at, pos, reads, offset, available, pushed, needed, remaining, tries, phase>>

Total == Start(file, Len(file.records) + 1)

TypeOK ==
  /\ file.id_size \in {4, 8}
  /\ chunk \in ChunkSizes
  /\ at \in 1..(Len(file.records) + 1)
  /\ pos \in Nat /\ reads \in Nat /\ offset \in Nat
  /\ available \in 0..Total
  /\ pushed \in Nat /\ needed \in Nat /\ remaining \in Nat /\ tries \in Nat
  /\ phase \in {"parse", "wait", "panicked"}

Init ==
  /\ file \in Streams
  /\ chunk \in ChunkSizes
  /\ at = 1 /\ pos = 0 /\ reads = 0 /\ offset = 0 /\ available = 0
  /\ pushed = 0 /\ needed = 0 /\ remaining = 0 /\ tries = 0
  /\ phase = "wait"

\* The bytes at pos are the start of record `at`.
OnRecord == at <= Len(file.records) /\ pos = Start(file, at)

CurrentReads == Reads(file.records[at], file.id_size, remaining > 0)
CurrentPanics == PanicReads(file.records[at], remaining > 0)

\* The size of the next read.  Behind the last record it is that of a tag.
NextRead == IF at > Len(file.records) THEN 1 ELSE CurrentReads[reads + 1]

\* A read succeeds.
ReadField ==
  /\ phase = "parse"
  /\ OnRecord
  /\ reads \notin CurrentPanics
  /\ reads < Len(CurrentReads)
  /\ pos + offset + NextRead <= available
  /\ reads' = reads + 1
  /\ offset' = offset + NextRead
  /\ UNCHANGED <<file, chunk, at, pos, available, pushed, needed, remaining, tries, phase>>

\* Mutant: the whole field is asked for on top of the bytes that are there.
Incomplete_ASKS_TOO_MUCH ==
  /\ phase = "parse"
  /\ \/ at > Len(file.records) /\ pos = Total
     \/ OnRecord /\ reads \notin CurrentPanics /\ reads < Len(CurrentReads)
  /\ pos + offset + NextRead > available
  /\ needed' = IF pushed = 0 THEN NextRead + (available - pos) ELSE 0
  /\ tries' = tries + 1
  /\ reads' = 0
  /\ offset' = 0
  /\ phase' = "wait"
  /\ UNCHANGED <<file, chunk, at, pos, available, pushed, remaining>>

\* Mutant: the record is tried again with every buffer.
Incomplete_ASKS_NOTHING ==
  /\ phase = "parse"
  /\ \/ at > Len(file.records) /\ pos = Total
     \/ OnRecord /\ reads \notin CurrentPanics /\ reads < Len(CurrentReads)
  /\ pos + offset + NextRead > available
  /\ needed' = 0
  /\ tries' = tries + 1
  /\ reads' = 0
  /\ offset' = 0
  /\ phase' = "wait"
  /\ UNCHANGED <<file, chunk, at, pos, available, pushed, remaining>>

\* Incomplete(Size(n)): on the first record of a round the missing bytes are asked
\* for; otherwise the round is over and the next buffer starts a new one.
Incomplete ==
  /\ phase = "parse"
  /\ \/ at > Len(file.records) /\ pos = Total
     \/ OnRecord /\ reads \notin CurrentPanics /\ reads < Len(CurrentReads)
  /\ pos + offset + NextRead > available
  /\ needed' = IF pushed = 0 THEN offset + NextRead ELSE 0
  /\ tries' = tries + 1
  /\ reads' = 0
  /\ offset' = 0
  /\ phase' = "wait"
  /\ UNCHANGED <<file, chunk, at, pos, available, pushed, remaining>>

\* Mutant: the tag byte of a sub-record is not counted.
RemainingAfter_WITHOUT_TAG(r, size) ==
  CASE remaining > 0 -> SaturatingSub(remaining, size - 1)
    [] remaining = 0 /\ r.tag \in HeapDumpTags -> r.length
    [] OTHER -> 0

\* heap_dump_remaining_len after a record that took size bytes.
RemainingAfter(r, size) ==
  CASE remaining > 0 -> SaturatingSub(remaining, size)
    [] remaining = 0 /\ r.tag \in HeapDumpTags -> r.length
    [] OTHER -> 0

\* The last read is done: the record is pushed.
RecordDone ==
  /\ phase = "parse"
  /\ OnRecord
  /\ reads \notin CurrentPanics
  /\ reads = Len(CurrentReads)
  /\ remaining' = RemainingAfter(file.records[at], offset)
  /\ pos' = pos + offset
  /\ at' = at + 1
  /\ pushed' = pushed + 1
  /\ reads' = 0
  /\ offset' = 0
  /\ tries' = 0
  /\ UNCHANGED <<file, chunk, available, needed, phase>>

\* An unhandled tag or a bad type.
ReadPanics ==
  /\ phase = "parse"
  /\ OnRecord
  /\ reads \in CurrentPanics
  /\ phase' = "panicked"
  /\ UNCHANGED <<file, chunk, at, pos, reads, offset, available, pushed, needed, remaining, tries>>

\* Mutant: the last buffer is not cut to what is left of the file.
Arrive_BEHIND_THE_END ==
  /\ phase = "wait"
  /\ available < Total
  /\ available' = available + chunk
  /\ pushed' = 0
  /\ phase' = IF needed > available' - pos THEN "wait" ELSE "parse"
  /\ UNCHANGED <<file, chunk, at, pos, reads, offset, needed, remaining, tries>>

\* Mutant: parsing is put off although the buffer has just what was asked for.
Arrive_OFF_BY_ONE ==
  /\ phase = "wait"
  /\ available < Total
  /\ available' = IF available + chunk < Total THEN available + chunk ELSE Total
  /\ pushed' = 0
  /\ phase' = IF needed >= available' - pos THEN "wait" ELSE "parse"
  /\ UNCHANGED <<file, chunk, at, pos, reads, offset, needed, remaining, tries>>

\* A buffer is appended; parsing is tried when it holds what was asked for.
Arrive ==
  /\ phase = "wait"
  /\ available < Total
  /\ available' = IF available + chunk < Total THEN available + chunk ELSE Total
  /\ pushed' = 0
  /\ phase' = IF needed > available' - pos THEN "wait" ELSE "parse"
  /\ UNCHANGED <<file, chunk, at, pos, reads, offset, needed, remaining, tries>>

\* The stream has ended, or the parser has.
Ended ==
  /\ phase = "panicked" \/ (phase = "wait" /\ available = Total)
  /\ UNCHANGED vars

Next ==
  \/ ReadField
  \/ Incomplete
  \/ RecordDone
  \/ ReadPanics
  \/ Arrive
  \/ Ended

Spec == Init /\ [][Next]_vars /\ WF_vars(Next)
-----------------------------------------------------------------------------
\* parse_hprof_record takes from the input just the record that the writer put
\* there, whatever its kind, the identifier size and the cuts of the input: the
\* next record, or the end of the file, is where the parser looks for it.
Aligned == pos = Start(file, at)

\* A tag is looked up among the sub-records when, and only when, it is the tag of
\* a sub-record: heap_dump_remaining_len reaches 0 with the last of them.
RightTable == at <= Len(file.records) => (remaining > 0 <=> file.records[at].sub)

\* The parser never waits for bytes that belong to the next record or lie behind
\* the end of the file: a whole record in the input is never left unparsed.
AsksOnlyForRecord ==
  (phase = "wait" /\ needed > 0 /\ at <= Len(file.records))
    => pos + needed <= Start(file, at + 1)

\* A record is tried again at most once for each of its reads, however small the
\* buffers are: `needed` makes every attempt at the head of a round get further.
RetriesBounded == at <= Len(file.records) => tries <= Len(CurrentReads)

\* A stream without unknown tags and types is parsed to its end.
AllParsed ==
  (\A k \in 1..Len(file.records) : PanicReads(file.records[k], file.records[k].sub) = {})
    ~> (pos = Total /\ phase = "wait")

-----------------------------------------------------------------------------
(* The inductive invariant behind Aligned, RightTable, AsksOnlyForRecord   *)
(* and RetriesBounded, for files that are SampledOnce.                     *)

\* What heap_dump_remaining_len counts: the sub-records from the current one on.
Enclosed ==
  \E m \in (at - 1)..Len(file.records) :
    SubRecordsUpTo(file, at, m) /\ remaining = Start(file, m + 1) - Start(file, at)

\* The attempt has taken the bytes of its reads, and they are there.
Attempt ==
  /\ reads <= Len(CurrentReads)
  /\ offset = SumTo(CurrentReads, reads)
  /\ pos + offset <= available

\* After n tries the bytes of n reads are there, or are what is waited for.  The first
\* try may end a round, and then asks for nothing: any byte is enough for the tag.
Persistent ==
  /\ tries <= Len(CurrentReads)
  /\ phase = "parse" => pos + SumTo(CurrentReads, tries) <= available /\ (pushed > 0 => tries = 0)
  /\ phase = "wait" => \/ needed >= SumTo(CurrentReads, tries)
                       \/ needed = 0 /\ tries = 1

ParserInv ==
  /\ Aligned
  /\ pos <= available
  /\ Enclosed
  /\ phase = "wait" \/ at > Len(file.records) => reads = 0 /\ offset = 0
  /\ at <= Len(file.records) => Attempt /\ Persistent
  /\ AsksOnlyForRecord
=============================================================================
