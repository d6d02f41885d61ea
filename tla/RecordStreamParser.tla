------------------------- MODULE RecordStreamParser -------------------------
(***************************************************************************)
(* The "hprof-parser" thread.  It appends each input buffer to its working *)
(* buffer, parses as many records as the working buffer holds (lazy_many1  *)
(* over parse_hprof_record), keeps the unparsed rest for the next round,   *)
(* and trades the vector of parsed records for an empty one.               *)
(*                                                                         *)
(* A step of lazy_many1 is one call of parse_hprof_record.  That call      *)
(* reads the fields of a record one by one; when the input ends within a   *)
(* field it changes nothing and reports how many bytes that field lacks.   *)
(***************************************************************************)
EXTENDS PipelineChannels

VARIABLES
  parser,       \* where the thread is
  loop_buffer,  \* the bytes received and not yet processed
  rest,         \* the input of the next parse_hprof_record, a suffix of loop_buffer
  pooled_vec,   \* the records parsed in this round
  needed,       \* the length loop_buffer must have before parsing is tried again
  remaining,    \* heap_dump_remaining_len of the record parser
  processed     \* processed_len: bytes of the file parsed so far, header included

parserVars == <<parser, loop_buffer, rest, pooled_vec, needed, remaining, processed>>

TypeOKParser ==
  /\ parser \in {"unborn", "recv", "first", "more", "parsed", "swap",
                 "done", "panicked", "dropped"}
  /\ loop_buffer \in Seq(Nat)
  /\ rest \in Seq(Nat)
  /\ pooled_vec \in Seq(Nat)
  /\ needed \in Nat
  /\ remaining \in Nat
  /\ processed \in Nat

InitParser ==
  /\ parser = "unborn"
  /\ loop_buffer = << >>
  /\ rest = << >>
  /\ pooled_vec = << >>
  /\ needed = 0
  /\ remaining = 0
  /\ processed = FileHeaderLength

\* The thread ends, in one way or another, and drops its ends of the channels.
ParserEnds(how) ==
  /\ parser' = how
  /\ data' = DropReceiver(data)
  /\ pool' = DropSender(pool)
  /\ records' = DropSender(records)
  /\ vecs' = DropReceiver(vecs)
  /\ progress' = DropSender(progress)
  /\ UNCHANGED <<input, loop_buffer, rest, pooled_vec, needed, remaining, processed>>

-----------------------------------------------------------------------------
(***************************************************************************)
(* parse_hprof_record on the input rest.                                   *)
(***************************************************************************)

\* The record whose tag is the first byte of the input.
AtRecord(i) == rest # << >> /\ rest[1] = dump.start[i] + 1

\* The tag is looked up among those of the sub-records within a heap dump, and
\* among those of the top-level records otherwise.
InTable(i) ==
  \/ dump.kind[i] = "unreadable"
  \/ (dump.kind[i] = "gc") <=> (remaining > 0)

Complete(i) == Size(dump, i) <= Len(rest)

\* The end of the first field of record i that the input does not hold.
MissingStop(i, s) ==
  /\ s \in dump.stops[i]
  /\ s > dump.start[i] + Len(rest)
  /\ \A t \in dump.stops[i] : t > dump.start[i] + Len(rest) => s <= t

\* Mutant: the subtraction does not saturate.
SaturatingSub_WRAPS(a, b) == a - b

SaturatingSub(a, b) == IF b < a THEN a - b ELSE 0

\* Mutant: the tag byte of a sub-record is not counted.
RemainingAfter_WITHOUT_TAG(i) ==
  IF dump.kind[i] = "segment" THEN dump.seg[i]
  ELSE IF dump.kind[i] = "gc" THEN SaturatingSub(remaining, (Size(dump, i) - 1) % U32)
  ELSE remaining

\* heap_dump_remaining_len once record i is parsed: a heap dump header sets it,
\* a sub-record is deducted from it (saturating_sub of a length cast to u32).
RemainingAfter(i) ==
  IF dump.kind[i] = "segment" THEN dump.seg[i]
  ELSE IF dump.kind[i] = "gc" THEN SaturatingSub(remaining, Size(dump, i) % U32)
  ELSE remaining

\* Ok((i1, o)): the record is pushed and the loop goes on behind it.
ParseRecord ==
  /\ parser \in {"first", "more"}
  /\ \E i \in 1..dump.n :
       /\ AtRecord(i)
       /\ InTable(i)
       /\ Complete(i)
       /\ dump.kind[i] # "unreadable"
       /\ pooled_vec' = Append(pooled_vec, i)
       /\ rest' = SubSeq(rest, Size(dump, i) + 1, Len(rest))
       /\ remaining' = RemainingAfter(i)
  /\ parser' = "more"
  /\ UNCHANGED <<input, loop_buffer, needed, processed, data, pool, records, vecs, progress>>

\* Incomplete(Size(n)) on the first record of a round: nothing can be handed on,
\* and parsing waits until the working buffer holds the missing n bytes too.
NeedMore ==
  /\ parser = "first"
  /\ \E i \in 1..dump.n :
       /\ AtRecord(i)
       /\ InTable(i)
       /\ ~Complete(i)
       /\ \E s \in dump.stops[i] :
            /\ MissingStop(i, s)
            /\ needed' = (s - (dump.start[i] + Len(rest))) + Len(loop_buffer)
  /\ parser' = "recv"
  /\ UNCHANGED <<input, loop_buffer, rest, pooled_vec, remaining, processed,
                 data, pool, records, vecs, progress>>

\* Incomplete after at least one record: the round ends with what it has.
EndOfInput ==
  /\ parser = "more"
  /\ \/ rest = << >>
     \/ \E i \in 1..dump.n : AtRecord(i) /\ InTable(i) /\ ~Complete(i)
  /\ parser' = "parsed"
  /\ UNCHANGED <<input, loop_buffer, rest, pooled_vec, needed, remaining, processed,
                 data, pool, records, vecs, progress>>

\* The byte that makes a record unreadable has been reached.  Bytes that are not
\* the start of a record, or a tag looked up in the wrong table, are taken for
\* something else: that is an outcome no run may reach, and it ends here too.
ParsePanics ==
  /\ parser \in {"first", "more"}
  /\ rest # << >>
  /\ \A i \in 1..dump.n :
       AtRecord(i) => \/ ~InTable(i)
                      \/ dump.kind[i] = "unreadable" /\ Complete(i)
  /\ ParserEnds("panicked")

-----------------------------------------------------------------------------
(***************************************************************************)
(* The loop of the thread.                                                 *)
(***************************************************************************)

\* Mutant: parsing is put off although the buffer has just what was asked for.
ReceiveChunk_OFF_BY_ONE ==
  /\ parser = "recv"
  /\ Ready(data)
  /\ data' = Taken(data)
  /\ pool' = SentOrLost(pool, EmptyBuffer)
  /\ loop_buffer' = loop_buffer \o Span(Head(data.q).lo, Head(data.q).hi)
  /\ IF needed >= Len(loop_buffer')
     THEN UNCHANGED <<parser, rest>>
     ELSE parser' = "first" /\ rest' = loop_buffer'
  /\ UNCHANGED <<input, pooled_vec, needed, remaining, processed, records, vecs, progress>>

\* Mutant: the input buffer is not given back.
ReceiveChunk_KEEPS_BUFFER ==
  /\ parser = "recv"
  /\ Ready(data)
  /\ data' = Taken(data)
  /\ pool' = pool
  /\ loop_buffer' = loop_buffer \o Span(Head(data.q).lo, Head(data.q).hi)
  /\ IF needed > Len(loop_buffer')
     THEN UNCHANGED <<parser, rest>>
     ELSE parser' = "first" /\ rest' = loop_buffer'
  /\ UNCHANGED <<input, pooled_vec, needed, remaining, processed, records, vecs, progress>>

\* An input buffer is appended to the working buffer and goes back to the pool.
\* Parsing is tried when the ongoing record has what it asked for.
ReceiveChunk ==
  /\ parser = "recv"
  /\ Ready(data)
  /\ data' = Taken(data)
  /\ pool' = SentOrLost(pool, EmptyBuffer)
  /\ loop_buffer' = loop_buffer \o Span(Head(data.q).lo, Head(data.q).hi)
  /\ IF needed > Len(loop_buffer')
     THEN UNCHANGED <<parser, rest>>
     ELSE parser' = "first" /\ rest' = loop_buffer'
  /\ UNCHANGED <<input, pooled_vec, needed, remaining, processed, records, vecs, progress>>

\* What the round consumed.
iteration_processed == Len(loop_buffer) - Len(rest)

\* Mutant: the consumed bytes stay in the working buffer.
DrainAndReport_NO_DRAIN ==
  /\ parser = "parsed"
  /\ processed + iteration_processed <= dump.len
  /\ Accepts(progress)
  /\ processed' = processed + iteration_processed
  /\ progress' = Sent(progress, processed')
  /\ parser' = "swap"
  /\ UNCHANGED <<input, loop_buffer, rest, pooled_vec, needed, remaining, data, pool,
                 records, vecs>>

\* Mutant: the bytes of the round are reported instead of the total.
DrainAndReport_DELTA ==
  /\ parser = "parsed"
  /\ processed + iteration_processed <= dump.len
  /\ Accepts(progress)
  /\ processed' = processed + iteration_processed
  /\ loop_buffer' = SubSeq(loop_buffer, iteration_processed + 1, Len(loop_buffer))
  /\ progress' = Sent(progress, iteration_processed)
  /\ parser' = "swap"
  /\ UNCHANGED <<input, rest, pooled_vec, needed, remaining, data, pool, records, vecs>>

\* The consumed bytes are drained and the progress is reported.
DrainAndReport ==
  /\ parser = "parsed"
  /\ processed + iteration_processed <= dump.len
  /\ Accepts(progress)
  /\ processed' = processed + iteration_processed
  /\ loop_buffer' = SubSeq(loop_buffer, iteration_processed + 1, Len(loop_buffer))
  /\ progress' = Sent(progress, processed')
  /\ parser' = "swap"
  /\ UNCHANGED <<input, rest, pooled_vec, needed, remaining, data, pool, records, vecs>>

\* Mutant: `needed` is not reset.
SwapAndSend_STALE_NEEDED ==
  /\ parser = "swap"
  /\ Ready(vecs)
  /\ Accepts(records)
  /\ pooled_vec' = Head(vecs.q)
  /\ vecs' = Taken(vecs)
  /\ records' = Sent(records, pooled_vec)
  /\ parser' = "recv"
  /\ UNCHANGED <<input, loop_buffer, rest, needed, remaining, processed, data, pool, progress>>

\* A pooled vector is swapped for the vector of this round, which goes to the
\* recorder; the wait for a long record is over.
SwapAndSend ==
  /\ parser = "swap"
  /\ Ready(vecs)
  /\ Accepts(records)
  /\ pooled_vec' = Head(vecs.q)
  /\ vecs' = Taken(vecs)
  /\ records' = Sent(records, pooled_vec)
  /\ needed' = 0
  /\ parser' = "recv"
  /\ UNCHANGED <<input, loop_buffer, rest, remaining, processed, data, pool, progress>>

\* The assertion on processed_len, or an expect on a channel whose other end is gone.
ParserPanics ==
  /\ \/ parser = "parsed" /\ processed + iteration_processed > dump.len
     \/ parser = "parsed" /\ ~Accepts(progress)
     \/ parser = "swap" /\ Disconnected(vecs)
     \/ parser = "swap" /\ Ready(vecs) /\ ~Accepts(records)
  /\ ParserEnds("panicked")

\* The pre-fetcher is gone and its last buffer has been processed.
ParserFinishes ==
  /\ parser = "recv"
  /\ Disconnected(data)
  /\ ParserEnds("done")

ParserNext ==
  \/ ReceiveChunk
  \/ ParseRecord
  \/ NeedMore
  \/ EndOfInput
  \/ ParsePanics
  \/ DrainAndReport
  \/ SwapAndSend
  \/ ParserPanics
  \/ ParserFinishes
=============================================================================
