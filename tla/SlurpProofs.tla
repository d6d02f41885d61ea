---------------------------- MODULE SlurpProofs ----------------------------
(***************************************************************************)
(* Theorems about slurp_file for every dump, every buffer size, every pool *)
(* and every combination of faults: the invariant of SlurpInvariant holds, *)
(* and from it the safety properties of Slurp, the promise of SlurpSpec,   *)
(* the bounds of what is held and the causes of failures follow.           *)
(***************************************************************************)
EXTENDS SlurpSteps

-----------------------------------------------------------------------------
(***************************************************************************)
(* The answer.                                                             *)
(***************************************************************************)

\* Once all three threads have ended normally, every record that is whole in the
\* file is recorded: the pre-fetcher went to the end of the file, the parser
\* received all of it, and nothing is left in a buffer but part of a record.
LEMMA AllRecorded ==
  ASSUME TypeInv, Bytes, Records, fetcher = "done", parser = "done", recorder = "done"
  PROVE  recorded = Span(0, WholeRecords(dump))
<1>0. WellFormedRecords(dump)
  BY DEF TypeInv, HeaderRead
<1>1. BufferEnd = dump.len
  BY DEF Bytes, Fetching, Contiguous
<1>2. batch = << >> /\ records.q = << >> /\ recorded = Span(0, Recorded)
  BY DEF Records, Order, Vectors
<1>3. /\ pooled_vec = << >> /\ Pushed <= dump.n /\ dump.start[Pushed + 1] <= BufferEnd
      /\ Pushed < dump.n => BufferEnd < dump.start[Pushed + 2]
  BY DEF Records, Position
<1>4. Pushed = Recorded /\ Pushed \in Nat
  <2>1. Len(batch) = 0 /\ Len(pooled_vec) = 0
    BY <1>2, <1>3
  <2> QED
    BY <2>1, <1>2, Counts
<1>5. dump.n \in Nat /\ dump.len \in Nat /\ \A i \in 1..dump.n : dump.start[i] < dump.len
  BY <1>0 DEF WellFormedRecords
<1>6. CASE Pushed = dump.n
  <2>1. dump.n + 1 \in 1..(dump.n + 1)
    BY <1>5
  <2>2. dump.start[dump.n + 1] \in Nat /\ dump.start[dump.n + 1] <= dump.len
    BY <1>0, <1>1, <1>3, <1>6, <2>1, StartsDiffer
  <2>3. WholeRecords(dump) = Pushed
    BY <2>2, <1>5, <1>6 DEF WholeRecords
  <2> QED
    BY <2>3, <1>2, <1>4
<1>7. CASE Pushed < dump.n
  <2>1. Pushed + 2 \in 1..(dump.n + 1)
    BY <1>4, <1>5, <1>7
  <2>2. dump.start[Pushed + 2] \in Nat /\ dump.len < dump.start[Pushed + 2]
    BY <1>0, <1>1, <1>3, <1>7, <2>1, StartsDiffer
  <2>3. Pushed + 2 \notin 1..dump.n
    BY <2>2, <1>5
  <2>4. dump.n = Pushed + 1 /\ dump.n + 1 = Pushed + 2 /\ dump.n - 1 = Pushed
    BY <2>1, <2>3, <1>4, <1>5
  <2>5. WholeRecords(dump) = Pushed
    BY <2>2, <2>4, <1>4 DEF WholeRecords
  <2> QED
    BY <2>5, <1>2, <1>4
<1> QED
  BY <1>3, <1>4, <1>5, <1>6, <1>7

\* The channel of the result after each operation.
LEMMA FieldsOfResult ==
  ASSUME TypeOKChannels
  PROVE  /\ result.q \in Seq(Seq(Nat))
         /\ Taken(result).q = Tail(result.q)
         /\ DropSender(result).q = result.q
         /\ \A c : DropReceiver(c).q = << >>
         /\ result.q = << >> => DropSender(Sent(result, recorded)).q = << recorded >>
<1>1. result \in Channels(Seq(Nat))
  BY DEF TypeOKChannels
<1>2. /\ result.q \in Seq(Seq(Nat)) /\ Taken(result).q = Tail(result.q)
      /\ DropSender(result).q = result.q
      /\ Sent(result, recorded).q = Append(result.q, recorded)
  BY <1>1, ChannelType, ChannelFields
<1>3. \A c : DropReceiver(c).q = << >>
  BY DEF DropReceiver
<1>4. DropSender(Sent(result, recorded)).q = Append(result.q, recorded)
  BY <1>1, <1>2 DEF DropSender, Sent, Channels
<1>5. Append(<< >>, recorded) = <<recorded>>
  OBVIOUS
<1>6. result.q = << >> => DropSender(Sent(result, recorded)).q = << recorded >>
  BY <1>4, <1>5
<1> QED
  BY <1>2, <1>3, <1>6

\* Every step keeps what main knows of the result.
LEMMA AnsweringStep ==
  SlurpInv /\ [Next]_vars => Answering'
<1> SUFFICES ASSUME TypeInv, Lifecycle, Bytes, Records, Answering, [Next]_vars
             PROVE  Answering'
  BY DEF SlurpInv
<1>0. TypeOKChannels
  BY DEF TypeInv, TypeOK
<1> USE DEF channels, fetcherVars, parserVars, recorderVars, mainVars, input
<1>1. ASSUME FetcherStep PROVE Answering'
  <2>1. fetcher # "done" /\ dump' = dump
    BY <1>1 DEF FetcherStep, FetcherNext, TakeBuffer, FillAndSend, FetcherPanicsOnClosed, ReadFails,
                FetcherFinishes, FetcherEnds
  <2> QED
    BY <1>1, <2>1 DEF FetcherStep, Answering
<1>2. ASSUME ParserStep PROVE Answering'
  <2>1. parser # "done" /\ dump' = dump
    BY <1>2 DEF ParserStep, ParserNext, ReceiveChunk, ParseRecord, NeedMore, EndOfInput, ParsePanics,
                DrainAndReport, SwapAndSend, ParserPanics, ParserFinishes, ParserEnds
  <2> QED
    BY <1>2, <2>1 DEF ParserStep, Answering
<1>3. ASSUME RecorderStep PROVE Answering'
  <2>1. recorder # "done" /\ dump' = dump /\ UNCHANGED <<fetcher, parser, main, outcome, answer>>
    BY <1>3 DEF RecorderStep, RecorderNext, ReceiveBatch, RecordBatch, StartRendering, SendResult,
                RenderPanics, RecorderDrops
  <2>2. result.q = << >> /\ main \notin {"join_prefetch", "join_parser", "join_recorder"}
    BY <2>1 DEF Answering
  <2>3. \/ recorder' # "done" /\ result'.q = << >>
        \/ recorder' = "done" /\ recorded' = recorded /\ result'.q = <<recorded>>
    <3>1. CASE ReceiveBatch \/ RecordBatch \/ StartRendering
      BY <2>2, <3>1 DEF ReceiveBatch, RecordBatch, StartRendering
    <3>2. CASE SendResult
      BY <2>2, <3>2, <1>0, FieldsOfResult DEF SendResult, RecorderDrops
    <3>3. CASE RenderPanics
      BY <2>2, <3>3, <1>0, FieldsOfResult DEF RenderPanics, RecorderDrops
    <3> QED
      BY <1>3, <3>1, <3>2, <3>3 DEF RecorderStep, RecorderNext
  <2> QED
    BY <2>1, <2>2, <2>3 DEF Answering
<1>4. ASSUME NEW how, Return(how), how = "ok" => answer = Span(0, WholeRecords(dump))
      PROVE  Answering'
  <2>1. /\ main' = "returned" /\ outcome' = how /\ UNCHANGED <<dump, answer>> /\ result'.q = << >>
    BY <1>4, <1>0, FieldsOfResult DEF Return
  <2> QED
    BY <1>4, <2>1 DEF Answering
<1>5. ASSUME MainNext PROVE Answering'
  <2>1. CASE RejectHeader \/ OpenFails \/ SpawnFails \/ NoResult \/ JoinFails
    BY <2>1, <1>4 DEF RejectHeader, OpenFails, SpawnFails, NoResult, JoinFails
  <2>2. CASE JoinLast
    <3>1. fetcher = "done" /\ parser = "done" /\ recorder = "done" /\ answer = recorded
      BY <2>2 DEF JoinLast, Answering
    <3> QED
      BY <2>2, <3>1, <1>4, AllRecorded DEF JoinLast
  <2>3. CASE ReadHeader \/ SpawnPrefetch \/ SpawnParser \/ SpawnRecorder
    BY <2>3 DEF ReadHeader, SpawnPrefetch, SpawnParser, SpawnRecorder, Answering, Lifecycle
  <2>4. CASE ShowProgress \/ FinishProgress \/ JoinNext
    BY <2>4 DEF ShowProgress, FinishProgress, JoinNext, Answering
  <2>5. CASE ReceiveResult
    <3>1. result.q # << >> /\ main = "result" /\ main' = "join_prefetch" /\ answer' = Head(result.q)
          /\ result'.q = Tail(result.q)
          /\ UNCHANGED <<dump, fetcher, parser, recorder, recorded, outcome>>
      BY <2>5, <1>0, FieldsOfResult DEF ReceiveResult, Ready
    <3>2. recorder = "done" /\ result.q = <<recorded>>
      BY <3>1 DEF Answering
    <3>3. answer' = recorded /\ result'.q = << >>
      BY <3>1, <3>2
    <3> QED
      BY <3>1, <3>2, <3>3 DEF Answering
  <2> QED
    BY <1>5, <2>1, <2>2, <2>3, <2>4, <2>5 DEF MainNext
<1>6. CASE UNCHANGED vars
  BY <1>6 DEF vars, Answering
<1> QED
  BY <1>1, <1>2, <1>3, <1>5, <1>6 DEF Next, Terminated

-----------------------------------------------------------------------------
(***************************************************************************)
(* The invariant.                                                          *)
(***************************************************************************)

\* It holds before the file is opened.
LEMMA InvInit == Init => SlurpInv
<1> SUFFICES ASSUME Init PROVE SlurpInv
  OBVIOUS
<1>0. TypeInv
  BY TypeInit
<1>1. /\ fetcher = "unborn" /\ parser = "unborn" /\ recorder = "unborn" /\ main = "open"
      /\ outcome = "none" /\ fetched = FileHeaderLength /\ processed = FileHeaderLength
      /\ loop_buffer = << >> /\ pooled_vec = << >> /\ batch = << >> /\ recorded = << >>
      /\ needed = 0 /\ remaining = 0
      /\ data.q = << >> /\ records.q = << >> /\ vecs.q = << >> /\ result.q = << >>
      /\ data.tx = "live" /\ records.tx = "live"
  BY DEF Init, InitChannels, InitFetcher, InitParser, InitRecorder, Open
<1>2. Lifecycle /\ Ownership /\ Answering
  BY <1>1 DEF Lifecycle, Ownership, Answering, Gone
<1>3. FileHeaderLength \in Nat /\ Len(<< >>) = 0
  BY DumpAssumption
<1>4. Bytes
  <2>1. BufferEnd = FileHeaderLength
    BY <1>1, <1>3 DEF BufferEnd
  <2>2. Span(FileHeaderLength, FileHeaderLength) = << >> /\ Chain(<< >>, FileHeaderLength, FileHeaderLength)
    BY <1>3, SpanEmpty, ChainEmpty
  <2> QED
    BY <1>1, <2>1, <2>2 DEF Bytes, Fetching, Contiguous, Fresh, Gone
<1>5. Records
  <2>1. Recorded = 0 /\ Taking = 0 /\ Sending = 0 /\ Pushed = 0
    <3>1. Recorded = 0
      BY <1>1, <1>3 DEF Recorded
    <3>2. Taking = 0
      BY <1>1, <1>3, <3>1 DEF Taking
    <3>3. Sending = 0
      BY <1>1, <3>2 DEF Sending
    <3> QED
      BY <1>1, <1>3, <3>1, <3>2, <3>3 DEF Pushed
  <2>2. Span(0, 0) = << >>
    BY SpanEmpty
  <2>3. Order
    BY <1>1, <2>1, <2>2 DEF Order
  <2>4. Vectors
    BY <1>1, <1>3 DEF Vectors
  <2> QED
    BY <1>1, <2>3, <2>4 DEF Records, Position, WithinFile
<1> QED
  BY <1>0, <1>2, <1>4, <1>5 DEF SlurpInv

\* Every step keeps it.
LEMMA InvStep == SlurpInv /\ [Next]_vars => SlurpInv'
<1> SUFFICES ASSUME SlurpInv, [Next]_vars PROVE SlurpInv'
  OBVIOUS
<1>1. TypeInv /\ Lifecycle /\ Ownership /\ Bytes /\ Records
  BY DEF SlurpInv
<1>2. TypeInv'
  BY <1>1, TypeStep
<1>3. Lifecycle' /\ Ownership'
  BY <1>1, LifecycleStep
<1>4. Bytes'
  BY <1>1, BytesStep
<1>5. Records'
  BY <1>1, RecordsStep
<1>6. Answering'
  BY AnsweringStep
<1> QED
  BY <1>2, <1>3, <1>4, <1>5, <1>6 DEF SlurpInv

\* The invariant of the pipeline: at any moment the bytes and the records that the
\* threads hold, and those under way in the channels, fit together without a gap or
\* an overlap, from the pre-fetcher's place in the file to the recorder's result.
THEOREM InvCorrect == Spec => []SlurpInv
  BY InvInit, InvStep, PTL DEF Spec

-----------------------------------------------------------------------------
(***************************************************************************)
(* What follows from it.                                                   *)
(***************************************************************************)

\* The records behind those recorded, joined.
LEMMA ParsedIsPushed ==
  ASSUME TypeInv, recorder # "dropped", Order
  PROVE  /\ Parsed = Pushed
         /\ recorded \o InFlight \o pooled_vec = Span(0, Pushed)
<1>0. /\ recorded \in Seq(Nat) /\ batch \in Seq(Nat) /\ pooled_vec \in Seq(Nat)
  BY DEF TypeInv, TypeOK, TypeOKRecorder, TypeOKParser
<1>1. /\ Recorded \in Nat /\ Taking \in Nat /\ Sending \in Nat /\ Pushed \in Nat
      /\ Recorded <= Taking /\ Taking <= Sending /\ Sending <= Pushed /\ 0 <= Recorded
      /\ records.q = << >> => Sending = Taking
      /\ Pushed = Sending + Len(pooled_vec)
      /\ 0 \in Nat /\ Recorded <= Sending /\ 0 <= Sending
  BY Counts
<1>2. InFlight = Span(Recorded, Sending)
  <2>1. CASE records.q = << >>
    BY <2>1, <1>1 DEF InFlight, Order
  <2>2. CASE records.q # << >>
    <3>1. InFlight = Span(Recorded, Taking) \o Span(Taking, Sending)
      BY <2>2 DEF InFlight, Order
    <3> QED
      BY <3>1, <1>1, SpanConcat
  <2> QED
    BY <2>1, <2>2
<1>3. recorded \o InFlight = Span(0, Sending)
  <2>1. recorded = Span(0, Recorded)
    BY DEF Order
  <2>2. Span(0, Recorded) \o Span(Recorded, Sending) = Span(0, Sending)
    BY <1>1, SpanConcat
  <2> QED
    BY <2>1, <2>2, <1>2
<1>4. recorded \o InFlight \o pooled_vec = Span(0, Pushed)
  <2>1. pooled_vec = Span(Sending, Pushed)
    BY DEF Order
  <2>2. Span(0, Sending) \o Span(Sending, Pushed) = Span(0, Pushed)
    BY <1>1, SpanConcat
  <2> QED
    BY <2>1, <2>2, <1>3
<1>5. Len(InFlight) = Sending - Recorded
  BY <1>1, <1>2, SpanType
<1>6. Parsed = Pushed
  <2> DEFINE f == Len(InFlight)
             v == Len(pooled_vec)
  <2>1. v \in Nat /\ f = Sending - Recorded /\ Pushed = Sending + v
    BY <1>0, <1>1, <1>5
  <2>2. Parsed = Recorded + f + v
    BY DEF Parsed, Recorded
  <2> HIDE DEF f, v
  <2> QED
    BY <2>1, <2>2, <1>1
<1> QED
  BY <1>4, <1>6

\* The records recorded, on their way and being parsed are the first records of the
\* file, each once and in order, whatever the buffers and however the threads are
\* scheduled.
THEOREM OrderCorrect == Spec => []RecordsInOrder
<1>1. SlurpInv => RecordsInOrder
  BY ParsedIsPushed DEF SlurpInv, Records, RecordsInOrder
<1> QED
  BY <1>1, InvCorrect, PTL

\* A result is rendered from all the records that are whole in the file.
THEOREM SuccessCorrect == Spec => []SuccessIsWholeDump
<1>1. SlurpInv => SuccessIsWholeDump
  BY DEF SlurpInv, Answering, SuccessIsWholeDump
<1> QED
  BY <1>1, InvCorrect, PTL

\* heap_dump_remaining_len is what is left of the heap dump at the next record.
THEOREM TrackingCorrect == Spec => []HeapDumpTracked
<1>1. SlurpInv => HeapDumpTracked
  BY ParsedIsPushed DEF SlurpInv, Records, Position, HeapDumpTracked
<1> QED
  BY <1>1, InvCorrect, PTL

\* The parser never waits for bytes behind the record it is parsing.
THEOREM NeededCorrect == Spec => []NeededIsJustified
<1>1. SlurpInv => NeededIsJustified
  BY ParsedIsPushed DEF SlurpInv, Records, Position, NeededIsJustified
<1> QED
  BY <1>1, InvCorrect, PTL

-----------------------------------------------------------------------------
(***************************************************************************)
(* The progress bar.                                                       *)
(***************************************************************************)

\* The parser's send: a report that is not below the last one.
LEMMA RisingSend ==
  ASSUME NEW q \in Seq(Nat), NEW a \in Nat, NEW b \in Nat, NEW c \in Nat, a <= b, b <= c,
         Rising(q, a, b)
  PROVE  Rising(Append(q, c), a, c)
<1> DEFINE r == Append(q, c)
<1>1. /\ Len(r) = Len(q) + 1 /\ Len(q) \in Nat /\ r[Len(q) + 1] = c
      /\ \A i \in 1..Len(q) : r[i] = q[i]
  OBVIOUS
<1>2. \A i \in 1..Len(q) : q[i] \in Nat
  BY ElementOfSeq
<1> HIDE DEF r
<1>3. \A i \in 1..Len(r) : r[i] \in Nat /\ a <= r[i] /\ r[i] <= c
  <2> TAKE i \in 1..Len(r)
  <2>1. CASE i \in 1..Len(q)
    BY <2>1, <1>1, <1>2 DEF Rising
  <2>2. CASE i = Len(q) + 1
    BY <2>2, <1>1
  <2> QED
    BY <2>1, <2>2, <1>1
<1>4. ASSUME NEW i \in 1..Len(r), NEW j \in 1..Len(r), i <= j PROVE r[i] <= r[j]
  <2>1. CASE j \in 1..Len(q)
    <3>1. i \in 1..Len(q)
      BY <2>1, <1>4, <1>1
    <3> QED
      BY <2>1, <3>1, <1>1, <1>4 DEF Rising
  <2>2. CASE j = Len(q) + 1
    BY <2>2, <1>1, <1>3
  <2> QED
    BY <2>1, <2>2, <1>1
<1>5. Rising(r, a, c)
  BY <1>3, <1>4 DEF Rising
<1> QED
  BY <1>5 DEF r

\* Main's recv: the oldest report is the lowest.
LEMMA RisingTake ==
  ASSUME NEW q \in Seq(Nat), q # << >>, NEW a \in Nat, NEW b \in Nat, Rising(q, a, b)
  PROVE  a <= Head(q) /\ Head(q) <= b /\ Head(q) \in Nat /\ Rising(Tail(q), Head(q), b)
<1> DEFINE r == Tail(q)
           h == Head(q)
<1>1. Len(q) \in Nat \ {0} /\ h = q[1]
  BY EmptySeq
<1>2. Len(r) = Len(q) - 1 /\ \A i \in 1..Len(r) : r[i] = q[i + 1]
  BY HeadTailProperties
<1>3. h \in Nat
  BY <1>1, ElementOfSeq
<1> HIDE DEF r, h
<1>4. 1 \in 1..Len(q) /\ \A i \in 1..Len(r) : i + 1 \in 1..Len(q) /\ 1 <= i + 1 /\ i \in Int
  BY <1>1, <1>2
<1>5. a <= h /\ h <= b
  BY <1>1, <1>4 DEF Rising
<1>6. \A i \in 1..Len(r) : h <= r[i] /\ r[i] <= b
  BY <1>1, <1>2, <1>4 DEF Rising
<1>7. \A i, j \in 1..Len(r) : i <= j => r[i] <= r[j]
  <2> SUFFICES ASSUME NEW i \in 1..Len(r), NEW j \in 1..Len(r), i <= j PROVE r[i] <= r[j]
    OBVIOUS
  <2>1. i + 1 <= j + 1 /\ i + 1 \in 1..Len(q) /\ j + 1 \in 1..Len(q)
    BY <1>4
  <2> QED
    BY <2>1, <1>2 DEF Rising
<1>8. Rising(r, h, b)
  BY <1>6, <1>7 DEF Rising
<1> QED
  BY <1>3, <1>5, <1>8 DEF r, h

\* Every step keeps the reports in order and does not move the bar back.
LEMMA ProgressStep ==
  TypeInv /\ Progressing /\ [Next]_vars => Progressing' /\ position' >= position
<1> SUFFICES ASSUME TypeInv, Progressing, [Next]_vars PROVE Progressing' /\ position' >= position
  OBVIOUS
<1>0. TypeOKChannels /\ position \in Nat /\ processed \in Nat /\ progress \in Channels(Nat)
  BY DEF TypeInv, TypeOK, TypeOKMain, TypeOKParser, TypeOKChannels
<1>1. /\ progress.q \in Seq(Nat) /\ Taken(progress).q = Tail(progress.q)
      /\ \A m : Sent(progress, m).q = Append(progress.q, m)
      /\ DropSender(progress).q = progress.q
      /\ \A c : DropReceiver(c).q = << >>
  <2>1. \A c : DropReceiver(c).q = << >>
    BY DEF DropReceiver
  <2> QED
    BY <2>1, <1>0, ChannelType, ChannelFields
<1>2. ASSUME UNCHANGED <<position, processed>>, progress'.q = progress.q \/ progress'.q = << >>
      PROVE  Progressing' /\ position' >= position
  <2>1. Rising(<< >>, position, processed)
    BY DEF Rising
  <2> QED
    BY <1>0, <1>2, <2>1 DEF Progressing
<1> USE DEF channels, fetcherVars, parserVars, recorderVars, mainVars, input
<1>3. CASE FetcherStep \/ RecorderStep
  BY <1>2, <1>3 DEF FetcherStep, RecorderStep
<1>4. CASE ParserStep
  <2>1. CASE DrainAndReport
    <3>1. /\ processed' = processed + iteration_processed /\ progress'.q = Append(progress.q, processed')
          /\ position' = position
      BY <1>1, <1>4, <2>1 DEF DrainAndReport, ParserStep
    <3>2. iteration_processed \in Nat
      BY <2>1 DEF iteration_processed, DrainAndReport, TypeInv, TypeOK, TypeOKParser, RestFits
    <3>3. processed' \in Nat /\ processed <= processed' /\ position <= processed
          /\ Rising(progress.q, position, processed)
      BY <3>1, <3>2, <1>0 DEF Progressing
    <3>4. Rising(Append(progress.q, processed'), position, processed')
      BY <3>3, <1>0, <1>1, RisingSend
    <3> QED
      BY <3>1, <3>3, <3>4, <1>0 DEF Progressing
  <2>2. CASE ReceiveChunk \/ ParseRecord \/ NeedMore \/ EndOfInput \/ SwapAndSend
    BY <1>2, <1>4, <2>2 DEF ParserStep, ReceiveChunk, ParseRecord, NeedMore, EndOfInput, SwapAndSend
  <2>3. CASE ParsePanics \/ ParserPanics \/ ParserFinishes
    BY <1>1, <1>2, <1>4, <2>3 DEF ParserStep, ParsePanics, ParserPanics, ParserFinishes, ParserEnds
  <2> QED
    BY <1>4, <2>1, <2>2, <2>3 DEF ParserStep, ParserNext
<1>5. CASE MainNext
  <2>1. ASSUME NEW how, Return(how) PROVE Progressing' /\ position' >= position
    BY <1>1, <1>2, <2>1 DEF Return
  <2>2. CASE RejectHeader \/ OpenFails \/ SpawnFails \/ NoResult \/ JoinLast \/ JoinFails
    BY <2>1, <2>2 DEF RejectHeader, OpenFails, SpawnFails, NoResult, JoinLast, JoinFails
  <2>3. CASE ShowProgress
    <3>1. /\ progress.q # << >> /\ position' = Head(progress.q) /\ progress'.q = Tail(progress.q)
          /\ processed' = processed
      BY <1>1, <2>3 DEF ShowProgress, Ready
    <3>2. /\ position <= Head(progress.q) /\ Head(progress.q) <= processed /\ Head(progress.q) \in Nat
          /\ Rising(Tail(progress.q), Head(progress.q), processed)
      BY <1>0, <1>1, <3>1, RisingTake DEF Progressing
    <3> QED
      BY <3>1, <3>2, <1>0 DEF Progressing
  <2>4. CASE ReadHeader \/ SpawnPrefetch \/ SpawnParser \/ SpawnRecorder
    BY <1>2, <2>4 DEF ReadHeader, SpawnPrefetch, SpawnParser, SpawnRecorder
  <2>5. CASE FinishProgress \/ ReceiveResult \/ JoinNext
    BY <1>2, <2>5 DEF FinishProgress, ReceiveResult, JoinNext
  <2> QED
    BY <1>5, <2>2, <2>3, <2>4, <2>5 DEF MainNext
<1>6. CASE UNCHANGED vars
  BY <1>2, <1>6 DEF vars
<1> QED
  BY <1>3, <1>4, <1>5, <1>6 DEF Next, Terminated

\* The progress bar never moves back: processed_len only grows, its values arrive in the
\* order they were sent, and main shows each of them.
THEOREM ProgressCorrect == Spec => ProgressMonotone
<1>1. Init => Progressing
  <2> SUFFICES ASSUME Init PROVE Progressing
    OBVIOUS
  <2>1. progress.q = << >> /\ position = 0 /\ processed = FileHeaderLength
    BY DEF Init, InitChannels, InitParser, Open
  <2> QED
    BY <2>1, DumpAssumption DEF Progressing, Rising
<1>2. TypeInv /\ Progressing /\ [Next]_vars => [position' >= position]_position
  BY ProgressStep
<1>3. TypeInv /\ Progressing /\ [Next]_vars => Progressing'
  BY ProgressStep
<1>4. SlurpInv => TypeInv
  BY DEF SlurpInv
<1> QED
  BY <1>1, <1>2, <1>3, <1>4, InvCorrect, PTL DEF Spec, ProgressMonotone
-----------------------------------------------------------------------------
(***************************************************************************)
(* The refinement.  Every step of a thread or of main is a step of the     *)
(* promise, or changes nothing that the promise speaks of.  The invariant  *)
(* gives the two facts this needs: a vector recorded holds the records     *)
(* behind those recorded, and main succeeds only with all of them.         *)
(***************************************************************************)

\* What the promise says of a dump is what the pipeline says of it.
LEMMA SameTerms ==
  /\ \A d : Promise!WholeRecords(d) = WholeRecords(d) /\ Promise!HeaderOutcome(d) = HeaderOutcome(d)
  /\ \A a, b : Promise!Span(a, b) = Span(a, b)
<1>1. \A d : Promise!WholeRecords(d) = WholeRecords(d)
  BY DEF WholeRecords, Promise!WholeRecords
<1>2. \A d : Promise!HeaderOutcome(d) = HeaderOutcome(d)
  BY DEF HeaderOutcome, Promise!HeaderOutcome
<1>3. \A a, b : Promise!Span(a, b) = Span(a, b)
  BY DEF Span, Promise!Span
<1> QED
  BY <1>1, <1>2, <1>3

\* Recording a vector is a step of the promise: the vector holds the next records.
LEMMA RecordPromised ==
  ASSUME SlurpInv, RecordBatch, UNCHANGED <<parserVars, mainVars>>
  PROVE  [Promise!SpecNext]_Promise!specVars
<1>0. /\ TypeInv /\ Lifecycle /\ Order /\ Vectors /\ WithinFile
      /\ recorder = "recording" /\ recorded' = recorded \o batch
      /\ UNCHANGED <<dump, outcome, answer>>
  BY DEF SlurpInv, Records, RecordBatch, mainVars, input
<1>1. recorder # "dropped" /\ recorder # "unborn" /\ parser # "unborn"
  BY <1>0 DEF Lifecycle
<1>2. /\ Recorded \in Nat /\ Taking \in Nat /\ Pushed \in Nat /\ Recorded <= Taking /\ Taking <= Pushed
      /\ Taking = Recorded + Len(batch) /\ batch \in Seq(Nat) /\ recorded \in Seq(Nat)
  BY <1>0, Counts DEF TypeInv, TypeOK, TypeOKRecorder
<1>3. CASE batch = << >>
  <2>1. recorded' = recorded
    BY <1>0, <1>2, <1>3
  <2> QED
    BY <1>0, <2>1 DEF Promise!specVars
<1>4. CASE batch # << >>
  <2>1. Recorded < Taking
    <3>1. Len(batch) \in Nat \ {0}
      BY <1>2, <1>4, EmptySeq
    <3> QED
      BY <3>1, <1>2
  <2>2. Taking <= WholeRecords(dump) /\ WholeRecords(dump) \in Int
    <3>1. WellFormedRecords(dump)
      BY <1>0, <1>1 DEF TypeInv, HeaderRead, Lifecycle
    <3>2. dump.n \in Nat
      BY <3>1 DEF WellFormedRecords
    <3>3. WholeRecords(dump) \in Int
      BY <3>2 DEF WholeRecords
    <3>4. Pushed <= WholeRecords(dump)
      BY <1>0, <1>1 DEF WithinFile
    <3> QED
      BY <3>3, <3>4, <1>2
  <2>3. Taking \in 1..WholeRecords(dump)
    BY <1>2, <2>1, <2>2
  <2>4. batch = Span(Len(recorded), Taking) /\ Len(recorded) < Taking
    BY <1>0, <1>1, <2>1 DEF Order, Recorded
  <2>5. Promise!Record
    BY <1>0, <2>3, <2>4, SameTerms DEF Promise!Record
  <2> QED
    BY <2>5 DEF Promise!SpecNext
<1> QED
  BY <1>3, <1>4

\* Main's return is Succeed or Fail.
LEMMA ReturnPromised ==
  ASSUME SlurpInv, RejectHeader \/ OpenFails \/ SpawnFails \/ NoResult \/ JoinLast \/ JoinFails
  PROVE  Promise!SpecNext
<1>0. /\ main # "returned" /\ outcome = "none"
  BY DEF SlurpInv, Answering, RejectHeader, OpenFails, SpawnFails, NoResult, JoinLast, JoinFails
<1>1. ASSUME NEW how, Return(how), how # "ok",
             how \in {"StdIoError", "StdThreadError", "panic", HeaderOutcome(dump)}
      PROVE  Promise!Fail
  <2>1. outcome' = how /\ UNCHANGED <<dump, recorded, answer>>
    BY <1>1 DEF Return, input
  <2> QED
    BY <1>0, <1>1, <2>1, SameTerms DEF Promise!Fail
<1>2. CASE RejectHeader
  <2>1. Return(HeaderOutcome(dump)) /\ HeaderOutcome(dump) # "ok"
    BY <1>2 DEF RejectHeader
  <2>2. Promise!Fail
    BY <2>1, <1>1
  <2> QED
    BY <2>2 DEF Promise!SpecNext
<1>3. CASE OpenFails \/ SpawnFails
  <2>1. Return("StdIoError")
    BY <1>3 DEF OpenFails, SpawnFails
  <2>2. Promise!Fail
    BY <2>1, <1>1
  <2> QED
    BY <2>2 DEF Promise!SpecNext
<1>4. CASE NoResult \/ JoinFails
  <2>1. Return("panic") \/ Return("StdThreadError")
    BY <1>4 DEF NoResult, JoinFails
  <2>2. Promise!Fail
    BY <2>1, <1>1
  <2> QED
    BY <2>2 DEF Promise!SpecNext
<1>5. CASE JoinLast
  <2>1. /\ main = "join_recorder" /\ outcome' = "ok" /\ UNCHANGED <<dump, recorded, answer>>
    BY <1>5 DEF JoinLast, Return, input
  <2>2. /\ fetcher = "done" /\ parser = "done" /\ recorder = "done" /\ answer = recorded
        /\ HeaderOutcome(dump) = "ok"
    BY <2>1 DEF SlurpInv, Answering
  <2>3. recorded = Span(0, WholeRecords(dump))
    BY <2>2, AllRecorded DEF SlurpInv
  <2>4. Promise!Succeed
    BY <1>0, <2>1, <2>2, <2>3, SameTerms DEF Promise!Succeed
  <2> QED
    BY <2>4 DEF Promise!SpecNext
<1> QED
  BY <1>2, <1>3, <1>4, <1>5

\* Every step of the pipeline is a step of the promise or changes nothing of it.
LEMMA StepPromised == SlurpInv /\ [Next]_vars => [Promise!SpecNext]_Promise!specVars
<1> SUFFICES ASSUME SlurpInv, [Next]_vars PROVE [Promise!SpecNext]_Promise!specVars
  OBVIOUS
<1>0. ASSUME UNCHANGED <<dump, recorded, outcome>>, outcome = "ok" => answer' = answer
      PROVE  [Promise!SpecNext]_Promise!specVars
  BY <1>0 DEF Promise!specVars
<1> USE DEF channels, fetcherVars, parserVars, recorderVars, mainVars, input
<1>1. ASSUME FetcherStep PROVE [Promise!SpecNext]_Promise!specVars
  BY <1>0, <1>1 DEF FetcherStep, FetcherNext, TakeBuffer, FillAndSend, FetcherPanicsOnClosed, ReadFails,
                    FetcherFinishes, FetcherEnds
<1>2. ASSUME ParserStep PROVE [Promise!SpecNext]_Promise!specVars
  BY <1>0, <1>2 DEF ParserStep, ParserNext, ReceiveChunk, ParseRecord, NeedMore, EndOfInput, ParsePanics,
                    DrainAndReport, SwapAndSend, ParserPanics, ParserFinishes, ParserEnds
<1>3. ASSUME RecorderStep PROVE [Promise!SpecNext]_Promise!specVars
  <2>1. CASE RecordBatch
    BY <1>3, <2>1, RecordPromised DEF RecorderStep
  <2>2. CASE ReceiveBatch \/ StartRendering \/ SendResult \/ RenderPanics
    BY <1>0, <1>3, <2>2 DEF RecorderStep, ReceiveBatch, StartRendering, SendResult, RenderPanics,
                            RecorderDrops
  <2> QED
    BY <1>3, <2>1, <2>2 DEF RecorderStep, RecorderNext
<1>4. ASSUME MainNext PROVE [Promise!SpecNext]_Promise!specVars
  <2>1. CASE RejectHeader \/ OpenFails \/ SpawnFails \/ NoResult \/ JoinLast \/ JoinFails
    BY <2>1, ReturnPromised
  <2>2. CASE ReadHeader \/ SpawnPrefetch \/ SpawnParser \/ SpawnRecorder
    BY <1>0, <2>2 DEF ReadHeader, SpawnPrefetch, SpawnParser, SpawnRecorder
  <2>3. CASE ShowProgress \/ FinishProgress \/ JoinNext
    BY <1>0, <2>3 DEF ShowProgress, FinishProgress, JoinNext
  <2>4. CASE ReceiveResult
    <3>1. outcome # "ok" /\ UNCHANGED <<dump, recorded, outcome>>
      BY <2>4 DEF ReceiveResult, SlurpInv, Answering
    <3> QED
      BY <1>0, <3>1
  <2> QED
    BY <1>4, <2>1, <2>2, <2>3, <2>4 DEF MainNext
<1>5. CASE UNCHANGED vars
  BY <1>0, <1>5 DEF vars
<1> QED
  BY <1>1, <1>2, <1>3, <1>4, <1>5 DEF Next, Terminated

\* slurp_file implements SlurpSpec: whatever the threads, buffers, pools and joins do,
\* an observer sees the records recorded in the order of the file and one outcome, which
\* is "ok" only with a result that stands for all the records that are whole in the file.
THEOREM PromiseKept == Spec => KeepsPromise
<1>1. Init => Promise!SpecInit
  BY DEF Init, InitChannels, InitRecorder, Promise!SpecInit
<1> QED
  BY <1>1, StepPromised, InvCorrect, PTL DEF Spec, KeepsPromise, Promise!SlurpSpec

-----------------------------------------------------------------------------
(***************************************************************************)
(* Memory: the working buffer.                                             *)
(***************************************************************************)

\* A received chunk makes the working buffer longer by its length.
LEMMA ReceiveLength ==
  ASSUME TypeInv, Contiguous, Pooling, ReceiveChunk
  PROVE  /\ Len(loop_buffer') \in Nat /\ Len(loop_buffer) \in Nat /\ read_size \in Nat
         /\ Len(loop_buffer') <= Len(loop_buffer) + read_size
<1> DEFINE c == Head(data.q)
<1>0. /\ TypeOKChannels /\ loop_buffer \in Seq(Nat) /\ BufferEnd \in Nat /\ read_size \in Nat
      /\ fetched \in Nat
  BY PipelineAssumption DEF TypeInv, TypeOK, TypeOKChannels, TypeOKParser, TypeOKFetcher, BufferEnd
<1>1. data.q \in Seq(Chunks) /\ data.q # << >> /\ parser = "recv"
  BY <1>0, FieldsOfData DEF ReceiveChunk, Ready
<1>2. c.lo = BufferEnd /\ c.hi \in Nat /\ BufferEnd <= c.hi
  BY <1>0, <1>1, ChainTake DEF Contiguous, Gone
<1>3. c.hi - c.lo <= read_size
  <2>1. c = data.q[1] /\ 1 \in 1..Len(data.q)
    BY <1>1, EmptySeq
  <2> QED
    BY <2>1 DEF Pooling
<1>4. loop_buffer' = loop_buffer \o Span(c.lo, c.hi)
  BY DEF ReceiveChunk
<1> HIDE DEF c
<1>5. Span(c.lo, c.hi) \in Seq(Nat) /\ Len(Span(c.lo, c.hi)) = c.hi - c.lo
  BY <1>0, <1>2, SpanType
<1>6. Len(loop_buffer') = Len(loop_buffer) + Len(Span(c.lo, c.hi))
  BY <1>0, <1>4, <1>5, ConcatProperties
<1> QED
  BY <1>0, <1>2, <1>3, <1>5, <1>6

\* Parsing waits for no more than the record it has begun: the input of the first
\* attempt of a round is the whole working buffer.
LEMMA NeedAtMostRecord ==
  ASSUME TypeInv, Buffering, WellFormedRecords(dump), NeedMore
  PROVE  \E i \in 1..dump.n : needed' <= Size(dump, i) /\ Len(loop_buffer) < Size(dump, i)
<1>1. PICK i \in 1..dump.n :
        /\ ~Complete(i)
        /\ \E s \in dump.stops[i] : needed' = (s - (dump.start[i] + Len(rest))) + Len(loop_buffer)
  BY DEF NeedMore
<1>2. PICK s \in dump.stops[i] : needed' = (s - (dump.start[i] + Len(rest))) + Len(loop_buffer)
  BY <1>1
<1>3. rest = loop_buffer /\ Len(loop_buffer) \in Nat
  BY DEF Buffering, NeedMore, TypeInv, TypeOK, TypeOKParser
<1>4. /\ dump.start[i] \in Nat /\ dump.start[i + 1] \in Nat /\ s \in Nat /\ s <= dump.start[i + 1]
      /\ Size(dump, i) = dump.start[i + 1] - dump.start[i]
  BY RecordBounds
<1>5. needed' = s - dump.start[i]
  BY <1>2, <1>3, <1>4
<1>6. Len(loop_buffer) < Size(dump, i)
  BY <1>1, <1>3, <1>4 DEF Complete
<1> QED
  BY <1>4, <1>5, <1>6

\* A record that is waited for has a size, and a buffer that does not hold it is shorter.
LEMMA SizesOfRecords ==
  ASSUME WellFormedRecords(dump)
  PROVE  dump.n \in Nat /\ \A i \in 1..dump.n : Size(dump, i) \in Nat \ {0}
  BY RecordBounds DEF WellFormedRecords

\* Every step keeps the working buffer within a record and a buffer.
LEMMA BufferingStep ==
  SlurpInv /\ Buffering /\ Pooling /\ [Next]_vars => Buffering'
<1> SUFFICES ASSUME TypeInv, Lifecycle, Bytes, Buffering, Pooling, [Next]_vars
             PROVE  Buffering'
  BY DEF SlurpInv
<1>0. /\ TypeOKChannels /\ TypeOKParser /\ HeaderRead /\ read_size \in Nat /\ Len(loop_buffer) \in Nat
      /\ Len(rest) \in Nat /\ needed \in Nat /\ Contiguous
  BY PipelineAssumption DEF TypeInv, TypeOK, TypeOKChannels, TypeOKParser, Bytes
<1>1. ASSUME UNCHANGED <<dump, read_size, loop_buffer, needed>>,
             parser' \notin {"recv", "swap", "parsed", "first"}
      PROVE  Buffering'
  BY <1>1 DEF Buffering, Carried
<1>2. ASSUME UNCHANGED <<dump, read_size, parser, loop_buffer, rest, needed>>
      PROVE  Buffering'
  BY <1>2 DEF Buffering, Carried
<1> USE DEF channels, fetcherVars, parserVars, recorderVars, mainVars, input
<1>3. CASE FetcherStep \/ RecorderStep
  BY <1>2, <1>3 DEF FetcherStep, FetcherNext, TakeBuffer, FillAndSend, FetcherPanicsOnClosed, ReadFails,
     FetcherFinishes, FetcherEnds, RecorderStep, RecorderNext, ReceiveBatch, RecordBatch, StartRendering,
     SendResult, RenderPanics, RecorderDrops
<1>4. CASE ParserStep
  <2>0. WellFormedRecords(dump)
    BY <1>4, <1>0 DEF HeaderRead, ParserStep, ParserNext, ReceiveChunk, ParseRecord, NeedMore, EndOfInput,
       ParsePanics, DrainAndReport, SwapAndSend, ParserPanics, ParserFinishes
  <2>1. CASE ReceiveChunk
    <3>1. /\ Len(loop_buffer') \in Nat /\ Len(loop_buffer') <= Len(loop_buffer) + read_size
      BY <1>0, <2>1, ReceiveLength
    <3>2. Carried(Len(loop_buffer))
      BY <2>1 DEF Buffering, ReceiveChunk
    <3>3. \/ Len(loop_buffer') <= read_size
          \/ \E i \in 1..dump.n : Len(loop_buffer') < Size(dump, i) + read_size
      <4>1. CASE Len(loop_buffer) = 0
        BY <4>1, <3>1, <1>0
      <4>2. ASSUME NEW i \in 1..dump.n, Len(loop_buffer) < Size(dump, i)
            PROVE  Len(loop_buffer') < Size(dump, i) + read_size
        BY <4>2, <3>1, <1>0, <2>0, SizesOfRecords
      <4> QED
        BY <4>1, <4>2, <3>2 DEF Carried
    <3>4. UNCHANGED <<dump, read_size, needed>>
      BY <2>1 DEF ReceiveChunk
    <3>5. CASE needed > Len(loop_buffer')
      <4>1. parser' = "recv"
        BY <2>1, <3>5 DEF ReceiveChunk
      <4>2. PICK i \in 1..dump.n : needed <= Size(dump, i)
        BY <3>1, <3>5 DEF Buffering
      <4>3. Len(loop_buffer') < Size(dump, i)
        BY <4>2, <3>1, <3>5, <1>0, <2>0, SizesOfRecords
      <4> QED
        BY <3>3, <3>4, <4>1, <4>3 DEF Buffering, Carried
    <3>6. CASE ~(needed > Len(loop_buffer'))
      <4>1. parser' = "first" /\ rest' = loop_buffer'
        BY <2>1, <3>6 DEF ReceiveChunk
      <4> QED
        BY <3>3, <3>4, <4>1 DEF Buffering
    <3> QED
      BY <3>5, <3>6
  <2>2. CASE ParseRecord
    BY <1>1, <2>2 DEF ParseRecord
  <2>3. CASE NeedMore
    <3>1. PICK i \in 1..dump.n : needed' <= Size(dump, i) /\ Len(loop_buffer) < Size(dump, i)
      BY <2>0, <2>3, NeedAtMostRecord
    <3>2. parser' = "recv" /\ UNCHANGED <<dump, read_size, loop_buffer>>
      BY <2>3 DEF NeedMore
    <3> QED
      BY <3>1, <3>2 DEF Buffering, Carried
  <2>4. CASE EndOfInput
    <3>1. parser' = "parsed" /\ UNCHANGED <<dump, read_size, loop_buffer, rest, needed>>
      BY <2>4 DEF EndOfInput
    <3>2. Carried(Len(rest))
      <4>1. CASE rest = << >>
        BY <4>1 DEF Carried
      <4>2. ASSUME NEW i \in 1..dump.n, ~Complete(i) PROVE Carried(Len(rest))
        <5>1. Len(rest) < Size(dump, i)
          BY <4>2, <1>0, <2>0, SizesOfRecords DEF Complete
        <5> QED
          BY <5>1 DEF Carried
      <4> QED
        BY <2>4, <4>1, <4>2 DEF EndOfInput
    <3> QED
      BY <3>1, <3>2 DEF Buffering, Carried
  <2>5. CASE DrainAndReport
    <3>1. parser = "parsed" /\ parser' = "swap" /\ UNCHANGED <<dump, read_size, needed>>
      BY <2>5 DEF DrainAndReport
    <3>2. loop_buffer' = SubSeq(loop_buffer, iteration_processed + 1, Len(loop_buffer))
      BY <2>5 DEF DrainAndReport
    <3>3. iteration_processed \in Nat /\ iteration_processed <= Len(loop_buffer)
          /\ loop_buffer \in Seq(Nat) /\ Len(loop_buffer) - iteration_processed = Len(rest)
      BY <1>0, <3>1 DEF iteration_processed, TypeInv, RestFits, TypeOKParser
    <3>4. Len(loop_buffer') = Len(rest)
      <4> DEFINE k == iteration_processed
      <4> HIDE DEF k
      <4>1. k \in Nat /\ k <= Len(loop_buffer) /\ loop_buffer \in Seq(Nat)
        BY <3>3 DEF k
      <4>2. Len(SubSeq(loop_buffer, k + 1, Len(loop_buffer))) = Len(loop_buffer) - k
        BY <4>1, SuffixType, Zenon
      <4> QED
        BY <3>2, <3>3, <4>2 DEF k
    <3>5. Carried(Len(rest))
      BY <3>1 DEF Buffering
    <3>6. \/ Len(loop_buffer') <= read_size
          \/ \E i \in 1..dump.n : Len(loop_buffer') < Size(dump, i) + read_size
      <4>1. CASE Len(rest) = 0
        BY <4>1, <3>4, <1>0
      <4>2. ASSUME NEW i \in 1..dump.n, Len(rest) < Size(dump, i)
            PROVE  Len(loop_buffer') < Size(dump, i) + read_size
        BY <4>2, <3>4, <1>0, <2>0, SizesOfRecords
      <4> QED
        BY <4>1, <4>2, <3>5 DEF Carried
    <3> QED
      BY <3>1, <3>4, <3>5, <3>6 DEF Buffering, Carried
  <2>6. CASE SwapAndSend
    <3>1. parser = "swap" /\ parser' = "recv" /\ needed' = 0 /\ UNCHANGED <<dump, read_size, loop_buffer>>
      BY <2>6 DEF SwapAndSend
    <3> QED
      BY <3>1 DEF Buffering, Carried
  <2>7. CASE ParsePanics \/ ParserPanics \/ ParserFinishes
    BY <1>1, <2>7 DEF ParsePanics, ParserPanics, ParserFinishes, ParserEnds
  <2> QED
    BY <1>4, <2>1, <2>2, <2>3, <2>4, <2>5, <2>6, <2>7 DEF ParserStep, ParserNext
<1>5. CASE MainNext
  <2>1. ASSUME NEW how, Return(how) PROVE Buffering'
    <3>1. UNCHANGED <<dump, read_size, loop_buffer, rest, needed>> /\ (parser' = parser \/ parser' = "dropped")
      BY <2>1 DEF Return, Lost
    <3> QED
      BY <3>1, <1>1, <1>2
  <2>2. CASE RejectHeader \/ OpenFails \/ SpawnFails \/ NoResult \/ JoinLast \/ JoinFails
    BY <2>1, <2>2 DEF RejectHeader, OpenFails, SpawnFails, NoResult, JoinLast, JoinFails
  <2>3. CASE SpawnParser
    <3>1. loop_buffer = << >> /\ needed = 0
      BY <2>3 DEF SpawnParser, Lifecycle, Bytes, Fresh
    <3>2. parser' = "recv" /\ UNCHANGED <<dump, read_size, loop_buffer, needed>>
      BY <2>3 DEF SpawnParser
    <3> QED
      BY <3>1, <3>2, <1>0 DEF Buffering, Carried
  <2>4. CASE ReadHeader \/ SpawnPrefetch \/ SpawnRecorder \/ ShowProgress \/ FinishProgress
             \/ ReceiveResult \/ JoinNext
    BY <1>2, <2>4 DEF ReadHeader, SpawnPrefetch, SpawnRecorder, ShowProgress, FinishProgress,
                      ReceiveResult, JoinNext
  <2> QED
    BY <1>5, <2>2, <2>3, <2>4 DEF MainNext
<1>6. CASE UNCHANGED vars
  BY <1>2, <1>6 DEF vars
<1> QED
  BY <1>3, <1>4, <1>5, <1>6 DEF Next, Terminated

-----------------------------------------------------------------------------
(***************************************************************************)
(* Memory: the buffers and vectors in circulation.                         *)
(***************************************************************************)

\* The length of a queue after each operation on its channel.
LEMMA Lengths ==
  ASSUME NEW M, NEW c \in Channels(M)
  PROVE  /\ c.q \in Seq(M) /\ Len(c.q) \in Nat
         /\ Ready(c) => Len(Taken(c).q) = Len(c.q) - 1
         /\ \A m \in M : Len(Sent(c, m).q) = Len(c.q) + 1
         /\ \A m \in M : Len(SentOrLost(c, m).q) <= Len(c.q) + 1
         /\ DropSender(c).q = c.q
         /\ Len(DropReceiver(c).q) = 0
<1>1. c.q \in Seq(M) /\ Len(c.q) \in Nat
  BY ChannelType
<1>2. \A m \in M : Len(Sent(c, m).q) = Len(c.q) + 1
  <2> TAKE m \in M
  <2>1. Sent(c, m).q = Append(c.q, m)
    BY ChannelFields
  <2> QED
    BY <1>1, <2>1
<1>3. \A m \in M : SentOrLost(c, m) = c \/ SentOrLost(c, m) = Sent(c, m)
  BY DEF SentOrLost
<1>4. \A m \in M : Len(SentOrLost(c, m).q) <= Len(c.q) + 1
  BY <1>1, <1>2, <1>3
<1>5. Ready(c) => Len(Taken(c).q) = Len(c.q) - 1
  <2> SUFFICES ASSUME c.q # << >> PROVE Len(Taken(c).q) = Len(c.q) - 1
    BY DEF Ready
  <2>1. Taken(c).q = Tail(c.q)
    BY ChannelFields
  <2>2. Len(Tail(c.q)) = Len(c.q) - 1
    BY <1>1, HeadTailProperties
  <2> QED
    BY <2>1, <2>2
<1>6. DropSender(c).q = c.q /\ DropReceiver(c).q = << >>
  BY ChannelFields
<1> QED
  BY <1>1, <1>2, <1>4, <1>5, <1>6

\* The ends that main drops for a thread that was never started take messages from a
\* queue, and add none.
LEMMA LostLengths ==
  ASSUME NEW M, NEW c \in Channels(M), NEW s, NEW r
  PROVE  /\ LoseSender(LoseReceiver(c, r), s).q \in {c.q, << >>}
         /\ Len(LoseSender(LoseReceiver(c, r), s).q) \in Nat
         /\ Len(LoseSender(LoseReceiver(c, r), s).q) <= Len(c.q)
<1>1. /\ c.q \in Seq(M) /\ Len(c.q) \in Nat /\ DropReceiver(c) \in Channels(M)
      /\ DropSender(c).q = c.q /\ DropReceiver(c).q = << >>
  BY ChannelType, ChannelFields
<1>2. DropSender(DropReceiver(c)).q = << >>
  BY <1>1, ChannelFields
<1>3. LoseSender(LoseReceiver(c, r), s).q \in {c.q, << >>}
  BY <1>1, <1>2 DEF LoseSender, LoseReceiver
<1> QED
  BY <1>1, <1>3

\* The buffer that is being filled and the vector that is being recorded count as one.
LEMMA HeldByThreads ==
  /\ Filling \in Nat /\ Filling <= 1 /\ Recording \in Nat /\ Recording <= 1
  /\ fetcher = "filling" => Filling = 1
  /\ fetcher # "filling" => Filling = 0
  /\ recorder = "recording" => Recording = 1
  /\ recorder # "recording" => Recording = 0
  BY DEF Filling, Recording

\* The same after a step.
LEMMA HeldByThreadsNext ==
  /\ Filling' \in Nat /\ Filling' <= 1 /\ Recording' \in Nat /\ Recording' <= 1
  /\ fetcher' = "filling" => Filling' = 1
  /\ fetcher' # "filling" => Filling' = 0
  /\ recorder' = "recording" => Recording' = 1
  /\ recorder' # "recording" => Recording' = 0
  BY DEF Filling, Recording

\* Every step keeps the number of the input buffers in circulation and their size.
LEMMA PoolingStep ==
  TypeInv /\ Pooling /\ [Next]_vars => Pooling'
<1> SUFFICES ASSUME TypeInv, Pooling, [Next]_vars PROVE Pooling'
  OBVIOUS
<1> DEFINE P == {EmptyBuffer}
           p == Len(pool.q)
           d == Len(data.q)
           f == Filling
           pn == Len(pool'.q)
           dn == Len(data'.q)
           fn == Filling'
           Sizes == \A i \in 1..Len(data.q) : data.q[i].hi - data.q[i].lo <= read_size
<1>0. /\ TypeOKChannels /\ data \in Channels(Chunks) /\ pool \in Channels(P)
      /\ Len(data.q) \in Nat /\ Len(pool.q) \in Nat /\ data.q \in Seq(Chunks)
      /\ PoolBuffers \in Nat /\ read_size \in Nat
      /\ fetched \in Nat /\ dump.len \in Nat
  BY PipelineAssumption, DumpFacts, Lengths DEF TypeInv, TypeOK, TypeOKChannels, TypeOKFetcher
<1>a. p + d + f <= PoolBuffers /\ p \in Nat /\ d \in Nat
  BY <1>0 DEF Pooling, Circulating
<1>b. pn + dn + fn <= PoolBuffers /\ Sizes' => Pooling'
  BY DEF Pooling, Circulating
<1>c. /\ f \in Nat /\ fn \in Nat /\ f <= 1 /\ fn <= 1
      /\ fetcher = "filling" => f = 1
      /\ fetcher' # "filling" => fn = 0
      /\ (fetcher' = "filling" => fetcher = "filling") => fn <= f
  BY HeldByThreads, HeldByThreadsNext
<1> HIDE DEF p, d, f, pn, dn, fn
<1>1. ASSUME read_size' = read_size, fetcher' = "filling" => fetcher = "filling", pn \in Nat, pn <= p,
             data'.q = data.q \/ data'.q = << >>
      PROVE  Pooling'
  <2>1. CASE data'.q = data.q
    <3>1. dn = d /\ Sizes'
      BY <2>1, <1>1 DEF Pooling, dn, d
    <3> QED
      BY <3>1, <1>0, <1>1, <1>a, <1>b, <1>c
  <2>2. CASE data'.q = << >>
    <3>1. dn = 0 /\ Sizes'
      BY <2>2 DEF dn
    <3> QED
      BY <3>1, <1>0, <1>1, <1>a, <1>b, <1>c
  <2> QED
    BY <1>1, <2>1, <2>2
<1>u. ASSUME UNCHANGED <<read_size, fetcher, pool, data>> PROVE Pooling'
  <2>1. pn = p
    BY <1>u DEF pn, p
  <2> QED
    BY <2>1, <1>1, <1>a, <1>u
<1> USE DEF channels, fetcherVars, parserVars, recorderVars, mainVars, input
<1>2. CASE FetcherStep
  <2>1. CASE TakeBuffer
    <3>1. pn = p - 1 /\ data' = data /\ fetcher = "loop" /\ read_size' = read_size
      BY <1>0, <2>1, Lengths DEF TakeBuffer, pn, p
    <3>2. f = 0 /\ dn = d /\ Sizes'
      BY <3>1, HeldByThreads DEF f, d, dn, Pooling
    <3> QED
      BY <3>1, <3>2, <1>0, <1>a, <1>b, <1>c
  <2>2. CASE FillAndSend
    <3> DEFINE n == fetched + next_size
               m == [lo |-> fetched, hi |-> n]
    <3>1. next_size \in Int /\ next_size <= read_size /\ fetched + next_size - fetched = next_size
      BY <1>0 DEF next_size
    <3>2. n - fetched <= read_size
      BY <3>1, <1>0
    <3> HIDE DEF n
    <3>a. m.hi - m.lo <= read_size
      BY <3>2, Zenon
    <3>3. data'.q = Append(data.q, m) /\ fetcher = "filling" /\ fetcher' = "loop"
          /\ UNCHANGED <<read_size, pool>>
      BY <1>0, <2>2, FieldsOfData DEF FillAndSend, n
    <3> HIDE DEF m
    <3>4. Len(data'.q) = Len(data.q) + 1 /\ (\A i \in 1..Len(data.q) : data'.q[i] = data.q[i])
          /\ data'.q[Len(data.q) + 1] = m
      BY <1>0, <3>3
    <3>5. dn = d + 1 /\ pn = p /\ f = 1 /\ fn = 0
      BY <3>3, <3>4, <1>c DEF dn, d, pn, p
    <3>6. \A i \in 1..Len(data'.q) : i \in 1..Len(data.q) \/ i = Len(data.q) + 1
      BY <3>4, <1>0
    <3>7. \A i \in 1..Len(data'.q) : data'.q[i].hi - data'.q[i].lo <= read_size
      BY <3>a, <3>4, <3>6 DEF Pooling
    <3> QED
      BY <3>3, <3>5, <3>7, <1>0, <1>a, <1>b
  <2>3. CASE FetcherPanicsOnClosed \/ ReadFails \/ FetcherFinishes
    <3>1. data'.q = data.q /\ pn = 0 /\ fetcher' # "filling" /\ read_size' = read_size
      BY <1>0, <2>3, Lengths, FieldsOfData
      DEF FetcherPanicsOnClosed, ReadFails, FetcherFinishes, FetcherEnds, pn
    <3> QED
      BY <3>1, <1>1, <1>a
  <2> QED
    BY <1>2, <2>1, <2>2, <2>3 DEF FetcherStep, FetcherNext
<1>3. CASE ParserStep
  <2>1. CASE ReceiveChunk
    <3>1. /\ data'.q = Tail(data.q) /\ data.q # << >> /\ UNCHANGED <<read_size, fetcher>>
      BY <1>0, <1>3, <2>1, FieldsOfData DEF ReceiveChunk, ParserStep, Ready
    <3>2. pn \in Nat /\ pn <= p + 1
      <4>1. pool' = SentOrLost(pool, EmptyBuffer) /\ EmptyBuffer \in P
        BY <2>1 DEF ReceiveChunk
      <4>2. SentOrLost(pool, EmptyBuffer) \in Channels(P)
        BY <4>1, <1>0, ChannelType
      <4> QED
        BY <4>1, <4>2, <1>0, Lengths DEF pn, p
    <3>3. Len(data'.q) = Len(data.q) - 1 /\ \A i \in 1..Len(data'.q) : data'.q[i] = data.q[i + 1]
      BY <3>1, <1>0, HeadTailProperties
    <3>4. \A i \in 1..Len(data'.q) : i + 1 \in 1..Len(data.q)
      BY <3>3, <1>0
    <3>5. \A i \in 1..Len(data'.q) : data'.q[i].hi - data'.q[i].lo <= read_size
      BY <3>3, <3>4 DEF Pooling
    <3>6. dn = d - 1 /\ fn <= f
      BY <3>1, <3>3, <1>c DEF dn, d
    <3> QED
      BY <3>1, <3>2, <3>5, <3>6, <1>0, <1>a, <1>b, <1>c
  <2>2. CASE ParseRecord \/ NeedMore \/ EndOfInput \/ DrainAndReport \/ SwapAndSend
    BY <1>u, <1>3, <2>2 DEF ParserStep, ParseRecord, NeedMore, EndOfInput, DrainAndReport, SwapAndSend
  <2>3. CASE ParsePanics \/ ParserPanics \/ ParserFinishes
    <3>1. data'.q = << >> /\ pool'.q = pool.q /\ UNCHANGED <<read_size, fetcher>>
      BY <1>0, <1>3, <2>3, Lengths, FieldsOfData
      DEF ParserStep, ParsePanics, ParserPanics, ParserFinishes, ParserEnds
    <3>2. pn = p
      BY <3>1 DEF pn, p
    <3> QED
      BY <3>1, <3>2, <1>1, <1>a
  <2> QED
    BY <1>3, <2>1, <2>2, <2>3 DEF ParserStep, ParserNext
<1>4. CASE RecorderStep
  BY <1>u, <1>4 DEF RecorderStep, RecorderNext, ReceiveBatch, RecordBatch, StartRendering,
     SendResult, RenderPanics, RecorderDrops
<1>5. CASE MainNext
  <2>1. ASSUME NEW how, Return(how) PROVE Pooling'
    <3>1. data'.q = data.q \/ data'.q = << >>
      BY <2>1, <1>0, LostLengths DEF Return
    <3>2. pn \in Nat /\ pn <= p
      BY <2>1, <1>0, LostLengths DEF Return, pn, p
    <3>3. read_size' = read_size /\ (fetcher' = "filling" => fetcher = "filling")
      BY <2>1 DEF Return, Lost
    <3> QED
      BY <3>1, <3>2, <3>3, <1>1
  <2>2. CASE RejectHeader \/ OpenFails \/ SpawnFails \/ NoResult \/ JoinLast \/ JoinFails
    BY <2>1, <2>2 DEF RejectHeader, OpenFails, SpawnFails, NoResult, JoinLast, JoinFails
  <2>3. CASE SpawnPrefetch
    <3>1. fetcher' = "loop" /\ UNCHANGED <<read_size, data, pool>> /\ pn = p
      BY <2>3 DEF SpawnPrefetch, pn, p
    <3> QED
      BY <3>1, <1>1, <1>a
  <2>4. CASE ReadHeader \/ SpawnParser \/ SpawnRecorder \/ ShowProgress \/ FinishProgress
             \/ ReceiveResult \/ JoinNext
    BY <1>u, <2>4 DEF ReadHeader, SpawnParser, SpawnRecorder, ShowProgress, FinishProgress,
                      ReceiveResult, JoinNext
  <2> QED
    BY <1>5, <2>2, <2>3, <2>4 DEF MainNext
<1>6. CASE UNCHANGED vars
  BY <1>u, <1>6 DEF vars
<1> QED
  BY <1>2, <1>3, <1>4, <1>5, <1>6 DEF Next, Terminated

\* Every step keeps the one vector in circulation.
LEMMA SpareStep ==
  SlurpInv /\ Spare /\ [Next]_vars => Spare'
<1> SUFFICES ASSUME TypeInv, Lifecycle, Vectors, Spare, [Next]_vars PROVE Spare'
  BY DEF SlurpInv, Records
<1> DEFINE v == Len(vecs.q)
           r == Len(records.q)
           g == Recording
           vn == Len(vecs'.q)
           rn == Len(records'.q)
           gn == Recording'
<1>0. /\ records \in Channels(Seq(Nat)) /\ vecs \in Channels(Seq(Nat))
      /\ Len(records.q) \in Nat /\ Len(vecs.q) \in Nat
      /\ << >> \in Seq(Nat) /\ pooled_vec \in Seq(Nat)
  BY Lengths DEF TypeInv, TypeOK, TypeOKChannels, TypeOKParser
<1>a. v + r + g <= 1 /\ v \in Nat /\ r \in Nat
  BY <1>0 DEF Spare
<1>b. vn + rn + gn <= 1 => Spare'
  BY DEF Spare
<1>c. /\ g \in Nat /\ gn \in Nat /\ g <= 1 /\ gn <= 1
      /\ recorder = "recording" => g = 1
      /\ recorder' # "recording" => gn = 0
      /\ (recorder' = "recording" => recorder = "recording") => gn <= g
  BY HeldByThreads, HeldByThreadsNext
<1> HIDE DEF v, r, g, vn, rn, gn
<1>1. ASSUME rn \in Nat, rn <= r, vn \in Nat, vn <= v, recorder' = "recording" => recorder = "recording"
      PROVE  Spare'
  BY <1>1, <1>a, <1>b, <1>c
<1>u. ASSUME UNCHANGED <<records, vecs>>, recorder' = "recording" => recorder = "recording" PROVE Spare'
  <2>1. rn = r /\ vn = v
    BY <1>u DEF rn, r, vn, v
  <2> QED
    BY <2>1, <1>u, <1>1, <1>a
<1> USE DEF channels, fetcherVars, parserVars, recorderVars, mainVars, input
<1>2. CASE FetcherStep
  BY <1>u, <1>2 DEF FetcherStep
<1>3. CASE ParserStep
  <2>1. CASE SwapAndSend
    <3>1. vn = v - 1 /\ rn = r + 1 /\ recorder' = recorder
      BY <1>0, <1>3, <2>1, Lengths DEF SwapAndSend, ParserStep, vn, v, rn, r
    <3> QED
      BY <3>1, <1>a, <1>b, <1>c
  <2>2. CASE ReceiveChunk \/ ParseRecord \/ NeedMore \/ EndOfInput \/ DrainAndReport
    BY <1>u, <1>3, <2>2 DEF ParserStep, ReceiveChunk, ParseRecord, NeedMore, EndOfInput, DrainAndReport
  <2>3. CASE ParsePanics \/ ParserPanics \/ ParserFinishes
    <3>1. rn = r /\ vn = 0 /\ recorder' = recorder
      BY <1>0, <1>3, <2>3, Lengths
      DEF ParserStep, ParsePanics, ParserPanics, ParserFinishes, ParserEnds, rn, r, vn
    <3> QED
      BY <3>1, <1>a, <1>1
  <2> QED
    BY <1>3, <2>1, <2>2, <2>3 DEF ParserStep, ParserNext
<1>4. CASE RecorderStep
  <2>1. CASE ReceiveBatch
    <3>1. rn = r - 1 /\ vn = v /\ g = 0
      BY <1>0, <2>1, Lengths, HeldByThreads DEF ReceiveBatch, rn, r, vn, v, g
    <3> QED
      BY <3>1, <1>a, <1>b, <1>c
  <2>2. CASE RecordBatch
    <3>1. vn \in Nat /\ vn <= v + 1 /\ rn = r /\ recorder = "recording" /\ recorder' = "recv"
      <4>1. SentOrLost(vecs, << >>) \in Channels(Seq(Nat))
        BY <1>0, ChannelType
      <4>2. Len(SentOrLost(vecs, << >>).q) \in Nat /\ Len(SentOrLost(vecs, << >>).q) <= Len(vecs.q) + 1
        BY <1>0, <4>1, Lengths
      <4> QED
        BY <2>2, <4>2 DEF RecordBatch, vn, v, rn, r
    <3> QED
      BY <3>1, <1>a, <1>b, <1>c
  <2>3. CASE StartRendering
    BY <1>u, <2>3 DEF StartRendering
  <2>4. CASE SendResult \/ RenderPanics
    <3>1. rn = 0 /\ vn = v /\ recorder' # "recording"
      BY <1>0, <2>4, Lengths DEF SendResult, RenderPanics, RecorderDrops, rn, vn, v
    <3> QED
      BY <3>1, <1>a, <1>1
  <2> QED
    BY <1>4, <2>1, <2>2, <2>3, <2>4 DEF RecorderStep, RecorderNext
<1>5. CASE MainNext
  <2>1. ASSUME NEW how, Return(how) PROVE Spare'
    <3>1. rn \in Nat /\ rn <= r /\ vn \in Nat /\ vn <= v
      BY <2>1, <1>0, LostLengths DEF Return, rn, r, vn, v
    <3>2. recorder' = "recording" => recorder = "recording"
      BY <2>1 DEF Return, Lost
    <3> QED
      BY <3>1, <3>2, <1>1
  <2>2. CASE RejectHeader \/ OpenFails \/ SpawnFails \/ NoResult \/ JoinLast \/ JoinFails
    BY <2>1, <2>2 DEF RejectHeader, OpenFails, SpawnFails, NoResult, JoinLast, JoinFails
  <2>3. CASE SpawnPrefetch
    <3>1. recorder = "unborn" /\ parser = "unborn" /\ main \in {"open", "spawn_prefetch"}
      BY <2>3 DEF SpawnPrefetch, Lifecycle
    <3>2. vecs.q = << >> /\ records.q = << >> /\ v = 0 /\ r = 0
      BY <3>1 DEF Vectors, v, r
    <3>3. vn = v + 1 /\ rn = r /\ recorder' = recorder
      BY <1>0, <2>3, Lengths DEF SpawnPrefetch, vn, v, rn, r
    <3> QED
      BY <3>1, <3>2, <3>3, <1>b, <1>c
  <2>4. CASE SpawnRecorder
    BY <1>u, <2>4 DEF SpawnRecorder
  <2>5. CASE ReadHeader \/ SpawnParser \/ ShowProgress \/ FinishProgress \/ ReceiveResult \/ JoinNext
    BY <1>u, <2>5 DEF ReadHeader, SpawnParser, ShowProgress, FinishProgress, ReceiveResult, JoinNext
  <2> QED
    BY <1>5, <2>2, <2>3, <2>4, <2>5 DEF MainNext
<1>6. CASE UNCHANGED vars
  BY <1>u, <1>6 DEF vars
<1> QED
  BY <1>2, <1>3, <1>4, <1>5, <1>6 DEF Next, Terminated

\* The bounds hold before the file is opened: the pool is full and nothing is under way.
LEMMA MemoryInit == Init => MemoryInv
<1> SUFFICES ASSUME Init PROVE MemoryInv
  OBVIOUS
<1>1. /\ fetcher = "unborn" /\ parser = "unborn" /\ recorder = "unborn" /\ needed = 0
      /\ loop_buffer = << >> /\ data.q = << >> /\ records.q = << >> /\ vecs.q = << >>
      /\ pool.q = [i \in 1..PoolBuffers |-> EmptyBuffer]
  BY DEF Init, InitChannels, InitFetcher, InitParser, InitRecorder, Open
<1>2. PoolBuffers \in Nat /\ read_size \in Nat /\ Len(<< >>) = 0
  BY PipelineAssumption DEF Init, InitChannels
<1>3. Len(pool.q) = PoolBuffers
  BY <1>1, <1>2
<1>4. Buffering
  BY <1>1, <1>2 DEF Buffering
<1>5. Pooling
  BY <1>1, <1>2, <1>3, HeldByThreads, HeldByThreadsNext DEF Pooling, Circulating
<1> QED
  BY <1>1, <1>2, <1>4, <1>5, HeldByThreads DEF MemoryInv, Spare

\* The memory of the pass does not depend on the length of the file: at any moment, with
\* any fault, the working buffer holds less than one record and one input buffer, and the
\* unbounded channels of slurp_file never hold more than the pools they are fed from.
THEOREM MemoryCorrect == Spec => []MemoryBounded
<1>1. SlurpInv /\ MemoryInv /\ [Next]_vars => MemoryInv'
  BY BufferingStep, PoolingStep, SpareStep DEF MemoryInv, SlurpInv
<1>2. SlurpInv /\ MemoryInv => MemoryBounded
  <2> SUFFICES ASSUME SlurpInv, MemoryInv PROVE MemoryBounded
    OBVIOUS
  <2>1. /\ Len(data.q) \in Nat /\ Len(pool.q) \in Nat /\ Len(records.q) \in Nat /\ Len(vecs.q) \in Nat
        /\ PoolBuffers \in Nat
    BY Lengths, PipelineAssumption DEF SlurpInv, TypeInv, TypeOK, TypeOKChannels
  <2> DEFINE d == Len(data.q)
             p == Len(pool.q)
             r == Len(records.q)
             v == Len(vecs.q)
  <2>a. p + d + Filling <= PoolBuffers /\ v + r + Recording <= 1
    BY DEF MemoryInv, Pooling, Circulating, Spare
  <2>b. p \in Nat /\ d \in Nat /\ v \in Nat /\ r \in Nat
    BY <2>1
  <2> HIDE DEF p, d, v, r
  <2>2. d <= PoolBuffers /\ r + v <= 1
    BY <2>1, <2>a, <2>b, HeldByThreads
  <2>3. Len(data.q) <= PoolBuffers /\ Len(records.q) + Len(vecs.q) <= 1
    BY <2>2 DEF d, r, v
  <2> QED
    BY <2>3 DEF MemoryInv, Buffering, Pooling, MemoryBounded
<1> QED
  BY MemoryInit, InvCorrect, <1>1, <1>2, PTL DEF Spec

-----------------------------------------------------------------------------
(***************************************************************************)
(* Failure: the ends of the channels.                                      *)
(***************************************************************************)

\* The ends of a channel after each operation: only the drops change them.
LEMMA EndsOf ==
  ASSUME NEW M, NEW c \in Channels(M), NEW m
  PROVE  /\ c.tx \in Ends /\ c.rx \in Ends
         /\ Taken(c).tx = c.tx /\ Taken(c).rx = c.rx
         /\ Sent(c, m).tx = c.tx /\ Sent(c, m).rx = c.rx
         /\ SentOrLost(c, m).tx = c.tx /\ SentOrLost(c, m).rx = c.rx
         /\ DropSender(c).rx = c.rx
         /\ DropReceiver(c).tx = c.tx
<1>1. c.tx \in Ends /\ c.rx \in Ends
  BY ChannelType
<1>2. SentOrLost(c, m) = c \/ SentOrLost(c, m) = Sent(c, m)
  BY DEF SentOrLost
<1> QED
  BY <1>1, <1>2, ChannelFields

\* An end is dropped with the thread that owns it when main returns.
LEMMA LostEnds ==
  ASSUME NEW M, NEW c \in Channels(M), NEW s, NEW r
  PROVE  /\ LoseSender(LoseReceiver(c, r), s).tx = "dropped" => c.tx = "dropped" \/ s = "unborn"
         /\ LoseSender(LoseReceiver(c, r), s).rx = "dropped" => c.rx = "dropped" \/ r = "unborn"
<1>1. DropReceiver(c) \in Channels(M)
  BY ChannelType
<1>2. /\ DropReceiver(c).tx = c.tx /\ DropSender(c).rx = c.rx
      /\ DropSender(DropReceiver(c)).rx = DropReceiver(c).rx
  BY <1>1, EndsOf
<1> QED
  BY <1>2 DEF LoseSender, LoseReceiver

\* Every step keeps the ends with their owners.
LEMMA HandlesStep ==
  TypeInv /\ Lifecycle /\ Handles /\ [Next]_vars => Handles'
<1> SUFFICES ASSUME TypeInv, Lifecycle, Handles, [Next]_vars PROVE Handles'
  OBVIOUS
<1>0. /\ data \in Channels(Chunks) /\ pool \in Channels({EmptyBuffer})
      /\ records \in Channels(Seq(Nat)) /\ vecs \in Channels(Seq(Nat))
      /\ progress \in Channels(Nat) /\ result \in Channels(Seq(Nat))
  BY DEF TypeInv, TypeOK, TypeOKChannels
<1> USE DEF channels, fetcherVars, parserVars, recorderVars, mainVars
<1>1. CASE FetcherStep
  <2>1. pool'.tx = pool.tx /\ data'.rx = data.rx
    BY <1>0, <1>1, EndsOf DEF FetcherStep, FetcherNext, TakeBuffer, FillAndSend, FetcherPanicsOnClosed,
       ReadFails, FetcherFinishes, FetcherEnds
  <2> QED
    BY <1>1, <2>1 DEF FetcherStep, Handles
<1>2. CASE ParserStep
  <2>1. CASE ReceiveChunk
    <3>1. pool'.tx = pool.tx /\ data'.rx = data.rx /\ parser \notin Gone
      BY <1>0, <2>1, EndsOf DEF ReceiveChunk, Gone
    <3> QED
      BY <1>2, <2>1, <3>1 DEF ParserStep, ReceiveChunk, Handles
  <2>2. CASE ParseRecord \/ NeedMore \/ EndOfInput
    BY <1>2, <2>2 DEF ParserStep, ParseRecord, NeedMore, EndOfInput, Handles, Gone
  <2>3. CASE DrainAndReport
    <3>1. progress'.rx = progress.rx
      BY <1>0, <2>3, EndsOf DEF DrainAndReport
    <3> QED
      BY <1>2, <2>3, <3>1 DEF ParserStep, DrainAndReport, Handles, Gone
  <2>4. CASE SwapAndSend
    <3>1. vecs'.tx = vecs.tx /\ records'.rx = records.rx
      BY <1>0, <2>4, EndsOf DEF SwapAndSend
    <3> QED
      BY <1>2, <2>4, <3>1 DEF ParserStep, SwapAndSend, Handles, Gone
  <2>5. CASE ParsePanics \/ ParserPanics \/ ParserFinishes
    <3>1. /\ vecs'.tx = vecs.tx /\ records'.rx = records.rx /\ progress'.rx = progress.rx
          /\ parser' \in Gone
      BY <1>0, <2>5, EndsOf DEF ParsePanics, ParserPanics, ParserFinishes, ParserEnds, Gone
    <3> QED
      BY <1>2, <3>1 DEF ParserStep, Handles
  <2> QED
    BY <1>2, <2>1, <2>2, <2>3, <2>4, <2>5 DEF ParserStep, ParserNext
<1>3. CASE RecorderStep
  <2>1. CASE ReceiveBatch \/ RecordBatch \/ StartRendering
    <3>1. vecs'.tx = vecs.tx /\ records'.rx = records.rx /\ result' = result /\ recorder \notin Gone
      BY <1>0, <2>1, EndsOf DEF ReceiveBatch, RecordBatch, StartRendering, Gone
    <3> QED
      BY <1>3, <3>1 DEF RecorderStep, Handles
  <2>2. CASE SendResult \/ RenderPanics
    <3>1. Sent(result, recorded) \in Channels(Seq(Nat))
      BY <1>0, ChannelType DEF TypeInv, TypeOK, TypeOKRecorder
    <3>2. result'.rx = result.rx /\ recorder' \in Gone
      BY <1>0, <2>2, <3>1, EndsOf DEF SendResult, RenderPanics, RecorderDrops, Gone
    <3> QED
      BY <1>3, <3>2 DEF RecorderStep, Handles
  <2> QED
    BY <1>3, <2>1, <2>2 DEF RecorderStep, RecorderNext
<1>4. CASE MainNext
  <2>1. ASSUME NEW how, Return(how) PROVE Handles'
    <3>1. main' = "returned"
      BY <2>1 DEF Return
    <3>2. /\ pool'.tx = "dropped" => pool.tx = "dropped" \/ parser = "unborn"
          /\ data'.rx = "dropped" => data.rx = "dropped" \/ parser = "unborn"
          /\ vecs'.tx = "dropped" => vecs.tx = "dropped" \/ recorder = "unborn"
          /\ records'.rx = "dropped" => records.rx = "dropped" \/ recorder = "unborn"
      BY <1>0, <2>1, LostEnds DEF Return
    <3>3. result'.tx = "dropped" => result.tx = "dropped" \/ recorder = "unborn"
      <4>1. DropSender(result) \in Channels(Seq(Nat))
        BY <1>0, ChannelType
      <4> QED
        BY <1>0, <2>1, <4>1, EndsOf DEF Return, LoseSender
    <3>4. /\ parser \in Gone \/ parser = "unborn" => parser' \in Gone
          /\ recorder \in Gone \/ recorder = "unborn" => recorder' \in Gone
      BY <2>1 DEF Return, Lost, Gone
    <3> QED
      BY <3>1, <3>2, <3>3, <3>4 DEF Handles
  <2>2. CASE RejectHeader \/ OpenFails \/ SpawnFails \/ NoResult \/ JoinLast \/ JoinFails
    BY <2>1, <2>2 DEF RejectHeader, OpenFails, SpawnFails, NoResult, JoinLast, JoinFails
  <2>3. CASE SpawnPrefetch
    <3>1. vecs'.tx = vecs.tx
      BY <1>0, <2>3, EndsOf DEF SpawnPrefetch
    <3> QED
      BY <2>3, <3>1 DEF SpawnPrefetch, Handles
  <2>4. CASE ShowProgress \/ ReceiveResult
    <3>1. progress'.rx = progress.rx /\ result'.rx = result.rx /\ result'.tx = result.tx
      BY <1>0, <2>4, EndsOf DEF ShowProgress, ReceiveResult
    <3> QED
      BY <2>4, <3>1 DEF ShowProgress, ReceiveResult, Handles
  <2>5. CASE ReadHeader \/ FinishProgress \/ JoinNext
    BY <2>5 DEF ReadHeader, FinishProgress, JoinNext, Handles
  <2>6. CASE SpawnParser \/ SpawnRecorder
    BY <2>6 DEF SpawnParser, SpawnRecorder, Handles, Gone, Lifecycle
  <2> QED
    BY <1>4, <2>2, <2>3, <2>4, <2>5, <2>6 DEF MainNext
<1>5. CASE UNCHANGED vars
  BY <1>5 DEF vars, Handles
<1> QED
  BY <1>1, <1>2, <1>3, <1>4, <1>5 DEF Next, Terminated

-----------------------------------------------------------------------------
(***************************************************************************)
(* Failure: a dump that the parser can read, without faults.               *)
(***************************************************************************)

\* The parser finds a record that it knows at the start of what is left to it.
LEMMA NextRecordKnown ==
  ASSUME TypeInv, Bytes, Lifecycle, Position, recorder # "dropped", parser \in {"first", "more"},
         rest # << >>
  PROVE  \E i \in 1..dump.n : AtRecord(i) /\ InTable(i)
<1> DEFINE p == Pushed + 1
<1>0. WellFormedRecords(dump)
  BY DEF TypeInv, HeaderRead
<1>1. /\ Pushed <= dump.n /\ remaining = dump.rem[p] /\ dump.start[p] <= BufferEnd
      /\ rest = Span(dump.start[p], BufferEnd)
  BY DEF Position
<1>2. /\ dump.n \in Nat /\ Pushed \in Nat /\ BufferEnd \in Nat /\ dump.len \in Nat /\ p \in 1..(dump.n + 1)
      /\ remaining \in Nat
  <2>1. dump.n \in Nat /\ dump.len \in Nat
    BY <1>0 DEF WellFormedRecords
  <2>2. Pushed \in Nat /\ BufferEnd \in Nat /\ remaining \in Nat
    BY Counts DEF TypeInv, TypeOK, TypeOKParser, BufferEnd
  <2> QED
    BY <2>1, <2>2, <1>1
<1> HIDE DEF p
<1>3. dump.start[p] \in Nat
  BY <1>0, <1>2, StartsDiffer
<1>4. /\ Len(rest) = BufferEnd - dump.start[p]
      /\ \A k \in 1..(BufferEnd - dump.start[p]) : rest[k] = dump.start[p] + k
  BY <1>1, <1>2, <1>3, SpanType, ZenonT(60)
<1>5. Len(rest) # 0 /\ Len(rest) \in Nat
  BY EmptySeq DEF TypeInv, TypeOK, TypeOKParser
<1>6. rest[1] = dump.start[p] + 1 /\ dump.start[p] < BufferEnd
  BY <1>2, <1>3, <1>4, <1>5
<1>7. BufferEnd <= dump.len
  BY ReceivedInFile DEF Bytes, Gone
<1>8. p \in 1..dump.n
  <2>1. dump.len <= dump.start[dump.n + 1]
    BY <1>0 DEF WellFormedRecords
  <2>2. p # dump.n + 1
    BY <2>1, <1>2, <1>3, <1>6, <1>7
  <2> QED
    BY <2>2, <1>2
<1>9. AtRecord(p)
  BY <1>6 DEF AtRecord
<1>10. InTable(p)
  <2>1. /\ dump.kind[p] \in Kinds
        /\ dump.kind[p] \in {"top", "segment"} => dump.rem[p] = 0
        /\ dump.kind[p] = "gc" => dump.rem[p] > 0
    BY <1>0, <1>8 DEF WellFormedRecords
  <2> QED
    BY <2>1, <1>1, <1>2 DEF InTable, Kinds, p
<1> QED
  BY <1>8, <1>9, <1>10

\* On a healthy dump no step harms a thread, and main returns only with the result.
LEMMA UnharmedStep ==
  SlurpInv /\ CauseInv /\ [Next]_vars => Unharmed'
<1> SUFFICES ASSUME SlurpInv, Handles, Unharmed, [Next]_vars, Healthy' PROVE
        /\ fetcher' \notin {"panicked", "dropped"}
        /\ parser' \notin {"panicked", "dropped"}
        /\ recorder' \notin {"panicked", "dropped"}
        /\ main' = "returned" => /\ outcome' = "ok" /\ fetcher' = "done"
                                 /\ parser' = "done" /\ recorder' = "done"
  BY DEF CauseInv, Unharmed
<1> USE DEF channels, fetcherVars, parserVars, recorderVars, mainVars, input
<1>a. TypeInv /\ Lifecycle /\ Bytes /\ Order /\ Vectors /\ Position /\ Answering
  BY DEF SlurpInv, Records
<1>0. TypeOKFetcher /\ TypeOKParser /\ TypeOKRecorder /\ TypeOKMain
  BY <1>a DEF TypeInv, TypeOK
<1>b. dump' = dump
  <2>1. CASE FetcherStep
    BY <2>1 DEF FetcherStep, FetcherNext, TakeBuffer, FillAndSend, FetcherPanicsOnClosed, ReadFails,
                FetcherFinishes, FetcherEnds
  <2>2. CASE ParserStep
    BY <2>2 DEF ParserStep, ParserNext, ReceiveChunk, ParseRecord, NeedMore, EndOfInput, ParsePanics,
                DrainAndReport, SwapAndSend, ParserPanics, ParserFinishes, ParserEnds
  <2>3. CASE RecorderStep
    BY <2>3 DEF RecorderStep, RecorderNext, ReceiveBatch, RecordBatch, StartRendering, SendResult,
                RenderPanics, RecorderDrops
  <2>4. CASE MainNext
    BY <2>4 DEF MainNext, ReadHeader, RejectHeader, OpenFails, SpawnPrefetch, SpawnParser, SpawnRecorder,
                SpawnFails, ShowProgress, FinishProgress, ReceiveResult, NoResult, JoinNext, JoinLast,
                JoinFails, Return
  <2> QED
    BY <2>1, <2>2, <2>3, <2>4 DEF Next, Terminated, vars
<1>c. Healthy
  BY <1>b DEF Healthy
<1>d. /\ fetcher \notin {"panicked", "dropped"} /\ parser \notin {"panicked", "dropped"}
      /\ recorder \notin {"panicked", "dropped"}
      /\ main = "returned" => outcome = "ok" /\ fetcher = "done" /\ parser = "done" /\ recorder = "done"
  BY <1>c DEF Unharmed
<1>e. /\ Faults = {} /\ HeaderOutcome(dump) = "ok"
      /\ \A i \in 1..dump.n : dump.kind[i] # "unreadable"
  BY <1>c DEF Healthy
\* A thread that listens or sends finds the other end alive.
<1>f. fetcher \in {"loop", "filling"} => ~Disconnected(pool) /\ Accepts(data)
  <2> SUFFICES ASSUME fetcher \in {"loop", "filling"} PROVE pool.tx # "dropped" /\ data.rx # "dropped"
    BY <1>a DEF Disconnected, Accepts, TypeInv, TypeOK, TypeOKChannels, Channels, Ends
  <2>1. parser \notin Gone
    BY <1>a, <1>d DEF Bytes, Contiguous, Gone
  <2> QED
    BY <2>1 DEF Handles
<1>g. parser \in {"parsed", "swap"} => Accepts(progress) /\ ~Disconnected(vecs) /\ Accepts(records)
  <2> SUFFICES ASSUME parser \in {"parsed", "swap"}
               PROVE  progress.rx # "dropped" /\ vecs.tx # "dropped" /\ records.rx # "dropped"
    BY <1>a DEF Disconnected, Accepts, TypeInv, TypeOK, TypeOKChannels, Channels, Ends
  <2>1. main # "returned" /\ recorder # "done"
    BY <1>a, <1>d DEF Vectors, Gone
  <2> QED
    BY <2>1, <1>d DEF Handles, Gone
<1>h. recorder = "rendering" => Accepts(result)
  <2>1. recorder = "rendering" => result.rx # "dropped"
    BY <1>d DEF Handles
  <2> QED
    BY <2>1, <1>a DEF Accepts, TypeInv, TypeOK, TypeOKChannels, Channels, Ends
<1>1. CASE FetcherStep
  <2>1. ~FetcherPanicsOnClosed /\ ~ReadFails
    BY <1>f, <1>e DEF FetcherPanicsOnClosed, ReadFails
  <2>2. fetcher' \in {"loop", "filling", "done"} /\ fetcher \in {"loop", "filling"}
    BY <1>1, <2>1 DEF FetcherStep, FetcherNext, TakeBuffer, FillAndSend, FetcherFinishes, FetcherEnds
  <2> QED
    BY <1>1, <1>d, <2>2 DEF FetcherStep
<1>2. CASE ParserStep
  <2>1. ~ParsePanics
    <3> SUFFICES ASSUME parser \in {"first", "more"}, rest # << >>
                 PROVE  \E i \in 1..dump.n : AtRecord(i) /\ InTable(i) /\ dump.kind[i] # "unreadable"
      BY DEF ParsePanics
    <3>1. \E i \in 1..dump.n : AtRecord(i) /\ InTable(i)
      BY <1>a, <1>d, NextRecordKnown
    <3> QED
      BY <3>1, <1>e
  <2>2. ~ParserPanics
    <3> SUFFICES ASSUME parser = "parsed" PROVE ~(processed + iteration_processed > dump.len)
      BY <1>g DEF ParserPanics
    <3>1. BufferEnd <= dump.len
      BY <1>a, ReceivedInFile DEF Bytes, Gone
    <3>2. /\ processed \in Nat /\ Len(loop_buffer) \in Nat /\ Len(rest) \in Nat /\ dump.len \in Nat
          /\ BufferEnd = processed + Len(loop_buffer)
      BY <1>a, DumpFacts DEF TypeInv, TypeOK, TypeOKChannels, TypeOKParser, BufferEnd
    <3>3. iteration_processed = Len(loop_buffer) - Len(rest)
      BY DEF iteration_processed
    <3> QED
      BY <3>1, <3>2, <3>3
  <2>3. parser' \notin {"panicked", "dropped", "unborn"} /\ parser # "done"
    BY <1>2, <2>1, <2>2 DEF ParserStep, ParserNext, ReceiveChunk, ParseRecord, NeedMore, EndOfInput,
       DrainAndReport, SwapAndSend, ParserFinishes, ParserEnds
  <2> QED
    BY <1>2, <1>d, <2>3 DEF ParserStep
<1>3. CASE RecorderStep
  <2>1. ~RenderPanics
    BY <1>e, <1>h DEF RenderPanics
  <2>2. recorder' \in {"recv", "recording", "rendering", "done"} /\ recorder # "done"
    BY <1>3, <2>1 DEF RecorderStep, RecorderNext, ReceiveBatch, RecordBatch, StartRendering, SendResult,
       RecorderDrops
  <2> QED
    BY <1>3, <1>d, <2>2 DEF RecorderStep
<1>4. CASE MainNext
  <2>1. ~RejectHeader /\ ~OpenFails /\ ~SpawnFails /\ ~JoinFails
    BY <1>d, <1>e DEF RejectHeader, OpenFails, SpawnFails, JoinFails
  <2>2. ~NoResult
    <3> SUFFICES ASSUME main = "result", result.q = << >>, result.tx = "dropped" PROVE FALSE
      BY DEF NoResult, Disconnected
    <3>1. recorder = "done"
      BY <1>d DEF Handles, Gone
    <3>2. result.q = <<recorded>>
      BY <3>1, <1>a DEF Answering
    <3>3. ASSUME NEW r PROVE <<r>> # << >>
      OBVIOUS
    <3> QED
      BY <3>2, <3>3, Zenon
  <2>3. CASE JoinLast
    <3>1. fetcher = "done" /\ parser = "done" /\ recorder = "done"
      BY <2>3, <1>a DEF JoinLast, Answering
    <3> QED
      BY <2>3, <3>1 DEF JoinLast, Return, Lost
  <2>4. CASE ReadHeader \/ SpawnPrefetch \/ SpawnParser \/ SpawnRecorder \/ ShowProgress \/ FinishProgress
             \/ ReceiveResult \/ JoinNext
    BY <2>4, <1>d DEF ReadHeader, SpawnPrefetch, SpawnParser, SpawnRecorder, ShowProgress,
                      FinishProgress, ReceiveResult, JoinNext
  <2> QED
    BY <1>4, <2>1, <2>2, <2>3, <2>4 DEF MainNext
<1>5. CASE UNCHANGED vars
  BY <1>5, <1>d DEF vars
<1> QED
  BY <1>1, <1>2, <1>3, <1>4, <1>5 DEF Next, Terminated

\* slurp_file fails only for a cause: without faults of the system, on a dump with a valid
\* header and records that the parser can read, no expect on a channel, no assertion and no
\* join fails, whatever the order of the threads.
THEOREM CauseCorrect == Spec => []FailureHasCause
<1>1. Init => CauseInv
  <2> SUFFICES ASSUME Init PROVE CauseInv
    OBVIOUS
  <2>1. /\ fetcher = "unborn" /\ parser = "unborn" /\ recorder = "unborn" /\ main = "open"
        /\ pool.tx = "live" /\ data.rx = "live" /\ vecs.tx = "live" /\ records.rx = "live"
        /\ result.tx = "live" /\ progress.rx = "live" /\ result.rx = "live"
    BY DEF Init, InitChannels, InitFetcher, InitParser, InitRecorder, Open
  <2> QED
    BY <2>1 DEF CauseInv, Handles, Unharmed
<1>2. SlurpInv /\ CauseInv /\ [Next]_vars => CauseInv'
  BY HandlesStep, UnharmedStep DEF CauseInv, SlurpInv
<1>3. SlurpInv /\ CauseInv => FailureHasCause
  BY DEF SlurpInv, Answering, CauseInv, Unharmed, Healthy, FailureHasCause
<1> QED
  BY <1>1, <1>2, <1>3, InvCorrect, PTL DEF Spec
=============================================================================
