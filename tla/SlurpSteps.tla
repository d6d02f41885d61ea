----------------------------- MODULE SlurpSteps -----------------------------
(***************************************************************************)
(* Every step of the pipeline keeps the invariant of SlurpInvariant, one   *)
(* layer after the other: the types, for every dump, every buffer size,    *)
(* every pool and every combination of faults, with the facts about dumps  *)
(* that they rest on; the life of the threads; the bytes on their way to   *)
(* the parser; the records on their way to the recorder together with the  *)
(* place of the parser in the file.                                        *)
(***************************************************************************)
EXTENDS SlurpInvariant, SequenceTheorems, TLAPS

(***************************************************************************)
(* Facts about spans of consecutive numbers and about well-formed dumps.   *)
(***************************************************************************)

\* A span is a sequence of known length and elements.
LEMMA SpanType ==
  ASSUME NEW a \in Nat, NEW b \in Nat, a <= b
  PROVE  /\ Span(a, b) \in Seq(Nat)
         /\ Len(Span(a, b)) = b - a
         /\ DOMAIN Span(a, b) = 1..(b - a)
         /\ \A i \in 1..(b - a) : Span(a, b)[i] = a + i
<1>1. b - a \in Nat
  OBVIOUS
<1>2. \A i \in 1..(b - a) : a + i \in Nat
  OBVIOUS
<1>3. Span(a, b) \in [1..(b - a) -> Nat]
  BY <1>2 DEF Span
<1>4. Span(a, b) \in Seq(Nat)
  BY <1>1, <1>3
<1> QED
  BY <1>1, <1>3, <1>4 DEF Span

\* A span is empty when its ends meet, and only an empty sequence has length 0.
LEMMA SpanEmpty ==
  ASSUME NEW a \in Nat
  PROVE  Span(a, a) = << >>
<1>1. Span(a, a) \in Seq(Nat) /\ Len(Span(a, a)) = 0
  BY SpanType
<1> QED
  BY <1>1

\* Whatever its ends are, a span is a sequence of numbers.
LEMMA SpanSeq ==
  ASSUME NEW a \in Nat, NEW b \in Nat
  PROVE  Span(a, b) \in Seq(Nat)
<1>1. CASE a <= b
  BY <1>1, SpanType
<1>2. CASE b < a
  <2>1. 1..(b - a) = 1..0
    BY <1>2
  <2>2. Span(a, b) = [i \in 1..0 |-> a + i]
    BY <2>1 DEF Span
  <2>3. \A i \in 1..0 : a + i \in Nat
    OBVIOUS
  <2> QED
    BY <2>2, <2>3
<1> QED
  BY <1>1, <1>2

\* The remainder of a division by a positive number, and of one that is smaller.
LEMMA Remainder ==
  ASSUME NEW a \in Nat, NEW m \in Nat \ {0}
  PROVE  a % m \in Nat /\ (a < m => a % m = a)
<1>1. a % m \in 0..(m - 1) /\ a = m * (a \div m) + (a % m) /\ a \div m \in Int
  OBVIOUS
<1>2. a < m => a \div m = 0
  BY <1>1
<1> QED
  BY <1>1, <1>2

\* Adjacent spans join.
LEMMA SpanConcat ==
  ASSUME NEW a \in Nat, NEW b \in Nat, NEW c \in Nat, a <= b, b <= c
  PROVE  Span(a, b) \o Span(b, c) = Span(a, c)
<1> DEFINE s == Span(a, b) \o Span(b, c)
<1>1. /\ Span(a, b) \in Seq(Nat) /\ Len(Span(a, b)) = b - a
      /\ \A i \in 1..(b - a) : Span(a, b)[i] = a + i
  BY SpanType
<1>2. /\ Span(b, c) \in Seq(Nat) /\ Len(Span(b, c)) = c - b
      /\ \A i \in 1..(c - b) : Span(b, c)[i] = b + i
  BY SpanType
<1>3. /\ Span(a, c) \in Seq(Nat) /\ Len(Span(a, c)) = c - a
      /\ \A i \in 1..(c - a) : Span(a, c)[i] = a + i
  BY SpanType
<1>0. /\ s \in Seq(Nat) /\ Len(s) = Len(Span(a, b)) + Len(Span(b, c))
      /\ \A i \in 1..(Len(Span(a, b)) + Len(Span(b, c))) :
           s[i] = IF i <= Len(Span(a, b)) THEN Span(a, b)[i] ELSE Span(b, c)[i - Len(Span(a, b))]
  BY <1>1, <1>2, ConcatProperties
<1> HIDE DEF s
<1>4. s \in Seq(Nat) /\ Len(s) = c - a
  BY <1>0, <1>1, <1>2
<1>5. \A i \in 1..(c - a) : s[i] = a + i
  <2> TAKE i \in 1..(c - a)
  <2>1. CASE i <= b - a
    BY <2>1, <1>0, <1>1, <1>2
  <2>2. CASE i > b - a
    <3>1. s[i] = Span(b, c)[i - (b - a)] /\ i - (b - a) \in 1..(c - b)
      BY <2>2, <1>0, <1>1, <1>2
    <3> QED
      BY <3>1, <1>2
  <2> QED
    BY <2>1, <2>2
<1>6. \A i \in 1..Len(s) : s[i] = Span(a, c)[i]
  BY <1>3, <1>4, <1>5
<1>7. s = Span(a, c)
  BY <1>3, <1>4, <1>6, SeqEqual
<1> QED
  BY <1>7 DEF s

\* A span grows by its next number.
LEMMA SpanAppend ==
  ASSUME NEW a \in Nat, NEW b \in Nat, a <= b
  PROVE  Append(Span(a, b), b + 1) = Span(a, b + 1)
<1>1. /\ Span(a, b) \in Seq(Nat) /\ Len(Span(a, b)) = b - a
      /\ \A i \in 1..(b - a) : Span(a, b)[i] = a + i
  BY SpanType
<1>2. /\ Span(a, b + 1) \in Seq(Nat) /\ Len(Span(a, b + 1)) = b + 1 - a
      /\ \A i \in 1..(b + 1 - a) : Span(a, b + 1)[i] = a + i
  <2>1. b + 1 \in Nat /\ a <= b + 1
    OBVIOUS
  <2> QED
    BY <2>1, SpanType
<1> DEFINE s == Append(Span(a, b), b + 1)
<1>3. s \in Seq(Nat) /\ Len(s) = b + 1 - a
  BY <1>1
<1>4. \A i \in 1..Len(s) : s[i] = a + i
  BY <1>1
<1> HIDE DEF s
<1>5. s = Span(a, b + 1)
  BY <1>2, <1>3, <1>4, SeqEqual
<1> QED
  BY <1>5 DEF s

\* What is left of a span without its first k numbers.
LEMMA SpanSuffix ==
  ASSUME NEW a \in Nat, NEW b \in Nat, NEW k \in Nat, a + k <= b
  PROVE  SubSeq(Span(a, b), k + 1, b - a) = Span(a + k, b)
<1>1. /\ Span(a, b) \in Seq(Nat) /\ Len(Span(a, b)) = b - a
      /\ \A i \in 1..(b - a) : Span(a, b)[i] = a + i
  BY SpanType
<1>0. a + k \in Nat
  OBVIOUS
<1>2. /\ Span(a + k, b) \in Seq(Nat) /\ Len(Span(a + k, b)) = b - (a + k)
      /\ \A i \in 1..(b - (a + k)) : Span(a + k, b)[i] = (a + k) + i
  BY <1>0, SpanType
<1> DEFINE s == SubSeq(Span(a, b), k + 1, b - a)
<1>3. s = [i \in 1..((b - a) - (k + 1) + 1) |-> Span(a, b)[i + (k + 1) - 1]]
  BY <1>1
<1>4. \A i \in 1..(b - (a + k)) : s[i] = (a + k) + i
  BY <1>1, <1>3
<1>5. DOMAIN s = 1..(b - (a + k))
  BY <1>3
<1>6. s = [i \in 1..(b - (a + k)) |-> (a + k) + i]
  BY <1>3, <1>4, <1>5
<1> HIDE DEF s
<1>7. s = Span(a + k, b)
  BY <1>6 DEF Span
<1> QED
  BY <1>7 DEF s

\* What is left of a sequence without its first k elements.
LEMMA SuffixType ==
  ASSUME NEW S, NEW s \in Seq(S), NEW k \in Nat, k <= Len(s)
  PROVE  /\ SubSeq(s, k + 1, Len(s)) \in Seq(S)
         /\ Len(SubSeq(s, k + 1, Len(s))) = Len(s) - k
<1>1. k + 1 \in Int /\ Len(s) \in Int /\ \A i \in (k + 1)..Len(s) : s[i] \in S
  BY ElementOfSeq
<1>2. /\ SubSeq(s, k + 1, Len(s)) \in Seq(S)
      /\ Len(SubSeq(s, k + 1, Len(s))) = IF k + 1 <= Len(s) THEN Len(s) - (k + 1) + 1 ELSE 0
  BY <1>1, SubSeqProperties
<1> QED
  BY <1>2

\* The records of a well-formed dump lie one behind the other.
LEMMA RecordBounds ==
  ASSUME NEW d, WellFormedRecords(d), NEW i \in 1..d.n
  PROVE  /\ i \in Nat /\ i + 1 \in 1..(d.n + 1) /\ i \in 1..(d.n + 1)
         /\ d.start[i] \in Nat /\ d.start[i + 1] \in Nat /\ d.start[i] < d.start[i + 1]
         /\ Size(d, i) \in Nat \ {0} /\ Size(d, i) = d.start[i + 1] - d.start[i]
         /\ d.seg[i] \in Nat /\ d.rem[i] \in Nat /\ d.rem[i + 1] \in Nat
         /\ \A s \in d.stops[i] : s \in Nat /\ d.start[i] < s /\ s <= d.start[i + 1]
<1> DEFINE n == d.n
<1>0. n \in Nat
  BY Zenon DEF WellFormedRecords
<1>1. d.n \in Nat /\ i \in Nat /\ i + 1 \in 1..(d.n + 1) /\ i \in 1..(d.n + 1) /\ i < i + 1
  <2> HIDE DEF n
  <2>1. \A x \in 1..n : x \in Nat /\ x + 1 \in 1..(n + 1) /\ x \in 1..(n + 1) /\ x < x + 1
    BY <1>0
  <2>2. i \in 1..n
    BY DEF n
  <2> QED
    BY <1>0, <2>1, <2>2 DEF n
<1>2. d.start[i] \in Nat /\ d.start[i + 1] \in Nat /\ d.start[i] < d.start[i + 1]
  BY <1>1 DEF WellFormedRecords
<1>3. Size(d, i) \in Nat \ {0} /\ Size(d, i) = d.start[i + 1] - d.start[i]
  BY <1>2 DEF Size
<1>4. d.seg[i] \in Nat /\ d.rem[i] \in Nat /\ d.rem[i + 1] \in Nat
  BY <1>1 DEF WellFormedRecords
<1>5. \A s \in d.stops[i] : s \in Nat /\ d.start[i] < s /\ s <= d.start[i + 1]
  BY <1>1 DEF WellFormedRecords
<1> QED
  BY <1>1, <1>2, <1>3, <1>4, <1>5

\* The channel operations keep the type of the messages.
LEMMA ChannelType ==
  ASSUME NEW M, NEW c \in Channels(M)
  PROVE  /\ c.q \in Seq(M) /\ c.tx \in Ends /\ c.rx \in Ends
         /\ Ready(c) => Head(c.q) \in M /\ Taken(c) \in Channels(M)
         /\ \A m \in M : Sent(c, m) \in Channels(M) /\ SentOrLost(c, m) \in Channels(M)
         /\ DropSender(c) \in Channels(M)
         /\ DropReceiver(c) \in Channels(M)
<1>1. c.q \in Seq(M) /\ c.tx \in Ends /\ c.rx \in Ends
  BY DEF Channels
<1>2. Ready(c) => Head(c.q) \in M /\ Taken(c) \in Channels(M)
  <2> SUFFICES ASSUME Ready(c)
               PROVE  Head(c.q) \in M /\ Taken(c) \in Channels(M)
    OBVIOUS
  <2>1. Head(c.q) \in M /\ Tail(c.q) \in Seq(M)
    BY <1>1, HeadTailProperties DEF Ready
  <2> QED
    BY <1>1, <2>1 DEF Channels, Taken
<1>3. \A m \in M : Sent(c, m) \in Channels(M)
  BY <1>1 DEF Channels, Sent
<1>4. \A m \in M : SentOrLost(c, m) \in Channels(M)
  BY <1>3 DEF SentOrLost
<1>5. DropSender(c) \in Channels(M)
  BY <1>1 DEF Channels, DropSender, Ends
<1>6. DropReceiver(c) \in Channels(M)
  <2>1. << >> \in Seq(M) /\ "dropped" \in Ends
    BY EmptySeq DEF Ends
  <2> QED
    BY <1>1, <2>1 DEF Channels, DropReceiver
<1> QED
  BY <1>1, <1>2, <1>3, <1>4, <1>5, <1>6

\* What each channel operation does to the queue and to the ends.
LEMMA ChannelFields ==
  ASSUME NEW M, NEW c \in Channels(M), NEW m
  PROVE  /\ Taken(c).q = Tail(c.q) /\ Taken(c).tx = c.tx /\ Taken(c).rx = c.rx
         /\ Sent(c, m).q = Append(c.q, m) /\ Sent(c, m).tx = c.tx /\ Sent(c, m).rx = c.rx
         /\ c.rx = "live" => SentOrLost(c, m) = Sent(c, m)
         /\ c.rx # "live" => SentOrLost(c, m) = c
         /\ DropSender(c).q = c.q /\ DropSender(c).tx = "dropped" /\ DropSender(c).rx = c.rx
         /\ DropReceiver(c).q = << >> /\ DropReceiver(c).tx = c.tx
         /\ DropReceiver(c).rx = "dropped"
<1>1. c = [q |-> c.q, tx |-> c.tx, rx |-> c.rx]
  BY DEF Channels
<1> QED
  BY <1>1 DEF Taken, Sent, SentOrLost, Accepts, DropSender, DropReceiver
-----------------------------------------------------------------------------
(***************************************************************************)
(* Types.  TypeInv carries two facts along: that the dump is well formed   *)
(* once the header was accepted, and that the input left to the record     *)
(* parser is never longer than the working buffer.                         *)
(***************************************************************************)

\* The length of a file whose header is accepted is a number and its records
\* are well formed.
LEMMA DumpFacts ==
  ASSUME dump \in Dumps
  PROVE  dump.len \in Nat /\ (HeaderOutcome(dump) = "ok" => WellFormedRecords(dump))
  BY DumpAssumption

\* slurp_file starts with fresh channels and no threads.
LEMMA TypeInit == Init => TypeInv
<1> SUFFICES ASSUME Init PROVE TypeInv
  OBVIOUS
<1> USE DEF Init, InitChannels, InitFetcher, InitParser, InitRecorder
<1>1. TypeOKChannels
  <2>1. \A M : << >> \in Seq(M)
    BY EmptySeq
  <2>2. [i \in 1..PoolBuffers |-> EmptyBuffer] \in Seq({EmptyBuffer})
    BY PipelineAssumption
  <2> QED
    BY <2>1, <2>2 DEF TypeOKChannels, Channels, Open, Ends
<1>2. TypeOKFetcher /\ TypeOKParser /\ TypeOKRecorder /\ TypeOKMain
  BY DumpAssumption DEF TypeOKFetcher, TypeOKParser, TypeOKRecorder, TypeOKMain, Outcomes
<1>3. HeaderRead /\ RestFits
  BY DEF HeaderRead, RestFits
<1> QED
  BY <1>1, <1>2, <1>3 DEF TypeInv, TypeOK

\* The channels of the pipeline keep their types under every operation on them.
LEMMA ChannelsKeepType ==
  ASSUME TypeOKChannels
  PROVE  /\ Ready(data) => Head(data.q) \in Chunks /\ Taken(data) \in Channels(Chunks)
         /\ \A m \in Chunks : Sent(data, m) \in Channels(Chunks)
         /\ DropSender(data) \in Channels(Chunks) /\ DropReceiver(data) \in Channels(Chunks)
         /\ DropSender(DropReceiver(data)) \in Channels(Chunks)
         /\ Ready(pool) => Taken(pool) \in Channels({EmptyBuffer})
         /\ SentOrLost(pool, EmptyBuffer) \in Channels({EmptyBuffer})
         /\ DropSender(pool) \in Channels({EmptyBuffer})
         /\ DropReceiver(pool) \in Channels({EmptyBuffer})
         /\ DropSender(DropReceiver(pool)) \in Channels({EmptyBuffer})
         /\ Ready(records) => Head(records.q) \in Seq(Nat) /\ Taken(records) \in Channels(Seq(Nat))
         /\ \A m \in Seq(Nat) : Sent(records, m) \in Channels(Seq(Nat))
         /\ DropSender(records) \in Channels(Seq(Nat)) /\ DropReceiver(records) \in Channels(Seq(Nat))
         /\ DropSender(DropReceiver(records)) \in Channels(Seq(Nat))
         /\ Ready(vecs) => Head(vecs.q) \in Seq(Nat) /\ Taken(vecs) \in Channels(Seq(Nat))
         /\ \A m \in Seq(Nat) : /\ Sent(vecs, m) \in Channels(Seq(Nat))
                                /\ SentOrLost(vecs, m) \in Channels(Seq(Nat))
         /\ DropSender(vecs) \in Channels(Seq(Nat)) /\ DropReceiver(vecs) \in Channels(Seq(Nat))
         /\ DropSender(DropReceiver(vecs)) \in Channels(Seq(Nat))
         /\ Ready(progress) => Head(progress.q) \in Nat /\ Taken(progress) \in Channels(Nat)
         /\ \A m \in Nat : Sent(progress, m) \in Channels(Nat)
         /\ DropSender(progress) \in Channels(Nat) /\ DropReceiver(progress) \in Channels(Nat)
         /\ DropReceiver(DropSender(progress)) \in Channels(Nat)
         /\ Ready(result) => Head(result.q) \in Seq(Nat) /\ Taken(result) \in Channels(Seq(Nat))
         /\ \A m \in Seq(Nat) : /\ Sent(result, m) \in Channels(Seq(Nat))
                                /\ DropSender(Sent(result, m)) \in Channels(Seq(Nat))
         /\ DropSender(result) \in Channels(Seq(Nat)) /\ DropReceiver(result) \in Channels(Seq(Nat))
         /\ DropReceiver(DropSender(result)) \in Channels(Seq(Nat))
<1> USE DEF TypeOKChannels
<1>1. data \in Channels(Chunks) /\ DropReceiver(data) \in Channels(Chunks)
  BY ChannelType
<1>2. pool \in Channels({EmptyBuffer}) /\ DropReceiver(pool) \in Channels({EmptyBuffer})
  BY ChannelType
<1>3. records \in Channels(Seq(Nat)) /\ DropReceiver(records) \in Channels(Seq(Nat))
  BY ChannelType
<1>4. vecs \in Channels(Seq(Nat)) /\ DropReceiver(vecs) \in Channels(Seq(Nat))
  BY ChannelType
<1>5. progress \in Channels(Nat) /\ DropSender(progress) \in Channels(Nat)
  BY ChannelType
<1>6. result \in Channels(Seq(Nat)) /\ DropSender(result) \in Channels(Seq(Nat))
  BY ChannelType
<1>7. \A m \in Seq(Nat) : Sent(result, m) \in Channels(Seq(Nat))
  BY <1>6, ChannelType
<1> USE <1>1, <1>2, <1>3, <1>4, <1>5, <1>6, <1>7
<1> HIDE DEF TypeOKChannels
<1> QED
  BY ChannelType

\* What the parser asks for is a number of bytes.
LEMMA NeededType ==
  ASSUME TypeOKParser, WellFormedRecords(dump), NeedMore
  PROVE  needed' \in Nat
<1>1. PICK i \in 1..dump.n : \E s \in dump.stops[i] :
        /\ s > dump.start[i] + Len(rest)
        /\ needed' = (s - (dump.start[i] + Len(rest))) + Len(loop_buffer)
  BY DEF NeedMore, MissingStop
<1>2. PICK s \in dump.stops[i] :
        /\ s > dump.start[i] + Len(rest)
        /\ needed' = (s - (dump.start[i] + Len(rest))) + Len(loop_buffer)
  BY <1>1
<1>3. s \in Nat /\ dump.start[i] \in Nat
  BY RecordBounds
<1>4. Len(rest) \in Nat /\ Len(loop_buffer) \in Nat
  BY DEF TypeOKParser
<1>5. s - (dump.start[i] + Len(rest)) \in Nat
  BY <1>2, <1>3, <1>4
<1> QED
  BY <1>2, <1>4, <1>5

\* Every step keeps the types.
LEMMA TypeStep == TypeInv /\ [Next]_vars => TypeInv'
<1> SUFFICES ASSUME TypeInv, [Next]_vars PROVE TypeInv'
  OBVIOUS
<1> USE DEF TypeInv, TypeOK
<1> USE DEF TypeOKFetcher, TypeOKParser, TypeOKRecorder, TypeOKMain, HeaderRead, RestFits, input,
            channels, fetcherVars, parserVars, recorderVars, mainVars
<1>a. TypeOKChannels' <=> /\ dump' \in Dumps /\ read_size' \in ReadSizes
                          /\ data' \in Channels(Chunks) /\ pool' \in Channels({EmptyBuffer})
                          /\ records' \in Channels(Seq(Nat)) /\ vecs' \in Channels(Seq(Nat))
                          /\ progress' \in Channels(Nat) /\ result' \in Channels(Seq(Nat))
  BY DEF TypeOKChannels
<1>b. /\ dump \in Dumps /\ read_size \in ReadSizes /\ dump.len \in Nat /\ read_size \in Nat
      /\ data \in Channels(Chunks) /\ pool \in Channels({EmptyBuffer})
      /\ records \in Channels(Seq(Nat)) /\ vecs \in Channels(Seq(Nat))
      /\ progress \in Channels(Nat) /\ result \in Channels(Seq(Nat))
  BY DumpFacts, PipelineAssumption DEF TypeOKChannels
<1>1. ASSUME FetcherStep PROVE TypeInv'
  <2> USE <1>1 DEF FetcherStep
  <2>1. CASE TakeBuffer
    BY <2>1, <1>a, <1>b, ChannelsKeepType DEF TakeBuffer
  <2>2. CASE FillAndSend
    <3>1. fetched + next_size \in Nat
      BY <1>b DEF next_size
    <3>2. [lo |-> fetched, hi |-> fetched + next_size] \in Chunks
      BY <3>1 DEF Chunks
    <3> QED
      BY <2>2, <3>1, <3>2, <1>a, <1>b, ChannelsKeepType DEF FillAndSend
  <2>3. CASE FetcherPanicsOnClosed
    BY <2>3, <1>a, <1>b, ChannelsKeepType DEF FetcherPanicsOnClosed, FetcherEnds
  <2>4. CASE ReadFails
    BY <2>4, <1>a, <1>b, ChannelsKeepType DEF ReadFails, FetcherEnds
  <2>5. CASE FetcherFinishes
    BY <2>5, <1>a, <1>b, ChannelsKeepType DEF FetcherFinishes, FetcherEnds
  <2> QED
    BY <2>1, <2>2, <2>3, <2>4, <2>5 DEF FetcherNext
<1>2. ASSUME ParserStep PROVE TypeInv'
  <2> USE <1>2 DEF ParserStep
  <2>1. CASE ReceiveChunk
    <3>1. Head(data.q) \in Chunks
      BY <2>1, ChannelsKeepType DEF ReceiveChunk
    <3>2. loop_buffer' \in Seq(Nat)
      BY <2>1, <3>1, SpanSeq, ConcatProperties DEF ReceiveChunk, Chunks
    <3>3. /\ parser' \in {"recv", "first"} /\ rest' \in Seq(Nat)
          /\ parser' = "first" => rest' = loop_buffer'
      BY <2>1, <3>2 DEF ReceiveChunk
    <3>4. Len(loop_buffer') \in Nat
      BY <3>2
    <3>5. RestFits'
      BY <3>3, <3>4
    <3> QED
      BY <2>1, <3>2, <3>3, <3>5, <1>a, <1>b, ChannelsKeepType, SMTT(30) DEF ReceiveChunk
  <2>2. CASE ParseRecord
    <3>1. WellFormedRecords(dump) /\ parser \in {"first", "more"}
      BY <2>2 DEF ParseRecord
    <3>2. PICK i \in 1..dump.n : /\ Complete(i)
                                 /\ pooled_vec' = Append(pooled_vec, i)
                                 /\ rest' = SubSeq(rest, Size(dump, i) + 1, Len(rest))
                                 /\ remaining' = RemainingAfter(i)
      BY <2>2 DEF ParseRecord
    <3>3. Size(dump, i) \in Nat \ {0} /\ i \in Nat /\ Size(dump, i) <= Len(rest)
      BY <3>1, <3>2, RecordBounds DEF Complete
    <3>4. rest' \in Seq(Nat) /\ Len(rest') <= Len(rest)
      <4>1. rest \in Seq(Nat) /\ Size(dump, i) \in Nat /\ Size(dump, i) <= Len(rest)
        BY <3>3
      <4>2. /\ SubSeq(rest, Size(dump, i) + 1, Len(rest)) \in Seq(Nat)
            /\ Len(SubSeq(rest, Size(dump, i) + 1, Len(rest))) = Len(rest) - Size(dump, i)
        BY <4>1, SuffixType, Zenon
      <4>3. rest' \in Seq(Nat) /\ Len(rest') = Len(rest) - Size(dump, i)
        BY <3>2, <4>2, Zenon
      <4> QED
        BY <4>1, <4>3
    <3>5. remaining' \in Nat
      <4>1. Size(dump, i) % U32 \in Nat /\ dump.seg[i] \in Nat
        BY <3>1, <3>3, Remainder, RecordBounds, DumpAssumption
      <4> QED
        BY <3>2, <4>1 DEF RemainingAfter, SaturatingSub
    <3>6. pooled_vec' \in Seq(Nat)
      BY <3>2, <3>3
    <3> QED
      <4>1. /\ parser' = "more"
            /\ UNCHANGED <<dump, read_size, loop_buffer, needed, processed, data, pool, records,
                           vecs, progress, result, fetched, fetcher, recorder, batch, recorded,
                           main, outcome, position, answer>>
        BY <2>2 DEF ParseRecord
      <4>2. RestFits'
        BY <3>1, <3>4, <4>1
      <4>3. TypeOKParser'
        BY <3>4, <3>5, <3>6, <4>1
      <4> QED
        BY <3>1, <4>1, <4>2, <4>3, <1>a, <1>b
  <2>3. CASE NeedMore
    <3>2. needed' \in Nat
      <4>1. TypeOKParser /\ WellFormedRecords(dump)
        BY <2>3 DEF NeedMore
      <4> QED
        BY <2>3, <4>1, NeededType
    <3> QED
      BY <2>3, <3>2, <1>a, <1>b DEF NeedMore
  <2>4. CASE EndOfInput
    BY <2>4, <1>a, <1>b DEF EndOfInput
  <2>5. CASE ParsePanics
    BY <2>5, <1>a, <1>b, ChannelsKeepType DEF ParsePanics, ParserEnds
  <2>6. CASE DrainAndReport
    <3>1. iteration_processed \in Nat
      BY <2>6 DEF DrainAndReport, iteration_processed
    <3>2. processed' \in Nat /\ loop_buffer' \in Seq(Nat)
      <4>1. iteration_processed <= Len(loop_buffer)
        BY <2>6 DEF DrainAndReport, iteration_processed
      <4>2. SubSeq(loop_buffer, iteration_processed + 1, Len(loop_buffer)) \in Seq(Nat)
        BY <3>1, <4>1, SuffixType, Zenon
      <4> QED
        BY <2>6, <3>1, <4>2 DEF DrainAndReport
    <3> QED
      BY <2>6, <3>2, <1>a, <1>b, ChannelsKeepType DEF DrainAndReport
  <2>7. CASE SwapAndSend
    BY <2>7, <1>a, <1>b, ChannelsKeepType DEF SwapAndSend
  <2>8. CASE ParserPanics
    BY <2>8, <1>a, <1>b, ChannelsKeepType DEF ParserPanics, ParserEnds
  <2>9. CASE ParserFinishes
    BY <2>9, <1>a, <1>b, ChannelsKeepType DEF ParserFinishes, ParserEnds
  <2> QED
    BY <2>1, <2>2, <2>3, <2>4, <2>5, <2>6, <2>7, <2>8, <2>9 DEF ParserNext
<1>3. ASSUME RecorderStep PROVE TypeInv'
  <2> USE <1>3 DEF RecorderStep
  <2>1. CASE ReceiveBatch
    BY <2>1, <1>a, <1>b, ChannelsKeepType DEF ReceiveBatch
  <2>2. CASE RecordBatch
    <3>1. << >> \in Seq(Nat) /\ recorded \o batch \in Seq(Nat)
      BY EmptySeq, ConcatProperties
    <3> QED
      <4>1. vecs' \in Channels(Seq(Nat))
        BY <2>2, <3>1, ChannelsKeepType DEF RecordBatch
      <4>2. TypeOKRecorder'
        BY <2>2, <3>1 DEF RecordBatch
      <4>3. UNCHANGED <<dump, read_size, data, pool, records, progress, result, fetcherVars,
                        parserVars, mainVars>>
        BY <2>2 DEF RecordBatch
      <4> QED
        BY <4>1, <4>2, <4>3, <1>a, <1>b
  <2>3. CASE StartRendering
    BY <2>3, <1>a, <1>b DEF StartRendering
  <2>4. CASE SendResult
    BY <2>4, <1>a, <1>b, ChannelsKeepType DEF SendResult, RecorderDrops
  <2>5. CASE RenderPanics
    BY <2>5, <1>a, <1>b, ChannelsKeepType DEF RenderPanics, RecorderDrops
  <2> QED
    BY <2>1, <2>2, <2>3, <2>4, <2>5 DEF RecorderNext
<1>4. ASSUME NEW how \in Outcomes, Return(how) PROVE TypeInv'
  BY <1>4, <1>a, <1>b, ChannelsKeepType DEF Return, LoseSender, LoseReceiver, Lost
<1>5. ASSUME MainNext PROVE TypeInv'
  <2>1. CASE ReadHeader
    BY <2>1, <1>a, <1>b, DumpFacts DEF ReadHeader
  <2>2. CASE SpawnPrefetch
    <3>1. << >> \in Seq(Nat)
      BY EmptySeq
    <3> QED
      BY <2>2, <3>1, <1>a, <1>b, ChannelsKeepType DEF SpawnPrefetch
  <2>3. CASE SpawnParser \/ SpawnRecorder
    BY <2>3, <1>a, <1>b DEF SpawnParser, SpawnRecorder
  <2>4. CASE ShowProgress
    BY <2>4, <1>a, <1>b, ChannelsKeepType DEF ShowProgress
  <2>5. CASE ReceiveResult
    BY <2>5, <1>a, <1>b, ChannelsKeepType DEF ReceiveResult
  <2>8. CASE FinishProgress
    BY <2>8, <1>a, <1>b, SMTT(30) DEF FinishProgress
  <2>9. CASE JoinNext
    BY <2>9, <1>a, <1>b, SMTT(30) DEF JoinNext
  <2>6. CASE RejectHeader
    BY <2>6, <1>4 DEF RejectHeader, HeaderOutcome, Outcomes, HeaderErrors
  <2>7. CASE OpenFails \/ SpawnFails \/ NoResult \/ JoinLast \/ JoinFails
    BY <2>7, <1>4 DEF OpenFails, SpawnFails, NoResult, JoinLast, JoinFails, Outcomes, HeaderErrors
  <2> QED
    BY <1>5, <2>1, <2>2, <2>3, <2>4, <2>5, <2>6, <2>7, <2>8, <2>9 DEF MainNext
<1>6. CASE UNCHANGED vars
  BY <1>6, <1>a, <1>b DEF vars
<1> QED
  BY <1>1, <1>2, <1>3, <1>5, <1>6 DEF Next, Terminated

\* Every variable of slurp_file has its type in every reachable state; in
\* particular `needed`, heap_dump_remaining_len and the processed length, which
\* are computed by subtractions in the code, are never negative.
THEOREM TypeCorrect == Spec => []TypeOK
<1>1. TypeInv => TypeOK
  BY DEF TypeInv
<1> QED
  BY TypeInit, TypeStep, <1>1, PTL DEF Spec

-----------------------------------------------------------------------------
(***************************************************************************)
(* The channels, and the other layers of the invariant.                    *)
(***************************************************************************)

\* The channels, field by field, after each operation that the threads apply to them.
LEMMA FieldsOfData ==
  ASSUME TypeOKChannels
  PROVE  /\ data.q \in Seq(Chunks) /\ data.tx \in Ends
         /\ Taken(data).q = Tail(data.q) /\ Taken(data).tx = data.tx
         /\ \A m : Sent(data, m).q = Append(data.q, m) /\ Sent(data, m).tx = data.tx
         /\ DropSender(data).q = data.q /\ DropSender(data).tx = "dropped"
         /\ DropReceiver(data).q = << >> /\ DropReceiver(data).tx = data.tx
         /\ DropSender(DropReceiver(data)).q = << >>
         /\ DropSender(DropReceiver(data)).tx = "dropped"
<1>1. data \in Channels(Chunks)
  BY DEF TypeOKChannels
<1>2. DropReceiver(data) \in Channels(Chunks) /\ data.q \in Seq(Chunks) /\ data.tx \in Ends
  BY <1>1, ChannelType
<1> QED
  BY <1>1, <1>2, ChannelFields, SMTT(30)

\* The same for the channel of record vectors.
LEMMA FieldsOfRecords ==
  ASSUME TypeOKChannels
  PROVE  /\ records.q \in Seq(Seq(Nat)) /\ records.tx \in Ends
         /\ Taken(records).q = Tail(records.q) /\ Taken(records).tx = records.tx
         /\ \A m : Sent(records, m).q = Append(records.q, m) /\ Sent(records, m).tx = records.tx
         /\ DropSender(records).q = records.q /\ DropSender(records).tx = "dropped"
         /\ DropReceiver(records).q = << >> /\ DropReceiver(records).tx = records.tx
         /\ DropSender(DropReceiver(records)).q = << >>
         /\ DropSender(DropReceiver(records)).tx = "dropped"
<1>1. records \in Channels(Seq(Nat))
  BY DEF TypeOKChannels
<1>2. DropReceiver(records) \in Channels(Seq(Nat)) /\ records.q \in Seq(Seq(Nat)) /\ records.tx \in Ends
  BY <1>1, ChannelType
<1> QED
  BY <1>1, <1>2, ChannelFields, SMTT(30)

\* Threads are started in order, and each drops its senders when it ends, whichever
\* thread or main takes the step.
LEMMA LifecycleStep ==
  TypeInv /\ Lifecycle /\ Ownership /\ [Next]_vars => Lifecycle' /\ Ownership'
<1> SUFFICES ASSUME TypeInv, Lifecycle, Ownership, [Next]_vars
             PROVE  Lifecycle' /\ Ownership'
  OBVIOUS
<1>0. TypeOKChannels /\ TypeOKFetcher /\ TypeOKParser /\ TypeOKRecorder /\ TypeOKMain
  BY DEF TypeInv, TypeOK
<1> USE DEF Lifecycle, Ownership, Gone, channels, fetcherVars, parserVars, recorderVars, mainVars
<1>1. ASSUME FetcherStep PROVE Lifecycle' /\ Ownership'
  BY <1>1, <1>0, FieldsOfData
  DEF FetcherStep, FetcherNext, TakeBuffer, FillAndSend, FetcherPanicsOnClosed, ReadFails,
      FetcherFinishes, FetcherEnds
<1>2. ASSUME ParserStep PROVE Lifecycle' /\ Ownership'
  <2>1. ASSUME NEW how \in {"done", "panicked"}, parser \notin {"unborn", "done", "panicked", "dropped"},
               ParserEnds(how)
        PROVE  Lifecycle' /\ Ownership'
    BY <1>2, <2>1, <1>0, FieldsOfData, FieldsOfRecords DEF ParserStep, ParserEnds
  <2>2. CASE ReceiveChunk
    BY <1>2, <2>2, <1>0, FieldsOfData DEF ParserStep, ReceiveChunk
  <2>3. CASE ParseRecord \/ NeedMore \/ EndOfInput \/ DrainAndReport
    BY <1>2, <2>3, <1>0 DEF ParserStep, ParseRecord, NeedMore, EndOfInput, DrainAndReport
  <2>4. CASE SwapAndSend
    BY <1>2, <2>4, <1>0, FieldsOfRecords DEF ParserStep, SwapAndSend
  <2>5. CASE ParsePanics \/ ParserPanics \/ ParserFinishes
    BY <2>5, <2>1 DEF ParsePanics, ParserPanics, ParserFinishes
  <2> QED
    BY <1>2, <2>2, <2>3, <2>4, <2>5 DEF ParserStep, ParserNext
<1>3. ASSUME RecorderStep PROVE Lifecycle' /\ Ownership'
  BY <1>3, <1>0, FieldsOfRecords
  DEF RecorderStep, RecorderNext, ReceiveBatch, RecordBatch, StartRendering, SendResult,
      RenderPanics, RecorderDrops
<1>4. ASSUME NEW how, Return(how) PROVE Lifecycle' /\ Ownership'
  BY <1>4, <1>0, FieldsOfData, FieldsOfRecords DEF Return, LoseSender, LoseReceiver, Lost
<1>5. ASSUME MainNext PROVE Lifecycle' /\ Ownership'
  <2>1. CASE RejectHeader \/ OpenFails \/ SpawnFails \/ NoResult \/ JoinLast \/ JoinFails
    BY <2>1, <1>4 DEF RejectHeader, OpenFails, SpawnFails, NoResult, JoinLast, JoinFails
  <2>2. CASE ReadHeader \/ SpawnPrefetch \/ SpawnParser \/ SpawnRecorder
    BY <2>2, <1>0 DEF ReadHeader, SpawnPrefetch, SpawnParser, SpawnRecorder
  <2>3. CASE ShowProgress \/ FinishProgress \/ ReceiveResult \/ JoinNext
    BY <2>3, <1>0 DEF ShowProgress, FinishProgress, ReceiveResult, JoinNext
  <2> QED
    BY <1>5, <2>1, <2>2, <2>3 DEF MainNext
<1>6. CASE UNCHANGED vars
  BY <1>6 DEF vars
<1> QED
  BY <1>1, <1>2, <1>3, <1>5, <1>6 DEF Next, Terminated

-----------------------------------------------------------------------------
(***************************************************************************)
(* Bytes: the chunks on their way to the parser.                           *)
(***************************************************************************)
\* No chunk leads from a place to the place itself.
LEMMA ChainEmpty ==
  ASSUME NEW a \in Nat
  PROVE  Chain(<< >>, a, a)
  BY DEF Chain

\* A chunk that starts where the chain ends makes the chain longer (the pre-fetcher's
\* send).
LEMMA ChainSend ==
  ASSUME NEW q \in Seq(Chunks), NEW a \in Nat, NEW b \in Nat, NEW c \in Nat, b <= c,
         Chain(q, a, b)
  PROVE  Chain(Append(q, [lo |-> b, hi |-> c]), a, c)
<1> DEFINE m == [lo |-> b, hi |-> c]
           r == Append(q, m)
<1>1. m \in Chunks /\ m.lo = b /\ m.hi = c
  BY DEF Chunks
<1>2. /\ Len(r) = Len(q) + 1 /\ Len(q) \in Nat /\ r # << >>
      /\ \A i \in 1..Len(q) : r[i] = q[i]
      /\ r[Len(q) + 1] = m
  BY <1>1
<1>3. \A i \in 1..Len(q) : q[i] \in Chunks
  BY ElementOfSeq
<1> HIDE DEF m, r
<1>4. \A i \in 1..Len(q) : q[i].lo \in Nat /\ q[i].hi \in Nat
  BY <1>3 DEF Chunks
<1>5. ASSUME NEW i \in 1..Len(r)
      PROVE  /\ r[i].lo = IF i = 1 THEN a ELSE r[i - 1].hi
             /\ r[i].lo <= r[i].hi /\ r[i].hi <= c
  <2>1. CASE i <= Len(q)
    <3>1. i \in 1..Len(q) /\ (i # 1 => i - 1 \in 1..Len(q))
      BY <2>1, <1>2
    <3> QED
      BY <3>1, <1>2, <1>4, SMTT(30) DEF Chain
  <2>2. CASE i = Len(q) + 1
    <3>1. q = << >> => i = 1 /\ b = a
      BY <2>2, <1>2 DEF Chain
    <3>2. q # << >> => i # 1 /\ i - 1 = Len(q) /\ r[i - 1].hi = b
      <4>1. q # << >> => Len(q) \in 1..Len(q)
        BY EmptySeq
      <4> QED
        BY <2>2, <1>2, <4>1 DEF Chain
    <3> QED
      BY <2>2, <3>1, <3>2, <1>1, <1>2
  <2> QED
    BY <2>1, <2>2, <1>2
<1>6. c = IF r = << >> THEN a ELSE r[Len(r)].hi
  BY <1>1, <1>2
<1>7. Chain(r, a, c)
  BY <1>5, <1>6 DEF Chain
<1> QED
  BY <1>7 DEF r, m

\* The oldest chunk starts where the chain starts, and the rest goes on behind it
\* (the parser's recv).
LEMMA ChainTake ==
  ASSUME NEW q \in Seq(Chunks), NEW a \in Nat, NEW b \in Nat, q # << >>, Chain(q, a, b)
  PROVE  /\ Head(q).lo = a /\ Head(q).hi \in Nat /\ a <= Head(q).hi /\ Head(q).hi <= b
         /\ Chain(Tail(q), Head(q).hi, b)
<1> DEFINE r == Tail(q)
<1>1. Len(q) \in Nat \ {0} /\ Head(q) = q[1]
  BY EmptySeq
<1>2. r \in Seq(Chunks) /\ Len(r) = Len(q) - 1 /\ \A i \in 1..Len(r) : r[i] = q[i + 1]
  BY HeadTailProperties
<1>3. \A i \in 1..Len(q) : q[i].lo \in Nat /\ q[i].hi \in Nat
  <2>1. \A i \in 1..Len(q) : q[i] \in Chunks
    BY ElementOfSeq
  <2> QED
    BY <2>1 DEF Chunks
<1> HIDE DEF r
<1>4. Head(q).lo = a /\ Head(q).hi \in Nat /\ a <= Head(q).hi /\ Head(q).hi <= b
  BY <1>1, <1>3 DEF Chain
<1>5. ASSUME NEW i \in 1..Len(r)
      PROVE  /\ r[i].lo = IF i = 1 THEN Head(q).hi ELSE r[i - 1].hi
             /\ r[i].lo <= r[i].hi /\ r[i].hi <= b
  <2>1. /\ i + 1 \in 1..Len(q) /\ i \in 1..Len(q) /\ i + 1 # 1 /\ (i + 1) - 1 = i
        /\ i # 1 => i - 1 \in 1..Len(r) /\ (i - 1) + 1 = i
    BY <1>1, <1>2
  <2>2. q[i + 1].lo = q[i].hi /\ q[i + 1].lo <= q[i + 1].hi /\ q[i + 1].hi <= b
    BY <2>1 DEF Chain
  <2>3. r[i] = q[i + 1] /\ (i # 1 => r[i - 1] = q[i])
    BY <2>1, <1>2
  <2> QED
    BY <2>2, <2>3, <1>1
<1>6. b = IF r = << >> THEN Head(q).hi ELSE r[Len(r)].hi
  <2>1. CASE r = << >>
    <3>1. Len(q) = 1
      BY <2>1, <1>1, <1>2
    <3> QED
      BY <2>1, <3>1, <1>1 DEF Chain
  <2>2. CASE r # << >>
    <3>1. Len(r) \in 1..Len(r) /\ Len(r) + 1 = Len(q)
      BY <2>2, <1>1, <1>2, EmptySeq
    <3> QED
      BY <2>2, <3>1, <1>2 DEF Chain
  <2> QED
    BY <2>1, <2>2
<1> QED
  BY <1>4, <1>5, <1>6 DEF Chain, r

\* A received chunk joins the working buffer.
LEMMA ReceiveBytes ==
  ASSUME TypeInv, parser \notin Gone, Contiguous, ReceiveChunk
  PROVE  /\ loop_buffer' = Span(processed', BufferEnd')
         /\ Taken(data).q = data'.q
         /\ Chain(data'.q, BufferEnd', fetched)
         /\ BufferEnd <= BufferEnd' /\ BufferEnd' <= fetched /\ BufferEnd' \in Nat
<1>0. /\ TypeOKChannels /\ fetched \in Nat /\ processed \in Nat /\ Len(loop_buffer) \in Nat
      /\ BufferEnd \in Nat /\ processed <= BufferEnd
  BY DEF TypeInv, TypeOK, TypeOKFetcher, TypeOKParser, BufferEnd
<1> DEFINE c == Head(data.q)
<1>1. data.q \in Seq(Chunks) /\ data.q # << >> /\ data'.q = Tail(data.q) /\ Taken(data).q = data'.q
  BY <1>0, FieldsOfData DEF ReceiveChunk, Ready
<1>2. Chain(data.q, BufferEnd, fetched) /\ loop_buffer = Span(processed, BufferEnd)
  BY DEF Contiguous
<1>3. /\ c.lo = BufferEnd /\ c.hi \in Nat /\ BufferEnd <= c.hi /\ c.hi <= fetched
      /\ Chain(Tail(data.q), c.hi, fetched)
  BY <1>0, <1>1, <1>2, ChainTake
<1>4. loop_buffer' = loop_buffer \o Span(c.lo, c.hi) /\ processed' = processed
  BY DEF ReceiveChunk
<1> HIDE DEF c
<1>5. Span(processed, BufferEnd) \o Span(BufferEnd, c.hi) = Span(processed, c.hi)
  BY <1>0, <1>3, SpanConcat
<1>6. loop_buffer' = Span(processed, c.hi)
  BY <1>2, <1>3, <1>4, <1>5
<1>7. Len(loop_buffer') = c.hi - processed
  <2>1. processed <= c.hi
    BY <1>0, <1>3
  <2> QED
    BY <1>0, <1>3, <1>6, <2>1, SpanType
<1>8. BufferEnd' = c.hi
  <2>1. BufferEnd' = processed' + Len(loop_buffer')
    BY DEF BufferEnd
  <2> QED
    BY <1>0, <1>3, <1>4, <1>7, <2>1
<1> QED
  BY <1>1, <1>3, <1>4, <1>6, <1>8

\* Draining moves the start of the working buffer and not its end.
LEMMA DrainBytes ==
  ASSUME TypeInv, loop_buffer = Span(processed, BufferEnd), DrainAndReport
  PROVE  /\ loop_buffer' = Span(processed', BufferEnd') /\ BufferEnd' = BufferEnd
         /\ processed' = BufferEnd - Len(rest)
<1>0. /\ processed \in Nat /\ loop_buffer \in Seq(Nat) /\ Len(loop_buffer) \in Nat /\ BufferEnd \in Nat
      /\ Len(rest) \in Nat
      /\ processed <= BufferEnd /\ BufferEnd = processed + Len(loop_buffer)
      /\ parser = "parsed" /\ Len(rest) <= Len(loop_buffer)
  BY DEF TypeInv, TypeOK, TypeOKParser, BufferEnd, DrainAndReport, RestFits
<1> DEFINE k == iteration_processed
<1>1. k \in Nat /\ k <= Len(loop_buffer) /\ k = Len(loop_buffer) - Len(rest)
  BY <1>0 DEF iteration_processed
<1>2. processed' = processed + k /\ loop_buffer' = SubSeq(loop_buffer, k + 1, Len(loop_buffer))
  BY DEF DrainAndReport
<1> HIDE DEF k
<1>3. Len(loop_buffer') = Len(loop_buffer) - k
  BY <1>0, <1>1, <1>2, SuffixType, Zenon
<1>4. BufferEnd' = BufferEnd
  <2>1. BufferEnd' = processed' + Len(loop_buffer')
    BY DEF BufferEnd
  <2> QED
    BY <1>0, <1>1, <1>2, <1>3, <2>1
<1>5. Len(loop_buffer) = BufferEnd - processed /\ processed + k <= BufferEnd
  BY <1>0, <1>1
<1>6. SubSeq(Span(processed, BufferEnd), k + 1, BufferEnd - processed) = Span(processed + k, BufferEnd)
  <2>1. processed \in Nat /\ BufferEnd \in Nat /\ k \in Nat /\ processed + k <= BufferEnd
    BY <1>0, <1>1, <1>5
  <2> QED
    BY <2>1, SpanSuffix, Zenon
<1>7. loop_buffer' = Span(processed + k, BufferEnd)
  BY <1>2, <1>5, <1>6, Zenon
<1>8. processed + k = BufferEnd - Len(rest)
  BY <1>0, <1>1
<1> QED
  BY <1>2, <1>4, <1>7, <1>8

\* Every step keeps the bytes of the file in sequence, from the pre-fetcher through the
\* channel to the parser's working buffer.
LEMMA BytesStep ==
  TypeInv /\ Lifecycle /\ Ownership /\ Bytes /\ [Next]_vars => Bytes'
<1> SUFFICES ASSUME TypeInv, Lifecycle, Ownership, Fetching, Contiguous, Fresh, [Next]_vars
             PROVE  Fetching' /\ Contiguous' /\ Fresh'
  BY DEF Bytes
<1>0. /\ TypeOKChannels /\ TypeOKFetcher /\ TypeOKParser /\ TypeOKRecorder /\ TypeOKMain /\ HeaderRead
      /\ dump.len \in Nat /\ read_size \in Nat
  BY DumpFacts, PipelineAssumption DEF TypeInv, TypeOK, TypeOKChannels
<1> USE DEF channels, fetcherVars, parserVars, recorderVars, mainVars, input
<1>1. ASSUME FetcherStep PROVE Fetching' /\ Contiguous' /\ Fresh'
  <2>1. Fresh'
    BY <1>1 DEF FetcherStep, Fresh
  <2>2. UNCHANGED <<parser, processed, loop_buffer, BufferEnd>> /\ fetcher \in {"loop", "filling"}
        /\ dump' = dump
    BY <1>1 DEF FetcherStep, FetcherNext, BufferEnd, TakeBuffer, FillAndSend, FetcherPanicsOnClosed,
                ReadFails, FetcherFinishes, FetcherEnds
  <2>3. parser # "done"
    BY <2>2 DEF Contiguous, Gone
  <2>4. CASE TakeBuffer
    BY <2>1, <2>2, <2>3, <2>4 DEF TakeBuffer, Fetching, Contiguous
  <2>5. CASE FillAndSend
    <3>1. next_size \in Nat /\ fetched \in Nat /\ fetched + next_size <= dump.len
      BY <2>2, <1>0 DEF next_size, TypeOKFetcher, Fetching
    <3>2. data'.q = Append(data.q, [lo |-> fetched, hi |-> fetched + next_size])
          /\ fetched' = fetched + next_size /\ fetcher' = "loop"
      BY <2>5, <1>0, FieldsOfData DEF FillAndSend
    <3>3. ASSUME parser \notin Gone PROVE Chain(data'.q, BufferEnd, fetched')
      <4>1. BufferEnd \in Nat /\ data.q \in Seq(Chunks) /\ fetched + next_size \in Nat
            /\ fetched <= fetched + next_size
        BY <1>0, <3>1, FieldsOfData DEF BufferEnd, TypeOKParser
      <4>2. Chain(data.q, BufferEnd, fetched)
        BY <3>3 DEF Contiguous
      <4> QED
        BY <4>1, <4>2, <3>1, <3>2, ChainSend
    <3> QED
      BY <2>1, <2>2, <2>3, <3>1, <3>2, <3>3 DEF Fetching, Contiguous
  <2>6. CASE FetcherPanicsOnClosed \/ ReadFails \/ FetcherFinishes
    <3>1. data'.q = data.q /\ fetched' = fetched /\ fetcher' \in {"done", "panicked"}
          /\ (fetcher' = "done" => fetched = dump.len)
      BY <2>6, <1>0, FieldsOfData DEF FetcherPanicsOnClosed, ReadFails, FetcherFinishes, FetcherEnds
    <3> QED
      BY <2>1, <2>2, <2>3, <3>1 DEF Fetching, Contiguous
  <2> QED
    BY <1>1, <2>4, <2>5, <2>6 DEF FetcherStep, FetcherNext
<1>2. ASSUME ParserStep PROVE Fetching' /\ Contiguous' /\ Fresh'
  <2>1. Fetching'
    <3>1. dump' = dump
      BY <1>2 DEF ParserStep, ParserNext, ReceiveChunk, ParseRecord, NeedMore, EndOfInput, ParsePanics,
                  DrainAndReport, SwapAndSend, ParserPanics, ParserFinishes, ParserEnds
    <3> QED
      BY <1>2, <3>1 DEF ParserStep, Fetching
  <2>2. UNCHANGED <<fetcher, fetched>>
    BY <1>2 DEF ParserStep
  <2>3. CASE ReceiveChunk
    <3>1. parser \notin Gone /\ parser' \in {"recv", "first"}
      BY <2>3 DEF ReceiveChunk, Gone
    <3> QED
      BY <2>1, <2>2, <2>3, <3>1, ReceiveBytes DEF Contiguous, Fresh, Gone
  <2>4. CASE ParseRecord \/ NeedMore \/ EndOfInput \/ SwapAndSend
    <3>1. parser \notin Gone /\ parser' \in {"more", "recv", "parsed"}
          /\ UNCHANGED <<processed, loop_buffer, data, BufferEnd>>
      BY <2>4 DEF ParseRecord, NeedMore, EndOfInput, SwapAndSend, Gone, BufferEnd
    <3> QED
      BY <2>1, <2>2, <3>1 DEF Contiguous, Fresh, Gone
  <2>5. CASE DrainAndReport
    <3>1. parser \notin Gone /\ parser' = "swap" /\ data' = data
      BY <2>5 DEF DrainAndReport, Gone
    <3> QED
      BY <2>1, <2>2, <2>5, <3>1, DrainBytes DEF Contiguous, Fresh, Gone
  <2>6. CASE ParsePanics \/ ParserPanics
    <3>1. parser' = "panicked"
      BY <2>6 DEF ParsePanics, ParserPanics, ParserEnds
    <3> QED
      BY <2>1, <3>1 DEF Contiguous, Fresh, Gone
  <2>7. CASE ParserFinishes
    <3>1. parser = "recv" /\ parser' = "done" /\ data.q = << >> /\ data.tx = "dropped"
          /\ UNCHANGED <<processed, loop_buffer, BufferEnd>>
      BY <2>7 DEF ParserFinishes, ParserEnds, Disconnected, BufferEnd
    <3>2. fetcher \in Gone /\ fetched = BufferEnd
      BY <3>1 DEF Ownership, Contiguous, Chain, Gone
    <3> QED
      BY <2>1, <2>2, <3>1, <3>2 DEF Contiguous, Fresh, Gone
  <2> QED
    BY <1>2, <2>3, <2>4, <2>5, <2>6, <2>7 DEF ParserStep, ParserNext
<1>3. ASSUME UNCHANGED <<dump, fetcher, fetched, parser, loop_buffer, processed, needed, remaining, data>>
      PROVE  Fetching' /\ Contiguous' /\ Fresh'
  BY <1>3 DEF Fetching, Contiguous, Fresh, BufferEnd
<1>4. ASSUME RecorderStep PROVE Fetching' /\ Contiguous' /\ Fresh'
  BY <1>3, <1>4 DEF RecorderStep, RecorderNext, ReceiveBatch, RecordBatch, StartRendering, SendResult,
                    RenderPanics, RecorderDrops
<1>5. ASSUME NEW how, Return(how) PROVE Fetching' /\ Contiguous' /\ Fresh'
  <2>1. /\ UNCHANGED <<dump, fetched, loop_buffer, processed, needed, remaining, BufferEnd>>
        /\ fetcher' = Lost(fetcher) /\ parser' = Lost(parser)
    BY <1>5 DEF Return, BufferEnd
  <2>2. parser # "unborn" => data' = data /\ fetcher' = fetcher /\ parser' = parser
    BY <1>5, <2>1 DEF Return, Lifecycle, LoseSender, LoseReceiver, Lost
  <2>3. parser = "unborn" => parser' = "dropped"
    BY <2>1 DEF Lost
  <2>4. fetcher' = fetcher \/ fetcher' = "dropped"
    BY <2>1 DEF Lost
  <2> QED
    BY <2>1, <2>2, <2>3, <2>4 DEF Fetching, Contiguous, Fresh, Gone
<1>6. ASSUME MainNext PROVE Fetching' /\ Contiguous' /\ Fresh'
  <2>1. CASE RejectHeader \/ OpenFails \/ SpawnFails \/ NoResult \/ JoinLast \/ JoinFails
    BY <2>1, <1>5 DEF RejectHeader, OpenFails, SpawnFails, NoResult, JoinLast, JoinFails
  <2>2. CASE SpawnPrefetch
    <3>1. fetcher = "unborn" /\ FileHeaderLength <= dump.len
      BY <2>2, <1>0 DEF SpawnPrefetch, Lifecycle, HeaderRead, WellFormedRecords
    <3> QED
      BY <2>2, <3>1 DEF SpawnPrefetch, Fetching, Contiguous, Fresh, BufferEnd, Gone
  <2>3. CASE SpawnParser
    <3>1. parser = "unborn" /\ parser' = "recv"
      BY <2>3 DEF SpawnParser, Lifecycle
    <3> QED
      BY <2>3, <3>1 DEF SpawnParser, Fetching, Contiguous, Fresh, BufferEnd, Gone
  <2>4. CASE ReadHeader \/ SpawnRecorder \/ ShowProgress \/ FinishProgress \/ ReceiveResult \/ JoinNext
    BY <2>4, <1>3 DEF ReadHeader, SpawnRecorder, ShowProgress, FinishProgress, ReceiveResult, JoinNext
  <2> QED
    BY <1>6, <2>1, <2>2, <2>3, <2>4 DEF MainNext
<1>7. CASE UNCHANGED vars
  BY <1>7, <1>3 DEF vars
<1> QED
  BY <1>1, <1>2, <1>4, <1>6, <1>7 DEF Next, Terminated

-----------------------------------------------------------------------------
(***************************************************************************)
(* Records: the vectors on their way to the recorder.                      *)
(***************************************************************************)
\* The channel of pooled vectors after each operation.
LEMMA FieldsOfVecs ==
  ASSUME TypeOKChannels
  PROVE  /\ vecs.q \in Seq(Seq(Nat))
         /\ Taken(vecs).q = Tail(vecs.q)
         /\ \A m : Sent(vecs, m).q = Append(vecs.q, m)
         /\ \A m : SentOrLost(vecs, m).q = vecs.q \/ SentOrLost(vecs, m).q = Append(vecs.q, m)
         /\ DropSender(vecs).q = vecs.q
         /\ DropReceiver(vecs).q = << >>
<1>1. vecs \in Channels(Seq(Nat))
  BY DEF TypeOKChannels
<1>2. vecs.q \in Seq(Seq(Nat))
  BY <1>1, ChannelType
<1>3. /\ Taken(vecs).q = Tail(vecs.q) /\ \A m : Sent(vecs, m).q = Append(vecs.q, m)
      /\ DropSender(vecs).q = vecs.q /\ DropReceiver(vecs).q = << >>
  BY <1>1, ChannelFields
<1>4. \A m : SentOrLost(vecs, m) = vecs \/ SentOrLost(vecs, m) = Sent(vecs, m)
  BY DEF SentOrLost
<1> QED
  BY <1>2, <1>3, <1>4

\* Sequences with at most one element.
LEMMA ShortSeq ==
  ASSUME NEW S, NEW q \in Seq(S)
  PROVE  /\ Len(q) \in Nat
         /\ q = << >> <=> Len(q) = 0
         /\ q # << >> => q[1] \in S /\ Head(q) = q[1] /\ Len(q) >= 1
         /\ Len(q) = 1 => Tail(q) = << >>
         /\ \A m \in S : q = << >> => /\ Append(q, m) \in Seq(S) /\ Len(Append(q, m)) = 1
                                    /\ Append(q, m)[1] = m
<1>1. Len(q) \in Nat /\ (q = << >> <=> Len(q) = 0)
  BY EmptySeq
<1>2. q # << >> => q[1] \in S /\ Head(q) = q[1] /\ Len(q) >= 1
  BY <1>1, ElementOfSeq
<1>3. Len(q) = 1 => Tail(q) = << >>
  <2>1. Len(q) = 1 => Tail(q) \in Seq(S) /\ Len(Tail(q)) = 0
    BY <1>1, HeadTailProperties
  <2> QED
    BY <2>1, EmptySeq
<1>4. \A m \in S : /\ Append(q, m) \in Seq(S) /\ Len(Append(q, m)) = Len(q) + 1
                  /\ Append(q, m)[Len(q) + 1] = m
  BY AppendProperties
<1> QED
  BY <1>1, <1>2, <1>3, <1>4

\* The counts of records are numbers, each at least the one before it.
LEMMA Counts ==
  ASSUME TypeInv
  PROVE  /\ Recorded \in Nat /\ Taking \in Nat /\ Sending \in Nat /\ Pushed \in Nat
         /\ Recorded <= Taking /\ Taking <= Sending /\ Sending <= Pushed
         /\ Taking = Recorded + Len(batch) /\ Pushed = Sending + Len(pooled_vec)
         /\ records.q = << >> => Sending = Taking
         /\ records.q # << >> => /\ records.q[1] \in Seq(Nat)
                                 /\ Sending = Taking + Len(records.q[1])
<1>1. /\ Len(recorded) \in Nat /\ Len(batch) \in Nat /\ Len(pooled_vec) \in Nat
      /\ TypeOKChannels
  BY DEF TypeInv, TypeOK, TypeOKRecorder, TypeOKParser
<1>2. records.q \in Seq(Seq(Nat))
  BY <1>1, FieldsOfRecords
<1>3. records.q # << >> => records.q[1] \in Seq(Nat) /\ Len(records.q[1]) \in Nat
  <2>1. records.q # << >> => 1 \in 1..Len(records.q)
    BY <1>2, EmptySeq
  <2>2. records.q # << >> => records.q[1] \in Seq(Nat)
    BY <1>2, <2>1, ElementOfSeq
  <2> QED
    BY <2>2
<1>4. Recorded \in Nat /\ Taking \in Nat /\ Recorded <= Taking /\ Taking = Recorded + Len(batch)
  BY <1>1 DEF Recorded, Taking
<1>5. /\ Sending \in Nat /\ Taking <= Sending
      /\ records.q = << >> => Sending = Taking
      /\ records.q # << >> => Sending = Taking + Len(records.q[1])
  <2>1. CASE records.q = << >>
    <3>1. Sending = Taking + 0
      BY <2>1 DEF Sending
    <3> QED
      BY <2>1, <3>1, <1>4
  <2>2. CASE records.q # << >>
    <3> DEFINE l == Len(records.q[1])
    <3>1. Sending = Taking + l
      BY <2>2 DEF Sending
    <3>2. l \in Nat
      BY <2>2, <1>3
    <3> HIDE DEF l
    <3>3. Sending \in Nat /\ Taking <= Sending
      BY <3>1, <3>2, <1>4
    <3> QED
      BY <2>2, <3>1, <3>3 DEF l
  <2> QED
    BY <2>1, <2>2
<1>6. Pushed \in Nat /\ Sending <= Pushed /\ Pushed = Sending + Len(pooled_vec)
  BY <1>1, <1>5 DEF Pushed
<1> QED
  BY <1>3, <1>4, <1>5, <1>6

\* Only one vector is under way, so the recorder takes records in order.
LEMMA ReceiveBatchOrder ==
  ASSUME TypeInv, recorder # "dropped", Order, Vectors, ReceiveBatch, UNCHANGED <<parser, pooled_vec, main>>
  PROVE  Order' /\ Vectors' /\ Pushed' = Pushed
<1>0. TypeOKChannels /\ recorded \in Seq(Nat) /\ pooled_vec \in Seq(Nat) /\ recorder = "recv"
      /\ recorder' = "recording" /\ recorded' = recorded /\ vecs' = vecs
      /\ UNCHANGED <<parser, pooled_vec, main>>
  BY DEF TypeInv, TypeOK, TypeOKRecorder, TypeOKParser, ReceiveBatch
<1>1. records.q \in Seq(Seq(Nat)) /\ vecs.q \in Seq(Seq(Nat)) /\ records.q # << >>
  BY <1>0, FieldsOfRecords, FieldsOfVecs DEF ReceiveBatch, Ready
<1>2. Len(records.q) = 1 /\ vecs.q = << >> /\ batch = << >>
  <2> DEFINE sent == Len(records.q)
             spare == Len(vecs.q)
  <2>1. spare + sent + 0 <= 1 /\ batch = << >>
    BY <1>0 DEF Vectors
  <2>2. sent \in Nat /\ sent >= 1
    BY <1>1, ShortSeq
  <2>3. spare \in Nat
    BY <1>1, ShortSeq
  <2> HIDE DEF sent, spare
  <2>4. sent = 1 /\ spare = 0
    BY <2>1, <2>2, <2>3
  <2> QED
    BY <1>1, <2>1, <2>4, ShortSeq, Zenon DEF sent, spare
<1>3. batch' = records.q[1] /\ records'.q = << >>
  <2>1. batch' = Head(records.q) /\ records'.q = Tail(records.q)
    BY <1>0, FieldsOfRecords DEF ReceiveBatch
  <2>2. Head(records.q) = records.q[1] /\ Tail(records.q) = << >>
    BY <1>1, <1>2, ShortSeq
  <2> QED
    BY <2>1, <2>2
<1>4. /\ Recorded' = Recorded /\ Taking = Recorded /\ Taking' = Sending /\ Sending' = Sending
      /\ Pushed' = Pushed /\ Sending \in Nat
  <2>1. Recorded' = Len(recorded') /\ Taking' = Recorded' + Len(batch')
        /\ Sending' = Taking' + (IF records'.q = << >> THEN 0 ELSE Len(records'.q[1]))
        /\ Pushed' = Sending' + Len(pooled_vec')
    BY DEF Recorded, Taking, Sending, Pushed
  <2>2. Recorded = Len(recorded)
    BY DEF Recorded
  <2>3. Len(<< >>) = 0
    OBVIOUS
  <2>4. /\ Recorded \in Nat /\ Sending \in Nat /\ Pushed = Sending + Len(pooled_vec)
        /\ Taking = Recorded + Len(batch) /\ Sending = Taking + Len(records.q[1])
    BY <1>1, Counts
  <2>5. Taking = Recorded /\ Recorded' = Recorded
    BY <1>0, <1>2, <2>1, <2>2, <2>3, <2>4
  <2>6. Taking' = Sending
    BY <1>3, <2>1, <2>4, <2>5
  <2>7. Sending' = Sending
    <3>1. Sending' = Taking' + 0
      BY <1>3, <2>1
    <3> QED
      BY <2>4, <2>6, <3>1
  <2> QED
    BY <1>0, <2>1, <2>4, <2>5, <2>6, <2>7
<1>5. Order'
  BY <1>0, <1>1, <1>3, <1>4 DEF Order
<1>6. Vectors'
  <2>1. Len(vecs.q) = 0 /\ Len(records'.q) = 0
    BY <1>2, <1>3
  <2> QED
    BY <1>0, <1>3, <2>1 DEF Vectors
<1> QED
  BY <1>4, <1>5, <1>6

\* record_records takes over the whole vector and gives an empty one back.
LEMMA RecordBatchOrder ==
  ASSUME TypeInv, Lifecycle, recorder # "dropped", Order, Vectors, RecordBatch, UNCHANGED <<parser, pooled_vec, main>>
  PROVE  Order' /\ Vectors' /\ Pushed' = Pushed /\ Recorded' = Taking
<1>0. TypeOKChannels /\ recorded \in Seq(Nat) /\ batch \in Seq(Nat) /\ pooled_vec \in Seq(Nat)
      /\ recorder = "recording" /\ recorder' = "recv" /\ records' = records
      /\ recorded' = recorded \o batch /\ batch' = << >>
      /\ UNCHANGED <<parser, pooled_vec, main>>
  BY DEF TypeInv, TypeOK, TypeOKRecorder, TypeOKParser, RecordBatch
<1>1. records.q \in Seq(Seq(Nat)) /\ vecs.q \in Seq(Seq(Nat))
  BY <1>0, FieldsOfRecords, FieldsOfVecs
<1>2. records.q = << >> /\ vecs.q = << >>
  <2> DEFINE sent == Len(records.q)
             spare == Len(vecs.q)
  <2>1. spare + sent + 1 <= 1
    BY <1>0 DEF Vectors
  <2>2. sent \in Nat /\ spare \in Nat
    BY <1>1, ShortSeq
  <2> HIDE DEF sent, spare
  <2>3. sent = 0 /\ spare = 0
    BY <2>1, <2>2
  <2> QED
    BY <1>1, <2>3, ShortSeq, Zenon DEF sent, spare
<1>3. vecs'.q = << >> \/ vecs'.q = << << >> >>
  <2>1. vecs'.q = vecs.q \/ vecs'.q = Append(vecs.q, << >>)
    BY <1>0, FieldsOfVecs DEF RecordBatch
  <2> QED
    BY <1>2, <2>1
<1>4. recorded' = Span(0, Taking)
  <2>1. recorded = Span(0, Recorded) /\ batch = Span(Recorded, Taking)
    BY DEF Order
  <2>2. Recorded \in Nat /\ Taking \in Nat /\ 0 \in Nat /\ 0 <= Recorded /\ Recorded <= Taking
    BY Counts
  <2>3. Span(0, Recorded) \o Span(Recorded, Taking) = Span(0, Taking)
    BY <2>2, SpanConcat
  <2> QED
    BY <1>0, <2>1, <2>3, Zenon
<1>5. Recorded' = Taking /\ Taking' = Taking /\ Sending' = Sending /\ Pushed' = Pushed /\ Taking \in Nat
      /\ Taking = Sending
  <2>1. Recorded' = Len(recorded') /\ Taking' = Recorded' + Len(batch')
        /\ Sending' = Taking' + (IF records'.q = << >> THEN 0 ELSE Len(records'.q[1]))
        /\ Pushed' = Sending' + Len(pooled_vec')
    BY DEF Recorded, Taking, Sending, Pushed
  <2>2. Len(recorded') = Taking
    <3>1. Taking \in Nat /\ 0 <= Taking
      BY Counts
    <3> QED
      BY <1>4, <3>1, SpanType
  <2>3. Len(<< >>) = 0
    OBVIOUS
  <2> QED
    BY <1>0, <1>2, <2>1, <2>2, <2>3, Counts
<1>6. Order'
  <2>1. Span(Taking, Taking) = << >>
    BY <1>5, SpanEmpty
  <2> QED
    BY <1>0, <1>2, <1>4, <1>5, <2>1 DEF Order
<1>7. Vectors'
  <2>1. Len(vecs'.q) + Len(records'.q) <= 1 /\ \A i \in 1..Len(vecs'.q) : vecs'.q[i] = << >>
    <3>1. /\ Len(<< >>) = 0 /\ Len(<< << >> >>) = 1 /\ << << >> >>[1] = << >>
      OBVIOUS
    <3>2. Len(records'.q) = 0
      BY <1>0, <1>2, <3>1
    <3>3. CASE vecs'.q = << >>
      BY <3>1, <3>2, <3>3
    <3>4. CASE vecs'.q = << << >> >>
      BY <3>1, <3>2, <3>4
    <3> QED
      BY <1>3, <3>3, <3>4
  <2>2. main' \notin {"open", "spawn_prefetch"} /\ parser' # "unborn"
    BY <1>0 DEF Lifecycle
  <2> QED
    BY <1>0, <1>2, <2>1, <2>2 DEF Vectors
<1> QED
  BY <1>5, <1>6, <1>7

\* The vector of a round takes the place of the spare vector.
LEMMA SwapOrder ==
  ASSUME TypeInv, recorder # "dropped", Order, Vectors, SwapAndSend,
         UNCHANGED <<recorder, batch, recorded, main>>
  PROVE  Order' /\ Vectors' /\ Pushed' = Pushed /\ pooled_vec' = << >>
<1>0. TypeOKChannels /\ recorded \in Seq(Nat) /\ batch \in Seq(Nat) /\ pooled_vec \in Seq(Nat)
      /\ parser = "swap" /\ parser' = "recv" /\ UNCHANGED <<recorder, batch, recorded, main>>
  BY DEF TypeInv, TypeOK, TypeOKRecorder, TypeOKParser, SwapAndSend
<1>1. records.q \in Seq(Seq(Nat)) /\ vecs.q \in Seq(Seq(Nat)) /\ vecs.q # << >>
  BY <1>0, FieldsOfRecords, FieldsOfVecs DEF SwapAndSend, Ready
<1>2. records.q = << >> /\ Len(vecs.q) = 1 /\ recorder # "recording"
  <2> DEFINE sent == Len(records.q)
             spare == Len(vecs.q)
             busy == IF recorder = "recording" THEN 1 ELSE 0
  <2>1. spare + sent + busy <= 1
    BY DEF Vectors
  <2>2. sent \in Nat
    BY <1>1, ShortSeq
  <2>3. spare \in Nat /\ spare >= 1
    BY <1>1, ShortSeq
  <2>4. busy \in Nat /\ (busy = 0 => recorder # "recording")
    OBVIOUS
  <2> HIDE DEF sent, spare, busy
  <2>5. sent = 0 /\ spare = 1 /\ busy = 0
    BY <2>1, <2>2, <2>3, <2>4
  <2>6. sent = 0 => records.q = << >>
    BY <1>1, ShortSeq DEF sent
  <2> QED
    BY <2>4, <2>5, <2>6 DEF spare
<1>3. pooled_vec' = << >> /\ vecs'.q = << >>
  <2>1. pooled_vec' = Head(vecs.q) /\ vecs'.q = Tail(vecs.q)
    BY <1>0, FieldsOfVecs DEF SwapAndSend
  <2>2. Head(vecs.q) = vecs.q[1] /\ Tail(vecs.q) = << >>
    BY <1>1, <1>2, ShortSeq
  <2>3. vecs.q[1] = << >>
    BY <1>2 DEF Vectors
  <2> QED
    BY <2>1, <2>2, <2>3
<1>4. records'.q # << >> /\ Len(records'.q) = 1 /\ records'.q[1] = pooled_vec
  <2>1. records'.q = Append(records.q, pooled_vec)
    BY <1>0, FieldsOfRecords DEF SwapAndSend
  <2>2. /\ Append(records.q, pooled_vec) \in Seq(Seq(Nat))
        /\ Len(Append(records.q, pooled_vec)) = 1 /\ Append(records.q, pooled_vec)[1] = pooled_vec
    BY <1>0, <1>1, <1>2, ShortSeq
  <2>3. records'.q \in Seq(Seq(Nat)) /\ Len(records'.q) = 1 /\ records'.q[1] = pooled_vec
    BY <2>1, <2>2
  <2> QED
    BY <2>3, ShortSeq
<1>5. batch = << >>
  BY <1>2 DEF Vectors
<1>6. /\ Recorded' = Recorded /\ Taking' = Taking /\ Sending = Taking /\ Sending' = Pushed
      /\ Pushed' = Pushed /\ Pushed \in Nat
  <2>1. Recorded' = Recorded /\ Taking' = Taking
    BY <1>0 DEF Recorded, Taking
  <2>2. Taking \in Nat /\ Sending = Taking /\ Pushed = Sending + Len(pooled_vec) /\ Pushed \in Nat
    BY <1>2, Counts
  <2>3. Sending' = Taking' + Len(records'.q[1])
    BY <1>4 DEF Sending
  <2>4. Sending' = Pushed
    BY <1>4, <2>1, <2>2, <2>3
  <2>5. Pushed' = Sending' + Len(pooled_vec')
    BY DEF Pushed
  <2>6. Len(<< >>) = 0
    OBVIOUS
  <2> QED
    BY <1>3, <2>1, <2>2, <2>4, <2>5, <2>6
<1>7. Order'
  <2>1. Span(Pushed, Pushed) = << >>
    BY <1>6, SpanEmpty
  <2> QED
    BY <1>0, <1>3, <1>4, <1>6, <2>1 DEF Order
<1>8. Vectors'
  <2>1. Len(vecs'.q) = 0 /\ Len(records'.q) = 1
    BY <1>3, <1>4
  <2>2. recorder' \notin {"recording", "rendering", "done", "panicked"}
    BY <1>0, <1>2 DEF Vectors, Gone
  <2> QED
    BY <1>0, <1>3, <1>5, <2>1, <2>2 DEF Vectors
<1> QED
  BY <1>3, <1>6, <1>7, <1>8

\* The record behind those pushed is pushed.
LEMMA PushOrder ==
  ASSUME TypeInv, recorder # "dropped", Order, Vectors,
         pooled_vec' = Append(pooled_vec, Pushed + 1), parser \notin Gone, parser' # "unborn",
         UNCHANGED <<records, vecs, recorder, batch, recorded, main>>
  PROVE  Order' /\ Vectors' /\ Pushed' = Pushed + 1
<1>0. pooled_vec \in Seq(Nat)
  BY DEF TypeInv, TypeOK, TypeOKParser
<1>1. Recorded' = Recorded /\ Taking' = Taking /\ Sending' = Sending
  BY DEF Recorded, Taking, Sending
<1>2. Sending \in Nat /\ Pushed \in Nat /\ Sending <= Pushed /\ Pushed = Sending + Len(pooled_vec)
  BY Counts
<1>3. Len(pooled_vec') = Len(pooled_vec) + 1
  BY <1>0, <1>2
<1>4. Pushed' = Pushed + 1
  <2>1. Pushed' = Sending' + Len(pooled_vec')
    BY DEF Pushed
  <2> QED
    BY <1>0, <1>1, <1>2, <1>3, <2>1
<1>5. pooled_vec' = Span(Sending, Pushed + 1)
  BY <1>2, SpanAppend DEF Order
<1>6. Order'
  BY <1>1, <1>4, <1>5 DEF Order
<1>7. Vectors'
  BY DEF Vectors
<1> QED
  BY <1>4, <1>6, <1>7

\* Nothing else touches the records: they stay where they are.
LEMMA SameOrder ==
  ASSUME TypeInv, recorder # "dropped", Order, Vectors,
         UNCHANGED <<recorded, batch, pooled_vec>>,
         records'.q = records.q, vecs'.q = vecs.q \/ vecs'.q = << >>,
         parser \in Gone => parser' \in Gone,
         parser' = "unborn" => parser = "unborn",
         main' \in {"open", "spawn_prefetch"} => main \in {"open", "spawn_prefetch"},
         \/ recorder' = recorder
         \/ recorder = "unborn" /\ recorder' = "recv"
         \/ /\ recorder \in {"recv", "rendering"}
            /\ recorder' \in {"rendering", "done", "panicked"}
            /\ parser' \in Gone /\ records.q = << >>
  PROVE  Order' /\ Vectors' /\ Pushed' = Pushed
<1>1. Recorded' = Recorded /\ Taking' = Taking /\ Sending' = Sending /\ Pushed' = Pushed
  BY DEF Recorded, Taking, Sending, Pushed
<1>2. Order'
  BY <1>1 DEF Order
<1>3. Vectors'
  <2>0. TypeOKChannels
    BY DEF TypeInv, TypeOK
  <2> DEFINE spare == Len(vecs.q)
             spare2 == Len(vecs'.q)
             sent == Len(records.q)
             busy == IF recorder = "recording" THEN 1 ELSE 0
             busy2 == IF recorder' = "recording" THEN 1 ELSE 0
  <2>1. spare + sent + busy <= 1
    BY DEF Vectors
  <2>2. spare \in Nat /\ sent \in Nat
    BY <2>0, FieldsOfVecs, FieldsOfRecords, ShortSeq
  <2>3. spare2 = spare \/ spare2 = 0
    OBVIOUS
  <2>4. busy2 = busy /\ busy \in Nat
    OBVIOUS
  <2> HIDE DEF spare, spare2, sent, busy, busy2
  <2>5. spare2 + sent + busy2 <= 1
    BY <2>1, <2>2, <2>3, <2>4
  <2>6. Len(vecs'.q) + Len(records'.q) + (IF recorder' = "recording" THEN 1 ELSE 0) <= 1
    BY <2>5 DEF spare2, sent, busy2
  <2>7. \A i \in 1..Len(vecs'.q) : vecs'.q[i] = << >>
    <3>1. CASE vecs'.q = vecs.q
      BY <3>1 DEF Vectors
    <3>2. CASE vecs'.q = << >>
      <4>1. 1..Len(vecs'.q) = {}
        BY <3>2
      <4> QED
        BY <4>1
    <3> QED
      BY <3>1, <3>2
  <2>8. /\ recorder' # "recording" => batch' = << >>
        /\ recorder' = "unborn" => recorded' = << >>
        /\ recorder' \in {"rendering", "done", "panicked"} => parser' \in Gone /\ records'.q = << >>
        /\ parser' = "unborn" => records'.q = << >> /\ pooled_vec' = << >>
        /\ main' \in {"open", "spawn_prefetch"} => vecs'.q = << >>
    BY DEF Vectors
  <2> QED
    BY <2>6, <2>7, <2>8 DEF Vectors
<1> QED
  BY <1>1, <1>2, <1>3

-----------------------------------------------------------------------------
(***************************************************************************)
(* Where the parser is in the file.                                        *)
(***************************************************************************)

\* Different records start at different bytes.
LEMMA StartsDiffer ==
  ASSUME NEW d, WellFormedRecords(d), NEW i \in 1..(d.n + 1), NEW j \in 1..(d.n + 1)
  PROVE  /\ d.start[i] \in Nat
         /\ d.start[i] = d.start[j] => i = j
         /\ i < j => d.start[i] < d.start[j]
<1>1. d.n \in Nat /\ i \in Nat /\ j \in Nat
  BY DEF WellFormedRecords
<1>2. d.start[i] \in Nat /\ d.start[j] \in Nat
  BY DEF WellFormedRecords
<1>3. (i < j => d.start[i] < d.start[j]) /\ (j < i => d.start[j] < d.start[i])
  BY DEF WellFormedRecords
<1> QED
  BY <1>1, <1>2, <1>3

\* The input of the record parser starts at the record behind those pushed.
LEMMA AtNext ==
  ASSUME TypeInv, WellFormedRecords(dump), Pushed <= dump.n, dump.start[Pushed + 1] <= BufferEnd,
         rest = Span(dump.start[Pushed + 1], BufferEnd), NEW i \in 1..dump.n, AtRecord(i)
  PROVE  /\ i = Pushed + 1 /\ Pushed < dump.n
         /\ Len(rest) = BufferEnd - dump.start[i]
<1> DEFINE p == Pushed + 1
<1>1. Pushed \in Nat /\ dump.n \in Nat /\ p \in 1..(dump.n + 1) /\ i \in 1..(dump.n + 1) /\ i \in Nat
  <2>1. dump.n \in Nat
    BY DEF WellFormedRecords
  <2>2. Pushed \in Nat
    BY Counts
  <2> QED
    BY <2>1, <2>2
<1> HIDE DEF p
<1>2. dump.start[p] \in Nat /\ dump.start[i] \in Nat /\ BufferEnd \in Nat
  <2>1. dump.start[p] \in Nat /\ dump.start[i] \in Nat
    BY <1>1, StartsDiffer
  <2>2. BufferEnd \in Nat
    BY DEF TypeInv, TypeOK, TypeOKParser, BufferEnd
  <2> QED
    BY <2>1, <2>2
<1>3. /\ Len(rest) = BufferEnd - dump.start[p]
      /\ \A k \in 1..(BufferEnd - dump.start[p]) : rest[k] = dump.start[p] + k
  BY <1>2, SpanType DEF p
<1>4. rest # << >> /\ rest[1] = dump.start[i] + 1
  BY DEF AtRecord
<1>5. Len(rest) # 0 /\ Len(rest) \in Nat
  BY <1>4, EmptySeq DEF TypeInv, TypeOK, TypeOKParser
<1>6. rest[1] = dump.start[p] + 1
  BY <1>2, <1>3, <1>5
<1>7. dump.start[p] = dump.start[i]
  BY <1>2, <1>4, <1>6
<1>8. p = i
  BY <1>1, <1>7, StartsDiffer
<1> QED
  BY <1>1, <1>3, <1>8 DEF p

\* heap_dump_remaining_len follows the records.
LEMMA RemainingFollows ==
  ASSUME WellFormedRecords(dump), NEW i \in 1..dump.n, dump.kind[i] # "unreadable",
         remaining = dump.rem[i]
  PROVE  RemainingAfter(i) = dump.rem[i + 1]
<1>1. /\ Size(dump, i) \in Nat /\ dump.rem[i] \in Nat /\ dump.rem[i + 1] \in Nat
  BY RecordBounds
<1>2. dump.kind[i] \in {"top", "segment", "gc"}
  BY DEF WellFormedRecords, Kinds
<1>3. CASE dump.kind[i] = "top"
  BY <1>3 DEF WellFormedRecords, RemainingAfter
<1>4. CASE dump.kind[i] = "segment"
  BY <1>4 DEF WellFormedRecords, RemainingAfter
<1>5. CASE dump.kind[i] = "gc"
  <2>1. /\ Size(dump, i) < U32
        /\ dump.rem[i + 1] = IF Size(dump, i) < dump.rem[i] THEN dump.rem[i] - Size(dump, i) ELSE 0
    BY <1>5 DEF WellFormedRecords
  <2>2. Size(dump, i) % U32 = Size(dump, i)
    BY <1>1, <2>1, Remainder, DumpAssumption
  <2>3. RemainingAfter(i) = SaturatingSub(remaining, Size(dump, i))
    BY <1>5, <2>2 DEF RemainingAfter
  <2> QED
    BY <2>1, <2>3 DEF SaturatingSub
<1> QED
  BY <1>2, <1>3, <1>4, <1>5

\* parse_hprof_record returns the next record of the file and leaves the parser behind it.
LEMMA ParsePosition ==
  ASSUME TypeInv, WellFormedRecords(dump), recorder # "dropped", Order, Vectors, Position, WithinFile,
         BufferEnd <= dump.len, ParseRecord, UNCHANGED <<recorder, batch, recorded, main>>
  PROVE  Order' /\ Vectors' /\ Position' /\ WithinFile'
<1>0. /\ parser \in {"first", "more"} /\ parser' = "more" /\ parser \notin Gone
      /\ UNCHANGED <<dump, records, vecs, loop_buffer, processed, BufferEnd>>
      /\ BufferEnd \in Nat /\ processed \in Nat /\ Pushed \in Nat /\ rest \in Seq(Nat)
  BY Counts, SMTT(30) DEF ParseRecord, Gone, input, BufferEnd, TypeInv, TypeOK, TypeOKParser
<1>1. PICK i \in 1..dump.n : /\ AtRecord(i) /\ InTable(i) /\ Complete(i)
                             /\ dump.kind[i] # "unreadable"
                             /\ pooled_vec' = Append(pooled_vec, i)
                             /\ rest' = SubSeq(rest, Size(dump, i) + 1, Len(rest))
                             /\ remaining' = RemainingAfter(i)
  BY DEF ParseRecord
<1>2. /\ Pushed <= dump.n /\ remaining = dump.rem[Pushed + 1] /\ processed <= dump.start[Pushed + 1]
      /\ dump.start[Pushed + 1] <= BufferEnd /\ rest = Span(dump.start[Pushed + 1], BufferEnd)
  BY <1>0 DEF Position
<1>3. i = Pushed + 1 /\ Pushed < dump.n /\ Len(rest) = BufferEnd - dump.start[i]
  BY <1>1, <1>2, AtNext
<1>4. /\ dump.start[i] \in Nat /\ dump.start[i + 1] \in Nat /\ dump.start[i] < dump.start[i + 1]
      /\ Size(dump, i) \in Nat /\ Size(dump, i) = dump.start[i + 1] - dump.start[i] /\ i \in Nat
      /\ dump.n \in Nat
  BY RecordBounds DEF WellFormedRecords
<1>5. dump.start[i + 1] <= BufferEnd
  <2>1. Size(dump, i) <= Len(rest)
    BY <1>1 DEF Complete
  <2> QED
    BY <1>0, <1>3, <1>4, <2>1, SMTT(30)
<1>6. remaining' = dump.rem[i + 1]
  BY <1>1, <1>2, <1>3, RemainingFollows
<1>7. rest' = Span(dump.start[i + 1], BufferEnd)
  <2> DEFINE a == dump.start[i]
             k == Size(dump, i)
             b == BufferEnd
  <2>1. a \in Nat /\ b \in Nat /\ k \in Nat /\ a + k <= b /\ a + k = dump.start[i + 1]
    BY <1>0, <1>4, <1>5
  <2>2. SubSeq(Span(a, b), k + 1, b - a) = Span(a + k, b)
    <3> HIDE DEF a, b, k
    <3> QED
      BY <2>1, SpanSuffix, Zenon
  <2>3. rest = Span(a, b) /\ Len(rest) = b - a /\ rest' = SubSeq(rest, k + 1, Len(rest))
    BY <1>1, <1>2, <1>3
  <2> HIDE DEF a, b, k
  <2>4. rest' = Span(a + k, b)
    BY <2>2, <2>3, Zenon
  <2> QED
    BY <2>1, <2>4 DEF b
<1>8. Order' /\ Vectors' /\ Pushed' = Pushed + 1
  BY <1>0, <1>1, <1>3, PushOrder
<1>9. Position'
  <2>1. /\ Pushed' = i /\ dump' = dump /\ processed' = processed /\ BufferEnd' = BufferEnd
        /\ parser' = "more"
    BY <1>0, <1>3, <1>8
  <2>2. processed <= dump.start[i + 1] /\ i <= dump.n
    BY <1>0, <1>2, <1>3, <1>4, SMTT(30)
  <2> QED
    BY <2>1, <2>2, <1>5, <1>6, <1>7 DEF Position
<1>10. WithinFile'
  <2>1. i <= WholeRecords(dump)
    <3>1. dump.len \in Nat
      BY DEF WellFormedRecords
    <3>2. CASE i = dump.n
      <4>1. ~(dump.len < dump.start[dump.n + 1])
        BY <3>1, <3>2, <1>0, <1>4, <1>5
      <4> QED
        BY <3>2, <4>1, <1>4 DEF WholeRecords
    <3>3. CASE i < dump.n
      BY <3>3, <1>4 DEF WholeRecords
    <3> QED
      BY <3>2, <3>3, <1>4
  <2> QED
    BY <1>0, <1>3, <1>8, <2>1 DEF WithinFile
<1> QED
  BY <1>8, <1>9, <1>10

\* The pre-fetcher is ahead of the parser and within the file.
LEMMA ReceivedInFile ==
  ASSUME TypeInv, Lifecycle, Fetching, Contiguous, parser \notin Gone, parser # "unborn"
  PROVE  fetched <= dump.len /\ fetched \in Nat /\ BufferEnd <= dump.len
<1>1. fetched <= dump.len
  BY DEF Lifecycle, Fetching, Gone
<1>2. /\ TypeOKChannels /\ fetched \in Nat /\ BufferEnd \in Nat /\ dump.len \in Nat
      /\ Chain(data.q, BufferEnd, fetched)
  BY DumpFacts DEF TypeInv, TypeOK, TypeOKChannels, TypeOKFetcher, TypeOKParser, BufferEnd, Contiguous
<1>3. data.q \in Seq(Chunks)
  BY <1>2, FieldsOfData
<1>4. BufferEnd <= fetched
  <2>1. CASE data.q = << >>
    BY <2>1, <1>2 DEF Chain
  <2>2. CASE data.q # << >>
    <3>1. Head(data.q).hi \in Nat /\ BufferEnd <= Head(data.q).hi /\ Head(data.q).hi <= fetched
      BY <2>2, <1>2, <1>3, ChainTake
    <3> QED
      BY <3>1, <1>2
  <2> QED
    BY <2>1, <2>2
<1> QED
  BY <1>1, <1>2, <1>4

\* The parser is where it was.
LEMMA SamePosition ==
  ASSUME Position, WithinFile, recorder # "dropped", Pushed' = Pushed,
         UNCHANGED <<dump, parser, loop_buffer, rest, pooled_vec, needed, remaining, processed>>
  PROVE  Position' /\ WithinFile'
<1>1. BufferEnd' = BufferEnd
  BY DEF BufferEnd
<1> QED
  BY <1>1 DEF Position, WithinFile

\* A chunk moves the end of the buffer; if the parser was told how much it needs and
\* has less, it is still short of the record.
LEMMA ReceivePosition ==
  ASSUME TypeInv, WellFormedRecords(dump), recorder # "dropped", Contiguous, Position, WithinFile,
         ReceiveChunk, Pushed' = Pushed
  PROVE  Position' /\ WithinFile'
<1>0. /\ parser = "recv" /\ parser \notin Gone
      /\ UNCHANGED <<dump, pooled_vec, needed, remaining, processed>>
      /\ processed \in Nat /\ needed \in Nat /\ Pushed \in Nat
  BY Counts DEF ReceiveChunk, input, TypeInv, TypeOK, TypeOKParser, Gone
<1>1. /\ loop_buffer' = Span(processed', BufferEnd') /\ BufferEnd' \in Nat /\ BufferEnd <= BufferEnd'
      /\ BufferEnd \in Nat
  BY <1>0, ReceiveBytes DEF BufferEnd, TypeInv, TypeOK, TypeOKParser
<1>2. /\ Pushed <= dump.n /\ remaining = dump.rem[Pushed + 1] /\ processed = dump.start[Pushed + 1]
      /\ dump.start[Pushed + 1] <= BufferEnd /\ pooled_vec = << >>
      /\ needed > 0 => Pushed < dump.n /\ processed + needed <= dump.start[Pushed + 2]
  BY <1>0 DEF Position
<1>3. dump.start[Pushed + 1] <= BufferEnd' /\ processed <= dump.start[Pushed + 1]
  BY <1>0, <1>1, <1>2
<1>4. CASE parser' = "first"
  <2>1. rest' = Span(dump.start[Pushed + 1], BufferEnd')
    BY <1>0, <1>1, <1>2, <1>4 DEF ReceiveChunk
  <2> QED
    BY <1>0, <1>2, <1>3, <1>4, <2>1 DEF Position, WithinFile
<1>5. CASE parser' = "recv"
  <2>1. needed > Len(loop_buffer')
    BY <1>5 DEF ReceiveChunk
  <2>2. Len(loop_buffer') = BufferEnd' - processed /\ processed <= BufferEnd'
    <3>1. processed <= BufferEnd'
      BY <1>0, <1>1, <1>2
    <3> QED
      BY <1>0, <1>1, <3>1, SpanType
  <2>3. needed > 0 /\ BufferEnd' < processed + needed
    <3> DEFINE l == Len(loop_buffer')
               e == BufferEnd'
    <3>1. needed > l /\ l = e - processed /\ processed <= e /\ e \in Nat
      BY <2>1, <2>2, <1>1
    <3> HIDE DEF l, e
    <3>2. needed > 0 /\ e < processed + needed
      BY <3>1, <1>0
    <3> QED
      BY <3>2 DEF e
  <2>4. Pushed < dump.n => BufferEnd' < dump.start[Pushed + 2]
    <3>0. dump.n \in Nat
      BY DEF WellFormedRecords
    <3>1. Pushed < dump.n => Pushed + 2 \in 1..(dump.n + 1)
      BY <1>0, <3>0
    <3>2. Pushed < dump.n => dump.start[Pushed + 2] \in Nat
      BY <3>1, StartsDiffer
    <3> QED
      BY <3>2, <2>3, <1>0, <1>1, <1>2
  <2> QED
    BY <1>0, <1>2, <1>3, <1>5, <2>4 DEF Position, WithinFile
<1> QED
  BY <1>0, <1>4, <1>5 DEF ReceiveChunk

\* Incomplete on the first record of a round: what the parser asks for ends within
\* the record.
LEMMA NeedPosition ==
  ASSUME TypeInv, WellFormedRecords(dump), recorder # "dropped", Position, WithinFile, NeedMore,
         Pushed' = Pushed
  PROVE  Position' /\ WithinFile'
<1>0. /\ parser = "first" /\ parser' = "recv"
      /\ UNCHANGED <<dump, loop_buffer, rest, pooled_vec, remaining, processed>>
      /\ processed \in Nat /\ Len(loop_buffer) \in Nat /\ BufferEnd = processed + Len(loop_buffer)
      /\ BufferEnd' = BufferEnd /\ Pushed \in Nat
  BY Counts DEF NeedMore, input, TypeInv, TypeOK, TypeOKParser, BufferEnd
<1>1. /\ Pushed <= dump.n /\ remaining = dump.rem[Pushed + 1] /\ processed = dump.start[Pushed + 1]
      /\ dump.start[Pushed + 1] <= BufferEnd /\ pooled_vec = << >>
      /\ rest = Span(dump.start[Pushed + 1], BufferEnd)
  BY <1>0 DEF Position
<1>2. PICK i \in 1..dump.n : /\ AtRecord(i) /\ ~Complete(i)
                             /\ \E s \in dump.stops[i] :
                                  needed' = (s - (dump.start[i] + Len(rest))) + Len(loop_buffer)
  BY DEF NeedMore
<1>3. PICK s \in dump.stops[i] : needed' = (s - (dump.start[i] + Len(rest))) + Len(loop_buffer)
  BY <1>2
<1>4. i = Pushed + 1 /\ Pushed < dump.n /\ Len(rest) = BufferEnd - dump.start[i]
  BY <1>1, <1>2, AtNext
<1>5. /\ s \in Nat /\ s <= dump.start[i + 1] /\ dump.start[i] \in Nat /\ dump.start[i + 1] \in Nat
      /\ Size(dump, i) = dump.start[i + 1] - dump.start[i] /\ i + 1 = Pushed + 2
  BY <1>0, <1>4, RecordBounds
<1>6. BufferEnd < dump.start[i + 1]
  <2>1. ~(Size(dump, i) <= Len(rest))
    BY <1>2 DEF Complete
  <2> QED
    BY <1>0, <1>4, <1>5, <2>1
<1>7. processed + needed' = s
  <2> DEFINE l == Len(loop_buffer)
             r == Len(rest)
             p == dump.start[i]
  <2>1. /\ l \in Nat /\ p \in Nat /\ processed = p /\ BufferEnd = p + l /\ r = BufferEnd - p
        /\ needed' = (s - (p + r)) + l
    BY <1>0, <1>1, <1>3, <1>4, <1>5
  <2> HIDE DEF l, r, p
  <2>2. needed' = s - p
    BY <2>1, <1>5
  <2> QED
    BY <2>1, <2>2, <1>5
<1>8. /\ BufferEnd' < dump.start[Pushed + 2] /\ processed + needed' <= dump.start[Pushed + 2]
      /\ processed <= dump.start[Pushed + 1]
  <2>1. dump.start[i + 1] = dump.start[Pushed + 2]
    BY <1>5
  <2> QED
    BY <2>1, <1>0, <1>1, <1>5, <1>6, <1>7, SMTT(30)
<1> QED
  BY <1>0, <1>1, <1>4, <1>8 DEF Position, WithinFile

\* A round ends at a record that is not whole in the buffer.
LEMMA EndPosition ==
  ASSUME TypeInv, WellFormedRecords(dump), recorder # "dropped", Position, WithinFile, EndOfInput,
         Pushed' = Pushed
  PROVE  Position' /\ WithinFile'
<1>0. /\ parser = "more" /\ parser' = "parsed"
      /\ UNCHANGED <<dump, loop_buffer, rest, pooled_vec, remaining, processed>>
      /\ BufferEnd \in Nat /\ BufferEnd' = BufferEnd /\ Pushed \in Nat /\ rest \in Seq(Nat)
  BY Counts DEF EndOfInput, input, TypeInv, TypeOK, TypeOKParser, BufferEnd
<1>1. /\ Pushed <= dump.n /\ remaining = dump.rem[Pushed + 1] /\ processed <= dump.start[Pushed + 1]
      /\ dump.start[Pushed + 1] <= BufferEnd
      /\ rest = Span(dump.start[Pushed + 1], BufferEnd)
  BY <1>0 DEF Position
<1>2. Pushed < dump.n => BufferEnd < dump.start[Pushed + 2]
  <2> SUFFICES ASSUME Pushed < dump.n PROVE BufferEnd < dump.start[Pushed + 2]
    OBVIOUS
  <2>0. dump.n \in Nat
    BY DEF WellFormedRecords
  <2>1. Pushed + 1 \in 1..dump.n /\ (Pushed + 1) + 1 = Pushed + 2
    BY <1>0, <2>0
  <2>2. /\ dump.start[Pushed + 1] \in Nat /\ dump.start[Pushed + 2] \in Nat
        /\ dump.start[Pushed + 1] < dump.start[Pushed + 2]
    <3>1. /\ dump.start[Pushed + 1] \in Nat /\ dump.start[(Pushed + 1) + 1] \in Nat
          /\ dump.start[Pushed + 1] < dump.start[(Pushed + 1) + 1]
      BY <2>1, RecordBounds
    <3> QED
      BY <2>1, <3>1
  <2>3. CASE rest = << >>
    <3>1. Len(rest) = 0 /\ Len(rest) = BufferEnd - dump.start[Pushed + 1]
      BY <2>2, <2>3, <1>0, <1>1, SpanType
    <3> QED
      BY <3>1, <2>2, <1>0
  <2>4. ASSUME NEW i \in 1..dump.n, AtRecord(i), ~Complete(i)
        PROVE  BufferEnd < dump.start[Pushed + 2]
    <3>1. i = Pushed + 1 /\ Len(rest) = BufferEnd - dump.start[i]
      BY <1>1, <2>4, AtNext
    <3>2. Size(dump, i) = dump.start[Pushed + 2] - dump.start[Pushed + 1]
      BY <2>1, <3>1 DEF Size
    <3> QED
      BY <2>2, <2>4, <3>1, <3>2, <1>0 DEF Complete
  <2> QED
    BY <2>3, <2>4 DEF EndOfInput
<1> QED
  BY <1>0, <1>1, <1>2 DEF Position, WithinFile

\* After the drain the working buffer starts at the next record.
LEMMA DrainPosition ==
  ASSUME TypeInv, WellFormedRecords(dump), recorder # "dropped", Contiguous, Position, WithinFile,
         DrainAndReport, Pushed' = Pushed
  PROVE  Position' /\ WithinFile'
<1>0. /\ parser = "parsed" /\ parser' = "swap"
      /\ UNCHANGED <<dump, rest, pooled_vec, remaining>>
      /\ BufferEnd \in Nat /\ Pushed \in Nat /\ rest \in Seq(Nat)
      /\ loop_buffer = Span(processed, BufferEnd)
  BY Counts DEF DrainAndReport, input, TypeInv, TypeOK, TypeOKParser, BufferEnd, Contiguous, Gone
<1>1. /\ Pushed <= dump.n /\ remaining = dump.rem[Pushed + 1]
      /\ dump.start[Pushed + 1] <= BufferEnd
      /\ rest = Span(dump.start[Pushed + 1], BufferEnd)
      /\ Pushed < dump.n => BufferEnd < dump.start[Pushed + 2]
  BY <1>0 DEF Position
<1>2. BufferEnd' = BufferEnd /\ processed' = BufferEnd - Len(rest)
  BY <1>0, DrainBytes
<1>3. dump.start[Pushed + 1] \in Nat
  <2>0. dump.n \in Nat
    BY DEF WellFormedRecords
  <2>1. Pushed + 1 \in 1..(dump.n + 1)
    BY <1>0, <1>1, <2>0
  <2> QED
    BY <2>1, StartsDiffer
<1>4. Len(rest) = BufferEnd - dump.start[Pushed + 1]
  BY <1>0, <1>1, <1>3, SpanType
<1>5. processed' = dump.start[Pushed + 1] /\ processed' <= dump.start[Pushed + 1]
  BY <1>0, <1>2, <1>3, <1>4
<1> QED
  BY <1>0, <1>1, <1>2, <1>5 DEF Position, WithinFile

\* Handing the records on does not move the parser.
LEMMA SwapPosition ==
  ASSUME recorder # "dropped", Position, WithinFile, SwapAndSend, UNCHANGED recorder,
         Pushed' = Pushed, pooled_vec' = << >>
  PROVE  Position' /\ WithinFile'
<1>0. /\ parser = "swap" /\ parser' = "recv" /\ needed' = 0
      /\ UNCHANGED <<dump, loop_buffer, remaining, processed, BufferEnd>>
  BY DEF SwapAndSend, input, BufferEnd
<1> QED
  BY <1>0 DEF Position, WithinFile

\* The parser starts at the first record.
LEMMA StartPosition ==
  ASSUME TypeInv, Lifecycle, Vectors, Fresh, SpawnParser
  PROVE  Position' /\ WithinFile'
<1>0. /\ main = "spawn_parser" /\ parser = "unborn" /\ parser' = "recv" /\ recorder = "unborn"
      /\ UNCHANGED <<dump, loop_buffer, pooled_vec, needed, remaining, processed, records, batch,
                     recorded, recorder>>
  BY DEF SpawnParser, Lifecycle, channels, input, recorderVars
<1>1. WellFormedRecords(dump)
  BY <1>0 DEF TypeInv, HeaderRead
<1>2. /\ loop_buffer = << >> /\ processed = FileHeaderLength /\ needed = 0 /\ remaining = 0
      /\ recorded = << >> /\ batch = << >> /\ records.q = << >> /\ pooled_vec = << >>
  BY <1>0 DEF Fresh, Vectors
<1>3. Len(<< >>) = 0
  OBVIOUS
<1>4. Pushed = 0 /\ Pushed' = 0
  <2>1. Pushed' = Pushed
    BY <1>0 DEF Pushed, Sending, Taking, Recorded
  <2>2. Recorded = 0
    BY <1>2, <1>3 DEF Recorded
  <2>3. Taking = 0 + 0
    BY <1>2, <1>3, <2>2 DEF Taking
  <2>4. Sending = 0 + 0
    BY <1>2, <2>3 DEF Sending
  <2>5. Pushed = 0 + 0
    BY <1>2, <1>3, <2>4 DEF Pushed
  <2> QED
    BY <2>1, <2>5
<1>5. BufferEnd' = FileHeaderLength
  BY <1>0, <1>2, <1>3, DumpAssumption DEF BufferEnd
<1>6. /\ dump.n \in Nat /\ dump.start[1] = FileHeaderLength /\ dump.rem[1] = 0
      /\ 0 < dump.n => dump.start[1] < dump.start[2]
  <2>1. /\ dump.n \in Nat /\ dump.start[1] = FileHeaderLength /\ dump.rem[1] = 0
    BY <1>1 DEF WellFormedRecords
  <2>2. 0 < dump.n => 1 \in 1..(dump.n + 1) /\ 2 \in 1..(dump.n + 1)
    BY <2>1
  <2> QED
    BY <1>1, <2>1, <2>2, StartsDiffer
<1>7. Position'
  BY <1>0, <1>2, <1>4, <1>5, <1>6, DumpAssumption DEF Position
<1>8. WithinFile'
  BY <1>0, <1>4, <1>6 DEF WithinFile, WholeRecords
<1> QED
  BY <1>7, <1>8

\* Every step keeps the records in order and the parser in its place.
LEMMA RecordsStep ==
  TypeInv /\ Lifecycle /\ Ownership /\ Bytes /\ Records /\ [Next]_vars => Records'
<1> SUFFICES ASSUME TypeInv, Lifecycle, Ownership, Fetching, Contiguous, Fresh,
                    Order, Vectors, Position, WithinFile, [Next]_vars
             PROVE  Order' /\ Vectors' /\ Position' /\ WithinFile'
  BY DEF Bytes, Records
<1>0. TypeOKChannels /\ parser \in {"unborn", "recv", "first", "more", "parsed", "swap", "done",
                                    "panicked", "dropped"}
      /\ recorder \in {"unborn", "recv", "recording", "rendering", "done", "panicked", "dropped"}
  BY DEF TypeInv, TypeOK, TypeOKParser, TypeOKRecorder
<1>1. ASSUME recorder' = "dropped" PROVE Order' /\ Vectors' /\ Position' /\ WithinFile'
  BY <1>1 DEF Order, Vectors, Position, WithinFile
<1> USE DEF channels, fetcherVars, parserVars, recorderVars, mainVars, input
<1>2. ASSUME UNCHANGED <<dump, records, vecs, parserVars, recorderVars>>,
             main' \in {"open", "spawn_prefetch"} => main \in {"open", "spawn_prefetch"}
      PROVE  Order' /\ Vectors' /\ Position' /\ WithinFile'
  <2>1. CASE recorder = "dropped"
    BY <1>1, <1>2, <2>1
  <2>2. CASE recorder # "dropped"
    BY <1>2, <2>2, SameOrder, SamePosition
  <2> QED
    BY <2>1, <2>2
<1>3. ASSUME FetcherStep PROVE Order' /\ Vectors' /\ Position' /\ WithinFile'
  BY <1>2, <1>3 DEF FetcherStep, FetcherNext, TakeBuffer, FillAndSend, FetcherPanicsOnClosed, ReadFails,
                    FetcherFinishes, FetcherEnds
<1>4. ASSUME ParserStep PROVE Order' /\ Vectors' /\ Position' /\ WithinFile'
  <2>0. UNCHANGED <<recorder, batch, recorded, main>>
    BY <1>4 DEF ParserStep
  <2>1. CASE recorder = "dropped"
    BY <2>0, <2>1, <1>1
  <2>2. CASE recorder # "dropped"
    <3>1. parser \notin Gone /\ parser # "unborn" /\ dump' = dump
      BY <1>4, <1>0 DEF ParserStep, ParserNext, ReceiveChunk, ParseRecord, NeedMore, EndOfInput,
                        ParsePanics, DrainAndReport, SwapAndSend, ParserPanics, ParserFinishes,
                        ParserEnds, Gone
    <3>2. WellFormedRecords(dump)
      BY <3>1 DEF TypeInv, HeaderRead, Gone
    <3>3. BufferEnd <= dump.len
      BY <3>1, ReceivedInFile
    <3>4. CASE ReceiveChunk
      <4>1. Order' /\ Vectors' /\ Pushed' = Pushed
        <5>1. /\ UNCHANGED <<pooled_vec, records, vecs>> /\ parser' # "unborn"
          BY <3>4 DEF ReceiveChunk
        <5> QED
          BY <2>0, <2>2, <3>1, <5>1, SameOrder
      <4> QED
        BY <2>2, <3>2, <3>4, <4>1, ReceivePosition
    <3>5. CASE ParseRecord
      BY <2>0, <2>2, <3>2, <3>3, <3>5, ParsePosition
    <3>6. CASE NeedMore \/ EndOfInput \/ DrainAndReport
      <4>1. Order' /\ Vectors' /\ Pushed' = Pushed
        <5>1. /\ UNCHANGED <<pooled_vec, records, vecs>> /\ parser' # "unborn"
          BY <3>6 DEF NeedMore, EndOfInput, DrainAndReport
        <5> QED
          BY <2>0, <2>2, <3>1, <5>1, SameOrder
      <4> QED
        BY <2>2, <3>2, <3>6, <4>1, NeedPosition, EndPosition, DrainPosition
    <3>7. CASE SwapAndSend
      BY <2>0, <2>2, <3>7, SwapOrder, SwapPosition
    <3>8. CASE ParsePanics \/ ParserPanics \/ ParserFinishes
      <4>1. /\ UNCHANGED <<pooled_vec, loop_buffer, rest, needed, remaining, processed>>
            /\ parser' \in {"panicked", "done"} /\ (parser' = "done" => parser = "recv")
            /\ records'.q = records.q /\ vecs'.q = << >>
        BY <3>8, <1>0, FieldsOfRecords, FieldsOfVecs
        DEF ParsePanics, ParserPanics, ParserFinishes, ParserEnds
      <4>2. Order' /\ Vectors' /\ Pushed' = Pushed
        BY <2>0, <2>2, <3>1, <4>1, SameOrder DEF Gone
      <4>3. BufferEnd' = BufferEnd
        BY <4>1 DEF BufferEnd
      <4> QED
        BY <2>2, <3>1, <4>1, <4>2, <4>3 DEF Position, WithinFile
    <3> QED
      BY <1>4, <3>4, <3>5, <3>6, <3>7, <3>8 DEF ParserStep, ParserNext
  <2> QED
    BY <2>1, <2>2
<1>5. ASSUME RecorderStep PROVE Order' /\ Vectors' /\ Position' /\ WithinFile'
  <2>0. UNCHANGED <<parserVars, main>>
    BY <1>5 DEF RecorderStep
  <2>1. recorder # "dropped" /\ dump' = dump
    BY <1>5 DEF RecorderStep, RecorderNext, ReceiveBatch, RecordBatch, StartRendering, SendResult,
                RenderPanics, RecorderDrops
  <2>2. Order' /\ Vectors' /\ Pushed' = Pushed
    <3>1. CASE ReceiveBatch
      BY <2>0, <2>1, <3>1, ReceiveBatchOrder
    <3>2. CASE RecordBatch
      BY <2>0, <2>1, <3>2, RecordBatchOrder
    <3>3. CASE StartRendering
      <4>1. /\ recorder = "recv" /\ recorder' = "rendering" /\ UNCHANGED <<batch, recorded, records, vecs>>
            /\ records.q = << >> /\ records.tx = "dropped"
        BY <3>3 DEF StartRendering, Disconnected
      <4>2. parser \in Gone
        BY <4>1 DEF Ownership
      <4> QED
        BY <2>0, <2>1, <4>1, <4>2, SameOrder
    <3>4. CASE SendResult \/ RenderPanics
      <4>1. /\ recorder = "rendering" /\ recorder' \in {"done", "panicked"} /\ UNCHANGED <<batch, recorded>>
            /\ records'.q = << >> /\ vecs'.q = vecs.q
        BY <3>4, <1>0, FieldsOfRecords, FieldsOfVecs DEF SendResult, RenderPanics, RecorderDrops
      <4>2. parser \in Gone /\ records.q = << >>
        BY <4>1 DEF Vectors
      <4> QED
        BY <2>0, <2>1, <4>1, <4>2, SameOrder
    <3> QED
      BY <1>5, <3>1, <3>2, <3>3, <3>4 DEF RecorderStep, RecorderNext
  <2> QED
    BY <2>0, <2>1, <2>2, SamePosition
<1>6. ASSUME NEW how, Return(how) PROVE Order' /\ Vectors' /\ Position' /\ WithinFile'
  <2>1. CASE recorder = "unborn"
    BY <2>1, <1>1, <1>6 DEF Return, Lost
  <2>2. CASE recorder # "unborn"
    <3>1. fetcher # "unborn" /\ parser # "unborn"
      BY <2>2 DEF Lifecycle
    <3>2. UNCHANGED <<dump, records, vecs, parserVars, recorderVars>> /\ main' = "returned"
      BY <1>6, <2>2, <3>1 DEF Return, Lost, LoseSender, LoseReceiver
    <3> QED
      BY <3>2, <1>2
  <2> QED
    BY <2>1, <2>2
<1>7. ASSUME MainNext PROVE Order' /\ Vectors' /\ Position' /\ WithinFile'
  <2>1. CASE RejectHeader \/ OpenFails \/ SpawnFails \/ NoResult \/ JoinLast \/ JoinFails
    BY <2>1, <1>6 DEF RejectHeader, OpenFails, SpawnFails, NoResult, JoinLast, JoinFails
  <2>2. CASE SpawnPrefetch
    <3>1. /\ main = "spawn_prefetch" /\ main' = "spawn_parser" /\ recorder = "unborn" /\ parser = "unborn"
          /\ UNCHANGED <<dump, records, parserVars, recorderVars>>
          /\ vecs'.q = Append(vecs.q, << >>)
      BY <2>2, <1>0, FieldsOfVecs DEF SpawnPrefetch, Lifecycle
    <3>2. vecs.q = << >> /\ records.q = << >>
      BY <3>1 DEF Vectors
    <3>3. vecs'.q = << << >> >>
      BY <3>1, <3>2
    <3>4. Recorded' = Recorded /\ Taking' = Taking /\ Sending' = Sending /\ Pushed' = Pushed
      BY <3>1 DEF Recorded, Taking, Sending, Pushed
    <3>5. Order'
      BY <3>1, <3>4 DEF Order
    <3>6. Vectors'
      <4>1. Len(vecs'.q) = 1 /\ Len(records'.q) = 0 /\ \A i \in 1..Len(vecs'.q) : vecs'.q[i] = << >>
        BY <3>1, <3>2, <3>3
      <4> QED
        BY <3>1, <3>2, <4>1 DEF Vectors
    <3> QED
      BY <3>1, <3>4, <3>5, <3>6, SamePosition
  <2>3. CASE SpawnParser
    <3>1. Order' /\ Vectors'
      <4>1. /\ UNCHANGED <<recorder, recorded, batch, pooled_vec, records, vecs>>
            /\ parser = "unborn" /\ parser' = "recv" /\ recorder # "dropped"
            /\ main' = "spawn_recorder"
        BY <2>3 DEF SpawnParser, Lifecycle
      <4> QED
        BY <4>1, SameOrder DEF Gone
    <3> QED
      BY <2>3, <3>1, StartPosition
  <2>4. CASE SpawnRecorder
    <3>1. /\ UNCHANGED <<dump, recorded, batch, parserVars, records, vecs>>
          /\ recorder = "unborn" /\ recorder' = "recv" /\ main' = "progress"
      BY <2>4 DEF SpawnRecorder, Lifecycle
    <3>2. Order' /\ Vectors' /\ Pushed' = Pushed
      BY <3>1, SameOrder
    <3> QED
      BY <3>1, <3>2, SamePosition
  <2>5. CASE ReadHeader \/ ShowProgress \/ FinishProgress \/ ReceiveResult \/ JoinNext
    BY <2>5, <1>2 DEF ReadHeader, ShowProgress, FinishProgress, ReceiveResult, JoinNext
  <2> QED
    BY <1>7, <2>1, <2>2, <2>3, <2>4, <2>5 DEF MainNext
<1>8. CASE UNCHANGED vars
  BY <1>2, <1>8 DEF vars
<1> QED
  BY <1>3, <1>4, <1>5, <1>7, <1>8 DEF Next, Terminated
=============================================================================
