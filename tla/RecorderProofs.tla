--------------------------- MODULE RecorderProofs ---------------------------
(***************************************************************************)
(* Theorems about the result of the recorder for every dump: the steps     *)
(* that compute sizes, rows, stack traces and the warning keep             *)
(* RecorderInv, and the properties of RecorderResult follow from it.       *)
(***************************************************************************)
EXTENDS RecorderSteps

(***************************************************************************)
(* Once the records are all there, what is said of them stays.             *)
(***************************************************************************)

RecordsKept == UNCHANGED <<input, left, stream, self>>

\* The places of records stay as long as no record is added.
LEMMA PlacesKept ==
  ASSUME RecordsKept
  PROVE  /\ \A K : Of(K)' = Of(K)
         /\ \A at : Latest(at)' = Latest(at) /\ First(at)' = First(at)
         /\ \A x : StringsOf(x)' = StringsOf(x) /\ LoadsOf(x)' = LoadsOf(x)
                   /\ LoadsAs(x)' = LoadsAs(x) /\ FramesOf(x)' = FramesOf(x)
         /\ \A x : TracesOf(x)' = TracesOf(x) /\ DumpsOf(x)' = DumpsOf(x)
                   /\ InstancesOf(x)' = InstancesOf(x) /\ ObjectArraysOf(x)' = ObjectArraysOf(x)
         /\ \A x : ArraysOf(x)' = ArraysOf(x)
<1>1. stream' = stream
  BY DEF RecordsKept
<1>2. \A K : Of(K)' = Of(K)
  BY <1>1 DEF Of
<1>3. \A at : Latest(at)' = Latest(at) /\ First(at)' = First(at)
  BY <1>1 DEF Latest, First
<1>4. \A x : StringsOf(x)' = StringsOf(x) /\ LoadsOf(x)' = LoadsOf(x)
             /\ LoadsAs(x)' = LoadsAs(x) /\ FramesOf(x)' = FramesOf(x)
  BY <1>1, <1>2 DEF StringsOf, LoadsOf, LoadsAs, FramesOf
<1>5. \A x : TracesOf(x)' = TracesOf(x) /\ DumpsOf(x)' = DumpsOf(x)
             /\ InstancesOf(x)' = InstancesOf(x) /\ ObjectArraysOf(x)' = ObjectArraysOf(x)
  BY <1>1, <1>2 DEF TracesOf, DumpsOf, InstancesOf, ObjectArraysOf
<1>6. \A x : ArraysOf(x)' = ArraysOf(x)
  BY <1>1, <1>2 DEF ArraysOf
<1> QED
  BY <1>2, <1>3, <1>4, <1>5, <1>6

\* So do the classes, their names and their lineages,
LEMMA ClassesKept ==
  ASSUME RecordsKept
  PROVE  /\ InstanceClasses' = InstanceClasses /\ ArrayClasses' = ArrayClasses
         /\ ArrayTypes' = ArrayTypes /\ ClassIds' = ClassIds /\ TraceSerials' = TraceSerials
         /\ FrameClasses' = FrameClasses /\ RowKeys' = RowKeys
         /\ \A c : Named(c)' = Named(c) /\ NameOf(c)' = NameOf(c)
         /\ \A c : Super(c)' = Super(c) /\ Lineage(c)' = Lineage(c) /\ Cyclic(c)' = Cyclic(c)
<1>1. stream' = stream
  BY DEF RecordsKept
<1>2. /\ InstanceClasses' = InstanceClasses /\ ArrayClasses' = ArrayClasses
      /\ ArrayTypes' = ArrayTypes /\ TraceSerials' = TraceSerials
  BY <1>1, PlacesKept DEF InstanceClasses, ArrayClasses, ArrayTypes, TraceSerials
<1>3. ClassIds' = ClassIds
  BY <1>1, <1>2, PlacesKept DEF ClassIds
<1>4. FrameSerials' = FrameSerials
  BY <1>2, PlacesKept DEF FrameSerials
<1>5. FrameClasses' = FrameClasses
  BY <1>4, PlacesKept DEF FrameClasses
<1>6. RowKeys' = RowKeys
  BY <1>2 DEF RowKeys
<1>7. \A c : Named(c)' = Named(c)
  BY PlacesKept DEF Named
<1>8. \A c : NameOf(c)' = NameOf(c)
  BY <1>7, PlacesKept DEF NameOf
<1>9. \A c : Super(c)' = Super(c)
  BY PlacesKept DEF Super
<1>10. \A S : Closed(S)' = Closed(S)
  BY <1>9 DEF Closed
<1>11. \A c : Lineage(c)' = Lineage(c)
  BY <1>3, <1>10 DEF Lineage
<1>12. \A c : Cyclic(c)' = Cyclic(c)
  BY <1>9, <1>11 DEF Cyclic
<1> QED
  BY <1>2, <1>3, <1>5, <1>6, <1>7, <1>8, <1>9, <1>11, <1>12

\* the sizes and the rows that are expected,
LEMMA RowsKept ==
  ASSUME RecordsKept
  PROVE  /\ \A S : SizeOf(S)' = SizeOf(S)
         /\ \A c : InstanceRow(c)' = InstanceRow(c)
         /\ ExpectedRows' = ExpectedRows
         /\ \A c, calls : Chain(c, calls)' <=> Chain(c, calls)
         /\ \A threads : ThreadsRight(threads)' <=> ThreadsRight(threads)
<1>1. stream' = stream /\ input' = input
  BY DEF RecordsKept
<1>2. \A c : OwnSize(c)' = OwnSize(c)
  BY <1>1, PlacesKept DEF OwnSize
<1>3. \A S : SizeOf(S)' = SizeOf(S)
  BY <1>1, <1>2, ClassesKept DEF SizeOf
<1>4. \A c : InstanceSize(c)' = InstanceSize(c)
  BY <1>3, ClassesKept DEF InstanceSize
<1>5. \A c : InstanceRow(c)' = InstanceRow(c)
  BY <1>4, PlacesKept, ClassesKept DEF InstanceRow
<1>6. \A i : ArrayBytes(i)' = ArrayBytes(i)
  BY <1>1 DEF ArrayBytes
<1>7. \A name, at : ArrayRow(name, at)' = ArrayRow(name, at)
  BY <1>6 DEF ArrayRow
<1>8. \A k : ExpectedRow(k)' = ExpectedRow(k)
  BY <1>5, <1>7, PlacesKept, ClassesKept DEF ExpectedRow
<1>9. ExpectedRows' = ExpectedRows
  BY <1>8, ClassesKept DEF ExpectedRows
<1>10. \A c, calls : Chain(c, calls)' <=> Chain(c, calls)
  BY ClassesKept DEF Chain
<1>11. \A id : ExpectedFrame(id)' = ExpectedFrame(id)
  <2>1. \A n : TextOf(n)' = TextOf(n)
    BY PlacesKept DEF TextOf
  <2>2. ASSUME NEW n PROVE ClassShown(n)' = ClassShown(n)
    <3> DEFINE loads == LoadsAs(n)
               load == Latest(loads)
               name == NameOf(load.id)
    <3>1. loads' = loads
      BY PlacesKept
    <3>2. load' = load
      BY <3>1, PlacesKept
    <3> HIDE DEF load
    <3>3. name' = name
      BY <3>2, ClassesKept
    <3>4. ClassShown(n) = IF loads = {} THEN Label("serial", "none", n, FALSE) ELSE name
      BY DEF ClassShown, load
    <3>5. ClassShown(n)' = IF loads' = {} THEN Label("serial", "none", n, FALSE) ELSE name'
      BY DEF ClassShown, load
    <3> HIDE DEF name, loads
    <3> QED
      BY <3>1, <3>3, <3>4, <3>5
  <2> TAKE id
  <2>3. FramesOf(id)' = FramesOf(id) /\ Latest(FramesOf(id))' = Latest(FramesOf(id))
    BY PlacesKept
  <2> QED
    BY <2>1, <2>2, <2>3 DEF ExpectedFrame
<1>12. \A threads : ThreadsRight(threads)' <=> ThreadsRight(threads)
  <2> DEFINE Frames(s) == Latest(TracesOf(s)).frames
             S == {s \in TraceSerials : Frames(s) # << >>}
             shown == ascending(S)
             Thread(s) == [j \in DOMAIN Frames(s) |-> ExpectedFrame(Frames(s)[j])]
             expected == [k \in DOMAIN shown |-> Thread(shown[k])]
  <2>1. \A s : Frames(s)' = Frames(s)
    BY PlacesKept
  <2> HIDE DEF Frames
  <2>2. S' = S
    BY <2>1, ClassesKept
  <2> HIDE DEF S
  <2>3. shown' = shown
    BY <2>2 DEF ascending
  <2> HIDE DEF shown
  <2>4. \A s : Thread(s)' = Thread(s)
    BY <1>11, <2>1
  <2> HIDE DEF Thread
  <2>5. expected' = expected
    BY <2>3, <2>4
  <2>6. \A threads : ThreadsRight(threads) <=> threads = expected
    BY DEF ThreadsRight, Frames, S, shown, Thread
  <2>7. \A threads : ThreadsRight(threads)' <=> threads = expected'
    BY DEF ThreadsRight, Frames, S, shown, Thread
  <2> HIDE DEF expected
  <2> QED
    BY <2>5, <2>6, <2>7
<1> QED
  BY <1>3, <1>5, <1>9, <1>10, <1>12

\* and what the maps say of the records.
LEMMA RecordsInvKept ==
  ASSUME RecordsKept, RecordsInv
  PROVE  RecordsInv'
<1>1. stream' = stream /\ input' = input /\ self' = self /\ left' = left
  BY DEF RecordsKept
<1>2. StreamInv' /\ StringsInv'
  BY <1>1, PlacesKept DEF RecordsInv, StreamInv, StringsInv
<1>3. LoadsInv'
  BY <1>1, PlacesKept DEF RecordsInv, LoadsInv
<1>4. FramesInv' /\ TracesInv'
  BY <1>1, PlacesKept, ClassesKept DEF RecordsInv, FramesInv, TracesInv
<1>5. LayoutsInv' /\ InstancesInv'
  BY <1>1, PlacesKept, ClassesKept DEF RecordsInv, LayoutsInv, InstancesInv, ClassInfo
<1>6. ArraysInv'
  <2>1. \A i : ArrayBytes(i)' = ArrayBytes(i)
    BY <1>1 DEF ArrayBytes
  <2>2. \A at : ArrayCounter(at)' = ArrayCounter(at)
    BY <2>1 DEF ArrayCounter
  <2> QED
    BY <1>1, <2>2, PlacesKept, ClassesKept DEF RecordsInv, ArraysInv
<1>7. OriginInv'
  BY <1>1, PlacesKept DEF RecordsInv, OriginInv, RecordsKept
<1>8. CountsAgree'
  <2>1. Of(AndroidRecords)' = Of(AndroidRecords)
    BY PlacesKept
  <2> QED
    BY <1>1, <2>1, CountsParts DEF RecordsInv
<1> QED
  BY <1>2, <1>3, <1>4, <1>5, <1>6, <1>7, <1>8 DEF RecordsInv

(***************************************************************************)
(* What the maps say of classes.                                           *)
(***************************************************************************)

\* The names that are looked up are the names of the records.
LEMMA NamesFound ==
  ASSUME StringsInv, LoadsInv
  PROVE  \A c : (NameFound(c) <=> Named(c)) /\ get_class_name_string(c) = NameOf(c)
<1> TAKE c
<1> DEFINE by_id == self.class_data_by_id
           names == self.utf8_strings_by_id
           load == Latest(LoadsOf(c))
           id == self.class_data[by_id[c]].class_name_id
<1>1. c \in DOMAIN by_id <=> LoadsOf(c) # {}
  BY KeysHavePlaces, PlacesHaveKeys DEF LoadsInv
<1>2. c \in DOMAIN by_id => id = load.name
  <2>1. c \in DOMAIN by_id => self.class_data[by_id[c]] = Loaded(load)
    BY DEF LoadsInv
  <2>2. Loaded(load).class_name_id = load.name
    BY DEF Loaded
  <2> QED
    BY <2>1, <2>2
<1>3. \A n : n \in DOMAIN names <=> StringsOf(n) # {}
  BY KeysHavePlaces, PlacesHaveKeys DEF StringsInv
<1>4. \A n \in DOMAIN names : names[n] = Latest(StringsOf(n)).str
  BY DEF StringsInv
<1>5. NameFound(c) <=> c \in DOMAIN by_id /\ id \in DOMAIN names
  BY DEF NameFound
<1>6. Named(c) <=> LoadsOf(c) # {} /\ StringsOf(load.name) # {}
  BY DEF Named
<1>7. ClassString(c) = names[id]
  BY DEF ClassString
<1> HIDE DEF by_id, names, load, id
<1>8. NameFound(c) <=> Named(c)
  BY <1>1, <1>2, <1>3, <1>5, <1>6
<1>9. Named(c) => ClassString(c) = Latest(StringsOf(load.name)).str
  BY <1>1, <1>2, <1>3, <1>4, <1>6, <1>7
<1>10. get_class_name_string(c) = NameOf(c)
  BY <1>8, <1>9 DEF get_class_name_string, NameOf, load
<1> QED
  BY <1>8, <1>10

\* The layouts that are looked up are those of the first dump.
LEMMA LayoutsFound ==
  ASSUME LayoutsInv, StreamInv
  PROVE  \A c : /\ c \in DOMAIN ClassInfo <=> DumpsOf(c) # {}
                /\ IsBase(c) <=> Super(c) = 0
                /\ Super(c) # 0 => ClassInfo[c].super = Super(c)
                                   /\ OwnSize(c) = next_multiple_of(fields_size(c), input.id_size)
                /\ Super(c) \in Nat
<1> TAKE c
<1>1. c \in DOMAIN ClassInfo <=> DumpsOf(c) # {}
  BY KeysHavePlaces, PlacesHaveKeys DEF LayoutsInv
<1>2. c \in DOMAIN ClassInfo =>
        ClassInfo[c].super = First(DumpsOf(c)).super /\ ClassInfo[c].fields = First(DumpsOf(c)).fields
  <2> DEFINE d == First(DumpsOf(c))
  <2>1. c \in DOMAIN ClassInfo => ClassInfo[c] = [super |-> d.super, fields |-> d.fields]
    BY DEF LayoutsInv
  <2> HIDE DEF d
  <2>2. c \in DOMAIN ClassInfo => ClassInfo[c].super = d.super /\ ClassInfo[c].fields = d.fields
    BY <2>1
  <2> QED
    BY <2>2 DEF d
<1>3. IsBase(c) <=> Super(c) = 0
  BY <1>1, <1>2 DEF IsBase, Super
<1>4. Super(c) # 0 => c \in DOMAIN ClassInfo /\ ClassInfo[c].super = Super(c)
  BY <1>1, <1>2 DEF Super
<1>5. Super(c) # 0 => OwnSize(c) = next_multiple_of(fields_size(c), input.id_size)
  BY <1>2, <1>4 DEF OwnSize, fields_size
<1>6. Super(c) \in Nat
  <2>1. CASE DumpsOf(c) # {}
    <3>1. DumpsOf(c) \in SUBSET Nat
      BY PlacesFinite DEF DumpsOf, Of
    <3>2. Min(DumpsOf(c)) \in DumpsOf(c)
      BY <2>1, <3>1, SmallestExists
    <3>3. First(DumpsOf(c)) \in Records /\ First(DumpsOf(c)).kind = "ClassDump"
      BY <3>2 DEF DumpsOf, Of, First, StreamInv
    <3> QED
      BY <2>1, <3>3, RecordFields DEF Super
  <2> QED
    BY <2>1 DEF Super
<1> QED
  BY <1>1, <1>3, <1>4, <1>5, <1>6

\* A class that has a super class, and its super class.
LEMMA SupersKnown ==
  ASSUME StreamInv
  PROVE  /\ \A c : Super(c) # 0 => c \in ClassIds /\ Super(c) \in ClassIds /\ DumpsOf(c) # {}
         /\ InstanceClasses \subseteq ClassIds /\ ClassIds \subseteq Nat /\ IsFiniteSet(ClassIds)
<1>1. ASSUME NEW c, Super(c) # 0 PROVE c \in ClassIds /\ Super(c) \in ClassIds /\ DumpsOf(c) # {}
  <2>1. DumpsOf(c) # {} /\ Super(c) = stream[Min(DumpsOf(c))].super
    BY <1>1 DEF Super, First
  <2>2. DumpsOf(c) \in SUBSET Nat
    BY PlacesFinite DEF DumpsOf, Of
  <2>3. Min(DumpsOf(c)) \in DumpsOf(c)
    BY <2>1, <2>2, SmallestExists
  <2>4. PICK i : i = Min(DumpsOf(c))
    OBVIOUS
  <2>5. i \in Of({"ClassDump"}) /\ stream[i].id = c /\ stream[i].super = Super(c)
    BY <2>1, <2>3, <2>4 DEF DumpsOf
  <2> QED
    BY <2>1, <2>5 DEF ClassIds
<1>2. InstanceClasses \subseteq ClassIds
  BY DEF ClassIds
<1>3. ClassIds \subseteq Nat
  <2>1. \A i \in DOMAIN stream : stream[i] \in Records
    BY DEF StreamInv
  <2>2. \A i \in Of({"InstanceDump"}) : stream[i].class \in Nat
    BY <2>1, RecordFields DEF Of
  <2>3. \A i \in Of({"ClassDump"}) : stream[i].id \in Nat /\ stream[i].super \in Nat
    BY <2>1, RecordFields DEF Of
  <2> QED
    BY <2>2, <2>3 DEF ClassIds, InstanceClasses
<1>4. IsFiniteSet(ClassIds)
  <2> DEFINE A == InstanceClasses
             B == {stream[i].id : i \in Of({"ClassDump"})}
             C == {stream[i].super : i \in Of({"ClassDump"})}
  <2>1. IsFiniteSet(A) /\ IsFiniteSet(B) /\ IsFiniteSet(C)
    <3>1. IsFiniteSet(A)
      BY KeysFinite DEF InstanceClasses
    <3>2. IsFiniteSet(B) /\ IsFiniteSet(C)
      BY KeysFinite
    <3> QED
      BY <3>1, <3>2
  <2>2. ClassIds = (A \cup B) \cup C
    BY DEF ClassIds
  <2> HIDE DEF A, B, C
  <2>3. IsFiniteSet(A \cup B)
    BY <2>1, FS_Union
  <2>4. IsFiniteSet((A \cup B) \cup C)
    BY <2>1, <2>3, FS_Union
  <2> QED
    BY <2>2, <2>4
<1> QED
  BY <1>1, <1>2, <1>3, <1>4

(***************************************************************************)
(* Lineages.                                                               *)
(***************************************************************************)

\* The lineage of a class is the least closed set with it.
LEMMA LineageIsLeast ==
  ASSUME StreamInv, NEW c \in ClassIds
  PROVE  /\ c \in Lineage(c) /\ Lineage(c) \subseteq ClassIds
         /\ \A x \in Lineage(c) : Super(x) # 0 => Super(x) \in Lineage(c)
         /\ \A S \in SUBSET ClassIds : c \in S /\ Closed(S) => Lineage(c) \subseteq S
<1>1. c \in Lineage(c) /\ Lineage(c) \subseteq ClassIds
  BY DEF Lineage
<1>2. \A S \in SUBSET ClassIds : c \in S /\ Closed(S) => Lineage(c) \subseteq S
  BY DEF Lineage
<1>3. ASSUME NEW x \in Lineage(c), Super(x) # 0 PROVE Super(x) \in Lineage(c)
  <2>1. Super(x) \in ClassIds
    BY <1>3, SupersKnown
  <2>2. \A S \in SUBSET ClassIds : c \in S /\ Closed(S) => Super(x) \in S
    BY <1>2, <1>3 DEF Closed
  <2> QED
    BY <2>1, <2>2 DEF Lineage
<1> QED
  BY <1>1, <1>2, <1>3

\* A chain goes along the lineage of each of its classes.
LEMMA ChainGoesUp ==
  ASSUME StreamInv, NEW c, NEW calls, Chain(c, calls)
  PROVE  \A i, j \in DOMAIN calls : i <= j => calls[j] \in Lineage(calls[i])
<1>1. /\ calls \in Seq(ClassIds) /\ Len(calls) \in Nat /\ DOMAIN calls = 1..Len(calls)
      /\ \A k \in 1..(Len(calls) - 1) : Super(calls[k]) # 0 /\ calls[k + 1] = Super(calls[k])
  BY DEF Chain
<1>2. SUFFICES ASSUME NEW i \in 1..Len(calls)
               PROVE  \A j \in 1..Len(calls) : i <= j => calls[j] \in Lineage(calls[i])
  BY <1>1
<1> DEFINE N == {n \in Nat : i + n \in 1..Len(calls) => calls[i + n] \in Lineage(calls[i])}
<1>3. calls[i] \in ClassIds
  BY <1>1
<1>4. 0 \in N
  <2>1. calls[i] \in Lineage(calls[i]) /\ i + 0 = i
    BY <1>1, <1>3, LineageIsLeast
  <2> QED
    BY <2>1
<1>5. ASSUME NEW n \in Nat, n \in N PROVE n + 1 \in N
  <2>1. ASSUME i + (n + 1) \in 1..Len(calls) PROVE calls[i + (n + 1)] \in Lineage(calls[i])
    <3>1. i + n \in 1..(Len(calls) - 1) /\ i + n \in 1..Len(calls) /\ i + (n + 1) = (i + n) + 1
      BY <1>1, <2>1
    <3>2. calls[i + n] \in Lineage(calls[i])
      BY <1>5, <3>1
    <3>3. Super(calls[i + n]) # 0 /\ calls[(i + n) + 1] = Super(calls[i + n])
      BY <1>1, <3>1
    <3>4. Super(calls[i + n]) \in Lineage(calls[i])
      BY <1>3, <3>2, <3>3, LineageIsLeast
    <3> QED
      BY <3>1, <3>3, <3>4
  <2> QED
    BY <2>1
<1> HIDE DEF N
<1>6. \A n \in Nat : n \in N
  BY <1>4, <1>5, Induction
<1>7. ASSUME NEW j \in 1..Len(calls), i <= j PROVE calls[j] \in Lineage(calls[i])
  <2>1. j - i \in Nat /\ i + (j - i) = j
    BY <1>1, <1>7
  <2>2. j - i \in N
    BY <1>6, <2>1
  <2> QED
    BY <2>1, <2>2 DEF N
<1> QED
  BY <1>7

\* A chain with an end is the lineage, without repetition, and not a cycle.
LEMMA ChainIsLineage ==
  ASSUME StreamInv, NEW c, NEW calls, Chain(c, calls), calls # << >>, Super(Last(calls)) = 0
  PROVE  Lineage(c) = Range(calls) /\ IsInjective(calls) /\ ~Cyclic(c)
<1> DEFINE n == Len(calls)
<1>1. /\ calls \in Seq(ClassIds) /\ n \in Nat \ {0} /\ DOMAIN calls = 1..n /\ calls[1] = c
      /\ \A k \in 1..(n - 1) : Super(calls[k]) # 0 /\ calls[k + 1] = Super(calls[k])
      /\ Super(calls[n]) = 0
  BY DEF Chain, Last
<1>2. \A k \in 1..n : calls[k] \in ClassIds
  BY <1>1
<1> HIDE DEF n
\* From any place on, the classes of the chain are closed.
<1>3. ASSUME NEW i \in 1..n PROVE Lineage(calls[i]) \subseteq {calls[k] : k \in i..n}
  <2> DEFINE S == {calls[k] : k \in i..n}
  <2>1. S \in SUBSET ClassIds /\ calls[i] \in S
    BY <1>1, <1>2
  <2>2. Closed(S)
    <3>1. ASSUME NEW y \in S, Super(y) # 0 PROVE Super(y) \in S
      <4>1. PICK k \in i..n : y = calls[k]
        OBVIOUS
      <4>2. k # n
        BY <1>1, <3>1, <4>1
      <4>3. k \in 1..(n - 1) /\ k + 1 \in i..n
        BY <1>1, <4>1, <4>2
      <4> QED
        BY <1>1, <4>1, <4>3
    <3> QED
      BY <3>1 DEF Closed
  <2> QED
    BY <1>2, <2>1, <2>2, LineageIsLeast
<1>4. Lineage(c) = Range(calls)
  <2>1. 1 \in 1..n
    BY <1>1
  <2>2. Lineage(c) \subseteq Range(calls)
    BY <1>1, <1>3, <2>1 DEF Range
  <2>3. \A j \in 1..n : calls[j] \in Lineage(calls[1])
    BY <1>1, <2>1, ChainGoesUp
  <2> QED
    BY <1>1, <2>2, <2>3 DEF Range
\* Two places with the same class are as far from the end.
<1>5. ASSUME NEW i \in 1..n, NEW j \in 1..n, i < j PROVE calls[i] # calls[j]
  <2> SUFFICES ASSUME calls[i] = calls[j] PROVE FALSE
    OBVIOUS
  <2> DEFINE N == {d \in Nat : j + d <= n => calls[i + d] = calls[j + d]}
  <2>1. 0 \in N
    BY <1>5
  <2>2. ASSUME NEW d \in Nat, d \in N PROVE d + 1 \in N
    <3>1. ASSUME j + (d + 1) <= n PROVE calls[i + (d + 1)] = calls[j + (d + 1)]
      <4>1. /\ j + d <= n /\ i + d \in 1..(n - 1) /\ j + d \in 1..(n - 1)
            /\ i + (d + 1) = (i + d) + 1 /\ j + (d + 1) = (j + d) + 1
        BY <1>1, <1>5, <3>1
      <4>2. calls[i + d] = calls[j + d]
        BY <2>2, <4>1
      <4>3. calls[(i + d) + 1] = Super(calls[i + d]) /\ calls[(j + d) + 1] = Super(calls[j + d])
        BY <1>1, <4>1
      <4> QED
        BY <4>1, <4>2, <4>3
    <3> QED
      BY <3>1
  <2> HIDE DEF N
  <2>3. \A d \in Nat : d \in N
    BY <2>1, <2>2, Induction
  <2>4. n - j \in Nat /\ j + (n - j) = n /\ i + (n - j) \in 1..(n - 1)
    BY <1>1, <1>5
  <2>5. n - j \in N /\ j + (n - j) <= n
    BY <1>1, <2>3, <2>4
  <2>6. calls[i + (n - j)] = calls[j + (n - j)]
    BY <2>5 DEF N
  <2>7. Super(calls[i + (n - j)]) # 0 /\ Super(calls[n]) = 0
    BY <1>1, <2>4
  <2> QED
    BY <2>4, <2>6, <2>7
<1>6. \A i, j \in 1..n : calls[i] = calls[j] => i = j
  BY <1>1, <1>5
<1>7. IsInjective(calls)
  BY <1>1, <1>6 DEF IsInjective
<1>8. ~Cyclic(c)
  <2>1. ASSUME NEW a \in Lineage(c), Super(a) # 0, a \in Lineage(Super(a)) PROVE FALSE
    <3>1. PICK i \in 1..n : a = calls[i]
      BY <1>1, <1>4 DEF Range
    <3>2. i # n
      BY <1>1, <2>1, <3>1
    <3>3. i \in 1..(n - 1) /\ i + 1 \in 1..n
      BY <1>1, <3>1, <3>2
    <3>4. calls[i + 1] = Super(a)
      BY <1>1, <3>1, <3>3
    <3>5. PICK k \in (i + 1)..n : a = calls[k]
      BY <1>3, <2>1, <3>3, <3>4
    <3>6. k \in 1..n /\ i # k
      BY <1>1, <3>1, <3>5
    <3> QED
      BY <1>6, <3>1, <3>5, <3>6
  <2> QED
    BY <2>1 DEF Cyclic
<1> QED
  BY <1>4, <1>7, <1>8

(***************************************************************************)
(* Sizes.                                                                  *)
(***************************************************************************)

\* Rounding up at every level is rounding up the fields of every class.
LEMMA RoundedUp ==
  ASSUME NEW m \in {4, 8}, NEW f \in Nat, NEW v \in Nat, v % m = 0
  PROVE  /\ next_multiple_of(f + v, m) = v + next_multiple_of(f, m)
         /\ next_multiple_of(f + v, m) % m = 0
<1>1. CASE m = 4
  <2>1. v % 4 = 0
    BY <1>1
  <2>2. next_multiple_of(f + v, 4) = v + next_multiple_of(f, 4) /\ next_multiple_of(f + v, 4) % 4 = 0
    BY <2>1, Z3 DEF next_multiple_of
  <2> QED
    BY <1>1, <2>2
<1>2. CASE m = 8
  <2>1. v % 8 = 0
    BY <1>2
  <2>2. next_multiple_of(f + v, 8) = v + next_multiple_of(f, 8) /\ next_multiple_of(f + v, 8) % 8 = 0
    BY <2>1, Z3 DEF next_multiple_of
  <2> QED
    BY <1>2, <2>2
<1> QED
  BY <1>1, <1>2

\* The fields of a class have a size.
LEMMA FieldsSizeIsNat ==
  ASSUME NEW fields \in Seq(FieldTypes), NEW id_size \in {4, 8}
  PROVE  SumOf([k \in DOMAIN fields |-> field_size(fields[k], id_size)]) \in Nat
<1> DEFINE s == [k \in DOMAIN fields |-> field_size(fields[k], id_size)]
<1>1. \A t \in FieldTypes : field_size(t, id_size) \in Nat
  BY DEF FieldTypes, PrimitiveTypes, field_size, primitive_byte_size
<1>2. \A k \in DOMAIN fields : fields[k] \in FieldTypes
  OBVIOUS
<1>3. s \in [1..Len(fields) -> Nat] /\ Len(fields) \in Nat
  BY <1>1, <1>2
<1>4. s \in Seq(Nat) /\ Len(s) = Len(fields)
  <2> HIDE DEF s
  <2> QED
    BY <1>3
<1> HIDE DEF s
<1>5. SumTo(s, Len(s)) \in Nat
  <2>1. Len(s) \in 0..Len(s)
    BY <1>3, <1>4
  <2> QED
    BY <1>4, <2>1, SumIsNat
<1> QED
  BY <1>5 DEF SumOf, s

\* The fields of a class that has a super class.
LEMMA OwnSizes ==
  ASSUME StreamInv, LayoutsInv, input.id_size \in {4, 8}, NEW c, Super(c) # 0
  PROVE  OwnSize(c) \in Nat /\ fields_size(c) \in Nat
<1>1. DumpsOf(c) # {}
  BY SupersKnown
<1>2. DumpsOf(c) \in SUBSET Nat
  BY PlacesFinite DEF DumpsOf, Of
<1>3. Min(DumpsOf(c)) \in DumpsOf(c)
  BY <1>1, <1>2, SmallestExists
<1>4. First(DumpsOf(c)) \in Records /\ First(DumpsOf(c)).kind = "ClassDump"
  BY <1>3 DEF DumpsOf, Of, First, StreamInv
<1>5. First(DumpsOf(c)).fields \in Seq(FieldTypes)
  BY <1>4, RecordFields
<1>6. ClassInfo[c].fields = First(DumpsOf(c)).fields
  <2> DEFINE d == First(DumpsOf(c))
  <2>1. c \in DOMAIN ClassInfo
    BY <1>1, LayoutsFound
  <2>2. ClassInfo[c] = [super |-> d.super, fields |-> d.fields]
    BY <2>1 DEF LayoutsInv
  <2> HIDE DEF d
  <2>3. ClassInfo[c].fields = d.fields
    BY <2>2
  <2> QED
    BY <2>3 DEF d
<1>7. fields_size(c) \in Nat
  BY <1>5, <1>6, FieldsSizeIsNat DEF fields_size
<1>8. OwnSize(c) = next_multiple_of(fields_size(c), input.id_size)
  BY LayoutsFound
<1> QED
  BY <1>7, <1>8, MultipleIsNat

\* The size of objects of some classes, and of one class more.
LEMMA SizeOfGrows ==
  ASSUME StreamInv, LayoutsInv, input.id_size \in {4, 8}, NEW S \in SUBSET ClassIds,
         NEW c \in ClassIds, c \notin S
  PROVE  /\ SizeOf(S) \in Nat
         /\ Super(c) # 0 => SizeOf(S \cup {c}) = SizeOf(S) + OwnSize(c)
         /\ (\A x \in S : Super(x) = 0) => SizeOf(S) = object_header_size(input.id_size)
<1> DEFINE T == {x \in S : Super(x) # 0}
           f == [a \in T |-> OwnSize(a)]
           header == object_header_size(input.id_size)
<1>0. header \in Nat
  BY DEF object_header_size
<1>1. IsFiniteSet(T) /\ \A x \in T : OwnSize(x) \in Nat
  <2>1. IsFiniteSet(ClassIds) /\ T \in SUBSET ClassIds
    BY SupersKnown
  <2>2. IsFiniteSet(T)
    BY <2>1, FS_Subset
  <2>3. \A x \in T : OwnSize(x) \in Nat
    BY OwnSizes
  <2> QED
    BY <2>2, <2>3
<1>2. SizeOf(S) = header + SumFunction(f)
  BY DEF SizeOf
<1>3. SumFunction(f) \in Nat
  <2>1. DOMAIN f = T /\ \A x \in T : f[x] \in Nat
    BY <1>1
  <2> HIDE DEF f, T
  <2> QED
    BY <1>1, <2>1, SetSumType DEF SumFunction
<1>4. ASSUME Super(c) # 0 PROVE SizeOf(S \cup {c}) = SizeOf(S) + OwnSize(c)
  <2> DEFINE U == {x \in S \cup {c} : Super(x) # 0}
             g == [a \in U |-> OwnSize(a)]
  <2>1. U = T \cup {c} /\ c \notin T
    BY <1>4
  <2>2. SizeOf(S \cup {c}) = header + SumFunction(g)
    BY DEF SizeOf
  <2>3. OwnSize(c) \in Nat
    BY <1>4, OwnSizes
  <2>4. /\ DOMAIN f = T /\ DOMAIN g = DOMAIN f \cup {c}
        /\ \A x \in DOMAIN f : f[x] \in Nat /\ (x # c => g[x] = f[x])
        /\ g[c] = get_or(f, c, 0) + OwnSize(c)
    BY <1>1, <2>1, <2>3 DEF get_or
  <2> HIDE DEF f, g, T, U, header
  <2>5. SumFunction(g) = SumFunction(f) + OwnSize(c)
    BY <1>1, <2>3, <2>4, EntryGrows
  <2> QED
    BY <1>0, <1>2, <1>3, <2>2, <2>3, <2>5
<1>5. ASSUME \A x \in S : Super(x) = 0 PROVE SizeOf(S) = header
  <2>1. T = {}
    BY <1>5
  <2>2. SumFunction(f) = 0
    <3>1. DOMAIN f = {}
      BY <2>1
    <3> HIDE DEF f
    <3> QED
      BY <3>1, SetSumEmpty DEF SumFunction
  <2> QED
    BY <1>0, <1>2, <2>2
<1> HIDE DEF f, T, header
<1>6. SizeOf(S) \in Nat
  BY <1>0, <1>2, <1>3
<1> QED
  BY <1>4, <1>5, <1>6 DEF header

(***************************************************************************)
(* The walk over the super classes.                                        *)
(***************************************************************************)

\* What the steps of a walk use of the invariant.
LEMMA Sizing ==
  ASSUME RecorderInv, phase = "sizing"
  PROVE  /\ TypeOK /\ StreamInv /\ StringsInv /\ LoadsInv /\ LayoutsInv /\ InstancesInv /\ ArraysInv
         /\ input.id_size \in {4, 8} /\ MaxDepth \in Nat \ {0}
         /\ left = {} /\ unsized \subseteq InstanceClasses /\ ThreadsRight(result.thread_info)
         /\ rows \in Seq(Rows) /\ AreRows(rows, Sized, [c \in Sized |-> InstanceRow(c)])
         /\ \A c \in Entered : ~Cyclic(c)
         /\ missing_class_ids = {c \in (InstanceClasses \ unsized) \cup FrameClasses : ~Named(c)}
                                  \cup {a \in UNION {Lineage(c) : c \in Entered} : DumpsOf(a) = {}}
         /\ InstanceClasses \subseteq ClassIds /\ ClassIds \subseteq Nat
<1>1. InstanceClasses \subseteq ClassIds /\ ClassIds \subseteq Nat
  BY SupersKnown DEF RecorderInv, RecordsInv
<1>2. input.id_size \in {4, 8} /\ MaxDepth \in Nat \ {0}
  BY RecorderAssumption DEF RecorderInv, TypeOK
<1>3. /\ TypeOK /\ StreamInv /\ StringsInv /\ LoadsInv /\ LayoutsInv /\ InstancesInv /\ ArraysInv
  BY DEF RecorderInv, RecordsInv
<1>4. left = {} /\ unsized \subseteq InstanceClasses /\ ThreadsRight(result.thread_info)
  BY DEF RecorderInv, ControlInv
<1>5. rows \in Seq(Rows) /\ AreRows(rows, Sized, [c \in Sized |-> InstanceRow(c)])
  BY DEF RecorderInv, RowsInv
<1>6. \A c \in Entered : ~Cyclic(c)
  BY DEF RecorderInv, CyclesInv
<1>7. missing_class_ids = {c \in (InstanceClasses \ unsized) \cup FrameClasses : ~Named(c)}
                            \cup {a \in UNION {Lineage(c) : c \in Entered} : DumpsOf(a) = {}}
  BY DEF RecorderInv, MissingInv, LookedUp
<1> QED
  BY <1>1, <1>2, <1>3, <1>4, <1>5, <1>6, <1>7

\* The rows of the same classes stay.
LEMMA SameRows ==
  ASSUME RecordsKept, rows' = rows, Sized' = Sized, AreRows(rows, Sized, [c \in Sized |-> InstanceRow(c)])
  PROVE  AreRows(rows, Sized, [c \in Sized |-> InstanceRow(c)])'
<1>1. \A c : InstanceRow(c)' = InstanceRow(c)
  BY RowsKept
<1>2. [c \in Sized |-> InstanceRow(c)]' = [c \in Sized |-> InstanceRow(c)]
  BY <1>1
<1> QED
  BY <1>2 DEF AreRows

\* A class that is asked for its size: the rest of the invariant after a step of its walk.
LEMMA WalkStep ==
  ASSUME RecorderInv, phase = "sizing", RecordsKept, phase' = phase, unsized' \subseteq unsized,
         rows' = rows, result' = result, Sized' = Sized, missing_class_ids' \subseteq Nat,
         walk' \in [class : Nat, calls : Seq(Nat), value : Nat], Len(walk'.calls) <= MaxDepth, WalkInv',
         \A c \in Entered' : ~Cyclic(c),
         missing_class_ids' = {c \in (InstanceClasses \ unsized') \cup FrameClasses : ~Named(c)}
                                \cup {a \in UNION {Lineage(c) : c \in Entered'} : DumpsOf(a) = {}}
  PROVE  RecorderInv'
<1>0. /\ TypeOK /\ left = {} /\ unsized \subseteq InstanceClasses /\ ThreadsRight(result.thread_info)
      /\ rows \in Seq(Rows) /\ AreRows(rows, Sized, [c \in Sized |-> InstanceRow(c)])
  BY Sizing
<1>1. input' = input /\ left' = left /\ stream' = stream /\ self' = self
  BY DEF RecordsKept
<1>2. TypeOK'
  BY <1>0, <1>1 DEF TypeOK
<1>3. RecordsInv'
  BY RecordsInvKept DEF RecorderInv
<1>4. ControlInv'
  BY <1>0, <1>1, RowsKept, ClassesKept DEF ControlInv
<1>5. CyclesInv'
  BY ClassesKept DEF CyclesInv
<1>6. RowsInv'
  BY <1>0, SameRows DEF RowsInv
<1>7. MissingInv'
  <2>1. LookedUp' = (InstanceClasses \ unsized') \cup FrameClasses
    BY ClassesKept DEF LookedUp
  <2>2. {c \in LookedUp : ~Named(c)}' = {c \in (InstanceClasses \ unsized') \cup FrameClasses : ~Named(c)}
    BY <2>1, ClassesKept
  <2>3. (UNION {Lineage(c) : c \in Entered})' = UNION {Lineage(c) : c \in Entered'}
    BY ClassesKept
  <2>4. {a \in UNION {Lineage(c) : c \in Entered} : DumpsOf(a) = {}}' =
          {a \in UNION {Lineage(c) : c \in Entered'} : DumpsOf(a) = {}}
    BY <2>3, PlacesKept
  <2> QED
    BY <2>2, <2>4 DEF MissingInv
<1> QED
  BY <1>2, <1>3, <1>4, <1>5, <1>6, <1>7 DEF RecorderInv

\* The turn of the next class: its first call begins and its name has been looked up.
LEMMA SizeClassStep ==
  ASSUME RecorderInv, NEW c \in unsized, SizeClass(c)
  PROVE  RecorderInv'
<1>0. /\ phase = "sizing" /\ walk = NoWalk /\ unsized' = unsized \ {c}
      /\ walk' = [class |-> c, calls |-> <<c>>, value |-> 0]
      /\ missing_class_ids' = missing_class_ids \cup Unnamed({c})
      /\ RecordsKept /\ phase' = phase /\ rows' = rows /\ result' = result
  BY DEF SizeClass, RecordsKept
<1>1. /\ TypeOK /\ StreamInv /\ StringsInv /\ LoadsInv /\ MaxDepth \in Nat \ {0}
      /\ unsized \subseteq InstanceClasses
      /\ \A x \in Entered : ~Cyclic(x)
      /\ missing_class_ids = {x \in (InstanceClasses \ unsized) \cup FrameClasses : ~Named(x)}
                               \cup {a \in UNION {Lineage(x) : x \in Entered} : DumpsOf(a) = {}}
      /\ InstanceClasses \subseteq ClassIds /\ ClassIds \subseteq Nat
  BY <1>0, Sizing
<1>2. walk' # NoWalk /\ walk'.class = c /\ walk'.calls = <<c>> /\ walk'.value = 0 /\ c \in ClassIds
  BY <1>0, <1>1 DEF NoWalk
<1>3. Sized' = Sized
  BY <1>0, <1>1, <1>2, ClassesKept DEF Sized
<1>4. Entered' = Entered
  BY <1>0, <1>1, <1>2, ClassesKept DEF Entered
<1>5. Unnamed({c}) = {x \in {c} : ~Named(x)}
  BY <1>1, NamesFound DEF Unnamed
<1>6. WalkInv'
  <2>1. Chain(c, <<c>>)
    <3>1. <<c>> \in Seq(ClassIds) /\ Len(<<c>>) = 1 /\ <<c>>[1] = c
      BY <1>2
    <3> QED
      BY <3>1 DEF Chain
  <2>2. Chain(c, <<c>>)'
    BY <1>0, <2>1, RowsKept
  <2>3. Chain(walk.class, walk.calls)'
    BY <1>0, <1>2, <2>1, RowsKept
  <2> QED
    BY <1>0, <1>1, <1>2, <2>3, ClassesKept DEF WalkInv
<1>7. missing_class_ids' = {x \in (InstanceClasses \ unsized') \cup FrameClasses : ~Named(x)}
                             \cup {a \in UNION {Lineage(x) : x \in Entered'} : DumpsOf(a) = {}}
  BY <1>0, <1>1, <1>4, <1>5
<1>8. missing_class_ids' \subseteq Nat
  BY <1>0, <1>1, <1>2, <1>5 DEF TypeOK
<1>9. walk' \in [class : Nat, calls : Seq(Nat), value : Nat] /\ Len(walk'.calls) <= MaxDepth
  <2>1. c \in Nat
    BY <1>1, <1>2
  <2>2. <<c>> \in Seq(Nat) /\ Len(<<c>>) = 1
    BY <2>1
  <2>3. walk' \in [class : Nat, calls : Seq(Nat), value : Nat]
    BY <1>0, <2>1, <2>2
  <2>4. 1 <= MaxDepth
    BY <1>1
  <2> QED
    BY <1>2, <2>2, <2>3, <2>4
<1>10. unsized' \subseteq unsized /\ \A x \in Entered' : ~Cyclic(x)
  BY <1>0, <1>1, <1>4
<1> QED
  BY <1>0, <1>3, <1>6, <1>7, <1>8, <1>9, <1>10, WalkStep

\* A call for the super class follows the lineage one class further.
LEMMA CallForSuperStep ==
  ASSUME RecorderInv, CallForSuper
  PROVE  RecorderInv'
<1> DEFINE c == Last(walk.calls)
           calls == walk.calls
<1>0. /\ phase = "sizing" /\ calls # << >> /\ walk.value = 0 /\ ~IsBase(c) /\ Len(calls) < MaxDepth
      /\ walk' = [walk EXCEPT !.calls = Append(@, ClassInfo[c].super)]
      /\ RecordsKept /\ phase' = phase /\ rows' = rows /\ result' = result
      /\ unsized' = unsized /\ missing_class_ids' = missing_class_ids
  BY DEF CallForSuper, RecordsKept, Entering
<1>1. /\ TypeOK /\ StreamInv /\ LayoutsInv /\ MaxDepth \in Nat \ {0}
      /\ \A x \in Entered : ~Cyclic(x)
      /\ missing_class_ids = {x \in (InstanceClasses \ unsized) \cup FrameClasses : ~Named(x)}
                               \cup {a \in UNION {Lineage(x) : x \in Entered} : DumpsOf(a) = {}}
      /\ InstanceClasses \subseteq ClassIds /\ ClassIds \subseteq Nat
  BY <1>0, Sizing
<1>2. walk # NoWalk
  BY <1>0 DEF NoWalk
<1>3. walk.class \in InstanceClasses \ unsized /\ Chain(walk.class, calls)
  BY <1>2 DEF RecorderInv, WalkInv
<1>4. Super(c) # 0 /\ ClassInfo[c].super = Super(c) /\ Super(c) \in ClassIds
  BY <1>0, <1>1, LayoutsFound, SupersKnown
<1>5. /\ calls \in Seq(ClassIds) /\ calls[1] = walk.class /\ Len(calls) \in Nat /\ Len(calls) > 0
      /\ \A k \in 1..(Len(calls) - 1) : Super(calls[k]) # 0 /\ calls[k + 1] = Super(calls[k])
      /\ c = calls[Len(calls)]
  BY <1>0, <1>3 DEF Chain, Last
<1>6. PICK more : more = Append(calls, Super(c))
  OBVIOUS
<1>7. walk \in [class : Nat, calls : Seq(Nat), value : Nat]
  BY <1>1 DEF TypeOK
<1>8. walk'.class = walk.class /\ walk'.calls = more /\ walk'.value = 0
  BY <1>0, <1>4, <1>6, <1>7
<1>9. /\ more \in Seq(ClassIds) /\ Len(more) = Len(calls) + 1 /\ more # << >> /\ more[1] = walk.class
      /\ \A k \in 1..Len(calls) : more[k] = calls[k]
      /\ more[Len(calls) + 1] = Super(c)
  BY <1>4, <1>5, <1>6
<1>10. Chain(walk.class, more)
  <2>1. ASSUME NEW k \in 1..(Len(more) - 1) PROVE Super(more[k]) # 0 /\ more[k + 1] = Super(more[k])
    <3>1. CASE k = Len(calls)
      BY <1>4, <1>5, <1>9, <3>1
    <3>2. CASE k # Len(calls)
      <4>1. k \in 1..(Len(calls) - 1) /\ k \in 1..Len(calls) /\ k + 1 \in 1..Len(calls)
        BY <1>5, <1>9, <3>2
      <4> QED
        BY <1>5, <1>9, <4>1
    <3> QED
      BY <3>1, <3>2
  <2> QED
    BY <1>9, <2>1 DEF Chain
<1>11. walk' # NoWalk /\ Sized' = Sized /\ Entered' = Entered
  <2>1. walk' # NoWalk
    BY <1>8, <1>9 DEF NoWalk
  <2> QED
    BY <1>0, <1>2, <1>8, <2>1, ClassesKept DEF Sized, Entered
<1>12. WalkInv'
  <2>1. Chain(walk.class, walk.calls)'
    BY <1>0, <1>8, <1>10, RowsKept
  <2> QED
    BY <1>0, <1>3, <1>8, <1>9, <2>1, ClassesKept DEF WalkInv
<1>13. walk' \in [class : Nat, calls : Seq(Nat), value : Nat] /\ Len(walk'.calls) <= MaxDepth
  <2>1. more \in Seq(Nat) /\ Len(more) <= MaxDepth
    BY <1>0, <1>1, <1>5, <1>9
  <2> QED
    BY <1>0, <1>4, <1>6, <1>7, <1>8, <2>1
<1>14. /\ unsized' \subseteq unsized /\ missing_class_ids' \subseteq Nat
       /\ \A x \in Entered' : ~Cyclic(x)
       /\ missing_class_ids' = {x \in (InstanceClasses \ unsized') \cup FrameClasses : ~Named(x)}
                                \cup {a \in UNION {Lineage(x) : x \in Entered'} : DumpsOf(a) = {}}
  BY <1>0, <1>1, <1>11 DEF TypeOK
<1> QED
  BY <1>0, <1>11, <1>12, <1>13, <1>14, WalkStep

(***************************************************************************)
(* Calls that return.                                                      *)
(***************************************************************************)

\* A sequence without repetition and its last element.
LEMMA FrontOf ==
  ASSUME NEW S, NEW s \in Seq(S), s # << >>, IsInjective(s)
  PROVE  /\ Front(s) \in Seq(S) /\ Len(Front(s)) = Len(s) - 1 /\ Len(s) \in Nat \ {0}
         /\ \A k \in 1..(Len(s) - 1) : Front(s)[k] = s[k]
         /\ IsInjective(Front(s)) /\ Last(s) \in S
         /\ Range(s) = Range(Front(s)) \cup {Last(s)} /\ Last(s) \notin Range(Front(s))
<1> DEFINE n == Len(s)
<1>1. n \in Nat \ {0} /\ DOMAIN s = 1..n /\ \A k \in 1..n : s[k] \in S
  OBVIOUS
<1>2. PICK f : f = Front(s)
  OBVIOUS
<1>3. f \in Seq(S) /\ Len(f) = n - 1 /\ \A k \in 1..(n - 1) : f[k] = s[k]
  BY <1>1, <1>2 DEF Front
<1>4. DOMAIN f = 1..(n - 1) /\ Last(s) = s[n] /\ Last(s) \in S
  BY <1>1, <1>3 DEF Last
<1>5. \A i, j \in 1..n : s[i] = s[j] => i = j
  BY <1>1 DEF IsInjective
<1> HIDE DEF n
<1>6. IsInjective(f)
  BY <1>1, <1>3, <1>4, <1>5 DEF IsInjective
<1>7. Range(s) = Range(f) \cup {s[n]}
  <2>1. 1..n = (1..(n - 1)) \cup {n}
    BY <1>1
  <2>2. Range(s) = {s[k] : k \in 1..n} /\ Range(f) = {s[k] : k \in 1..(n - 1)}
    BY <1>1, <1>3, <1>4 DEF Range
  <2> QED
    BY <2>1, <2>2
<1>8. s[n] \notin Range(f)
  BY <1>1, <1>3, <1>4, <1>5 DEF Range
<1> QED
  BY <1>1, <1>2, <1>3, <1>4, <1>6, <1>7, <1>8 DEF n

\* After a call has returned, the value is that of the classes that are left behind.
LEMMA Returned ==
  ASSUME RecorderInv, phase = "sizing", RecordsKept, phase' = phase, unsized' = unsized,
         walk # NoWalk, walk.calls # << >>, NEW v \in Nat, v # 0,
         walk' = [walk EXCEPT !.calls = Front(@), !.value = v],
         ~Cyclic(walk.class), IsInjective(walk.calls),
         Range(walk.calls) \subseteq Lineage(walk.class),
         \A a \in Range(Front(walk.calls)) : Super(a) # 0,
         v = SizeOf(Lineage(walk.class) \ Range(Front(walk.calls))), v % input.id_size = 0
  PROVE  /\ WalkInv' /\ Sized' = Sized /\ Entered' = Entered \cup {walk.class}
         /\ walk' \in [class : Nat, calls : Seq(Nat), value : Nat] /\ Len(walk'.calls) <= MaxDepth
<1> DEFINE c == walk.class
           calls == walk.calls
<1>1. /\ TypeOK /\ MaxDepth \in Nat /\ ClassIds \subseteq Nat
  BY Sizing
<1>2. c \in InstanceClasses \ unsized /\ Chain(c, calls)
  BY DEF RecorderInv, WalkInv
<1>3. /\ calls \in Seq(ClassIds) /\ calls[1] = c
      /\ \A k \in 1..(Len(calls) - 1) : Super(calls[k]) # 0 /\ calls[k + 1] = Super(calls[k])
  BY <1>2 DEF Chain
<1>4. walk \in [class : Nat, calls : Seq(Nat), value : Nat] /\ Len(calls) <= MaxDepth
  BY <1>1 DEF TypeOK
<1>5. PICK front : front = Front(calls)
  OBVIOUS
<1>6. walk'.class = c /\ walk'.calls = front /\ walk'.value = v /\ walk' # NoWalk
  <2>1. walk'.class = c /\ walk'.calls = front /\ walk'.value = v
    BY <1>4, <1>5
  <2>2. NoWalk.value = 0
    BY DEF NoWalk
  <2> QED
    BY <2>1, <2>2
<1>7. /\ front \in Seq(ClassIds) /\ Len(front) = Len(calls) - 1 /\ Len(calls) \in Nat \ {0}
      /\ \A k \in 1..(Len(calls) - 1) : front[k] = calls[k]
      /\ IsInjective(front) /\ Range(calls) = Range(front) \cup {Last(calls)}
  <2>1. calls \in Seq(ClassIds) /\ calls # << >> /\ IsInjective(calls)
    BY <1>3
  <2> HIDE DEF calls
  <2>2. /\ Front(calls) \in Seq(ClassIds) /\ Len(Front(calls)) = Len(calls) - 1
        /\ Len(calls) \in Nat \ {0} /\ \A k \in 1..(Len(calls) - 1) : Front(calls)[k] = calls[k]
        /\ IsInjective(Front(calls)) /\ Range(calls) = Range(Front(calls)) \cup {Last(calls)}
    BY <2>1, FrontOf
  <2> QED
    BY <1>5, <2>2
<1>8. Chain(c, front)
  <2>1. front # << >> => front[1] = c
    BY <1>3, <1>7
  <2>2. \A k \in 1..(Len(front) - 1) : Super(front[k]) # 0 /\ front[k + 1] = Super(front[k])
    <3> TAKE k \in 1..(Len(front) - 1)
    <3>1. k \in 1..(Len(calls) - 1) /\ k + 1 \in 1..(Len(calls) - 1)
      BY <1>7
    <3> QED
      BY <1>3, <1>7, <3>1
  <2> QED
    BY <1>7, <2>1, <2>2 DEF Chain
<1>9. Range(front) \subseteq Lineage(c)
  BY <1>7
<1>10. WalkInv'
  <2>1. Chain(walk.class, walk.calls)'
    BY <1>6, <1>8, RowsKept
  <2>2. (walk.class \in InstanceClasses \ unsized)' /\ ~Cyclic(walk.class)'
    BY <1>2, <1>6, ClassesKept
  <2>3. /\ IsInjective(walk'.calls) /\ Lineage(walk.class)' = Lineage(c)
        /\ (Range(walk.calls) \subseteq Lineage(walk.class))'
        /\ (\A a \in Range(walk.calls) : Super(a) # 0)'
    BY <1>5, <1>6, <1>7, <1>9, ClassesKept
  <2>4. (walk.value = SizeOf(Lineage(walk.class) \ Range(walk.calls)))'
    BY <1>5, <1>6, <2>3, RowsKept
  <2>5. (walk.value % input.id_size = 0)'
    BY <1>6 DEF RecordsKept
  <2> QED
    BY <1>6, <2>1, <2>2, <2>3, <2>4, <2>5 DEF WalkInv
<1>11. Sized' = Sized
  BY <1>6, ClassesKept DEF Sized
<1>12. Entered' = Entered \cup {c}
  BY <1>2, <1>6, ClassesKept DEF Entered
<1>13. walk' \in [class : Nat, calls : Seq(Nat), value : Nat] /\ Len(walk'.calls) <= MaxDepth
  <2>1. front \in Seq(Nat) /\ Len(front) <= MaxDepth
    BY <1>1, <1>4, <1>7
  <2> QED
    BY <1>4, <1>5, <1>6, <2>1
<1> QED
  BY <1>10, <1>11, <1>12, <1>13

\* The header is that of an object of the topmost class.
LEMMA HeaderSize ==
  ASSUME StreamInv, LayoutsInv, input.id_size \in {4, 8}, NEW c \in ClassIds, Super(c) = 0
  PROVE  /\ object_header_size(input.id_size) = SizeOf({c})
         /\ object_header_size(input.id_size) \in Nat \ {0}
         /\ object_header_size(input.id_size) % input.id_size = 0
<1>1. object_header_size(input.id_size) \in Nat \ {0}
  BY DEF object_header_size
<1>2. object_header_size(input.id_size) % input.id_size = 0
  <2>1. 8 % 4 = 0 /\ 16 % 8 = 0
    BY Z3
  <2> QED
    BY <2>1 DEF object_header_size
<1>3. object_header_size(input.id_size) = SizeOf({c})
  <2>1. PICK g : g = [a \in {x \in {c} : Super(x) # 0} |-> OwnSize(a)]
    OBVIOUS
  <2>2. DOMAIN g = {}
    BY <2>1
  <2>3. SumFunction(g) = 0
    BY <2>2, SetSumEmpty DEF SumFunction
  <2>4. PICK h \in Nat : h = object_header_size(input.id_size)
    BY <1>1
  <2>5. SizeOf({c}) = h + SumFunction(g)
    BY <2>1, <2>4 DEF SizeOf
  <2> QED
    BY <2>3, <2>4, <2>5
<1> QED
  BY <1>1, <1>2, <1>3

\* The innermost call returns: the lineage ends, so that no class of it is met twice.
LEMMA ReturnHeaderStep ==
  ASSUME RecorderInv, ReturnHeader
  PROVE  RecorderInv'
<1> DEFINE top == Last(walk.calls)
           c == walk.class
           v == object_header_size(input.id_size)
<1>0. /\ phase = "sizing" /\ walk.calls # << >> /\ walk.value = 0 /\ IsBase(top)
      /\ walk' = [walk EXCEPT !.calls = Front(@), !.value = v]
      /\ missing_class_ids' = missing_class_ids \cup ({top} \ DOMAIN ClassInfo)
      /\ RecordsKept /\ phase' = phase /\ rows' = rows /\ result' = result /\ unsized' = unsized
  BY DEF ReturnHeader, RecordsKept, Entering
<1>1. /\ TypeOK /\ StreamInv /\ LayoutsInv /\ input.id_size \in {4, 8}
      /\ \A x \in Entered : ~Cyclic(x)
      /\ missing_class_ids = {x \in (InstanceClasses \ unsized) \cup FrameClasses : ~Named(x)}
                               \cup {a \in UNION {Lineage(x) : x \in Entered} : DumpsOf(a) = {}}
      /\ ClassIds \subseteq Nat
  BY <1>0, Sizing
<1>2. walk # NoWalk
  BY <1>0 DEF NoWalk
<1>3. c \in InstanceClasses \ unsized /\ Chain(c, walk.calls)
  BY <1>2 DEF RecorderInv, WalkInv
<1>4. Super(top) = 0 /\ (top \in DOMAIN ClassInfo <=> DumpsOf(top) # {})
  BY <1>0, <1>1, LayoutsFound
<1>5. Lineage(c) = Range(walk.calls) /\ IsInjective(walk.calls) /\ ~Cyclic(c)
  BY <1>0, <1>1, <1>3, <1>4, ChainIsLineage
<1>6. walk.calls \in Seq(ClassIds)
  BY <1>3 DEF Chain
<1>7. /\ \A k \in 1..(Len(walk.calls) - 1) : Front(walk.calls)[k] = walk.calls[k]
      /\ Front(walk.calls) \in Seq(ClassIds) /\ Len(Front(walk.calls)) = Len(walk.calls) - 1
      /\ Range(walk.calls) = Range(Front(walk.calls)) \cup {top} /\ top \notin Range(Front(walk.calls))
      /\ top \in ClassIds
  BY <1>0, <1>5, <1>6, FrontOf
<1>8. \A a \in Range(Front(walk.calls)) : Super(a) # 0
  <2>1. \A k \in 1..(Len(walk.calls) - 1) : Super(walk.calls[k]) # 0
    BY <1>3 DEF Chain
  <2>2. DOMAIN Front(walk.calls) = 1..(Len(walk.calls) - 1)
    BY <1>7
  <2> QED
    BY <1>7, <2>1, <2>2 DEF Range
<1>9. Lineage(c) \ Range(Front(walk.calls)) = {top}
  BY <1>5, <1>7
<1>10. v \in Nat /\ v # 0 /\ v = SizeOf(Lineage(c) \ Range(Front(walk.calls))) /\ v % input.id_size = 0
  BY <1>1, <1>4, <1>7, <1>9, HeaderSize
<1>11. /\ WalkInv' /\ Sized' = Sized /\ Entered' = Entered \cup {c}
       /\ walk' \in [class : Nat, calls : Seq(Nat), value : Nat] /\ Len(walk'.calls) <= MaxDepth
  <2> HIDE DEF v, top
  <2> QED
    BY <1>0, <1>2, <1>5, <1>8, <1>10, Returned
<1>12. \A x \in Entered' : ~Cyclic(x)
  BY <1>1, <1>5, <1>11
<1>13. {top} \ DOMAIN ClassInfo = {a \in Lineage(c) : DumpsOf(a) = {}}
  <2>1. \A a \in Range(Front(walk.calls)) : DumpsOf(a) # {}
    BY <1>1, <1>8, SupersKnown
  <2> QED
    BY <1>4, <1>5, <1>7, <2>1
<1>14. missing_class_ids' = {x \in (InstanceClasses \ unsized') \cup FrameClasses : ~Named(x)}
                              \cup {a \in UNION {Lineage(x) : x \in Entered'} : DumpsOf(a) = {}}
  BY <1>0, <1>1, <1>11, <1>13
<1>15. missing_class_ids' \subseteq Nat /\ unsized' \subseteq unsized
  BY <1>0, <1>1, <1>7 DEF TypeOK
<1> QED
  BY <1>0, <1>11, <1>12, <1>14, <1>15, WalkStep

\* A call adds the fields of its class to the size of the lineage above and rounds up.
LEMMA ReturnSizeStep ==
  ASSUME RecorderInv, ReturnSize
  PROVE  RecorderInv'
<1> DEFINE top == Last(walk.calls)
           c == walk.class
           v == next_multiple_of(fields_size(top) + walk.value, input.id_size)
<1>0. /\ phase = "sizing" /\ walk.calls # << >> /\ walk.value # 0
      /\ walk' = [walk EXCEPT !.calls = Front(@), !.value = v]
      /\ RecordsKept /\ phase' = phase /\ rows' = rows /\ result' = result
      /\ unsized' = unsized /\ missing_class_ids' = missing_class_ids
  <2>1. TypeOK
    BY DEF RecorderInv
  <2>2. walk \in [class : Nat, calls : Seq(Nat), value : Nat]
    BY <2>1 DEF TypeOK
  <2> QED
    BY <2>2 DEF ReturnSize, RecordsKept
<1>1. /\ TypeOK /\ StreamInv /\ LayoutsInv /\ input.id_size \in {4, 8}
      /\ \A x \in Entered : ~Cyclic(x)
      /\ missing_class_ids = {x \in (InstanceClasses \ unsized) \cup FrameClasses : ~Named(x)}
                               \cup {a \in UNION {Lineage(x) : x \in Entered} : DumpsOf(a) = {}}
      /\ InstanceClasses \subseteq ClassIds
  BY <1>0, Sizing
<1>2. walk # NoWalk /\ walk.value \in Nat
  <2>1. walk # NoWalk
    BY <1>0 DEF NoWalk
  <2> QED
    BY <1>1, <2>1 DEF TypeOK
<1>3. /\ c \in InstanceClasses \ unsized /\ Chain(c, walk.calls)
      /\ ~Cyclic(c) /\ IsInjective(walk.calls) /\ Range(walk.calls) \subseteq Lineage(c)
      /\ \A a \in Range(walk.calls) : Super(a) # 0
      /\ walk.value = SizeOf(Lineage(c) \ Range(walk.calls))
      /\ walk.value % input.id_size = 0
  BY <1>0, <1>2 DEF RecorderInv, WalkInv
<1>4. walk.calls \in Seq(ClassIds)
  BY <1>3 DEF Chain
<1>5. /\ Range(walk.calls) = Range(Front(walk.calls)) \cup {top} /\ top \notin Range(Front(walk.calls))
      /\ top \in ClassIds
  BY <1>0, <1>3, <1>4, FrontOf
<1>6. PICK S : S = Lineage(c) \ Range(walk.calls)
  OBVIOUS
<1>7. S \in SUBSET ClassIds /\ top \notin S /\ Lineage(c) \ Range(Front(walk.calls)) = S \cup {top}
  <2>1. Lineage(c) \subseteq ClassIds
    BY <1>1, <1>3, LineageIsLeast
  <2> QED
    BY <1>3, <1>5, <1>6, <2>1
<1>8. Super(top) # 0
  BY <1>3, <1>5
<1>9. SizeOf(S \cup {top}) = SizeOf(S) + OwnSize(top)
  BY <1>1, <1>5, <1>7, <1>8, SizeOfGrows
<1>10. OwnSize(top) \in Nat /\ fields_size(top) \in Nat
       /\ OwnSize(top) = next_multiple_of(fields_size(top), input.id_size)
  BY <1>1, <1>8, OwnSizes, LayoutsFound
<1>11. v = walk.value + OwnSize(top) /\ v % input.id_size = 0
  <2>1. PICK f \in Nat : f = fields_size(top)
    BY <1>10
  <2>2. PICK m \in {4, 8} : m = input.id_size
    BY <1>1
  <2>3. /\ next_multiple_of(f + walk.value, m) = walk.value + next_multiple_of(f, m)
        /\ next_multiple_of(f + walk.value, m) % m = 0
    BY <1>2, <1>3, <2>2, RoundedUp
  <2> QED
    BY <1>10, <2>1, <2>2, <2>3
<1> HIDE DEF v
<1>12. v \in Nat /\ v # 0 /\ v = SizeOf(Lineage(c) \ Range(Front(walk.calls)))
  <2>1. v = SizeOf(S \cup {top})
    BY <1>3, <1>6, <1>9, <1>11
  <2>2. v \in Nat /\ v # 0
    BY <1>0, <1>2, <1>10, <1>11
  <2>3. SizeOf(S \cup {top}) = SizeOf(Lineage(c) \ Range(Front(walk.calls)))
    BY <1>7
  <2> HIDE DEF top, c
  <2> QED
    BY <2>1, <2>2, <2>3
<1>13. /\ WalkInv' /\ Sized' = Sized /\ Entered' = Entered \cup {c}
       /\ walk' \in [class : Nat, calls : Seq(Nat), value : Nat] /\ Len(walk'.calls) <= MaxDepth
  <2>1. \A a \in Range(Front(walk.calls)) : Super(a) # 0
    BY <1>3, <1>5
  <2> HIDE DEF top
  <2> QED
    BY <1>0, <1>2, <1>3, <1>11, <1>12, <2>1, Returned
<1>14. Entered' = Entered
  BY <1>0, <1>3, <1>13 DEF Entered
<1>15. /\ unsized' \subseteq unsized /\ missing_class_ids' \subseteq Nat
       /\ \A x \in Entered' : ~Cyclic(x)
       /\ missing_class_ids' = {x \in (InstanceClasses \ unsized') \cup FrameClasses : ~Named(x)}
                                \cup {a \in UNION {Lineage(x) : x \in Entered'} : DumpsOf(a) = {}}
  BY <1>0, <1>1, <1>14 DEF TypeOK
<1> QED
  BY <1>0, <1>13, <1>15, WalkStep

(***************************************************************************)
(* Rows in some order.                                                     *)
(***************************************************************************)

\* Rows by other keys.
LEMMA RowsRenamed ==
  ASSUME NEW s, NEW K, NEW F, AreRows(s, K, F), NEW L, NEW b \in Bijection(K, L),
         NEW G, \A k \in K : G[b[k]] = F[k]
  PROVE  AreRows(s, L, G)
<1>1. PICK h \in Bijection(DOMAIN s, K) : \A i \in DOMAIN s : s[i] = F[h[i]]
  BY DEF AreRows
<1>2. h \in [DOMAIN s -> K]
  BY <1>1, Fun_BijectionProperties
<1>3. PICK g : g = [i \in DOMAIN s |-> b[h[i]]]
  OBVIOUS
<1>4. g \in Bijection(DOMAIN s, L)
  BY <1>1, <1>3, Fun_BijTransitive
<1>5. \A i \in DOMAIN s : s[i] = G[g[i]]
  BY <1>1, <1>2, <1>3
<1> QED
  BY <1>4, <1>5 DEF AreRows

\* Rows that change places.
LEMMA RowsPermuted ==
  ASSUME NEW s, NEW K, NEW F, AreRows(s, K, F), NEW p \in Bijection(DOMAIN s, DOMAIN s),
         NEW t, t = [k \in DOMAIN s |-> s[p[k]]]
  PROVE  AreRows(t, K, F)
<1>1. PICK h \in Bijection(DOMAIN s, K) : \A i \in DOMAIN s : s[i] = F[h[i]]
  BY DEF AreRows
<1>2. p \in [DOMAIN s -> DOMAIN s]
  BY Fun_BijectionProperties
<1>3. PICK g : g = [i \in DOMAIN s |-> h[p[i]]]
  OBVIOUS
<1>4. g \in Bijection(DOMAIN s, K) /\ DOMAIN t = DOMAIN s
  BY <1>1, <1>3, Fun_BijTransitive
<1>5. \A i \in DOMAIN t : t[i] = F[g[i]]
  BY <1>1, <1>2, <1>3
<1> QED
  BY <1>4, <1>5 DEF AreRows

\* Rows one after the other.
LEMMA RowsJoined ==
  ASSUME NEW T, NEW s \in Seq(T), NEW t \in Seq(T), NEW K, NEW L, K \cap L = {},
         NEW F, AreRows(s, K, F), AreRows(t, L, F)
  PROVE  AreRows(s \o t, K \cup L, F) /\ s \o t \in Seq(T)
<1>1. PICK h \in Bijection(DOMAIN s, K) : \A i \in DOMAIN s : s[i] = F[h[i]]
  BY DEF AreRows
<1>2. PICK g \in Bijection(DOMAIN t, L) : \A i \in DOMAIN t : t[i] = F[g[i]]
  BY DEF AreRows
<1>3. PICK m \in Nat : m = Len(s)
  OBVIOUS
<1>4. PICK n \in Nat : n = Len(t)
  OBVIOUS
<1>5. DOMAIN s = 1..m /\ DOMAIN t = 1..n
  BY <1>3, <1>4
<1>6. PICK st : st = s \o t
  OBVIOUS
<1>7. st \in Seq(T) /\ DOMAIN st = 1..(m + n)
  BY <1>3, <1>4, <1>6
<1>8. /\ \A i \in 1..m : st[i] = s[i]
      /\ \A i \in (m + 1)..(m + n) : st[i] = t[i - m]
  BY <1>3, <1>4, <1>6
<1>9. /\ h \in [1..m -> K] /\ \A a, b \in 1..m : h[a] = h[b] => a = b
      /\ \A k \in K : \E a \in 1..m : h[a] = k
  BY <1>1, <1>5, Fun_BijectionProperties
<1>10. /\ g \in [1..n -> L] /\ \A a, b \in 1..n : g[a] = g[b] => a = b
       /\ \A k \in L : \E a \in 1..n : g[a] = k
  BY <1>2, <1>5, Fun_BijectionProperties
<1>11. PICK f : f = [i \in 1..(m + n) |-> IF i <= m THEN h[i] ELSE g[i - m]]
  OBVIOUS
<1>12. /\ \A i \in 1..m : f[i] = h[i] /\ f[i] \in K
       /\ \A i \in (m + 1)..(m + n) : f[i] = g[i - m] /\ f[i] \in L /\ i - m \in 1..n
  BY <1>9, <1>10, <1>11
<1>13. \A i \in 1..(m + n) : i \in 1..m \/ i \in (m + 1)..(m + n)
  OBVIOUS
<1>14. f \in [1..(m + n) -> K \cup L]
  BY <1>11, <1>12, <1>13
<1>15. \A a, b \in 1..(m + n) : f[a] = f[b] => a = b
  <2> SUFFICES ASSUME NEW a \in 1..(m + n), NEW b \in 1..(m + n), f[a] = f[b] PROVE a = b
    OBVIOUS
  <2>1. CASE a \in 1..m /\ b \in 1..m
    BY <1>9, <1>12, <2>1
  <2>2. CASE a \in (m + 1)..(m + n) /\ b \in (m + 1)..(m + n)
    <3>1. a - m = b - m
      BY <1>10, <1>12, <2>2
    <3> QED
      BY <3>1
  <2>3. CASE a \in 1..m /\ b \in (m + 1)..(m + n)
    BY <1>12, <2>3
  <2>4. CASE a \in (m + 1)..(m + n) /\ b \in 1..m
    BY <1>12, <2>4
  <2> QED
    BY <1>13, <2>1, <2>2, <2>3, <2>4
<1>16. \A k \in K \cup L : \E a \in 1..(m + n) : f[a] = k
  <2>1. ASSUME NEW k \in K PROVE \E a \in 1..(m + n) : f[a] = k
    <3>1. PICK a \in 1..m : h[a] = k
      BY <1>9
    <3> QED
      BY <1>12, <3>1
  <2>2. ASSUME NEW k \in L PROVE \E a \in 1..(m + n) : f[a] = k
    <3>1. PICK a \in 1..n : g[a] = k
      BY <1>10
    <3>2. a + m \in (m + 1)..(m + n) /\ a + m \in 1..(m + n) /\ (a + m) - m = a
      BY <3>1
    <3>3. f[a + m] = g[(a + m) - m]
      BY <1>12, <3>2
    <3> QED
      BY <3>1, <3>2, <3>3
  <2> QED
    BY <2>1, <2>2
<1>17. f \in Bijection(1..(m + n), K \cup L)
  BY <1>14, <1>15, <1>16, Fun_IsBij
<1>18. \A i \in 1..(m + n) : st[i] = F[f[i]]
  <2> TAKE i \in 1..(m + n)
  <2>1. CASE i \in 1..m
    BY <1>1, <1>5, <1>8, <1>12, <2>1
  <2>2. CASE i \in (m + 1)..(m + n)
    BY <1>2, <1>5, <1>8, <1>12, <2>2
  <2> QED
    BY <1>13, <2>1, <2>2
<1>19. AreRows(st, K \cup L, F)
  BY <1>7, <1>17, <1>18 DEF AreRows
<1> QED
  BY <1>6, <1>7, <1>19

\* A single row.
LEMMA OneRow ==
  ASSUME NEW x, NEW k, NEW F, F[k] = x
  PROVE  AreRows(<<x>>, {k}, F)
<1>1. PICK h : h = [i \in 1..1 |-> k]
  OBVIOUS
<1>2. DOMAIN <<x>> = 1..1 /\ <<x>>[1] = x
  OBVIOUS
<1>3. h \in [1..1 -> {k}] /\ h[1] = k
  BY <1>1
<1>4. \A a, b \in 1..1 : h[a] = h[b] => a = b
  OBVIOUS
<1>5. \A y \in {k} : \E a \in 1..1 : h[a] = y
  BY <1>3
<1>6. h \in Bijection(1..1, {k})
  BY <1>3, <1>4, <1>5, Fun_IsBij
<1>7. \A i \in 1..1 : <<x>>[i] = F[h[i]]
  BY <1>2, <1>3
<1> QED
  BY <1>2, <1>6, <1>7 DEF AreRows

\* The same rows for keys with the same rows.
LEMMA RowsAgree ==
  ASSUME NEW s, NEW K, NEW F, AreRows(s, K, F), NEW G, \A k \in K : G[k] = F[k]
  PROVE  AreRows(s, K, G)
<1>1. PICK h \in Bijection(DOMAIN s, K) : \A i \in DOMAIN s : s[i] = F[h[i]]
  BY DEF AreRows
<1>2. h \in [DOMAIN s -> K]
  BY <1>1, Fun_BijectionProperties
<1> QED
  BY <1>1, <1>2 DEF AreRows

\* The elements of a finite set in the order of a hash map.
LEMMA SetToSeqIsBijection ==
  ASSUME NEW S, IsFiniteSet(S)
  PROVE  SetToSeq(S) \in Bijection(1..Cardinality(S), S) /\ Cardinality(S) \in Nat
<1>1. Cardinality(S) \in Nat
  BY FS_CardinalityType
<1>2. PICK n \in Nat : n = Cardinality(S)
  BY <1>1
<1>3. ExistsBijection(1..n, S)
  BY <1>2, FS_NatBijection, FS_CountingElements
<1>4. PICK f \in Bijection(1..n, S) : TRUE
  BY <1>3, Fun_ExistsBij
<1>5. f \in [1..n -> S] /\ IsInjective(f)
  <2>1. f \in [1..n -> S] /\ \A a, b \in 1..n : f[a] = f[b] => a = b
    BY <1>4, Fun_BijectionProperties
  <2> QED
    BY <2>1 DEF IsInjective
<1>6. PICK g : g = SetToSeq(S)
  OBVIOUS
<1>7. g \in [1..n -> S] /\ IsInjective(g)
  BY <1>2, <1>5, <1>6 DEF SetToSeq
<1>8. g \in Injection(1..n, S)
  <2>1. \A a, b \in 1..n : g[a] = g[b] => a = b
    BY <1>7 DEF IsInjective
  <2> QED
    BY <1>7, <2>1, Fun_IsInj
<1>9. IsFiniteSet(1..n) /\ Cardinality(1..n) = n
  BY NumbersUpTo
<1>10. g \in Surjection(1..n, S)
  BY <1>2, <1>8, <1>9, FS_Injection
<1>11. g \in Bijection(1..n, S)
  BY <1>8, <1>10, Fun_IsBij
<1> QED
  BY <1>1, <1>2, <1>6, <1>11

(***************************************************************************)
(* The rows have their types.                                              *)
(***************************************************************************)

\* The latest of some places is one of them.
LEMMA LatestIsOne ==
  ASSUME StreamInv, NEW at, at \subseteq DOMAIN stream, at # {}
  PROVE  Max(at) \in at /\ Latest(at) = stream[Max(at)] /\ Latest(at) \in Records
<1>1. IsFiniteSet(at) /\ at \in SUBSET Nat
  BY PlacesFinite
<1>2. Max(at) \in at
  BY <1>1, LargestExists
<1>3. \A i \in at : stream[i] \in Records
  BY DEF StreamInv
<1> QED
  BY <1>2, <1>3 DEF Latest

\* Names are labels.
LEMMA NamesAreLabels ==
  ASSUME StreamInv, NEW c \in Nat
  PROVE  NameOf(c) \in Labels /\ [NameOf(c) EXCEPT !.pre = "none", !.array = TRUE] \in Labels
<1>1. NameOf(c) \in Labels
  <2>1. CASE Named(c)
    <3>1. PICK n : n = Latest(LoadsOf(c)).name
      OBVIOUS
    <3>2. StringsOf(n) # {} /\ StringsOf(n) \subseteq DOMAIN stream
      BY <2>1, <3>1 DEF Named, StringsOf, Of
    <3>3. PICK i : i = Max(StringsOf(n))
      OBVIOUS
    <3>4. i \in StringsOf(n) /\ Latest(StringsOf(n)) = stream[i] /\ stream[i] \in Records
      BY <3>2, <3>3, LatestIsOne
    <3>5. stream[i].str \in Strings
      BY <3>4, RecordFields DEF StringsOf, Of
    <3>6. PICK s \in Strings : s = Latest(StringsOf(n)).str
      BY <3>4, <3>5
    <3>7. s.pre \in {"none", "L", "LL"} /\ s.base \in Nat
      BY <3>6 DEF Strings
    <3>8. NameOf(c) = Label("class", s.pre, s.base, FALSE)
      BY <2>1, <3>1, <3>6 DEF NameOf
    <3> QED
      BY <3>7, <3>8 DEF Label, Labels, LabelCode, PrefixCode
  <2>2. CASE ~Named(c)
    BY <2>2 DEF NameOf, Label, Labels, LabelCode, PrefixCode
  <2> QED
    BY <2>1, <2>2
<1>2. PICK l \in Labels : l = NameOf(c)
  BY <1>1
<1>3. [l EXCEPT !.pre = "none", !.array = TRUE] \in Labels
  BY DEF Labels, LabelCode, PrefixCode
<1> QED
  BY <1>1, <1>2, <1>3

\* The row of arrays that were recorded.
LEMMA ArrayRowsAreRows ==
  ASSUME StreamInv, input.id_size \in {4, 8}, NEW name \in Labels,
         NEW at, at \subseteq DOMAIN stream, at # {}
  PROVE  ArrayRow(name, at) \in Rows
<1>1. IsFiniteSet(at) /\ Cardinality(at) \in Nat
  BY PlacesFinite
<1>2. \A i \in at : ArrayBytes(i) \in Nat
  <2> TAKE i \in at
  <2>1. stream[i] \in Records
    BY DEF StreamInv
  <2>2. ArrayBytes(i) = BytesOf(stream[i])
    BY DEF ArrayBytes, BytesOf
  <2> QED
    BY <2>1, <2>2, BytesAreNat
<1>3. PICK f : f = [i \in at |-> ArrayBytes(i)]
  OBVIOUS
<1>4. f \in [at -> Nat] /\ DOMAIN f = at /\ \A i \in at : f[i] \in Nat
  BY <1>2, <1>3
<1>5. SumFunction(f) \in Nat
  BY <1>1, <1>4, SetSumType DEF SumFunction
<1>6. Max(Range(f)) \in Nat
  <2>1. Range(f) \in SUBSET Nat /\ Range(f) # {}
    BY <1>4 DEF Range
  <2>2. f \in Surjection(at, Range(f))
    BY <1>4, Fun_RangeProperties
  <2>3. IsFiniteSet(Range(f))
    BY <1>1, <2>2, FS_Surjection
  <2> QED
    BY <2>1, <2>3, LargestExists
<1>7. Range(f) = {ArrayBytes(i) : i \in at}
  BY <1>3 DEF Range
<1>8. ArrayRow(name, at) = stats(name, Cardinality(at), Max(Range(f)), SumFunction(f))
  BY <1>3, <1>7 DEF ArrayRow
<1> QED
  BY <1>1, <1>5, <1>6, <1>8 DEF stats, Rows

\* The row of the instances of a class.
LEMMA InstanceRowsAreRows ==
  ASSUME StreamInv, LayoutsInv, input.id_size \in {4, 8}, NEW c \in InstanceClasses
  PROVE  InstanceRow(c) \in Rows
<1>1. c \in ClassIds /\ c \in Nat
  BY SupersKnown
<1>2. NameOf(c) \in Labels
  BY <1>1, NamesAreLabels
<1>3. SizeOf(Lineage(c)) \in Nat
  <2>1. Lineage(c) \in SUBSET ClassIds
    BY <1>1, LineageIsLeast
  <2>2. IsFiniteSet({x \in Lineage(c) : Super(x) # 0})
    BY <2>1, SupersKnown, FS_Subset
  <2>3. \A x \in {x \in Lineage(c) : Super(x) # 0} : OwnSize(x) \in Nat
    BY OwnSizes
  <2>4. PICK f : f = [a \in {x \in Lineage(c) : Super(x) # 0} |-> OwnSize(a)]
    OBVIOUS
  <2>5. IsFiniteSet(DOMAIN f) /\ \A x \in DOMAIN f : f[x] \in Nat
    BY <2>2, <2>3, <2>4
  <2>6. SumFunction(f) \in Nat
    BY <2>5, SetSumType DEF SumFunction
  <2>7. object_header_size(input.id_size) \in Nat
    BY DEF object_header_size
  <2>8. PICK h \in Nat : h = object_header_size(input.id_size)
    BY <2>7
  <2>9. SizeOf(Lineage(c)) = h + SumFunction(f)
    BY <2>4, <2>8 DEF SizeOf
  <2> QED
    BY <2>6, <2>9
<1>4. InstanceSize(c) \in Nat
  BY <1>3, MultipleIsNat DEF InstanceSize, OBJECT_ALIGN
<1>5. Cardinality(InstancesOf(c)) \in Nat
  <2>1. \A i \in InstancesOf(c) : i \in DOMAIN stream
    BY DEF InstancesOf, Of
  <2> QED
    BY <2>1, PlacesFinite
<1>6. PICK n \in Nat : n = Cardinality(InstancesOf(c))
  BY <1>5
<1>7. PICK size \in Nat : size = InstanceSize(c)
  BY <1>4
<1>8. InstanceRow(c) = stats(NameOf(c), n, size, size * n)
  BY <1>6, <1>7 DEF InstanceRow
<1>9. size * n \in Nat
  OBVIOUS
<1> QED
  BY <1>2, <1>8, <1>9 DEF stats, Rows

(***************************************************************************)
(* A class that has its size.                                              *)
(***************************************************************************)

\* The row of a class is made when its outermost call has returned.
LEMMA ClassSizedStep ==
  ASSUME RecorderInv, ClassSized
  PROVE  RecorderInv'
<1> DEFINE c == walk.class
           count == self.classes_all_instance_total_size_by_id[c]
           size == next_multiple_of(walk.value, OBJECT_ALIGN)
           row == stats(get_class_name_string(c), count, size, size * count)
<1>0. /\ phase = "sizing" /\ walk # NoWalk /\ walk.calls = << >>
      /\ rows' = Append(rows, row) /\ walk' = NoWalk
      /\ RecordsKept /\ phase' = phase /\ result' = result
      /\ unsized' = unsized /\ missing_class_ids' = missing_class_ids
  BY DEF ClassSized, RecordsKept
<1>1. /\ TypeOK /\ StreamInv /\ StringsInv /\ LoadsInv /\ LayoutsInv /\ InstancesInv
      /\ input.id_size \in {4, 8} /\ MaxDepth \in Nat \ {0}
      /\ left = {} /\ unsized \subseteq InstanceClasses /\ ThreadsRight(result.thread_info)
      /\ rows \in Seq(Rows) /\ AreRows(rows, Sized, [x \in Sized |-> InstanceRow(x)])
      /\ \A x \in Entered : ~Cyclic(x)
      /\ missing_class_ids = {x \in (InstanceClasses \ unsized) \cup FrameClasses : ~Named(x)}
                               \cup {a \in UNION {Lineage(x) : x \in Entered} : DumpsOf(a) = {}}
  BY <1>0, Sizing
<1>2. /\ c \in InstanceClasses \ unsized /\ walk.value # 0
      /\ walk.value = SizeOf(Lineage(c) \ Range(walk.calls))
  BY <1>0 DEF RecorderInv, WalkInv
<1>3. row = InstanceRow(c)
  <2>1. Range(walk.calls) = {}
    BY <1>0 DEF Range
  <2>2. walk.value = SizeOf(Lineage(c))
    <3>1. Lineage(c) \ Range(walk.calls) = Lineage(c)
      BY <2>1
    <3> QED
      BY <1>2, <3>1
  <2>3. size = InstanceSize(c)
    BY <2>2 DEF InstanceSize
  <2>4. count = Cardinality(InstancesOf(c))
    BY <1>1, <1>2 DEF InstancesInv
  <2>5. get_class_name_string(c) = NameOf(c)
    BY <1>1, NamesFound
  <2> QED
    BY <2>3, <2>4, <2>5 DEF InstanceRow
<1>4. InstanceRow(c) \in Rows
  BY <1>1, <1>2, InstanceRowsAreRows
<1>5. Sized' = Sized \cup {c} /\ c \notin Sized /\ Entered' = Entered
  BY <1>0, <1>2, ClassesKept DEF Sized, Entered
<1>6. rows' \in Seq(Rows) /\ rows' = rows \o <<InstanceRow(c)>>
  BY <1>0, <1>1, <1>3, <1>4
<1>7. AreRows(rows, Sized, [x \in Sized |-> InstanceRow(x)])'
  <2>1. PICK F : F = [x \in Sized \cup {c} |-> InstanceRow(x)]
    OBVIOUS
  <2>2. AreRows(rows, Sized, F)
    <3>1. PICK G : G = [x \in Sized |-> InstanceRow(x)]
      OBVIOUS
    <3>2. AreRows(rows, Sized, G) /\ \A x \in Sized : F[x] = G[x]
      BY <1>1, <2>1, <3>1
    <3> QED
      BY <3>2, RowsAgree
  <2>3. AreRows(<<InstanceRow(c)>>, {c}, F)
    BY <2>1, OneRow
  <2>4. <<InstanceRow(c)>> \in Seq(Rows)
    BY <1>4
  <2>5. AreRows(rows', Sized \cup {c}, F)
    <3>1. Sized \cap {c} = {}
      BY <1>5
    <3> QED
      BY <1>1, <1>6, <2>2, <2>3, <2>4, <3>1, RowsJoined
  <2>6. [x \in Sized |-> InstanceRow(x)]' = F
    BY <1>0, <1>5, <2>1, RowsKept
  <2> QED
    BY <1>5, <2>5, <2>6 DEF AreRows
<1> HIDE DEF c, row, size, count
<1>8. input' = input /\ left' = left /\ stream' = stream /\ self' = self
  BY <1>0 DEF RecordsKept
<1>9. TypeOK'
  <2>1. NoWalk \in [class : Nat, calls : Seq(Nat), value : Nat] /\ Len(NoWalk.calls) <= MaxDepth
    BY <1>1 DEF NoWalk
  <2> QED
    BY <1>0, <1>1, <1>8, <2>1 DEF TypeOK
<1>10. RecordsInv'
  BY <1>0, RecordsInvKept DEF RecorderInv
<1>11. ControlInv'
  BY <1>0, <1>1, <1>8, RowsKept, ClassesKept DEF ControlInv
<1>12. WalkInv' /\ CyclesInv'
  BY <1>0, <1>1, <1>5, ClassesKept DEF WalkInv, CyclesInv
<1>13. RowsInv'
  BY <1>0, <1>6, <1>7 DEF RowsInv
<1>14. MissingInv'
  <2>1. LookedUp' = (InstanceClasses \ unsized) \cup FrameClasses
    BY <1>0, ClassesKept DEF LookedUp
  <2>2. {x \in LookedUp : ~Named(x)}' = {x \in (InstanceClasses \ unsized) \cup FrameClasses : ~Named(x)}
    BY <1>0, <2>1, ClassesKept
  <2>3. (UNION {Lineage(x) : x \in Entered})' = UNION {Lineage(x) : x \in Entered}
    BY <1>0, <1>5, ClassesKept
  <2>4. {a \in UNION {Lineage(x) : x \in Entered} : DumpsOf(a) = {}}' =
          {a \in UNION {Lineage(x) : x \in Entered} : DumpsOf(a) = {}}
    BY <1>0, <2>3, PlacesKept
  <2> QED
    BY <1>0, <1>1, <2>2, <2>4 DEF MissingInv
<1> QED
  BY <1>9, <1>10, <1>11, <1>12, <1>13, <1>14 DEF RecorderInv

(***************************************************************************)
(* Steps that leave the classes and the walk as they are.                  *)
(***************************************************************************)

\* What is said of the classes whose turn has come stays.
LEMMA TurnsKept ==
  ASSUME RecordsKept, unsized' = unsized, walk' = walk
  PROVE  /\ Sized' = Sized /\ Entered' = Entered
         /\ WalkInv /\ (walk # NoWalk => phase' \in {"sizing", "aborted"}) => WalkInv'
         /\ CyclesInv /\ phase # "recording" => CyclesInv'
         /\ {a \in UNION {Lineage(c) : c \in Entered} : DumpsOf(a) = {}}' =
              {a \in UNION {Lineage(c) : c \in Entered} : DumpsOf(a) = {}}
<1>1. Sized' = Sized /\ Entered' = Entered
  BY ClassesKept DEF Sized, Entered
<1>2. CyclesInv /\ phase # "recording" => CyclesInv'
  BY <1>1, ClassesKept DEF CyclesInv
<1>3. ASSUME WalkInv, walk # NoWalk => phase' \in {"sizing", "aborted"} PROVE WalkInv'
  <2>1. Chain(walk.class, walk.calls)' <=> Chain(walk.class, walk.calls)
    BY RowsKept
  <2>2. Cyclic(walk.class)' = Cyclic(walk.class) /\ Lineage(walk.class)' = Lineage(walk.class)
    BY ClassesKept
  <2>3. (walk.class \in InstanceClasses \ unsized)' = (walk.class \in InstanceClasses \ unsized)
    BY ClassesKept
  <2>4. (\A a \in Range(walk.calls) : Super(a) # 0)' <=> \A a \in Range(walk.calls) : Super(a) # 0
    BY ClassesKept
  <2>5. SizeOf(Lineage(walk.class) \ Range(walk.calls))' = SizeOf(Lineage(walk.class) \ Range(walk.calls))
    BY <2>2, RowsKept
  <2>6. input' = input
    BY DEF RecordsKept
  <2> QED
    BY <1>3, <2>1, <2>2, <2>3, <2>4, <2>5, <2>6 DEF WalkInv
<1>4. (UNION {Lineage(c) : c \in Entered})' = UNION {Lineage(c) : c \in Entered}
  BY <1>1, ClassesKept
<1>5. {a \in UNION {Lineage(c) : c \in Entered} : DumpsOf(a) = {}}' =
        {a \in UNION {Lineage(c) : c \in Entered} : DumpsOf(a) = {}}
  BY <1>4, PlacesKept
<1> QED
  BY <1>1, <1>2, <1>3, <1>5

\* The thread that is stopped leaves everything as it was.
LEMMA StoppedStep ==
  ASSUME RecorderInv, StackOverflows \/ ArrayNamePanics
  PROVE  RecorderInv'
<1>0. /\ phase = "sizing" /\ RecordsKept /\ unsized' = unsized /\ walk' = walk /\ rows' = rows
      /\ missing_class_ids' = missing_class_ids /\ result' = result
      /\ phase' \in {"aborted", "panicked"} /\ (walk # NoWalk => phase' = "aborted")
  BY DEF StackOverflows, ArrayNamePanics, RecordsKept, Entering
<1>1. /\ TypeOK /\ left = {} /\ unsized \subseteq InstanceClasses /\ ThreadsRight(result.thread_info)
      /\ rows \in Seq(Rows)
  BY <1>0, Sizing
<1>2. input' = input /\ left' = left /\ stream' = stream /\ self' = self
  BY <1>0 DEF RecordsKept
<1>3. TypeOK'
  BY <1>0, <1>1, <1>2 DEF TypeOK
<1>4. RecordsInv'
  BY <1>0, RecordsInvKept DEF RecorderInv
<1>5. ControlInv'
  BY <1>0, <1>1, <1>2, RowsKept, ClassesKept DEF ControlInv
<1>6. WalkInv' /\ CyclesInv'
  BY <1>0, TurnsKept DEF RecorderInv
<1>7. RowsInv' /\ MissingInv'
  BY <1>0, <1>1 DEF RowsInv, MissingInv
<1> QED
  BY <1>3, <1>4, <1>5, <1>6, <1>7 DEF RecorderInv

\* The result has the rows and the threads that are there.
LEMMA RenderResultStep ==
  ASSUME RecorderInv, RenderResult
  PROVE  RecorderInv'
<1>0. /\ phase = "rendering" /\ phase' = "rendered" /\ RecordsKept /\ unsized' = unsized
      /\ walk' = walk /\ rows' = rows /\ missing_class_ids' = missing_class_ids
      /\ result'.thread_info = result.thread_info /\ result'.memory_usage = rows
  BY DEF RenderResult, RecordsKept
<1>1. /\ TypeOK /\ left = {} /\ unsized = {} /\ walk = NoWalk /\ ThreadsRight(result.thread_info)
      /\ rows \in Seq(Rows) /\ AreRows(rows, RowKeys, ExpectedRows) /\ Ordered(rows)
      /\ unsized \subseteq InstanceClasses
  BY <1>0 DEF RecorderInv, ControlInv, RowsInv
<1>2. input' = input /\ left' = left /\ stream' = stream /\ self' = self
  BY <1>0 DEF RecordsKept
<1>3. TypeOK'
  BY <1>0, <1>1, <1>2 DEF TypeOK
<1>4. RecordsInv'
  BY <1>0, RecordsInvKept DEF RecorderInv
<1>5. ControlInv'
  <2>1. ThreadsRight(result.thread_info)'
    <3>1. \A threads : ThreadsRight(threads)' <=> ThreadsRight(threads)
      BY <1>0, RowsKept
    <3> QED
      BY <1>0, <1>1, <3>1
  <2> QED
    BY <1>0, <1>1, <1>2, <2>1 DEF ControlInv
<1>6. WalkInv' /\ CyclesInv'
  BY <1>0, <1>1, TurnsKept DEF RecorderInv
<1>7. RowsInv'
  <2>1. RowKeys' = RowKeys /\ ExpectedRows' = ExpectedRows
    BY <1>0, RowsKept, ClassesKept
  <2>2. AreRows(rows, RowKeys, ExpectedRows)'
    BY <1>0, <1>1, <2>1 DEF AreRows
  <2>3. Ordered(rows)'
    BY <1>0, <1>1 DEF Ordered
  <2> QED
    BY <1>0, <1>1, <2>2, <2>3 DEF RowsInv
<1>8. MissingInv'
  <2>1. {c \in LookedUp : ~Named(c)}' = {c \in LookedUp : ~Named(c)}
    <3>1. LookedUp' = LookedUp
      BY <1>0, ClassesKept DEF LookedUp
    <3> QED
      BY <1>0, <3>1, ClassesKept
  <2>2. missing_class_ids = {c \in LookedUp : ~Named(c)}
                              \cup {a \in UNION {Lineage(c) : c \in Entered} : DumpsOf(a) = {}}
    BY <1>0 DEF RecorderInv, MissingInv
  <2> QED
    BY <1>0, <2>1, <2>2, TurnsKept DEF MissingInv
<1> QED
  BY <1>3, <1>4, <1>5, <1>6, <1>7, <1>8 DEF RecorderInv

\* A step that changes nothing.
LEMMA NothingStep ==
  ASSUME RecorderInv, UNCHANGED vars
  PROVE  RecorderInv'
<1>0. /\ phase' = phase /\ RecordsKept /\ unsized' = unsized /\ walk' = walk /\ rows' = rows
      /\ missing_class_ids' = missing_class_ids /\ result' = result
  BY DEF vars, RecordsKept
<1>1. input' = input /\ left' = left /\ stream' = stream /\ self' = self
  BY <1>0 DEF RecordsKept
<1>2. TypeOK'
  BY <1>0, <1>1 DEF RecorderInv, TypeOK
<1>3. RecordsInv'
  BY <1>0, RecordsInvKept DEF RecorderInv
<1>4. ControlInv'
  BY <1>0, <1>1, RowsKept, ClassesKept DEF RecorderInv, ControlInv
<1>5. WalkInv' /\ CyclesInv'
  <2>1. WalkInv'
    BY <1>0, TurnsKept DEF RecorderInv, WalkInv
  <2>2. CyclesInv'
    BY <1>0, TurnsKept DEF RecorderInv, CyclesInv
  <2> QED
    BY <2>1, <2>2
<1>6. RowsInv'
  <2>1. RowKeys' = RowKeys /\ ExpectedRows' = ExpectedRows
    BY <1>0, RowsKept, ClassesKept
  <2>2. AreRows(rows, RowKeys, ExpectedRows)' <=> AreRows(rows, RowKeys, ExpectedRows)
    BY <1>0, <2>1 DEF AreRows
  <2>3. Ordered(rows)' <=> Ordered(rows)
    BY <1>0 DEF Ordered
  <2>4. AreRows(rows, Sized, [c \in Sized |-> InstanceRow(c)])
          => AreRows(rows, Sized, [c \in Sized |-> InstanceRow(c)])'
    BY <1>0, TurnsKept, SameRows
  <2> QED
    BY <1>0, <2>2, <2>3, <2>4 DEF RecorderInv, RowsInv
<1>7. MissingInv'
  <2>1. {c \in LookedUp : ~Named(c)}' = {c \in LookedUp : ~Named(c)}
    <3>1. LookedUp' = LookedUp
      BY <1>0, ClassesKept DEF LookedUp
    <3> QED
      BY <1>0, <3>1, ClassesKept
  <2>2. {a \in UNION {Lineage(c) : c \in Entered} : DumpsOf(a) = {}}' =
          {a \in UNION {Lineage(c) : c \in Entered} : DumpsOf(a) = {}}
    BY <1>0, TurnsKept
  <2> QED
    BY <1>0, <2>1, <2>2 DEF RecorderInv, MissingInv
<1> QED
  BY <1>2, <1>3, <1>4, <1>5, <1>6, <1>7 DEF RecorderInv

(***************************************************************************)
(* render_thread_info.                                                     *)
(***************************************************************************)

\* The class that is found by a serial number is that of the last loading as it.
LEMMA SerialsFound ==
  ASSUME LoadsInv
  PROVE  \A s : /\ s \in DOMAIN self.class_data_by_serial_number <=> LoadsAs(s) # {}
                /\ LoadsAs(s) = {} => FrameClass(s) = {}
                /\ LoadsAs(s) # {} => FrameClass(s) = {Latest(LoadsAs(s)).id}
<1> TAKE s
<1>1. s \in DOMAIN self.class_data_by_serial_number <=> LoadsAs(s) # {}
  BY KeysHavePlaces, PlacesHaveKeys DEF LoadsInv
<1>2. LoadsAs(s) = {} => FrameClass(s) = {}
  BY <1>1 DEF FrameClass
<1>3. ASSUME LoadsAs(s) # {} PROVE FrameClass(s) = {Latest(LoadsAs(s)).id}
  <2>1. PICK load : load = Latest(LoadsAs(s))
    OBVIOUS
  <2>2. self.class_data[self.class_data_by_serial_number[s]] = Loaded(load)
    BY <1>1, <1>3, <2>1 DEF LoadsInv
  <2>3. Loaded(load).class_object_id = load.id
    BY DEF Loaded
  <2> QED
    BY <1>1, <1>3, <2>1, <2>2, <2>3 DEF FrameClass
<1> QED
  BY <1>1, <1>2, <1>3

\* The frames that are found are the last ones with their id.
LEMMA FramesFound ==
  ASSUME FramesInv
  PROVE  \A f : /\ f \in DOMAIN self.stack_frame_by_id <=> FramesOf(f) # {}
                /\ FramesOf(f) # {} => self.stack_frame_by_id[f] = Latest(FramesOf(f))
<1>1. \A f : f \in DOMAIN self.stack_frame_by_id <=> FramesOf(f) # {}
  BY KeysHavePlaces, PlacesHaveKeys DEF FramesInv
<1> QED
  BY <1>1 DEF FramesInv

\* A frame is rendered with its class, its method, its file and its line.
LEMMA FramesAreRight ==
  ASSUME StringsInv, LoadsInv, FramesInv, NEW id
  PROVE  RenderedFrame(id) = ExpectedFrame(id)
<1>1. \A n : Text(n) = TextOf(n)
  <2>1. \A n : n \in DOMAIN self.utf8_strings_by_id <=> StringsOf(n) # {}
    BY KeysHavePlaces, PlacesHaveKeys DEF StringsInv
  <2> QED
    BY <2>1 DEF Text, TextOf, StringsInv
<1>2. ASSUME NEW s
      PROVE  (IF FrameClass(s) = {} THEN Label("serial", "none", s, FALSE)
              ELSE get_class_name_string(CHOOSE c \in FrameClass(s) : TRUE)) = ClassShown(s)
  <2>1. CASE LoadsAs(s) = {}
    <3>1. FrameClass(s) = {}
      BY <2>1, SerialsFound
    <3> QED
      BY <2>1, <3>1 DEF ClassShown
  <2>2. CASE LoadsAs(s) # {}
    <3>1. PICK c : c = Latest(LoadsAs(s)).id
      OBVIOUS
    <3>2. FrameClass(s) = {c}
      BY <2>2, <3>1, SerialsFound
    <3>3. (CHOOSE x \in {c} : TRUE) = c
      OBVIOUS
    <3>4. get_class_name_string(c) = NameOf(c)
      BY NamesFound
    <3> QED
      BY <2>2, <3>1, <3>2, <3>3, <3>4 DEF ClassShown
  <2> QED
    BY <2>1, <2>2
<1>3. CASE FramesOf(id) = {}
  <2>1. id \notin DOMAIN self.stack_frame_by_id
    BY <1>3, FramesFound
  <2> QED
    BY <1>3, <2>1 DEF RenderedFrame, ExpectedFrame
<1>4. CASE FramesOf(id) # {}
  <2>1. PICK f : f = Latest(FramesOf(id))
    OBVIOUS
  <2>2. id \in DOMAIN self.stack_frame_by_id /\ self.stack_frame_by_id[id] = f
    BY <1>4, <2>1, FramesFound
  <2>3. PICK name : name = ClassShown(f.class_serial)
    OBVIOUS
  <2>4. RenderedFrame(id) = [class |-> name, method |-> Text(f.method), file |-> Text(f.file),
                             line |-> pretty_line_number(f.line)]
    BY <1>2, <2>2, <2>3 DEF RenderedFrame
  <2>5. ExpectedFrame(id) = [class |-> name, method |-> TextOf(f.method), file |-> TextOf(f.file),
                             line |-> pretty_line_number(f.line)]
    BY <1>4, <2>1, <2>3 DEF ExpectedFrame
  <2> QED
    BY <1>1, <2>4, <2>5
<1> QED
  BY <1>3, <1>4

\* The traces that are shown, in order.
LEMMA TracesFound ==
  ASSUME StreamInv, TracesInv
  PROVE  /\ DOMAIN self.stack_trace_by_serial_number = TraceSerials
         /\ TraceSerials \subseteq Nat /\ IsFiniteSet(TraceSerials)
         /\ \A s \in TraceSerials :
              /\ self.stack_trace_by_serial_number[s] = Latest(TracesOf(s)).frames
              /\ Latest(TracesOf(s)).frames \in Seq(Nat)
         /\ ShownTraces = ascending({s \in TraceSerials : Latest(TracesOf(s)).frames # << >>})
         /\ ShownFrames = UNION {ToSet(Latest(TracesOf(s)).frames) : s \in TraceSerials}
<1>1. DOMAIN self.stack_trace_by_serial_number = TraceSerials
  BY DEF TracesInv
<1>2. \A s \in TraceSerials : self.stack_trace_by_serial_number[s] = Latest(TracesOf(s)).frames
  BY DEF TracesInv
<1>3. TraceSerials \subseteq Nat /\ IsFiniteSet(TraceSerials)
  <2>1. \A i \in Of({"StackTrace"}) : stream[i] \in Records /\ stream[i].kind = "StackTrace"
    BY DEF Of, StreamInv
  <2>2. \A i \in Of({"StackTrace"}) : stream[i].serial \in Nat
    BY <2>1, RecordFields
  <2>3. IsFiniteSet(TraceSerials)
    BY KeysFinite DEF TraceSerials
  <2> QED
    BY <2>2, <2>3 DEF TraceSerials
<1>4. ASSUME NEW s \in TraceSerials PROVE Latest(TracesOf(s)).frames \in Seq(Nat)
  <2>1. TracesOf(s) # {} /\ TracesOf(s) \subseteq DOMAIN stream
    BY KeysHavePlaces DEF TraceSerials, TracesOf, Of
  <2>2. PICK i : i = Max(TracesOf(s))
    OBVIOUS
  <2>3. i \in TracesOf(s) /\ Latest(TracesOf(s)) = stream[i] /\ stream[i] \in Records
    BY <2>1, <2>2, LatestIsOne
  <2>4. stream[i].frames \in Seq(Nat)
    BY <2>3, RecordFields DEF TracesOf, Of
  <2> QED
    BY <2>3, <2>4
<1>5. ShownTraces = ascending({s \in TraceSerials : Latest(TracesOf(s)).frames # << >>})
  <2>1. {t \in DOMAIN self.stack_trace_by_serial_number :
           self.stack_trace_by_serial_number[t] # << >>}
          = {s \in TraceSerials : Latest(TracesOf(s)).frames # << >>}
    BY <1>1, <1>2
  <2> QED
    BY <2>1 DEF ShownTraces
<1>6. ShownFrames = UNION {ToSet(Latest(TracesOf(s)).frames) : s \in TraceSerials}
  <2>1. Range(self.stack_trace_by_serial_number) = {Latest(TracesOf(s)).frames : s \in TraceSerials}
    BY <1>1, <1>2 DEF Range
  <2> QED
    BY <2>1 DEF ShownFrames
<1> QED
  BY <1>1, <1>2, <1>3, <1>4, <1>5, <1>6

\* The classes of the frames that are shown.
LEMMA FrameClassesFound ==
  ASSUME StreamInv, LoadsInv, FramesInv, TracesInv
  PROVE  /\ UNION {FrameClass(self.stack_frame_by_id[f].class_serial) :
                     f \in ShownFrames \cap DOMAIN self.stack_frame_by_id} = FrameClasses
         /\ FrameClasses \subseteq Nat
<1> DEFINE known == ShownFrames \cap DOMAIN self.stack_frame_by_id
<1>1. FrameSerials = {self.stack_frame_by_id[f].class_serial : f \in known}
  <2>1. known = {g \in UNION {ToSet(Latest(TracesOf(s)).frames) : s \in TraceSerials} : FramesOf(g) # {}}
    <3>1. ShownFrames = UNION {ToSet(Latest(TracesOf(s)).frames) : s \in TraceSerials}
      BY TracesFound
    <3>2. \A f : f \in DOMAIN self.stack_frame_by_id <=> FramesOf(f) # {}
      BY FramesFound
    <3> QED
      BY <3>1, <3>2
  <2>2. \A f \in known : self.stack_frame_by_id[f] = Latest(FramesOf(f))
    BY FramesFound
  <2>3. FrameSerials = {Latest(FramesOf(f)).class_serial : f \in known}
    BY <2>1 DEF FrameSerials
  <2> QED
    BY <2>2, <2>3
<1>2. UNION {FrameClass(self.stack_frame_by_id[f].class_serial) : f \in known}
        = UNION {FrameClass(s) : s \in FrameSerials}
  BY <1>1
<1>3. UNION {FrameClass(s) : s \in FrameSerials} = FrameClasses
  BY SerialsFound DEF FrameClasses
<1>4. FrameClasses \subseteq Nat
  <2>1. ASSUME NEW s, LoadsAs(s) # {} PROVE Latest(LoadsAs(s)).id \in Nat
    <3>1. LoadsAs(s) \subseteq DOMAIN stream
      BY DEF LoadsAs, Of
    <3>2. PICK i : i = Max(LoadsAs(s))
      OBVIOUS
    <3>3. i \in LoadsAs(s) /\ Latest(LoadsAs(s)) = stream[i] /\ stream[i] \in Records
      BY <2>1, <3>1, <3>2, LatestIsOne
    <3>4. stream[i].kind = "LoadClass"
      BY <3>3 DEF LoadsAs, Of
    <3> QED
      BY <3>3, <3>4, RecordFields
  <2> QED
    BY <2>1 DEF FrameClasses
<1> QED
  BY <1>2, <1>3, <1>4

\* What is rendered of the threads is right.
LEMMA ThreadsAreRight ==
  ASSUME StreamInv, StringsInv, LoadsInv, FramesInv, TracesInv, NEW threads,
         threads = [k \in DOMAIN ShownTraces |->
                      LET frames == self.stack_trace_by_serial_number[ShownTraces[k]]
                      IN [j \in DOMAIN frames |-> RenderedFrame(frames[j])]]
  PROVE  ThreadsRight(threads)
<1>1. PICK S : S = {s \in TraceSerials : Latest(TracesOf(s)).frames # << >>}
  OBVIOUS
<1>2. PICK shown : shown = ascending(S)
  OBVIOUS
<1>3. ShownTraces = shown
  BY <1>1, <1>2, TracesFound
<1>4. S \in SUBSET Nat /\ S \subseteq TraceSerials /\ IsFiniteSet(S)
  <2>1. TraceSerials \subseteq Nat /\ IsFiniteSet(TraceSerials)
    BY TracesFound
  <2>2. S \in SUBSET TraceSerials
    BY <1>1
  <2> QED
    BY <2>1, <2>2, FS_Subset
<1>5. PICK n \in Nat : n = Cardinality(S)
  BY <1>4, FS_CardinalityType
<1>6. Len(shown) = n /\ DOMAIN shown = 1..n /\ shown \in Seq(S)
  BY <1>2, <1>4, <1>5, AscendingIsSeq
<1>7. \A k \in 1..n : shown[k] \in TraceSerials
  <2> TAKE k \in 1..n
  <2>1. shown[k] \in S
    BY <1>6
  <2> QED
    BY <1>4, <2>1
<1>8. ASSUME NEW k \in 1..n, NEW frames, frames = Latest(TracesOf(shown[k])).frames
      PROVE  threads[k] = [j \in DOMAIN frames |-> ExpectedFrame(frames[j])]
  <2>1. self.stack_trace_by_serial_number[shown[k]] = frames
    BY <1>7, <1>8, TracesFound
  <2>2. threads[k] = [j \in DOMAIN frames |-> RenderedFrame(frames[j])]
    BY <1>3, <1>6, <2>1
  <2> QED
    BY <2>2, FramesAreRight
<1>9. threads = [k \in 1..n |-> threads[k]]
  BY <1>3, <1>6
<1>10. threads = [k \in DOMAIN shown |->
                    LET frames == Latest(TracesOf(shown[k])).frames
                    IN [j \in DOMAIN frames |-> ExpectedFrame(frames[j])]]
  BY <1>6, <1>8, <1>9
<1> QED
  BY <1>1, <1>2, <1>10 DEF ThreadsRight

\* The threads are rendered, and the warning is about their classes.
LEMMA RenderThreadInfoStep ==
  ASSUME RecorderInv, RenderThreadInfo
  PROVE  RecorderInv'
<1>0. /\ phase = "recording" /\ left = {} /\ phase' = "sizing" /\ RecordsKept
      /\ walk' = walk /\ rows' = rows
      /\ unsized' = DOMAIN self.classes_all_instance_total_size_by_id
  BY DEF RenderThreadInfo, RecordsKept
<1>1. /\ TypeOK /\ StreamInv /\ StringsInv /\ LoadsInv /\ FramesInv /\ TracesInv /\ InstancesInv
      /\ walk = NoWalk /\ rows = << >>
  BY <1>0 DEF RecorderInv, RecordsInv, ControlInv
<1>2. missing_class_ids' = {c \in FrameClasses : ~Named(c)}
  <2>1. missing_class_ids' = Unnamed(FrameClasses)
    BY <1>1, FrameClassesFound DEF RenderThreadInfo
  <2> QED
    BY <1>1, <2>1, NamesFound DEF Unnamed
<1>3. ThreadsRight(result'.thread_info)
  <2>1. PICK threads :
          threads = [k \in DOMAIN ShownTraces |->
                       LET frames == self.stack_trace_by_serial_number[ShownTraces[k]]
                       IN [j \in DOMAIN frames |-> RenderedFrame(frames[j])]]
    OBVIOUS
  <2>2. result'.thread_info = threads
    BY <2>1 DEF RenderThreadInfo
  <2>3. ThreadsRight(threads)
    BY <1>1, <2>1, ThreadsAreRight
  <2> QED
    BY <2>2, <2>3
<1>4. unsized' = InstanceClasses
  BY <1>0, <1>1 DEF InstancesInv
<1>5. Sized' = {} /\ Entered' = {}
  BY <1>0, <1>4, ClassesKept DEF Sized, Entered
<1>6. input' = input /\ left' = left /\ stream' = stream /\ self' = self
  BY <1>0 DEF RecordsKept
<1>7. TypeOK'
  <2>1. missing_class_ids' \subseteq Nat
    BY <1>1, <1>2, FrameClassesFound
  <2> QED
    BY <1>0, <1>1, <1>6, <2>1 DEF TypeOK
<1>8. RecordsInv'
  BY <1>0, RecordsInvKept DEF RecorderInv
<1>9. ControlInv'
  <2>1. ThreadsRight(result.thread_info)'
    <3>1. \A threads : ThreadsRight(threads)' <=> ThreadsRight(threads)
      BY <1>0, RowsKept
    <3> QED
      BY <1>3, <3>1
  <2> QED
    BY <1>0, <1>4, <1>6, <2>1, ClassesKept DEF ControlInv
<1>10. WalkInv' /\ CyclesInv'
  BY <1>0, <1>1, <1>5 DEF WalkInv, CyclesInv
<1>11. RowsInv'
  <2>1. rows' = << >> /\ DOMAIN rows' = {} /\ rows' \in Seq(Rows)
    BY <1>0, <1>1
  <2>2. AreRows(rows, Sized, [c \in Sized |-> InstanceRow(c)])'
    <3>1. PICK h : h = [i \in {} |-> 0]
      OBVIOUS
    <3>2. h \in Bijection({}, {})
      BY <3>1, Fun_IsBij
    <3> QED
      BY <1>5, <2>1, <3>2 DEF AreRows
  <2> QED
    BY <1>0, <2>1, <2>2 DEF RowsInv
<1>12. MissingInv'
  <2>1. LookedUp' = FrameClasses
    BY <1>0, <1>4, ClassesKept DEF LookedUp
  <2>2. {c \in LookedUp : ~Named(c)}' = {c \in FrameClasses : ~Named(c)}
    BY <1>0, <2>1, ClassesKept
  <2>3. {a \in UNION {Lineage(c) : c \in Entered} : DumpsOf(a) = {}}' = {}
    BY <1>5
  <2> QED
    BY <1>0, <1>2, <2>2, <2>3 DEF MissingInv
<1> QED
  BY <1>7, <1>8, <1>9, <1>10, <1>11, <1>12 DEF RecorderInv

(***************************************************************************)
(* The order of the rows.                                                  *)
(***************************************************************************)

\* Of two sequences of numbers of the same length, one precedes the other.
LEMMA PrecedesIsTotal ==
  ASSUME NEW n \in Nat, NEW s \in [1..n -> Int], NEW t \in [1..n -> Int], s # t
  PROVE  Precedes(s, t) \/ Precedes(t, s)
<1>1. PICK D : D = {k \in 1..n : s[k] # t[k]}
  OBVIOUS
<1>2. D # {} /\ D \in SUBSET Nat
  <2>1. ASSUME \A k \in 1..n : s[k] = t[k] PROVE FALSE
    <3>1. s = [k \in 1..n |-> s[k]] /\ t = [k \in 1..n |-> t[k]]
      OBVIOUS
    <3> QED
      BY <2>1, <3>1
  <2>2. D # {}
    BY <1>1, <2>1, Zenon
  <2>3. D \in SUBSET Nat
    BY <1>1
  <2> QED
    BY <2>2, <2>3
<1>3. PICK k \in D : \A y \in D : k <= y
  BY <1>2, SmallestExists
<1>4. k \in 1..n /\ s[k] # t[k] /\ s[k] \in Int /\ t[k] \in Int
  BY <1>1, <1>3
<1>5. \A h \in 1..(k - 1) : s[h] = t[h]
  <2> TAKE h \in 1..(k - 1)
  <2>1. h \in 1..n /\ ~(k <= h)
    BY <1>4
  <2> QED
    BY <1>1, <1>3, <2>1
<1>6. s[k] < t[k] \/ t[k] < s[k]
  BY <1>4
<1>7. DOMAIN s = 1..n /\ DOMAIN t = 1..n
  OBVIOUS
<1> QED
  BY <1>4, <1>5, <1>6, <1>7 DEF Precedes

\* A function of the first numbers is a sequence.
LEMMA FunctionIsSeq ==
  ASSUME NEW T, NEW n \in Nat, NEW s
  PROVE  s \in [1..n -> T] <=> s \in Seq(T) /\ Len(s) = n
  OBVIOUS

\* The key of a row is seven numbers, from which the row follows.
LEMMA RowKeyIs ==
  ASSUME NEW r \in Rows, NEW l, l = r.class_name, NEW s, s = RowKey(r)
  PROVE  /\ s \in [1..7 -> Int]
         /\ s[1] = LabelCode[l.of] /\ s[2] = PrefixCode[l.pre] /\ s[3] = l.base
         /\ s[4] = Bit(l.array) /\ s[5] = r.allocation_size_bytes /\ s[6] = r.instance_count
         /\ s[7] = r.largest_allocation_bytes
<1>1. l \in Labels
  BY DEF Rows
<1>2. LabelCode[l.of] \in Int /\ PrefixCode[l.pre] \in Int /\ l.base \in Int /\ Bit(l.array) \in Int
  BY <1>1 DEF Labels, LabelCode, PrefixCode, Bit
<1>3. /\ r.allocation_size_bytes \in Int /\ r.instance_count \in Int
      /\ r.largest_allocation_bytes \in Int
  BY DEF Rows
<1>4. s = <<LabelCode[l.of], PrefixCode[l.pre], l.base, Bit(l.array),
            r.allocation_size_bytes, r.instance_count, r.largest_allocation_bytes>>
  BY DEF RowKey
<1>5. /\ s[1] = LabelCode[l.of] /\ s[2] = PrefixCode[l.pre] /\ s[3] = l.base
      /\ s[4] = Bit(l.array) /\ s[5] = r.allocation_size_bytes /\ s[6] = r.instance_count
      /\ s[7] = r.largest_allocation_bytes
  BY <1>4
<1>6. s \in [1..7 -> Int]
  BY <1>2, <1>3, <1>4
<1> QED
  BY <1>5, <1>6

\* Rows with equal keys are equal: the sort has no ties but between equal rows.
LEMMA SameRowKey ==
  ASSUME NEW a \in Rows, NEW b \in Rows, RowKey(a) = RowKey(b)
  PROVE  a = b
<1>1. PICK l \in Labels : l = a.class_name
  BY DEF Rows
<1>2. PICK m \in Labels : m = b.class_name
  BY DEF Rows
<1>3. PICK s : s = RowKey(a) /\ s = RowKey(b)
  OBVIOUS
<1>4. /\ s[1] = LabelCode[l.of] /\ s[2] = PrefixCode[l.pre] /\ s[3] = l.base
      /\ s[4] = Bit(l.array) /\ s[5] = a.allocation_size_bytes /\ s[6] = a.instance_count
      /\ s[7] = a.largest_allocation_bytes
  BY <1>1, <1>3, RowKeyIs
<1>5. /\ s[1] = LabelCode[m.of] /\ s[2] = PrefixCode[m.pre] /\ s[3] = m.base
      /\ s[4] = Bit(m.array) /\ s[5] = b.allocation_size_bytes /\ s[6] = b.instance_count
      /\ s[7] = b.largest_allocation_bytes
  BY <1>2, <1>3, RowKeyIs
<1>6. l.of = m.of
  <2>1. l.of \in {"primitive", "class", "unknown", "serial"}
        /\ m.of \in {"primitive", "class", "unknown", "serial"}
    BY DEF Labels, LabelCode
  <2>2. LabelCode["primitive"] = 0 /\ LabelCode["class"] = 1 /\ LabelCode["unknown"] = 2
        /\ LabelCode["serial"] = 3
    BY DEF LabelCode
  <2>3. LabelCode[l.of] = LabelCode[m.of]
    BY <1>4, <1>5
  <2>4. PICK x \in {"primitive", "class", "unknown", "serial"} : x = l.of
    BY <2>1
  <2>5. PICK y \in {"primitive", "class", "unknown", "serial"} : y = m.of
    BY <2>1
  <2>6. x = y
    BY <2>2, <2>3, <2>4, <2>5
  <2> QED
    BY <2>4, <2>5, <2>6
<1>7. l.pre = m.pre
  <2>1. l.pre \in {"none", "L", "LL"} /\ m.pre \in {"none", "L", "LL"}
    BY DEF Labels, PrefixCode
  <2>2. PrefixCode["none"] = 0 /\ PrefixCode["L"] = 1 /\ PrefixCode["LL"] = 2
    BY DEF PrefixCode
  <2>3. PrefixCode[l.pre] = PrefixCode[m.pre]
    BY <1>4, <1>5
  <2>4. PICK x \in {"none", "L", "LL"} : x = l.pre
    BY <2>1
  <2>5. PICK y \in {"none", "L", "LL"} : y = m.pre
    BY <2>1
  <2>6. x = y
    BY <2>2, <2>3, <2>4, <2>5
  <2> QED
    BY <2>4, <2>5, <2>6
<1>8. l.array = m.array
  <2>1. l.array \in BOOLEAN /\ m.array \in BOOLEAN
    BY DEF Labels
  <2>2. Bit(TRUE) = 1 /\ Bit(FALSE) = 0
    BY DEF Bit
  <2>3. Bit(l.array) = Bit(m.array)
    BY <1>4, <1>5
  <2>4. CASE l.array
    <3>1. Bit(l.array) = 1
      BY <2>4 DEF Bit
    <3>2. m.array
      BY <2>3, <3>1 DEF Bit
    <3> QED
      BY <2>1, <2>4, <3>2
  <2>5. CASE ~l.array
    <3>1. Bit(l.array) = 0
      BY <2>5 DEF Bit
    <3>2. ~m.array
      BY <2>3, <3>1 DEF Bit
    <3> QED
      BY <2>1, <2>5, <3>2
  <2> QED
    BY <2>4, <2>5
<1>9. l = m
  <2>1. l = [of |-> l.of, pre |-> l.pre, base |-> l.base, array |-> l.array]
    BY DEF Labels
  <2>2. m = [of |-> m.of, pre |-> m.pre, base |-> m.base, array |-> m.array]
    BY DEF Labels
  <2> QED
    BY <1>4, <1>5, <1>6, <1>7, <1>8, <2>1, <2>2
<1>10. a = [class_name |-> l, instance_count |-> a.instance_count,
            largest_allocation_bytes |-> a.largest_allocation_bytes,
            allocation_size_bytes |-> a.allocation_size_bytes]
  BY <1>1 DEF Rows
<1>11. b = [class_name |-> m, instance_count |-> b.instance_count,
            largest_allocation_bytes |-> b.largest_allocation_bytes,
            allocation_size_bytes |-> b.allocation_size_bytes]
  BY <1>2 DEF Rows
<1> QED
  BY <1>4, <1>5, <1>9, <1>10, <1>11

\* Whatever an unstable sort makes of rows, they are ordered, and the same rows.
LEMMA SortedRows ==
  ASSUME NEW s \in Seq(Rows), NEW t \in sort_unstable_by(s, RowBefore), NEW K, NEW F, AreRows(s, K, F)
  PROVE  t \in Seq(Rows) /\ AreRows(t, K, F) /\ Ordered(t)
<1>1. PICK p \in Bijection(DOMAIN s, DOMAIN s) :
        /\ \A i, j \in DOMAIN s : i < j => ~RowBefore(s[p[j]], s[p[i]])
        /\ t = [k \in DOMAIN s |-> s[p[k]]]
  BY DEF sort_unstable_by
<1>2. AreRows(t, K, F)
  BY <1>1, RowsPermuted
<1>3. p \in [DOMAIN s -> DOMAIN s]
  BY <1>1, Fun_BijectionProperties
<1>4. PICK n \in Nat : n = Len(s)
  OBVIOUS
<1>5. DOMAIN s = 1..n /\ \A k \in 1..n : s[k] \in Rows
  BY <1>4
<1>6. t \in [1..n -> Rows]
  BY <1>1, <1>3, <1>5
<1>7. t \in Seq(Rows) /\ DOMAIN t = 1..n
  BY <1>6
<1>8. ASSUME NEW i \in 1..n, NEW j \in 1..n, i < j
      PROVE  t[i] = t[j] \/ Precedes(RowKey(t[j]), RowKey(t[i]))
  <2>1. ~Precedes(RowKey(t[i]), RowKey(t[j]))
    <3>1. ~RowBefore(t[j], t[i])
      BY <1>1, <1>5, <1>8
    <3> QED
      BY <3>1 DEF RowBefore
  <2>2. t[i] \in Rows /\ t[j] \in Rows
    BY <1>6
  <2>3. RowKey(t[i]) = RowKey(t[j]) \/ Precedes(RowKey(t[j]), RowKey(t[i]))
    <3>1. RowKey(t[i]) \in [1..7 -> Int] /\ RowKey(t[j]) \in [1..7 -> Int]
      BY <2>2, RowKeyIs
    <3> QED
      BY <2>1, <3>1, PrecedesIsTotal
  <2> QED
    BY <2>2, <2>3, SameRowKey
<1>9. Ordered(t)
  BY <1>7, <1>8 DEF Ordered
<1> QED
  BY <1>2, <1>7, <1>9

(***************************************************************************)
(* The rows of the arrays.                                                 *)
(***************************************************************************)

\* The rows of the elements of a set, under keys that say what they are about.
LEMMA RowsOfSet ==
  ASSUME NEW S, IsFiniteSet(S), NEW tag, NEW G, \A x \in S : G[<<tag, x>>] \in Rows,
         NEW s, s = [k \in DOMAIN SetToSeq(S) |-> G[<<tag, SetToSeq(S)[k]>>]]
  PROVE  s \in Seq(Rows) /\ AreRows(s, {tag} \X S, G)
<1>1. PICK f : f = SetToSeq(S)
  OBVIOUS
<1>2. PICK n \in Nat : n = Cardinality(S)
  BY SetToSeqIsBijection
<1>3. f \in Bijection(1..n, S)
  BY <1>1, <1>2, SetToSeqIsBijection
<1>4. /\ f \in [1..n -> S] /\ \A a, b \in 1..n : f[a] = f[b] => a = b
      /\ \A x \in S : \E a \in 1..n : f[a] = x
  BY <1>3, Fun_BijectionProperties
<1>5. s = [k \in 1..n |-> G[<<tag, f[k]>>]]
  BY <1>1, <1>4
<1>6. s \in [1..n -> Rows]
  BY <1>4, <1>5
<1>7. s \in Seq(Rows) /\ DOMAIN s = 1..n
  BY <1>6, FunctionIsSeq
<1>8. PICK h : h = [k \in 1..n |-> <<tag, f[k]>>]
  OBVIOUS
<1>9. h \in [1..n -> {tag} \X S]
  BY <1>4, <1>8
<1>10. \A a, b \in 1..n : h[a] = h[b] => a = b
  BY <1>4, <1>8
<1>11. \A y \in {tag} \X S : \E a \in 1..n : h[a] = y
  <2> TAKE y \in {tag} \X S
  <2>1. PICK x \in S : y = <<tag, x>>
    OBVIOUS
  <2>2. PICK a \in 1..n : f[a] = x
    BY <1>4
  <2>3. h[a] = y
    BY <1>8, <2>1, <2>2
  <2> QED
    BY <2>3
<1>12. h \in Bijection(1..n, {tag} \X S)
  BY <1>9, <1>10, <1>11, Fun_IsBij
<1>13. \A k \in 1..n : s[k] = G[h[k]]
  BY <1>5, <1>8
<1> QED
  BY <1>7, <1>12, <1>13 DEF AreRows

\* What is expected of each kind of row.
LEMMA ExpectedRowsAre ==
  /\ \A c \in InstanceClasses : ExpectedRows[<<"instances", c>>] = InstanceRow(c)
  /\ \A c \in ArrayClasses :
       ExpectedRows[<<"objects", c>>] =
         ArrayRow([NameOf(c) EXCEPT !.pre = "none", !.array = TRUE], ObjectArraysOf(c))
  /\ \A t \in ArrayTypes :
       ExpectedRows[<<"primitives", t>>] =
         ArrayRow(Label("primitive", "none", TypeCode[t], TRUE), ArraysOf(t))
<1>1. ASSUME NEW c \in InstanceClasses PROVE ExpectedRows[<<"instances", c>>] = InstanceRow(c)
  <2>1. PICK k : k = <<"instances", c>>
    OBVIOUS
  <2>2. k \in RowKeys /\ k[1] = "instances" /\ k[2] = c
    BY <2>1 DEF RowKeys
  <2>3. ExpectedRow(k) = InstanceRow(c)
    BY <2>2 DEF ExpectedRow
  <2> QED
    BY <2>1, <2>2, <2>3 DEF ExpectedRows
<1>2. ASSUME NEW c \in ArrayClasses
      PROVE  ExpectedRows[<<"objects", c>>] =
               ArrayRow([NameOf(c) EXCEPT !.pre = "none", !.array = TRUE], ObjectArraysOf(c))
  <2>1. PICK k : k = <<"objects", c>>
    OBVIOUS
  <2>2. k \in RowKeys /\ k[1] = "objects" /\ k[2] = c
    BY <2>1 DEF RowKeys
  <2>3. ExpectedRow(k) = ArrayRow([NameOf(c) EXCEPT !.pre = "none", !.array = TRUE], ObjectArraysOf(c))
    BY <2>2 DEF ExpectedRow
  <2> QED
    BY <2>1, <2>2, <2>3 DEF ExpectedRows
<1>3. ASSUME NEW t \in ArrayTypes
      PROVE  ExpectedRows[<<"primitives", t>>] =
               ArrayRow(Label("primitive", "none", TypeCode[t], TRUE), ArraysOf(t))
  <2>1. PICK k : k = <<"primitives", t>>
    OBVIOUS
  <2>2. k \in RowKeys /\ k[1] = "primitives" /\ k[2] = t
    BY <2>1 DEF RowKeys
  <2>3. ExpectedRow(k) = ArrayRow(Label("primitive", "none", TypeCode[t], TRUE), ArraysOf(t))
    BY <2>2 DEF ExpectedRow
  <2> QED
    BY <2>1, <2>2, <2>3 DEF ExpectedRows
<1> QED
  BY <1>1, <1>2, <1>3

\* A counter makes the row of its arrays.
LEMMA CounterRow ==
  ASSUME NEW name, NEW at
  PROVE  ArrayStats(name, ArrayCounter(at)) = ArrayRow(name, at)
  BY DEF ArrayStats, ArrayCounter, ArrayRow

\* The rows made of the counters of the arrays are those expected of the records.
LEMMA ArrayRowsFound ==
  ASSUME StreamInv, StringsInv, LoadsInv, ArraysInv, input.id_size \in {4, 8}
  PROVE  /\ PrimitiveArrayRows \in Seq(Rows) /\ ObjectArrayRows \in Seq(Rows)
         /\ AreRows(PrimitiveArrayRows, {"primitives"} \X ArrayTypes, ExpectedRows)
         /\ AreRows(ObjectArrayRows, {"objects"} \X ArrayClasses, ExpectedRows)
<1>1. IsFiniteSet(ArrayTypes) /\ IsFiniteSet(ArrayClasses)
  BY KeysFinite DEF ArrayTypes, ArrayClasses
<1>2. /\ DOMAIN self.primitive_array_counters = ArrayTypes
      /\ \A t \in ArrayTypes : self.primitive_array_counters[t] = ArrayCounter(ArraysOf(t))
  BY DEF ArraysInv
<1>3. /\ DOMAIN self.object_array_counters = ArrayClasses
      /\ \A c \in ArrayClasses : self.object_array_counters[c] = ArrayCounter(ObjectArraysOf(c))
  BY DEF ArraysInv
<1>4. PICK types : types = SetToSeq(ArrayTypes)
  OBVIOUS
<1>5. PICK classes : classes = SetToSeq(ArrayClasses)
  OBVIOUS
<1>6. \A k \in DOMAIN types : types[k] \in ArrayTypes
  <2>1. types \in Bijection(1..Cardinality(ArrayTypes), ArrayTypes)
    BY <1>1, <1>4, SetToSeqIsBijection
  <2>2. types \in [1..Cardinality(ArrayTypes) -> ArrayTypes]
    BY <2>1, Fun_BijectionProperties
  <2> QED
    BY <2>2
<1>7. \A k \in DOMAIN classes : classes[k] \in ArrayClasses
  <2>1. classes \in Bijection(1..Cardinality(ArrayClasses), ArrayClasses)
    BY <1>1, <1>5, SetToSeqIsBijection
  <2>2. classes \in [1..Cardinality(ArrayClasses) -> ArrayClasses]
    BY <2>1, Fun_BijectionProperties
  <2> QED
    BY <2>2
<1>8. ASSUME NEW t \in ArrayTypes
      PROVE  /\ ArrayStats(Label("primitive", "none", TypeCode[t], TRUE),
                           self.primitive_array_counters[t]) = ExpectedRows[<<"primitives", t>>]
             /\ ExpectedRows[<<"primitives", t>>] \in Rows
  <2>1. PICK name : name = Label("primitive", "none", TypeCode[t], TRUE)
    OBVIOUS
  <2>2. ExpectedRows[<<"primitives", t>>] = ArrayRow(name, ArraysOf(t))
    BY <2>1, ExpectedRowsAre
  <2>3. ArrayStats(name, self.primitive_array_counters[t]) = ArrayRow(name, ArraysOf(t))
    BY <1>2, CounterRow
  <2>4. t \in FieldTypes
    <3>1. \A i \in Of(PrimitiveArrays) : stream[i] \in Records /\ stream[i].kind \in PrimitiveArrays
      BY DEF Of, StreamInv
    <3>2. \A i \in Of(PrimitiveArrays) : stream[i].type \in FieldTypes
      BY <3>1, RecordFields DEF PrimitiveArrays, FieldTypes
    <3> QED
      BY <3>2 DEF ArrayTypes
  <2>5. name \in Labels
    <3>1. TypeCode[t] \in Nat
      BY <2>4 DEF FieldTypes, PrimitiveTypes, TypeCode
    <3> QED
      BY <2>1, <3>1 DEF Label, Labels, LabelCode, PrefixCode
  <2>6. ArraysOf(t) # {} /\ ArraysOf(t) \subseteq DOMAIN stream
    BY KeysHavePlaces DEF ArraysOf, Of
  <2>7. ArrayRow(name, ArraysOf(t)) \in Rows
    BY <2>5, <2>6, ArrayRowsAreRows
  <2> QED
    BY <2>1, <2>2, <2>3, <2>7
<1>9. ASSUME NEW c \in ArrayClasses
      PROVE  /\ ArrayStats(ArrayLabel(c), self.object_array_counters[c]) = ExpectedRows[<<"objects", c>>]
             /\ ExpectedRows[<<"objects", c>>] \in Rows
  <2>1. PICK name : name = [NameOf(c) EXCEPT !.pre = "none", !.array = TRUE]
    OBVIOUS
  <2>2. ExpectedRows[<<"objects", c>>] = ArrayRow(name, ObjectArraysOf(c))
    BY <2>1, ExpectedRowsAre
  <2>3. ArrayLabel(c) = name
    BY <2>1, NamesFound DEF ArrayLabel
  <2>4. ArrayStats(name, self.object_array_counters[c]) = ArrayRow(name, ObjectArraysOf(c))
    BY <1>3, CounterRow
  <2>5. c \in Nat
    <3>1. \A i \in Of({"ObjectArrayDump"}) : stream[i] \in Records /\ stream[i].kind = "ObjectArrayDump"
      BY DEF Of, StreamInv
    <3>2. \A i \in Of({"ObjectArrayDump"}) : stream[i].class \in Nat
      BY <3>1, RecordFields
    <3> QED
      BY <3>2 DEF ArrayClasses
  <2>6. name \in Labels
    BY <2>1, <2>5, NamesAreLabels
  <2>7. ObjectArraysOf(c) # {} /\ ObjectArraysOf(c) \subseteq DOMAIN stream
    BY KeysHavePlaces DEF ObjectArraysOf, Of
  <2>8. ArrayRow(name, ObjectArraysOf(c)) \in Rows
    BY <2>6, <2>7, ArrayRowsAreRows
  <2> QED
    BY <2>2, <2>3, <2>4, <2>8
<1>10. PrimitiveArrayRows \in Seq(Rows)
       /\ AreRows(PrimitiveArrayRows, {"primitives"} \X ArrayTypes, ExpectedRows)
  <2>1. PrimitiveArrayRows = [k \in DOMAIN types |->
          ArrayStats(Label("primitive", "none", TypeCode[types[k]], TRUE),
                     self.primitive_array_counters[types[k]])]
    BY <1>2, <1>4 DEF PrimitiveArrayRows
  <2>2. PrimitiveArrayRows = [k \in DOMAIN types |-> ExpectedRows[<<"primitives", types[k]>>]]
    BY <1>6, <1>8, <2>1
  <2> QED
    BY <1>1, <1>4, <1>8, <2>2, RowsOfSet
<1>11. ObjectArrayRows \in Seq(Rows)
       /\ AreRows(ObjectArrayRows, {"objects"} \X ArrayClasses, ExpectedRows)
  <2>1. ObjectArrayRows = [k \in DOMAIN classes |->
          ArrayStats(ArrayLabel(classes[k]), self.object_array_counters[classes[k]])]
    BY <1>3, <1>5 DEF ObjectArrayRows
  <2>2. ObjectArrayRows = [k \in DOMAIN classes |-> ExpectedRows[<<"objects", classes[k]>>]]
    BY <1>7, <1>9, <2>1
  <2> QED
    BY <1>1, <1>5, <1>9, <2>2, RowsOfSet
<1> QED
  BY <1>10, <1>11

\* All rows, and in order.
LEMMA AggregatedRows ==
  ASSUME StreamInv, StringsInv, LoadsInv, ArraysInv, input.id_size \in {4, 8},
         rows \in Seq(Rows), NEW F, F = [c \in InstanceClasses |-> InstanceRow(c)],
         AreRows(rows, InstanceClasses, F), AggregateArrays
  PROVE  rows' \in Seq(Rows) /\ AreRows(rows', RowKeys, ExpectedRows) /\ Ordered(rows')
<1>1. PICK I : I = {"instances"} \X InstanceClasses
  OBVIOUS
<1>2. PICK O : O = {"objects"} \X ArrayClasses
  OBVIOUS
<1>3. PICK P : P = {"primitives"} \X ArrayTypes
  OBVIOUS
<1>4. /\ PrimitiveArrayRows \in Seq(Rows) /\ ObjectArrayRows \in Seq(Rows)
      /\ AreRows(PrimitiveArrayRows, P, ExpectedRows) /\ AreRows(ObjectArrayRows, O, ExpectedRows)
  BY <1>2, <1>3, ArrayRowsFound
<1>5. AreRows(rows, I, ExpectedRows)
  <2>1. PICK b : b = [c \in InstanceClasses |-> <<"instances", c>>]
    OBVIOUS
  <2>2. b \in [InstanceClasses -> I]
    BY <1>1, <2>1
  <2>3. \A x, y \in InstanceClasses : b[x] = b[y] => x = y
    BY <2>1
  <2>4. \A k \in I : \E c \in InstanceClasses : b[c] = k
    BY <1>1, <2>1
  <2>5. b \in Bijection(InstanceClasses, I)
    BY <2>2, <2>3, <2>4, Fun_IsBij
  <2>6. \A c \in InstanceClasses : ExpectedRows[b[c]] = F[c]
    <3> TAKE c \in InstanceClasses
    <3>1. ExpectedRows[<<"instances", c>>] = InstanceRow(c)
      BY ExpectedRowsAre
    <3> QED
      BY <2>1, <3>1
  <2> QED
    BY <2>5, <2>6, RowsRenamed
<1>6. I \cap P = {} /\ (I \cup P) \cap O = {} /\ (I \cup P) \cup O = RowKeys
  <2>1. \A k \in I : k[1] = "instances"
    BY <1>1
  <2>2. \A k \in O : k[1] = "objects"
    BY <1>2
  <2>3. \A k \in P : k[1] = "primitives"
    BY <1>3
  <2>4. (I \cup P) \cup O = RowKeys
    BY <1>1, <1>2, <1>3 DEF RowKeys
  <2> QED
    BY <2>1, <2>2, <2>3, <2>4
<1>7. PICK some : some = rows \o PrimitiveArrayRows
  OBVIOUS
<1>8. some \in Seq(Rows) /\ AreRows(some, I \cup P, ExpectedRows)
  BY <1>4, <1>5, <1>6, <1>7, RowsJoined
<1>9. PICK all : all = some \o ObjectArrayRows
  OBVIOUS
<1>10. all \in Seq(Rows) /\ AreRows(all, (I \cup P) \cup O, ExpectedRows)
  BY <1>4, <1>6, <1>8, <1>9, RowsJoined
<1>11. rows' \in sort_unstable_by(all, RowBefore)
  BY <1>7, <1>9 DEF AggregateArrays
<1> QED
  BY <1>6, <1>10, <1>11, SortedRows

\* The rows of the arrays are added and all are sorted.
LEMMA AggregateArraysStep ==
  ASSUME RecorderInv, AggregateArrays
  PROVE  RecorderInv'
<1>0. /\ phase = "sizing" /\ unsized = {} /\ walk = NoWalk /\ phase' = "rendering" /\ RecordsKept
      /\ missing_class_ids' = missing_class_ids \cup Unnamed(DOMAIN self.object_array_counters)
      /\ unsized' = unsized /\ walk' = walk /\ result' = result
  BY DEF AggregateArrays, RecordsKept
<1>1. /\ TypeOK /\ StreamInv /\ StringsInv /\ LoadsInv /\ ArraysInv
      /\ input.id_size \in {4, 8} /\ left = {} /\ ThreadsRight(result.thread_info)
      /\ rows \in Seq(Rows) /\ AreRows(rows, Sized, [c \in Sized |-> InstanceRow(c)])
      /\ missing_class_ids = {c \in (InstanceClasses \ unsized) \cup FrameClasses : ~Named(c)}
                               \cup {a \in UNION {Lineage(c) : c \in Entered} : DumpsOf(a) = {}}
  BY <1>0, Sizing
<1>2. Sized = InstanceClasses
  BY <1>0 DEF Sized
<1>3. rows' \in Seq(Rows) /\ AreRows(rows', RowKeys, ExpectedRows) /\ Ordered(rows')
  <2>1. PICK F : F = [c \in InstanceClasses |-> InstanceRow(c)]
    OBVIOUS
  <2>2. AreRows(rows, InstanceClasses, F)
    BY <1>1, <1>2, <2>1
  <2> QED
    BY <1>1, <2>1, <2>2, AggregatedRows
<1>4. input' = input /\ left' = left /\ stream' = stream /\ self' = self
  BY <1>0 DEF RecordsKept
<1>5. Unnamed(DOMAIN self.object_array_counters) = {c \in ArrayClasses : ~Named(c)}
  <2>1. DOMAIN self.object_array_counters = ArrayClasses
    BY <1>1 DEF ArraysInv
  <2> QED
    BY <1>1, <2>1, NamesFound DEF Unnamed
<1>6. ArrayClasses \subseteq Nat
  <2>1. \A i \in Of({"ObjectArrayDump"}) : stream[i] \in Records /\ stream[i].kind = "ObjectArrayDump"
    BY <1>1 DEF Of, StreamInv
  <2>2. \A i \in Of({"ObjectArrayDump"}) : stream[i].class \in Nat
    BY <2>1, RecordFields
  <2> QED
    BY <2>2 DEF ArrayClasses
<1>7. TypeOK'
  <2>1. missing_class_ids' \subseteq Nat
    BY <1>0, <1>1, <1>5, <1>6 DEF TypeOK
  <2> QED
    BY <1>0, <1>1, <1>4, <2>1 DEF TypeOK
<1>8. RecordsInv'
  BY <1>0, RecordsInvKept DEF RecorderInv
<1>9. ControlInv'
  BY <1>0, <1>1, <1>4, RowsKept, ClassesKept DEF ControlInv
<1>10. WalkInv' /\ CyclesInv'
  BY <1>0, TurnsKept DEF RecorderInv
<1>11. RowsInv'
  <2>1. RowKeys' = RowKeys /\ ExpectedRows' = ExpectedRows
    BY <1>0, RowsKept, ClassesKept
  <2>2. AreRows(rows, RowKeys, ExpectedRows)'
    BY <1>3, <2>1 DEF AreRows
  <2>3. Ordered(rows)'
    BY <1>3 DEF Ordered
  <2> QED
    BY <1>0, <1>3, <2>2, <2>3 DEF RowsInv
<1>12. MissingInv'
  <2>1. {c \in LookedUp : ~Named(c)}' =
          {c \in InstanceClasses \cup ArrayClasses \cup FrameClasses : ~Named(c)}
    <3>1. LookedUp' = InstanceClasses \cup ArrayClasses \cup FrameClasses
      BY <1>0, ClassesKept DEF LookedUp
    <3> QED
      BY <1>0, <3>1, ClassesKept
  <2>2. {a \in UNION {Lineage(c) : c \in Entered} : DumpsOf(a) = {}}' =
          {a \in UNION {Lineage(c) : c \in Entered} : DumpsOf(a) = {}}
    BY <1>0, TurnsKept
  <2>3. missing_class_ids' =
          {c \in InstanceClasses \cup ArrayClasses \cup FrameClasses : ~Named(c)}
            \cup {a \in UNION {Lineage(c) : c \in Entered} : DumpsOf(a) = {}}
    BY <1>0, <1>1, <1>5
  <2> QED
    BY <1>0, <2>1, <2>2, <2>3 DEF MissingInv
<1> QED
  BY <1>7, <1>8, <1>9, <1>10, <1>11, <1>12 DEF RecorderInv

\* Every step keeps the invariant.
LEMMA NextStep ==
  ASSUME RecorderInv, [Next]_vars
  PROVE  RecorderInv'
<1>1. CASE RecordNext
  BY <1>1, RecordStep
<1>2. CASE RenderThreadInfo
  BY <1>2, RenderThreadInfoStep
<1>3. ASSUME NEW c \in unsized, SizeClass(c) PROVE RecorderInv'
  BY <1>3, SizeClassStep
<1>4. CASE ReturnHeader
  BY <1>4, ReturnHeaderStep
<1>5. CASE CallForSuper
  BY <1>5, CallForSuperStep
<1>6. CASE StackOverflows \/ ArrayNamePanics
  BY <1>6, StoppedStep
<1>7. CASE ReturnSize
  BY <1>7, ReturnSizeStep
<1>8. CASE ClassSized
  BY <1>8, ClassSizedStep
<1>9. CASE AggregateArrays
  BY <1>9, AggregateArraysStep
<1>10. CASE RenderResult
  BY <1>10, RenderResultStep
<1>11. CASE Ended \/ UNCHANGED vars
  BY <1>11, NothingStep DEF Ended
<1> QED
  BY <1>1, <1>2, <1>3, <1>4, <1>5, <1>6, <1>7, <1>8, <1>9, <1>10, <1>11 DEF Next, RenderNext

\* The invariant holds in every state of every dump.
THEOREM RecorderIsInvariant == Spec => []RecorderInv
<1>1. Init => RecorderInv
  BY InitInv
<1>2. RecorderInv /\ [Next]_vars => RecorderInv'
  BY NextStep
<1> QED
  BY <1>1, <1>2, PTL DEF Spec

\* In every run of the recorder, whatever the dump and the order of its records, each variable
\* has its type, and the counters stay below 2^32 (result_recorder.rs:264).
THEOREM TypeCorrect == Spec => []TypeOK
<1>1. RecorderInv => TypeOK
  BY DEF RecorderInv
<1> QED
  BY <1>1, RecorderIsInvariant, PTL

\* Property CountsAgree for every dump, in every order of its records and at every step: the 32
\* bit counters of the summary are those of the rows modulo 2^32 (result_recorder.rs:264-371).
THEOREM CountsCorrect == Spec => []CountsAgree
<1>1. RecorderInv => CountsAgree
  BY DEF RecorderInv, RecordsInv
<1> QED
  BY <1>1, RecorderIsInvariant, PTL

\* Property FramesNamed for every dump and every order of its records: the stack traces are those
\* of the records, each frame with its method, file and line, and with the name that the class
\* id of its serial number was given last, or a placeholder (result_recorder.rs:405-480).
THEOREM FramesCorrect == Spec => []FramesNamed
<1>1. RecorderInv => FramesNamed
  BY DEF RecorderInv, ControlInv, FramesNamed
<1> QED
  BY <1>1, RecorderIsInvariant, PTL

\* Property OrderDeterministic for every dump: whatever the order of the hash maps and the choices
\* of the unstable sort, the rows come in one order (result_recorder.rs:582-591).
THEOREM OrderCorrect == Spec => []OrderDeterministic
<1>1. RecorderInv => OrderDeterministic
  BY DEF RecorderInv, ControlInv, RowsInv, Ordered, OrderDeterministic
<1> QED
  BY <1>1, RecorderIsInvariant, PTL

\* In the end every class has had its turn.
LEMMA AllEntered ==
  ASSUME RecorderInv, phase = "rendered"
  PROVE  /\ Entered = InstanceClasses /\ unsized = {} /\ walk = NoWalk
         /\ result.memory_usage = rows /\ rows \in Seq(Rows)
         /\ AreRows(rows, RowKeys, ExpectedRows)
<1>1. unsized = {} /\ walk = NoWalk /\ result.memory_usage = rows
  BY DEF RecorderInv, ControlInv
<1>2. Entered = InstanceClasses
  BY <1>1 DEF Entered
<1>3. rows \in Seq(Rows) /\ AreRows(rows, RowKeys, ExpectedRows)
  BY DEF RecorderInv, RowsInv
<1> QED
  BY <1>1, <1>2, <1>3

\* Property MissingReported for every dump: the warning has the ids of the classes without name or
\* layout that the result needs, and no others (result_recorder.rs:178-181 and :496-505).
THEOREM MissingCorrect == Spec => []MissingReported
<1>1. RecorderInv => MissingReported
  <2> HAVE RecorderInv
  <2> SUFFICES ASSUME phase = "rendered"
               PROVE  missing_class_ids =
                 {c \in InstanceClasses \cup ArrayClasses \cup FrameClasses : ~Named(c)}
                   \cup {a \in UNION {Lineage(c) : c \in InstanceClasses} : DumpsOf(a) = {}}
    BY DEF MissingReported
  <2>1. Entered = InstanceClasses
    BY AllEntered
  <2>2. LookedUp = InstanceClasses \cup ArrayClasses \cup FrameClasses
    BY DEF LookedUp
  <2>3. missing_class_ids = {c \in LookedUp : ~Named(c)}
                             \cup {a \in UNION {Lineage(c) : c \in Entered} : DumpsOf(a) = {}}
    BY DEF RecorderInv, MissingInv
  <2> QED
    BY <2>1, <2>2, <2>3
<1> QED
  BY <1>1, RecorderIsInvariant, PTL

\* Rows in some order are as often there as they are expected.
LEMMA RowsOccur ==
  ASSUME NEW T, NEW s \in Seq(T), NEW K, NEW F, DOMAIN F = K, AreRows(s, K, F), NEW r
  PROVE  Occurrences(F, r) = Occurrences(s, r)
<1>1. PICK h \in Bijection(DOMAIN s, K) : \A i \in DOMAIN s : s[i] = F[h[i]]
  BY DEF AreRows
<1>2. /\ h \in [DOMAIN s -> K] /\ \A a, b \in DOMAIN s : h[a] = h[b] => a = b
      /\ \A k \in K : \E a \in DOMAIN s : h[a] = k
  BY <1>1, Fun_BijectionProperties
<1>3. PICK A : A = {i \in DOMAIN s : s[i] = r}
  OBVIOUS
<1>4. PICK B : B = {k \in K : F[k] = r}
  OBVIOUS
<1>5. PICK g : g = [i \in A |-> h[i]]
  OBVIOUS
<1>6. g \in [A -> B]
  BY <1>1, <1>2, <1>3, <1>4, <1>5
<1>7. \A a, b \in A : g[a] = g[b] => a = b
  BY <1>2, <1>3, <1>5
<1>8. \A k \in B : \E a \in A : g[a] = k
  <2> TAKE k \in B
  <2>1. PICK a \in DOMAIN s : h[a] = k
    BY <1>2, <1>4
  <2>2. a \in A
    BY <1>1, <1>3, <1>4, <2>1
  <2> QED
    BY <1>5, <2>1, <2>2
<1>9. g \in Bijection(A, B)
  BY <1>6, <1>7, <1>8, Fun_IsBij
<1>10. IsFiniteSet(A)
  <2>1. PICK n \in Nat : n = Len(s)
    OBVIOUS
  <2>2. A \in SUBSET (1..n)
    BY <1>3, <2>1
  <2>3. IsFiniteSet(1..n)
    BY NumbersUpTo
  <2> QED
    BY <2>2, <2>3, FS_Subset
<1>11. Cardinality(A) = Cardinality(B)
  <2>1. ExistsBijection(A, B)
    BY <1>9, Fun_ExistsBij
  <2> QED
    BY <1>10, <2>1, FS_Bijection
<1> QED
  BY <1>3, <1>4, <1>11 DEF Occurrences

\* Property MemoryUsageExact for every dump and every order of its records: the table has just the
\* rows that follow from the records, each as often as expected (result_recorder.rs:484-593).
THEOREM MemoryUsageCorrect == Spec => []MemoryUsageExact
<1>1. RecorderInv => MemoryUsageExact
  <2> HAVE RecorderInv
  <2> SUFFICES ASSUME phase = "rendered", NEW r
               PROVE  Occurrences(ExpectedRows, r) = Occurrences(result.memory_usage, r)
    BY DEF MemoryUsageExact
  <2>1. /\ result.memory_usage = rows /\ rows \in Seq(Rows)
        /\ AreRows(rows, RowKeys, ExpectedRows)
    BY AllEntered
  <2>2. DOMAIN ExpectedRows = RowKeys
    BY DEF ExpectedRows
  <2>3. Occurrences(ExpectedRows, r) = Occurrences(rows, r)
    BY <2>1, <2>2, RowsOccur
  <2> QED
    BY <2>1, <2>3
<1> QED
  BY <1>1, RecorderIsInvariant, PTL

(***************************************************************************)
(* A stack that is deep enough.                                            *)
(***************************************************************************)

\* A stack with room for every lineage without a repetition only overflows in a cycle.
LEMMA OverflowStep ==
  ASSUME DeepStack, RecorderInv, StackOverflows
  PROVE  \E c \in InstanceClasses : Cyclic(c)
<1> DEFINE calls == walk.calls
           c == walk.class
<1>1. /\ phase = "sizing" /\ calls # << >> /\ walk.value = 0 /\ ~IsBase(Last(calls))
      /\ Len(calls) = MaxDepth
  BY DEF StackOverflows, Entering
<1>2. /\ TypeOK /\ StreamInv /\ LayoutsInv /\ MaxDepth \in Nat \ {0} /\ left = {} /\ OriginInv
  BY <1>1, Sizing DEF RecorderInv, RecordsInv
<1>3. walk # NoWalk
  BY <1>1 DEF NoWalk
<1>4. c \in InstanceClasses /\ Chain(c, calls)
  BY <1>3 DEF RecorderInv, WalkInv
<1>5. Super(Last(calls)) # 0
  BY <1>1, <1>2, LayoutsFound
<1>6. PICK n \in Nat \ {0} : n = MaxDepth
  BY <1>2
<1>7. /\ calls \in Seq(ClassIds) /\ DOMAIN calls = 1..n /\ calls[1] = c
      /\ \A k \in 1..(n - 1) : Super(calls[k]) # 0 /\ calls[k + 1] = Super(calls[k])
      /\ Super(calls[n]) # 0
  BY <1>1, <1>4, <1>5, <1>6 DEF Chain, Last
<1> HIDE DEF calls, c
<1>8. \A k \in 1..n : Super(calls[k]) # 0
  <2> TAKE k \in 1..n
  <2>1. k = n \/ k \in 1..(n - 1)
    BY <1>6
  <2> QED
    BY <1>7, <2>1
<1>9. PICK file : file = input.file
  OBVIOUS
<1>10. ASSUME NEW k \in 1..n
       PROVE  Extends(file, calls[k], Super(calls[k]))
  <2>1. DumpsOf(calls[k]) # {}
    BY <1>2, <1>8, SupersKnown
  <2>2. DumpsOf(calls[k]) \in SUBSET Nat
    BY <1>2, PlacesFinite DEF DumpsOf, Of
  <2>3. PICK m : m = Min(DumpsOf(calls[k])) /\ m \in DumpsOf(calls[k])
    BY <2>1, <2>2, SmallestExists
  <2>4. /\ m \in DOMAIN stream /\ stream[m].kind = "ClassDump" /\ stream[m].id = calls[k]
        /\ stream[m].super = Super(calls[k])
    BY <2>1, <2>3 DEF DumpsOf, Of, Super, First
  <2>5. PICK i \in DOMAIN file : stream[m] = file[i]
    BY <1>2, <1>9, <2>4 DEF OriginInv
  <2> QED
    BY <2>4, <2>5 DEF Extends, ClassDumpsIn
<1>11. PICK ids : ids = {file[i].id : i \in ClassDumpsIn(file)}
  OBVIOUS
<1>12. calls \in [1..n -> ids]
  <2>1. \A k \in 1..n : calls[k] \in ids
    BY <1>10, <1>11 DEF Extends
  <2> QED
    BY <1>7, <2>1
<1>13. \A k \in 1..(n - 1) : Extends(file, calls[k], calls[k + 1])
  BY <1>7, <1>10
<1>14. ~IsInjective(calls)
  <2>1. input \in Inputs
    BY <1>2 DEF TypeOK
  <2>2. \A s \in [1..MaxDepth -> {input.file[i].id : i \in ClassDumpsIn(input.file)}] :
          (\A k \in 1..(MaxDepth - 1) : Extends(input.file, s[k], s[k + 1])) => ~IsInjective(s)
    BY <2>1, Zenon DEF DeepStack
  <2>3. calls \in [1..MaxDepth -> {input.file[i].id : i \in ClassDumpsIn(input.file)}]
    BY <1>6, <1>9, <1>11, <1>12
  <2>4. \A k \in 1..(MaxDepth - 1) : Extends(input.file, calls[k], calls[k + 1])
    BY <1>6, <1>9, <1>13
  <2> QED
    BY <2>2, <2>3, <2>4, Zenon
<1>15. PICK x \in 1..n, y \in 1..n : x # y /\ calls[x] = calls[y]
  BY <1>7, <1>14 DEF IsInjective
<1>16. PICK i \in 1..n, j \in 1..n : i < j /\ calls[i] = calls[j]
  BY <1>15
<1>17. i \in 1..(n - 1) /\ i + 1 \in 1..n /\ i + 1 <= j /\ 1 \in 1..n /\ 1 <= i
  BY <1>6, <1>16
<1>18. calls[i + 1] = Super(calls[i])
  BY <1>7, <1>17
<1>19. \A a, b \in 1..n : a <= b => calls[b] \in Lineage(calls[a])
  BY <1>2, <1>4, <1>7, ChainGoesUp
<1>20. calls[j] \in Lineage(calls[i + 1]) /\ calls[i] \in Lineage(calls[1])
  BY <1>16, <1>17, <1>19
<1>21. Cyclic(c)
  <2>1. calls[i] \in Lineage(Super(calls[i])) /\ Super(calls[i]) # 0 /\ calls[i] \in Lineage(c)
    BY <1>7, <1>8, <1>16, <1>17, <1>18, <1>20
  <2> QED
    BY <2>1 DEF Cyclic
<1> QED
  BY <1>4, <1>21

\* Only the overflow of the stack aborts the process.
LEMMA AbortStep ==
  ASSUME DeepStack, RecorderInv, [Next]_vars,
         phase = "aborted" => \E c \in InstanceClasses : Cyclic(c)
  PROVE  (phase = "aborted" => \E c \in InstanceClasses : Cyclic(c))'
<1> SUFFICES ASSUME phase' = "aborted" PROVE (\E c \in InstanceClasses : Cyclic(c))'
  OBVIOUS
<1>1. CASE RecordNext
  <2>1. phase' = phase /\ phase = "recording"
    BY <1>1 DEF RecordNext, Record, Utf8String, LoadClass, StackFrame, StackTrace, Counted,
         HeapDumpEnd, Root, Android, InstanceDump, ObjectArrayDump, PrimitiveArrayDump,
         PrimitiveArrayNoDataDump, ClassDump
  <2> QED
    BY <2>1
<1>2. CASE StackOverflows
  <2>1. RecordsKept
    BY <1>2 DEF StackOverflows, RecordsKept
  <2>2. \E c \in InstanceClasses : Cyclic(c)
    BY <1>2, OverflowStep
  <2> QED
    BY <2>1, <2>2, ClassesKept
<1>3. CASE UNCHANGED vars
  <2>1. RecordsKept /\ phase = "aborted"
    BY <1>3 DEF vars, RecordsKept
  <2> QED
    BY <2>1, ClassesKept
<1>4. CASE RenderThreadInfo \/ AggregateArrays \/ ArrayNamePanics \/ RenderResult
  BY <1>4 DEF RenderThreadInfo, AggregateArrays, ArrayNamePanics, RenderResult
<1>5. CASE (\E c \in unsized : SizeClass(c)) \/ ReturnHeader \/ CallForSuper \/ ReturnSize \/ ClassSized
  BY <1>5 DEF SizeClass, ReturnHeader, CallForSuper, ReturnSize, ClassSized, Entering
<1>6. CASE Ended
  BY <1>3, <1>6 DEF Ended
<1> QED
  BY <1>1, <1>2, <1>3, <1>4, <1>5, <1>6 DEF Next, RenderNext

\* Property OverflowMeansCycle for every set of dumps whose hierarchies without a cycle fit on
\* the stack, in every order of the records: only a class among its own ancestors exhausts it, and a rendered dump has none
\* (result_recorder.rs:491-518).
THEOREM OverflowCorrect ==
  ASSUME DeepStack
  PROVE  Spec => []OverflowMeansCycle
<1> DEFINE AbortInv == phase = "aborted" => \E c \in InstanceClasses : Cyclic(c)
<1>1. Init => AbortInv
  BY DEF Init
<1>2. RecorderInv /\ AbortInv /\ [Next]_vars => AbortInv'
  BY AbortStep
<1>3. RecorderInv /\ AbortInv => OverflowMeansCycle
  <2> SUFFICES ASSUME RecorderInv, AbortInv PROVE OverflowMeansCycle
    OBVIOUS
  <2>1. phase = "rendered" => \A c \in InstanceClasses : ~Cyclic(c)
    BY AllEntered DEF RecorderInv, CyclesInv
  <2> QED
    BY <2>1 DEF OverflowMeansCycle
<1> HIDE DEF AbortInv
<1> QED
  BY <1>1, <1>2, <1>3, RecorderIsInvariant, PTL DEF Spec
=============================================================================
