-------------------------- MODULE RecorderResult --------------------------
(***************************************************************************)
(* What the result of a dump should be, said of its records alone, and the *)
(* properties that the recorder's maps, walks and sorts must have for it.  *)
(***************************************************************************)
EXTENDS ResultRecorder

TypeOK ==
  /\ input \in Inputs
  /\ left \subseteq DOMAIN input.file
  /\ Len(stream) + Cardinality(left) = Len(input.file)
  /\ DOMAIN self = DOMAIN NewRecorder
  /\ self.counters \in [Counters -> 0..(U32 - 1)]
  /\ phase \in {"recording", "sizing", "rendering", "rendered", "panicked", "aborted"}
  /\ unsized \subseteq DOMAIN self.classes_all_instance_total_size_by_id
  /\ walk \in [class : Nat, calls : Seq(Nat), value : Nat] /\ Len(walk.calls) <= MaxDepth
  /\ missing_class_ids \subseteq Nat

-----------------------------------------------------------------------------
(* The records of the dump: the places in the stream of those of some kind *)
(* with some key.                                                          *)

Of(kinds) == {i \in DOMAIN stream : stream[i].kind \in kinds}
Latest(at) == stream[Max(at)]
First(at)  == stream[Min(at)]

StringsOf(n) == {i \in Of({"Utf8String"}) : stream[i].id = n}
LoadsOf(c)   == {i \in Of({"LoadClass"}) : stream[i].id = c}
LoadsAs(s)   == {i \in Of({"LoadClass"}) : stream[i].serial = s}
FramesOf(f)  == {i \in Of({"StackFrame"}) : stream[i].id = f}
TracesOf(s)  == {i \in Of({"StackTrace"}) : stream[i].serial = s}
DumpsOf(c)   == {i \in Of({"ClassDump"}) : stream[i].id = c}

PrimitiveArrays == {"PrimitiveArrayDump", "PrimitiveArrayNoDataDump"}
InstancesOf(c)    == {i \in Of({"InstanceDump"}) : stream[i].class = c}
ObjectArraysOf(c) == {i \in Of({"ObjectArrayDump"}) : stream[i].class = c}
ArraysOf(t)       == {i \in Of(PrimitiveArrays) : stream[i].type = t}

InstanceClasses == {stream[i].class : i \in Of({"InstanceDump"})}
ArrayClasses    == {stream[i].class : i \in Of({"ObjectArrayDump"})}
ArrayTypes      == {stream[i].type : i \in Of(PrimitiveArrays)}
ClassIds        == InstanceClasses \cup {stream[i].id : i \in Of({"ClassDump"})}
                                   \cup {stream[i].super : i \in Of({"ClassDump"})}

\* A class has the name of its last loading, and a name id that of its last string.
Named(c) == LoadsOf(c) # {} /\ StringsOf(Latest(LoadsOf(c)).name) # {}
NameOf(c) ==
  IF Named(c)
  THEN LET s == Latest(StringsOf(Latest(LoadsOf(c)).name)).str
       IN Label("class", s.pre, s.base, FALSE)
  ELSE Label("unknown", "none", c, FALSE)

\* The first dump of a class gives its super class, 0 if it has none, and the
\* lineage is what is reached from a class by going to the super class.
Super(c) == IF DumpsOf(c) = {} THEN 0 ELSE First(DumpsOf(c)).super
Closed(S) == \A y \in S : Super(y) = 0 \/ Super(y) \in S
Lineage(c) == {x \in ClassIds : \A S \in SUBSET ClassIds : c \in S /\ Closed(S) => x \in S}
Cyclic(c) == \E a \in Lineage(c) : Super(a) # 0 /\ a \in Lineage(Super(a))

\* An object has a header and, rounded up to the size of an identifier, the
\* fields of every class of its lineage but the topmost.
OwnSize(c) ==
  LET f == First(DumpsOf(c)).fields
  IN next_multiple_of(SumOf([k \in DOMAIN f |-> field_size(f[k], input.id_size)]), input.id_size)
SizeOf(classes) ==
  object_header_size(input.id_size)
    + SumFunction([a \in {x \in classes : Super(x) # 0} |-> OwnSize(a)])
InstanceSize(c) == next_multiple_of(SizeOf(Lineage(c)), OBJECT_ALIGN)

\* The row of the arrays that are the records at the places in at.
ArrayBytes(i) ==
  CASE stream[i].kind = "ObjectArrayDump" -> object_array_size(input.id_size, stream[i].n)
    [] stream[i].kind = "PrimitiveArrayDump" ->
         primitive_array_size(input.id_size, stream[i].type, stream[i].n)
    [] OTHER -> 0
ArrayRow(name, at) ==
  stats(name, Cardinality(at), Max({ArrayBytes(i) : i \in at}),
        SumFunction([i \in at |-> ArrayBytes(i)]))

InstanceRow(c) ==
  LET n == Cardinality(InstancesOf(c)) IN stats(NameOf(c), n, InstanceSize(c), InstanceSize(c) * n)

\* All rows, by what they are about.
RowKeys == ({"instances"} \X InstanceClasses) \cup ({"objects"} \X ArrayClasses)
             \cup ({"primitives"} \X ArrayTypes)
ExpectedRow(k) ==
  CASE k[1] = "instances"  -> InstanceRow(k[2])
    [] k[1] = "objects"    -> ArrayRow([NameOf(k[2]) EXCEPT !.pre = "none", !.array = TRUE],
                                       ObjectArraysOf(k[2]))
    [] k[1] = "primitives" -> ArrayRow(Label("primitive", "none", TypeCode[k[2]], TRUE),
                                       ArraysOf(k[2]))
ExpectedRows == [k \in RowKeys |-> ExpectedRow(k)]

Occurrences(f, v) == Cardinality({x \in DOMAIN f : f[x] = v})

-----------------------------------------------------------------------------
(* Properties.                                                             *)

\* The table of a dump follows from its records: whatever the order in which
\* strings, classes and objects come, the names are the last ones given, the
\* layouts the first ones, and an object is as large as its header and the fields
\* of its lineage, although the code rounds up at every level of a recursion
\* (result_recorder.rs:484-593).
MemoryUsageExact ==
  phase = "rendered" =>
    \A r \in Range(ExpectedRows) \cup Range(result.memory_usage) :
      Occurrences(ExpectedRows, r) = Occurrences(result.memory_usage, r)

\* The order of the rows does not depend on the seed of a hash map or on an
\* unstable sort: two rows are equal, or one precedes the other by name, total
\* size, number, and largest size ("Deterministic order", result_recorder.rs:582).
OrderDeterministic ==
  phase = "rendered" =>
    LET m == result.memory_usage
    IN \A i, j \in DOMAIN m : i < j => m[i] = m[j] \/ Precedes(RowKey(m[j]), RowKey(m[i]))

\* The frames of the traces that are shown, and the serial numbers of their classes.
TraceSerials == {stream[i].serial : i \in Of({"StackTrace"})}
FrameSerials ==
  {Latest(FramesOf(f)).class_serial :
     f \in {g \in UNION {ToSet(Latest(TracesOf(s)).frames) : s \in TraceSerials} :
              FramesOf(g) # {}}}
FrameClasses == {Latest(LoadsAs(s)).id : s \in {t \in FrameSerials : LoadsAs(t) # {}}}

\* The warning is about exactly the ids for which something is missing: the name
\* of a class that the table or a stack trace shows, or the layout of a class of
\* the lineage of an object (result_recorder.rs:499 and :180), and no more.
MissingReported ==
  phase = "rendered" =>
    missing_class_ids =
      {c \in InstanceClasses \cup ArrayClasses \cup FrameClasses : ~Named(c)}
        \cup {a \in UNION {Lineage(c) : c \in InstanceClasses} : DumpsOf(a) = {}}

\* No object is counted twice or not at all: the 64 bit counts of the rows and the
\* counters of the summary agree, as far as the 32 bits of these reach, and the
\* sub-records of all kinds are the sub-records (result_recorder.rs:264-371).
CountsAgree ==
  LET c == self.counters
      Number(map) == SumFunction([k \in DOMAIN map |-> map[k].number])
      Mod(n) == n % U32
      counted == CountedRoots \cup {"InstanceDump", "ObjectArrayDump", "PrimitiveArrayDump",
                                    "ClassDump"}
  IN /\ c["InstanceDump"] = Mod(SumFunction(self.classes_all_instance_total_size_by_id))
     /\ c["ObjectArrayDump"] = Mod(Number(self.object_array_counters))
     /\ c["PrimitiveArrayDump"] = Mod(Number(self.primitive_array_counters))
     /\ c["GcSegment"] = Mod(SumFunctionOnSet(c, counted) + Cardinality(Of(AndroidRecords)))

\* What a frame shows, from the last record of each key on the way to it. The class of a
\* serial number is that of its last loading, but the name of a class is that of the last
\* loading of its id.
TextOf(n) == IF StringsOf(n) = {} THEN << >> ELSE <<Latest(StringsOf(n)).str>>
ClassShown(s) ==
  IF LoadsAs(s) = {} THEN Label("serial", "none", s, FALSE) ELSE NameOf(Latest(LoadsAs(s)).id)
ExpectedFrame(id) ==
  IF FramesOf(id) = {} THEN [unknown_frame |-> id]
  ELSE LET f == Latest(FramesOf(id))
       IN [class |-> ClassShown(f.class_serial), method |-> TextOf(f.method),
           file |-> TextOf(f.file), line |-> pretty_line_number(f.line)]
ThreadsRight(thread_info) ==
  LET shown == ascending({s \in TraceSerials : Latest(TracesOf(s)).frames # << >>})
  IN thread_info = [k \in DOMAIN shown |->
                      LET frames == Latest(TracesOf(shown[k])).frames
                      IN [j \in DOMAIN frames |-> ExpectedFrame(frames[j])]]

\* The stack traces follow from the records, whatever their order: traces by serial number,
\* without the empty ones, each frame with its method, file and line and with the class of
\* its serial number, or a placeholder for whatever is missing (result_recorder.rs:405-480).
\* As the class is found by serial number and its name by id (:446), a frame whose class id
\* was loaded again under another name shows that later name.
FramesNamed == phase = "rendered" => ThreadsRight(result.thread_info)

\* The recursion over the super classes ends with a size for every hierarchy that
\* has an end, and only a class that is among its own ancestors makes the thread
\* run out of stack: nothing in the code looks for that (result_recorder.rs:513).
OverflowMeansCycle ==
  /\ phase = "aborted" => \E c \in InstanceClasses : Cyclic(c)
  /\ phase = "rendered" => \A c \in InstanceClasses : ~Cyclic(c)

\* Every dump is rendered, if its classes have no cycle and its array classes have
\* names that can be cut: missing strings, classes and frames never stop the
\* thread (result_recorder.rs:163-166).
EventuallyRendered ==
  <>\/ phase = "rendered"
    \/ phase = "aborted" /\ \E c \in InstanceClasses : Cyclic(c)
    \/ phase = "panicked" /\ \E i \in Of({"Utf8String"}) : stream[i].str.short
=============================================================================
