------------------------- MODULE RecorderInvariant -------------------------
(***************************************************************************)
(* Why the result is what RecorderResult says: an invariant of every step  *)
(* of the recorder.  The maps speak of the records so far, and while the   *)
(* sizes are computed, the rows and the warning speak of the classes whose *)
(* turn has come.                                                          *)
(***************************************************************************)
EXTENDS RecorderResult

\* The maps have the last record of each key, or the first one (class dumps).
StringsInv ==
  LET map == self.utf8_strings_by_id
  IN /\ DOMAIN map = {stream[i].id : i \in Of({"Utf8String"})}
     /\ \A n \in DOMAIN map : map[n] = Latest(StringsOf(n)).str
Loaded(r) == [class_object_id |-> r.id, class_name_id |-> r.name]
LoadsInv ==
  LET data == self.class_data
      by_id == self.class_data_by_id
      by_serial == self.class_data_by_serial_number
  IN /\ data \in Seq([class_object_id : Nat, class_name_id : Nat])
     /\ DOMAIN by_id = {stream[i].id : i \in Of({"LoadClass"})}
     /\ \A c \in DOMAIN by_id :
          by_id[c] \in DOMAIN data /\ data[by_id[c]] = Loaded(Latest(LoadsOf(c)))
     /\ DOMAIN by_serial = {stream[i].serial : i \in Of({"LoadClass"})}
     /\ \A s \in DOMAIN by_serial :
          by_serial[s] \in DOMAIN data /\ data[by_serial[s]] = Loaded(Latest(LoadsAs(s)))
FramesInv ==
  LET map == self.stack_frame_by_id
  IN /\ DOMAIN map = {stream[i].id : i \in Of({"StackFrame"})}
     /\ \A f \in DOMAIN map : map[f] = Latest(FramesOf(f))
TracesInv ==
  LET map == self.stack_trace_by_serial_number
  IN /\ DOMAIN map = TraceSerials
     /\ \A s \in DOMAIN map : map[s] = Latest(TracesOf(s)).frames
LayoutsInv ==
  /\ DOMAIN ClassInfo = {stream[i].id : i \in Of({"ClassDump"})}
  /\ \A c \in DOMAIN ClassInfo :
       ClassInfo[c] = [super |-> First(DumpsOf(c)).super, fields |-> First(DumpsOf(c)).fields]

\* The instances and the arrays are all in the entry of their class or type.
InstancesInv ==
  LET map == self.classes_all_instance_total_size_by_id
  IN /\ DOMAIN map = InstanceClasses
     /\ \A c \in DOMAIN map : map[c] = Cardinality(InstancesOf(c))
ArrayCounter(at) ==
  [number |-> Cardinality(at), max |-> Max({ArrayBytes(i) : i \in at}),
   total |-> SumFunction([i \in at |-> ArrayBytes(i)])]
ArraysInv ==
  LET objects == self.object_array_counters
      primitives == self.primitive_array_counters
  IN /\ DOMAIN objects = ArrayClasses
     /\ \A c \in DOMAIN objects : objects[c] = ArrayCounter(ObjectArraysOf(c))
     /\ DOMAIN primitives = ArrayTypes
     /\ \A t \in DOMAIN primitives : primitives[t] = ArrayCounter(ArraysOf(t))

\* The records are records of the file.
OriginInv == \A k \in DOMAIN stream : \E i \in DOMAIN input.file : stream[k] = input.file[i]

\* The stack has room for every lineage without a repetition that the class dumps of a file
\* allow: MaxDepth classes that extend each other in turn are not all different.
ClassDumpsIn(file) == {i \in DOMAIN file : file[i].kind = "ClassDump"}
Extends(file, c, super) == \E i \in ClassDumpsIn(file) : file[i].id = c /\ file[i].super = super
DeepStack ==
  \A d \in Inputs : \A calls \in [1..MaxDepth -> {d.file[i].id : i \in ClassDumpsIn(d.file)}] :
    (\A k \in 1..(MaxDepth - 1) : Extends(d.file, calls[k], calls[k + 1])) => ~IsInjective(calls)

StreamInv == stream \in Seq(Records)
RecordsInv ==
  /\ StreamInv /\ StringsInv /\ LoadsInv /\ FramesInv /\ TracesInv /\ LayoutsInv
  /\ InstancesInv /\ ArraysInv /\ OriginInv /\ CountsAgree

\* Nothing is computed before the last record, and every instance class has its turn.
ControlInv ==
  /\ phase = "recording" => unsized = {} /\ walk = NoWalk /\ rows = << >>
  /\ phase # "recording" =>
       left = {} /\ unsized \subseteq InstanceClasses /\ ThreadsRight(result.thread_info)
  /\ phase \in {"rendering", "rendered"} => unsized = {} /\ walk = NoWalk
  /\ phase = "rendered" => result.memory_usage = rows

\* The calls follow the lineage of the class. As soon as one has returned, the lineage
\* is known to end, the calls are different, and the value is the size of an object
\* of the classes of the lineage that are no longer among them.
Chain(c, calls) ==
  /\ calls \in Seq(ClassIds)
  /\ calls # << >> => calls[1] = c
  /\ \A k \in 1..(Len(calls) - 1) : Super(calls[k]) # 0 /\ calls[k + 1] = Super(calls[k])
WalkInv ==
  walk # NoWalk =>
    /\ phase \in {"sizing", "aborted"}
    /\ walk.class \in InstanceClasses \ unsized
    /\ Chain(walk.class, walk.calls)
    /\ walk.value = 0 => walk.calls # << >>
    /\ walk.value # 0 =>
         /\ ~Cyclic(walk.class)
         /\ IsInjective(walk.calls) /\ Range(walk.calls) \subseteq Lineage(walk.class)
         /\ \A a \in Range(walk.calls) : Super(a) # 0
         /\ walk.value = SizeOf(Lineage(walk.class) \ Range(walk.calls))
         /\ walk.value % input.id_size = 0

\* The classes whose row has been made, and those for which all calls have begun.
Sized == InstanceClasses \ (unsized \cup (IF walk = NoWalk THEN {} ELSE {walk.class}))
Entered ==
  {c \in InstanceClasses \ unsized : walk # NoWalk /\ walk.value = 0 => c # walk.class}
CyclesInv == phase # "recording" => \A c \in Entered : ~Cyclic(c)

\* The rows are those of the sized classes, and in the end all rows, in order.
AreRows(s, keys, Row) == \E h \in Bijection(DOMAIN s, keys) : \A k \in DOMAIN s : s[k] = Row[h[k]]
Labels == [of : DOMAIN LabelCode, pre : DOMAIN PrefixCode, base : Nat, array : BOOLEAN]
Rows == [class_name : Labels, instance_count : Nat, largest_allocation_bytes : Nat,
         allocation_size_bytes : Nat]
Ordered(m) ==
  \A i, j \in DOMAIN m : i < j => m[i] = m[j] \/ Precedes(RowKey(m[j]), RowKey(m[i]))
RowsInv ==
  /\ rows \in Seq(Rows)
  /\ phase = "sizing" => AreRows(rows, Sized, [c \in Sized |-> InstanceRow(c)])
  /\ phase \in {"rendering", "rendered"} => AreRows(rows, RowKeys, ExpectedRows) /\ Ordered(rows)

\* The warning is about what was looked up so far.
LookedUp ==
  IF phase = "sizing" THEN (InstanceClasses \ unsized) \cup FrameClasses
  ELSE InstanceClasses \cup ArrayClasses \cup FrameClasses
MissingInv ==
  /\ phase = "recording" => missing_class_ids = {}
  /\ phase \in {"sizing", "rendering", "rendered"} =>
       missing_class_ids = {c \in LookedUp : ~Named(c)}
                             \cup {a \in UNION {Lineage(c) : c \in Entered} : DumpsOf(a) = {}}

\* At every step the maps of the recorder hold what the records so far say, the rows and
\* the warning what the classes whose turn has come say, and a size on its way back through
\* the recursion is that of the lineage above (result_recorder.rs:264-402, :484-593).
RecorderInv ==
  /\ TypeOK /\ RecordsInv /\ ControlInv /\ WalkInv /\ CyclesInv /\ RowsInv /\ MissingInv
=============================================================================
