-------------------------- MODULE ResultRecorder --------------------------
(***************************************************************************)
(* The state of the "hprof-recorder" thread: the maps and counters that it *)
(* fills record by record (record_records) and the result that it makes of *)
(* them once the records are all there.  How the records reach the thread  *)
(* is the subject of RecorderThread; where a vector of records ends makes  *)
(* no difference here.                                                     *)
(*                                                                         *)
(* A string is a record: pre is the prefix that array classes have, base   *)
(* the rest, slashed says whether it is separated by '/', and short that   *)
(* the string ends too early, or within a character, for its prefix and    *)
(* last byte to be cut off.                                                *)
(***************************************************************************)
EXTENDS Integers, SequencesExt, ObjectSizes, Calendar, RenderedResult

CONSTANTS
  Inputs,       \* dumps: a sequence of records, and the parameters of the recorder
  U32,          \* 2^32, the modulus of the counters
  MaxDepth      \* depth of calls that the stack of the thread has room for

VARIABLES
  input,    \* the dump
  left,     \* the records of it that were not recorded yet
  stream,   \* the records recorded so far, in order
  self,     \* the struct ResultRecorder
  phase,    \* what the thread is doing
  unsized,  \* classes with instances that aggregate_memory_usage has yet to see
  walk,     \* the computation of an instance size: its class, calls and value
  rows,     \* rows of memory usage so far
  missing_class_ids,
  result    \* the parts of the RenderedResult

vars == <<input, left, stream, self, phase, unsized, walk, rows, missing_class_ids, result>>

-----------------------------------------------------------------------------
(* The records, with the fields that the recorder uses.                    *)

\* Records that are only counted, and sub-records with a counter of their own.
CountedRecords == {"UnloadClass", "StartThread", "EndThread", "AllocationSites", "HeapSummary",
                   "ControlSettings", "CpuSamples", "HeapDumpStart"}
CountedRoots == {"RootUnknown", "RootThreadObject", "RootJniGlobal", "RootJniLocal",
                 "RootJavaFrame", "RootNativeStack", "RootStickyClass", "RootThreadBlock",
                 "RootMonitorUsed"}
\* Sub-records of Android, parsed for the alignment of the stream only.
AndroidRecords == {"RootInternedString", "RootFinalizing", "RootDebugger",
                   "RootReferenceCleanup", "RootVmInternal", "RootJniMonitor", "Unreachable",
                   "HeapDumpInfo"}
Strings == [pre : {"none", "L", "LL"}, base : Nat, slashed : BOOLEAN, short : BOOLEAN]
PrimitiveTypes == {"Bool", "Char", "Float", "Double", "Byte", "Short", "Int", "Long"}
FieldTypes == PrimitiveTypes \cup {"Object"}

Records ==
  [kind : {"Utf8String"}, id : Nat, str : Strings]
    \cup [kind : {"LoadClass"}, serial : Nat, id : Nat, name : Nat]
    \cup [kind : {"StackFrame"}, id : Nat, method : Nat, file : Nat, class_serial : Nat, line : Int]
    \cup [kind : {"StackTrace"}, serial : Nat, frames : Seq(Nat)]
    \cup [kind : {"InstanceDump"}, class : Nat]
    \cup [kind : {"ObjectArrayDump"}, class : Nat, n : Nat]
    \cup [kind : {"PrimitiveArrayDump"}, type : PrimitiveTypes, n : Nat]
    \cup [kind : {"PrimitiveArrayNoDataDump"}, type : FieldTypes]
    \cup [kind : {"ClassDump"}, id : Nat, super : Nat, fields : Seq(FieldTypes)]
    \cup [kind : CountedRecords \cup CountedRoots \cup AndroidRecords \cup {"HeapDumpEnd"}]

\* Identifiers of other sizes do not get past slurp_header.
ASSUME RecorderAssumption ==
  /\ U32 \in Nat \ {0} /\ MaxDepth \in Nat \ {0}
  /\ \A d \in Inputs : d.file \in Seq(Records) /\ d.id_size \in {4, 8}

-----------------------------------------------------------------------------
(* The recorder's maps and counters.                                       *)

Counters == CountedRecords \cup CountedRoots
              \cup {"StackFrame", "StackTrace", "GcSegment", "InstanceDump", "ObjectArrayDump",
                    "PrimitiveArrayDump", "ClassDump"}

EmptyMap == << >>
get_or(map, key, default) == IF key \in DOMAIN map THEN map[key] ELSE default
insert(map, key, value) ==
  [k \in DOMAIN map \cup {key} |-> IF k = key THEN value ELSE map[k]]
or_insert(map, key, value) == insert(map, key, get_or(map, key, value))

\* Mutant: the counters never wrap around.
incremented_UNBOUNDED(counters, names) ==
  [c \in DOMAIN counters |-> IF c \in names THEN counters[c] + 1 ELSE counters[c]]

\* `+= 1` on a u32: the release build has no overflow checks and wraps around.
incremented(counters, names) ==
  [c \in DOMAIN counters |->
     IF c \in names THEN (counters[c] + 1) % U32 ELSE counters[c]]

\* ArrayCounter::add_array on the entry of key.
add_array(map, key, size) ==
  LET c == get_or(map, key, [number |-> 0, max |-> 0, total |-> 0])
  IN insert(map, key, [number |-> c.number + 1,
                       max |-> IF size > c.max THEN size ELSE c.max,
                       total |-> c.total + size])

NewRecorder ==
  [utf8_strings_by_id |-> EmptyMap,
   class_data |-> << >>,
   class_data_by_id |-> EmptyMap,
   class_data_by_serial_number |-> EmptyMap,
   classes_single_instance_size_by_id |-> EmptyMap,
   classes_all_instance_total_size_by_id |-> EmptyMap,
   primitive_array_counters |-> EmptyMap,
   object_array_counters |-> EmptyMap,
   stack_trace_by_serial_number |-> EmptyMap,
   stack_frame_by_id |-> EmptyMap,
   counters |-> [c \in Counters |-> 0]]

NoWalk == [class |-> 0, calls |-> << >>, value |-> 0]

Init ==
  /\ input \in Inputs
  /\ left = DOMAIN input.file
  /\ stream = << >>
  /\ self = NewRecorder
  /\ phase = "recording"
  /\ unsized = {}
  /\ walk = NoWalk
  /\ rows = << >>
  /\ missing_class_ids = {}
  /\ result = EmptyMap

-----------------------------------------------------------------------------
(* record_records: one action per kind of record.                          *)

\* The i-th record of the dump is the next one, and leaves the recorder as s.
Record(i, s) ==
  /\ phase = "recording"
  /\ left' = left \ {i}
  /\ stream' = Append(stream, input.file[i])
  /\ self' = s
  /\ UNCHANGED <<input, phase, unsized, walk, rows, missing_class_ids, result>>

Utf8String(i) ==
  LET r == input.file[i] IN
  /\ r.kind = "Utf8String"
  /\ Record(i, [self EXCEPT !.utf8_strings_by_id = insert(@, r.id, r.str)])

LoadClass(i) ==
  LET r == input.file[i]
      data_index == Len(self.class_data) + 1
  IN
  /\ r.kind = "LoadClass"
  /\ Record(i, [self EXCEPT
       !.class_data = Append(@, [class_object_id |-> r.id, class_name_id |-> r.name]),
       !.class_data_by_id = insert(@, r.id, data_index),
       !.class_data_by_serial_number = insert(@, r.serial, data_index)])

StackFrame(i) ==
  LET r == input.file[i] IN
  /\ r.kind = "StackFrame"
  /\ Record(i, [self EXCEPT !.counters = incremented(@, {"StackFrame"}),
                            !.stack_frame_by_id = insert(@, r.id, r)])

StackTrace(i) ==
  LET r == input.file[i] IN
  /\ r.kind = "StackTrace"
  /\ Record(i, [self EXCEPT !.counters = incremented(@, {"StackTrace"}),
                            !.stack_trace_by_serial_number = insert(@, r.serial, r.frames)])

Counted(i) ==
  LET r == input.file[i] IN
  /\ r.kind \in CountedRecords
  /\ Record(i, [self EXCEPT !.counters = incremented(@, {r.kind})])

HeapDumpEnd(i) ==
  /\ input.file[i].kind = "HeapDumpEnd"
  /\ Record(i, self)

Root(i) ==
  LET r == input.file[i] IN
  /\ r.kind \in CountedRoots
  /\ Record(i, [self EXCEPT !.counters = incremented(@, {"GcSegment", r.kind})])

Android(i) ==
  /\ input.file[i].kind \in AndroidRecords
  /\ Record(i, [self EXCEPT !.counters = incremented(@, {"GcSegment"})])

InstanceDump(i) ==
  LET r == input.file[i] IN
  /\ r.kind = "InstanceDump"
  /\ Record(i, [self EXCEPT
       !.counters = incremented(@, {"GcSegment", "InstanceDump"}),
       !.classes_all_instance_total_size_by_id = insert(@, r.class, get_or(@, r.class, 0) + 1)])

ObjectArrayDump(i) ==
  LET r == input.file[i] IN
  /\ r.kind = "ObjectArrayDump"
  /\ Record(i, [self EXCEPT
       !.counters = incremented(@, {"GcSegment", "ObjectArrayDump"}),
       !.object_array_counters = add_array(@, r.class, object_array_size(input.id_size, r.n))])

\* The parser has already rejected an array of objects among these.
PrimitiveArrayDump(i) ==
  LET r == input.file[i] IN
  /\ r.kind = "PrimitiveArrayDump"
  /\ Record(i, [self EXCEPT
       !.counters = incremented(@, {"GcSegment", "PrimitiveArrayDump"}),
       !.primitive_array_counters =
          add_array(@, r.type, primitive_array_size(input.id_size, r.type, r.n))])

\* Mutant: the array is not counted among the primitive arrays.
PrimitiveArrayNoDataDump_UNCOUNTED(i) ==
  LET r == input.file[i] IN
  /\ r.kind = "PrimitiveArrayNoDataDump"
  /\ Record(i, [self EXCEPT !.counters = incremented(@, {"GcSegment"}),
                            !.primitive_array_counters = add_array(@, r.type, 0)])

\* The body was left out by the dumper: counted, with no bytes.
PrimitiveArrayNoDataDump(i) ==
  LET r == input.file[i] IN
  /\ r.kind = "PrimitiveArrayNoDataDump"
  /\ Record(i, [self EXCEPT !.counters = incremented(@, {"GcSegment", "PrimitiveArrayDump"}),
                            !.primitive_array_counters = add_array(@, r.type, 0)])

\* Mutant: a class that is dumped again replaces the first one.
ClassDump_REPLACES(i) ==
  LET r == input.file[i] IN
  /\ r.kind = "ClassDump"
  /\ Record(i, [self EXCEPT
       !.counters = incremented(@, {"GcSegment", "ClassDump"}),
       !.classes_single_instance_size_by_id =
          insert(@, r.id, [super |-> r.super, fields |-> r.fields])])

\* The first dump of a class stays.
ClassDump(i) ==
  LET r == input.file[i] IN
  /\ r.kind = "ClassDump"
  /\ Record(i, [self EXCEPT
       !.counters = incremented(@, {"GcSegment", "ClassDump"}),
       !.classes_single_instance_size_by_id =
          or_insert(@, r.id, [super |-> r.super, fields |-> r.fields])])

RecordNext ==
  \E i \in left :
    \/ Utf8String(i) \/ LoadClass(i) \/ StackFrame(i) \/ StackTrace(i)
    \/ Counted(i) \/ HeapDumpEnd(i) \/ Root(i) \/ Android(i)
    \/ InstanceDump(i) \/ ObjectArrayDump(i) \/ PrimitiveArrayDump(i)
    \/ PrimitiveArrayNoDataDump(i) \/ ClassDump(i)

-----------------------------------------------------------------------------
(* Names.                                                                  *)

\* The discriminants of FieldType stand for the names of the primitive types.
TypeCode == [Object |-> 2, Bool |-> 4, Char |-> 5, Float |-> 6, Double |-> 7, Byte |-> 8,
             Short |-> 9, Int |-> 10, Long |-> 11]

Label(of, pre, base, array) == [of |-> of, pre |-> pre, base |-> base, array |-> array]

\* Some total order of the strings and of the labels stands for that of their text.
Precedes(s, t) == \E k \in DOMAIN s : s[k] < t[k] /\ \A h \in 1..(k - 1) : s[h] = t[h]
PrefixCode == [none |-> 0, L |-> 1, LL |-> 2]
LabelCode  == [primitive |-> 0, class |-> 1, unknown |-> 2, serial |-> 3]
Bit(flag)  == IF flag THEN 1 ELSE 0
TextBefore(s, t) ==
  LET Key(x) == <<PrefixCode[x.pre], x.base, Bit(x.slashed), Bit(x.short)>>
  IN Precedes(Key(s), Key(t))

\* The string that names a class, if the class was loaded and the string recorded.
NameFound(c) ==
  /\ c \in DOMAIN self.class_data_by_id
  /\ self.class_data[self.class_data_by_id[c]].class_name_id \in DOMAIN self.utf8_strings_by_id
ClassString(c) ==
  self.utf8_strings_by_id[self.class_data[self.class_data_by_id[c]].class_name_id]

\* The text of the name, with '.' for '/', or a placeholder.
get_class_name_string(c) ==
  IF NameFound(c) THEN Label("class", ClassString(c).pre, ClassString(c).base, FALSE)
  ELSE Label("unknown", "none", c, FALSE)

\* Classes for which get_class_name_string adds an entry to missing_class_ids.
Unnamed(classes) == {c \in classes : ~NameFound(c)}

-----------------------------------------------------------------------------
(* render_thread_info.                                                     *)

pretty_line_number(line) ==
  CASE line = -1 -> <<"unknown line number">>
    [] line = -2 -> <<"compiled method">>
    [] line = -3 -> <<"native method">>
    [] OTHER     -> <<"line", line>>

\* A recorded string, or none, for which a placeholder is shown.
Text(id) == IF id \in DOMAIN self.utf8_strings_by_id THEN <<self.utf8_strings_by_id[id]>> ELSE << >>

\* Mutant: the serial number is looked up among the class ids.
FrameClass_BY_ID(serial) ==
  IF serial \in DOMAIN self.class_data_by_id
  THEN {self.class_data[self.class_data_by_id[serial]].class_object_id} ELSE {}

\* The class of a serial number, if it was loaded: its id, not yet its name.
FrameClass(serial) ==
  IF serial \in DOMAIN self.class_data_by_serial_number
  THEN {self.class_data[self.class_data_by_serial_number[serial]].class_object_id} ELSE {}

RenderedFrame(id) ==
  IF id \notin DOMAIN self.stack_frame_by_id
  THEN [unknown_frame |-> id]
  ELSE LET f == self.stack_frame_by_id[id]
           class == FrameClass(f.class_serial)
       IN [class |-> IF class = {} THEN Label("serial", "none", f.class_serial, FALSE)
                     ELSE get_class_name_string(CHOOSE c \in class : TRUE),
           method |-> Text(f.method), file |-> Text(f.file), line |-> pretty_line_number(f.line)]

\* The numbers of a set in order: before the k-th there are k - 1 smaller ones.
ascending(S) ==
  [k \in 1..Cardinality(S) |-> CHOOSE x \in S : Cardinality({y \in S : y < x}) = k - 1]

\* Traces that are shown, by serial number: empty ones are omitted.
ShownTraces ==
  ascending({t \in DOMAIN self.stack_trace_by_serial_number :
               self.stack_trace_by_serial_number[t] # << >>})

ShownFrames == UNION {ToSet(frames) : frames \in Range(self.stack_trace_by_serial_number)}

\* All records were received: the threads are rendered first.
RenderThreadInfo ==
  /\ phase = "recording"
  /\ left = {}
  /\ phase' = "sizing"
  /\ result' = [thread_info |->
                  [k \in DOMAIN ShownTraces |->
                     LET frames == self.stack_trace_by_serial_number[ShownTraces[k]]
                     IN [j \in DOMAIN frames |-> RenderedFrame(frames[j])]]]
  /\ missing_class_ids' =
       Unnamed(UNION {FrameClass(self.stack_frame_by_id[f].class_serial) :
                        f \in ShownFrames \cap DOMAIN self.stack_frame_by_id})
  /\ unsized' = DOMAIN self.classes_all_instance_total_size_by_id
  /\ UNCHANGED <<input, left, stream, self, walk, rows>>

-----------------------------------------------------------------------------
(* aggregate_memory_usage: the classes in the order of a hash map.         *)

stats(name, count, largest, total) ==
  [class_name |-> name, instance_count |-> count, largest_allocation_bytes |-> largest,
   allocation_size_bytes |-> total]

\* The name of the next class is looked up, and the computation of its size begins.
SizeClass(c) ==
  /\ phase = "sizing"
  /\ walk = NoWalk
  /\ unsized' = unsized \ {c}
  /\ walk' = [class |-> c, calls |-> <<c>>, value |-> 0]
  /\ missing_class_ids' = missing_class_ids \cup Unnamed({c})
  /\ UNCHANGED <<input, left, stream, self, phase, rows, result>>

ClassInfo == self.classes_single_instance_size_by_id

\* calculate_instance_size_recursive enters the call for the last class of walk.calls.
Entering == phase = "sizing" /\ walk.calls # << >> /\ walk.value = 0

\* The call returns a bare object header: no class dump, or no super class.
IsBase(c) == c \in DOMAIN ClassInfo => ClassInfo[c].super = 0

\* Mutant: a missing super class is not reported.
ReturnHeader_UNREPORTED ==
  LET c == Last(walk.calls) IN
  /\ Entering
  /\ IsBase(c)
  /\ walk' = [walk EXCEPT !.calls = Front(@), !.value = object_header_size(input.id_size)]
  /\ missing_class_ids' = missing_class_ids \cup ({walk.class} \ DOMAIN ClassInfo)
  /\ UNCHANGED <<input, left, stream, self, phase, unsized, rows, result>>

\* Mutant: a class without a dump makes the thread panic.
ReturnHeader_PANICS ==
  LET c == Last(walk.calls) IN
  /\ Entering
  /\ IsBase(c)
  /\ walk' = [walk EXCEPT !.calls = Front(@), !.value = object_header_size(input.id_size)]
  /\ phase' = IF c \in DOMAIN ClassInfo THEN phase ELSE "panicked"
  /\ UNCHANGED <<input, left, stream, self, unsized, rows, missing_class_ids, result>>

ReturnHeader ==
  LET c == Last(walk.calls) IN
  /\ Entering
  /\ IsBase(c)
  /\ walk' = [walk EXCEPT !.calls = Front(@), !.value = object_header_size(input.id_size)]
  /\ missing_class_ids' = missing_class_ids \cup ({c} \ DOMAIN ClassInfo)
  /\ UNCHANGED <<input, left, stream, self, phase, unsized, rows, result>>

\* Mutant: the call is for the class itself.
CallForSuper_SELF ==
  LET c == Last(walk.calls) IN
  /\ Entering
  /\ ~IsBase(c)
  /\ Len(walk.calls) < MaxDepth
  /\ walk' = [walk EXCEPT !.calls = Append(@, c)]
  /\ UNCHANGED <<input, left, stream, self, phase, unsized, rows, missing_class_ids, result>>

\* The size of the super class is needed first.
CallForSuper ==
  LET c == Last(walk.calls) IN
  /\ Entering
  /\ ~IsBase(c)
  /\ Len(walk.calls) < MaxDepth
  /\ walk' = [walk EXCEPT !.calls = Append(@, ClassInfo[c].super)]
  /\ UNCHANGED <<input, left, stream, self, phase, unsized, rows, missing_class_ids, result>>

\* The stack of the thread overflows: the process is aborted.
StackOverflows ==
  /\ Entering
  /\ ~IsBase(Last(walk.calls))
  /\ Len(walk.calls) = MaxDepth
  /\ phase' = "aborted"
  /\ UNCHANGED <<input, left, stream, self, unsized, walk, rows, missing_class_ids, result>>

fields_size(c) ==
  SumOf([k \in DOMAIN ClassInfo[c].fields |-> field_size(ClassInfo[c].fields[k], input.id_size)])

\* Mutant: the sizes of the classes of a lineage are only rounded up at the end.
ReturnSize_NOT_ROUNDED ==
  LET c == Last(walk.calls) IN
  /\ phase = "sizing"
  /\ walk.calls # << >>
  /\ walk.value # 0
  /\ walk' = [walk EXCEPT !.calls = Front(@), !.value = fields_size(c) + @]
  /\ UNCHANGED <<input, left, stream, self, phase, unsized, rows, missing_class_ids, result>>

\* The call for the super class has returned.
ReturnSize ==
  LET c == Last(walk.calls) IN
  /\ phase = "sizing"
  /\ walk.calls # << >>
  /\ walk.value # 0
  /\ walk' = [walk EXCEPT !.calls = Front(@),
                          !.value = next_multiple_of(fields_size(c) + @, input.id_size)]
  /\ UNCHANGED <<input, left, stream, self, phase, unsized, rows, missing_class_ids, result>>

\* calculate_instance_size returns, and the row of the class is made.
ClassSized ==
  LET count == self.classes_all_instance_total_size_by_id[walk.class]
      size == next_multiple_of(walk.value, OBJECT_ALIGN)
  IN
  /\ phase = "sizing"
  /\ walk # NoWalk
  /\ walk.calls = << >>
  /\ rows' = Append(rows, stats(get_class_name_string(walk.class), count, size, size * count))
  /\ walk' = NoWalk
  /\ UNCHANGED <<input, left, stream, self, phase, unsized, missing_class_ids, result>>

ArrayStats(name, ac) == stats(name, ac.number, ac.max, ac.total)

PrimitiveArrayRows ==
  LET arrays == SetToSeq(DOMAIN self.primitive_array_counters)
  IN [k \in DOMAIN arrays |->
        ArrayStats(Label("primitive", "none", TypeCode[arrays[k]], TRUE),
                   self.primitive_array_counters[arrays[k]])]

\* The prefixes '[L' and '[[L' and the last byte are cut off; '[]' is added.
ArrayLabel(c) == [get_class_name_string(c) EXCEPT !.pre = "none", !.array = TRUE]

ObjectArrayRows ==
  LET arrays == SetToSeq(DOMAIN self.object_array_counters)
  IN [k \in DOMAIN arrays |->
        ArrayStats(ArrayLabel(arrays[k]), self.object_array_counters[arrays[k]])]

\* The slice of a name that is too short for what is cut off it.
SlicePanics ==
  \E c \in DOMAIN self.object_array_counters :
    NameFound(c) /\ ClassString(c).pre # "none" /\ ClassString(c).short

\* The order of the rows: every field descending, the name first.
RowKey(r) ==
  LET name == r.class_name
  IN <<LabelCode[name.of], PrefixCode[name.pre], name.base, Bit(name.array),
       r.allocation_size_bytes, r.instance_count, r.largest_allocation_bytes>>

\* Mutant: ties are only broken by the name.
RowBefore_NAME(a, b) == Precedes(SubSeq(RowKey(b), 1, 4), SubSeq(RowKey(a), 1, 4))

RowBefore(a, b) == Precedes(RowKey(b), RowKey(a))

\* The rows of the arrays are added and all are sorted.
AggregateArrays ==
  /\ phase = "sizing"
  /\ unsized = {} /\ walk = NoWalk
  /\ ~SlicePanics
  /\ phase' = "rendering"
  /\ \E all \in {rows \o PrimitiveArrayRows \o ObjectArrayRows} :
       rows' \in sort_unstable_by(all, RowBefore)
  /\ missing_class_ids' = missing_class_ids \cup Unnamed(DOMAIN self.object_array_counters)
  /\ UNCHANGED <<input, left, stream, self, unsized, walk, result>>

ArrayNamePanics ==
  /\ phase = "sizing"
  /\ unsized = {} /\ walk = NoWalk
  /\ SlicePanics
  /\ phase' = "panicked"
  /\ UNCHANGED <<input, left, stream, self, unsized, walk, rows, missing_class_ids, result>>

-----------------------------------------------------------------------------
(* The other parts of the result.                                          *)

\* The warning shows at most ten ids.
render_missing_class_warning(ids) ==
  IF ids = {} THEN << >>
  ELSE <<[count |-> Cardinality(ids), ids |-> take(ascending(ids), 10),
          more |-> Cardinality(ids) > 10]>>

render_summary ==
  [captured |-> CaptureTime(input.timestamp),
   strings |-> Cardinality(DOMAIN self.utf8_strings_by_id),
   classes |-> Cardinality(DOMAIN self.class_data_by_id),
   counters |-> self.counters]

\* Duplicates, out of all strings; nothing if there are none.
render_duplicated_strings ==
  LET all_len == Cardinality(DOMAIN self.utf8_strings_by_id)
      dedup_len == Cardinality(Range(self.utf8_strings_by_id))
  IN IF all_len = dedup_len THEN << >> ELSE <<all_len - dedup_len, all_len>>

\* The values of the map, duplicates included, sorted.
render_captured_strings ==
  LET Str(id) == self.utf8_strings_by_id[id]
      ids == SetToSortSeq(DOMAIN self.utf8_strings_by_id, LAMBDA a, b : TextBefore(Str(a), Str(b)))
  IN [k \in DOMAIN ids |-> Str(ids[k])]

\* The result is put together; RecorderThread sends it.
RenderResult ==
  /\ phase = "rendering"
  /\ phase' = "rendered"
  /\ result' = [thread_info |-> result.thread_info,
                summary |-> render_summary,
                memory_usage |-> rows,
                duplicated_strings |-> render_duplicated_strings,
                captured_strings |-> IF input.list_strings THEN <<render_captured_strings>>
                                     ELSE << >>,
                warnings |-> render_missing_class_warning(missing_class_ids)]
  /\ UNCHANGED <<input, left, stream, self, unsized, walk, rows, missing_class_ids>>

\* The thread has ended.
Ended ==
  /\ phase \in {"rendered", "panicked", "aborted"}
  /\ UNCHANGED vars

RenderNext ==
  \/ RenderThreadInfo
  \/ \E c \in unsized : SizeClass(c)
  \/ ReturnHeader \/ CallForSuper \/ StackOverflows \/ ReturnSize \/ ClassSized
  \/ AggregateArrays \/ ArrayNamePanics \/ RenderResult

Next == RecordNext \/ RenderNext \/ Ended

\* The parser delivers every record or goes away, and nothing blocks the thread.
Spec == Init /\ [][Next]_vars /\ WF_vars(RecordNext \/ RenderNext)
=============================================================================
