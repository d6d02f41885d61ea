------------------------- MODULE MCResultRecorder -------------------------
(***************************************************************************)
(* Dumps for model checking the recorder.  The records of each dump are    *)
(* taken in every order.                                                   *)
(***************************************************************************)
EXTENDS RecorderInvariant

Str(pre, base)  == [pre |-> pre, base |-> base, slashed |-> FALSE, short |-> FALSE]
Slashed(base)   == [Str("none", base) EXCEPT !.slashed = TRUE]
Short(pre)      == [Str(pre, 0) EXCEPT !.short = TRUE]

Utf8(id, str)         == [kind |-> "Utf8String", id |-> id, str |-> str]
Load(serial, id, nm)  == [kind |-> "LoadClass", serial |-> serial, id |-> id, name |-> nm]
Frame(id, serial, ln) == [kind |-> "StackFrame", id |-> id, method |-> 10, file |-> 12,
                          class_serial |-> serial, line |-> ln]
Trace(serial, frames) == [kind |-> "StackTrace", serial |-> serial, frames |-> frames]
Class(id, super, f)   == [kind |-> "ClassDump", id |-> id, super |-> super, fields |-> f]
Instance(c)           == [kind |-> "InstanceDump", class |-> c]
Objects(c, n)         == [kind |-> "ObjectArrayDump", class |-> c, n |-> n]
Primitives(type, n)   == [kind |-> "PrimitiveArrayDump", type |-> type, n |-> n]
NoData(type)          == [kind |-> "PrimitiveArrayNoDataDump", type |-> type]
Other(kind)           == [kind |-> kind]

Dump(file, id_size) ==
  [file |-> file, id_size |-> id_size, list_strings |-> id_size = 8,
   timestamp |-> IF id_size = 8 THEN [days |-> 18613, millis |-> 29073831] ELSE NoTimestamp]

\* A hierarchy of three levels, with fields that need padding on two of them.
Hierarchy == <<Class(1, 0, <<"Int">>), Class(2, 1, <<"Object", "Int", "Byte">>),
               Class(3, 2, <<"Short">>), Instance(3), Instance(2), Instance(3)>>
\* A class that is loaded again under another name, and dumped again.
Reloaded == <<Utf8(10, Str("none", 1)), Utf8(11, Slashed(2)), Load(1, 1, 10), Load(2, 1, 11),
              Class(1, 0, <<"Int">>), Class(1, 5, <<"Long">>), Instance(1)>>
\* Two classes of the same name and the same total size, of two class loaders.
Loaders == <<Utf8(10, Slashed(1)), Load(1, 1, 10), Load(2, 2, 10),
             Class(1, 9, <<"Long", "Long">>), Instance(1), Instance(2), Instance(2)>>
\* Arrays of one and of two dimensions that get the same name; arrays without data.
Arrays == <<Utf8(10, Str("L", 1)), Utf8(11, Str("LL", 1)), Load(1, 1, 10), Load(2, 2, 11),
            Objects(1, 3), Objects(1, 2), Objects(2, 1)>>
Primitive == <<Primitives("Int", 5), Primitives("Int", 2), NoData("Int"), NoData("Object"),
               Primitives("Bool", 0), Primitives("Double", 3)>>
\* An array class whose name cannot be cut, and objects and arrays of unknown classes.
ShortName == <<Utf8(10, Short("L")), Load(1, 1, 10), Objects(1, 3), Utf8(10, Str("L", 1)),
               Objects(4, 1), Instance(5)>>
\* Objects without class, class without name, class without super class.
Orphans == <<Instance(1), Instance(2), Class(1, 3, <<"Int">>), Load(1, 1, 10), Load(2, 2, 11),
             Utf8(11, Str("none", 1))>>
\* A class id that is used again by another class, with frames of both.
Threads == <<Utf8(10, Str("none", 1)), Utf8(11, Str("none", 2)), Load(1, 1, 10), Load(2, 1, 11),
             Frame(7, 1, 42), Frame(8, 2, -3), Trace(2, <<7, 8>>)>>
Frames == <<Utf8(10, Str("none", 1)), Load(1, 5, 10), Frame(7, 1, -1),
            Frame(7, 5, -2), Frame(8, 6, 1), Trace(2, <<7, 9, 8>>), Trace(1, << >>)>>
\* A frame whose class has no name and whose file has two.
Nameless == <<Load(1, 3, 13), Frame(7, 1, -1), Utf8(12, Str("none", 1)), Utf8(12, Slashed(2)),
              Trace(2, <<7>>)>>
\* Classes that are their own ancestors.
Cycle == <<Class(1, 2, <<"Int">>), Class(2, 1, << >>), Class(2, 0, << >>), Instance(1), Instance(2)>>
\* More records than the counters can count.
Many == [i \in 1..6 |-> Instance(1)] \o <<Other("HeapDumpStart"), Other("HeapDumpEnd")>>
Kinds == <<Other("UnloadClass"), Other("StartThread"), Other("CpuSamples"), Other("RootUnknown"),
           Other("RootJniGlobal"), Other("RootFinalizing"), Other("RootVmInternal")>>

Dumps4 == {Hierarchy, Reloaded, Arrays, Primitive, ShortName, Orphans, Threads}
Dumps8 == {Hierarchy, Loaders, Primitive, Frames, Nameless, Cycle, Many, Kinds}
RecordedDumps == {Dump(f, 4) : f \in Dumps4} \cup {Dump(f, 8) : f \in Dumps8}

\* The stack of the instance is deeper than any lineage of its dumps without a cycle.
ASSUME DumpsAreShallow == DeepStack
=============================================================================
