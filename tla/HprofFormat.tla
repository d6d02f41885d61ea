---------------------------- MODULE HprofFormat ----------------------------
(***************************************************************************)
(* The binary format as the JVM and ART write it, from the side of the     *)
(* writer: how many bytes a record takes in the file.  Nothing here comes  *)
(* from hprof-slurp except the names; the parser is measured against it.   *)
(***************************************************************************)
EXTENDS RecordLayout, FiniteSets, Sums

\* How many of the types are, and are not, references; and the bytes of the latter.
References(types) == Cardinality({k \in 1..Len(types) : types[k] = "Object"})
Amount(types, set) == Cardinality({k \in 1..Len(types) : types[k] \in set})
Bytes(types) ==
  Amount(types, {"Bool", "Byte"}) + 2 * Amount(types, {"Char", "Short"})
    + 4 * Amount(types, {"Float", "Int"}) + 8 * Amount(types, {"Double", "Long"})

\* The identifiers of a sub-record, and its bytes that belong to no identifier.
Identifiers(r) ==
  CASE r.tag = TAG_GC.CLASS_DUMP -> 7 + References(r.consts) + Len(r.statics)
                                      + References(r.statics) + Len(r.fields)
    [] r.tag = TAG_GC.OBJ_ARRAY_DUMP -> 2 + r.n
    [] r.tag \in {TAG_GC.INSTANCE_DUMP, TAG_GC.ROOT_JNI_GLOBAL} -> 2
    [] OTHER -> 1

OtherBytes(r) ==
  CASE r.tag = TAG_GC.CLASS_DUMP -> 14 + 3 * Len(r.consts) + Bytes(r.consts)
                                      + Len(r.statics) + Bytes(r.statics) + Len(r.fields)
    [] r.tag = TAG_GC.INSTANCE_DUMP -> 8 + r.n
    [] r.tag = TAG_GC.OBJ_ARRAY_DUMP -> 8
    [] r.tag = TAG_GC.PRIM_ARRAY_DUMP -> 9 + r.n * Bytes(<<r.type>>)
    [] r.tag = TAG_GC.PRIM_ARRAY_NODATA_DUMP -> 9
    [] r.tag \in {TAG_GC.ROOT_JNI_LOCAL, TAG_GC.ROOT_JAVA_FRAME, TAG_GC.ROOT_THREAD_OBJ,
                  TAG_GC.ROOT_JNI_MONITOR} -> 8
    [] r.tag \in {TAG_GC.ROOT_NATIVE_STACK, TAG_GC.ROOT_THREAD_BLOCK,
                  TAG_GC.HEAP_DUMP_INFO} -> 4
    [] OTHER -> 0

\* The length that the header of a top-level record declares.
DeclaredLength(r, z) ==
  CASE r.tag = TAG.STRING          -> z + r.n
    [] r.tag = TAG.LOAD_CLASS      -> 8 + 2 * z
    [] r.tag = TAG.UNLOAD_CLASS    -> 4
    [] r.tag = TAG.STACK_FRAME     -> 8 + 4 * z
    [] r.tag = TAG.STACK_TRACE     -> 12 + r.n * z
    [] r.tag = TAG.ALLOC_SITES     -> 34 + 25 * r.n
    [] r.tag = TAG.HEAP_SUMMARY    -> 24
    [] r.tag = TAG.START_THREAD    -> 8 + 4 * z
    [] r.tag = TAG.END_THREAD      -> 4
    [] r.tag = TAG.CONTROL_SETTING -> 6
    [] r.tag = TAG.CPU_SAMPLES     -> 8 + 8 * r.n
    [] OTHER -> 0

\* The bytes that a record takes in the file; the sub-records of a heap dump
\* are records of their own, behind its header.
WrittenSize(r, z) ==
  CASE r.sub -> 1 + z * Identifiers(r) + OtherBytes(r)
    [] ~r.sub /\ r.tag \in HeapDumpTags -> 9
    [] OTHER -> 9 + r.length

-----------------------------------------------------------------------------
(* A file f behind its header: its identifier size and its records.        *)

Record == [tag : 0..255, sub : BOOLEAN, length : Nat, n : Nat, total : Nat, type : STRING,
           consts : Seq(STRING), statics : Seq(STRING), fields : Seq(STRING)]

\* Where record i starts.
Start(f, i) ==
  SumTo([k \in 1..Len(f.records) |-> WrittenSize(f.records[k], f.id_size)], i - 1)

\* Records i to m are sub-records, and the one behind them is not.
SubRecordsUpTo(f, i, m) ==
  /\ m \in (i - 1)..Len(f.records)
  /\ \A j \in i..m : f.records[j].sub
  /\ m < Len(f.records) => ~f.records[m + 1].sub

\* The header of a heap dump has the length of the sub-records behind it.
HeapDumpLength(f, k) ==
  \E m \in k..Len(f.records) :
    SubRecordsUpTo(f, k + 1, m) /\ f.records[k].length = Start(f, m + 1) - Start(f, k + 1)

\* What is written: records with their lengths, and sub-records only behind the header
\* of a heap dump.
WellFormed(f) ==
  /\ f.id_size \in {4, 8}
  /\ f.records \in Seq(Record)
  /\ \A k \in 1..Len(f.records) :
       LET r == f.records[k] IN
       /\ r.sub => k > 1 /\ (f.records[k - 1].sub \/ f.records[k - 1].tag \in HeapDumpTags)
       /\ ~r.sub /\ r.tag \in HeapDumpTags => HeapDumpLength(f, k)
       /\ ~r.sub /\ r.tag \notin HeapDumpTags => r.length = DeclaredLength(r, f.id_size)

\* A profile in which every trace was sampled once: the total is the number of traces.
SampledOnce(f) ==
  \A k \in 1..Len(f.records) :
    ~f.records[k].sub /\ f.records[k].tag = TAG.CPU_SAMPLES => f.records[k].total = f.records[k].n
=============================================================================
