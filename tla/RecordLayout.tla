---------------------------- MODULE RecordLayout ----------------------------
(***************************************************************************)
(* What record_parser.rs reads for each kind of record.  A parser of that  *)
(* file is modelled by the sequence of the sizes of its reads, in order,   *)
(* behind the tag; z is the size of an identifier (4 or 8 bytes).  The     *)
(* sizes of later reads depend on the values of earlier ones, which are    *)
(* the fields of the record r:                                             *)
(*   r.tag      the tag byte                                               *)
(*   r.length   the length in the header of a top-level record             *)
(*   r.n        the count of what follows: sites, traces, elements, bytes  *)
(*   r.total    total_number_of_samples of a CPU_SAMPLES record            *)
(*   r.type     the element type of an array                               *)
(*   r.consts, r.statics, r.fields   the types of the constants, static    *)
(*              fields and instance fields of a class                      *)
(***************************************************************************)
EXTENDS Integers, Sequences

TAG == [STRING |-> 1, LOAD_CLASS |-> 2, UNLOAD_CLASS |-> 3, STACK_FRAME |-> 4,
        STACK_TRACE |-> 5, ALLOC_SITES |-> 6, HEAP_SUMMARY |-> 7, START_THREAD |-> 10,
        END_THREAD |-> 11, HEAP_DUMP |-> 12, CPU_SAMPLES |-> 13, CONTROL_SETTING |-> 14,
        HEAP_DUMP_SEGMENT |-> 28, HEAP_DUMP_END |-> 44]

TAG_GC == [ROOT_JNI_GLOBAL |-> 1, ROOT_JNI_LOCAL |-> 2, ROOT_JAVA_FRAME |-> 3,
           ROOT_NATIVE_STACK |-> 4, ROOT_STICKY_CLASS |-> 5, ROOT_THREAD_BLOCK |-> 6,
           ROOT_MONITOR_USED |-> 7, ROOT_THREAD_OBJ |-> 8, CLASS_DUMP |-> 32,
           INSTANCE_DUMP |-> 33, OBJ_ARRAY_DUMP |-> 34, PRIM_ARRAY_DUMP |-> 35,
           ROOT_INTERNED_STRING |-> 137, ROOT_FINALIZING |-> 138, ROOT_DEBUGGER |-> 139,
           ROOT_REFERENCE_CLEANUP |-> 140, ROOT_VM_INTERNAL |-> 141, ROOT_JNI_MONITOR |-> 142,
           UNREACHABLE |-> 144, PRIM_ARRAY_NODATA_DUMP |-> 195, HEAP_DUMP_INFO |-> 254,
           ROOT_UNKNOWN |-> 255]

\* The tags that the two tables of the parser know.
TopTags == {TAG[t] : t \in DOMAIN TAG}
GcTags  == {TAG_GC[t] : t \in DOMAIN TAG_GC}

HeapDumpTags == {TAG.HEAP_DUMP, TAG.HEAP_DUMP_SEGMENT}

\* The field types; any other type byte makes from_value panic.
FieldTypes == {"Object", "Bool", "Char", "Float", "Double", "Byte", "Short", "Int", "Long"}

\* The size of a value of a type that is not a reference (0: never read, the type
\* is rejected before).
PrimitiveSize(type) ==
  CASE type \in {"Bool", "Byte"}   -> 1
    [] type \in {"Char", "Short"}  -> 2
    [] type \in {"Float", "Int"}   -> 4
    [] type \in {"Double", "Long"} -> 8
    [] OTHER -> 0

parse_field_value(type, z) == IF type = "Object" THEN z ELSE PrimitiveSize(type)

\* count(p, n): the reads of p, n times.
count(p, n) == [k \in 1..(n * Len(p)) |-> p[((k - 1) % Len(p)) + 1]]

\* The reads of the items of a class dump: index or name, type, and the value
\* unless it is an instance field.
parse_const_pool_items(types, z) ==
  [k \in 1..(3 * Len(types)) |->
     CASE k % 3 = 1 -> 2
       [] k % 3 = 2 -> 1
       [] k % 3 = 0 -> parse_field_value(types[k \div 3], z)]

parse_static_field_items(types, z) ==
  [k \in 1..(3 * Len(types)) |->
     CASE k % 3 = 1 -> z
       [] k % 3 = 2 -> 1
       [] k % 3 = 0 -> parse_field_value(types[k \div 3], z)]

parse_gc_class_dump(r, z) ==
  <<z, 4, z, z, z, z, z, z, 4, 2>>
    \o parse_const_pool_items(r.consts, z) \o <<2>>
    \o parse_static_field_items(r.statics, z) \o <<2>>
    \o count(<<z, 1>>, Len(r.fields))

\* The roots of the JVM.
parse_gc_root(r, z) ==
  CASE r.tag \in {TAG_GC.ROOT_UNKNOWN, TAG_GC.ROOT_STICKY_CLASS, TAG_GC.ROOT_MONITOR_USED}
         -> <<z>>
    [] r.tag \in {TAG_GC.ROOT_NATIVE_STACK, TAG_GC.ROOT_THREAD_BLOCK} -> <<z, 4>>
    [] r.tag \in {TAG_GC.ROOT_THREAD_OBJ, TAG_GC.ROOT_JNI_LOCAL, TAG_GC.ROOT_JAVA_FRAME}
         -> <<z, 4, 4>>
    [] r.tag = TAG_GC.ROOT_JNI_GLOBAL -> <<z, z>>

\* The extensions of Android.
AndroidTags ==
  {TAG_GC.ROOT_INTERNED_STRING, TAG_GC.ROOT_FINALIZING, TAG_GC.ROOT_DEBUGGER,
   TAG_GC.ROOT_REFERENCE_CLEANUP, TAG_GC.ROOT_VM_INTERNAL, TAG_GC.ROOT_JNI_MONITOR,
   TAG_GC.UNREACHABLE, TAG_GC.PRIM_ARRAY_NODATA_DUMP, TAG_GC.HEAP_DUMP_INFO}

parse_gc_android(r, z) ==
  CASE r.tag = TAG_GC.ROOT_JNI_MONITOR       -> <<z, 4, 4>>
    [] r.tag = TAG_GC.PRIM_ARRAY_NODATA_DUMP -> <<z, 4, 4, 1>>
    [] r.tag = TAG_GC.HEAP_DUMP_INFO         -> <<4, z>>
    [] OTHER                                 -> <<z>>

\* Mutant: references take 4 bytes whatever the identifier size.
parse_gc_object_array_dump_U32(r, z) == <<z, 4, 4, z, r.n * 4>>

parse_gc_instance_dump(r, z)        == <<z, 4, z, 4, r.n>>
parse_gc_object_array_dump(r, z)    == <<z, 4, 4, z, r.n * z>>
parse_gc_primitive_array_dump(r, z) == <<z, 4, 4, 1, r.n * PrimitiveSize(r.type)>>

parse_gc_record(r, z) ==
  CASE r.tag \in AndroidTags            -> parse_gc_android(r, z)
    [] r.tag = TAG_GC.CLASS_DUMP        -> parse_gc_class_dump(r, z)
    [] r.tag = TAG_GC.INSTANCE_DUMP     -> parse_gc_instance_dump(r, z)
    [] r.tag = TAG_GC.OBJ_ARRAY_DUMP    -> parse_gc_object_array_dump(r, z)
    [] r.tag = TAG_GC.PRIM_ARRAY_DUMP   -> parse_gc_primitive_array_dump(r, z)
    [] OTHER                            -> parse_gc_root(r, z)

-----------------------------------------------------------------------------
\* Timestamp and length.
parse_header_record == <<4, 4>>

SaturatingSub(a, b) == IF a > b THEN a - b ELSE 0

parse_utf8_string(r, z) == <<z, SaturatingSub(r.length, z)>>
parse_load_class(z)     == <<4, z, 4, z>>
parse_unload_class      == <<4>>
parse_stack_frame(z)    == <<z, z, z, z, 4, 4>>
parse_stack_trace(r, z) == <<4, 4, 4>> \o count(<<z>>, SaturatingSub(r.length, 12) \div z)
parse_start_thread(z)   == <<4, z, 4, z, z, z>>
parse_end_thread        == <<4>>
parse_heap_summary      == <<4, 4, 8, 8>>
parse_allocation_sites(r) ==
  <<2, 4, 4, 4, 8, 8, 4>> \o count(<<1, 4, 4, 4, 4, 4, 4>>, r.n)
parse_control_settings  == <<4, 2>>
parse_cpu_samples(r)    == <<4, 4>> \o count(<<4, 4>>, r.total)

\* The record itself, behind its header; heap dump headers and ends have nothing.
parse_record_body(r, z) ==
  CASE r.tag = TAG.STRING          -> parse_utf8_string(r, z)
    [] r.tag = TAG.LOAD_CLASS      -> parse_load_class(z)
    [] r.tag = TAG.UNLOAD_CLASS    -> parse_unload_class
    [] r.tag = TAG.STACK_FRAME     -> parse_stack_frame(z)
    [] r.tag = TAG.STACK_TRACE     -> parse_stack_trace(r, z)
    [] r.tag = TAG.ALLOC_SITES     -> parse_allocation_sites(r)
    [] r.tag = TAG.HEAP_SUMMARY    -> parse_heap_summary
    [] r.tag = TAG.START_THREAD    -> parse_start_thread(z)
    [] r.tag = TAG.END_THREAD      -> parse_end_thread
    [] r.tag = TAG.CONTROL_SETTING -> parse_control_settings
    [] r.tag = TAG.CPU_SAMPLES     -> parse_cpu_samples(r)
    [] r.tag \in HeapDumpTags \cup {TAG.HEAP_DUMP_END} -> << >>

\* The tag is looked up in the table of the sub-records within a heap dump, and in
\* that of the top-level records otherwise.
Known(r, within) == r.tag \in IF within THEN GcTags ELSE TopTags

\* All reads of parse_hprof_record, that of the tag included.
Reads(r, z, within) ==
  CASE ~Known(r, within)         -> <<1>>
    [] Known(r, within) /\ within  -> <<1>> \o parse_gc_record(r, z)
    [] Known(r, within) /\ ~within -> <<1>> \o parse_header_record \o parse_record_body(r, z)

\* The reads after which the parser panics: the tag if the table does not have it,
\* a type byte that is no field type, and the element type of a primitive array
\* that claims to hold objects.
Items(prefix, width, types) ==
  {prefix + width * (k - 1) + 2 : k \in {j \in 1..Len(types) : types[j] \notin FieldTypes}}

PanicReads(r, within) ==
  CASE ~Known(r, within) -> {1}
    [] within /\ r.tag = TAG_GC.CLASS_DUMP ->
         Items(11, 3, r.consts)
           \cup Items(12 + 3 * Len(r.consts), 3, r.statics)
           \cup Items(13 + 3 * (Len(r.consts) + Len(r.statics)), 2, r.fields)
    [] within /\ r.tag = TAG_GC.PRIM_ARRAY_DUMP /\ r.type \notin FieldTypes \ {"Object"} -> {5}
    [] within /\ r.tag = TAG_GC.PRIM_ARRAY_NODATA_DUMP /\ r.type \notin FieldTypes -> {5}
    [] OTHER -> {}
=============================================================================
