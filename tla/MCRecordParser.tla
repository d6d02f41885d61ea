--------------------------- MODULE MCRecordParser ---------------------------
(***************************************************************************)
(* Streams for model checking RecordParser: each kind of record on its     *)
(* own, with both identifier sizes, and a heap dump of many kinds.         *)
(***************************************************************************)
EXTENDS RecordParser, SequencesExt

Blank == [tag |-> 0, sub |-> FALSE, length |-> 0, n |-> 0, total |-> 0, type |-> "Byte",
          consts |-> << >>, statics |-> << >>, fields |-> << >>]

Top(tag, n) == [Blank EXCEPT !.tag = tag, !.n = n, !.total = n]
Gc(tag, n)  == [Blank EXCEPT !.tag = tag, !.n = n, !.sub = TRUE]
Class(c, s, f) ==
  [Blank EXCEPT !.tag = TAG_GC.CLASS_DUMP, !.sub = TRUE, !.consts = c, !.statics = s, !.fields = f]
Array(t, n) == [Gc(TAG_GC.PRIM_ARRAY_DUMP, n) EXCEPT !.type = t]

\* The stream of rs with the lengths that the writer puts in the headers: a heap
\* dump is as long as the sub-records that follow it.
Written(rs, z) ==
  LET left[k \in 1..(Len(rs) + 1)] ==
        IF k <= Len(rs) /\ rs[k].sub THEN WrittenSize(rs[k], z) + left[k + 1] ELSE 0
  IN [id_size |-> z,
      records |-> [k \in 1..Len(rs) |->
        IF rs[k].sub THEN rs[k]
        ELSE IF rs[k].tag \in HeapDumpTags THEN [rs[k] EXCEPT !.length = left[k + 1]]
        ELSE [rs[k] EXCEPT !.length = DeclaredLength(rs[k], z)]]]

End == Top(TAG.HEAP_DUMP_END, 0)
Segment == Top(TAG.HEAP_DUMP_SEGMENT, 0)

\* Every top-level record, with and without what may be repeated in it.
TopRecords == {Top(t, n) : t \in TopTags \ (HeapDumpTags \cup {TAG.HEAP_DUMP_END}), n \in {0, 2}}

\* Every sub-record.
SubRecords ==
  {Gc(t, n) : t \in GcTags \ {TAG_GC.CLASS_DUMP}, n \in {0, 3}}
    \cup {Array(t, 1) : t \in FieldTypes \ {"Object"}}
    \cup {Class(<< >>, << >>, << >>), Class(<<"Object">>, <<"Long", "Bool">>, <<"Int">>),
          Class(<<"Char">>, <<"Object">>, <<"Object", "Double">>)}

\* What the parser panics on.
BadRecords ==
  {Gc(9, 0), Array("Object", 1), Array("Void", 1), Class(<<"Int", "Void">>, << >>, << >>),
   Class(<< >>, <<"Void">>, << >>), Class(<<"Int">>, <<"Int">>, <<"Int", "Void">>),
   [Gc(TAG_GC.PRIM_ARRAY_NODATA_DUMP, 1) EXCEPT !.type = "Void"]}

Many == <<Top(TAG.STRING, 2), Segment, Gc(TAG_GC.ROOT_JNI_GLOBAL, 0), Gc(TAG_GC.INSTANCE_DUMP, 1),
          Top(TAG.HEAP_DUMP, 0), Segment, Gc(TAG_GC.ROOT_UNKNOWN, 0), End>>

RecordStreams ==
  {Written(rs, z) : z \in {4, 8},
     rs \in {<<r, End>> : r \in TopRecords} \cup {<<Segment, r, End>> : r \in SubRecords}
              \cup {<<Segment, r>> : r \in BadRecords} \cup {<<Top(9, 0)>>, Many}}

\* A profile of two traces that were sampled three times in all.
SampledTwice == {Written(<<[Top(TAG.CPU_SAMPLES, 2) EXCEPT !.total = 3], End, End>>, 8)}
=============================================================================
