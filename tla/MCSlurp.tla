------------------------------ MODULE MCSlurp ------------------------------
(***************************************************************************)
(* Dump files for model checking slurp_file.  A record is given by its     *)
(* kind, the sizes of the fields that the parser reads (the tag first) and *)
(* the length that it declares if it is the header of a heap dump.         *)
(***************************************************************************)
EXTENDS SlurpInvariant, TLC, SequencesExt

Top(f)       == [kind |-> "top", fields |-> f, seg |-> 0]
Segment(l)   == [kind |-> "segment", fields |-> <<1, 2>>, seg |-> l]
Gc(f)        == [kind |-> "gc", fields |-> f, seg |-> 0]
Bad(f)       == [kind |-> "unreadable", fields |-> f, seg |-> 0]

SumSeq(s) == FoldSeq(LAMBDA x, y : x + y, 0, s)

\* The first len bytes after the header of the dump that consists of rs.
File(rs, len) ==
  LET Offset(i) == FileHeaderLength + SumSeq([j \in 1..(i - 1) |-> SumSeq(rs[j].fields)])
      n == Len(SelectSeq([i \in 1..Len(rs) |-> Offset(i)],
                         LAMBDA o : o < FileHeaderLength + len))
      left[i \in 1..(n + 1)] ==
        IF i = 1 THEN 0
        ELSE LET r == rs[i - 1] IN
             CASE r.kind = "segment" -> r.seg
               [] r.kind = "gc" /\ SumSeq(r.fields) < left[i - 1]
                    -> left[i - 1] - SumSeq(r.fields)
               [] OTHER -> 0
  IN [len |-> FileHeaderLength + len, nul |-> FileHeaderLength - 12, id_size |-> 8, n |-> n,
      start |-> [i \in 1..(n + 1) |-> Offset(i)],
      stops |-> [i \in 1..n |->
                   {Offset(i) + SumSeq(SubSeq(rs[i].fields, 1, k)) :
                      k \in 1..Len(rs[i].fields)}],
      kind |-> [i \in 1..n |-> rs[i].kind],
      seg |-> [i \in 1..n |-> rs[i].seg],
      rem |-> [i \in 1..(n + 1) |-> left[i]]]

Length(rs) == SumSeq([i \in 1..Len(rs) |-> SumSeq(rs[i].fields)])

\* A heap dump of two sub-records between two other records.
Mixed == <<Top(<<1, 1>>), Segment(4), Gc(<<1, 1>>), Gc(<<1, 1>>), Top(<<1, 2>>)>>
\* A record that is longer than most buffers, read in many fields.
Long == <<Top(<<1, 2, 3, 1>>), Top(<<1, 4>>)>>
\* A sub-record that runs over the end of its heap dump; an empty heap dump.
Odd == <<Segment(3), Gc(<<1, 1>>), Gc(<<1, 2>>), Segment(0), Top(<<1>>)>>
\* An unhandled tag within a heap dump, and one that is rejected at its fourth byte.
BadTag == <<Top(<<1, 1>>), Segment(4), Gc(<<1, 1>>), Bad(<<1>>)>>
BadType == <<Top(<<1>>), Bad(<<1, 2, 1>>)>>

\* Records as record_parser.rs reads them, with identifiers of 4 bytes.
Layout == INSTANCE RecordLayout
OfTag(tag) == [tag |-> tag]
Real == <<Top(Layout!Reads(OfTag(Layout!TAG.LOAD_CLASS), 4, FALSE)),
          [Segment(10) EXCEPT !.fields = Layout!Reads(OfTag(Layout!TAG.HEAP_DUMP_SEGMENT), 4, FALSE)],
          Gc(Layout!Reads(OfTag(Layout!TAG_GC.ROOT_STICKY_CLASS), 4, TRUE)),
          Gc(Layout!Reads(OfTag(Layout!TAG_GC.ROOT_UNKNOWN), 4, TRUE)),
          Top(Layout!Reads(OfTag(Layout!TAG.HEAP_DUMP_END), 4, FALSE))>>

\* All the ways in which the file may stop short.
AnyCut(rs) == {File(rs, len) : len \in 0..Length(rs)}

BadHeaders ==
  LET d == File(<< >>, 0) IN
  {[d EXCEPT !.len = 30], [d EXCEPT !.nul = 0], [d EXCEPT !.nul = 25],
   [d EXCEPT !.nul = 10], [d EXCEPT !.id_size = 2]}

CutDumps == UNION {AnyCut(rs) : rs \in {Mixed, Long, Odd, BadTag, BadType}}
              \cup {File(Real, Length(Real)), File(Real, 41)}
FaultyDumps == {File(Mixed, Length(Mixed)), File(Mixed, 6), File(BadTag, 8),
                File(Odd, Length(Odd))} \cup BadHeaders
TruncatedDumps == {File(Mixed, 6)}
=============================================================================
