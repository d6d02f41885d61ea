----------------------------- MODULE HprofDump -----------------------------
(***************************************************************************)
(* The dump file that one call of slurp_file reads.  A byte is identified  *)
(* by its offset in the file (the first byte is byte 1) and a record by    *)
(* its place in the file, so the bytes that a buffer holds and the records *)
(* that a vector holds are sequences of numbers.                           *)
(*                                                                         *)
(* A dump d is described by                                                *)
(*   d.len      the length of the file, possibly short of its last record; *)
(*   d.nul      where the NUL that ends the format string is within the    *)
(*              file header (0 when the header has none);                  *)
(*   d.id_size  the identifier size that the header announces;             *)
(*   d.n        the number of records whose first byte is in the file;     *)
(*   d.start    d.start[i] is the number of bytes before record i,         *)
(*              d.start[n+1] the end of the last record;                   *)
(*   d.stops    d.stops[i] is the set of offsets at which a read of the    *)
(*              record parser ends while it parses record i;               *)
(*   d.kind     "top": a record of its own; "segment": the header of a     *)
(*              heap dump (segment); "gc": a sub-record of a heap dump;    *)
(*              "unreadable": one the parser panics on, which extends to   *)
(*              the byte that it rejects (an unhandled tag, a bad type);   *)
(*   d.seg      d.seg[i] is the length that the segment header i declares; *)
(*   d.rem      d.rem[i] is what is left of the enclosing heap dump at the *)
(*              start of record i.                                         *)
(***************************************************************************)
EXTENDS Integers, Sequences

CONSTANTS FileHeaderLength,  \* FILE_HEADER_LENGTH, 31 bytes
          U32,               \* 2^32, the modulus of the parser's u32 counter
          Dumps              \* the dump files considered

Kinds == {"top", "segment", "gc", "unreadable"}

\* The numbers lo+1 .. hi in order: consecutive bytes, or consecutive records.
Span(lo, hi) == [i \in 1..(hi - lo) |-> lo + i]

Size(d, i) == d.start[i + 1] - d.start[i]

(***************************************************************************)
(* What slurp_header makes of the first bytes of the file: the error it    *)
(* returns, or "ok".  The NUL-terminated format string is followed by a    *)
(* 4-byte identifier size and an 8-byte timestamp, and nothing may remain  *)
(* of the FileHeaderLength bytes.                                          *)
(***************************************************************************)
HeaderOutcome(d) ==
  IF d.len < FileHeaderLength THEN "StdIoError"
  ELSE IF d.nul = 0 \/ FileHeaderLength - d.nul < 12 THEN "InvalidHprofFile"
  ELSE IF d.id_size \notin {4, 8} THEN "InvalidIdSize"
  ELSE IF FileHeaderLength - d.nul > 12 THEN "InvalidHeaderSize"
  ELSE "ok"

(***************************************************************************)
(* Records follow each other from the end of the header to the end of the  *)
(* file.  Sub-records occur only inside a heap dump, and a heap dump is    *)
(* over when its declared length is used up (its last sub-record may run   *)
(* over it).  Nothing else is assumed: the file may stop within its last   *)
(* record, and any record may be unreadable.                               *)
(***************************************************************************)
WellFormedRecords(d) ==
  /\ d.n \in Nat
  /\ d.len \in Nat
  /\ FileHeaderLength <= d.len
  /\ d.start \in [1..(d.n + 1) -> Nat]
  /\ d.kind  \in [1..d.n -> Kinds]
  /\ d.seg   \in [1..d.n -> Nat]
  /\ d.rem   \in [1..(d.n + 1) -> Nat]
  /\ d.stops \in [1..d.n -> SUBSET Nat]
  /\ d.start[1] = FileHeaderLength
  /\ \A i, j \in 1..(d.n + 1) : i < j => d.start[i] < d.start[j]
  /\ \A i \in 1..d.n :
       /\ d.start[i] < d.len
       /\ d.start[i + 1] \in d.stops[i]
       /\ \A s \in d.stops[i] : d.start[i] < s /\ s <= d.start[i + 1]
  /\ d.len <= d.start[d.n + 1]
  /\ d.rem[1] = 0
  /\ \A i \in 1..d.n :
       /\ d.seg[i] < U32
       /\ d.kind[i] = "top"     => d.rem[i] = 0 /\ d.rem[i + 1] = 0
       /\ d.kind[i] = "segment" => d.rem[i] = 0 /\ d.rem[i + 1] = d.seg[i]
       /\ d.kind[i] = "gc" =>
            /\ d.rem[i] > 0
            /\ Size(d, i) < U32
            /\ d.rem[i + 1] = IF Size(d, i) < d.rem[i] THEN d.rem[i] - Size(d, i) ELSE 0

(***************************************************************************)
(* The number of records that are in the file from their first byte to     *)
(* their last.                                                             *)
(***************************************************************************)
WholeRecords(d) == IF d.n > 0 /\ d.len < d.start[d.n + 1] THEN d.n - 1 ELSE d.n

ASSUME DumpAssumption ==
  /\ FileHeaderLength \in Nat \ {0}
  /\ U32 \in Nat \ {0}
  /\ \A d \in Dumps : /\ d.len \in Nat
                      /\ HeaderOutcome(d) = "ok" => WellFormedRecords(d)
=============================================================================
