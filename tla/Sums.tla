-------------------------------- MODULE Sums --------------------------------
(***************************************************************************)
(* Sums of the numbers of a sequence, such as the sizes of the reads of a  *)
(* record or of the records of a file.                                     *)
(***************************************************************************)
EXTENDS Integers, Sequences

\* The sum of the first k numbers of s.
SumTo(s, k) ==
  LET sum[j \in 0..Len(s)] == IF j = 0 THEN 0 ELSE sum[j - 1] + s[j] IN sum[k]

SumOf(s) == SumTo(s, Len(s))
=============================================================================
