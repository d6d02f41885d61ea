----------------------------- MODULE SlurpSpec -----------------------------
(***************************************************************************)
(* What a call of slurp_file promises, without threads and buffers: the    *)
(* records of the dump are recorded in the order of the file, some at a    *)
(* time, and the call ends with the result of all of them or with an       *)
(* error.  Recording may go on behind a call that has already failed.      *)
(***************************************************************************)
EXTENDS HprofDump

VARIABLES dump,      \* the file
          recorded,  \* the records recorded so far
          outcome,   \* "none" while the call runs, then what it ended with
          answer     \* the records that the returned result stands for

specVars == <<dump, recorded, outcome, answer>>

SpecInit ==
  /\ dump \in Dumps
  /\ recorded = << >>
  /\ outcome = "none"
  /\ answer = << >>

\* Some of the next records of the file are recorded.
Record ==
  /\ \E k \in 1..WholeRecords(dump) :
       /\ Len(recorded) < k
       /\ recorded' = recorded \o Span(Len(recorded), k)
  /\ UNCHANGED <<dump, outcome, answer>>

\* The call succeeds: nothing is missing from the result.
Succeed ==
  /\ outcome = "none"
  /\ HeaderOutcome(dump) = "ok"
  /\ recorded = Span(0, WholeRecords(dump))
  /\ outcome' = "ok"
  /\ answer' = recorded
  /\ UNCHANGED <<dump, recorded>>

\* The call fails: a bad header is reported as such, everything else is an
\* error of the operating system, of a thread, or a panic.
Fail ==
  /\ outcome = "none"
  /\ outcome' \in {"StdIoError", "StdThreadError", "panic"}
                    \cup ({HeaderOutcome(dump)} \ {"ok"})
  /\ UNCHANGED <<dump, recorded, answer>>

SpecNext == Record \/ Succeed \/ Fail

SlurpSpec == SpecInit /\ [][SpecNext]_specVars
=============================================================================
