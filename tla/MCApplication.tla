--------------------------- MODULE MCApplication ---------------------------
(***************************************************************************)
(* Command lines, dumps and disks for model checking the process.          *)
(***************************************************************************)
EXTENDS Application

Row(name, count, largest, total) ==
  [class_name |-> name, instance_count |-> count, largest_allocation_bytes |-> largest,
   allocation_size_bytes |-> total]
Dump(size, rows) == [kind |-> "dump", size |-> size, rows |-> rows]

\* Ties of every kind: two loaders of class 2, classes of the same total.
Before == Dump(5, <<Row(3, 1, 8, 8), Row(2, 2, 8, 16), Row(2, 1, 16, 16), Row(1, 1, 16, 16)>>)
\* Class 1 gone, class 2 with other loaders and the same sums, class 4 new, and
\* class 3 with other numbers for the same size.
After  == Dump(7, <<Row(4, 1, 24, 24), Row(3, 2, 4, 8), Row(2, 3, 16, 32)>>)
\* Classes 1 and 3 have grown by the same size, class 1 with the same number.
Grown  == Dump(6, <<Row(5, 1, 8, 8), Row(3, 3, 8, 24), Row(2, 3, 16, 32), Row(1, 1, 32, 32)>>)
Empty  == Dump(4, << >>)
NoDump == [kind |-> "other", size |-> 3]

Contents == {Before, After, Grown, Empty, NoDump, NoFile}
AnyDisk == {("a" :> a) @@ ("b" :> b) @@ ("out" :> NoFile) @@ ("generated" :> NoFile) :
              a \in Contents, b \in Contents}
OneDisk == {d \in AnyDisk : d["a"] = Before /\ d["b"] = After}
EmptyDisk == {d \in AnyDisk : d["a"] = Empty /\ d["b"] = After}

Analyze(top, js, output) ==
  [mode |-> "analyze", file |-> "a", to |-> "a", top |-> top, json |-> js, output |-> output]
Compare(top) ==
  [mode |-> "diff", file |-> "a", to |-> "b", top |-> top, json |-> FALSE, output |-> ""]

AllCommands == {Analyze(top, js, output) : top \in {1, 2, 5}, js \in BOOLEAN,
                                             output \in {"", "out", "a"}}
               \cup {Compare(top) : top \in {0, 1, 3, 5}} \cup {Analyze(0, FALSE, "")}
JsonCommands == {Analyze(top, TRUE, "out") : top \in {1, 2}}
TextCommands == {Analyze(2, FALSE, "")}

Changes == {After, NoFile, NoDump}
=============================================================================
