---------------------------- MODULE Application ----------------------------
(***************************************************************************)
(* The process: arguments, the passes over one dump or two, the JSON file  *)
(* and what is printed, while other processes may replace or remove files  *)
(* and the system may run out of disk or close the output.  A pass is one  *)
(* step here: what it may end with is what SlurpSpec promises.             *)
(***************************************************************************)
EXTENDS Integers, Sequences, Diff

CONSTANTS
  Commands,        \* command lines
  Disks,           \* files at the start: what each path holds
  Replacements,    \* what other processes may put in place of a file
  MaxChanges,      \* how often they do
  Faults,          \* "slurp", "metadata", "create", "disk" and "stdout" may fail
  BufferCapacity   \* bytes that BufWriter keeps back, in units of a row

VARIABLES
  command,   \* the command line
  files,     \* path -> content
  changes,   \* how often another process has changed a file
  pc,        \* the next step of the process
  from, to,  \* the dumps that were read: the file to analyze, or both to compare
  usage,     \* memory_usage of the analyzed dump, in its current order
  json,      \* the JSON result
  stdout,    \* what was printed
  exit       \* exit code, -1 while the process runs

vars == <<command, files, changes, pc, from, to, usage, json, stdout, exit>>

NoFile == [kind |-> "none"]
NoJson == [size |-> -1]
Paths == UNION {DOMAIN d : d \in Disks}

\* The order in which aggregate_memory_usage leaves the rows: names descending,
\* then total sizes, numbers and largest sizes (RowBefore of ResultRecorder).
Aggregated(rows) ==
  \A i, j \in DOMAIN rows : i < j =>
    \/ rows[i] = rows[j]
    \/ rows[i].class_name > rows[j].class_name
    \/ /\ rows[i].class_name = rows[j].class_name
       /\ \/ MoreAllocated(rows[i], rows[j])
          \/ /\ rows[i].allocation_size_bytes = rows[j].allocation_size_bytes
             /\ rows[i].instance_count >= rows[j].instance_count

\* A row: the fields are a string, of which the rank among the strings matters, and
\* numbers without a sign.
ClassAllocationStats ==
  [class_name : Nat, instance_count : Nat, largest_allocation_bytes : Nat,
   allocation_size_bytes : Nat]

\* Every file has a size, and a dump has the rows that the recorder makes of it.
KnownContents == Replacements \cup UNION {Range(d) : d \in Disks}
ASSUME FilesAssumption ==
  /\ \A d \in Disks : DOMAIN d = Paths
  /\ \A c \in Commands : c.file \in Paths /\ c.to \in Paths /\ c.top \in Nat
  /\ \A c \in KnownContents : c = NoFile \/ c.size \in Nat
ASSUME RowsAssumption ==
  \A c \in KnownContents :
    c.kind = "dump" => c.rows \in Seq(ClassAllocationStats) /\ Aggregated(c.rows)
ASSUME BoundsAssumption == MaxChanges \in Nat /\ BufferCapacity \in Nat \ {0}

Init ==
  /\ command \in Commands
  /\ files \in Disks
  /\ changes = 0
  /\ pc = "get_args"
  /\ from = NoFile /\ to = NoFile
  /\ usage = << >>
  /\ json = NoJson
  /\ stdout = << >>
  /\ exit = -1

\* The process ends; main turns an error into 1, clap exits with 2, a
\* panic with 101, and an abort shows as 134.
Exit(code) ==
  /\ pc' = "exited"
  /\ exit' = code

Prints(what) == stdout' = Append(stdout, what)

\* The output is closed and print! panics, or something is printed and the process
\* goes on.
PrintThen(what, next) ==
  \/ "stdout" \in Faults /\ Exit(101) /\ UNCHANGED stdout
  \/ pc' = next /\ Prints(what) /\ UNCHANGED exit

-----------------------------------------------------------------------------
(* get_args.                                                               *)

\* What clap rejects: --top 0, and --output without --json.
UsageError(c) == c.top < 1 \/ (c.mode = "analyze" /\ c.output # "" /\ ~c.json)

ParseArgs ==
  /\ pc = "get_args"
  /\ \/ UsageError(command) /\ Exit(2)
     \/ ~UsageError(command) /\ pc' = "existing_file" /\ UNCHANGED exit
  /\ UNCHANGED <<command, files, changes, from, to, usage, json, stdout>>

\* Mutant: the program waits for the file.
CheckFile_WAITS(here, path, next) ==
  /\ pc = here
  /\ pc' = IF files[path] = NoFile THEN here ELSE next
  /\ UNCHANGED <<command, files, changes, from, to, usage, json, stdout, exit>>

\* existing_file: the path is that of a file, at this moment.
CheckFile(here, path, next) ==
  /\ pc = here
  /\ \/ files[path] = NoFile /\ Exit(1)
     \/ files[path] # NoFile /\ pc' = next /\ UNCHANGED exit
  /\ UNCHANGED <<command, files, changes, from, to, usage, json, stdout>>

CheckFrom == CheckFile("existing_file", command.file,
                       IF command.mode = "diff" THEN "existing_to" ELSE "slurp_file")
CheckTo == CheckFile("existing_to", command.to, "slurp_file")

-----------------------------------------------------------------------------
(* slurp_file.                                                             *)

\* The pass succeeds on a dump, and may fail on anything.
Readable(path) == files[path].kind = "dump"

SlurpFrom ==
  /\ pc = "slurp_file"
  /\ Readable(command.file)
  /\ from' = files[command.file]
  /\ usage' = files[command.file].rows
  /\ pc' = IF command.mode = "diff" THEN "slurp_to"
           ELSE IF command.json THEN "metadata" ELSE "print"
  /\ UNCHANGED <<command, files, changes, to, json, stdout, exit>>

SlurpTo ==
  /\ pc = "slurp_to"
  /\ Readable(command.to)
  /\ to' = files[command.to]
  /\ pc' = "print_diff"
  /\ UNCHANGED <<command, files, changes, from, usage, json, stdout, exit>>

\* An error, a panic of main on the result channel, or the abort of the process when
\* the recorder's stack overflows.
SlurpFails(here, path) ==
  /\ pc = here
  /\ "slurp" \in Faults \/ ~Readable(path)
  /\ \E code \in {1, 101, 134} : Exit(code)
  /\ UNCHANGED <<command, files, changes, from, to, usage, json, stdout>>

-----------------------------------------------------------------------------
(* The JSON result.                                                        *)

Output == IF command.output = "" THEN "generated" ELSE command.output

\* A second look at the file for its size, and the rows sorted in place.
MakeJson ==
  /\ pc = "metadata"
  /\ files[command.file] # NoFile
  /\ \E j \in {JsonHeap(usage, command.top)} :
       /\ json' = [size |-> files[command.file].size, heap |-> j.heap]
       /\ usage' = j.rows
  /\ pc' = "create"
  /\ UNCHANGED <<command, files, changes, from, to, stdout, exit>>

MetadataFails ==
  /\ pc = "metadata"
  /\ files[command.file] = NoFile \/ "metadata" \in Faults
  /\ Exit(1)
  /\ UNCHANGED <<command, files, changes, from, to, usage, json, stdout>>

\* The JSON file, of which written out of length units have reached the disk.
JsonFile(written, length) ==
  [kind |-> "json", size |-> written, complete |-> written = length]
JsonLength(j) ==
  1 + Len(j.heap.tops.top_allocated_classes) + Len(j.heap.tops.top_largest_instances)

\* Mutant: the size of the dump is asked for when the output exists.
CreateFile_THEN_SIZE ==
  /\ pc = "create"
  /\ files' = [files EXCEPT ![Output] = JsonFile(0, JsonLength(json))]
  /\ files'[command.file] # NoFile
  /\ json' = [json EXCEPT !.size = files'[command.file].size]
  /\ pc' = "to_writer"
  /\ UNCHANGED <<command, changes, from, to, usage, stdout, exit>>

\* File::create truncates a file that exists.
CreateFile ==
  /\ pc = "create"
  /\ \/ /\ files' = [files EXCEPT ![Output] = JsonFile(0, JsonLength(json))]
        /\ pc' = "to_writer"
        /\ UNCHANGED exit
     \/ "create" \in Faults /\ Exit(1) /\ UNCHANGED files
  /\ UNCHANGED <<command, changes, from, to, usage, json, stdout>>

\* What to_writer has to write itself: the rest is in the buffer when it returns.
Unbuffered(length) == ((length - 1) \div BufferCapacity) * BufferCapacity

\* to_writer: the disk takes all, or stops taking.  An error on what to_writer
\* writes is reported; one on what the BufWriter flushes when it is dropped is not.
WriteJson ==
  /\ pc = "to_writer"
  /\ \E written \in IF "disk" \in Faults THEN 0..JsonLength(json) ELSE {JsonLength(json)} :
       /\ files' = [files EXCEPT ![Output] = JsonFile(written, JsonLength(json))]
       /\ \/ written < Unbuffered(JsonLength(json)) /\ Exit(1)
          \/ written >= Unbuffered(JsonLength(json)) /\ pc' = "announce" /\ UNCHANGED exit
  /\ UNCHANGED <<command, changes, from, to, usage, json, stdout>>

\* Mutant: the JSON result replaces the text.
AnnounceJson_INSTEAD ==
  /\ pc = "announce"
  /\ PrintThen([what |-> "json_file", path |-> Output], "finish")
  /\ UNCHANGED <<command, files, changes, from, to, usage, json>>

AnnounceJson ==
  /\ pc = "announce"
  /\ PrintThen([what |-> "json_file", path |-> Output], "print")
  /\ UNCHANGED <<command, files, changes, from, to, usage, json>>

-----------------------------------------------------------------------------
(* What is printed.                                                        *)

\* serialize and print!; a table without rows panics.
PrintText ==
  /\ pc = "print"
  /\ \/ render_table_panics(usage, command.top) /\ Exit(101) /\ UNCHANGED stdout
     \/ /\ ~render_table_panics(usage, command.top)
        /\ PrintThen([what |-> "text", memory |-> render_memory_usage(usage, command.top)], "finish")
  /\ UNCHANGED <<command, files, changes, from, to, usage, json>>

PrintDiff ==
  /\ pc = "print_diff"
  /\ LET entries == compute(from.rows, to.rows)
     IN PrintThen([what |-> "diff", diff |-> render(from.rows, to.rows, entries, command.top)],
                  "finish")
  /\ UNCHANGED <<command, files, changes, from, to, usage, json>>

\* "successfully processed" or "compared", and the exit code 0.
Finish ==
  /\ pc = "finish"
  /\ \/ Prints([what |-> "success"]) /\ Exit(0)
     \/ "stdout" \in Faults /\ Exit(101) /\ UNCHANGED stdout
  /\ UNCHANGED <<command, files, changes, from, to, usage, json>>

-----------------------------------------------------------------------------
\* Another process replaces or removes a file while this one runs.
OthersChange ==
  /\ exit = -1
  /\ changes < MaxChanges
  /\ changes' = changes + 1
  /\ \E p \in Paths, c \in Replacements : files' = [files EXCEPT ![p] = c]
  /\ UNCHANGED <<command, pc, from, to, usage, json, stdout, exit>>

Process ==
  \/ ParseArgs \/ CheckFrom \/ CheckTo
  \/ SlurpFrom \/ SlurpTo
  \/ SlurpFails("slurp_file", command.file) \/ SlurpFails("slurp_to", command.to)
  \/ MetadataFails \/ MakeJson \/ CreateFile \/ WriteJson \/ AnnounceJson
  \/ PrintText \/ PrintDiff \/ Finish

Exited == exit # -1 /\ UNCHANGED vars

Next == Process \/ OthersChange \/ Exited

\* The process takes its next step sooner or later: a pass ends (SlurpSpec and the
\* liveness of Slurp) and every other step is a system call or less.
Spec == Init /\ [][Next]_vars /\ WF_vars(Process)

-----------------------------------------------------------------------------
(* Properties.                                                             *)

Printed(what) == {i \in DOMAIN stdout : stdout[i].what = what}
Count(rows, r) == Cardinality({i \in DOMAIN rows : rows[i] = r})

TypeOK ==
  /\ command \in Commands
  /\ DOMAIN files = Paths
  /\ changes \in 0..MaxChanges
  /\ exit \in {-1, 0, 1, 2, 101, 134} /\ (exit # -1 <=> pc = "exited")
  /\ json = NoJson \/ json.size \in Nat
  /\ from # NoFile => \A r \in Range(usage) \cup Range(from.rows) : Count(usage, r) = Count(from.rows, r)

\* list shows n of the rows, largest first, and leaves out none that is larger.
ShowsTop(list, rows, n, Size(_)) ==
  /\ Len(list) = Len(take(rows, n))
  /\ \A i, j \in DOMAIN list : i < j => Size(list[i]) >= Size(list[j])
  /\ \A r \in Range(list) : Count(list, r) <= Count(rows, r)
  /\ \A r \in Range(rows) :
       Count(list, r) < Count(rows, r) => \A i \in DOMAIN list : Size(list[i]) >= Size(r)

Allocation(r) == r.allocation_size_bytes
Largest(r) == r.largest_allocation_bytes

\* The text is about the dump that was read: its total is that of all rows, and its
\* tables show the top classes and the top instances of it, although the rows are
\* sorted in place, two times more with --json (rendered_result.rs:93-206).
ReportFaithful ==
  \A i \in Printed("text") :
    LET m == stdout[i].memory IN
    /\ m.total = total_shallow_bytes(from.rows)
    /\ ShowsTop(m.tops.top_allocated_classes, from.rows, command.top, Allocation)
    /\ ShowsTop(m.tops.top_largest_instances, from.rows, command.top, Largest)

\* The text and the JSON result of a run agree on the total and, place by place, on
\* the sizes: only classes of the same size may differ ("totals over all classes,
\* not only the top entries", rendered_result.rs:95).
JsonAgreesWithText ==
  \A i \in Printed("text") :
    LET m == stdout[i].memory
        Sizes(list, Size(_)) == [k \in DOMAIN list |-> Size(list[k])]
    IN json # NoJson =>
         /\ json.heap.total = m.total
         /\ json.heap.class_count = Len(from.rows)
         /\ Sizes(json.heap.tops.top_allocated_classes, Allocation)
              = Sizes(m.tops.top_allocated_classes, Allocation)
         /\ Sizes(json.heap.tops.top_largest_instances, Largest)
              = Sizes(m.tops.top_largest_instances, Largest)

\* Bytes and instances of a class name, over all its rows.
BytesOf(rows, n) ==
  SumOf([i \in DOMAIN rows |-> IF rows[i].class_name = n THEN rows[i].allocation_size_bytes ELSE 0])
InstancesOf(rows, n) ==
  SumOf([i \in DOMAIN rows |-> IF rows[i].class_name = n THEN rows[i].instance_count ELSE 0])
Growth(n) == BytesOf(to.rows, n) - BytesOf(from.rows, n)
ChangedNames ==
  {n \in ClassNames(from.rows) \cup ClassNames(to.rows) :
     Growth(n) # 0 \/ InstancesOf(to.rows, n) # InstancesOf(from.rows, n)}

\* The diff has every class name whose size or number changed, once however many
\* class loaders loaded it, most grown first, the same order every time
\* ("Classes with identical stats on both sides are omitted", diff.rs:46).
DiffExact ==
  \A i \in Printed("diff") :
    LET d == stdout[i].diff
        shown == d.shown
        names == [k \in DOMAIN shown |-> shown[k].class_name]
    IN /\ d.differences = Cardinality(ChangedNames)
       /\ Len(shown) = Len(take([k \in 1..d.differences |-> k], command.top))
       /\ Range(names) \subseteq ChangedNames /\ IsInjective(names)
       /\ \A k \in DOMAIN shown :
            /\ delta_bytes(shown[k]) = Growth(names[k])
            /\ shown[k].instances_to = InstancesOf(to.rows, names[k])
            /\ \A n \in ChangedNames \ {names[j] : j \in 1..k} :
                 Growth(n) < Growth(names[k]) \/ (Growth(n) = Growth(names[k]) /\ n > names[k])

\* Nothing that changed is left out of the entries: when all of them are shown, their
\* deltas add up to the net difference of the totals (diff.rs:88-103).
NetIsSumOfDeltas ==
  \A i \in Printed("diff") :
    LET d == stdout[i].diff IN
    d.differences <= command.top =>
      d.net = SumOf([k \in DOMAIN d.shown |-> delta_bytes(d.shown[k])])

\* The exit code tells whether there is a report: 0 with the whole of it, an error
\* without any, so that an error of the JSON file, which is saved first, costs the
\* text as well (main.rs:19-27 and :53-67).
ExitTellsReport ==
  /\ exit = 0 => Printed("text") \cup Printed("diff") # {} /\ Printed("success") # {}
  /\ exit \in {1, 2} => Printed("text") \cup Printed("diff") = {}

\* The size in the JSON result is that of the dump it describes, unless another
\* process changed files between the pass and the second look (main.rs:56), even if
\* the result is written over the dump.
JsonSizeFresh == json # NoJson /\ changes = 0 => json.size = from.size

\* The process ends, whatever happens to the files.
Terminates == <>(exit # -1)

-----------------------------------------------------------------------------
(* What the program says of itself and the model refutes.                  *)

\* "additional JSON output in file" (args.rs:67): the text is the one without --json.
JsonIsAdditional ==
  \A i \in Printed("text") : stdout[i].memory = render_memory_usage(from.rows, command.top)

\* "The output file name is printed on completion" (README.md:127): the file whose
\* name was printed holds the JSON result.
AnnouncedJsonComplete == Printed("json_file") # {} => files[Output].complete

\* "Results can't be empty" (rendered_result.rs:343): there is a row to render.
ResultsNotEmpty == pc = "print" => usage # << >>
-----------------------------------------------------------------------------
(***************************************************************************)
(* The invariant behind the properties.  What is shown is made of rows     *)
(* that earlier sorts have moved about: it is enough that every sort is a  *)
(* rearrangement of the rows of the dump that was read.                    *)
(***************************************************************************)

Content(c) ==
  \/ c = NoFile
  \/ c.size \in Nat /\ (c.kind = "dump" => c.rows \in Seq(ClassAllocationStats))

\* What a sort may make of the rows.
Rearrangements(rows) ==
  {[k \in DOMAIN rows |-> rows[p[k]]] : p \in Bijection(DOMAIN rows, DOMAIN rows)}

\* Files have sizes and dumps have rows, whoever wrote them.
FilesInv ==
  /\ command \in Commands /\ DOMAIN files = Paths
  /\ \A p \in Paths : Content(files[p])
  /\ changes \in 0..MaxChanges

\* Where the process is tells what it has read and printed.
BeforePass == {"get_args", "existing_file", "existing_to", "slurp_file"}
Reported == {"finish", "exited"}
ControlInv ==
  /\ exit \in {-1, 0, 1, 2, 101, 134} /\ (exit # -1 <=> pc = "exited")
  /\ pc \in BeforePass => from = NoFile /\ json = NoJson
  /\ pc \in {"metadata", "create", "to_writer", "announce", "print"} => from # NoFile
  /\ pc \in {"create", "to_writer"} => json # NoJson
  /\ stdout \in Seq(Range(stdout))
  /\ pc \notin Reported => Printed("text") \cup Printed("diff") = {}
  /\ pc = "finish" => Printed("text") \cup Printed("diff") # {}
  /\ ExitTellsReport

\* The JSON result and the text are made of rearrangements of the rows that were read.
RowsInv ==
  /\ from # NoFile => /\ from.rows \in Seq(ClassAllocationStats)
                      /\ usage \in Rearrangements(from.rows)
  /\ json # NoJson => /\ from # NoFile /\ json.size \in Nat
                      /\ \E rows \in Rearrangements(from.rows) :
                           json.heap = JsonHeap(rows, command.top).heap
  /\ \A i \in Printed("text") :
       /\ from # NoFile
       /\ \E rows \in Rearrangements(from.rows) :
            stdout[i].memory = render_memory_usage(rows, command.top)

\* Between the pass and the second look the dump is there, if nobody changed files.
SizeInv ==
  /\ pc = "metadata" /\ changes = 0 => files[command.file] = from
  /\ JsonSizeFresh

\* A diff is that of the rows that were read, which nobody sorts before.
DiffInv ==
  /\ pc \in {"slurp_to", "print_diff"} => from # NoFile
  /\ pc = "print_diff" => to # NoFile
  /\ to # NoFile => to.rows \in Seq(ClassAllocationStats)
  /\ \A i \in Printed("diff") :
       /\ from # NoFile /\ to # NoFile
       /\ stdout[i].diff = render(from.rows, to.rows, compute(from.rows, to.rows), command.top)

AppInv == FilesInv /\ ControlInv /\ RowsInv /\ SizeInv /\ DiffInv
=============================================================================
