# hprof-slurp in TLA+

`hprof-slurp` summarises a JVM (or Android) heap dump in one streaming pass. This
directory holds TLA+ modules that model the program, TLC configurations that check
them on small instances, and TLAPS proofs of the main results for every instance.
Paths below are relative to the root of the repository.

## 1. The system

### Components

| Component | Source | State | Operations |
|---|---|---|---|
| `slurp_file`, the main thread | `src/slurp.rs`, `src/errors.rs` | handles of three threads, six channel ends, the progress bar, the result | check the header; start the three threads; show progress; receive the result; join; return `Ok`, an error, or panic |
| `PrefetchReader`, thread `hprof-prefetch` | `src/prefetch_reader.rs` | `processed_len`, the file | take a pooled buffer, fill it with the next bytes of the file, send it |
| `HprofRecordStreamParser`, thread `hprof-parser` | `src/parser/record_stream_parser.rs` | `loop_buffer`, `pooled_vec`, `needed`, `processed_len` | append a buffer, give it back, parse a round, drain what was consumed, report progress, swap vectors |
| `HprofRecordParser` | `src/parser/record_parser.rs`, `primitive_parsers.rs`, `gc_record.rs`, `record.rs` | `heap_dump_remaining_len` | one parser per kind of record; `lazy_many1` |
| file header | `src/parser/file_header_parser.rs`, `slurp_header` | none | accept or reject the first 31 bytes |
| `ResultRecorder`, thread `hprof-recorder` | `src/result_recorder.rs` | counters, maps of strings, classes, instances, arrays, frames, traces | record a vector of records, aggregate sizes, render |
| `RenderedResult`, JSON | `src/rendered_result.rs` | the rows of memory usage, sorted in place | sort, cut to top n, total, save, print |
| diff | `src/diff.rs` | the rows of two dumps | totals per class name, differences, order |
| application | `src/main.rs`, `src/args.rs` | the options, the file system, the output | check the files; run one pass, or two and a diff; write JSON, print; exit code |
| helpers | `src/utils.rs` | none | sizes, dates |

### How they interact

The threads share nothing but channels (crossbeam, unbounded, one sender and one
receiver each):

    prefetch --data--> parser --records--> recorder --result--> main
        ^---pool---------'  ^----vecs--------'
                            '--progress--------------------------> main

`pool` carries empty input buffers back to the pre-fetcher (two of them circulate),
`vecs` the emptied record vectors back to the parser (one circulates besides the one
the parser fills). There is no other signal: a thread learns that its predecessor has
finished, *or has panicked*, from the fact that its channel is closed.

### What is hard

- A record may be cut anywhere by the end of an input buffer. `nom` answers
  `Incomplete(n)`; `lazy_many1` turns that into success once it has pushed a record;
  `needed` puts the next attempt off; the rest is drained to the front of
  `loop_buffer`.
- `heap_dump_remaining_len` selects the tag table. It is written inside parsing
  attempts that may be repeated, and is decremented by a length cast to `u32`.
- A panic of one thread looks like a normal end to the next one. Only the joins at
  the end of `slurp_file`, in their order, keep a partial result from being returned.
- The four threads wait for each other in cycles (`data`/`pool`, `records`/`vecs`).
- The channels are unbounded: memory is bounded only by what circulates.
- A thread may fail to start while those before it already run.
- A dump may hold its strings, classes and objects in any order, more than once, or not
  at all. Names and sizes come from five maps that are joined at the end; a size is the
  result of a recursion over super classes that trusts the dump to have no cycle.
- Rows come out of randomly seeded hash maps, are sorted with an unstable sort, and are
  then sorted in place by whichever report is made first.
- The file is looked at three times (when the arguments are checked, by the pass, for its
  size) and may be another one each time; the JSON file is written before the text is
  printed, through a buffer that nobody flushes.

### What makes each part correct

- *pipeline*: every whole record is recorded once, in the order of the file, whatever
  the buffers and the schedule; `Ok` only with all of them; the call ends and leaves no
  thread behind, whatever fails; bounded memory;
- *pre-fetcher*: the buffers are consecutive and cover the file;
- *stream parser*: no byte is lost or parsed twice; it never waits for bytes behind
  the record; the reported progress does not fall;
- *record parser*: it consumes the bytes the format gives to the record, and looks the
  tag up in the right table;
- *recorder*: the rows, the warning, the stack traces and the counters are functions of
  the records, whatever their order; nothing that is missing stops it;
- *rendering*: the tops are tops and the totals are totals of all rows, in the text and
  in the JSON file alike;
- *diff*: every class name that changed, once, with what it grew by;
- *application*: the report is about the files that were read, and the exit code says
  whether there is one;
- *dates*: the formula is the calendar.

## 2. The modules

| Module | Models | Notes |
|---|---|---|
| `Channel` | a crossbeam channel (external) | queue and the life of both ends; `recv` fails on an empty queue without sender, `send` fails without receiver |
| `HprofDump` | the file | a byte is its offset, a record its place in the file; where records start, where the parser's reads end, which kind they are; `HeaderOutcome` is `slurp_header` |
| `PipelineChannels` | the channels `slurp_file` creates | the constants `ReadSizes`, `PoolBuffers`, `Faults` |
| `PrefetchReader` | `PrefetchReader::start` | |
| `RecordStreamParser` | `HprofRecordStreamParser::start`, `lazy_many1` | one call of `parse_hprof_record` is one step |
| `RecorderThread` | `ResultRecorder::start` | the thread as the pipeline sees it |
| `Slurp` | `slurp_file`, the composition of the above | one action per step of main; all properties of the pipeline |
| `SlurpSpec` | what `slurp_file` promises | the abstract specification: records are recorded in order, the call ends with all of them or with an error |
| `RecordLayout` | every parser of `record_parser.rs` | a parser is the sequence of the sizes of its reads |
| `HprofFormat` | the format, from the writer's side (external) | how many bytes a record takes, and which files are well formed: the reference that `RecordLayout` is measured against |
| `RecordParser` | `HprofRecordParser`, read by read | attempts, `Incomplete`, retries, panics |
| `ObjectSizes` | the size functions of `result_recorder.rs` | headers, fields, arrays, rounding |
| `ResultRecorder` | `record_records` and the rendering of a result | one action per kind of record, per call and return of the recursion over super classes, per part of the result |
| `RecorderResult` | what the result should be | reference definitions over the records alone, and the properties of the recorder |
| `RenderedResult` | `JsonResult::new`, `render_memory_usage`, `render_table` | the operators return the report and the rows they leave behind |
| `Diff` | `diff.rs` | pure operators |
| `Application` | `main.rs`, `args.rs`, `save_as_file` | the process among other processes that change files; its properties |
| `Calendar` | `civil_from_days`, `pretty_timestamp_utc` | |
| `MCSlurp`, `MCRecordParser`, `MCResultRecorder`, `MCApplication` | | the dumps, streams, disks and command lines for TLC |
| `MCCalendar` | | a calendar counted day by day, the reference for `Calendar` |
| `SlurpInvariant`, `RecorderInvariant` | | the inductive invariants of the pipeline and of the recorder |
| `Sums` | | sums of the numbers of a sequence, as a recursive function |
| `SumLemmas` | | induction over numbers, and what sums do when sequences are joined, changed, rearranged or split by kind, and when a place is added to a set |
| `SlurpSteps`, `SlurpProofs` | | the proofs about `Slurp`: lemmas on spans of bytes, channels and well-formed dumps, the types, and one lemma per step; then the invariant, its consequences, the refinement, memory and failures |
| `RecorderSteps`, `RecorderProofs` | | the proofs about `ResultRecorder`: one lemma per map and record; then the recursion over super classes, the rows, the warning, and the properties |
| `RecordParserProofs`, `ApplicationProofs`, `CalendarProofs` | | the proofs about the other parts |

`RecordStreamParser` takes a call of `parse_hprof_record` as one step, with the ends of
its reads as the `stops` of the record; `RecordParser` opens that step and checks what
`HprofDump` assumes of it: the reads of every kind of record end within the record, the
last one at its end. `MCSlurp!Real` is a dump whose stops are computed by `RecordLayout`.

The modules of the recorder and of the process join the pipeline at its two ends. In
`Slurp` the recorder's work is the growing sequence `recorded`, shown to be the whole
records of the file in order however they were batched; `ResultRecorder` starts from such a
sequence (`stream`) and needs no batches any more. `RenderPanics` of `RecorderThread` stands
for the two ways in which `ResultRecorder` fails to answer, `ArrayNamePanics` and
`StackOverflows` (the latter aborts the process, which the pipeline does not survive
either). In `Application` a pass is one step that reads the file it finds and either
answers with the rows of the whole dump or ends with an error or a panic: what `SlurpSpec`
promises and `Termination` adds to it.

### State and actions

The variables keep the names of the code where they can. `fetched` and `processed` are
the two `processed_len`; `rest` is what `lazy_many1` has not consumed; `batch` is the
vector being recorded and `recorded` the records already recorded; `answer` is the
result main has received, identified by the records it was rendered from. `fetcher`,
`parser`, `recorder` and `main` say where each thread is, with `"unborn"` (not
started), `"done"`, `"panicked"` and `"dropped"` (never started, its channel ends
dropped by a returning main).

Steps are as fine as the channels make them observable: each `recv` and each `send` of
a thread is a step of its own, except where two of them follow each other without
anything in between that another thread could act on differently (the parser's `recv` of
a buffer, its append and the return of the buffer; `recv` of the spare vector, swap and
send). The local computation between two channel operations belongs to one of them.

`ResultRecorder` keeps the recorder's maps in one record, `self`, under their names; the
counters are a function from the kind of record. `left` and `stream` are the records still
to come and those recorded; the next one is any of `left`, so that one dump stands for all
orders of its records. `walk` is the stack of `calculate_instance_size_recursive`: `calls`
the classes on it, `value` what the last call returned (0 while calls are being entered).
`unsized` are the classes that the iterator over the hash map has not yielded. The phases
are recording, sizing, rendering, and the three ends.

`Application` has a program counter with one value per system call, so that another process
can act between any two of them. `from`, `to` and `usage` are what the passes returned, the
last in its current order; a file is the kind of its content, its size and, for a dump, its
rows.

### Abstractions to know about

- A thread that ends drops all its channel ends in one step. In the code they are
  dropped one after the other; nothing is sent in between.
- A progress report and a result are values; the bar and the rendered text are not
  modelled. Debug output is left out.
- A sub-record of 2^32 bytes or more is excluded (`WellFormedRecords`): its length
  would be cut by `as u32`. The fields the format uses for lengths are 32 bits wide, so
  only an array whose content exceeds 4 GiB could be one.
- The length of the file is fixed: a file that shrinks during the pass is the fault
  `"io"` (`read_exact` fails). One that grows is read up to its first length.
- In the pipeline, rendering is one step that may panic (fault `"render"`).
- A string is a record of what the recorder tells apart: the prefix of an array class, the
  rest, whether it has slashes, whether it is too short to be cut. A label (a shown name)
  says where it comes from; some total order of labels stands for that of their texts.
- The stack of the recorder's thread has room for `MaxDepth` calls; the real number is
  several thousand, and no class hierarchy of a JVM comes near it.
- Instance sizes and totals are numbers without a bound. They are `u32` and `u64` in the
  code; a class has at most 65535 fields of 8 bytes, so that the `u32` is out of reach of
  any hierarchy of less than 8192 classes. The 32 bit counters do wrap, at `U32` in the
  model.
- The length of a JSON result is counted in rows, and so is the buffer of the `BufWriter`.
- Paths are names; that the program trims them is left out.
- In `Application` a pass sees one content of its file: it opens the path once, so that a
  file that is replaced meanwhile does not matter to it. A file overwritten in place is left
  out; one that shrinks is the fault `"io"` of the pipeline.
- `u32` is scaled down to modulus 16 in the runs of the pipeline, so that sizes come
  near it; the proofs hold for every modulus.

## 3. The runs

| Run | Shows |
|---|---|
| `slurp` | For dumps of five shapes cut at every byte, one dump with the real layout, and five buffer sizes: records in order, whole dump on success, `heap_dump_remaining_len`, bounded memory, `needed`, no failure without a cause, monotone progress, termination, completion |
| `slurp_faults` | With failing reads, thread starts and rendering at any moment and with every bad header: types, the inductive invariant, the promise of `SlurpSpec`, termination, no thread left behind |
| `record_parser` | For every kind of record, with both identifier sizes, alone and in a mixed heap dump, and five buffer sizes: aligned, right tag table, asks only for the record, bounded retries, everything parsed |
| `recorder` | For thirteen small dumps, each in every order of its records: rows equal to the reference, an order that no hash seed changes, exactly the missing classes in the warning, counters that agree, stack traces equal to the reference, stack overflow only on a cycle, and always a result otherwise; and at every step the inductive invariant of the recorder's proof |
| `application` | For every disk of two files, every command line, up to two changes by other processes and all faults: report about the dump that was read, text and JSON in agreement, diff exact and complete, truthful exit code, fresh size, termination |
| `calendar` | One era of 400 years from 1970, day by day, and the leap day of 2400: formula and calendar agree; 146097 days later the formula repeats |
| `slurp_truncated` | *violated*: a file that stops within its last record is reported as processed successfully |
| `slurp_buffers` | *violated*: the initial working buffer never joins the pool, although a comment says so |
| `cpu_samples` | *violated*: a `CPU_SAMPLES` record with a trace sampled twice makes the parser lose its place |
| `json_order` | *violated*: `--json` changes the text that is printed |
| `json_disk_full` | *violated*: a JSON file whose last buffer did not fit on the disk is announced as written |
| `empty_result` | *violated*: a dump without objects reaches a table that must have rows |

The properties, each with the code it is about, are commented in `Slurp`, `RecordParser`,
`RecorderResult`, `Application` and `MCCalendar`; the invariants of the proofs in
`SlurpInvariant` and `RecorderInvariant`.

### Bounds, and why they are enough

- *Dumps*. What the pipeline does depends on how record boundaries, read boundaries
  and buffer boundaries fall relative to each other, and on the kinds of the records.
  The shapes have up to five records of one to seven bytes: a heap dump between other
  records, a record longer than most buffers, a sub-record that runs over its heap
  dump, an empty heap dump, an unknown tag, a type rejected in mid-record. Each is cut
  at every byte, and `ReadSizes` 1, 2, 3, 5 and 20 give buffers smaller than a field,
  between a field and a record, of several records, and larger than the file.
- *Pool*. `PoolBuffers` is 2, as in the code; one vector circulates, as in the code.
- *Faults*. All three together, so any combination and order of failures occurs.
- *Streams* (`record_parser`). Repeated parts occur 0, 1, 2 or 3 times; every field
  type occurs; every tag of both tables occurs, and one that neither has.
- *Recorded dumps* (`recorder`). Each is about one hazard and has up to eight records, taken
  in all orders: a hierarchy with padding on two levels, a class loaded and dumped twice,
  two loaders of one name, arrays of both kinds with and without data, a name that cannot
  be cut, objects without class, class without name or super class, an id used again, frames
  without class or with a class that has no name, missing frames, a cycle that a second class
  dump may or may not close, and more records than the counters hold. Both identifier sizes occur; `U32` is 4, so
  that six records wrap a counter, and `MaxDepth` is 5, deeper than every hierarchy
  without a cycle.
- *Disks* (`application`). Two input files, each one of three dumps, an empty dump,
  another kind of file or none; two output files, one of which may be the input. The rows
  have ties of every kind, a name of two loaders, and between dumps classes that came,
  went, grew with the same number, and changed number at the same size. `--top` is 0, 1,
  less than, and more than the number of rows. The buffer of 4 rows is smaller and larger
  than the JSON results. `MaxChanges` 2 lets another process act at two of the three looks
  at a file.
- *Calendar*. 157200 days are more than one era from 1970 on; `DateIsCivil` and `ErasRepeat`
  are proved for every day.
- The channels need no bound: what circulates bounds `data`, `pool`, `records` and
  `vecs`, and the length of the file bounds `progress`.

### Fairness

`FairSpec` asks weak fairness of each of the four threads: a thread that can take a
step eventually takes one. They are threads of the operating system, they take no
locks, a channel operation that can proceed does, and reads of a regular file return.
No action of the environment is fair: a fault may happen, and need not.
`RecordParser` and `ResultRecorder` have weak fairness of their only thread for the same
reason. `Application` has weak fairness of the process, whose passes end by `Termination`
of `Slurp`; the other processes are under no obligation.

## 4. The proofs

Every theorem is about the specification of its module, for every value of the constants.
The assumptions on the constants are named, TLC evaluates each on the runs of its module,
and each says what the environment provides:

- `DumpAssumption` (`Slurp`): the header has a positive length, and a dump whose header is
  accepted has well-formed records, which may be unreadable and of which the last may be cut;
- `PipelineAssumption` (`Slurp`): buffers and the pool are not empty;
- `StreamAssumption`, `ChunkAssumption` (`RecordParser`): the files are what the writer of
  the format writes (`WellFormed`), and a buffer is not empty;
- `RecorderAssumption` (`ResultRecorder`): a dump is a sequence of records with identifiers
  of 4 or 8 bytes, the counters have a width and the stack has room for a call;
- `FilesAssumption`, `RowsAssumption`, `BoundsAssumption` (`Application`): files have sizes,
  `--top` is a number without a sign, a dump has the rows that `aggregate_memory_usage`
  leaves, and a `BufWriter` has a buffer.

| Theorem | States |
|---|---|
| `SlurpSteps!TypeCorrect` | `[]TypeOK`: no byte count or counter becomes negative |
| `SlurpProofs!InvCorrect` | `[]SlurpInv`, the inductive invariant |
| `SlurpProofs!OrderCorrect` | `[]RecordsInOrder` |
| `SlurpProofs!SuccessCorrect` | `[]SuccessIsWholeDump` |
| `SlurpProofs!TrackingCorrect` | `[]HeapDumpTracked` |
| `SlurpProofs!NeededCorrect` | `[]NeededIsJustified` |
| `SlurpProofs!ProgressCorrect` | `ProgressMonotone` |
| `SlurpProofs!PromiseKept` | `Spec => KeepsPromise`: the pipeline implements `SlurpSpec` |
| `SlurpProofs!MemoryCorrect` | `[]MemoryBounded` |
| `SlurpProofs!CauseCorrect` | `[]FailureHasCause` |
| `RecordParserProofs!ParserTypeCorrect` | `[]TypeOK` of `RecordParser` |
| `RecordParserProofs!AlignedCorrect` | `[](SampledOnce(file) => Aligned)` |
| `RecordParserProofs!TableCorrect` | `[](SampledOnce(file) => RightTable)` |
| `RecordParserProofs!AsksCorrect` | `[](SampledOnce(file) => AsksOnlyForRecord)` |
| `RecordParserProofs!RetriesCorrect` | `[](SampledOnce(file) => RetriesBounded)` |
| `RecorderProofs!RecorderIsInvariant` | `[]RecorderInv`, the inductive invariant of the recorder |
| `RecorderProofs!TypeCorrect` | `[]TypeOK` of `ResultRecorder` |
| `RecorderProofs!MemoryUsageCorrect` | `[]MemoryUsageExact` |
| `RecorderProofs!OrderCorrect` | `[]OrderDeterministic` |
| `RecorderProofs!MissingCorrect` | `[]MissingReported` |
| `RecorderProofs!CountsCorrect` | `[]CountsAgree` |
| `RecorderProofs!FramesCorrect` | `[]FramesNamed` |
| `RecorderProofs!OverflowCorrect` | `DeepStack` implies `[]OverflowMeansCycle` |
| `ApplicationProofs!AppTypeCorrect` | `[]TypeOK` of `Application`: no sort in place loses or doubles a row |
| `ApplicationProofs!ReportCorrect` | `[]ReportFaithful` |
| `ApplicationProofs!JsonTextCorrect` | `[]JsonAgreesWithText` |
| `ApplicationProofs!ExitCorrect` | `[]ExitTellsReport` |
| `ApplicationProofs!SizeCorrect` | `[]JsonSizeFresh` |
| `ApplicationProofs!DiffCorrect` | `[]DiffExact` |
| `ApplicationProofs!NetCorrect` | `[]NetIsSumOfDeltas` |
| `CalendarProofs!ErasAlwaysRepeat` | `CalendarSpec => []ErasRepeat`: the date of a day repeats after 146097 days, with 400 years more, for every last day |
| `CalendarProofs!DateAlwaysCivil` | `CalendarSpec => []DateIsCivil`: the formula is the calendar, for every day from 1970 on |

### The pipeline

None of the properties is inductive by itself: that the next vector holds the next
records depends on where the parser is in the file, which depends on the bytes that are
under way, which depends on which threads still live. `SlurpInv` says it in layers, each
proved preserved from the ones before it:

1. `TypeInv`: types, and that a thread runs only on a dump whose header was accepted;
2. `Lifecycle`, `Ownership`: threads start in order; a sender is dropped exactly when
   its thread is gone;
3. `Bytes`: the buffers in `data` form a chain from the end of `loop_buffer` to where the
   pre-fetcher is, and `loop_buffer` holds the bytes from `processed` on;
4. `Records`: `recorded`, `batch`, `records` and `pooled_vec` follow each other without
   a gap (`Order`), only one vector is under way (`Vectors`), the parser stands at
   the record behind the last one pushed, with the right `heap_dump_remaining_len`, and
   between two rounds the buffer does not hold this record to its end (`Position`);
5. `Answering`: main's result is everything recorded, and main has joined the threads
   before it in order.

`SuccessCorrect` and the `Succeed` step of the refinement come from all of it together
(lemma `AllRecorded`): the pre-fetcher ended at the end of the file, so the parser has
received all bytes; what is left in its buffer is less than a record; nothing is under
way; so what was recorded is every whole record.

The refinement mapping shows the answer once the call has succeeded. `RecordBatch` is
`Record` (or a stutter for an empty vector), the last join is `Succeed`, every other
return is `Fail`, and all other steps stutter.

`MemoryBounded` rests on `MemoryInv`, on top of `SlurpInv`: every pooled buffer is in one of
`data`, `pool` and the hands of a thread (`Pooling`), the one spare vector likewise
(`Spare`), and `loop_buffer` has grown past one record by at most one buffer, because a
record that is there to its end is not left unparsed (`Buffering`). `FailureHasCause` rests
on `CauseInv`: an end of a channel goes only with the thread that owns it (`Handles`), so
that on a healthy dump each `send` finds its receiver and each `recv` its sender, and the
threads end in the order in which main joins them (`Unharmed`).

### The record parser

`ParserInv` says that the parser is at the start of a record (`Aligned`), that
`heap_dump_remaining_len` is the length of the sub-records from this one on (`Enclosed`),
that an attempt has taken a prefix of the reads of the record (`Attempt`), and that after
n tries the bytes of n reads are there or asked for (`Persistent`). Its core is a lemma per
kind of record: the sum of the reads of `RecordLayout` is the size of `HprofFormat`, for
every length, number of items and sequence of field types, with both identifier sizes. For
`CPU_SAMPLES` this is false when a trace was sampled more than once, which is what the run
`cpu_samples` shows; the four theorems therefore say `SampledOnce(file) => ...`, which every
file without such a record satisfies. `TypeOK` needs no such condition.

### The recorder

`RecorderResult` says what the result should be in terms of the whole sequence of records;
the code gets there through maps that forget, a recursion that fills in sizes class by class
in the order of a hash map, and a sort. `RecorderInv` says what is true on the way:

1. `RecordsInv`: each map has the last record of its key (the first one, for class dumps),
   each counter and array entry the number, total and maximum of its records, and every record
   is one of the file;
2. `ControlInv`: nothing is computed before the last record is in, and the phase tells which
   parts of the result are there;
3. `WalkInv`: the calls of `calculate_instance_size_recursive` follow the lineage of the
   class. Once a call has returned, the lineage is known to end, the calls are different
   classes, and the value on its way back is the size of an object of the classes of the
   lineage that are no longer on the stack;
4. `CyclesInv`: a class whose calls have all begun is not its own ancestor;
5. `RowsInv`: the rows are in bijection with the classes sized so far, each with the values of
   the reference, and in the end with all keys, in order;
6. `MissingInv`: the warning is about the classes that were looked up so far.

The properties need all of it: a row is right because the value returned is that of the whole
lineage, which needs the shape of the stack, which needs the maps. The lemmas of
`RecorderSteps` take the maps one record at a time. The properties `MemoryUsageExact` and
`OrderDeterministic` then follow from the bijection: a row occurs as often as expected, and a
sequence sorted by a total order is unique up to equal rows.

`OverflowMeansCycle` holds only if the stack is deeper than the hierarchies without a cycle.
`OverflowCorrect` therefore has the hypothesis `DeepStack`: among any `MaxDepth` classes of a
dump in which each extends the next, whichever of its class dumps come first, one occurs twice.
The proof finds the calls on a full stack to be such classes, all of them from class dumps of
the file, and the class that occurs twice to be its own ancestor. `DumpsAreShallow` of
`MCResultRecorder` has TLC evaluate the hypothesis on the dumps of the runs, one of which has a
cycle. The other theorems have no such hypothesis.

### The process

What is printed is made of rows that earlier sorts have moved about. `AppInv` says that the
rows are always a rearrangement of those of the dump that was read (`RowsInv`), that each
report is a function of such a rearrangement, that the place of the process tells what it
has read and printed (`ControlInv`), that files have sizes and rows (`FilesInv`), that the
dump is unchanged up to the second look if nobody changed files (`SizeInv`), and that a diff
is that of the two dumps that were read (`DiffInv`). The properties follow from lemmas on
the operators: the ranks that `sort_by` gives to the rows are a bijection, so that a sort
is a rearrangement, keeps every count and the total, and orders the keys; two sorted
rearrangements have the same keys at the same places, whichever rows of equal size come
first; the entries of a diff are those of the changed names, each once; and the total of the
rows is the sum of the sums of the names, of which the unchanged ones cancel.

### The calendar

`ErasAlwaysRepeat` needs no invariant but that days are natural numbers: a day and the day
an era later have the same remainder by 146097 (`EraShift`), and one era more adds 400 to
the year of `civil_in_era` and leaves the rest (`NextEra`). `DateAlwaysCivil` goes by the day:
the formula for the day after is the day after the one of the formula (`DayByDay`). Within an
era the year of the next day is the same, or the next one if the year was over (`NextDay`);
the year is over after 366 days exactly if the February at its end has 29 (`LongIsLeap`); and
within a year that starts in March the months that the formula finds have the lengths of the
calendar (`MonthLengths`). The last day of an era is followed by the first of the next one
(`BetweenEras`).

### Induction

The library's induction theorems have a predicate as a parameter, which the provers cannot
instantiate. `SumLemmas` has induction over a *set* instead: a set of numbers that has 0 and
with each number the next has all of them, from the least number that is missing. Sums are
recursive functions over the places of a sequence, and what they do is proved with it. Sets
are counted with the theorems on finite sets.

### Only model-checked

Liveness: `Termination`, `Completion`, `ThreadsEnd`, `AllParsed`, `EventuallyRendered` and
`Terminates` are out of the prover's reach. Every other property of a passing run is proved.

## 5. Disagreements between the code and its texts

- **Truncated files** (`slurp_truncated`). When the pre-fetcher is gone the parser
  thread leaves its loop without looking at what is left in `loop_buffer`
  (`src/parser/record_stream_parser.rs:56`). `slurp_file` returns `Ok` and `main` prints
  "File successfully processed". The summary then lacks the cut record and whatever
  should have followed.
- **The initial loop buffer** (`slurp_buffers`). `src/slurp.rs:85` says it "will be
  added to the data pool after the first chunk". It is not: received buffers are
  copied into it and given back themselves.
- **CPU samples** (`cpu_samples`). `parse_cpu_samples` repeats the pair of counts
  `total_number_of_samples` times instead of `number_of_traces` times.

- **`--json` changes the text** (`json_order`). `src/args.rs:67` calls it "additional JSON
  output in file". But `JsonResult::new` sorts the rows in place by total and then by
  largest size, and the text is made from the same vector with stable sorts
  (`src/rendered_result.rs:102`): among classes of equal total size, the largest instance
  then decides instead of the name, and at the edge of `--top` another class is shown.
- **The last buffer of the JSON file** (`json_disk_full`). `serde_json::to_writer` takes
  the `BufWriter` by value; it is dropped there, and a failing write of what it still
  holds is ignored (`src/rendered_result.rs:137`). A result smaller than the buffer can be
  lost altogether, after which its name is printed and the exit code is 0.
- **Empty heaps** (`empty_result`). `padding_for_header` expects a row ("Results can't be
  empty", `src/rendered_result.rs:343`). A valid dump without instances and arrays has
  none, and the process panics after the pass.

Two wordings that the model made visible, not counted as disagreements of behaviour: the
"unique strings" of `src/result_recorder.rs:398` are all strings, duplicates included;
and the warning of `src/result_recorder.rs:728` says of every listed id that its objects are
"reported as '<unknown class>' and sized as bare object headers", whereas a class with a dump
and no name is sized in full, and a missing super class shortens objects that have a name.

And one behaviour that no text of the repository speaks of: a frame finds its class by serial
number, but the name by the class id (`src/result_recorder.rs:446`). In a dump that loads an id
again for another class, frames of the earlier class show the name of the later one.
`FramesNamed` states it so: the name is the last one that the id was given.

## 6. What is not modelled, and the plan

Left out for good: `clap`'s parsing and the help texts, the layout and wording of tables
and summaries, `pretty_bytes_size` (floating point formatting), the progress bar, debug
output, `parse_array_value` (dead code).

Left to do: a refinement mapping from `ResultRecorder` fed by `RecorderThread`'s batches to
`RecorderThread`, in place of the argument of section 2.
