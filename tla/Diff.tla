------------------------------- MODULE Diff -------------------------------
(***************************************************************************)
(* hprof-slurp diff: what changed per class name between two dumps, most   *)
(* grown first.  Names are numbers, in the order of the strings.           *)
(***************************************************************************)
EXTENDS Integers, Sequences, FiniteSets, Functions, RenderedResult

\* A class name may occur once per class loader: its rows are summed.
ClassNames(rows) == {rows[i].class_name : i \in DOMAIN rows}

\* Mutant: only the last row of a name counts.
totals_by_class_name_LAST(rows) ==
  [n \in ClassNames(rows) |->
     LET i == CHOOSE k \in DOMAIN rows : rows[k].class_name = n /\
                (\A j \in DOMAIN rows : rows[j].class_name = n => j <= k)
     IN [instances |-> rows[i].instance_count, bytes |-> rows[i].allocation_size_bytes]]

\* Every row adds its numbers to those of its name.
totals_by_class_name(rows) ==
  [n \in ClassNames(rows) |->
     [instances |-> SumOf([i \in DOMAIN rows |->
                             IF rows[i].class_name = n THEN rows[i].instance_count ELSE 0]),
      bytes |-> SumOf([i \in DOMAIN rows |->
                         IF rows[i].class_name = n THEN rows[i].allocation_size_bytes ELSE 0])]]

\* HashMap::get(name).copied().unwrap_or_default()
TotalOr0(totals, n) == IF n \in DOMAIN totals THEN totals[n] ELSE [instances |-> 0, bytes |-> 0]

delta_bytes(e) == e.bytes_to - e.bytes_from
delta_instances(e) == e.instances_to - e.instances_from

MoreGrown(a, b) == delta_bytes(a) > delta_bytes(b)
NameFirst(a, b) == a.class_name < b.class_name

\* The elements of a finite set of entries of different names, by name.
ByName(S) ==
  [k \in 1..Cardinality(S) |->
     CHOOSE e \in S : Cardinality({x \in S : NameFirst(x, e)}) = k - 1]

\* Mutant: a class is only kept if its number of instances changed.
Changed_INSTANCES_ONLY(e) == delta_instances(e) # 0

\* Classes with identical stats on both sides are omitted.
Changed(e) == delta_bytes(e) # 0 \/ delta_instances(e) # 0

\* One entry per class name of either dump.
Entry(from_by_name, to_by_name, n) ==
  LET f == TotalOr0(from_by_name, n)
      t == TotalOr0(to_by_name, n)
  IN [class_name |-> n, instances_from |-> f.instances, instances_to |-> t.instances,
      bytes_from |-> f.bytes, bytes_to |-> t.bytes]

Entries(from, to) ==
  LET from_by_name == totals_by_class_name(from)
      to_by_name == totals_by_class_name(to)
  IN {Entry(from_by_name, to_by_name, n) : n \in DOMAIN from_by_name \cup DOMAIN to_by_name}

\* The entries that changed, most grown first; of two that grew alike, by name.
compute(from, to) == sort_by(ByName({e \in Entries(from, to) : Changed(e)}), MoreGrown)

\* What is printed: the totals of all rows, and the top entries, if there are any.
render(from, to, entries, top) ==
  [total_from |-> total_shallow_bytes(from),
   total_to |-> total_shallow_bytes(to),
   net |-> total_shallow_bytes(to) - total_shallow_bytes(from),
   differences |-> Len(entries),
   shown |-> take(entries, top)]
=============================================================================
