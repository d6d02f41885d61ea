-------------------------- MODULE RenderedResult --------------------------
(***************************************************************************)
(* The memory usage of a dump (one row per class, ClassAllocationStats)    *)
(* and what is shown of it: the text and the JSON result.  Sorting is in   *)
(* place, so that both report operations also return the rows they leave.  *)
(***************************************************************************)
EXTENDS Naturals, Sequences, FiniteSets, Functions, TLC, Sums

\* Rows in the order of a stable sort by Before: of two that are alike, the first.
\* A row comes to the place behind all those that precede it.
sort_by(rows, Before(_, _)) ==
  LET placed == {<<i, rows[i]>> : i \in DOMAIN rows}
      First(x, y) == Before(x[2], y[2]) \/ (~Before(y[2], x[2]) /\ x[1] < y[1])
  IN [k \in DOMAIN rows |->
        (CHOOSE x \in placed : Cardinality({y \in placed : First(y, x)}) = k - 1)[2]]

\* All that an unstable sort by Before may make of the rows.
sort_unstable_by(rows, Before(_, _)) ==
  {[k \in DOMAIN rows |-> rows[p[k]]] :
     p \in {q \in Bijection(DOMAIN rows, DOMAIN rows) :
              \A i, j \in DOMAIN rows : i < j => ~Before(rows[q[j]], rows[q[i]])}}

\* Vec::iter().take(n)
take(rows, n) == SubSeq(rows, 1, IF n < Len(rows) THEN n ELSE Len(rows))

\* sort_by_key(|b| Reverse(b.allocation_size_bytes)), and by the largest allocation.
MoreAllocated(a, b) == a.allocation_size_bytes > b.allocation_size_bytes
LargerInstance(a, b) == a.largest_allocation_bytes > b.largest_allocation_bytes

total_shallow_bytes(rows) ==
  SumOf([i \in DOMAIN rows |-> rows[i].allocation_size_bytes])

\* The two lists that the text and the JSON result show.
Tops(allocated, largest, top) ==
  [top_allocated_classes |-> take(allocated, top), top_largest_instances |-> take(largest, top)]

\* Mutant: the total is that of the classes that are shown.
JsonHeap_TOTAL_OF_TOP(rows, top) ==
  LET allocated == sort_by(rows, MoreAllocated)
      largest == sort_by(allocated, LargerInstance)
  IN [heap |-> [total |-> total_shallow_bytes(take(allocated, top)), class_count |-> Len(rows),
                tops |-> Tops(allocated, largest, top)],
      rows |-> largest]

\* Mutant: the rows that are not shown are dropped.
JsonHeap_TRUNCATES(rows, top) ==
  LET allocated == sort_by(rows, MoreAllocated)
      largest == sort_by(allocated, LargerInstance)
  IN [heap |-> [total |-> total_shallow_bytes(rows), class_count |-> Len(rows),
                tops |-> Tops(allocated, largest, top)],
      rows |-> take(largest, top)]

\* JsonResult::new: the heap part of the JSON file, and the rows it leaves.
JsonHeap(rows, top) ==
  LET allocated == sort_by(rows, MoreAllocated)
      largest == sort_by(allocated, LargerInstance)
  IN [heap |-> [total |-> total_shallow_bytes(rows), class_count |-> Len(rows),
                tops |-> Tops(allocated, largest, top)],
      rows |-> largest]

\* render_table pads its headers to the longest cell of each column: there must
\* be one ("Results can't be empty").
render_table_panics(rows, top) == take(rows, top) = << >>

\* Mutant: the rows are not sorted again for the second table.
render_memory_usage_NOT_SORTED(rows, top) ==
  LET allocated == sort_by(rows, MoreAllocated)
  IN [total |-> total_shallow_bytes(rows), tops |-> Tops(allocated, allocated, top)]

\* The banner and the two tables of the text.
render_memory_usage(rows, top) ==
  LET allocated == sort_by(rows, MoreAllocated)
      largest == sort_by(allocated, LargerInstance)
  IN [total |-> total_shallow_bytes(rows), tops |-> Tops(allocated, largest, top)]
=============================================================================
