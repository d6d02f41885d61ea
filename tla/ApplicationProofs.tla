------------------------- MODULE ApplicationProofs -------------------------
(***************************************************************************)
(* Theorems about the process for every disk, every command line and every *)
(* combination of faults.  Before them: a stable sort only moves rows      *)
(* about, and what a report shows of rows does not depend on their order.  *)
(***************************************************************************)
EXTENDS Application, SumLemmas, FiniteSetTheorems, FunctionTheorems

(***************************************************************************)
(* The places that a stable sort gives to 1..n.                            *)
(***************************************************************************)

\* The places that come before i when larger keys come first.
Ahead(n, key, i) == {j \in 1..n : key[j] > key[i] \/ (key[j] = key[i] /\ j < i)}

\* Fewer places are ahead of j than of i, if j is ahead of i.
LEMMA AheadGrows ==
  ASSUME NEW n \in Nat, NEW key \in [1..n -> Int], NEW i \in 1..n, NEW j \in Ahead(n, key, i)
  PROVE  /\ IsFiniteSet(Ahead(n, key, i)) /\ IsFiniteSet(Ahead(n, key, j))
         /\ Cardinality(Ahead(n, key, j)) < Cardinality(Ahead(n, key, i))
<1>1. IsFiniteSet(1..n)
  BY FS_Interval
<1>2. j \in 1..n /\ key[i] \in Int /\ key[j] \in Int /\ \A k \in 1..n : key[k] \in Int
  BY DEF Ahead
<1>3. Ahead(n, key, i) \in SUBSET (1..n) /\ Ahead(n, key, j) \in SUBSET (1..n)
  BY DEF Ahead
<1>4. IsFiniteSet(Ahead(n, key, i)) /\ IsFiniteSet(Ahead(n, key, j))
  BY <1>1, <1>3, FS_Subset
<1>5. Ahead(n, key, j) \in SUBSET Ahead(n, key, i)
  BY <1>2 DEF Ahead
<1>6. j \notin Ahead(n, key, j)
  BY <1>2 DEF Ahead
<1>7. /\ Cardinality(Ahead(n, key, j)) <= Cardinality(Ahead(n, key, i))
      /\ Cardinality(Ahead(n, key, i)) = Cardinality(Ahead(n, key, j))
           => Ahead(n, key, i) = Ahead(n, key, j)
  BY <1>4, <1>5, FS_Subset
<1>8. Cardinality(Ahead(n, key, i)) \in Nat /\ Cardinality(Ahead(n, key, j)) \in Nat
  BY <1>4, FS_CardinalityType
<1> QED
  BY <1>4, <1>6, <1>7, <1>8

\* Every place is taken, once; larger keys come first, and equal ones as they were.
LEMMA PlacesExist ==
  ASSUME NEW n \in Nat, NEW key \in [1..n -> Int]
  PROVE  \E p \in Bijection(1..n, 1..n) :
           /\ \A i, k \in 1..n : Cardinality(Ahead(n, key, i)) = k - 1 <=> i = p[k]
           /\ \A i, j \in 1..n : i < j => p[i] \in Ahead(n, key, p[j])
<1> DEFINE D == 1..n
           A(i) == Ahead(n, key, i)
           place == [i \in D |-> Cardinality(A(i)) + 1]
<1>1. IsFiniteSet(D)
  BY FS_Interval
<1>2. \A i \in D : IsFiniteSet(A(i)) /\ Cardinality(A(i)) \in Nat /\ Cardinality(A(i)) + 1 \in D
  <2> SUFFICES ASSUME NEW i \in D
               PROVE  IsFiniteSet(A(i)) /\ Cardinality(A(i)) \in Nat /\ Cardinality(A(i)) + 1 \in D
    OBVIOUS
  <2>1. A(i) \in SUBSET (D \ {i})
    BY DEF Ahead
  <2>2. IsFiniteSet(D \ {i}) /\ Cardinality(D \ {i}) = Cardinality(D) - 1
    BY <1>1, FS_RemoveElement
  <2>3. Cardinality(D) = n
    BY FS_Interval
  <2>4. IsFiniteSet(A(i)) /\ Cardinality(A(i)) <= Cardinality(D \ {i})
    BY <2>1, <2>2, FS_Subset
  <2>5. Cardinality(A(i)) \in Nat
    BY <2>4, FS_CardinalityType
  <2> HIDE DEF A
  <2> QED
    BY <2>2, <2>3, <2>4, <2>5
<1>3. place \in [D -> D]
  BY <1>2
<1>4. \A i, j \in D : j \in A(i) => place[j] < place[i]
  <2> SUFFICES ASSUME NEW i \in D, NEW j \in D, j \in A(i) PROVE place[j] < place[i]
    OBVIOUS
  <2>1. Cardinality(A(j)) < Cardinality(A(i))
    BY AheadGrows
  <2>2. Cardinality(A(i)) \in Nat /\ Cardinality(A(j)) \in Nat
    BY <1>2
  <2>3. place[i] = Cardinality(A(i)) + 1 /\ place[j] = Cardinality(A(j)) + 1
    OBVIOUS
  <2> HIDE DEF A, place
  <2> QED
    BY <2>1, <2>2, <2>3
<1>5. \A i, j \in D : i # j => i \in A(j) \/ j \in A(i)
  BY DEF Ahead
<1>6. \A i \in D : place[i] = Cardinality(A(i)) + 1 /\ Cardinality(A(i)) \in Nat
  BY <1>2
<1> HIDE DEF place, A
<1>8. \A i, j \in D : place[i] = place[j] => i = j
  <2> SUFFICES ASSUME NEW i \in D, NEW j \in D, i # j PROVE place[i] # place[j]
    OBVIOUS
  <2>1. place[i] \in Nat /\ place[j] \in Nat
    <3>1. D \in SUBSET Nat
      OBVIOUS
    <3> HIDE DEF D
    <3> QED
      BY <1>3, <3>1
  <2>2. place[i] < place[j] \/ place[j] < place[i]
    BY <1>4, <1>5
  <2> QED
    BY <2>1, <2>2
<1>9. place \in Injection(D, D)
  BY <1>3, <1>8, Fun_IsInj
<1>10. place \in Surjection(D, D)
  BY <1>1, <1>9, FS_Injection
<1>11. place \in Bijection(D, D)
  BY <1>9, <1>10 DEF Bijection
<1> DEFINE p == Inverse(place, D, D)
<1>12. p \in Bijection(D, D) /\ \A i \in D : p[place[i]] = i
  BY <1>11, Fun_BijInverse
<1>13. p \in [D -> D] /\ \A k \in D : place[p[k]] = k
  <2> HIDE DEF p, D
  <2>1. p \in [D -> D]
    BY <1>12, Fun_BijectionProperties, Zenon
  <2>2. \A k \in D : \E i \in D : place[i] = k
    BY <1>10, Fun_SurjectionProperties, Zenon
  <2> QED
    BY <1>12, <2>1, <2>2
<1> HIDE DEF p
<1>14. ASSUME NEW i \in D, NEW k \in D PROVE Cardinality(A(i)) = k - 1 <=> i = p[k]
  <2>1. Cardinality(A(i)) = k - 1 <=> place[i] = k
    <3>1. place[i] = Cardinality(A(i)) + 1 /\ Cardinality(A(i)) \in Nat
      BY <1>6
    <3> QED
      BY <3>1
  <2>2. place[i] = k <=> i = p[k]
    BY <1>12, <1>13
  <2> QED
    BY <2>1, <2>2
<1>15. ASSUME NEW i \in D, NEW j \in D, i < j PROVE p[i] \in A(p[j])
  <2>1. p[i] \in D /\ p[j] \in D /\ place[p[i]] = i /\ place[p[j]] = j
    BY <1>13
  <2>2. ~(place[p[j]] < place[p[i]]) /\ p[i] # p[j]
    BY <1>15, <2>1
  <2> QED
    BY <1>4, <1>5, <2>1, <2>2
<1> QED
  BY <1>12, <1>14, <1>15 DEF A

-----------------------------------------------------------------------------
(***************************************************************************)
(* The sorts of a report and of a diff.                                    *)
(***************************************************************************)

\* The rows in these places, with their places.
AheadRows(n, key, rows, i) == {<<j, rows[j]>> : j \in Ahead(n, key, i)}

\* They are as many as their places.
LEMMA PlacedCount ==
  ASSUME NEW n \in Nat, NEW rows, NEW key, NEW i
  PROVE  Cardinality(AheadRows(n, key, rows, i)) = Cardinality(Ahead(n, key, i))
<1> DEFINE A == Ahead(n, key, i)
           P == {<<j, rows[j]>> : j \in A}
           f == [j \in A |-> <<j, rows[j]>>]
<1>1. IsFiniteSet(A)
  <2>1. A \in SUBSET (1..n)
    BY DEF Ahead
  <2> QED
    BY <2>1, FS_Interval, FS_Subset
<1> HIDE DEF A
<1>2. f \in Bijection(A, P)
  <2>1. f \in [A -> P] /\ (\A a, b \in A : f[a] = f[b] => a = b) /\ \A t \in P : \E a \in A : f[a] = t
    OBVIOUS
  <2> HIDE DEF P, f
  <2> QED
    BY <2>1, Fun_IsBij
<1>3. ExistsBijection(A, P)
  BY <1>2 DEF ExistsBijection
<1> HIDE DEF P
<1>4. Cardinality(P) = Cardinality(A)
  BY <1>1, <1>3, FS_Bijection
<1> QED
  BY <1>4 DEF P, A, AheadRows

\* A row comes to the place behind all those that are ahead: every place is taken.
LEMMA StableSort ==
  ASSUME NEW n \in Nat, NEW rows, DOMAIN rows = 1..n, NEW key \in [1..n -> Int]
  PROVE  \E p \in Bijection(1..n, 1..n) :
           /\ \A i, k \in 1..n :
                Cardinality(AheadRows(n, key, rows, i)) = k - 1 <=> i = p[k]
           /\ \A i, j \in 1..n : i < j => p[i] \in Ahead(n, key, p[j])
<1>1. PICK p \in Bijection(1..n, 1..n) :
        /\ \A i, k \in 1..n : Cardinality(Ahead(n, key, i)) = k - 1 <=> i = p[k]
        /\ \A i, j \in 1..n : i < j => p[i] \in Ahead(n, key, p[j])
  BY PlacesExist
<1>2. \A i \in 1..n : Cardinality(AheadRows(n, key, rows, i)) = Cardinality(Ahead(n, key, i))
  BY PlacedCount
<1>3. \A i, k \in 1..n : Cardinality(AheadRows(n, key, rows, i)) = k - 1 <=> i = p[k]
  BY <1>1, <1>2
<1> QED
  BY <1>1, <1>3

\* Sorting by total sizes.
LEMMA AllocationPlaces ==
  ASSUME NEW rows, NEW n \in Nat, DOMAIN rows = 1..n, NEW key \in [1..n -> Int],
         \A i \in 1..n : key[i] = rows[i].allocation_size_bytes
  PROVE  \E p \in Bijection(1..n, 1..n) :
           /\ p \in [1..n -> 1..n]
           /\ sort_by(rows, MoreAllocated) = [k \in 1..n |-> rows[p[k]]]
           /\ \A i, j \in 1..n : i < j => p[i] \in Ahead(n, key, p[j])
<1> DEFINE placed == {<<i, rows[i]>> : i \in DOMAIN rows}
           First(x, y) == MoreAllocated(x[2], y[2]) \/ (~MoreAllocated(y[2], x[2]) /\ x[1] < y[1])
           Kth(k) == CHOOSE x \in placed : Cardinality({y \in placed : First(y, x)}) = k - 1
<1>1. ASSUME NEW i \in 1..n
      PROVE  {y \in placed : First(y, <<i, rows[i]>>)} = AheadRows(n, key, rows, i)
  <2>1. \A j \in 1..n : First(<<j, rows[j]>>, <<i, rows[i]>>) <=> j \in Ahead(n, key, i)
    <3> SUFFICES ASSUME NEW j \in 1..n
                 PROVE  First(<<j, rows[j]>>, <<i, rows[i]>>) <=> j \in Ahead(n, key, i)
      OBVIOUS
    <3>1. First(<<j, rows[j]>>, <<i, rows[i]>>) <=> key[j] > key[i] \/ (~(key[i] > key[j]) /\ j < i)
      BY DEF MoreAllocated
    <3>2. key[i] \in Int /\ key[j] \in Int
      OBVIOUS
    <3> HIDE DEF First
    <3> QED
      BY <3>1, <3>2 DEF Ahead
  <2>2. Ahead(n, key, i) \subseteq 1..n
    BY DEF Ahead
  <2>3. placed = {<<j, rows[j]>> : j \in 1..n}
    OBVIOUS
  <2> HIDE DEF First, placed
  <2> QED
    BY <2>1, <2>2, <2>3 DEF AheadRows
<1>2. PICK p \in Bijection(1..n, 1..n) :
        /\ \A i, k \in 1..n :
             Cardinality(AheadRows(n, key, rows, i)) = k - 1 <=> i = p[k]
        /\ \A i, j \in 1..n : i < j => p[i] \in Ahead(n, key, p[j])
  <2>1. n \in Nat /\ DOMAIN rows = 1..n /\ key \in [1..n -> Int]
    OBVIOUS
  <2> QED
    BY ONLY <2>1, StableSort
<1>3. p \in [1..n -> 1..n]
  BY Fun_BijectionProperties
<1>4. ASSUME NEW k \in 1..n PROVE Kth(k)[2] = rows[p[k]]
  <2>1. p[k] \in 1..n /\ <<p[k], rows[p[k]]>> \in placed
    BY <1>3
  <2>2. \A x \in placed : \E i \in 1..n : x = <<i, rows[i]>>
    OBVIOUS
  <2> HIDE DEF First, placed
  <2>3. \A x \in placed : Cardinality({y \in placed : First(y, x)}) = k - 1 <=> x = <<p[k], rows[p[k]]>>
    <3> SUFFICES ASSUME NEW i \in 1..n
                 PROVE  Cardinality({y \in placed : First(y, <<i, rows[i]>>)}) = k - 1
                          <=> <<i, rows[i]>> = <<p[k], rows[p[k]]>>
      BY <2>2
    <3>1. {y \in placed : First(y, <<i, rows[i]>>)} = AheadRows(n, key, rows, i)
      BY <1>1
    <3>2. Cardinality(AheadRows(n, key, rows, i)) = k - 1 <=> i = p[k]
      BY <1>2
    <3>3. <<i, rows[i]>> = <<p[k], rows[p[k]]>> <=> i = p[k]
      OBVIOUS
    <3> QED
      BY <3>1, <3>2, <3>3
  <2>4. Kth(k) = <<p[k], rows[p[k]]>>
    BY <2>1, <2>3
  <2> HIDE DEF Kth
  <2> QED
    BY <2>4
<1>5. sort_by(rows, MoreAllocated) = [k \in 1..n |-> Kth(k)[2]]
  BY Zenon DEF sort_by
<1> HIDE DEF Kth
<1>6. sort_by(rows, MoreAllocated) = [k \in 1..n |-> rows[p[k]]]
  BY <1>4, <1>5
<1> QED
  BY <1>2, <1>3, <1>6

\* Sorting by the largest instances.
LEMMA LargestPlaces ==
  ASSUME NEW rows, NEW n \in Nat, DOMAIN rows = 1..n, NEW key \in [1..n -> Int],
         \A i \in 1..n : key[i] = rows[i].largest_allocation_bytes
  PROVE  \E p \in Bijection(1..n, 1..n) :
           /\ p \in [1..n -> 1..n]
           /\ sort_by(rows, LargerInstance) = [k \in 1..n |-> rows[p[k]]]
           /\ \A i, j \in 1..n : i < j => p[i] \in Ahead(n, key, p[j])
<1> DEFINE placed == {<<i, rows[i]>> : i \in DOMAIN rows}
           First(x, y) == LargerInstance(x[2], y[2]) \/ (~LargerInstance(y[2], x[2]) /\ x[1] < y[1])
           Kth(k) == CHOOSE x \in placed : Cardinality({y \in placed : First(y, x)}) = k - 1
<1>1. ASSUME NEW i \in 1..n
      PROVE  {y \in placed : First(y, <<i, rows[i]>>)} = AheadRows(n, key, rows, i)
  <2>1. \A j \in 1..n : First(<<j, rows[j]>>, <<i, rows[i]>>) <=> j \in Ahead(n, key, i)
    <3> SUFFICES ASSUME NEW j \in 1..n
                 PROVE  First(<<j, rows[j]>>, <<i, rows[i]>>) <=> j \in Ahead(n, key, i)
      OBVIOUS
    <3>1. First(<<j, rows[j]>>, <<i, rows[i]>>) <=> key[j] > key[i] \/ (~(key[i] > key[j]) /\ j < i)
      BY DEF LargerInstance
    <3>2. key[i] \in Int /\ key[j] \in Int
      OBVIOUS
    <3> HIDE DEF First
    <3> QED
      BY <3>1, <3>2 DEF Ahead
  <2>2. Ahead(n, key, i) \subseteq 1..n
    BY DEF Ahead
  <2>3. placed = {<<j, rows[j]>> : j \in 1..n}
    OBVIOUS
  <2> HIDE DEF First, placed
  <2> QED
    BY <2>1, <2>2, <2>3 DEF AheadRows
<1>2. PICK p \in Bijection(1..n, 1..n) :
        /\ \A i, k \in 1..n :
             Cardinality(AheadRows(n, key, rows, i)) = k - 1 <=> i = p[k]
        /\ \A i, j \in 1..n : i < j => p[i] \in Ahead(n, key, p[j])
  <2>1. n \in Nat /\ DOMAIN rows = 1..n /\ key \in [1..n -> Int]
    OBVIOUS
  <2> QED
    BY ONLY <2>1, StableSort
<1>3. p \in [1..n -> 1..n]
  BY Fun_BijectionProperties
<1>4. ASSUME NEW k \in 1..n PROVE Kth(k)[2] = rows[p[k]]
  <2>1. p[k] \in 1..n /\ <<p[k], rows[p[k]]>> \in placed
    BY <1>3
  <2>2. \A x \in placed : \E i \in 1..n : x = <<i, rows[i]>>
    OBVIOUS
  <2> HIDE DEF First, placed
  <2>3. \A x \in placed : Cardinality({y \in placed : First(y, x)}) = k - 1 <=> x = <<p[k], rows[p[k]]>>
    <3> SUFFICES ASSUME NEW i \in 1..n
                 PROVE  Cardinality({y \in placed : First(y, <<i, rows[i]>>)}) = k - 1
                          <=> <<i, rows[i]>> = <<p[k], rows[p[k]]>>
      BY <2>2
    <3>1. {y \in placed : First(y, <<i, rows[i]>>)} = AheadRows(n, key, rows, i)
      BY <1>1
    <3>2. Cardinality(AheadRows(n, key, rows, i)) = k - 1 <=> i = p[k]
      BY <1>2
    <3>3. <<i, rows[i]>> = <<p[k], rows[p[k]]>> <=> i = p[k]
      OBVIOUS
    <3> QED
      BY <3>1, <3>2, <3>3
  <2>4. Kth(k) = <<p[k], rows[p[k]]>>
    BY <2>1, <2>3
  <2> HIDE DEF Kth
  <2> QED
    BY <2>4
<1>5. sort_by(rows, LargerInstance) = [k \in 1..n |-> Kth(k)[2]]
  BY Zenon DEF sort_by
<1> HIDE DEF Kth
<1>6. sort_by(rows, LargerInstance) = [k \in 1..n |-> rows[p[k]]]
  BY <1>4, <1>5
<1> QED
  BY <1>2, <1>3, <1>6

\* Sorting the entries of a diff by growth.
LEMMA GrowthPlaces ==
  ASSUME NEW rows, NEW n \in Nat, DOMAIN rows = 1..n, NEW key \in [1..n -> Int],
         \A i \in 1..n : key[i] = delta_bytes(rows[i])
  PROVE  \E p \in Bijection(1..n, 1..n) :
           /\ p \in [1..n -> 1..n]
           /\ sort_by(rows, MoreGrown) = [k \in 1..n |-> rows[p[k]]]
           /\ \A i, j \in 1..n : i < j => p[i] \in Ahead(n, key, p[j])
<1> DEFINE placed == {<<i, rows[i]>> : i \in DOMAIN rows}
           First(x, y) == MoreGrown(x[2], y[2]) \/ (~MoreGrown(y[2], x[2]) /\ x[1] < y[1])
           Kth(k) == CHOOSE x \in placed : Cardinality({y \in placed : First(y, x)}) = k - 1
<1>1. ASSUME NEW i \in 1..n
      PROVE  {y \in placed : First(y, <<i, rows[i]>>)} = AheadRows(n, key, rows, i)
  <2>1. \A j \in 1..n : First(<<j, rows[j]>>, <<i, rows[i]>>) <=> j \in Ahead(n, key, i)
    <3> SUFFICES ASSUME NEW j \in 1..n
                 PROVE  First(<<j, rows[j]>>, <<i, rows[i]>>) <=> j \in Ahead(n, key, i)
      OBVIOUS
    <3>1. First(<<j, rows[j]>>, <<i, rows[i]>>) <=> key[j] > key[i] \/ (~(key[i] > key[j]) /\ j < i)
      BY DEF MoreGrown
    <3>2. key[i] \in Int /\ key[j] \in Int
      OBVIOUS
    <3> HIDE DEF First
    <3> QED
      BY <3>1, <3>2 DEF Ahead
  <2>2. Ahead(n, key, i) \subseteq 1..n
    BY DEF Ahead
  <2>3. placed = {<<j, rows[j]>> : j \in 1..n}
    OBVIOUS
  <2> HIDE DEF First, placed
  <2> QED
    BY <2>1, <2>2, <2>3 DEF AheadRows
<1>2. PICK p \in Bijection(1..n, 1..n) :
        /\ \A i, k \in 1..n :
             Cardinality(AheadRows(n, key, rows, i)) = k - 1 <=> i = p[k]
        /\ \A i, j \in 1..n : i < j => p[i] \in Ahead(n, key, p[j])
  <2>1. n \in Nat /\ DOMAIN rows = 1..n /\ key \in [1..n -> Int]
    OBVIOUS
  <2> QED
    BY ONLY <2>1, StableSort
<1>3. p \in [1..n -> 1..n]
  BY Fun_BijectionProperties
<1>4. ASSUME NEW k \in 1..n PROVE Kth(k)[2] = rows[p[k]]
  <2>1. p[k] \in 1..n /\ <<p[k], rows[p[k]]>> \in placed
    BY <1>3
  <2>2. \A x \in placed : \E i \in 1..n : x = <<i, rows[i]>>
    OBVIOUS
  <2> HIDE DEF First, placed
  <2>3. \A x \in placed : Cardinality({y \in placed : First(y, x)}) = k - 1 <=> x = <<p[k], rows[p[k]]>>
    <3> SUFFICES ASSUME NEW i \in 1..n
                 PROVE  Cardinality({y \in placed : First(y, <<i, rows[i]>>)}) = k - 1
                          <=> <<i, rows[i]>> = <<p[k], rows[p[k]]>>
      BY <2>2
    <3>1. {y \in placed : First(y, <<i, rows[i]>>)} = AheadRows(n, key, rows, i)
      BY <1>1
    <3>2. Cardinality(AheadRows(n, key, rows, i)) = k - 1 <=> i = p[k]
      BY <1>2
    <3>3. <<i, rows[i]>> = <<p[k], rows[p[k]]>> <=> i = p[k]
      OBVIOUS
    <3> QED
      BY <3>1, <3>2, <3>3
  <2>4. Kth(k) = <<p[k], rows[p[k]]>>
    BY <2>1, <2>3
  <2> HIDE DEF Kth
  <2> QED
    BY <2>4
<1>5. sort_by(rows, MoreGrown) = [k \in 1..n |-> Kth(k)[2]]
  BY Zenon DEF sort_by
<1> HIDE DEF Kth
<1>6. sort_by(rows, MoreGrown) = [k \in 1..n |-> rows[p[k]]]
  BY <1>4, <1>5
<1> QED
  BY <1>2, <1>3, <1>6

\* Rows in the places of a bijection that puts larger sizes first.
LEMMA RowsSorted ==
  ASSUME NEW rows \in Seq(ClassAllocationStats), NEW n, n = Len(rows), NEW key \in [1..n -> Int],
         NEW p \in Bijection(1..n, 1..n), p \in [1..n -> 1..n],
         \A i, j \in 1..n : i < j => p[i] \in Ahead(n, key, p[j]),
         NEW sorted, sorted = [k \in 1..n |-> rows[p[k]]]
  PROVE  /\ sorted \in Rearrangements(rows)
         /\ \A i, j \in DOMAIN rows : i < j => key[p[i]] >= key[p[j]]
<1>1. n \in Nat /\ DOMAIN rows = 1..n
  OBVIOUS
<1>2. sorted \in Rearrangements(rows)
  BY <1>1, Zenon DEF Rearrangements
<1>3. ASSUME NEW i \in 1..n, NEW j \in 1..n, i < j PROVE key[p[i]] >= key[p[j]]
  <2>1. p[i] \in 1..n /\ p[j] \in 1..n /\ p[i] \in Ahead(n, key, p[j])
    BY <1>3
  <2>2. key[p[i]] \in Int /\ key[p[j]] \in Int
    BY <2>1
  <2>3. key[p[i]] > key[p[j]] \/ key[p[i]] = key[p[j]]
    BY <2>1 DEF Ahead
  <2> QED
    BY <2>2, <2>3
<1> QED
  BY <1>1, <1>2, <1>3

\* Sorting by total sizes moves the rows about, and puts larger ones first.
LEMMA SortedByAllocation ==
  ASSUME NEW rows \in Seq(ClassAllocationStats)
  PROVE  /\ sort_by(rows, MoreAllocated) \in Rearrangements(rows)
         /\ \A i, j \in DOMAIN rows :
              i < j => Allocation(sort_by(rows, MoreAllocated)[i]) >= Allocation(sort_by(rows, MoreAllocated)[j])
<1> DEFINE n == Len(rows)
           key == [i \in 1..n |-> rows[i].allocation_size_bytes]
<1>1. n \in Nat /\ DOMAIN rows = 1..n /\ \A i \in 1..n : rows[i] \in ClassAllocationStats
  OBVIOUS
<1>2. key \in [1..n -> Int] /\ \A i \in 1..n : key[i] = rows[i].allocation_size_bytes
  <2>1. \A r \in ClassAllocationStats : r.allocation_size_bytes \in Int
    BY DEF ClassAllocationStats
  <2> HIDE DEF n
  <2> QED
    BY <1>1, <2>1
<1> HIDE DEF n, key
<1>3. PICK p \in Bijection(1..n, 1..n) :
        /\ p \in [1..n -> 1..n]
        /\ sort_by(rows, MoreAllocated) = [k \in 1..n |-> rows[p[k]]]
        /\ \A i, j \in 1..n : i < j => p[i] \in Ahead(n, key, p[j])
  BY <1>1, <1>2, AllocationPlaces, ZenonT(60)
<1> DEFINE sorted == sort_by(rows, MoreAllocated)
<1>4. sorted = [k \in 1..n |-> rows[p[k]]]
  BY <1>3
<1> HIDE DEF sorted
<1>5. /\ sorted \in Rearrangements(rows)
      /\ \A i, j \in DOMAIN rows : i < j => key[p[i]] >= key[p[j]]
  BY <1>2, <1>3, <1>4, RowsSorted, ZenonT(60) DEF n
<1>6. \A i \in 1..n : Allocation(sorted[i]) = key[p[i]]
  BY <1>2, <1>3, <1>4 DEF Allocation
<1> QED
  BY <1>1, <1>5, <1>6 DEF sorted

\* Sorting by the largest instances does so as well.
LEMMA SortedByLargest ==
  ASSUME NEW rows \in Seq(ClassAllocationStats)
  PROVE  /\ sort_by(rows, LargerInstance) \in Rearrangements(rows)
         /\ \A i, j \in DOMAIN rows :
              i < j => Largest(sort_by(rows, LargerInstance)[i]) >= Largest(sort_by(rows, LargerInstance)[j])
<1> DEFINE n == Len(rows)
           key == [i \in 1..n |-> rows[i].largest_allocation_bytes]
<1>1. n \in Nat /\ DOMAIN rows = 1..n /\ \A i \in 1..n : rows[i] \in ClassAllocationStats
  OBVIOUS
<1>2. key \in [1..n -> Int] /\ \A i \in 1..n : key[i] = rows[i].largest_allocation_bytes
  <2>1. \A r \in ClassAllocationStats : r.largest_allocation_bytes \in Int
    BY DEF ClassAllocationStats
  <2> HIDE DEF n
  <2> QED
    BY <1>1, <2>1
<1> HIDE DEF n, key
<1>3. PICK p \in Bijection(1..n, 1..n) :
        /\ p \in [1..n -> 1..n]
        /\ sort_by(rows, LargerInstance) = [k \in 1..n |-> rows[p[k]]]
        /\ \A i, j \in 1..n : i < j => p[i] \in Ahead(n, key, p[j])
  BY <1>1, <1>2, LargestPlaces, ZenonT(60)
<1> DEFINE sorted == sort_by(rows, LargerInstance)
<1>4. sorted = [k \in 1..n |-> rows[p[k]]]
  BY <1>3
<1> HIDE DEF sorted
<1>5. /\ sorted \in Rearrangements(rows)
      /\ \A i, j \in DOMAIN rows : i < j => key[p[i]] >= key[p[j]]
  BY <1>2, <1>3, <1>4, RowsSorted, ZenonT(60) DEF n
<1>6. \A i \in 1..n : Largest(sorted[i]) = key[p[i]]
  BY <1>2, <1>3, <1>4 DEF Largest
<1> QED
  BY <1>1, <1>5, <1>6 DEF sorted

-----------------------------------------------------------------------------
(***************************************************************************)
(* What does not change when rows are rearranged.                          *)
(***************************************************************************)

\* What a bijection of a set onto itself is.
LEMMA BijectionFacts ==
  ASSUME NEW D, NEW p \in Bijection(D, D)
  PROVE  /\ p \in [D -> D] /\ \A i, j \in D : p[i] = p[j] => i = j
         /\ \A t \in D : \E i \in D : p[i] = t
<1>1. p \in [D -> D]
  BY Fun_BijectionProperties
<1>2. \A i, j \in D : p[i] = p[j] => i = j
  BY Fun_BijectionProperties
<1>3. \A t \in D : \E i \in D : p[i] = t
  BY Fun_BijectionProperties
<1> QED
  BY <1>1, <1>2, <1>3

\* A rearrangement has as many rows, of the same type, and each of them once.
LEMMA RearrangedType ==
  ASSUME NEW rows \in Seq(ClassAllocationStats), NEW r \in Rearrangements(rows)
  PROVE  /\ r \in Seq(ClassAllocationStats) /\ Len(r) = Len(rows) /\ DOMAIN r = DOMAIN rows
         /\ DOMAIN rows = 1..Len(rows) /\ Len(rows) \in Nat
         /\ \E p \in Bijection(1..Len(rows), 1..Len(rows)) : r = [k \in 1..Len(rows) |-> rows[p[k]]]
<1> DEFINE n == Len(rows)
<1>1. n \in Nat /\ DOMAIN rows = 1..n /\ \A i \in 1..n : rows[i] \in ClassAllocationStats
  OBVIOUS
<1> HIDE DEF n
<1>2. PICK p \in Bijection(1..n, 1..n) : r = [k \in 1..n |-> rows[p[k]]]
  BY <1>1, Zenon DEF Rearrangements
<1>3. p \in [1..n -> 1..n]
  BY Fun_BijectionProperties
<1>4. r \in [1..n -> ClassAllocationStats]
  BY <1>1, <1>2, <1>3
<1>5. r \in Seq(ClassAllocationStats) /\ Len(r) = n /\ DOMAIN r = 1..n
  BY <1>1, <1>4
<1> QED
  BY <1>1, <1>2, <1>5 DEF n

\* Rows that stay where they are.
LEMMA RearrangedNot ==
  ASSUME NEW rows \in Seq(ClassAllocationStats)
  PROVE  rows \in Rearrangements(rows)
<1> DEFINE D == DOMAIN rows
           p == [k \in D |-> k]
<1>1. p \in Bijection(D, D)
  <2>1. p \in [D -> D] /\ (\A a, b \in D : p[a] = p[b] => a = b) /\ \A t \in D : \E a \in D : p[a] = t
    OBVIOUS
  <2> HIDE DEF p, D
  <2> QED
    BY <2>1, Fun_IsBij
<1>2. rows = [k \in D |-> rows[p[k]]]
  OBVIOUS
<1> HIDE DEF p
<1> QED
  BY <1>1, <1>2 DEF Rearrangements

\* A sort of sorted rows is one of the rows.
LEMMA RearrangedTwice ==
  ASSUME NEW rows \in Seq(ClassAllocationStats), NEW a \in Rearrangements(rows),
         NEW b \in Rearrangements(a)
  PROVE  b \in Rearrangements(rows)
<1> DEFINE n == Len(rows)
<1>1. /\ n \in Nat /\ DOMAIN rows = 1..n /\ DOMAIN a = 1..n
      /\ \E p \in Bijection(1..n, 1..n) : a = [k \in 1..n |-> rows[p[k]]]
  BY RearrangedType
<1> HIDE DEF n
<1>2. PICK p \in Bijection(1..n, 1..n) : a = [k \in 1..n |-> rows[p[k]]]
  BY <1>1
<1>3. PICK q \in Bijection(1..n, 1..n) : b = [k \in 1..n |-> a[q[k]]]
  BY <1>1, Zenon DEF Rearrangements
<1> DEFINE pq == [k \in 1..n |-> p[q[k]]]
<1>4. pq \in Bijection(1..n, 1..n)
  BY Fun_BijTransitive
<1>5. q \in [1..n -> 1..n]
  BY Fun_BijectionProperties
<1>6. b = [k \in 1..n |-> rows[pq[k]]]
  BY <1>2, <1>3, <1>5
<1> HIDE DEF pq
<1> QED
  BY <1>1, <1>4, <1>6, Zenon DEF Rearrangements

\* There are as many rows of a kind.
LEMMA CountsKept ==
  ASSUME NEW rows \in Seq(ClassAllocationStats), NEW r \in Rearrangements(rows), NEW V
  PROVE  /\ IsFiniteSet({i \in DOMAIN r : r[i] \in V}) /\ IsFiniteSet({i \in DOMAIN rows : rows[i] \in V})
         /\ Cardinality({i \in DOMAIN r : r[i] \in V}) = Cardinality({i \in DOMAIN rows : rows[i] \in V})
<1> DEFINE n == Len(rows)
           A == {i \in 1..n : r[i] \in V}
           B == {i \in 1..n : rows[i] \in V}
<1>1. /\ n \in Nat /\ DOMAIN rows = 1..n /\ DOMAIN r = 1..n
      /\ \E p \in Bijection(1..n, 1..n) : r = [k \in 1..n |-> rows[p[k]]]
  BY RearrangedType
<1> HIDE DEF n
<1>2. PICK p \in Bijection(1..n, 1..n) : r = [k \in 1..n |-> rows[p[k]]]
  BY <1>1
<1>3. /\ p \in [1..n -> 1..n] /\ \A i, j \in 1..n : p[i] = p[j] => i = j
      /\ \A t \in 1..n : \E i \in 1..n : p[i] = t
  BY BijectionFacts, Zenon
<1> DEFINE f == [i \in A |-> p[i]]
<1>4. /\ f \in [A -> B] /\ \A i, j \in A : f[i] = f[j] => i = j
      /\ \A t \in B : \E i \in A : f[i] = t
  BY <1>2, <1>3
<1>5. A \in SUBSET (1..n) /\ B \in SUBSET (1..n)
  OBVIOUS
<1> HIDE DEF A, B, f
<1>6. f \in Bijection(A, B)
  BY <1>4, Fun_IsBij
<1>7. ExistsBijection(A, B)
  BY <1>6 DEF ExistsBijection
<1>8. IsFiniteSet(A) /\ IsFiniteSet(B)
  <2>1. IsFiniteSet(1..n)
    BY <1>1, FS_Interval
  <2> QED
    BY <1>5, <2>1, FS_Subset, Zenon
<1>9. Cardinality(B) = Cardinality(A)
  BY <1>7, <1>8, FS_Bijection
<1> QED
  BY <1>1, <1>8, <1>9 DEF A, B

\* In particular, of each row.
LEMMA CountKept ==
  ASSUME NEW rows \in Seq(ClassAllocationStats), NEW r \in Rearrangements(rows), NEW x
  PROVE  Count(r, x) = Count(rows, x)
<1>1. Cardinality({i \in DOMAIN r : r[i] \in {x}}) = Cardinality({i \in DOMAIN rows : rows[i] \in {x}})
  BY CountsKept
<1>2. {i \in DOMAIN r : r[i] \in {x}} = {i \in DOMAIN r : r[i] = x}
  OBVIOUS
<1>3. {i \in DOMAIN rows : rows[i] \in {x}} = {i \in DOMAIN rows : rows[i] = x}
  OBVIOUS
<1> QED
  BY <1>1, <1>2, <1>3 DEF Count

\* The total of the rows is the same.
LEMMA TotalKept ==
  ASSUME NEW rows \in Seq(ClassAllocationStats), NEW r \in Rearrangements(rows)
  PROVE  total_shallow_bytes(r) = total_shallow_bytes(rows)
<1> DEFINE n == Len(rows)
           s == [i \in 1..n |-> rows[i].allocation_size_bytes]
<1>1. /\ n \in Nat /\ DOMAIN rows = 1..n /\ DOMAIN r = 1..n
      /\ \E p \in Bijection(1..n, 1..n) : r = [k \in 1..n |-> rows[p[k]]]
  BY RearrangedType
<1>2. \A i \in 1..n : rows[i] \in ClassAllocationStats
  OBVIOUS
<1> HIDE DEF n
<1>3. \A i \in 1..n : rows[i].allocation_size_bytes \in Nat
  BY <1>2 DEF ClassAllocationStats
<1>4. PICK p \in Bijection(1..n, 1..n) : r = [k \in 1..n |-> rows[p[k]]]
  BY <1>1
<1>5. /\ p \in [1..n -> 1..n] /\ \A i, j \in 1..n : p[i] = p[j] => i = j
      /\ \A t \in 1..n : \E i \in 1..n : p[i] = t
  BY BijectionFacts, Zenon
<1>6. s \in [1..n -> Nat]
  BY <1>3
<1>7. [i \in 1..n |-> r[i].allocation_size_bytes] = [k \in 1..n |-> s[p[k]]]
  BY <1>4, <1>5
<1>8. total_shallow_bytes(rows) = SumOf(s)
  BY <1>1 DEF total_shallow_bytes
<1>9. total_shallow_bytes(r) = SumOf([k \in 1..n |-> s[p[k]]])
  BY <1>1, <1>7 DEF total_shallow_bytes
<1> HIDE DEF s
<1>10. s \in Seq(Nat) /\ Len(s) = n
  BY <1>1, <1>6
<1>11. SumOf([k \in 1..n |-> s[p[k]]]) = SumOf(s)
  BY <1>5, <1>10, SumRearranged
<1> QED
  BY <1>8, <1>9, <1>11

-----------------------------------------------------------------------------
(***************************************************************************)
(* What a report shows.  A key is the size that the rows are sorted by.    *)
(***************************************************************************)

\* Larger keys come first in s.
Descending(s, key) == \A i, j \in DOMAIN s : i < j => key[s[i]] >= key[s[j]]

\* The first elements of s.
LEMMA TakeAny ==
  ASSUME NEW T, NEW s \in Seq(T), NEW top \in Nat
  PROVE  \E m \in 0..Len(s) :
           /\ m = IF top < Len(s) THEN top ELSE Len(s)
           /\ take(s, top) \in Seq(T) /\ Len(take(s, top)) = m
           /\ DOMAIN take(s, top) = 1..m /\ \A i \in 1..m : take(s, top)[i] = s[i]
<1> DEFINE m == IF top < Len(s) THEN top ELSE Len(s)
<1>1. m \in 0..Len(s)
  OBVIOUS
<1>2. take(s, top) = SubSeq(s, 1, m)
  BY DEF take
<1> HIDE DEF m
<1>3. /\ SubSeq(s, 1, m) \in Seq(T) /\ Len(SubSeq(s, 1, m)) = m
      /\ DOMAIN SubSeq(s, 1, m) = 1..m /\ \A i \in 1..m : SubSeq(s, 1, m)[i] = s[i]
  BY <1>1
<1> QED
  BY <1>1, <1>2, <1>3 DEF m

\* The first rows of s.
LEMMA TakeFacts ==
  ASSUME NEW s \in Seq(ClassAllocationStats), NEW top \in Nat
  PROVE  \E m \in 0..Len(s) :
           /\ m = IF top < Len(s) THEN top ELSE Len(s)
           /\ take(s, top) \in Seq(ClassAllocationStats) /\ Len(take(s, top)) = m
           /\ DOMAIN take(s, top) = 1..m /\ \A i \in 1..m : take(s, top)[i] = s[i]
  BY TakeAny

\* The first rows of sorted rows are the largest ones.
LEMMA TopShown ==
  ASSUME NEW rows \in Seq(ClassAllocationStats), NEW s \in Rearrangements(rows), NEW top \in Nat,
         NEW key \in [ClassAllocationStats -> Nat],
         Descending(s, key)
  PROVE  /\ Len(take(s, top)) = Len(take(rows, top))
         /\ take(s, top) \in Seq(ClassAllocationStats)
         /\ \A i, j \in DOMAIN take(s, top) : i < j => key[take(s, top)[i]] >= key[take(s, top)[j]]
         /\ \A r \in Range(take(s, top)) : Count(take(s, top), r) <= Count(rows, r)
         /\ \A r \in Range(rows) :
              Count(take(s, top), r) < Count(rows, r)
                => \A i \in DOMAIN take(s, top) : key[take(s, top)[i]] >= key[r]
<1> DEFINE n == Len(rows)
           list == take(s, top)
<1>1. /\ n \in Nat /\ DOMAIN rows = 1..n /\ DOMAIN s = 1..n /\ Len(s) = n
      /\ s \in Seq(ClassAllocationStats)
  BY RearrangedType
<1>2. PICK m \in 0..n :
        /\ m = IF top < n THEN top ELSE n
        /\ list \in Seq(ClassAllocationStats) /\ Len(list) = m
        /\ DOMAIN list = 1..m /\ \A i \in 1..m : list[i] = s[i]
  <2> HIDE DEF n
  <2> QED
    BY <1>1, TakeFacts
<1>3. Len(take(rows, top)) = m
  <2>1. \E k \in 0..n : k = (IF top < n THEN top ELSE n) /\ Len(take(rows, top)) = k
    BY TakeFacts
  <2> HIDE DEF n
  <2> QED
    BY <1>2, <2>1
<1> HIDE DEF n, list
<1>4. \A i, j \in 1..n : i < j => key[s[i]] >= key[s[j]]
  BY <1>1 DEF Descending
<1>5. ASSUME NEW r
      PROVE  /\ IsFiniteSet({i \in 1..n : s[i] = r}) /\ Count(list, r) = Cardinality({i \in 1..m : s[i] = r})
             /\ Count(rows, r) = Cardinality({i \in 1..n : s[i] = r})
             /\ {i \in 1..m : s[i] = r} \in SUBSET {i \in 1..n : s[i] = r}
  <2>1. IsFiniteSet(1..n)
    BY <1>1, FS_Interval
  <2>2. {i \in 1..n : s[i] = r} \in SUBSET (1..n)
    OBVIOUS
  <2>3. IsFiniteSet({i \in 1..n : s[i] = r})
    BY <2>1, <2>2, FS_Subset, Zenon
  <2>4. Count(rows, r) = Count(s, r)
    BY CountKept
  <2>5. Count(s, r) = Cardinality({i \in 1..n : s[i] = r})
    BY <1>1 DEF Count
  <2>6. {i \in DOMAIN list : list[i] = r} = {i \in 1..m : s[i] = r}
    BY <1>2
  <2>7. 1..m \subseteq 1..n
    BY <1>1, <1>2
  <2> QED
    BY <2>3, <2>4, <2>5, <2>6, <2>7 DEF Count
<1>6. ASSUME NEW i \in DOMAIN list, NEW j \in DOMAIN list, i < j PROVE key[list[i]] >= key[list[j]]
  BY <1>1, <1>2, <1>4, <1>6
<1>7. ASSUME NEW r \in Range(list) PROVE Count(list, r) <= Count(rows, r)
  <2> DEFINE A == {i \in 1..m : s[i] = r}
             B == {i \in 1..n : s[i] = r}
  <2>1. IsFiniteSet(B) /\ Count(list, r) = Cardinality(A) /\ Count(rows, r) = Cardinality(B) /\ A \in SUBSET B
    BY <1>5
  <2> HIDE DEF A, B
  <2> QED
    BY <2>1, FS_Subset
<1>8. ASSUME NEW r \in Range(rows), Count(list, r) < Count(rows, r), NEW i \in DOMAIN list
      PROVE  key[list[i]] >= key[r]
  <2> DEFINE A == {k \in 1..m : s[k] = r}
             B == {k \in 1..n : s[k] = r}
  <2>1. IsFiniteSet(B) /\ Count(list, r) = Cardinality(A) /\ Count(rows, r) = Cardinality(B) /\ A \in SUBSET B
    BY <1>5
  <2>2. Cardinality(B) \in Nat
    BY <2>1, FS_CardinalityType
  <2>3. A # B
    <3> HIDE DEF A, B
    <3> QED
      BY <1>8, <2>1, <2>2
  <2>4. PICK k \in B : k \notin A
    BY <2>1, <2>3
  <2>5. k \in 1..n /\ s[k] = r /\ i \in 1..m /\ i < k /\ i \in 1..n
    BY <1>1, <1>2, <2>4
  <2>6. key[s[i]] >= key[s[k]]
    BY <1>4, <2>5
  <2> QED
    BY <1>2, <2>5, <2>6
<1>9. list \in Seq(ClassAllocationStats) /\ Len(list) = m
  BY <1>2
<1> QED
  BY <1>3, <1>6, <1>7, <1>8, <1>9 DEF list

\* Of two sorted rearrangements, none has a larger key at a place than the other: the
\* rows with at least that key are as many in both.
LEMMA NotLarger ==
  ASSUME NEW rows \in Seq(ClassAllocationStats), NEW a \in Rearrangements(rows),
         NEW b \in Rearrangements(rows), NEW key \in [ClassAllocationStats -> Nat],
         Descending(a, key),
         Descending(b, key),
         NEW k \in DOMAIN rows
  PROVE  key[a[k]] <= key[b[k]]
<1> SUFFICES ASSUME ~(key[a[k]] <= key[b[k]]) PROVE FALSE
  OBVIOUS
<1> DEFINE n == Len(rows)
           V == {r \in ClassAllocationStats : key[r] >= key[a[k]]}
           A == {i \in DOMAIN a : a[i] \in V}
           B == {i \in DOMAIN b : b[i] \in V}
<1>1. /\ n \in Nat /\ DOMAIN rows = 1..n /\ DOMAIN a = 1..n /\ DOMAIN b = 1..n
      /\ a \in Seq(ClassAllocationStats) /\ b \in Seq(ClassAllocationStats) /\ Len(a) = n /\ Len(b) = n
  BY RearrangedType
<1>2. \A i \in 1..n : a[i] \in ClassAllocationStats /\ b[i] \in ClassAllocationStats
  BY <1>1
<1> HIDE DEF n
<1>3. \A i \in 1..n : key[a[i]] \in Nat /\ key[b[i]] \in Nat
  BY <1>2
<1>4. k \in 1..n /\ k \in Nat /\ k - 1 \in Nat
  BY <1>1
<1>5. 1..k \in SUBSET A
  <2> SUFFICES ASSUME NEW i \in 1..k PROVE i \in A
    OBVIOUS
  <2>1. i \in 1..n
    BY <1>1, <1>4
  <2>2. key[a[i]] >= key[a[k]]
    <3>1. CASE i = k
      <4>1. key[a[k]] \in Nat
        BY <1>3, <1>4
      <4> QED
        BY <3>1, <4>1
    <3>2. CASE i < k
      BY <1>1, <1>4, <2>1, <3>2 DEF Descending
    <3> QED
      BY <1>4, <3>1, <3>2
  <2> QED
    BY <1>1, <1>2, <2>1, <2>2
<1>6. B \in SUBSET (1..(k - 1))
  <2> SUFFICES ASSUME NEW i \in B, i \notin 1..(k - 1) PROVE FALSE
    OBVIOUS
  <2>1. i \in 1..n /\ key[b[i]] >= key[a[k]]
    BY <1>1
  <2>2. i = k \/ k < i
    BY <1>4, <2>1
  <2>4. key[b[i]] \in Nat /\ key[a[k]] \in Nat /\ key[b[k]] \in Nat
    BY <1>3, <1>4, <2>1
  <2>3. key[b[k]] >= key[b[i]]
    <3>1. CASE i = k
      BY <2>4, <3>1
    <3>2. CASE k < i
      BY <1>1, <1>4, <2>1, <3>2 DEF Descending
    <3> QED
      BY <2>2, <3>1, <3>2
  <2> QED
    BY <2>1, <2>3, <2>4, SMTT(30)
<1> DEFINE R == {i \in DOMAIN rows : rows[i] \in V}
<1>7. /\ IsFiniteSet(A) /\ IsFiniteSet(R) /\ Cardinality(A) = Cardinality(R)
      /\ IsFiniteSet(B) /\ Cardinality(B) = Cardinality(R)
  <2> HIDE DEF V
  <2>1. IsFiniteSet(A) /\ IsFiniteSet(R) /\ Cardinality(A) = Cardinality(R)
    BY CountsKept
  <2>2. IsFiniteSet(B) /\ Cardinality(B) = Cardinality(R)
    BY CountsKept
  <2> QED
    BY <2>1, <2>2
<1> HIDE DEF A, B, R, V
<1>8. IsFiniteSet(1..k) /\ Cardinality(1..k) = k
  BY <1>4, FS_Interval
<1>9. IsFiniteSet(1..(k - 1)) /\ Cardinality(1..(k - 1)) = k - 1
  BY <1>4, FS_Interval, SMTT(30)
<1>10. Cardinality(1..k) <= Cardinality(A)
  BY <1>5, <1>7, FS_Subset
<1>11. Cardinality(B) <= Cardinality(1..(k - 1))
  BY <1>6, <1>9, FS_Subset
<1>12. Cardinality(A) \in Nat /\ Cardinality(B) = Cardinality(A)
  BY <1>7, FS_CardinalityType
<1> QED
  BY <1>4, <1>8, <1>9, <1>10, <1>11, <1>12

\* Two sorted rearrangements have the same keys, place by place.
LEMMA SameKeys ==
  ASSUME NEW rows \in Seq(ClassAllocationStats), NEW a \in Rearrangements(rows),
         NEW b \in Rearrangements(rows), NEW key \in [ClassAllocationStats -> Nat],
         Descending(a, key),
         Descending(b, key),
         NEW top \in Nat
  PROVE  /\ DOMAIN take(a, top) = DOMAIN take(b, top)
         /\ \A k \in DOMAIN take(a, top) : key[take(a, top)[k]] = key[take(b, top)[k]]
<1> DEFINE n == Len(rows)
<1>1. /\ n \in Nat /\ DOMAIN rows = 1..n
      /\ a \in Seq(ClassAllocationStats) /\ b \in Seq(ClassAllocationStats) /\ Len(a) = n /\ Len(b) = n
  BY RearrangedType
<1>2. \A i \in 1..n : a[i] \in ClassAllocationStats /\ b[i] \in ClassAllocationStats
  BY <1>1
<1> HIDE DEF n
<1>3. ASSUME NEW k \in 1..n PROVE key[a[k]] = key[b[k]]
  <2>1. key[a[k]] <= key[b[k]]
    BY <1>1, NotLarger
  <2>2. key[b[k]] <= key[a[k]]
    BY <1>1, NotLarger
  <2>3. key[a[k]] \in Nat /\ key[b[k]] \in Nat
    BY <1>2
  <2> QED
    BY <2>1, <2>2, <2>3
<1>4. PICK m \in 0..n :
        /\ m = IF top < n THEN top ELSE n
        /\ DOMAIN take(a, top) = 1..m /\ \A i \in 1..m : take(a, top)[i] = a[i]
  <2>1. PICK x \in 0..Len(a) :
          /\ x = IF top < Len(a) THEN top ELSE Len(a)
          /\ DOMAIN take(a, top) = 1..x /\ \A i \in 1..x : take(a, top)[i] = a[i]
    BY <1>1, TakeFacts, Zenon
  <2> QED
    BY <1>1, <2>1
<1>5. PICK l \in 0..n :
        /\ l = IF top < n THEN top ELSE n
        /\ DOMAIN take(b, top) = 1..l /\ \A i \in 1..l : take(b, top)[i] = b[i]
  <2>1. PICK x \in 0..Len(b) :
          /\ x = IF top < Len(b) THEN top ELSE Len(b)
          /\ DOMAIN take(b, top) = 1..x /\ \A i \in 1..x : take(b, top)[i] = b[i]
    BY <1>1, TakeFacts, Zenon
  <2> QED
    BY <1>1, <2>1
<1>6. l = m /\ 1..m \subseteq 1..n
  BY <1>1, <1>4, <1>5
<1> QED
  BY <1>3, <1>4, <1>5, <1>6

\* The sizes as functions of a row.
ByAllocation == [r \in ClassAllocationStats |-> Allocation(r)]
ByLargest == [r \in ClassAllocationStats |-> Largest(r)]

\* The sort keys of the rows are numbers.
LEMMA KeyTypes ==
  /\ ByAllocation \in [ClassAllocationStats -> Nat] /\ ByLargest \in [ClassAllocationStats -> Nat]
  /\ \A r \in ClassAllocationStats : ByAllocation[r] = Allocation(r) /\ ByLargest[r] = Largest(r)
<1>1. \A r \in ClassAllocationStats : Allocation(r) \in Nat /\ Largest(r) \in Nat
  BY DEF ClassAllocationStats, Allocation, Largest
<1> QED
  BY <1>1 DEF ByAllocation, ByLargest

\* Both sorts of a report leave rearrangements of the rows of the dump, in order.
LEMMA ReportSorts ==
  ASSUME NEW rows \in Seq(ClassAllocationStats), NEW r \in Rearrangements(rows),
         NEW allocated, allocated = sort_by(r, MoreAllocated),
         NEW largest, largest = sort_by(allocated, LargerInstance)
  PROVE  /\ allocated \in Rearrangements(rows) /\ largest \in Rearrangements(rows)
         /\ Descending(allocated, ByAllocation)
         /\ Descending(largest, ByLargest)
<1>1. r \in Seq(ClassAllocationStats) /\ DOMAIN r = DOMAIN rows
  BY RearrangedType
<1>2. /\ allocated \in Rearrangements(r)
      /\ \A i, j \in DOMAIN r : i < j => Allocation(allocated[i]) >= Allocation(allocated[j])
  BY <1>1, SortedByAllocation
<1>3. allocated \in Rearrangements(rows)
  BY <1>2, RearrangedTwice
<1>4. allocated \in Seq(ClassAllocationStats) /\ DOMAIN allocated = DOMAIN rows
  BY <1>3, RearrangedType
<1>5. /\ largest \in Rearrangements(allocated)
      /\ \A i, j \in DOMAIN allocated : i < j => Largest(largest[i]) >= Largest(largest[j])
  BY <1>4, SortedByLargest
<1>6. largest \in Rearrangements(rows)
  BY <1>3, <1>5, RearrangedTwice
<1>7. largest \in Seq(ClassAllocationStats) /\ DOMAIN largest = DOMAIN rows
  BY <1>6, RearrangedType
<1>8. \A i \in DOMAIN rows : /\ ByAllocation[allocated[i]] = Allocation(allocated[i])
                             /\ ByLargest[largest[i]] = Largest(largest[i])
  <2>1. \A i \in DOMAIN rows : allocated[i] \in ClassAllocationStats /\ largest[i] \in ClassAllocationStats
    BY <1>4, <1>7
  <2> QED
    BY <2>1, KeyTypes
<1>9. Descending(allocated, ByAllocation)
  BY <1>1, <1>2, <1>4, <1>8 DEF Descending
<1>10. Descending(largest, ByLargest)
  BY <1>4, <1>5, <1>7, <1>8 DEF Descending
<1> QED
  BY <1>3, <1>6, <1>9, <1>10

\* The text made of rearranged rows is faithful to the rows of the dump.
LEMMA TextFaithful ==
  ASSUME NEW rows \in Seq(ClassAllocationStats), NEW r \in Rearrangements(rows), NEW top \in Nat,
         NEW m, m = render_memory_usage(r, top)
  PROVE  /\ m.total = total_shallow_bytes(rows)
         /\ ShowsTop(m.tops.top_allocated_classes, rows, top, Allocation)
         /\ ShowsTop(m.tops.top_largest_instances, rows, top, Largest)
<1> DEFINE allocated == sort_by(r, MoreAllocated)
           largest == sort_by(allocated, LargerInstance)
           tops == Tops(allocated, largest, top)
<1>1. m = [total |-> total_shallow_bytes(r), tops |-> tops]
  BY Zenon DEF render_memory_usage
<1>2. /\ allocated \in Rearrangements(rows) /\ largest \in Rearrangements(rows)
      /\ Descending(allocated, ByAllocation)
      /\ Descending(largest, ByLargest)
  <2> HIDE DEF allocated, largest
  <2> QED
    BY ReportSorts DEF allocated, largest
<1> HIDE DEF allocated, largest
<1>3. m.total = total_shallow_bytes(rows)
  <2> HIDE DEF tops
  <2> QED
    BY <1>1, TotalKept
<1>4. m.tops.top_allocated_classes = take(allocated, top) /\ m.tops.top_largest_instances = take(largest, top)
  BY <1>1 DEF Tops
<1>5. \A i \in DOMAIN rows : rows[i] \in ClassAllocationStats
  OBVIOUS
<1>6. ASSUME NEW list, list \in Seq(ClassAllocationStats)
      PROVE  \A i \in DOMAIN list : list[i] \in ClassAllocationStats
  BY <1>6
<1>7. \A x \in Range(rows) : x \in ClassAllocationStats
  BY <1>5 DEF Range
<1>8. ShowsTop(take(allocated, top), rows, top, Allocation)
  <2> DEFINE list == take(allocated, top)
  <2>1. /\ Len(list) = Len(take(rows, top)) /\ list \in Seq(ClassAllocationStats)
        /\ \A i, j \in DOMAIN list : i < j => ByAllocation[list[i]] >= ByAllocation[list[j]]
        /\ \A x \in Range(list) : Count(list, x) <= Count(rows, x)
        /\ \A x \in Range(rows) : Count(list, x) < Count(rows, x)
             => \A i \in DOMAIN list : ByAllocation[list[i]] >= ByAllocation[x]
    BY <1>2, KeyTypes, TopShown
  <2> HIDE DEF list
  <2>2. \A i \in DOMAIN list : ByAllocation[list[i]] = Allocation(list[i])
    BY <1>6, <2>1, KeyTypes
  <2>3. \A x \in Range(rows) : ByAllocation[x] = Allocation(x)
    BY <1>7, KeyTypes
  <2>4. ShowsTop(list, rows, top, Allocation)
    BY <2>1, <2>2, <2>3 DEF ShowsTop
  <2> QED
    BY <2>4 DEF list
<1>9. ShowsTop(take(largest, top), rows, top, Largest)
  <2> DEFINE list == take(largest, top)
  <2>1. /\ Len(list) = Len(take(rows, top)) /\ list \in Seq(ClassAllocationStats)
        /\ \A i, j \in DOMAIN list : i < j => ByLargest[list[i]] >= ByLargest[list[j]]
        /\ \A x \in Range(list) : Count(list, x) <= Count(rows, x)
        /\ \A x \in Range(rows) : Count(list, x) < Count(rows, x)
             => \A i \in DOMAIN list : ByLargest[list[i]] >= ByLargest[x]
    BY <1>2, KeyTypes, TopShown
  <2> HIDE DEF list
  <2>2. \A i \in DOMAIN list : ByLargest[list[i]] = Largest(list[i])
    BY <1>6, <2>1, KeyTypes
  <2>3. \A x \in Range(rows) : ByLargest[x] = Largest(x)
    BY <1>7, KeyTypes
  <2>4. ShowsTop(list, rows, top, Largest)
    BY <2>1, <2>2, <2>3 DEF ShowsTop
  <2> QED
    BY <2>4 DEF list
<1> QED
  BY <1>3, <1>4, <1>8, <1>9

\* What the JSON result is made of, and that it leaves a rearrangement of the rows.
LEMMA JsonFacts ==
  ASSUME NEW rows \in Seq(ClassAllocationStats), NEW r \in Rearrangements(rows), NEW top \in Nat
  PROVE  /\ JsonHeap(r, top).rows \in Rearrangements(rows)
         /\ JsonHeap(r, top).heap.total = total_shallow_bytes(rows)
         /\ JsonHeap(r, top).heap.class_count = Len(rows)
         /\ \E allocated, largest \in Rearrangements(rows) :
              /\ Descending(allocated, ByAllocation)
              /\ Descending(largest, ByLargest)
              /\ JsonHeap(r, top).heap.tops.top_allocated_classes = take(allocated, top)
              /\ JsonHeap(r, top).heap.tops.top_largest_instances = take(largest, top)
<1> DEFINE allocated == sort_by(r, MoreAllocated)
           largest == sort_by(allocated, LargerInstance)
           j == JsonHeap(r, top)
<1>1. j = [heap |-> [total |-> total_shallow_bytes(r), class_count |-> Len(r),
                     tops |-> Tops(allocated, largest, top)],
           rows |-> largest]
  BY Zenon DEF JsonHeap
<1>2. /\ allocated \in Rearrangements(rows) /\ largest \in Rearrangements(rows)
      /\ Descending(allocated, ByAllocation)
      /\ Descending(largest, ByLargest)
  <2> HIDE DEF allocated, largest
  <2> QED
    BY ReportSorts DEF allocated, largest
<1> HIDE DEF allocated, largest, j
<1>3. Len(r) = Len(rows) /\ total_shallow_bytes(r) = total_shallow_bytes(rows)
  BY RearrangedType, TotalKept
<1>4. /\ j.rows = largest /\ j.heap.total = total_shallow_bytes(rows) /\ j.heap.class_count = Len(rows)
      /\ j.heap.tops.top_allocated_classes = take(allocated, top)
      /\ j.heap.tops.top_largest_instances = take(largest, top)
  BY <1>1, <1>3 DEF Tops
<1>5. /\ j.rows \in Rearrangements(rows) /\ j.heap.total = total_shallow_bytes(rows)
      /\ j.heap.class_count = Len(rows)
  BY <1>2, <1>4
<1>6. \E al, lg \in Rearrangements(rows) :
        /\ Descending(al, ByAllocation)
        /\ Descending(lg, ByLargest)
        /\ j.heap.tops.top_allocated_classes = take(al, top)
        /\ j.heap.tops.top_largest_instances = take(lg, top)
  BY <1>2, <1>4, Zenon
<1> QED
  BY <1>5, <1>6, Zenon DEF j

\* The JSON result has a length.
LEMMA JsonHasLength ==
  ASSUME NEW rows \in Seq(ClassAllocationStats), NEW r \in Rearrangements(rows), NEW top \in Nat,
         NEW j, j.heap = JsonHeap(r, top).heap
  PROVE  JsonLength(j) \in Nat
<1>1. PICK allocated \in Rearrangements(rows), largest \in Rearrangements(rows) :
        /\ j.heap.tops.top_allocated_classes = take(allocated, top)
        /\ j.heap.tops.top_largest_instances = take(largest, top)
  BY JsonFacts
<1>2. allocated \in Seq(ClassAllocationStats) /\ largest \in Seq(ClassAllocationStats)
  BY RearrangedType
<1>3. take(allocated, top) \in Seq(ClassAllocationStats) /\ take(largest, top) \in Seq(ClassAllocationStats)
  BY <1>2, TakeFacts, Zenon
<1> DEFINE a == take(allocated, top)
           b == take(largest, top)
<1>4. Len(a) \in Nat /\ Len(b) \in Nat
  <2> HIDE DEF a, b
  <2> QED
    BY <1>3 DEF a, b
<1>5. JsonLength(j) = 1 + Len(a) + Len(b)
  BY <1>1, Zenon DEF JsonLength
<1> HIDE DEF a, b
<1> QED
  BY <1>4, <1>5

\* The text and the JSON result agree, from whichever rearrangements they are made.
LEMMA TextLikeJson ==
  ASSUME NEW rows \in Seq(ClassAllocationStats), NEW r \in Rearrangements(rows),
         NEW q \in Rearrangements(rows), NEW top \in Nat,
         NEW m, m = render_memory_usage(r, top), NEW h, h = JsonHeap(q, top).heap
  PROVE  /\ h.total = m.total /\ h.class_count = Len(rows)
         /\ [k \in DOMAIN h.tops.top_allocated_classes |-> Allocation(h.tops.top_allocated_classes[k])]
              = [k \in DOMAIN m.tops.top_allocated_classes |-> Allocation(m.tops.top_allocated_classes[k])]
         /\ [k \in DOMAIN h.tops.top_largest_instances |-> Largest(h.tops.top_largest_instances[k])]
              = [k \in DOMAIN m.tops.top_largest_instances |-> Largest(m.tops.top_largest_instances[k])]
<1>1. m.total = total_shallow_bytes(rows)
  BY TextFaithful
<1>2. h.total = total_shallow_bytes(rows) /\ h.class_count = Len(rows)
  BY JsonFacts
<1>3. PICK allocated \in Rearrangements(rows), largest \in Rearrangements(rows) :
        /\ Descending(allocated, ByAllocation)
        /\ Descending(largest, ByLargest)
        /\ h.tops.top_allocated_classes = take(allocated, top)
        /\ h.tops.top_largest_instances = take(largest, top)
  BY JsonFacts
<1>4. PICK al \in Rearrangements(rows), lg \in Rearrangements(rows) :
        /\ Descending(al, ByAllocation)
        /\ Descending(lg, ByLargest)
        /\ m.tops.top_allocated_classes = take(al, top)
        /\ m.tops.top_largest_instances = take(lg, top)
  <2> DEFINE al == sort_by(r, MoreAllocated)
             lg == sort_by(al, LargerInstance)
  <2>1. m = [total |-> total_shallow_bytes(r), tops |-> Tops(al, lg, top)]
    BY Zenon DEF render_memory_usage
  <2> HIDE DEF al, lg
  <2>2. /\ al \in Rearrangements(rows) /\ lg \in Rearrangements(rows)
        /\ Descending(al, ByAllocation)
        /\ Descending(lg, ByLargest)
    BY ReportSorts DEF al, lg
  <2>3. m.tops.top_allocated_classes = take(al, top) /\ m.tops.top_largest_instances = take(lg, top)
    BY <2>1 DEF Tops
  <2> QED
    BY <2>2, <2>3, Zenon
<1>5. /\ DOMAIN take(allocated, top) = DOMAIN take(al, top)
      /\ \A k \in DOMAIN take(allocated, top) :
           ByAllocation[take(allocated, top)[k]] = ByAllocation[take(al, top)[k]]
  <2>1. Descending(allocated, ByAllocation) /\ Descending(al, ByAllocation)
    BY <1>3, <1>4
  <2>2. ByAllocation \in [ClassAllocationStats -> Nat]
    BY KeyTypes
  <2> QED
    BY <2>1, <2>2, SameKeys, ZenonT(60)
<1>6. /\ DOMAIN take(largest, top) = DOMAIN take(lg, top)
      /\ \A k \in DOMAIN take(largest, top) :
           ByLargest[take(largest, top)[k]] = ByLargest[take(lg, top)[k]]
  <2>1. Descending(largest, ByLargest) /\ Descending(lg, ByLargest)
    BY <1>3, <1>4
  <2>2. ByLargest \in [ClassAllocationStats -> Nat]
    BY KeyTypes
  <2> QED
    BY <2>1, <2>2, SameKeys, ZenonT(60)
<1>7. ASSUME NEW s \in Rearrangements(rows)
      PROVE  \A k \in DOMAIN take(s, top) : take(s, top)[k] \in ClassAllocationStats
  <2>1. s \in Seq(ClassAllocationStats)
    BY RearrangedType
  <2>2. take(s, top) \in Seq(ClassAllocationStats)
    BY <2>1, TakeFacts, Zenon
  <2> DEFINE t == take(s, top)
  <2> HIDE DEF t
  <2> QED
    BY <2>2 DEF t
<1>8. \A k \in DOMAIN take(allocated, top) : Allocation(take(allocated, top)[k]) = Allocation(take(al, top)[k])
  BY <1>5, <1>7, KeyTypes
<1>9. \A k \in DOMAIN take(largest, top) : Largest(take(largest, top)[k]) = Largest(take(lg, top)[k])
  BY <1>6, <1>7, KeyTypes
<1>10. [k \in DOMAIN h.tops.top_allocated_classes |-> Allocation(h.tops.top_allocated_classes[k])]
         = [k \in DOMAIN m.tops.top_allocated_classes |-> Allocation(m.tops.top_allocated_classes[k])]
  BY <1>3, <1>4, <1>5, <1>8
<1>11. [k \in DOMAIN h.tops.top_largest_instances |-> Largest(h.tops.top_largest_instances[k])]
         = [k \in DOMAIN m.tops.top_largest_instances |-> Largest(m.tops.top_largest_instances[k])]
  BY <1>3, <1>4, <1>6, <1>9
<1> QED
  BY <1>1, <1>2, <1>10, <1>11

-----------------------------------------------------------------------------
(***************************************************************************)
(* A diff.  What BytesOf and InstancesOf say of the rows f and t of two    *)
(* dumps is what the entries have.                                         *)
(***************************************************************************)

\* The numbers of all rows, and of a name, are numbers; a name without rows has none.
LEMMA NameSums ==
  ASSUME NEW rows \in Seq(ClassAllocationStats), NEW x
  PROVE  /\ BytesOf(rows, x) \in Nat /\ InstancesOf(rows, x) \in Nat
         /\ x \notin ClassNames(rows) => BytesOf(rows, x) = 0 /\ InstancesOf(rows, x) = 0
<1> DEFINE n == Len(rows)
           b == [i \in 1..n |-> IF rows[i].class_name = x THEN rows[i].allocation_size_bytes ELSE 0]
           c == [i \in 1..n |-> IF rows[i].class_name = x THEN rows[i].instance_count ELSE 0]
<1>1. n \in Nat /\ DOMAIN rows = 1..n /\ \A i \in 1..n : rows[i] \in ClassAllocationStats
  OBVIOUS
<1>2. \A r \in ClassAllocationStats : r.allocation_size_bytes \in Nat /\ r.instance_count \in Nat
  BY DEF ClassAllocationStats
<1>3. BytesOf(rows, x) = SumOf(b) /\ InstancesOf(rows, x) = SumOf(c)
  BY <1>1 DEF BytesOf, InstancesOf
<1>4. b \in [1..n -> Nat] /\ c \in [1..n -> Nat]
  <2> HIDE DEF n
  <2> QED
    BY <1>1, <1>2
<1>5. ASSUME x \notin ClassNames(rows) PROVE \A i \in 1..n : b[i] = 0 /\ c[i] = 0
  BY <1>1, <1>5 DEF ClassNames
<1> HIDE DEF b, c, n
<1>6. b \in Seq(Nat) /\ Len(b) = n /\ c \in Seq(Nat) /\ Len(c) = n
  BY <1>1, <1>4
<1>7. SumOf(b) \in Nat /\ SumOf(c) \in Nat
  <2>1. n \in 0..n
    BY <1>1
  <2> QED
    BY <1>6, <2>1, SumIsNat DEF SumOf
<1>8. ASSUME x \notin ClassNames(rows) PROVE SumOf(b) = 0 /\ SumOf(c) = 0
  BY <1>5, <1>6, <1>8, SumOfNoughts
<1> QED
  BY <1>3, <1>7, <1>8

\* What HashMap::get returns, or its default, is what the rows of the name have.
LEMMA TotalsOfName ==
  ASSUME NEW rows \in Seq(ClassAllocationStats), NEW x
  PROVE  /\ DOMAIN totals_by_class_name(rows) = ClassNames(rows)
         /\ TotalOr0(totals_by_class_name(rows), x)
              = [instances |-> InstancesOf(rows, x), bytes |-> BytesOf(rows, x)]
<1>1. totals_by_class_name(rows)
        = [n \in ClassNames(rows) |-> [instances |-> InstancesOf(rows, n), bytes |-> BytesOf(rows, n)]]
  BY Zenon DEF totals_by_class_name, InstancesOf, BytesOf
<1> QED
  BY <1>1, NameSums DEF TotalOr0

\* The entry of a class name.
EntryOf(f, t, x) ==
  [class_name |-> x, instances_from |-> InstancesOf(f, x), instances_to |-> InstancesOf(t, x),
   bytes_from |-> BytesOf(f, x), bytes_to |-> BytesOf(t, x)]

EntriesFor(f, t, N) == {EntryOf(f, t, x) : x \in N}

\* What a class name has grown by, and the names that changed.
GrowthIn(f, t, x) == BytesOf(t, x) - BytesOf(f, x)
ChangedIn(f, t) ==
  {x \in ClassNames(f) \cup ClassNames(t) :
     GrowthIn(f, t, x) # 0 \/ InstancesOf(t, x) # InstancesOf(f, x)}

\* The entry of a class name in a diff has that name and the sizes of the two dumps.
LEMMA EntryFacts ==
  ASSUME NEW f \in Seq(ClassAllocationStats), NEW t \in Seq(ClassAllocationStats), NEW x
  PROVE  /\ EntryOf(f, t, x).class_name = x
         /\ delta_bytes(EntryOf(f, t, x)) = GrowthIn(f, t, x) /\ GrowthIn(f, t, x) \in Int
         /\ EntryOf(f, t, x).instances_to = InstancesOf(t, x)
         /\ Changed(EntryOf(f, t, x)) <=> GrowthIn(f, t, x) # 0 \/ InstancesOf(t, x) # InstancesOf(f, x)
<1> DEFINE e == EntryOf(f, t, x)
<1>1. /\ e.class_name = x /\ e.instances_to = InstancesOf(t, x) /\ e.instances_from = InstancesOf(f, x)
      /\ e.bytes_to = BytesOf(t, x) /\ e.bytes_from = BytesOf(f, x)
  BY DEF EntryOf
<1>2. /\ BytesOf(f, x) \in Nat /\ BytesOf(t, x) \in Nat /\ InstancesOf(f, x) \in Nat
      /\ InstancesOf(t, x) \in Nat
  BY NameSums
<1> HIDE DEF e
<1>3. delta_bytes(e) = GrowthIn(f, t, x) /\ GrowthIn(f, t, x) \in Int
  BY <1>1, <1>2 DEF delta_bytes, GrowthIn
<1>4. delta_instances(e) # 0 <=> InstancesOf(t, x) # InstancesOf(f, x)
  BY <1>1, <1>2 DEF delta_instances
<1> QED
  BY <1>1, <1>3, <1>4 DEF e, Changed

\* The entries that are kept are those of the names that changed.
LEMMA EntriesKept ==
  ASSUME NEW f \in Seq(ClassAllocationStats), NEW t \in Seq(ClassAllocationStats)
  PROVE  {e \in Entries(f, t) : Changed(e)} = EntriesFor(f, t, ChangedIn(f, t))
<1>1. Entries(f, t) = {EntryOf(f, t, x) : x \in ClassNames(f) \cup ClassNames(t)}
  <2>1. \A x : Entry(totals_by_class_name(f), totals_by_class_name(t), x) = EntryOf(f, t, x)
    BY TotalsOfName DEF Entry, EntryOf
  <2>2. /\ DOMAIN totals_by_class_name(f) = ClassNames(f)
        /\ DOMAIN totals_by_class_name(t) = ClassNames(t)
    BY TotalsOfName
  <2> QED
    BY <2>1, <2>2 DEF Entries
<1>2. \A x : Changed(EntryOf(f, t, x)) <=> GrowthIn(f, t, x) # 0 \/ InstancesOf(t, x) # InstancesOf(f, x)
  BY EntryFacts
<1> QED
  BY <1>1, <1>2 DEF ChangedIn, EntriesFor

\* Class names are finitely many, and numbers.
LEMMA NamesFinite ==
  ASSUME NEW rows \in Seq(ClassAllocationStats)
  PROVE  IsFiniteSet(ClassNames(rows)) /\ ClassNames(rows) \in SUBSET Nat
<1> DEFINE n == Len(rows)
           g == [i \in 1..n |-> rows[i].class_name]
<1>1. n \in Nat /\ DOMAIN rows = 1..n /\ \A i \in 1..n : rows[i] \in ClassAllocationStats
  OBVIOUS
<1> HIDE DEF n
<1>2. \A i \in 1..n : rows[i].class_name \in Nat
  BY <1>1 DEF ClassAllocationStats
<1>3. ClassNames(rows) \in SUBSET Nat
  BY <1>1, <1>2 DEF ClassNames
<1>4. g \in [1..n -> ClassNames(rows)] /\ \A x \in ClassNames(rows) : \E i \in 1..n : g[i] = x
  BY <1>1 DEF ClassNames
<1> HIDE DEF g
<1>5. g \in Surjection(1..n, ClassNames(rows))
  BY <1>4, Fun_IsSurj
<1>6. IsFiniteSet(1..n)
  BY <1>1, FS_Interval
<1> QED
  BY <1>3, <1>5, <1>6, FS_Surjection

\* Different elements of A have different values.
InjectiveOn(h, A) == \A a, b \in A : h[a] = h[b] => a = b
ValuesOn(h, A) == {h[a] : a \in A}

\* As many values as elements.
LEMMA ImageCount ==
  ASSUME NEW A, IsFiniteSet(A), NEW h, InjectiveOn(h, A)
  PROVE  Cardinality(ValuesOn(h, A)) = Cardinality(A)
<1> DEFINE P == {h[a] : a \in A}
           g == [a \in A |-> h[a]]
<1>1. g \in [A -> P] /\ (\A a, b \in A : g[a] = g[b] => a = b) /\ \A y \in P : \E a \in A : g[a] = y
  BY DEF InjectiveOn
<1> HIDE DEF P, g
<1>2. g \in Bijection(A, P)
  BY <1>1, Fun_IsBij
<1>3. ExistsBijection(A, P)
  BY <1>2 DEF ExistsBijection
<1>4. Cardinality(P) = Cardinality(A)
  BY <1>3, FS_Bijection
<1> QED
  BY <1>4 DEF P, ValuesOn

\* The entries of the names N, in the order of the names.
InOrder(f, t, N, entries, n, names) ==
  /\ n = Cardinality(N) /\ entries = [k \in 1..n |-> EntryOf(f, t, names[k])]
  /\ \A i, j \in 1..n : i < j => names[i] < names[j]
  /\ \A x \in N : \E k \in 1..n : names[k] = x

\* ByName is that order.
LEMMA EntriesByName ==
  ASSUME NEW f \in Seq(ClassAllocationStats), NEW t \in Seq(ClassAllocationStats),
         NEW N, IsFiniteSet(N), N \in SUBSET Nat, NEW S, S = EntriesFor(f, t, N)
  PROVE  \E n \in Nat : \E names \in [1..n -> N] : InOrder(f, t, N, ByName(S), n, names)
<1>1. PICK n \in Nat : ExistsBijection(1..n, N)
  BY FS_NatBijection
<1>2. PICK g : g \in Bijection(1..n, N)
  BY <1>1 DEF ExistsBijection
<1>3. n = Cardinality(N)
  BY <1>1, FS_CountingElements
<1>4. /\ g \in [1..n -> N] /\ (\A i, j \in 1..n : g[i] = g[j] => i = j)
      /\ \A x \in N : \E i \in 1..n : g[i] = x
  BY <1>2, Fun_BijectionProperties
<1>5. \A i \in 1..n : g[i] \in N /\ g[i] \in Nat
  BY <1>4
<1> DEFINE h == [i \in 1..n |-> EntryOf(f, t, g[i])]
           key == [i \in 1..n |-> -g[i]]
<1>6. /\ \A i \in 1..n : h[i] = EntryOf(f, t, g[i]) /\ h[i].class_name = g[i]
      /\ \A i \in 1..n : key[i] = -g[i]
  BY EntryFacts
<1>7. key \in [1..n -> Int]
  BY <1>5
<1> HIDE DEF h, key
<1>8. S = ValuesOn(h, 1..n)
  <2>1. \A i \in 1..n : h[i] \in S
    BY <1>5, <1>6 DEF EntriesFor
  <2>2. ASSUME NEW e \in S PROVE \E i \in 1..n : e = h[i]
    <3>1. PICK x \in N : e = EntryOf(f, t, x)
      BY DEF EntriesFor
    <3>2. PICK i \in 1..n : g[i] = x
      BY <1>4
    <3> QED
      BY <1>6, <3>1, <3>2
  <2> QED
    BY <2>1, <2>2 DEF ValuesOn
<1>9. \A A \in SUBSET (1..n) : InjectiveOn(h, A) /\ IsFiniteSet(A)
  <2>1. \A i, j \in 1..n : h[i] = h[j] => i = j
    BY <1>4, <1>6
  <2>2. IsFiniteSet(1..n)
    BY FS_Interval
  <2> QED
    BY <2>1, <2>2, FS_Subset DEF InjectiveOn
<1>10. Cardinality(S) = n
  <2>1. InjectiveOn(h, 1..n) /\ IsFiniteSet(1..n)
    BY <1>9
  <2>2. Cardinality(1..n) = n
    BY FS_Interval
  <2> QED
    BY <1>8, <2>1, <2>2, ImageCount
<1>11. PICK p \in Bijection(1..n, 1..n) :
         /\ \A i, k \in 1..n : Cardinality(Ahead(n, key, i)) = k - 1 <=> i = p[k]
         /\ \A i, j \in 1..n : i < j => p[i] \in Ahead(n, key, p[j])
  BY <1>7, PlacesExist
<1>12. p \in [1..n -> 1..n] /\ \A i \in 1..n : \E k \in 1..n : p[k] = i
  BY BijectionFacts
<1>13. \A i, j \in 1..n : j \in Ahead(n, key, i) <=> g[j] < g[i]
  <2> SUFFICES ASSUME NEW i \in 1..n, NEW j \in 1..n PROVE j \in Ahead(n, key, i) <=> g[j] < g[i]
    OBVIOUS
  <2>1. g[i] \in Nat /\ g[j] \in Nat /\ key[i] = -g[i] /\ key[j] = -g[j] /\ (g[i] = g[j] => i = j)
    BY <1>4, <1>5, <1>6
  <2> QED
    BY <2>1 DEF Ahead
<1>14. ASSUME NEW i \in 1..n
       PROVE  Cardinality({x \in S : NameFirst(x, h[i])}) = Cardinality(Ahead(n, key, i))
  <2>1. Ahead(n, key, i) \in SUBSET (1..n)
    BY DEF Ahead
  <2>2. \A j \in 1..n : NameFirst(h[j], h[i]) <=> j \in Ahead(n, key, i)
    BY <1>6, <1>13 DEF NameFirst
  <2>3. {x \in S : NameFirst(x, h[i])} = ValuesOn(h, Ahead(n, key, i))
    BY <1>8, <2>1, <2>2 DEF ValuesOn
  <2>4. InjectiveOn(h, Ahead(n, key, i)) /\ IsFiniteSet(Ahead(n, key, i))
    BY <1>9, <2>1
  <2> QED
    BY <2>3, <2>4, ImageCount
<1> DEFINE Kth(k) == CHOOSE e \in S : Cardinality({x \in S : NameFirst(x, e)}) = k - 1
<1>15. ASSUME NEW k \in 1..n PROVE Kth(k) = h[p[k]]
  <2>1. p[k] \in 1..n /\ h[p[k]] \in S
    BY <1>8, <1>12 DEF ValuesOn
  <2>2. \A i \in 1..n : Cardinality({x \in S : NameFirst(x, h[i])}) = k - 1 <=> i = p[k]
    <3> SUFFICES ASSUME NEW i \in 1..n
                 PROVE  Cardinality({x \in S : NameFirst(x, h[i])}) = k - 1 <=> i = p[k]
      OBVIOUS
    <3>1. Cardinality(Ahead(n, key, i)) = k - 1 <=> i = p[k]
      BY <1>11
    <3> QED
      BY <1>14, <3>1
  <2>3. ASSUME NEW e \in S, Cardinality({x \in S : NameFirst(x, e)}) = k - 1 PROVE e = h[p[k]]
    <3>1. PICK i \in 1..n : e = h[i]
      BY <1>8 DEF ValuesOn
    <3>2. i = p[k]
      BY <2>2, <2>3, <3>1
    <3> QED
      BY <3>1, <3>2
  <2>4. Cardinality({x \in S : NameFirst(x, h[p[k]])}) = k - 1
    BY <2>1, <2>2
  <2> QED
    BY <2>1, <2>3, <2>4
<1>16. ByName(S) = [k \in 1..n |-> Kth(k)]
  BY <1>10, Zenon DEF ByName
<1> HIDE DEF Kth
<1> DEFINE names == [k \in 1..n |-> g[p[k]]]
<1>17. names \in [1..n -> N] /\ \A k \in 1..n : names[k] = g[p[k]]
  BY <1>5, <1>12
<1> HIDE DEF names
<1>18. ByName(S) = [k \in 1..n |-> EntryOf(f, t, names[k])]
  <2>1. ASSUME NEW k \in 1..n PROVE Kth(k) = EntryOf(f, t, names[k])
    <3>1. p[k] \in 1..n
      BY <1>12
    <3> QED
      BY <1>6, <1>15, <1>17, <3>1
  <2> QED
    BY <1>16, <2>1
<1>19. ASSUME NEW i \in 1..n, NEW j \in 1..n, i < j PROVE names[i] < names[j]
  <2>1. p[i] \in 1..n /\ p[j] \in 1..n /\ p[i] \in Ahead(n, key, p[j])
    BY <1>11, <1>12, <1>19
  <2>2. g[p[i]] < g[p[j]]
    BY <1>13, <2>1
  <2> QED
    BY <1>17, <2>2
<1>20. ASSUME NEW x \in N PROVE \E k \in 1..n : names[k] = x
  <2>1. PICK i \in 1..n : g[i] = x
    BY <1>4
  <2>2. PICK k \in 1..n : p[k] = i
    BY <1>12
  <2> QED
    BY <1>17, <2>1, <2>2
<1> QED
  BY <1>3, <1>17, <1>18, <1>19, <1>20 DEF InOrder

\* Entry k is that of names[k]: every name that changed, once, most grown first and
\* then by name.
Listed(f, t, entries, n, names) ==
  /\ n = Cardinality(ChangedIn(f, t)) /\ entries = [k \in 1..n |-> EntryOf(f, t, names[k])]
  /\ \A i, j \in 1..n : names[i] = names[j] => i = j
  /\ \A x \in ChangedIn(f, t) : \E k \in 1..n : names[k] = x
  /\ \A i, j \in 1..n : i < j =>
       \/ GrowthIn(f, t, names[i]) > GrowthIn(f, t, names[j])
       \/ GrowthIn(f, t, names[i]) = GrowthIn(f, t, names[j]) /\ names[i] < names[j]

\* compute lists the changed class names, each once and in the order of the diff.
LEMMA DiffListed ==
  ASSUME NEW f \in Seq(ClassAllocationStats), NEW t \in Seq(ClassAllocationStats)
  PROVE  \E n \in Nat : \E names \in [1..n -> ChangedIn(f, t)] :
           Listed(f, t, compute(f, t), n, names)
<1> DEFINE N == ChangedIn(f, t)
           S == {e \in Entries(f, t) : Changed(e)}
           E == ByName(S)
<1>1. IsFiniteSet(N) /\ N \in SUBSET Nat
  <2>1. /\ IsFiniteSet(ClassNames(f)) /\ ClassNames(f) \in SUBSET Nat
        /\ IsFiniteSet(ClassNames(t)) /\ ClassNames(t) \in SUBSET Nat
    BY NamesFinite
  <2>2. IsFiniteSet(ClassNames(f) \cup ClassNames(t))
    BY <2>1, FS_Union
  <2>3. N \in SUBSET (ClassNames(f) \cup ClassNames(t))
    BY DEF ChangedIn
  <2> HIDE DEF N
  <2> QED
    BY <2>1, <2>2, <2>3, FS_Subset
<1>2. S = EntriesFor(f, t, N)
  BY EntriesKept
<1>3. compute(f, t) = sort_by(E, MoreGrown)
  BY Zenon DEF compute
<1> HIDE DEF N, S
<1>4. PICK n \in Nat : \E names \in [1..n -> N] : InOrder(f, t, N, ByName(S), n, names)
  <2>1. f \in Seq(ClassAllocationStats) /\ t \in Seq(ClassAllocationStats)
    OBVIOUS
  <2> QED
    BY ONLY <1>1, <1>2, <2>1, EntriesByName
<1>5. PICK nm \in [1..n -> N] :
        /\ n = Cardinality(N) /\ E = [k \in 1..n |-> EntryOf(f, t, nm[k])]
        /\ \A i, j \in 1..n : i < j => nm[i] < nm[j]
        /\ \A x \in N : \E k \in 1..n : nm[k] = x
  BY <1>4 DEF InOrder
<1> HIDE DEF E
<1> DEFINE key == [i \in 1..n |-> GrowthIn(f, t, nm[i])]
<1>6. DOMAIN E = 1..n /\ \A i \in 1..n : nm[i] \in N /\ nm[i] \in Nat /\ E[i] = EntryOf(f, t, nm[i])
  BY <1>1, <1>5
<1>7. \A i \in 1..n : key[i] = GrowthIn(f, t, nm[i]) /\ key[i] = delta_bytes(E[i]) /\ key[i] \in Int
  BY <1>6, EntryFacts
<1>8. key \in [1..n -> Int]
  BY <1>7
<1> HIDE DEF key
<1>9. PICK p \in Bijection(1..n, 1..n) :
        /\ p \in [1..n -> 1..n]
        /\ sort_by(E, MoreGrown) = [k \in 1..n |-> E[p[k]]]
        /\ \A i, j \in 1..n : i < j => p[i] \in Ahead(n, key, p[j])
  <2>1. n \in Nat /\ DOMAIN E = 1..n /\ key \in [1..n -> Int] /\ \A i \in 1..n : key[i] = delta_bytes(E[i])
    BY <1>6, <1>7, <1>8
  <2> QED
    BY ONLY <2>1, GrowthPlaces
<1>10. (\A i, j \in 1..n : p[i] = p[j] => i = j) /\ \A y \in 1..n : \E i \in 1..n : p[i] = y
  BY BijectionFacts
<1> DEFINE names == [k \in 1..n |-> nm[p[k]]]
<1>11. names \in [1..n -> N] /\ \A k \in 1..n : names[k] = nm[p[k]] /\ p[k] \in 1..n
  BY <1>6, <1>9
<1> HIDE DEF names
<1>12. compute(f, t) = [k \in 1..n |-> EntryOf(f, t, names[k])]
  <2>1. \A k \in 1..n : E[p[k]] = EntryOf(f, t, names[k])
    BY <1>6, <1>11
  <2> QED
    BY <1>3, <1>9, <2>1
<1>13. ASSUME NEW i \in 1..n, NEW j \in 1..n, names[i] = names[j] PROVE i = j
  <2>1. p[i] \in 1..n /\ p[j] \in 1..n /\ nm[p[i]] = nm[p[j]]
    BY <1>11, <1>13
  <2>2. ~(p[i] < p[j]) /\ ~(p[j] < p[i])
    <3>1. nm[p[i]] \in Nat
      BY <1>6, <2>1
    <3> QED
      BY <1>5, <2>1, <3>1
  <2>3. p[i] = p[j]
    BY <2>1, <2>2
  <2> QED
    BY <1>10, <2>3
<1>14. ASSUME NEW x \in N PROVE \E k \in 1..n : names[k] = x
  <2>1. PICK i \in 1..n : nm[i] = x
    BY <1>5
  <2>2. PICK k \in 1..n : p[k] = i
    BY <1>10
  <2> QED
    BY <1>11, <2>1, <2>2
<1>15. ASSUME NEW i \in 1..n, NEW j \in 1..n, i < j
       PROVE  \/ GrowthIn(f, t, names[i]) > GrowthIn(f, t, names[j])
              \/ GrowthIn(f, t, names[i]) = GrowthIn(f, t, names[j]) /\ names[i] < names[j]
  <2>1. p[i] \in 1..n /\ p[j] \in 1..n /\ p[i] \in Ahead(n, key, p[j])
    BY <1>9, <1>11, <1>15
  <2>2. key[p[i]] > key[p[j]] \/ (key[p[i]] = key[p[j]] /\ p[i] < p[j])
    BY <2>1 DEF Ahead
  <2>3. key[p[i]] = GrowthIn(f, t, names[i]) /\ key[p[j]] = GrowthIn(f, t, names[j])
    BY <1>7, <1>11, <2>1
  <2>4. p[i] < p[j] => names[i] < names[j]
    BY <1>5, <1>11, <2>1
  <2> QED
    BY <2>2, <2>3, <2>4
<1>16. Listed(f, t, compute(f, t), n, names)
  BY <1>5, <1>12, <1>13, <1>14, <1>15 DEF Listed, N
<1> QED
  BY <1>11, <1>16 DEF N

\* What is shown of the diff d of f and t: the first m of its n entries.
Shows(f, t, d, top, n, names, m) ==
  /\ Listed(f, t, compute(f, t), n, names)
  /\ m = (IF top < n THEN top ELSE n) /\ d.differences = n
  /\ Len(d.shown) = m /\ DOMAIN d.shown = 1..m /\ Len(take([k \in 1..n |-> k], top)) = m
  /\ \A k \in 1..m : d.shown[k] = EntryOf(f, t, names[k])

\* render shows the first entries of that list, at most top of them.
LEMMA DiffShown ==
  ASSUME NEW f \in Seq(ClassAllocationStats), NEW t \in Seq(ClassAllocationStats), NEW top \in Nat,
         NEW d, d = render(f, t, compute(f, t), top)
  PROVE  \E n \in Nat : \E names \in [1..n -> ChangedIn(f, t)] : \E m \in 0..n :
           Shows(f, t, d, top, n, names, m)
<1>1. PICK n \in Nat : \E names \in [1..n -> ChangedIn(f, t)] : Listed(f, t, compute(f, t), n, names)
  BY DiffListed
<1>2. PICK names \in [1..n -> ChangedIn(f, t)] : Listed(f, t, compute(f, t), n, names)
  BY <1>1
<1> DEFINE es == compute(f, t)
           T == {EntryOf(f, t, names[k]) : k \in 1..n}
           ns == [k \in 1..n |-> k]
<1>3. es = [k \in 1..n |-> EntryOf(f, t, names[k])]
  BY <1>2 DEF Listed
<1>4. d.differences = Len(es) /\ d.shown = take(es, top)
  BY DEF render
<1> HIDE DEF es
<1>5. \A k \in 1..n : es[k] = EntryOf(f, t, names[k]) /\ es[k] \in T
  BY <1>3
<1>6. es \in Seq(T) /\ Len(es) = n
  <2>1. es \in [1..n -> T]
    BY <1>3, <1>5
  <2> HIDE DEF T
  <2> QED
    BY <2>1
<1>7. ns \in Seq(Nat) /\ Len(ns) = n
  OBVIOUS
<1> HIDE DEF T, ns
<1>8. PICK m \in 0..n :
        /\ m = IF top < n THEN top ELSE n
        /\ Len(take(es, top)) = m
        /\ DOMAIN take(es, top) = 1..m /\ \A i \in 1..m : take(es, top)[i] = es[i]
  <2>1. PICK x \in 0..Len(es) :
          /\ x = IF top < Len(es) THEN top ELSE Len(es)
          /\ Len(take(es, top)) = x
          /\ DOMAIN take(es, top) = 1..x /\ \A i \in 1..x : take(es, top)[i] = es[i]
    BY <1>6, TakeAny, Zenon
  <2> QED
    BY <1>6, <2>1
<1>9. Len(take(ns, top)) = m
  <2>1. PICK x \in 0..Len(ns) :
          /\ x = IF top < Len(ns) THEN top ELSE Len(ns)
          /\ Len(take(ns, top)) = x
          /\ DOMAIN take(ns, top) = 1..x /\ \A i \in 1..x : take(ns, top)[i] = ns[i]
    BY <1>7, TakeAny, ZenonT(60)
  <2> QED
    BY <1>7, <1>8, <2>1
<1>10. \A k \in 1..m : d.shown[k] = EntryOf(f, t, names[k])
  BY <1>4, <1>5, <1>8
<1> QED
  <2>1. Shows(f, t, d, top, n, names, m)
    BY <1>2, <1>4, <1>6, <1>8, <1>9, <1>10 DEF es, ns, Shows
  <2> QED
    BY <2>1

\* The diff d of the rows f and t is what DiffExact says.
ExactIn(f, t, d, top) ==
  LET shown == d.shown
      names == [k \in DOMAIN shown |-> shown[k].class_name]
  IN /\ d.differences = Cardinality(ChangedIn(f, t))
     /\ Len(shown) = Len(take([k \in 1..d.differences |-> k], top))
     /\ Range(names) \subseteq ChangedIn(f, t) /\ IsInjective(names)
     /\ \A k \in DOMAIN shown :
          /\ delta_bytes(shown[k]) = GrowthIn(f, t, names[k])
          /\ shown[k].instances_to = InstancesOf(t, names[k])
          /\ \A x \in ChangedIn(f, t) \ {names[j] : j \in 1..k} :
               \/ GrowthIn(f, t, x) < GrowthIn(f, t, names[k])
               \/ GrowthIn(f, t, x) = GrowthIn(f, t, names[k]) /\ x > names[k]

\* A diff has exactly the changed class names, or the first of them, with the right numbers.
LEMMA DiffIsExact ==
  ASSUME NEW f \in Seq(ClassAllocationStats), NEW t \in Seq(ClassAllocationStats), NEW top \in Nat,
         NEW d, d = render(f, t, compute(f, t), top)
  PROVE  ExactIn(f, t, d, top)
<1> DEFINE N == ChangedIn(f, t)
           shown == d.shown
           names == [k \in DOMAIN shown |-> shown[k].class_name]
<1>0. PICK n \in Nat : \E nm \in [1..n -> N] : \E m \in 0..n : Shows(f, t, d, top, n, nm, m)
  BY DiffShown
<1>1. PICK nm \in [1..n -> N], m \in 0..n :
        /\ Listed(f, t, compute(f, t), n, nm)
        /\ m = (IF top < n THEN top ELSE n) /\ d.differences = n
        /\ Len(shown) = m /\ DOMAIN shown = 1..m /\ Len(take([k \in 1..n |-> k], top)) = m
        /\ \A k \in 1..m : shown[k] = EntryOf(f, t, nm[k])
  BY <1>0 DEF Shows
<1>2. /\ n = Cardinality(N)
      /\ \A i, j \in 1..n : nm[i] = nm[j] => i = j
      /\ \A x \in N : \E k \in 1..n : nm[k] = x
      /\ \A i, j \in 1..n : i < j =>
           \/ GrowthIn(f, t, nm[i]) > GrowthIn(f, t, nm[j])
           \/ GrowthIn(f, t, nm[i]) = GrowthIn(f, t, nm[j]) /\ nm[i] < nm[j]
  BY <1>1 DEF Listed
<1>3. \A k \in 1..m : k \in 1..n /\ nm[k] \in N
  BY <1>1
<1> HIDE DEF N, shown
<1>4. DOMAIN names = 1..m /\ \A k \in 1..m : names[k] = nm[k]
  <2>1. \A k \in 1..m : shown[k].class_name = nm[k]
    BY <1>1, EntryFacts
  <2> QED
    BY <1>1, <2>1
<1> HIDE DEF names
<1>5. Range(names) \subseteq N /\ IsInjective(names)
  BY <1>2, <1>3, <1>4 DEF Range, IsInjective
<1>6. ASSUME NEW k \in 1..m
      PROVE  /\ delta_bytes(shown[k]) = GrowthIn(f, t, names[k])
             /\ shown[k].instances_to = InstancesOf(t, names[k])
  <2>1. shown[k] = EntryOf(f, t, names[k])
    BY <1>1, <1>4
  <2>2. /\ delta_bytes(EntryOf(f, t, names[k])) = GrowthIn(f, t, names[k])
        /\ EntryOf(f, t, names[k]).instances_to = InstancesOf(t, names[k])
    BY EntryFacts
  <2> QED
    BY <2>1, <2>2, Zenon
<1>7. ASSUME NEW k \in 1..m, NEW x \in N \ {names[j] : j \in 1..k}
      PROVE  \/ GrowthIn(f, t, x) < GrowthIn(f, t, names[k])
             \/ GrowthIn(f, t, x) = GrowthIn(f, t, names[k]) /\ x > names[k]
  <2>1. PICK l \in 1..n : nm[l] = x
    BY <1>2
  <2>2. l \notin 1..k
    <3> SUFFICES ASSUME l \in 1..k PROVE FALSE
      OBVIOUS
    <3>1. l \in 1..m
      OBVIOUS
    <3> QED
      BY <1>4, <2>1, <3>1
  <2>3. k < l /\ k \in 1..n /\ names[k] = nm[k]
    BY <1>3, <1>4, <2>2
  <2>4. \/ GrowthIn(f, t, nm[k]) > GrowthIn(f, t, nm[l])
        \/ GrowthIn(f, t, nm[k]) = GrowthIn(f, t, nm[l]) /\ nm[k] < nm[l]
    BY <1>2, <2>3
  <2>5. GrowthIn(f, t, nm[k]) \in Int /\ GrowthIn(f, t, nm[l]) \in Int
    BY EntryFacts
  <2>6. nm[k] \in Nat /\ nm[l] \in Nat
    <3>1. N \in SUBSET Nat
      BY NamesFinite DEF N, ChangedIn
    <3> QED
      BY <2>3, <3>1
  <2> DEFINE gk == GrowthIn(f, t, nm[k])
             gl == GrowthIn(f, t, nm[l])
  <2>7. gl < gk \/ (gl = gk /\ nm[l] > nm[k])
    <3> HIDE DEF gk, gl
    <3> QED
      BY <2>4, <2>5, <2>6 DEF gk, gl
  <2> QED
    BY <2>1, <2>3, <2>7
<1>8. Len(shown) = Len(take([k \in 1..d.differences |-> k], top)) /\ d.differences = Cardinality(N)
  BY <1>1, <1>2
<1>9. DOMAIN shown = 1..m
  BY <1>1
<1> QED
  BY <1>5, <1>6, <1>7, <1>8, <1>9 DEF ExactIn, N, shown, names

\* The numbers that the bytes of names 1 to n are in a dump.
BytesAt(rows, name, n) == [k \in 1..n |-> BytesOf(rows, name[k])]

\* The names 1 to m are different, and every row has one of them.
NamesAll(rows, name, m) ==
  /\ \A k, l \in 1..m : name[k] = name[l] => k = l
  /\ \A x \in ClassNames(rows) : \E k \in 1..m : name[k] = x

\* The total of the rows is that of the sums of their names.
LEMMA TotalOfNames ==
  ASSUME NEW rows \in Seq(ClassAllocationStats), NEW m \in Nat, NEW name, NamesAll(rows, name, m)
  PROVE  total_shallow_bytes(rows) = SumOf(BytesAt(rows, name, m))
<1> DEFINE n == Len(rows)
           s == [i \in 1..n |-> rows[i].allocation_size_bytes]
           kind == [i \in 1..n |-> rows[i].class_name]
<1>1. n \in Nat /\ DOMAIN rows = 1..n /\ \A i \in 1..n : rows[i] \in ClassAllocationStats
  OBVIOUS
<1> HIDE DEF n
<1>2. \A i \in 1..n : rows[i].allocation_size_bytes \in Nat
  BY <1>1 DEF ClassAllocationStats
<1>3. total_shallow_bytes(rows) = SumOf(s)
  BY <1>1 DEF total_shallow_bytes
<1>4. s \in [1..n -> Nat] /\ \A i \in 1..n : s[i] = rows[i].allocation_size_bytes
  BY <1>2
<1>5. \A i \in 1..n : kind[i] = rows[i].class_name /\ kind[i] \in ClassNames(rows)
  BY <1>1 DEF ClassNames
<1> HIDE DEF s, kind
<1>6. s \in Seq(Nat) /\ Len(s) = n
  BY <1>1, <1>4
<1>7. KindsNamed(kind, Len(s), name, m)
  BY <1>5, <1>6 DEF KindsNamed, NamesAll
<1>8. ASSUME NEW x PROVE BytesOf(rows, x) = SumOf(OfKind(s, kind, x))
  <2>1. [i \in 1..n |-> IF rows[i].class_name = x THEN rows[i].allocation_size_bytes ELSE 0]
          = OfKind(s, kind, x)
    BY <1>4, <1>5, <1>6 DEF OfKind
  <2> QED
    BY <1>1, <2>1 DEF BytesOf
<1>9. SumOf([k \in 1..m |-> SumOf(OfKind(s, kind, name[k]))]) = SumOf(s)
  BY <1>6, <1>7, SumOfKinds
<1>10. [k \in 1..m |-> BytesOf(rows, name[k])] = [k \in 1..m |-> SumOf(OfKind(s, kind, name[k]))]
  BY <1>8
<1> QED
  BY <1>3, <1>9, <1>10 DEF BytesAt

\* A name that did not change has the same bytes in both dumps.
LEMMA UnchangedBytes ==
  ASSUME NEW f \in Seq(ClassAllocationStats), NEW t \in Seq(ClassAllocationStats),
         NEW x \in (ClassNames(f) \cup ClassNames(t)) \ ChangedIn(f, t)
  PROVE  BytesOf(f, x) = BytesOf(t, x)
<1>1. BytesOf(f, x) \in Nat /\ BytesOf(t, x) \in Nat
  BY NameSums
<1>2. BytesOf(t, x) - BytesOf(f, x) = 0
  BY DEF ChangedIn, GrowthIn
<1> QED
  BY <1>1, <1>2

\* The bytes of some class names are a sequence of numbers.
LEMMA BytesAreNumbers ==
  ASSUME NEW rows \in Seq(ClassAllocationStats), NEW name, NEW n \in Nat
  PROVE  /\ BytesAt(rows, name, n) \in Seq(Nat) /\ Len(BytesAt(rows, name, n)) = n
         /\ \A k \in 1..n : BytesAt(rows, name, n)[k] = BytesOf(rows, name[k])
<1>1. \A k \in 1..n : BytesOf(rows, name[k]) \in Nat
  BY NameSums
<1> QED
  BY <1>1 DEF BytesAt

\* The total of the rows, when the names are in two parts.
LEMMA TotalOfParts ==
  ASSUME NEW rows \in Seq(ClassAllocationStats), NEW n \in Nat, NEW a, NEW m \in Nat, NEW b,
         NEW N, NEW U, a \in [1..n -> N], b \in [1..m -> U], N \cap U = {},
         \A k, l \in 1..n : a[k] = a[l] => k = l,
         \A k, l \in 1..m : b[k] = b[l] => k = l,
         \A x \in N : \E k \in 1..n : a[k] = x,
         \A x \in U : \E k \in 1..m : b[k] = x,
         ClassNames(rows) \subseteq N \cup U
  PROVE  total_shallow_bytes(rows) = SumOf(BytesAt(rows, a, n)) + SumOf(BytesAt(rows, b, m))
<1> DEFINE c == [k \in 1..(n + m) |-> IF k <= n THEN a[k] ELSE b[k - n]]
           p == BytesAt(rows, a, n)
           q == BytesAt(rows, b, m)
<1>1. \A k \in 1..(n + m) : k \in 1..n \/ (k > n /\ k - n \in 1..m)
  OBVIOUS
<1>2. /\ \A k \in 1..n : k \in 1..(n + m) /\ c[k] = a[k] /\ c[k] \in N
      /\ \A k \in 1..(n + m) : k > n => c[k] = b[k - n] /\ c[k] \in U
  OBVIOUS
<1>3. \A k \in 1..m : k + n \in 1..(n + m) /\ k + n > n /\ (k + n) - n = k
  OBVIOUS
<1> HIDE DEF c
<1>4. ASSUME NEW k \in 1..(n + m), NEW l \in 1..(n + m), c[k] = c[l] PROVE k = l
  <2>1. CASE k \in 1..n /\ l \in 1..n
    BY <1>2, <1>4, <2>1
  <2>2. CASE k \in 1..n /\ l > n
    BY <1>2, <1>4, <2>2
  <2>3. CASE k > n /\ l \in 1..n
    BY <1>2, <1>4, <2>3
  <2>4. CASE k > n /\ l > n
    <3>1. k - n \in 1..m /\ l - n \in 1..m /\ b[k - n] = b[l - n]
      BY <1>1, <1>2, <1>4, <2>4
    <3>2. k - n = l - n
      BY <3>1
    <3> QED
      BY <3>2
  <2> QED
    BY <1>1, <2>1, <2>2, <2>3, <2>4
<1>5. ASSUME NEW x \in ClassNames(rows) PROVE \E k \in 1..(n + m) : c[k] = x
  <2>1. CASE x \in N
    BY <1>2, <2>1
  <2>2. CASE x \in U
    <3>1. PICK k \in 1..m : b[k] = x
      BY <2>2
    <3>2. c[k + n] = b[k]
      BY <1>2, <1>3
    <3> QED
      BY <1>3, <3>1, <3>2
  <2> QED
    BY <2>1, <2>2
<1>6. total_shallow_bytes(rows) = SumOf(BytesAt(rows, c, n + m))
  <2>1. n + m \in Nat
    OBVIOUS
  <2>2. NamesAll(rows, c, n + m)
    BY <1>4, <1>5 DEF NamesAll
  <2> QED
    BY <2>1, <2>2, TotalOfNames
<1>7. /\ p \in Seq(Nat) /\ Len(p) = n /\ (\A k \in 1..n : p[k] = BytesOf(rows, a[k]))
      /\ q \in Seq(Nat) /\ Len(q) = m /\ (\A k \in 1..m : q[k] = BytesOf(rows, b[k]))
  BY BytesAreNumbers
<1> HIDE DEF p, q
<1>8. BytesAt(rows, c, n + m) = p \o q
  <2> DEFINE e == BytesAt(rows, c, n + m)
  <2>1. e \in Seq(Nat) /\ Len(e) = n + m /\ \A k \in 1..(n + m) : e[k] = BytesOf(rows, c[k])
    <3>1. n + m \in Nat
      OBVIOUS
    <3> QED
      BY <3>1, BytesAreNumbers
  <2> HIDE DEF e
  <2>2. \A k \in 1..n : e[k] = p[k]
    <3> SUFFICES ASSUME NEW k \in 1..n PROVE e[k] = p[k]
      OBVIOUS
    <3>1. k \in 1..(n + m) /\ c[k] = a[k]
      BY <1>2
    <3> QED
      BY <1>7, <2>1, <3>1
  <2>3. \A k \in 1..m : e[n + k] = q[k]
    <3> SUFFICES ASSUME NEW k \in 1..m PROVE e[n + k] = q[k]
      OBVIOUS
    <3>1. n + k \in 1..(n + m) /\ n + k > n /\ (n + k) - n = k
      BY <1>3
    <3>2. c[n + k] = b[(n + k) - n]
      BY <1>2, <3>1
    <3>3. b[(n + k) - n] = b[k]
      BY <3>1
    <3>4. e[n + k] = BytesOf(rows, c[n + k]) /\ q[k] = BytesOf(rows, b[k])
      BY <1>7, <2>1, <3>1
    <3> QED
      BY <3>2, <3>3, <3>4
  <2>4. Len(e) = Len(p) + Len(q)
    BY <1>7, <2>1
  <2>5. (\A i \in 1..Len(p) : e[i] = p[i]) /\ \A i \in 1..Len(q) : e[Len(p) + i] = q[i]
    BY <1>7, <2>2, <2>3
  <2>6. e \in Seq(Nat) /\ p \in Seq(Nat) /\ q \in Seq(Nat)
    BY <1>7, <2>1
  <2>7. e = p \o q
    BY ONLY <2>4, <2>5, <2>6, Joined
  <2> QED
    BY <2>7 DEF e
<1>9. SumOf(p \o q) = SumOf(p) + SumOf(q)
  BY <1>7, SumOfConcat
<1> QED
  BY <1>6, <1>8, <1>9 DEF p, q

\* The deltas of all entries add up to the difference of the totals.
LEMMA NetOfAll ==
  ASSUME NEW f \in Seq(ClassAllocationStats), NEW t \in Seq(ClassAllocationStats),
         NEW n \in Nat, NEW names \in [1..n -> ChangedIn(f, t)], NEW entries,
         Listed(f, t, entries, n, names)
  PROVE  SumOf([k \in 1..n |-> GrowthIn(f, t, names[k])])
           = total_shallow_bytes(t) - total_shallow_bytes(f)
<1> DEFINE N == ChangedIn(f, t)
           A == ClassNames(f) \cup ClassNames(t)
           U == A \ N
<1>1. IsFiniteSet(U)
  <2>1. IsFiniteSet(ClassNames(f)) /\ IsFiniteSet(ClassNames(t))
    BY NamesFinite
  <2>2. IsFiniteSet(A)
    BY <2>1, FS_Union
  <2> QED
    BY <2>2, FS_Subset
<1>2. \A x \in U : BytesOf(f, x) = BytesOf(t, x)
  BY UnchangedBytes
<1>3. /\ \A k, l \in 1..n : names[k] = names[l] => k = l
      /\ \A x \in N : \E k \in 1..n : names[k] = x
  BY DEF Listed
<1>4. names \in [1..n -> N] /\ N \cap U = {} /\ ClassNames(f) \subseteq N \cup U /\ ClassNames(t) \subseteq N \cup U
  OBVIOUS
<1> HIDE DEF N, U
<1>5. PICK m \in Nat : ExistsBijection(1..m, U)
  BY <1>1, FS_NatBijection
<1>6. PICK u \in Bijection(1..m, U) : TRUE
  BY <1>5 DEF ExistsBijection
<1>7. /\ u \in [1..m -> U] /\ \A k, l \in 1..m : u[k] = u[l] => k = l
      /\ \A x \in U : \E k \in 1..m : u[k] = x
  BY Fun_BijectionProperties
<1> DEFINE bf == BytesAt(f, names, n)
           bt == BytesAt(t, names, n)
           cf == BytesAt(f, u, m)
           ct == BytesAt(t, u, m)
<1>8. total_shallow_bytes(f) = SumOf(bf) + SumOf(cf)
  BY <1>3, <1>4, <1>7, TotalOfParts
<1>9. total_shallow_bytes(t) = SumOf(bt) + SumOf(ct)
  BY <1>3, <1>4, <1>7, TotalOfParts
<1>10. cf = ct
  <2>1. \A k \in 1..m : BytesOf(f, u[k]) = BytesOf(t, u[k])
    BY <1>2, <1>7
  <2> QED
    BY <2>1 DEF BytesAt
<1>11. /\ bf \in Seq(Nat) /\ Len(bf) = n /\ (\A k \in 1..n : bf[k] = BytesOf(f, names[k]))
       /\ bt \in Seq(Nat) /\ Len(bt) = n /\ (\A k \in 1..n : bt[k] = BytesOf(t, names[k]))
       /\ cf \in Seq(Nat)
  BY BytesAreNumbers
<1> HIDE DEF bf, bt, cf, ct
<1> DEFINE g == [k \in 1..n |-> GrowthIn(f, t, names[k])]
<1>12. g = [k \in 1..Len(bf) |-> bt[k] - bf[k]]
  BY <1>11 DEF GrowthIn
<1> HIDE DEF g
<1>13. SumOf(g) = SumOf(bt) - SumOf(bf)
  <2>1. Len(bf) = Len(bt)
    BY <1>11
  <2> QED
    BY <1>11, <1>12, <2>1, SumOfDifferences
<1>14. SumOf(bf) \in Nat /\ SumOf(bt) \in Nat /\ SumOf(cf) \in Nat
  BY <1>11, SumIsNat DEF SumOf
<1>15. SumOf(g) = total_shallow_bytes(t) - total_shallow_bytes(f)
  BY <1>8, <1>9, <1>10, <1>13, <1>14
<1> QED
  BY <1>15 DEF g

\* When all entries are shown, their deltas add up to the net difference.
LEMMA NetIsRight ==
  ASSUME NEW f \in Seq(ClassAllocationStats), NEW t \in Seq(ClassAllocationStats), NEW top \in Nat,
         NEW d, d = render(f, t, compute(f, t), top), d.differences <= top
  PROVE  d.net = SumOf([k \in DOMAIN d.shown |-> delta_bytes(d.shown[k])])
<1>1. PICK n \in Nat : \E nm \in [1..n -> ChangedIn(f, t)] : \E m \in 0..n : Shows(f, t, d, top, n, nm, m)
  BY DiffShown
<1>2. PICK nm \in [1..n -> ChangedIn(f, t)], m \in 0..n :
        /\ Listed(f, t, compute(f, t), n, nm)
        /\ m = (IF top < n THEN top ELSE n) /\ d.differences = n /\ DOMAIN d.shown = 1..m
        /\ \A k \in 1..m : d.shown[k] = EntryOf(f, t, nm[k])
  BY <1>1 DEF Shows
<1>3. m = n
  BY <1>2
<1>4. \A k \in 1..n : delta_bytes(d.shown[k]) = GrowthIn(f, t, nm[k])
  <2> SUFFICES ASSUME NEW k \in 1..n PROVE delta_bytes(d.shown[k]) = GrowthIn(f, t, nm[k])
    OBVIOUS
  <2>1. d.shown[k] = EntryOf(f, t, nm[k])
    BY <1>2, <1>3
  <2>2. delta_bytes(EntryOf(f, t, nm[k])) = GrowthIn(f, t, nm[k])
    BY EntryFacts
  <2> QED
    BY <2>1, <2>2, Zenon
<1>5. [k \in DOMAIN d.shown |-> delta_bytes(d.shown[k])] = [k \in 1..n |-> GrowthIn(f, t, nm[k])]
  BY <1>2, <1>3, <1>4
<1>6. d.net = total_shallow_bytes(t) - total_shallow_bytes(f)
  BY DEF render
<1>7. SumOf([k \in 1..n |-> GrowthIn(f, t, nm[k])]) = total_shallow_bytes(t) - total_shallow_bytes(f)
  BY <1>2, NetOfAll
<1> QED
  BY <1>5, <1>6, <1>7

-----------------------------------------------------------------------------
(***************************************************************************)
(* The invariant holds at the start and every step keeps it.               *)
(***************************************************************************)

\* Something more is printed, behind what was printed.
LEMMA AppendFacts ==
  ASSUME NEW s, s \in Seq(Range(s)), NEW x
  PROVE  /\ Append(s, x) \in Seq(Range(Append(s, x)))
         /\ DOMAIN Append(s, x) = DOMAIN s \cup {Len(s) + 1} /\ Len(s) + 1 \notin DOMAIN s
         /\ \A i \in DOMAIN s : Append(s, x)[i] = s[i]
         /\ Append(s, x)[Len(s) + 1] = x
<1> DEFINE S == Range(s) \cup {x}
           t == Append(s, x)
<1>1. s \in Seq(S)
  <2>1. DOMAIN s = 1..Len(s) /\ Len(s) \in Nat
    OBVIOUS
  <2>2. \A i \in 1..Len(s) : s[i] \in S
    BY <2>1 DEF Range
  <2> HIDE DEF S
  <2> QED
    BY <2>1, <2>2
<1>2. x \in S
  OBVIOUS
<1> HIDE DEF S
<1>3. /\ t \in Seq(S) /\ Len(t) = Len(s) + 1 /\ DOMAIN t = 1..(Len(s) + 1) /\ DOMAIN s = 1..Len(s)
      /\ Len(s) \in Nat /\ (\A i \in 1..Len(s) : t[i] = s[i]) /\ t[Len(s) + 1] = x
  BY <1>1, <1>2
<1> HIDE DEF t
<1>4. DOMAIN t = DOMAIN s \cup {Len(s) + 1} /\ Len(s) + 1 \notin DOMAIN s
  BY <1>3
<1>5. t \in Seq(Range(t))
  <2>1. \A i \in 1..Len(t) : t[i] \in Range(t)
    BY <1>3 DEF Range
  <2> QED
    BY <1>3, <2>1
<1> QED
  BY <1>3, <1>4, <1>5 DEF t

\* What is printed of a kind after one thing more.
LEMMA PrintedAfter ==
  ASSUME stdout \in Seq(Range(stdout)), NEW x, stdout' = Append(stdout, x)
  PROVE  /\ stdout' \in Seq(Range(stdout'))
         /\ \A what : Printed(what)' = Printed(what) \cup (IF x.what = what THEN {Len(stdout) + 1} ELSE {})
         /\ \A what : \A i \in Printed(what) : stdout'[i] = stdout[i]
         /\ stdout'[Len(stdout) + 1] = x
<1> DEFINE l == Len(stdout) + 1
<1>1. /\ stdout' \in Seq(Range(stdout')) /\ DOMAIN stdout' = DOMAIN stdout \cup {l} /\ l \notin DOMAIN stdout
      /\ \A i \in DOMAIN stdout : stdout'[i] = stdout[i]
      /\ stdout'[l] = x
  BY AppendFacts
<1> HIDE DEF l
<1>2. \A what : Printed(what)' = Printed(what) \cup (IF x.what = what THEN {l} ELSE {})
  BY <1>1 DEF Printed
<1>3. \A what : \A i \in Printed(what) : stdout'[i] = stdout[i]
  BY <1>1 DEF Printed
<1> QED
  BY <1>1, <1>2, <1>3 DEF l

\* The process starts with the invariant.
LEMMA InitInv == Init => AppInv
<1> SUFFICES ASSUME Init PROVE AppInv
  OBVIOUS
<1>1. stdout = << >> /\ \A what : Printed(what) = {}
  BY DEF Init, Printed
<1>2. FilesInv
  <2>1. /\ command \in Commands /\ files \in Disks /\ DOMAIN files = Paths /\ changes = 0 /\ MaxChanges \in Nat
    BY FilesAssumption, BoundsAssumption DEF Init
  <2>2. \A p \in Paths : files[p] \in KnownContents
    BY <2>1 DEF KnownContents, Range
  <2>3. \A c \in KnownContents : Content(c)
    BY FilesAssumption, RowsAssumption DEF Content
  <2> QED
    BY <2>1, <2>2, <2>3 DEF FilesInv
<1>3. ControlInv
  <2>1. << >> \in Seq(Range(<< >>))
    OBVIOUS
  <2> QED
    BY <1>1, <2>1 DEF Init, ControlInv, BeforePass, Reported, ExitTellsReport
<1>4. RowsInv
  BY <1>1 DEF Init, RowsInv
<1>5. SizeInv
  BY DEF Init, SizeInv, JsonSizeFresh
<1>6. DiffInv
  BY <1>1 DEF Init, DiffInv
<1> QED
  BY <1>2, <1>3, <1>4, <1>5, <1>6 DEF AppInv

\* A pass read a dump: it has rows.
LEMMA DumpRead ==
  ASSUME FilesInv, NEW p \in Paths, Readable(p)
  PROVE  files[p] # NoFile /\ files[p].size \in Nat /\ files[p].rows \in Seq(ClassAllocationStats)
<1>1. Content(files[p]) /\ files[p].kind = "dump"
  BY DEF FilesInv, Readable
<1>2. files[p] # NoFile
  BY <1>1 DEF NoFile
<1> QED
  BY <1>1, <1>2 DEF Content

\* The arguments name files and a number of rows.
LEMMA CommandFacts ==
  ASSUME FilesInv
  PROVE  command.file \in Paths /\ command.to \in Paths /\ command.top \in Nat
  BY FilesAssumption DEF FilesInv

\* What the process and others write to files are contents of files.
LEMMA FilesStep ==
  ASSUME AppInv, [Next]_vars
  PROVE  FilesInv'
<1>0. /\ FilesInv /\ ControlInv /\ RowsInv /\ command \in Commands /\ DOMAIN files = Paths
      /\ (\A p \in Paths : Content(files[p])) /\ changes \in 0..MaxChanges /\ MaxChanges \in Nat
  BY BoundsAssumption DEF AppInv, FilesInv
<1>1. CASE UNCHANGED <<command, files, changes>>
  BY <1>0, <1>1 DEF FilesInv
<1>2. ASSUME UNCHANGED <<command, changes>>, NEW w \in Nat, NEW l,
             files' = [files EXCEPT ![Output] = JsonFile(w, l)]
      PROVE  FilesInv'
  <2>1. Content(JsonFile(w, l))
    BY DEF Content, JsonFile
  <2> DEFINE j == JsonFile(w, l)
  <2> HIDE DEF j
  <2>2. DOMAIN files' = Paths /\ \A p \in Paths : files'[p] = files[p] \/ files'[p] = j
    BY <1>0, <1>2 DEF j
  <2>3. \A p \in Paths : Content(files'[p])
    BY <1>0, <2>1, <2>2 DEF j
  <2> QED
    BY <1>0, <1>2, <2>2, <2>3 DEF FilesInv
<1>3. CASE CreateFile
  BY <1>1, <1>2, <1>3 DEF CreateFile
<1>4. CASE WriteJson
  <2>1. pc = "to_writer" /\ json # NoJson
    BY <1>0, <1>4 DEF WriteJson, ControlInv
  <2>2. PICK r \in Rearrangements(from.rows) : json.heap = JsonHeap(r, command.top).heap
    BY <1>0, <2>1 DEF RowsInv
  <2>3. from.rows \in Seq(ClassAllocationStats) /\ command.top \in Nat
    BY <1>0, <2>1, CommandFacts DEF RowsInv
  <2>4. JsonLength(json) \in Nat
    BY <2>2, <2>3, JsonHasLength
  <2>5. PICK w \in IF "disk" \in Faults THEN 0..JsonLength(json) ELSE {JsonLength(json)} :
          files' = [files EXCEPT ![Output] = JsonFile(w, JsonLength(json))]
    BY <1>4 DEF WriteJson
  <2>6. w \in Nat
    BY <2>4, <2>5
  <2> QED
    BY <1>2, <1>4, <2>5, <2>6 DEF WriteJson
<1>5. CASE OthersChange
  <2>1. PICK p \in Paths, c \in Replacements : files' = [files EXCEPT ![p] = c]
    BY <1>5 DEF OthersChange
  <2>2. Content(c)
    BY FilesAssumption, RowsAssumption DEF Content, KnownContents
  <2>3. DOMAIN files' = Paths /\ \A q \in Paths : files'[q] = files[q] \/ files'[q] = c
    BY <1>0, <2>1
  <2>4. \A q \in Paths : Content(files'[q])
    BY <1>0, <2>2, <2>3
  <2>5. changes' \in 0..MaxChanges
    BY <1>0, <1>5 DEF OthersChange
  <2>6. command' = command
    BY <1>5 DEF OthersChange
  <2> QED
    BY <1>0, <2>3, <2>4, <2>5, <2>6 DEF FilesInv
<1>6. CASE ParseArgs \/ CheckFrom \/ CheckTo \/ SlurpFrom \/ SlurpTo
  BY <1>1, <1>6 DEF ParseArgs, CheckFrom, CheckTo, CheckFile, SlurpFrom, SlurpTo
<1>7. CASE SlurpFails("slurp_file", command.file) \/ SlurpFails("slurp_to", command.to)
           \/ MakeJson \/ MetadataFails
  BY <1>1, <1>7 DEF SlurpFails, MakeJson, MetadataFails
<1>8. CASE AnnounceJson \/ PrintText \/ PrintDiff \/ Finish
  BY <1>1, <1>8 DEF AnnounceJson, PrintText, PrintDiff, Finish
<1>9. CASE UNCHANGED vars
  BY <1>1, <1>9 DEF vars
<1> QED
  BY <1>3, <1>4, <1>5, <1>6, <1>7, <1>8, <1>9 DEF Next, Process, Exited

\* Nothing is printed: what was printed of a kind stays what it is.
LEMMA PrintedSame ==
  ASSUME stdout' = stdout
  PROVE  \A what : Printed(what)' = Printed(what)
  BY DEF Printed

\* The process exits from a place where nothing is reported yet, or by a panic or an
\* abort, and prints nothing.
LEMMA ControlAtExit ==
  ASSUME ControlInv, pc \notin Reported, NEW code \in {1, 2, 101, 134}, Exit(code),
         UNCHANGED <<from, json, stdout>>
  PROVE  ControlInv'
<1>1. \A what : Printed(what)' = Printed(what)
  BY PrintedSame
<1>2. pc' = "exited" /\ exit' = code
  BY DEF Exit
<1> QED
  BY <1>1, <1>2 DEF ControlInv, Reported, BeforePass, ExitTellsReport

\* The output is closed and a panic ends the process.
LEMMA ControlAtPanic ==
  ASSUME ControlInv, pc # "exited", Exit(101), UNCHANGED <<from, json, stdout>>
  PROVE  ControlInv'
<1>1. \A what : Printed(what)' = Printed(what)
  BY PrintedSame
<1>2. pc' = "exited" /\ exit' = 101
  BY DEF Exit
<1> QED
  BY <1>1, <1>2 DEF ControlInv, Reported, BeforePass, ExitTellsReport

\* The process goes on without printing, and what it must have read it has read.
LEMMA ControlGoesOn ==
  ASSUME ControlInv, pc \notin Reported, pc' \notin Reported, UNCHANGED <<stdout, exit>>,
         pc' \in BeforePass => from' = NoFile /\ json' = NoJson,
         pc' \in {"metadata", "create", "to_writer", "announce", "print"} => from' # NoFile,
         pc' \in {"create", "to_writer"} => json' # NoJson
  PROVE  ControlInv'
<1>1. \A what : Printed(what)' = Printed(what)
  BY PrintedSame
<1> QED
  BY <1>1 DEF ControlInv, Reported, ExitTellsReport

\* Where the process is tells what it has read and printed, after every step.
LEMMA ControlStep ==
  ASSUME AppInv, [Next]_vars
  PROVE  ControlInv'
<1>0. FilesInv /\ ControlInv /\ RowsInv
  BY DEF AppInv
<1>1. CASE ParseArgs
  <2>1. pc = "get_args" /\ pc \notin Reported /\ UNCHANGED <<from, json, stdout>>
    BY <1>1 DEF ParseArgs, Reported
  <2>2. CASE Exit(2)
    BY <1>0, <2>1, <2>2, ControlAtExit
  <2>3. CASE pc' = "existing_file" /\ UNCHANGED exit
    <3>1. from' = NoFile /\ json' = NoJson
      BY <1>0, <2>1 DEF ControlInv, BeforePass
    <3> QED
      BY <1>0, <2>1, <2>3, <3>1, ControlGoesOn DEF Reported
  <2> QED
    BY <1>1, <2>2, <2>3 DEF ParseArgs
<1>2. CASE CheckFrom \/ CheckTo
  <2>1. pc \in {"existing_file", "existing_to"} /\ pc \notin Reported /\ UNCHANGED <<from, json, stdout>>
    BY <1>2 DEF CheckFrom, CheckTo, CheckFile, Reported
  <2>2. CASE Exit(1)
    BY <1>0, <2>1, <2>2, ControlAtExit
  <2>3. CASE pc' \in {"existing_to", "slurp_file"} /\ UNCHANGED exit
    <3>1. from' = NoFile /\ json' = NoJson
      BY <1>0, <2>1 DEF ControlInv, BeforePass
    <3> QED
      BY <1>0, <2>1, <2>3, <3>1, ControlGoesOn DEF Reported
  <2> QED
    BY <1>2, <2>2, <2>3 DEF CheckFrom, CheckTo, CheckFile
<1>3. CASE SlurpFrom
  <2>1. /\ pc = "slurp_file" /\ Readable(command.file) /\ from' = files[command.file]
        /\ pc' \in {"slurp_to", "metadata", "print"} /\ UNCHANGED <<stdout, exit>>
    BY <1>3 DEF SlurpFrom
  <2>2. from' # NoFile
    BY <1>0, <2>1, CommandFacts, DumpRead
  <2> QED
    BY <1>0, <2>1, <2>2, ControlGoesOn DEF Reported, BeforePass
<1>4. CASE SlurpTo
  <2>1. pc = "slurp_to" /\ pc' = "print_diff" /\ UNCHANGED <<stdout, exit>>
    BY <1>4 DEF SlurpTo
  <2> QED
    BY <1>0, <2>1, ControlGoesOn DEF Reported, BeforePass
<1>5. CASE SlurpFails("slurp_file", command.file) \/ SlurpFails("slurp_to", command.to) \/ MetadataFails
  <2>1. PICK code \in {1, 101, 134} : Exit(code)
    BY <1>5 DEF SlurpFails, MetadataFails
  <2>2. pc \notin Reported /\ UNCHANGED <<from, json, stdout>>
    BY <1>5 DEF SlurpFails, MetadataFails, Reported
  <2> QED
    BY <1>0, <2>1, <2>2, ControlAtExit
<1>6. CASE MakeJson
  <2>1. /\ pc = "metadata" /\ files[command.file] # NoFile
        /\ pc' = "create" /\ UNCHANGED <<from, stdout, exit>>
        /\ \E heap : json' = [size |-> files[command.file].size, heap |-> heap]
    BY <1>6 DEF MakeJson
  <2>2. files[command.file].size \in Nat
    BY <1>0, <2>1, CommandFacts DEF FilesInv, Content
  <2>3. json'.size = files[command.file].size
    BY <2>1
  <2>4. NoJson.size = -1
    BY DEF NoJson
  <2>5. json' # NoJson
    BY <2>2, <2>3, <2>4
  <2>6. from' # NoFile
    BY <1>0, <2>1 DEF ControlInv
  <2> QED
    BY <1>0, <2>1, <2>5, <2>6, ControlGoesOn DEF Reported, BeforePass
<1>7. CASE CreateFile \/ WriteJson
  <2>1. pc \in {"create", "to_writer"} /\ pc \notin Reported /\ UNCHANGED <<from, json, stdout>>
    BY <1>7 DEF CreateFile, WriteJson, Reported
  <2>2. CASE Exit(1)
    BY <1>0, <2>1, <2>2, ControlAtExit
  <2>3. CASE pc' \in {"to_writer", "announce"} /\ UNCHANGED exit
    <3>1. from' # NoFile /\ json' # NoJson
      BY <1>0, <2>1 DEF ControlInv
    <3> QED
      BY <1>0, <2>1, <2>3, <3>1, ControlGoesOn DEF Reported, BeforePass
  <2> QED
    BY <1>7, <2>2, <2>3 DEF CreateFile, WriteJson
<1>8. CASE AnnounceJson
  <2>1. pc = "announce" /\ UNCHANGED <<from, json>>
    BY <1>8 DEF AnnounceJson
  <2>2. CASE Exit(101) /\ UNCHANGED stdout
    BY <1>0, <2>1, <2>2, ControlAtPanic
  <2>3. CASE pc' = "print" /\ Prints([what |-> "json_file", path |-> Output]) /\ UNCHANGED exit
    <3> DEFINE x == [what |-> "json_file", path |-> Output]
    <3>1. stdout' = Append(stdout, x) /\ stdout \in Seq(Range(stdout)) /\ x.what = "json_file"
      BY <1>0, <2>3 DEF Prints, ControlInv
    <3> HIDE DEF x
    <3>2. /\ stdout' \in Seq(Range(stdout'))
          /\ Printed("text")' = Printed("text") /\ Printed("diff")' = Printed("diff")
      <4>1. /\ stdout' \in Seq(Range(stdout'))
            /\ \A what : Printed(what)' = Printed(what) \cup (IF x.what = what THEN {Len(stdout) + 1} ELSE {})
        BY <3>1, PrintedAfter
      <4> QED
        BY <3>1, <4>1
    <3> QED
      BY <1>0, <2>1, <2>3, <3>2 DEF ControlInv, Reported, BeforePass, ExitTellsReport
  <2> QED
    BY <1>8, <2>2, <2>3 DEF AnnounceJson, PrintThen
<1>9. ASSUME pc \in {"print", "print_diff"}, UNCHANGED <<from, json>>, NEW x, x.what \in {"text", "diff"},
             pc' = "finish", stdout' = Append(stdout, x), UNCHANGED exit
      PROVE  ControlInv'
  <2>1. stdout \in Seq(Range(stdout))
    BY <1>0 DEF ControlInv
  <2>2. /\ stdout' \in Seq(Range(stdout'))
        /\ \A what : Printed(what)' = Printed(what) \cup (IF x.what = what THEN {Len(stdout) + 1} ELSE {})
    BY <1>9, <2>1, PrintedAfter
  <2>3. Printed("text")' \cup Printed("diff")' # {}
    <3>1. Printed(x.what)' # {}
      BY <2>2
    <3> QED
      BY <1>9, <3>1
  <2> QED
    BY <1>0, <1>9, <2>2, <2>3 DEF ControlInv, Reported, BeforePass, ExitTellsReport
<1>10. CASE PrintText
  <2>1. pc = "print" /\ UNCHANGED <<from, json>>
    BY <1>10 DEF PrintText
  <2> DEFINE x == [what |-> "text", memory |-> render_memory_usage(usage, command.top)]
  <2>2. CASE Exit(101) /\ UNCHANGED stdout
    BY <1>0, <2>1, <2>2, ControlAtPanic
  <2>3. CASE pc' = "finish" /\ Prints(x) /\ UNCHANGED exit
    <3>1. stdout' = Append(stdout, x) /\ x.what = "text"
      BY <2>3 DEF Prints
    <3> HIDE DEF x
    <3> QED
      BY <1>9, <2>1, <2>3, <3>1
  <2>4. (Exit(101) /\ UNCHANGED stdout) \/ (pc' = "finish" /\ Prints(x) /\ UNCHANGED exit)
    BY <1>10 DEF PrintText, PrintThen
  <2> QED
    BY <2>2, <2>3, <2>4
<1>11. CASE PrintDiff
  <2>1. pc = "print_diff" /\ UNCHANGED <<from, json>>
    BY <1>11 DEF PrintDiff
  <2>2. PICK e : PrintThen([what |-> "diff", diff |-> render(from.rows, to.rows, e, command.top)], "finish")
    BY <1>11 DEF PrintDiff
  <2> DEFINE x == [what |-> "diff", diff |-> render(from.rows, to.rows, e, command.top)]
  <2>3. CASE Exit(101) /\ UNCHANGED stdout
    BY <1>0, <2>1, <2>3, ControlAtPanic
  <2>4. CASE pc' = "finish" /\ Prints(x) /\ UNCHANGED exit
    <3>1. stdout' = Append(stdout, x) /\ x.what = "diff"
      BY <2>4 DEF Prints
    <3> HIDE DEF x
    <3> QED
      BY <1>9, <2>1, <2>4, <3>1
  <2>5. (Exit(101) /\ UNCHANGED stdout) \/ (pc' = "finish" /\ Prints(x) /\ UNCHANGED exit)
    BY <2>2 DEF PrintThen
  <2> QED
    BY <2>3, <2>4, <2>5
<1>12. CASE Finish
  <2>1. pc = "finish" /\ UNCHANGED <<from, json>>
    BY <1>12 DEF Finish
  <2>2. CASE Exit(101) /\ UNCHANGED stdout
    BY <1>0, <2>1, <2>2, ControlAtPanic
  <2>3. CASE Prints([what |-> "success"]) /\ Exit(0)
    <3> DEFINE x == [what |-> "success"]
    <3>1. stdout' = Append(stdout, x) /\ stdout \in Seq(Range(stdout)) /\ x.what = "success"
      BY <1>0, <2>3 DEF Prints, ControlInv
    <3> HIDE DEF x
    <3>2. /\ stdout' \in Seq(Range(stdout'))
          /\ \A what : Printed(what)' = Printed(what) \cup (IF x.what = what THEN {Len(stdout) + 1} ELSE {})
      BY <3>1, PrintedAfter
    <3>3. /\ Printed("text")' = Printed("text") /\ Printed("diff")' = Printed("diff")
          /\ Printed("success")' # {}
      BY <3>1, <3>2
    <3>4. pc' = "exited" /\ exit' = 0
      BY <2>3 DEF Exit
    <3> QED
      BY <1>0, <2>1, <3>2, <3>3, <3>4 DEF ControlInv, Reported, BeforePass, ExitTellsReport
  <2> QED
    BY <1>12, <2>2, <2>3 DEF Finish
<1>13. CASE OthersChange \/ UNCHANGED vars
  <2>1. UNCHANGED <<pc, from, json, stdout, exit>>
    BY <1>13 DEF OthersChange, vars
  <2>2. \A what : Printed(what)' = Printed(what)
    BY <2>1, PrintedSame
  <2> QED
    BY <1>0, <2>1, <2>2 DEF ControlInv, Reported, BeforePass, ExitTellsReport
<1> QED
  BY <1>1, <1>2, <1>3, <1>4, <1>5, <1>6, <1>7, <1>8, <1>10, <1>11, <1>12, <1>13 DEF Next, Process, Exited

\* What was read, the JSON result and what is printed are made of the rows of one
\* dump, after every step.
LEMMA RowsStep ==
  ASSUME AppInv, [Next]_vars
  PROVE  RowsInv'
<1>0. FilesInv /\ ControlInv /\ RowsInv /\ stdout \in Seq(Range(stdout)) /\ command.top \in Nat
  BY CommandFacts DEF AppInv, ControlInv
<1>1. CASE UNCHANGED <<command, from, usage, json, stdout>>
  <2>1. Printed("text")' = Printed("text")
    BY <1>1, PrintedSame
  <2> QED
    BY <1>0, <1>1, <2>1 DEF RowsInv
<1>2. ASSUME UNCHANGED <<command, from, usage, json>>, NEW x, stdout' = Append(stdout, x),
             x.what = "text" => from # NoFile /\ x.memory = render_memory_usage(usage, command.top)
      PROVE  RowsInv'
  <2> DEFINE l == Len(stdout) + 1
  <2>1. /\ Printed("text")' = Printed("text") \cup (IF x.what = "text" THEN {l} ELSE {})
        /\ \A i \in Printed("text") : stdout'[i] = stdout[i]
        /\ stdout'[l] = x
    BY <1>0, <1>2, PrintedAfter
  <2> HIDE DEF l
  <2>2. ASSUME NEW i \in Printed("text")'
        PROVE  /\ from' # NoFile
               /\ \E rows \in Rearrangements(from'.rows) :
                    stdout'[i].memory = render_memory_usage(rows, command'.top)
    <3>1. CASE i \in Printed("text")
      <4>1. from # NoFile /\ \E rows \in Rearrangements(from.rows) :
                               stdout[i].memory = render_memory_usage(rows, command.top)
        BY <1>0, <3>1 DEF RowsInv
      <4>2. stdout'[i] = stdout[i]
        BY <2>1, <3>1
      <4> QED
        BY <1>2, <4>1, <4>2
    <3>2. CASE x.what = "text" /\ i = l
      <4>1. from # NoFile /\ usage \in Rearrangements(from.rows)
        BY <1>0, <1>2, <3>2 DEF RowsInv
      <4>2. stdout'[i].memory = render_memory_usage(usage, command.top)
        BY <1>2, <2>1, <3>2
      <4> QED
        BY <1>2, <4>1, <4>2
    <3> QED
      BY <2>1, <3>1, <3>2
  <2> QED
    BY <1>0, <1>2, <2>2 DEF RowsInv
<1>3. CASE ParseArgs \/ CheckFrom \/ CheckTo \/ SlurpTo \/ CreateFile \/ WriteJson \/ MetadataFails
           \/ SlurpFails("slurp_file", command.file) \/ SlurpFails("slurp_to", command.to)
  BY <1>1, <1>3 DEF ParseArgs, CheckFrom, CheckTo, CheckFile, SlurpTo, CreateFile, WriteJson,
                    MetadataFails, SlurpFails
<1>4. CASE SlurpFrom
  <2>1. /\ pc = "slurp_file" /\ Readable(command.file) /\ from' = files[command.file]
        /\ usage' = files[command.file].rows /\ UNCHANGED <<command, json, stdout>>
    BY <1>4 DEF SlurpFrom
  <2>2. json' = NoJson /\ Printed("text")' = {}
    <3>1. json = NoJson /\ Printed("text") = {}
      BY <1>0, <2>1 DEF ControlInv, BeforePass, Reported
    <3> QED
      BY <2>1, <3>1, PrintedSame
  <2>3. files[command.file].rows \in Seq(ClassAllocationStats)
    BY <1>0, <2>1, CommandFacts, DumpRead
  <2>4. usage' \in Rearrangements(from'.rows)
    BY <2>1, <2>3, RearrangedNot
  <2> QED
    BY <2>1, <2>2, <2>3, <2>4 DEF RowsInv
<1>5. CASE MakeJson
  <2> DEFINE j == JsonHeap(usage, command.top)
  <2>1. /\ pc = "metadata" /\ files[command.file] # NoFile
        /\ json' = [size |-> files[command.file].size, heap |-> j.heap]
        /\ usage' = j.rows /\ UNCHANGED <<command, from, stdout>>
    BY <1>5 DEF MakeJson
  <2>2. from # NoFile /\ from.rows \in Seq(ClassAllocationStats) /\ usage \in Rearrangements(from.rows)
    BY <1>0, <2>1 DEF ControlInv, RowsInv
  <2>3. j.rows \in Rearrangements(from.rows)
    BY <1>0, <2>2, JsonFacts
  <2>4. files[command.file].size \in Nat
    BY <1>0, <2>1, CommandFacts DEF FilesInv, Content
  <2>5. Printed("text")' = Printed("text")
    BY <2>1, PrintedSame
  <2> HIDE DEF j
  <2>6. json'.size \in Nat /\ json'.heap = j.heap /\ usage' \in Rearrangements(from'.rows)
    BY <2>1, <2>3, <2>4
  <2>7. \E rows \in Rearrangements(from'.rows) : json'.heap = JsonHeap(rows, command'.top).heap
    <3>1. json'.heap = JsonHeap(usage, command'.top).heap
      BY <2>1, <2>6 DEF j
    <3> QED
      BY <2>1, <2>2, <3>1
  <2>8. \A i \in Printed("text")' :
          /\ from' # NoFile
          /\ \E rows \in Rearrangements(from'.rows) :
               stdout'[i].memory = render_memory_usage(rows, command'.top)
    BY <1>0, <2>1, <2>5 DEF RowsInv
  <2> QED
    BY <2>1, <2>2, <2>6, <2>7, <2>8 DEF RowsInv
<1>6. CASE AnnounceJson
  <2> DEFINE x == [what |-> "json_file", path |-> Output]
  <2>1. UNCHANGED <<command, from, usage, json>> /\ (UNCHANGED stdout \/ stdout' = Append(stdout, x))
    BY <1>6 DEF AnnounceJson, PrintThen, Prints
  <2>2. x.what = "json_file"
    OBVIOUS
  <2> HIDE DEF x
  <2> QED
    BY <1>1, <1>2, <2>1, <2>2
<1>7. CASE PrintText
  <2> DEFINE x == [what |-> "text", memory |-> render_memory_usage(usage, command.top)]
  <2>1. UNCHANGED <<command, from, usage, json>> /\ (UNCHANGED stdout \/ stdout' = Append(stdout, x))
    BY <1>7 DEF PrintText, PrintThen, Prints
  <2>2. x.memory = render_memory_usage(usage, command.top)
    OBVIOUS
  <2>3. from # NoFile
    BY <1>0, <1>7 DEF PrintText, ControlInv
  <2> HIDE DEF x
  <2> QED
    BY <1>1, <1>2, <2>1, <2>2, <2>3
<1>8. CASE PrintDiff
  <2>1. PICK e : PrintThen([what |-> "diff", diff |-> render(from.rows, to.rows, e, command.top)], "finish")
    BY <1>8 DEF PrintDiff
  <2> DEFINE x == [what |-> "diff", diff |-> render(from.rows, to.rows, e, command.top)]
  <2>2. UNCHANGED <<command, from, usage, json>> /\ (UNCHANGED stdout \/ stdout' = Append(stdout, x))
    BY <1>8, <2>1 DEF PrintDiff, PrintThen, Prints
  <2>3. x.what = "diff"
    OBVIOUS
  <2> HIDE DEF x
  <2> QED
    BY <1>1, <1>2, <2>2, <2>3
<1>9. CASE Finish
  <2> DEFINE x == [what |-> "success"]
  <2>1. UNCHANGED <<command, from, usage, json>> /\ (UNCHANGED stdout \/ stdout' = Append(stdout, x))
    BY <1>9 DEF Finish, Prints
  <2>2. x.what = "success"
    OBVIOUS
  <2> HIDE DEF x
  <2> QED
    BY <1>1, <1>2, <2>1, <2>2
<1>10. CASE OthersChange \/ UNCHANGED vars
  BY <1>1, <1>10 DEF OthersChange, vars
<1> QED
  BY <1>3, <1>4, <1>5, <1>6, <1>7, <1>8, <1>9, <1>10 DEF Next, Process, Exited

\* The size is that of the dump if files have not changed, after every step.
LEMMA SizeStep ==
  ASSUME AppInv, [Next]_vars
  PROVE  SizeInv'
<1>0. FilesInv /\ ControlInv /\ SizeInv
  BY DEF AppInv
<1>1. CASE changes' # 0
  BY <1>1 DEF SizeInv, JsonSizeFresh
<1>2. CASE changes' = 0 /\ SlurpFrom
  <2>1. from' = files[command.file] /\ UNCHANGED <<command, files, json>> /\ pc = "slurp_file"
    BY <1>2 DEF SlurpFrom
  <2>2. json' = NoJson
    BY <1>0, <2>1 DEF ControlInv, BeforePass
  <2> QED
    BY <2>1, <2>2 DEF SizeInv, JsonSizeFresh
<1>3. CASE changes' = 0 /\ MakeJson
  <2>1. /\ pc = "metadata" /\ pc' = "create" /\ UNCHANGED <<command, files, changes, from>>
        /\ \E heap : json' = [size |-> files[command.file].size, heap |-> heap]
    BY <1>3 DEF MakeJson
  <2>2. json'.size = files[command.file].size /\ files[command.file] = from
    BY <1>0, <1>3, <2>1 DEF SizeInv
  <2> QED
    BY <2>1, <2>2 DEF SizeInv, JsonSizeFresh
<1>4. CASE UNCHANGED <<changes, from, json>> /\ pc' # "metadata"
  BY <1>0, <1>4 DEF SizeInv, JsonSizeFresh
<1>5. CASE ParseArgs \/ CheckFrom \/ CheckTo \/ SlurpTo \/ CreateFile \/ WriteJson \/ MetadataFails
           \/ SlurpFails("slurp_file", command.file) \/ SlurpFails("slurp_to", command.to)
  BY <1>4, <1>5 DEF ParseArgs, CheckFrom, CheckTo, CheckFile, SlurpTo, CreateFile, WriteJson,
                    MetadataFails, SlurpFails, Exit
<1>6. CASE AnnounceJson \/ PrintText \/ PrintDiff \/ Finish
  BY <1>4, <1>6 DEF AnnounceJson, PrintText, PrintDiff, Finish, PrintThen, Exit
<1>7. CASE OthersChange
  <2>1. changes' = changes + 1 /\ changes \in Nat
    BY <1>0, <1>7, BoundsAssumption DEF OthersChange, FilesInv
  <2> QED
    BY <1>1, <2>1
<1>8. CASE UNCHANGED vars
  BY <1>0, <1>8 DEF vars, SizeInv, JsonSizeFresh
<1> QED
  BY <1>1, <1>2, <1>3, <1>5, <1>6, <1>7, <1>8 DEF Next, Process, Exited

\* A diff is that of the rows that were read, after every step.
LEMMA DiffStep ==
  ASSUME AppInv, [Next]_vars
  PROVE  DiffInv'
<1>0. FilesInv /\ ControlInv /\ DiffInv /\ stdout \in Seq(Range(stdout))
  BY DEF AppInv, ControlInv
<1>1. CASE /\ UNCHANGED <<command, from, to, stdout>>
           /\ pc' \in {"slurp_to", "print_diff"} => pc' = pc
  <2>1. Printed("diff")' = Printed("diff")
    BY <1>1, PrintedSame
  <2> QED
    BY <1>0, <1>1, <2>1 DEF DiffInv
<1>2. ASSUME UNCHANGED <<command, from, to>>, pc' \notin {"slurp_to", "print_diff"},
             NEW x, stdout' = Append(stdout, x),
             x.what = "diff" =>
               /\ from # NoFile /\ to # NoFile
               /\ x.diff = render(from.rows, to.rows, compute(from.rows, to.rows), command.top)
      PROVE  DiffInv'
  <2> DEFINE l == Len(stdout) + 1
  <2>1. /\ Printed("diff")' = Printed("diff") \cup (IF x.what = "diff" THEN {l} ELSE {})
        /\ \A i \in Printed("diff") : stdout'[i] = stdout[i]
        /\ stdout'[l] = x
    BY <1>0, <1>2, PrintedAfter
  <2> HIDE DEF l
  <2> DEFINE right == render(from.rows, to.rows, compute(from.rows, to.rows), command.top)
  <2>2. ASSUME NEW i \in Printed("diff")' PROVE from # NoFile /\ to # NoFile /\ stdout'[i].diff = right
    <3>1. CASE i \in Printed("diff")
      BY <1>0, <2>1, <3>1 DEF DiffInv
    <3>2. CASE x.what = "diff" /\ i = l
      BY <1>2, <2>1, <3>2
    <3> QED
      BY <2>1, <3>1, <3>2
  <2>3. right' = right
    BY <1>2
  <2>4. from' = from /\ to' = to /\ (to # NoFile => to.rows \in Seq(ClassAllocationStats))
    BY <1>0, <1>2 DEF DiffInv
  <2> QED
    BY <1>2, <2>2, <2>3, <2>4 DEF DiffInv
<1>3. CASE ParseArgs \/ CheckFrom \/ CheckTo \/ MakeJson \/ CreateFile \/ WriteJson \/ MetadataFails
           \/ SlurpFails("slurp_file", command.file) \/ SlurpFails("slurp_to", command.to)
  BY <1>1, <1>3 DEF ParseArgs, CheckFrom, CheckTo, CheckFile, MakeJson, CreateFile, WriteJson,
                    MetadataFails, SlurpFails, Exit
<1>4. CASE SlurpFrom \/ SlurpTo
  <2>1. pc \notin Reported /\ UNCHANGED stdout
    BY <1>4 DEF SlurpFrom, SlurpTo, Reported
  <2>2. Printed("diff")' = {}
    <3>1. Printed("diff") = {}
      BY <1>0, <2>1 DEF ControlInv
    <3> QED
      BY <2>1, <3>1, PrintedSame
  <2>3. CASE SlurpFrom
    <3>1. from' = files[command.file] /\ Readable(command.file) /\ to' = to /\ pc' # "print_diff"
      BY <2>3 DEF SlurpFrom
    <3>2. from' # NoFile
      BY <1>0, <3>1, CommandFacts, DumpRead
    <3> QED
      BY <1>0, <2>2, <3>1, <3>2 DEF DiffInv
  <2>4. CASE SlurpTo
    <3>1. to' = files[command.to] /\ Readable(command.to) /\ from' = from /\ from # NoFile
      BY <1>0, <2>4 DEF SlurpTo, DiffInv
    <3>2. to' # NoFile /\ to'.rows \in Seq(ClassAllocationStats)
      BY <1>0, <3>1, CommandFacts, DumpRead
    <3> QED
      BY <1>0, <2>2, <3>1, <3>2 DEF DiffInv
  <2> QED
    BY <1>4, <2>3, <2>4
<1>5. ASSUME NEW x, x.what # "diff", UNCHANGED <<command, from, to>>,
             pc' \notin {"slurp_to", "print_diff"}, UNCHANGED stdout \/ stdout' = Append(stdout, x)
      PROVE  DiffInv'
  BY <1>1, <1>2, <1>5
<1>6. CASE AnnounceJson
  <2> DEFINE x == [what |-> "json_file", path |-> Output]
  <2>1. /\ UNCHANGED <<command, from, to>> /\ pc' \in {"exited", "print"}
        /\ UNCHANGED stdout \/ stdout' = Append(stdout, x)
    BY <1>6 DEF AnnounceJson, PrintThen, Prints, Exit
  <2>2. x.what # "diff"
    OBVIOUS
  <2> HIDE DEF x
  <2> QED
    BY <1>5, <2>1, <2>2
<1>7. CASE PrintText
  <2> DEFINE x == [what |-> "text", memory |-> render_memory_usage(usage, command.top)]
  <2>1. /\ UNCHANGED <<command, from, to>> /\ pc' \in {"exited", "finish"}
        /\ UNCHANGED stdout \/ stdout' = Append(stdout, x)
    BY <1>7 DEF PrintText, PrintThen, Prints, Exit
  <2>2. x.what # "diff"
    OBVIOUS
  <2> HIDE DEF x
  <2> QED
    BY <1>5, <2>1, <2>2
<1>8. CASE PrintDiff
  <2> DEFINE right == render(from.rows, to.rows, compute(from.rows, to.rows), command.top)
             x == [what |-> "diff", diff |-> right]
  <2>1. /\ UNCHANGED <<command, from, to>> /\ pc' \in {"exited", "finish"} /\ pc = "print_diff"
        /\ UNCHANGED stdout \/ stdout' = Append(stdout, x)
    BY <1>8 DEF PrintDiff, PrintThen, Prints, Exit
  <2>2. from # NoFile /\ to # NoFile
    BY <1>0, <2>1 DEF DiffInv
  <2>3. x.diff = right
    OBVIOUS
  <2> HIDE DEF x
  <2> QED
    BY <1>1, <1>2, <2>1, <2>2, <2>3
<1>9. CASE Finish
  <2> DEFINE x == [what |-> "success"]
  <2>1. /\ UNCHANGED <<command, from, to>> /\ pc' = "exited"
        /\ UNCHANGED stdout \/ stdout' = Append(stdout, x)
    BY <1>9 DEF Finish, Prints, Exit
  <2>2. x.what # "diff"
    OBVIOUS
  <2> HIDE DEF x
  <2> QED
    BY <1>5, <2>1, <2>2
<1>10. CASE OthersChange \/ UNCHANGED vars
  BY <1>1, <1>10 DEF OthersChange, vars
<1> QED
  BY <1>3, <1>4, <1>6, <1>7, <1>8, <1>9, <1>10 DEF Next, Process, Exited

-----------------------------------------------------------------------------
(***************************************************************************)
(* The theorems.                                                           *)
(***************************************************************************)

\* The invariant holds in every state, whatever other processes do to the files and
\* whatever fails.
THEOREM AppInvCorrect == Spec => []AppInv
<1>1. AppInv /\ [Next]_vars => AppInv'
  BY FilesStep, ControlStep, RowsStep, SizeStep, DiffStep DEF AppInv
<1> QED
  BY <1>1, InitInv, PTL DEF Spec

\* TypeOK in every state.  Its last conjunct is about the sorts in place of
\* rendered_result.rs: none of them loses, doubles or invents a row.
THEOREM AppTypeCorrect == Spec => []TypeOK
<1>1. AppInv => TypeOK
  <2> SUFFICES ASSUME AppInv PROVE TypeOK
    OBVIOUS
  <2>1. ASSUME from # NoFile
        PROVE  \A r \in Range(usage) \cup Range(from.rows) : Count(usage, r) = Count(from.rows, r)
    <3>1. from.rows \in Seq(ClassAllocationStats) /\ usage \in Rearrangements(from.rows)
      BY <2>1 DEF AppInv, RowsInv
    <3> QED
      BY <3>1, CountKept
  <2> QED
    BY <2>1 DEF AppInv, FilesInv, ControlInv, RowsInv, TypeOK
<1> QED
  BY <1>1, AppInvCorrect, PTL

\* The text shows the total and the top rows of the dump that was read, in whatever
\* order sorts for the JSON result have left the rows (rendered_result.rs).
THEOREM ReportCorrect == Spec => []ReportFaithful
<1>1. AppInv => ReportFaithful
  <2> SUFFICES ASSUME AppInv, NEW i \in Printed("text")
               PROVE  LET m == stdout[i].memory IN
                      /\ m.total = total_shallow_bytes(from.rows)
                      /\ ShowsTop(m.tops.top_allocated_classes, from.rows, command.top, Allocation)
                      /\ ShowsTop(m.tops.top_largest_instances, from.rows, command.top, Largest)
    BY DEF ReportFaithful
  <2>1. from # NoFile
    BY DEF AppInv, RowsInv
  <2>2. PICK r \in Rearrangements(from.rows) : stdout[i].memory = render_memory_usage(r, command.top)
    BY DEF AppInv, RowsInv
  <2>3. from.rows \in Seq(ClassAllocationStats) /\ command.top \in Nat
    BY <2>1, CommandFacts DEF AppInv, RowsInv
  <2> QED
    BY <2>2, <2>3, TextFaithful
<1> QED
  BY <1>1, AppInvCorrect, PTL

\* The text and the JSON result of a run agree on the total, the number of classes
\* and, place by place, on the sizes (main.rs:53-67, rendered_result.rs).
THEOREM JsonTextCorrect == Spec => []JsonAgreesWithText
<1>1. AppInv => JsonAgreesWithText
  <2> SUFFICES ASSUME AppInv, NEW i \in Printed("text"), json # NoJson
               PROVE  LET m == stdout[i].memory
                          Sizes(list, Size(_)) == [k \in DOMAIN list |-> Size(list[k])]
                      IN /\ json.heap.total = m.total
                         /\ json.heap.class_count = Len(from.rows)
                         /\ Sizes(json.heap.tops.top_allocated_classes, Allocation)
                              = Sizes(m.tops.top_allocated_classes, Allocation)
                         /\ Sizes(json.heap.tops.top_largest_instances, Largest)
                              = Sizes(m.tops.top_largest_instances, Largest)
    BY DEF JsonAgreesWithText
  <2>1. from # NoFile
    BY DEF AppInv, RowsInv
  <2>2. PICK r \in Rearrangements(from.rows) : stdout[i].memory = render_memory_usage(r, command.top)
    BY DEF AppInv, RowsInv
  <2>3. PICK q \in Rearrangements(from.rows) : json.heap = JsonHeap(q, command.top).heap
    BY DEF AppInv, RowsInv
  <2>4. from.rows \in Seq(ClassAllocationStats) /\ command.top \in Nat
    BY <2>1, CommandFacts DEF AppInv, RowsInv
  <2> QED
    BY <2>2, <2>3, <2>4, TextLikeJson, SMTT(30)
<1> QED
  BY <1>1, AppInvCorrect, PTL

\* The exit code tells whether there is a report: no run of main ends with 0 and
\* without one, and none that reports an error has printed one (main.rs:19-27, :53-67).
THEOREM ExitCorrect == Spec => []ExitTellsReport
<1>1. AppInv => ExitTellsReport
  BY DEF AppInv, ControlInv
<1> QED
  BY <1>1, AppInvCorrect, PTL

\* The size in the JSON result is that of the dump that was read, unless files were
\* changed: the process itself never changes it between the pass and the second look
\* at the file (main.rs:56).
THEOREM SizeCorrect == Spec => []JsonSizeFresh
<1>1. AppInv => JsonSizeFresh
  BY DEF AppInv, SizeInv
<1> QED
  BY <1>1, AppInvCorrect, PTL

\* What the diff needs of the state.
LEMMA DiffRead ==
  ASSUME AppInv, NEW i \in Printed("diff")
  PROVE  /\ from.rows \in Seq(ClassAllocationStats) /\ to.rows \in Seq(ClassAllocationStats)
         /\ command.top \in Nat
         /\ stdout[i].diff = render(from.rows, to.rows, compute(from.rows, to.rows), command.top)
  BY CommandFacts DEF AppInv, DiffInv, RowsInv

\* The diff has every class name that changed, once, most grown first and then by
\* name: an order that does not depend on that of the hash maps (diff.rs:46-86).
THEOREM DiffCorrect == Spec => []DiffExact
<1>1. AppInv => DiffExact
  <2> SUFFICES ASSUME AppInv, NEW i \in Printed("diff")
               PROVE  ExactIn(from.rows, to.rows, stdout[i].diff, command.top)
    BY ZenonT(60) DEF DiffExact, ExactIn, Growth, GrowthIn, ChangedNames, ChangedIn
  <2> QED
    BY DiffRead, DiffIsExact
<1> QED
  BY <1>1, AppInvCorrect, PTL

\* When all entries are shown, their deltas add up to the net difference: names that
\* are left out did not change, whichever rows they have (diff.rs:88-103).
THEOREM NetCorrect == Spec => []NetIsSumOfDeltas
<1>1. AppInv => NetIsSumOfDeltas
  <2> SUFFICES ASSUME AppInv, NEW i \in Printed("diff"), stdout[i].diff.differences <= command.top
               PROVE  stdout[i].diff.net = SumOf([k \in DOMAIN stdout[i].diff.shown |->
                                                    delta_bytes(stdout[i].diff.shown[k])])
    BY DEF NetIsSumOfDeltas
  <2> QED
    BY DiffRead, NetIsRight
<1> QED
  BY <1>1, AppInvCorrect, PTL
=============================================================================
