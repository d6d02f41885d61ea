------------------------------ MODULE SumLemmas ------------------------------
(***************************************************************************)
(* Induction over the natural numbers in a form that needs no operator as  *)
(* a parameter (a set of numbers takes the place of the predicate), and    *)
(* what follows from it for the sums of sequences.                         *)
(***************************************************************************)
EXTENDS Sums, Functions, FiniteSetTheorems, TLAPS, NaturalsInduction, WellFoundedInduction

\* A set of numbers that has an element has a least one.
LEMMA LeastNumber ==
  ASSUME NEW S, S \subseteq Nat, S # {}
  PROVE  \E m \in S : \A k \in S : m <= k
<1>1. IsWellFoundedOn(OpToRel(<, Nat), Nat)
  BY NatLessThanWellFounded
<1>2. PICK m \in S : ~(\E y \in S : <<y, m>> \in OpToRel(<, Nat))
  BY <1>1, WFMin, Zenon
<1> QED
  BY <1>2 DEF OpToRel

\* Induction: a set that has 0, and n + 1 if it has n, has every number.
LEMMA Induction ==
  ASSUME NEW S, 0 \in S, \A n \in Nat : n \in S => n + 1 \in S
  PROVE  \A n \in Nat : n \in S
<1> SUFFICES ASSUME NEW n \in Nat, n \notin S PROVE FALSE
  OBVIOUS
<1> DEFINE B == {k \in Nat : k \notin S}
<1>1. B \subseteq Nat /\ B # {}
  OBVIOUS
<1>2. PICK m \in B : \A k \in B : m <= k
  BY <1>1, LeastNumber
<1>3. m # 0 /\ m - 1 \in Nat /\ m - 1 \notin B
  BY <1>2
<1> QED
  BY <1>3

\* The same up to a limit.
LEMMA BoundedInduction ==
  ASSUME NEW n \in Nat, NEW S, 0 \in S, \A k \in 0..(n - 1) : k \in S => k + 1 \in S
  PROVE  \A k \in 0..n : k \in S
<1> DEFINE T == {k \in Nat : k <= n => k \in S}
<1>1. 0 \in T
  OBVIOUS
<1>2. \A k \in Nat : k \in T => k + 1 \in T
  OBVIOUS
<1> HIDE DEF T
<1>3. \A k \in Nat : k \in T
  BY <1>1, <1>2, Induction
<1> QED
  BY <1>3 DEF T
-----------------------------------------------------------------------------
\* f is the function of the partial sums of w up to n.
IsSums(f, w, n) == f = [k \in 0..n |-> IF k = 0 THEN 0 ELSE f[k - 1] + w[k]]

\* There are partial sums of every length.
LEMMA SumsExist == ASSUME NEW w PROVE \A n \in Nat : \E f : IsSums(f, w, n)
<1> DEFINE S == {n \in Nat : \E f : IsSums(f, w, n)}
<1>1. 0 \in S
  <2>1. IsSums([k \in 0..0 |-> 0], w, 0)
    BY DEF IsSums
  <2> QED
    BY <2>1
<1>2. ASSUME NEW n \in Nat, n \in S PROVE n + 1 \in S
  <2>1. PICK f : IsSums(f, w, n)
    BY <1>2
  <2> DEFINE g == [k \in 0..(n + 1) |-> IF k = n + 1 THEN f[n] + w[n + 1] ELSE f[k]]
  <2>2. IsSums(g, w, n + 1)
    BY <2>1 DEF IsSums
  <2> QED
    BY <2>2
<1> HIDE DEF S
<1>3. \A n \in Nat : n \in S
  BY <1>1, <1>2, Induction
<1> QED
  BY <1>3 DEF S

\* The recursive definition of SumTo is satisfied.
LEMMA SumSteps ==
  ASSUME NEW s, Len(s) \in Nat
  PROVE  /\ SumTo(s, 0) = 0
         /\ \A k \in 1..Len(s) : SumTo(s, k) = SumTo(s, k - 1) + s[k]
<1> DEFINE f == CHOOSE g : g = [j \in 0..Len(s) |-> IF j = 0 THEN 0 ELSE g[j - 1] + s[j]]
<1>1. \E g : g = [j \in 0..Len(s) |-> IF j = 0 THEN 0 ELSE g[j - 1] + s[j]]
  BY SumsExist DEF IsSums
<1>2. f = [j \in 0..Len(s) |-> IF j = 0 THEN 0 ELSE f[j - 1] + s[j]]
  BY <1>1
<1>3. \A k : SumTo(s, k) = f[k]
  BY DEF SumTo
<1> HIDE DEF f
<1>4. f[0] = 0 /\ \A k \in 1..Len(s) : f[k] = f[k - 1] + s[k]
  BY <1>2
<1> QED
  BY <1>3, <1>4

\* One place more adds its number.
LEMMA SumNext ==
  ASSUME NEW s, Len(s) \in Nat, NEW k \in Nat, NEW l, l = k + 1, l <= Len(s)
  PROVE  SumTo(s, l) = SumTo(s, k) + s[l]
<1>1. l \in 1..Len(s) /\ l - 1 = k
  OBVIOUS
<1>2. SumTo(s, l) = SumTo(s, l - 1) + s[l]
  BY <1>1, SumSteps
<1> QED
  BY <1>1, <1>2

\* Sums of numbers without a sign have none.
LEMMA SumIsNat ==
  ASSUME NEW s \in Seq(Nat)
  PROVE  \A k \in 0..Len(s) : SumTo(s, k) \in Nat
<1> DEFINE S == {k \in Nat : SumTo(s, k) \in Nat}
<1>1. /\ SumTo(s, 0) = 0
      /\ \A k \in 1..Len(s) : SumTo(s, k) = SumTo(s, k - 1) + s[k]
  BY SumSteps
<1>2. 0 \in S
  BY <1>1
<1>3. ASSUME NEW k \in 0..(Len(s) - 1), k \in S PROVE k + 1 \in S
  <2>1. SumTo(s, k + 1) = SumTo(s, k) + s[k + 1]
    BY <1>1
  <2>2. s[k + 1] \in Nat
    OBVIOUS
  <2> QED
    BY <2>1, <2>2, <1>3
<1> HIDE DEF S
<1>4. \A k \in 0..Len(s) : k \in S
  <2>1. Len(s) \in Nat /\ \A k \in 0..(Len(s) - 1) : k \in S => k + 1 \in S
    BY <1>3
  <2> QED
    BY <2>1, <1>2, BoundedInduction, Zenon
<1> QED
  BY <1>4 DEF S

\* Sums of natural numbers grow.
LEMMA SumsGrow ==
  ASSUME NEW s \in Seq(Nat)
  PROVE  \A i, j \in 0..Len(s) : i <= j => SumTo(s, i) <= SumTo(s, j)
<1> SUFFICES ASSUME NEW i \in 0..Len(s) PROVE \A j \in 0..Len(s) : i <= j => SumTo(s, i) <= SumTo(s, j)
  OBVIOUS
<1> DEFINE S == {j \in Nat : i <= j => SumTo(s, i) <= SumTo(s, j)}
<1>1. \A k \in 1..Len(s) : SumTo(s, k) = SumTo(s, k - 1) + s[k]
  BY SumSteps
<1>2. \A k \in 0..Len(s) : SumTo(s, k) \in Nat
  BY SumIsNat
<1>3. 0 \in S
  BY <1>2
<1>4. ASSUME NEW k \in 0..(Len(s) - 1), k \in S PROVE k + 1 \in S
  <2>1. SumTo(s, k + 1) = SumTo(s, k) + s[k + 1]
    BY <1>1
  <2>2. s[k + 1] \in Nat /\ SumTo(s, k) \in Nat /\ SumTo(s, i) \in Nat
    BY <1>2
  <2>3. CASE i <= k
    BY <2>1, <2>2, <2>3, <1>4
  <2>4. CASE ~(i <= k)
    BY <2>4, <2>2, <2>1
  <2> QED
    BY <2>3, <2>4
<1> HIDE DEF S
<1>5. \A j \in 0..Len(s) : j \in S
  <2>1. Len(s) \in Nat /\ \A k \in 0..(Len(s) - 1) : k \in S => k + 1 \in S
    BY <1>4
  <2> QED
    BY <2>1, <1>3, BoundedInduction, Zenon
<1> QED
  BY <1>5 DEF S

\* Two sequences that agree up to k have the same sum up to k.
LEMMA SumAgrees ==
  ASSUME NEW s, NEW t, Len(s) \in Nat, Len(t) \in Nat, NEW n \in Nat, n <= Len(s), n <= Len(t),
         \A i \in 1..n : s[i] = t[i]
  PROVE  SumTo(s, n) = SumTo(t, n)
<1> DEFINE S == {k \in Nat : SumTo(s, k) = SumTo(t, k)}
<1>1. 0 \in S
  BY SumSteps
<1>2. ASSUME NEW k \in 0..(n - 1), k \in S PROVE k + 1 \in S
  <2>1. SumTo(s, k + 1) = SumTo(s, k) + s[k + 1]
    BY SumSteps
  <2>2. SumTo(t, k + 1) = SumTo(t, k) + t[k + 1]
    BY SumSteps
  <2> QED
    BY <2>1, <2>2, <1>2
<1> HIDE DEF S
<1>3. \A k \in 0..n : k \in S
  BY <1>1, <1>2, BoundedInduction
<1> QED
  BY <1>3 DEF S

\* The numbers of s and then those of t.
LEMMA Joined ==
  ASSUME NEW s \in Seq(Nat), NEW t \in Seq(Nat), NEW u \in Seq(Nat), Len(u) = Len(s) + Len(t),
         \A i \in 1..Len(s) : u[i] = s[i], \A i \in 1..Len(t) : u[Len(s) + i] = t[i]
  PROVE  u = s \o t
<1> DEFINE r == s \o t
<1>1. /\ r \in Seq(Nat) /\ Len(r) = Len(s) + Len(t)
      /\ \A i \in 1..Len(s) : r[i] = s[i]
      /\ \A i \in 1..Len(t) : r[Len(s) + i] = t[i]
  OBVIOUS
<1> HIDE DEF r
<1>2. ASSUME NEW i \in 1..Len(u) PROVE u[i] = r[i]
  <2>1. CASE i <= Len(s)
    BY <1>1, <2>1
  <2>2. CASE i > Len(s)
    <3>1. i - Len(s) \in 1..Len(t) /\ Len(s) + (i - Len(s)) = i
      BY <2>2
    <3>2. u[Len(s) + (i - Len(s))] = t[i - Len(s)] /\ r[Len(s) + (i - Len(s))] = t[i - Len(s)]
      BY <1>1, <3>1
    <3> QED
      BY <3>1, <3>2
  <2> QED
    BY <2>1, <2>2
<1>3. u = r
  BY <1>1, <1>2
<1> QED
  BY <1>3 DEF r

\* The sum of a concatenation.
LEMMA SumOfConcat ==
  ASSUME NEW s \in Seq(Nat), NEW t \in Seq(Nat)
  PROVE  s \o t \in Seq(Nat) /\ SumOf(s \o t) = SumOf(s) + SumOf(t)
<1> DEFINE u == s \o t
           S == {k \in Nat : SumTo(u, Len(s) + k) = SumOf(s) + SumTo(t, k)}
<1>1. /\ u \in Seq(Nat) /\ Len(u) = Len(s) + Len(t)
      /\ \A i \in 1..Len(s) : u[i] = s[i]
      /\ \A i \in 1..Len(t) : u[Len(s) + i] = t[i]
  OBVIOUS
<1> HIDE DEF u
<1>2. SumTo(u, Len(s)) = SumTo(s, Len(s)) /\ SumOf(s) \in Nat
  <2>1. /\ Len(s) \in Nat /\ Len(u) \in Nat /\ Len(s) <= Len(u) /\ Len(s) <= Len(s)
        /\ \A i \in 1..Len(s) : u[i] = s[i]
    BY <1>1
  <2>2. SumTo(u, Len(s)) = SumTo(s, Len(s))
    BY <2>1, SumAgrees, Zenon
  <2> QED
    BY <2>2, SumIsNat DEF SumOf
<1>3. 0 \in S
  BY <1>2, SumSteps DEF SumOf
<1>4. ASSUME NEW k \in 0..(Len(t) - 1), k \in S PROVE k + 1 \in S
  <2>1. SumTo(t, k + 1) = SumTo(t, k) + t[k + 1]
    BY SumSteps, SMTT(30)
  <2>2. SumTo(u, Len(s) + k + 1) = SumTo(u, Len(s) + k) + u[Len(s) + k + 1]
    <3> DEFINE m == Len(s) + k + 1
    <3>1. m \in 1..Len(u) /\ m - 1 = Len(s) + k /\ Len(u) \in Nat
      BY <1>1, SMTT(30)
    <3> HIDE DEF m
    <3>2. SumTo(u, m) = SumTo(u, m - 1) + u[m]
      BY <3>1, SumSteps
    <3> QED
      BY <3>1, <3>2 DEF m
  <2>3. u[Len(s) + k + 1] = t[k + 1] /\ t[k + 1] \in Nat
    BY <1>1, SMTT(30)
  <2>4. SumTo(t, k) \in Nat
    BY SumIsNat
  <2>5. SumTo(u, Len(s) + k) = SumOf(s) + SumTo(t, k)
    BY <1>4
  <2>6. SumTo(u, Len(s) + (k + 1)) = SumOf(s) + SumTo(t, k + 1)
    BY <2>1, <2>2, <2>3, <2>4, <2>5, <1>2
  <2> QED
    BY <2>6
<1> HIDE DEF S
<1>5. \A k \in 0..Len(t) : k \in S
  <2>1. Len(t) \in Nat /\ \A k \in 0..(Len(t) - 1) : k \in S => k + 1 \in S
    BY <1>4
  <2> QED
    BY <2>1, <1>3, BoundedInduction, Zenon
<1>6. SumTo(u, Len(s) + Len(t)) = SumOf(s) + SumTo(t, Len(t))
  BY <1>5 DEF S
<1>7. Len(s \o t) = Len(s) + Len(t) /\ s \o t \in Seq(Nat)
  OBVIOUS
<1> QED
  BY <1>6, <1>7 DEF SumOf, u

\* Adding d to one number adds d to the sum.
LEMMA SumChanges ==
  ASSUME NEW s \in Seq(Nat), NEW x \in 1..Len(s), NEW d \in Nat
  PROVE  SumOf([s EXCEPT ![x] = s[x] + d]) = SumOf(s) + d
<1> DEFINE t == [s EXCEPT ![x] = s[x] + d]
<1>0. /\ t \in Seq(Nat) /\ Len(t) = Len(s) /\ t[x] = s[x] + d
      /\ \A i \in 1..Len(s) : i # x => t[i] = s[i]
  <2>1. s[x] + d \in Nat
    OBVIOUS
  <2> QED
    BY <2>1
<1> HIDE DEF t
<1> DEFINE n == Len(s)
           S == {k \in Nat : SumTo(t, k) = SumTo(s, k) + (IF x <= k THEN d ELSE 0)}
<1>1. /\ SumTo(s, 0) = 0 /\ \A k \in 1..Len(s) : SumTo(s, k) = SumTo(s, k - 1) + s[k]
      /\ SumTo(t, 0) = 0 /\ \A k \in 1..Len(t) : SumTo(t, k) = SumTo(t, k - 1) + t[k]
  <2>1. Len(s) \in Nat /\ Len(t) \in Nat
    BY <1>0
  <2>2. SumTo(s, 0) = 0 /\ \A k \in 1..Len(s) : SumTo(s, k) = SumTo(s, k - 1) + s[k]
    BY <2>1, SumSteps
  <2>3. SumTo(t, 0) = 0 /\ \A k \in 1..Len(t) : SumTo(t, k) = SumTo(t, k - 1) + t[k]
    BY <2>1, SumSteps
  <2> QED
    BY <2>2, <2>3
<1>2. /\ \A k \in 0..Len(s) : SumTo(s, k) \in Nat
      /\ \A k \in 0..Len(t) : SumTo(t, k) \in Nat
  BY <1>0, SumIsNat
<1>3. 0 \in S
  BY <1>1
<1>4. ASSUME NEW k \in 0..(n - 1), k \in S PROVE k + 1 \in S
  <2>0. /\ k \in 0..Len(s) /\ k \in 0..Len(t) /\ k + 1 \in 1..Len(s) /\ k + 1 \in 1..Len(t)
        /\ (k + 1) - 1 = k /\ s[k + 1] \in Nat /\ t[k + 1] \in Nat
    BY <1>0, SMTT(30)
  <2>1. /\ SumTo(s, k + 1) = SumTo(s, k) + s[k + 1] /\ SumTo(t, k + 1) = SumTo(t, k) + t[k + 1]
        /\ SumTo(s, k) \in Nat /\ SumTo(t, k) \in Nat /\ s[k + 1] \in Nat /\ t[k + 1] \in Nat
    <3>1. SumTo(s, k + 1) = SumTo(s, (k + 1) - 1) + s[k + 1]
      BY <1>1, <2>0, Zenon
    <3>2. SumTo(t, k + 1) = SumTo(t, (k + 1) - 1) + t[k + 1]
      BY <1>1, <2>0, Zenon
    <3> QED
      BY <1>2, <2>0, <3>1, <3>2, Zenon
  <2>2. SumTo(t, k) = SumTo(s, k) + (IF x <= k THEN d ELSE 0)
    BY <1>4
  <2>3. CASE k + 1 = x
    <3>1. t[k + 1] = s[k + 1] + d
      BY <1>0, <2>3
    <3> QED
      BY <2>1, <2>2, <2>3, <3>1
  <2>4. CASE k + 1 # x
    <3>1. t[k + 1] = s[k + 1]
      BY <1>0, <2>0, <2>4
    <3> QED
      BY <2>1, <2>2, <2>4, <3>1
  <2> QED
    BY <2>3, <2>4
<1>5. \A k \in 0..n : k \in S
  <2> HIDE DEF S
  <2>1. n \in Nat
    OBVIOUS
  <2> HIDE DEF n
  <2> QED
    BY <1>3, <1>4, <2>1, BoundedInduction
<1>6. SumOf(t) = SumOf(s) + d
  BY <1>0, <1>5 DEF SumOf
<1> QED
  BY <1>6 DEF t

\* The sum of noughts is nought.
LEMMA SumOfNoughts ==
  ASSUME NEW s \in Seq(Nat), \A i \in 1..Len(s) : s[i] = 0
  PROVE  SumOf(s) = 0
<1> DEFINE n == Len(s)
           S == {k \in Nat : SumTo(s, k) = 0}
<1>1. SumTo(s, 0) = 0 /\ \A k \in 1..Len(s) : SumTo(s, k) = SumTo(s, k - 1) + s[k]
  BY SumSteps
<1>2. 0 \in S
  BY <1>1
<1>3. ASSUME NEW k \in 0..(n - 1), k \in S PROVE k + 1 \in S
  BY <1>1, <1>3
<1>4. \A k \in 0..n : k \in S
  <2> HIDE DEF S
  <2>1. n \in Nat
    OBVIOUS
  <2> HIDE DEF n
  <2> QED
    BY <1>2, <1>3, <2>1, BoundedInduction
<1> QED
  BY <1>4 DEF SumOf

\* The order of the numbers does not change their sum: the first k numbers of t add up
\* to s with all but the k numbers they are set to nought.
LEMMA SumRearranged ==
  ASSUME NEW s \in Seq(Nat), NEW p \in [1..Len(s) -> 1..Len(s)],
         \A i, j \in 1..Len(s) : p[i] = p[j] => i = j,
         \A j \in 1..Len(s) : \E i \in 1..Len(s) : p[i] = j
  PROVE  SumOf([k \in 1..Len(s) |-> s[p[k]]]) = SumOf(s)
<1> DEFINE n == Len(s)
           t == [k \in 1..n |-> s[p[k]]]
           Mask(k) == [i \in 1..n |-> IF \E j \in 1..k : p[j] = i THEN s[i] ELSE 0]
           S == {k \in Nat : SumTo(t, k) = SumOf(Mask(k))}
<1>0. n \in Nat /\ \A i \in 1..n : s[i] \in Nat /\ p[i] \in 1..n
  <2>1. n \in Nat /\ \A i \in 1..n : s[i] \in Nat
    OBVIOUS
  <2>2. p \in [1..n -> 1..n]
    OBVIOUS
  <2> HIDE DEF n
  <2> QED
    BY <2>1, <2>2
<1>b. (\A i, j \in 1..n : p[i] = p[j] => i = j) /\ \A j \in 1..n : \E i \in 1..n : p[i] = j
  OBVIOUS
<1>a. t \in [1..n -> Nat]
  <2> HIDE DEF n
  <2> QED
    BY <1>0
<1>1. n \in Nat /\ t \in Seq(Nat) /\ Len(t) = n /\ (\A i \in 1..n : s[i] \in Nat /\ t[i] = s[p[i]])
  <2>1. \A i \in 1..n : t[i] = s[p[i]]
    OBVIOUS
  <2> HIDE DEF n, t
  <2> QED
    BY <1>0, <1>a, <2>1
<1>2. \A k : Mask(k) \in Seq(Nat) /\ Len(Mask(k)) = n
  <2> HIDE DEF n
  <2>1. \A k : Mask(k) \in [1..n -> Nat]
    BY <1>0
  <2> HIDE DEF Mask
  <2> QED
    BY <1>0, <2>1
<1>3. SumTo(t, 0) = 0 /\ \A k \in 1..n : SumTo(t, k) = SumTo(t, k - 1) + t[k]
  <2> HIDE DEF t, n
  <2> QED
    BY <1>1, SumSteps
<1>4. 0 \in S
  <2>1. \A i \in 1..Len(Mask(0)) : Mask(0)[i] = 0
    BY <1>2
  <2>2. SumOf(Mask(0)) = 0
    <3> HIDE DEF Mask
    <3> QED
      BY <1>2, <2>1, SumOfNoughts
  <2> HIDE DEF Mask, t
  <2> QED
    BY <1>3, <2>2
<1>5. ASSUME NEW k \in 0..(n - 1), k \in S PROVE k + 1 \in S
  <2> DEFINE x == p[k + 1]
  <2>7. SumTo(t, k) = SumOf(Mask(k))
    BY <1>5
  <2> HIDE DEF S, n
  <2>0. k \in Nat /\ k + 1 \in 1..n /\ (k + 1) - 1 = k /\ 1..k \subseteq 1..n /\ k + 1 \notin 1..k
    BY <1>0
  <2>1. x \in 1..n /\ s[x] \in Nat /\ t[k + 1] = s[x]
    BY <1>0, <1>1, <2>0
  <2>2. ~\E j \in 1..k : p[j] = x
    BY <1>b, <2>0
  <2> HIDE DEF x
  <2>3. Mask(k)[x] = 0
    BY <2>1, <2>2
  <2>8. Mask(k + 1)[x] = s[x]
    <3>1. \E j \in 1..(k + 1) : p[j] = x
      BY <2>0 DEF x
    <3> QED
      BY <2>1, <3>1
  <2>4. \A i \in 1..n : i # x => Mask(k + 1)[i] = Mask(k)[i]
    <3> SUFFICES ASSUME NEW i \in 1..n, i # x PROVE Mask(k + 1)[i] = Mask(k)[i]
      OBVIOUS
    <3>0. k \in Nat
      BY <2>0
    <3>1. 1..(k + 1) = (1..k) \cup {k + 1}
      BY <3>0
    <3>2. (\E j \in 1..(k + 1) : p[j] = i) <=> \E j \in 1..k : p[j] = i
      BY <3>1, Zenon DEF x
    <3> QED
      BY <3>2
  <2>5. SumOf(Mask(k + 1)) = SumOf(Mask(k)) + s[x]
    <3> DEFINE a == Mask(k)
               b == Mask(k + 1)
    <3>1. a \in Seq(Nat) /\ b \in Seq(Nat) /\ Len(a) = n /\ Len(b) = n
      BY <1>2, Zenon
    <3>2. a[x] = 0 /\ b[x] = s[x] /\ \A i \in 1..n : i # x => b[i] = a[i]
      BY <2>3, <2>4, <2>8, Zenon
    <3> HIDE DEF a, b
    <3>3. b[x] = a[x] + s[x]
      BY <2>1, <3>2
    <3>4. SumOf(b) = SumOf(a) + s[x]
      <4>1. x \in 1..Len(a) /\ s[x] \in Nat
        BY <2>1, <3>1
      <4>2. b = [a EXCEPT ![x] = a[x] + s[x]]
        BY <3>1, <3>2, <3>3
      <4> QED
        BY <3>1, <4>1, <4>2, SumChanges
    <3> QED
      BY <3>4, Zenon DEF a, b
  <2>6. SumTo(t, k + 1) = SumTo(t, k) + t[k + 1]
    <3>1. SumTo(t, k + 1) = SumTo(t, (k + 1) - 1) + t[k + 1]
      <4> HIDE DEF t
      <4> QED
        BY <1>3, <2>0, Zenon
    <3> HIDE DEF t
    <3> QED
      BY <2>0, <3>1
  <2>9. SumTo(t, k + 1) = SumOf(Mask(k + 1))
    <3> HIDE DEF t, Mask
    <3> QED
      BY <2>1, <2>5, <2>6, <2>7
  <2> QED
    BY <2>0, <2>9 DEF S
<1>6. \A k \in 0..n : k \in S
  <2> HIDE DEF S, n
  <2> QED
    BY <1>1, <1>4, <1>5, BoundedInduction
<1>7. Mask(n) = s
  <2>1. \A i \in 1..n : Mask(n)[i] = s[i]
    BY <1>b
  <2>2. Mask(n) \in Seq(Nat) /\ Len(Mask(n)) = n
    BY <1>2
  <2>3. s \in Seq(Nat) /\ Len(s) = n
    OBVIOUS
  <2> HIDE DEF Mask, n
  <2> QED
    BY <2>1, <2>2, <2>3
<1>8. SumTo(t, n) = SumOf(Mask(n))
  <2>1. n \in 0..n
    BY <1>0
  <2>2. n \in S
    BY <1>6, <2>1
  <2> QED
    BY <2>2
<1> HIDE DEF Mask, t
<1>9. SumOf(t) = SumOf(s)
  BY <1>1, <1>7, <1>8 DEF SumOf
<1> QED
  BY <1>9 DEF t

\* The sum of differences is the difference of the sums.
LEMMA SumOfDifferences ==
  ASSUME NEW s \in Seq(Nat), NEW t \in Seq(Nat), Len(s) = Len(t),
         NEW d, d = [k \in 1..Len(s) |-> t[k] - s[k]]
  PROVE  SumOf(d) = SumOf(t) - SumOf(s)
<1> DEFINE n == Len(s)
           S == {k \in Nat : SumTo(d, k) = SumTo(t, k) - SumTo(s, k)}
<1>1. /\ n \in Nat /\ Len(t) = n /\ d \in Seq(Int) /\ Len(d) = n
      /\ \A k \in 1..n : d[k] = t[k] - s[k] /\ s[k] \in Nat /\ t[k] \in Nat
  <2>1. n \in Nat /\ Len(t) = n /\ d = [k \in 1..n |-> t[k] - s[k]]
    OBVIOUS
  <2>2. \A k \in 1..n : s[k] \in Nat /\ t[k] \in Nat
    OBVIOUS
  <2> HIDE DEF n
  <2>3. d \in [1..n -> Int]
    BY <2>1, <2>2
  <2> QED
    BY <2>1, <2>2, <2>3
<1>2. \A k \in 0..n : SumTo(s, k) \in Nat /\ SumTo(t, k) \in Nat
  BY <1>1, SumIsNat
<1>3. /\ SumTo(s, 0) = 0 /\ SumTo(t, 0) = 0 /\ SumTo(d, 0) = 0
      /\ \A k \in 1..n : /\ SumTo(s, k) = SumTo(s, k - 1) + s[k]
                         /\ SumTo(t, k) = SumTo(t, k - 1) + t[k]
                         /\ SumTo(d, k) = SumTo(d, k - 1) + d[k]
  BY <1>1, SumSteps
<1>4. 0 \in S
  BY <1>3
<1>5. ASSUME NEW k \in 0..(n - 1), k \in S PROVE k + 1 \in S
  <2> DEFINE l == k + 1
  <2>1. k \in Nat /\ k \in 0..n /\ l \in 1..n /\ l - 1 = k /\ l \in Nat
    BY <1>1
  <2>2. SumTo(d, k) = SumTo(t, k) - SumTo(s, k)
    BY <1>5
  <2> HIDE DEF l, n
  <2>3. /\ SumTo(s, l) = SumTo(s, k) + s[l] /\ SumTo(t, l) = SumTo(t, k) + t[l]
        /\ SumTo(d, l) = SumTo(d, k) + d[l]
    BY <1>3, <2>1
  <2>4. d[l] = t[l] - s[l] /\ s[l] \in Nat /\ t[l] \in Nat /\ SumTo(s, k) \in Nat /\ SumTo(t, k) \in Nat
    BY <1>1, <1>2, <2>1
  <2>5. SumTo(d, l) = SumTo(t, l) - SumTo(s, l)
    BY <2>2, <2>3, <2>4
  <2> QED
    BY <2>1, <2>5 DEF l
<1>6. \A k \in 0..n : k \in S
  <2> HIDE DEF S, n
  <2> QED
    BY <1>1, <1>4, <1>5, BoundedInduction
<1>7. n \in 0..n
  BY <1>1
<1> QED
  BY <1>1, <1>6, <1>7 DEF SumOf

\* The numbers of s of one kind, and noughts for the others.
OfKind(s, kind, x) == [i \in 1..Len(s) |-> IF kind[i] = x THEN s[i] ELSE 0]

\* The kinds 1..m have different names, and every one of n numbers has one of them.
KindsNamed(kind, n, name, m) ==
  /\ \A k, l \in 1..m : name[k] = name[l] => k = l
  /\ \A i \in 1..n : \E k \in 1..m : name[k] = kind[i]

\* The sum of all numbers is that of the sums of all kinds: each number adds to one of
\* these.
LEMMA SumOfKinds ==
  ASSUME NEW s \in Seq(Nat), NEW kind, NEW m \in Nat, NEW name,
         KindsNamed(kind, Len(s), name, m)
  PROVE  /\ \A x : OfKind(s, kind, x) \in Seq(Nat) /\ SumOf(OfKind(s, kind, x)) \in Nat
         /\ SumOf([k \in 1..m |-> SumOf(OfKind(s, kind, name[k]))]) = SumOf(s)
<1> DEFINE n == Len(s)
           Part(k) == OfKind(s, kind, name[k])
           At(j) == [k \in 1..m |-> SumTo(Part(k), j)]
           S == {j \in Nat : SumOf(At(j)) = SumTo(s, j)}
<1>1. n \in Nat /\ \A i \in 1..n : s[i] \in Nat
  OBVIOUS
<1>2. ASSUME NEW x PROVE OfKind(s, kind, x) \in Seq(Nat) /\ Len(OfKind(s, kind, x)) = n
  <2>1. OfKind(s, kind, x) = [i \in 1..n |-> IF kind[i] = x THEN s[i] ELSE 0]
    BY DEF OfKind
  <2> HIDE DEF n
  <2>2. OfKind(s, kind, x) \in [1..n -> Nat]
    BY <1>1, <2>1
  <2> QED
    BY <1>1, <2>2
<1>3. ASSUME NEW x PROVE \A j \in 0..n : SumTo(OfKind(s, kind, x), j) \in Nat
  <2> DEFINE o == OfKind(s, kind, x)
  <2>1. o \in Seq(Nat) /\ Len(o) = n
    BY <1>2
  <2> HIDE DEF o, n
  <2> QED
    BY <2>1, SumIsNat DEF o
<1>4. ASSUME NEW j \in 0..n PROVE At(j) \in Seq(Nat) /\ Len(At(j)) = m
  <2>1. At(j) \in [1..m -> Nat]
    BY <1>3
  <2> HIDE DEF At
  <2> QED
    BY <2>1
<1>5. 0 \in S
  <2>1. 0 \in 0..n
    BY <1>1
  <2>2. At(0) \in Seq(Nat) /\ Len(At(0)) = m
    BY <1>4, <2>1
  <2>3. \A k \in 1..m : At(0)[k] = 0
    <3> SUFFICES ASSUME NEW k \in 1..m PROVE SumTo(Part(k), 0) = 0
      OBVIOUS
    <3>1. Len(Part(k)) \in Nat
      BY <1>1, <1>2
    <3> HIDE DEF Part
    <3> QED
      BY <3>1, SumSteps
  <2>4. SumOf(At(0)) = 0
    <3> HIDE DEF At
    <3> QED
      BY <2>2, <2>3, SumOfNoughts
  <2>5. SumTo(s, 0) = 0
    BY SumSteps
  <2> QED
    BY <2>4, <2>5
<1>6. ASSUME NEW j \in 0..(n - 1), j \in S PROVE j + 1 \in S
  <2> DEFINE l == j + 1
             a == At(j)
             b == At(l)
  <2>1. j \in Nat /\ j \in 0..n /\ l \in 0..n /\ l \in 1..n /\ l - 1 = j /\ l \in Nat
    BY <1>1
  <2>2. SumOf(a) = SumTo(s, j)
    BY <1>6
  <2>3. a \in Seq(Nat) /\ Len(a) = m /\ b \in Seq(Nat) /\ Len(b) = m
    BY <1>4, <2>1
  <2>4. PICK x \in 1..m : name[x] = kind[l]
    BY <2>1 DEF KindsNamed
  <2>5. \A k \in 1..m : a[k] = SumTo(Part(k), j) /\ b[k] = SumTo(Part(k), l)
    OBVIOUS
  <2> HIDE DEF l, a, b, n
  <2>6. \A k \in 1..m : b[k] = a[k] + Part(k)[l]
    <3> SUFFICES ASSUME NEW k \in 1..m PROVE SumTo(Part(k), l) = SumTo(Part(k), j) + Part(k)[l]
      BY <2>5
    <3>1. Len(Part(k)) = n
      BY <1>2
    <3> HIDE DEF Part
    <3> QED
      BY <1>1, <2>1, <3>1, SumSteps
  <2>7. Part(x)[l] = s[l] /\ \A k \in 1..m : k # x => Part(k)[l] = 0
    <3>1. \A k \in 1..m : k # x => name[k] # kind[l]
      BY <2>4 DEF KindsNamed
    <3>2. l \in 1..Len(s)
      BY <2>1 DEF n
    <3> QED
      BY <2>4, <3>1, <3>2 DEF OfKind
  <2> HIDE DEF Part
  <2>8. s[l] \in Nat /\ \A k \in 1..m : a[k] \in Nat
    BY <1>1, <2>1, <2>3, SMTT(30)
  <2>9. b[x] = a[x] + s[l] /\ \A k \in 1..m : k # x => b[k] = a[k]
    BY <2>6, <2>7, <2>8
  <2>10. b = [a EXCEPT ![x] = a[x] + s[l]]
    BY <2>3, <2>9
  <2>11. SumOf(b) = SumOf(a) + s[l]
    BY <2>3, <2>8, <2>10, SumChanges
  <2>12. SumTo(s, l) = SumTo(s, j) + s[l]
    <3>1. n = Len(s)
      BY DEF n
    <3> QED
      BY <1>1, <2>1, <3>1, SumSteps
  <2>13. SumOf(b) = SumTo(s, l)
    BY <2>2, <2>11, <2>12
  <2> QED
    BY <2>1, <2>13 DEF l, b
<1>7. \A j \in 0..n : j \in S
  <2> HIDE DEF S, n
  <2> QED
    BY <1>1, <1>5, <1>6, BoundedInduction
<1>8. SumOf(At(n)) = SumTo(s, n)
  <2>1. n \in 0..n
    BY <1>1
  <2>2. n \in S
    BY <1>7, <2>1
  <2> QED
    BY <2>2
<1>9. \A x : SumOf(OfKind(s, kind, x)) = SumTo(OfKind(s, kind, x), n)
  BY <1>2 DEF SumOf
<1>10. \A x : SumOf(OfKind(s, kind, x)) \in Nat
  <2>1. n \in 0..n
    BY <1>1
  <2> QED
    BY <1>3, <1>9, <2>1
<1>11. At(n) = [k \in 1..m |-> SumOf(Part(k))]
  BY <1>9
<1>12. SumOf(s) = SumTo(s, n)
  BY DEF SumOf
<1> HIDE DEF At, n
<1> QED
  BY <1>2, <1>8, <1>10, <1>11, <1>12
-----------------------------------------------------------------------------
(* Sums over finite sets.                                                  *)

Some(s) == CHOOSE x \in s : TRUE

\* f gives every set of the family D the sum of w over its elements.
IsSetSums(f, w, D) ==
  f = [s \in D |-> IF s = {} THEN 0 ELSE w[Some(s)] + f[s \ {Some(s)}]]

\* The subsets of S of at most n elements.
UpTo(S, n) == {s \in SUBSET S : Cardinality(s) <= n}

\* A set without one of its elements.
LEMMA Without ==
  ASSUME NEW S, IsFiniteSet(S), NEW s \in SUBSET S, s # {}
  PROVE  /\ Some(s) \in s /\ s \ {Some(s)} \in SUBSET S /\ IsFiniteSet(s)
         /\ Cardinality(s) \in Nat /\ Cardinality(s) > 0
         /\ \A x \in s : Cardinality(s \ {x}) = Cardinality(s) - 1
<1>1. Some(s) \in s
  BY DEF Some
<1>2. IsFiniteSet(s)
  BY FS_Subset
<1>3. Cardinality(s) \in Nat /\ Cardinality(s) # 0
  BY <1>2, FS_CardinalityType, FS_EmptySet
<1> QED
  BY <1>1, <1>2, <1>3, FS_RemoveElement

\* There are sums over all subsets of a finite set.
LEMMA SetSumsExist ==
  ASSUME NEW w, NEW S, IsFiniteSet(S)
  PROVE  \E f : IsSetSums(f, w, SUBSET S)
<1> DEFINE N == {n \in Nat : \E f : IsSetSums(f, w, UpTo(S, n))}
<1>0. \A s \in SUBSET S : Cardinality(s) \in Nat /\ (Cardinality(s) = 0 => s = {})
  BY FS_Subset, FS_CardinalityType, FS_EmptySet
<1>1. 0 \in N
  <2>1. \A s \in UpTo(S, 0) : s = {}
    BY <1>0 DEF UpTo
  <2>2. IsSetSums([s \in UpTo(S, 0) |-> 0], w, UpTo(S, 0))
    BY <2>1 DEF IsSetSums
  <2> QED
    BY <2>2
<1>2. ASSUME NEW n \in Nat, n \in N PROVE n + 1 \in N
  <2>1. PICK f : IsSetSums(f, w, UpTo(S, n))
    BY <1>2
  <2> DEFINE D == UpTo(S, n)
             E == UpTo(S, n + 1)
             g == [s \in E |-> IF s = {} THEN 0 ELSE w[Some(s)] + f[s \ {Some(s)}]]
  <2>2. f = [s \in D |-> IF s = {} THEN 0 ELSE w[Some(s)] + f[s \ {Some(s)}]]
    BY <2>1 DEF IsSetSums
  <2>3. D \subseteq E
    BY <1>0 DEF UpTo
  <2>4. ASSUME NEW s \in E, s # {} PROVE s \ {Some(s)} \in D
    <3>1. s \in SUBSET S /\ Cardinality(s) <= n + 1
      BY DEF UpTo
    <3>2. /\ s \ {Some(s)} \in SUBSET S
          /\ Cardinality(s) \in Nat /\ Cardinality(s \ {Some(s)}) = Cardinality(s) - 1
      BY <3>1, <2>4, Without
    <3> QED
      BY <3>1, <3>2 DEF UpTo
  <2> HIDE DEF D, E
  <2>5. \A s \in D : g[s] = f[s]
    BY <2>2, <2>3
  <2>6. g = [s \in E |-> IF s = {} THEN 0 ELSE w[Some(s)] + g[s \ {Some(s)}]]
    BY <2>4, <2>5
  <2>7. IsSetSums(g, w, E)
    BY <2>6 DEF IsSetSums
  <2> QED
    BY <2>7 DEF E
<1> HIDE DEF N
<1>3. \A n \in Nat : n \in N
  BY <1>1, <1>2, Induction
<1>4. Cardinality(S) \in Nat /\ \A s \in SUBSET S : Cardinality(s) <= Cardinality(S)
  BY FS_CardinalityType, FS_Subset
<1>5. UpTo(S, Cardinality(S)) = SUBSET S
  BY <1>4 DEF UpTo
<1> QED
  BY <1>3, <1>4, <1>5 DEF N

\* SumFunctionOnSet(w, S) is the sum for S in any family that has one.
LEMMA SetSumAny ==
  ASSUME NEW w, NEW S, IsFiniteSet(S), NEW T \in SUBSET S, NEW f, IsSetSums(f, w, SUBSET S)
  PROVE  SumFunctionOnSet(w, T) = f[T]
<1> DEFINE g == CHOOSE h : h = [s \in SUBSET T |-> IF s = {} THEN 0
                                                 ELSE w[Some(s)] + h[s \ {Some(s)}]]
<1>1. SumFunctionOnSet(w, T) = g[T]
  BY DEF SumFunctionOnSet, FoldFunctionOnSet, MapThenFoldSet, Some
<1>2. IsFiniteSet(T)
  BY FS_Subset
<1>3. g = [s \in SUBSET T |-> IF s = {} THEN 0 ELSE w[Some(s)] + g[s \ {Some(s)}]]
  <2>1. \E h : h = [s \in SUBSET T |-> IF s = {} THEN 0 ELSE w[Some(s)] + h[s \ {Some(s)}]]
    <3>1. PICK h : IsSetSums(h, w, SUBSET T)
      BY <1>2, SetSumsExist
    <3> QED
      BY <3>1 DEF IsSetSums
  <2> QED
    BY <2>1, Zenon
<1> HIDE DEF g
<1>4. f = [s \in SUBSET S |-> IF s = {} THEN 0 ELSE w[Some(s)] + f[s \ {Some(s)}]]
  BY DEF IsSetSums
<1> DEFINE N == {n \in Nat : \A s \in SUBSET T : Cardinality(s) = n => f[s] = g[s]}
<1>5. \A s \in SUBSET T : Cardinality(s) \in Nat /\ (Cardinality(s) = 0 => s = {})
  BY <1>2, FS_Subset, FS_CardinalityType, FS_EmptySet
<1>6. 0 \in N
  BY <1>3, <1>4, <1>5
<1>7. ASSUME NEW n \in Nat, n \in N PROVE n + 1 \in N
  <2>1. ASSUME NEW s \in SUBSET T, Cardinality(s) = n + 1 PROVE f[s] = g[s]
    <3>1. s # {}
      <4>1. n + 1 # 0 /\ Cardinality({}) = 0
        BY FS_EmptySet
      <4> QED
        BY <2>1, <4>1
    <3>2. s \ {Some(s)} \in SUBSET T /\ Some(s) \in s /\ Cardinality(s \ {Some(s)}) = Cardinality(s) - 1
      BY <1>2, <3>1, Without
    <3>3. f[s \ {Some(s)}] = g[s \ {Some(s)}]
      BY <1>7, <2>1, <3>2
    <3>4. s \in SUBSET S
      OBVIOUS
    <3> QED
      BY <1>3, <1>4, <3>1, <3>3, <3>4
  <2> QED
    BY <2>1
<1> HIDE DEF N
<1>8. \A n \in Nat : n \in N
  BY <1>6, <1>7, Induction
<1>9. Cardinality(T) \in Nat /\ Cardinality(T) \in N
  BY <1>2, <1>8, FS_CardinalityType
<1> QED
  BY <1>1, <1>9 DEF N

\* The sum over no element, and the sum over one more of them than before.
LEMMA SetSumEmpty == ASSUME NEW w PROVE SumFunctionOnSet(w, {}) = 0
<1>1. IsFiniteSet({})
  BY FS_EmptySet
<1>2. PICK f : IsSetSums(f, w, SUBSET {})
  BY <1>1, SetSumsExist
<1>3. f[{}] = 0 /\ {} \in SUBSET {}
  BY <1>2 DEF IsSetSums
<1>4. SumFunctionOnSet(w, {}) = f[{}]
  BY <1>1, <1>2, <1>3, SetSumAny, Zenon
<1> QED
  BY <1>3, <1>4

\* The sum over a set is that of one element and of the others.
LEMMA SetSumStep ==
  ASSUME NEW w, NEW S, IsFiniteSet(S), S # {}
  PROVE  SumFunctionOnSet(w, S) = w[Some(S)] + SumFunctionOnSet(w, S \ {Some(S)})
<1>1. PICK f : IsSetSums(f, w, SUBSET S)
  BY SetSumsExist
<1>2. S \ {Some(S)} \in SUBSET S
  OBVIOUS
<1>3. SumFunctionOnSet(w, S) = f[S] /\ SumFunctionOnSet(w, S \ {Some(S)}) = f[S \ {Some(S)}]
  BY <1>1, <1>2, SetSumAny
<1>4. f[S] = w[Some(S)] + f[S \ {Some(S)}]
  BY <1>1 DEF IsSetSums
<1> QED
  BY <1>3, <1>4

\* A sum over a finite set of numbers without a sign has none.
LEMMA SetSumType ==
  ASSUME NEW w, NEW S, IsFiniteSet(S), \A x \in S : w[x] \in Nat
  PROVE  SumFunctionOnSet(w, S) \in Nat
<1> DEFINE N == {n \in Nat : \A s \in SUBSET S : Cardinality(s) = n => SumFunctionOnSet(w, s) \in Nat}
<1>1. 0 \in N
  <2>1. \A s \in SUBSET S : Cardinality(s) = 0 => s = {}
    BY FS_Subset, FS_EmptySet
  <2> QED
    BY <2>1, SetSumEmpty
<1>2. ASSUME NEW n \in Nat, n \in N PROVE n + 1 \in N
  <2>1. ASSUME NEW s \in SUBSET S, Cardinality(s) = n + 1 PROVE SumFunctionOnSet(w, s) \in Nat
    <3>1. s # {}
      BY <2>1, FS_EmptySet
    <3>2. /\ IsFiniteSet(s) /\ s \ {Some(s)} \in SUBSET S /\ Some(s) \in s
          /\ Cardinality(s \ {Some(s)}) = Cardinality(s) - 1
      BY <3>1, Without
    <3>3. SumFunctionOnSet(w, s \ {Some(s)}) \in Nat
      BY <1>2, <2>1, <3>2
    <3>4. w[Some(s)] \in Nat
      BY <3>2
    <3> QED
      BY <3>1, <3>2, <3>3, <3>4, SetSumStep
  <2> QED
    BY <2>1
<1> HIDE DEF N
<1>3. \A n \in Nat : n \in N
  BY <1>1, <1>2, Induction
<1>4. Cardinality(S) \in Nat /\ Cardinality(S) \in N
  BY <1>3, FS_CardinalityType
<1> QED
  BY <1>4 DEF N

\* One element more adds its number, whichever it is.
LEMMA SetSumAdds ==
  ASSUME NEW w, NEW S, IsFiniteSet(S), NEW x, x \notin S, \A y \in S \cup {x} : w[y] \in Nat
  PROVE  SumFunctionOnSet(w, S \cup {x}) = SumFunctionOnSet(w, S) + w[x]
<1> DEFINE U == S \cup {x}
           sum(s) == SumFunctionOnSet(w, s)
           Adds(s) == \A y \in U \ s : sum(s \cup {y}) = sum(s) + w[y]
           N == {n \in Nat : \A s \in SUBSET U : Cardinality(s) = n => Adds(s)}
<1>0. IsFiniteSet(U)
  BY FS_AddElement
<1>1. \A s \in SUBSET U : sum(s) \in Nat /\ IsFiniteSet(s)
  BY <1>0, FS_Subset, SetSumType
<1>2. \A s \in SUBSET U : s # {} => sum(s) = w[Some(s)] + sum(s \ {Some(s)}) /\ Some(s) \in s
  BY <1>1, SetSumStep, Without, <1>0
<1>3. 0 \in N
  <2>1. \A s \in SUBSET U : Cardinality(s) = 0 => s = {}
    BY <1>1, FS_EmptySet
  <2>2. ASSUME NEW y \in U PROVE sum({} \cup {y}) = sum({}) + w[y]
    <3>1. {} \cup {y} \in SUBSET U /\ {} \cup {y} # {} /\ Some({} \cup {y}) = y
      BY DEF Some
    <3>2. ({} \cup {y}) \ {y} = {}
      OBVIOUS
    <3>3. sum({} \cup {y}) = w[y] + sum({})
      BY <1>2, <3>1, <3>2
    <3>4. sum({}) \in Nat /\ w[y] \in Nat
      BY <1>1
    <3> HIDE DEF sum
    <3> QED
      BY <3>3, <3>4
  <2> QED
    BY <2>1, <2>2
<1>4. ASSUME NEW n \in Nat, n \in N PROVE n + 1 \in N
  <2>1. ASSUME NEW s \in SUBSET U, Cardinality(s) = n + 1, NEW y \in U \ s
        PROVE  sum(s \cup {y}) = sum(s) + w[y]
    <3> DEFINE t == s \cup {y}
               p == Some(t)
    <3>0. t \in SUBSET U /\ t # {}
      OBVIOUS
    <3>1. p \in t /\ sum(t) = w[p] + sum(t \ {p})
      BY <1>2, <3>0
    <3>2. w[p] \in Nat /\ w[y] \in Nat /\ sum(s) \in Nat
      BY <1>1, <3>1
    <3>3. CASE p = y
      <4>1. t \ {p} = s
        BY <3>3
      <4> HIDE DEF sum, p, t
      <4>2. sum(t) = w[y] + sum(s)
        BY <3>1, <3>3, <4>1
      <4>3. sum(t) = sum(s) + w[y]
        BY <3>2, <4>2
      <4> QED
        BY <4>3 DEF t
    <3>4. CASE p # y
      <4> DEFINE r == s \ {p}
      <4>1. /\ p \in s /\ r \in SUBSET U /\ t \ {p} = r \cup {y} /\ s = r \cup {p}
            /\ p \in U \ r /\ y \in U \ r
        BY <3>1, <3>4
      <4>2. s # {}
        BY <4>1
      <4>3. Cardinality(r) = n
        <5>1. s \in SUBSET U
          OBVIOUS
        <5>2. Cardinality(s \ {p}) = Cardinality(s) - 1
          BY <1>0, <4>1, <4>2, <5>1, Without
        <5> QED
          BY <2>1, <5>2
      <4>4. sum(r \cup {y}) = sum(r) + w[y] /\ sum(r \cup {p}) = sum(r) + w[p]
        BY <1>4, <4>1, <4>3
      <4>5. sum(r) \in Nat
        BY <1>1, <4>1
      <4> HIDE DEF sum, p, r, t
      <4>6. sum(t) = w[p] + sum(r \cup {y})
        BY <3>1, <4>1
      <4>7. sum(s) = sum(r) + w[p]
        BY <4>1, <4>4
      <4>8. sum(t) = sum(s) + w[y]
        BY <3>2, <4>4, <4>5, <4>6, <4>7
      <4> QED
        BY <4>8 DEF t
    <3> QED
      BY <3>3, <3>4
  <2> QED
    BY <2>1
<1>5. S \in SUBSET U /\ x \in U \ S
  OBVIOUS
<1> HIDE DEF N
<1>6. \A n \in Nat : n \in N
  BY <1>3, <1>4, Induction
<1>7. Cardinality(S) \in Nat /\ Cardinality(S) \in N
  BY <1>6, FS_CardinalityType
<1> QED
  BY <1>5, <1>7 DEF N

\* The sum depends on the numbers only.
LEMMA SetSumSame ==
  ASSUME NEW w, NEW v, NEW S, IsFiniteSet(S), \A x \in S : w[x] = v[x]
  PROVE  SumFunctionOnSet(w, S) = SumFunctionOnSet(v, S)
<1> DEFINE N == {n \in Nat : \A s \in SUBSET S : Cardinality(s) = n =>
                               SumFunctionOnSet(w, s) = SumFunctionOnSet(v, s)}
<1>1. 0 \in N
  <2>1. \A s \in SUBSET S : Cardinality(s) = 0 => s = {}
    BY FS_Subset, FS_EmptySet
  <2> QED
    BY <2>1, SetSumEmpty
<1>2. ASSUME NEW n \in Nat, n \in N PROVE n + 1 \in N
  <2>1. ASSUME NEW s \in SUBSET S, Cardinality(s) = n + 1
        PROVE  SumFunctionOnSet(w, s) = SumFunctionOnSet(v, s)
    <3>1. s # {}
      BY <2>1, FS_EmptySet
    <3>2. /\ IsFiniteSet(s) /\ s \ {Some(s)} \in SUBSET S /\ Some(s) \in s
          /\ Cardinality(s \ {Some(s)}) = Cardinality(s) - 1
      BY <3>1, Without
    <3>3. SumFunctionOnSet(w, s \ {Some(s)}) = SumFunctionOnSet(v, s \ {Some(s)})
      BY <1>2, <2>1, <3>2
    <3>4. w[Some(s)] = v[Some(s)]
      BY <3>2
    <3> QED
      BY <3>1, <3>2, <3>3, <3>4, SetSumStep
  <2> QED
    BY <2>1
<1> HIDE DEF N
<1>3. \A n \in Nat : n \in N
  BY <1>1, <1>2, Induction
<1>4. Cardinality(S) \in Nat /\ Cardinality(S) \in N
  BY <1>3, FS_CardinalityType
<1> QED
  BY <1>4 DEF N
=============================================================================
