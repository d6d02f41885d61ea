------------------------- MODULE RecordParserProofs -------------------------
(***************************************************************************)
(* Proofs about RecordParser: the reads of every kind of record add up to  *)
(* what the writer wrote, so that the parser stays aligned whatever the    *)
(* records, the identifier size and the cuts of the input.                 *)
(***************************************************************************)
EXTENDS RecordParser, SumLemmas, FiniteSetTheorems

-----------------------------------------------------------------------------
(* Sums of short sequences and of sequences of blocks.                     *)

\* The sums of short sequences.
LEMMA SumOfShort ==
  /\ SumOf(<< >>) = 0
  /\ \A a \in Nat : SumOf(<<a>>) = a
  /\ \A a, b \in Nat : SumOf(<<a, b>>) = a + b
  /\ \A a, b, c \in Nat : SumOf(<<a, b, c>>) = a + b + c
  /\ \A a, b, c, d \in Nat : SumOf(<<a, b, c, d>>) = a + b + c + d
  /\ \A a, b, c, d, e \in Nat : SumOf(<<a, b, c, d, e>>) = a + b + c + d + e
<1>1. SumOf(<< >>) = 0
  <2>1. Len(<< >>) = 0
    OBVIOUS
  <2> QED
    BY <2>1, SumSteps DEF SumOf
<1>2. ASSUME NEW a \in Nat
      PROVE  SumOf(<<a>>) = a
  <2> DEFINE s == <<a>>
  <2>1. Len(s) = 1 /\ s[1] = a
    OBVIOUS
  <2> HIDE DEF s
  <2>2. SumTo(s, 0) = 0 /\ \A k \in 1..Len(s) : SumTo(s, k) = SumTo(s, k - 1) + s[k]
    <3>1. Len(s) \in Nat
      BY <2>1
    <3> QED
      BY <3>1, SumSteps, Zenon
  <2>3. /\ SumTo(s, 1) = SumTo(s, 0) + s[1]
    BY <2>1, <2>2
  <2> QED
    BY <2>1, <2>2, <2>3 DEF s, SumOf
<1>3. ASSUME NEW a \in Nat, NEW b \in Nat
      PROVE  SumOf(<<a, b>>) = a + b
  <2> DEFINE s == <<a, b>>
  <2>1. Len(s) = 2 /\ s[1] = a /\ s[2] = b
    OBVIOUS
  <2> HIDE DEF s
  <2>2. SumTo(s, 0) = 0 /\ \A k \in 1..Len(s) : SumTo(s, k) = SumTo(s, k - 1) + s[k]
    <3>1. Len(s) \in Nat
      BY <2>1
    <3> QED
      BY <3>1, SumSteps, Zenon
  <2>3. /\ SumTo(s, 1) = SumTo(s, 0) + s[1]
        /\ SumTo(s, 2) = SumTo(s, 1) + s[2]
    BY <2>1, <2>2
  <2> QED
    BY <2>1, <2>2, <2>3 DEF s, SumOf
<1>4. ASSUME NEW a \in Nat, NEW b \in Nat, NEW c \in Nat
      PROVE  SumOf(<<a, b, c>>) = a + b + c
  <2> DEFINE s == <<a, b, c>>
  <2>1. Len(s) = 3 /\ s[1] = a /\ s[2] = b /\ s[3] = c
    OBVIOUS
  <2> HIDE DEF s
  <2>2. SumTo(s, 0) = 0 /\ \A k \in 1..Len(s) : SumTo(s, k) = SumTo(s, k - 1) + s[k]
    <3>1. Len(s) \in Nat
      BY <2>1
    <3> QED
      BY <3>1, SumSteps, Zenon
  <2>3. /\ SumTo(s, 1) = SumTo(s, 0) + s[1]
        /\ SumTo(s, 2) = SumTo(s, 1) + s[2]
        /\ SumTo(s, 3) = SumTo(s, 2) + s[3]
    BY <2>1, <2>2
  <2> QED
    BY <2>1, <2>2, <2>3 DEF s, SumOf
<1>5. ASSUME NEW a \in Nat, NEW b \in Nat, NEW c \in Nat, NEW d \in Nat
      PROVE  SumOf(<<a, b, c, d>>) = a + b + c + d
  <2> DEFINE s == <<a, b, c, d>>
  <2>1. Len(s) = 4 /\ s[1] = a /\ s[2] = b /\ s[3] = c /\ s[4] = d
    OBVIOUS
  <2> HIDE DEF s
  <2>2. SumTo(s, 0) = 0 /\ \A k \in 1..Len(s) : SumTo(s, k) = SumTo(s, k - 1) + s[k]
    <3>1. Len(s) \in Nat
      BY <2>1
    <3> QED
      BY <3>1, SumSteps, Zenon
  <2>3. /\ SumTo(s, 1) = SumTo(s, 0) + s[1]
        /\ SumTo(s, 2) = SumTo(s, 1) + s[2]
        /\ SumTo(s, 3) = SumTo(s, 2) + s[3]
        /\ SumTo(s, 4) = SumTo(s, 3) + s[4]
    BY <2>1, <2>2
  <2> QED
    BY <2>1, <2>2, <2>3 DEF s, SumOf
<1>6. ASSUME NEW a \in Nat, NEW b \in Nat, NEW c \in Nat, NEW d \in Nat, NEW e \in Nat
      PROVE  SumOf(<<a, b, c, d, e>>) = a + b + c + d + e
  <2> DEFINE s == <<a, b, c, d, e>>
  <2>1. Len(s) = 5 /\ s[1] = a /\ s[2] = b /\ s[3] = c /\ s[4] = d /\ s[5] = e
    OBVIOUS
  <2> HIDE DEF s
  <2>2. SumTo(s, 0) = 0 /\ \A k \in 1..Len(s) : SumTo(s, k) = SumTo(s, k - 1) + s[k]
    <3>1. Len(s) \in Nat
      BY <2>1
    <3> QED
      BY <3>1, SumSteps, Zenon
  <2>3. /\ SumTo(s, 1) = SumTo(s, 0) + s[1]
        /\ SumTo(s, 2) = SumTo(s, 1) + s[2]
        /\ SumTo(s, 3) = SumTo(s, 2) + s[3]
        /\ SumTo(s, 4) = SumTo(s, 3) + s[4]
        /\ SumTo(s, 5) = SumTo(s, 4) + s[5]
    BY <2>1, <2>2
  <2> QED
    BY <2>1, <2>2, <2>3 DEF s, SumOf
<1> QED
  BY <1>1, <1>2, <1>3, <1>4, <1>5, <1>6

\* A sequence of n blocks of w numbers, the first j of which add up to g[j].
Blocks(s, n, w, g) ==
  /\ s \in Seq(Nat) /\ n \in Nat /\ Len(s) = w * n
  /\ g \in [0..n -> Nat] /\ g[0] = 0

\* A sum that is known read by read.
LEMMA SumOfOnes ==
  ASSUME NEW s, NEW n, NEW g, Blocks(s, n, 1, g),
         \A j \in 1..n : g[j] = g[j - 1] + s[j]
  PROVE  SumOf(s) = g[n]
<1> DEFINE S == {j \in Nat : SumTo(s, j) = g[j]}
<1>a. /\ Len(s) \in Nat /\ Len(s) = 1 * n /\ n \in Nat /\ s \in Seq(Nat)
      /\ g \in [0..n -> Nat] /\ g[0] = 0
  BY DEF Blocks
<1>b. \A i \in 1..Len(s) : s[i] \in Nat
  <2>1. s \in Seq(Nat)
    BY <1>a
  <2> QED
    BY <2>1
<1>1. 0 \in S
  BY SumSteps, <1>a
<1>2. ASSUME NEW j \in 0..(n - 1), j \in S PROVE j + 1 \in S
  <2> DEFINE m == j
  <2>1. m \in Nat /\ m + 1 <= Len(s)
    BY <1>a
  <2>2. g[j] \in Nat /\ SumTo(s, m) = g[j]
    BY <1>a, <1>2
  <2>3. g[j + 1] = g[j] + s[m + 1]
    BY <1>a
  <2>4. m + 1 = j + 1
    OBVIOUS
  <2> HIDE DEF m
  <2>n1. s[m + 1] \in Nat
    BY <1>b, <2>1
  <2>5. /\ SumTo(s, m + 1) = SumTo(s, m) + s[m + 1]
    BY <2>1, <1>a, SumNext
  <2>6. SumTo(s, m + 1) = g[j + 1]
    BY <2>2, <2>n1, <2>3, <2>5
  <2> QED
    BY <2>4, <2>6
<1>3. n \in Nat /\ \A j \in 0..(n - 1) : j \in S => j + 1 \in S
  BY <1>2, <1>a
<1> HIDE DEF S
<1>4. \A j \in 0..n : j \in S
  BY <1>1, <1>3, BoundedInduction, Zenon
<1>5. n \in S
  BY <1>4, <1>a
<1> QED
  BY <1>5, <1>a DEF S, SumOf

\* A sum that is known by pairs of reads.
LEMMA SumOfPairs ==
  ASSUME NEW s, NEW n, NEW g, Blocks(s, n, 2, g),
         \A j \in 1..n : g[j] = g[j - 1] + s[2 * j - 1] + s[2 * j]
  PROVE  SumOf(s) = g[n]
<1> DEFINE S == {j \in Nat : SumTo(s, 2 * j) = g[j]}
<1>a. /\ Len(s) \in Nat /\ Len(s) = 2 * n /\ n \in Nat /\ s \in Seq(Nat)
      /\ g \in [0..n -> Nat] /\ g[0] = 0
  BY DEF Blocks
<1>b. \A i \in 1..Len(s) : s[i] \in Nat
  <2>1. s \in Seq(Nat)
    BY <1>a
  <2> QED
    BY <2>1
<1>1. 0 \in S
  <2>1. 2 * 0 = 0 /\ SumTo(s, 0) = 0
    BY SumSteps, <1>a
  <2> QED
    BY <2>1, <1>a
<1>2. ASSUME NEW j \in 0..(n - 1), j \in S PROVE j + 1 \in S
  <2> DEFINE m == 2 * j
  <2>1. m \in Nat /\ m + 1 <= Len(s) /\ m + 2 <= Len(s) /\ m + 2 = (m + 1) + 1 /\ m + 1 \in Nat
    BY <1>a
  <2>2. g[j] \in Nat /\ SumTo(s, m) = g[j]
    BY <1>a, <1>2
  <2>3. g[j + 1] = g[j] + s[m + 1] + s[m + 2]
    BY <1>a
  <2>4. 2 * (j + 1) = m + 2
    OBVIOUS
  <2> HIDE DEF m
  <2>n1. s[m + 1] \in Nat
    BY <1>b, <2>1
  <2>n2. s[m + 2] \in Nat
    BY <1>b, <2>1
  <2>5. /\ SumTo(s, m + 1) = SumTo(s, m) + s[m + 1]
        /\ SumTo(s, m + 2) = SumTo(s, m + 1) + s[m + 2]
    BY <2>1, <1>a, SumNext
  <2>6. SumTo(s, m + 2) = g[j + 1]
    BY <2>2, <2>n1, <2>n2, <2>3, <2>5
  <2> QED
    BY <2>4, <2>6
<1>3. n \in Nat /\ \A j \in 0..(n - 1) : j \in S => j + 1 \in S
  BY <1>2, <1>a
<1> HIDE DEF S
<1>4. \A j \in 0..n : j \in S
  BY <1>1, <1>3, BoundedInduction, Zenon
<1>5. n \in S
  BY <1>4, <1>a
<1> QED
  BY <1>5, <1>a DEF S, SumOf

\* A sum that is known by groups of three reads.
LEMMA SumOfTriples ==
  ASSUME NEW s, NEW n, NEW g, Blocks(s, n, 3, g),
         \A j \in 1..n : g[j] = g[j - 1] + s[3 * j - 2] + s[3 * j - 1] + s[3 * j]
  PROVE  SumOf(s) = g[n]
<1> DEFINE S == {j \in Nat : SumTo(s, 3 * j) = g[j]}
<1>a. /\ Len(s) \in Nat /\ Len(s) = 3 * n /\ n \in Nat /\ s \in Seq(Nat)
      /\ g \in [0..n -> Nat] /\ g[0] = 0
  BY DEF Blocks
<1>b. \A i \in 1..Len(s) : s[i] \in Nat
  <2>1. s \in Seq(Nat)
    BY <1>a
  <2> QED
    BY <2>1
<1>1. 0 \in S
  <2>1. 3 * 0 = 0 /\ SumTo(s, 0) = 0
    BY SumSteps, <1>a
  <2> QED
    BY <2>1, <1>a
<1>2. ASSUME NEW j \in 0..(n - 1), j \in S PROVE j + 1 \in S
  <2> DEFINE m == 3 * j
  <2>1. m \in Nat /\ m + 1 <= Len(s) /\ m + 2 <= Len(s) /\ m + 3 <= Len(s) /\ m + 2 = (m + 1) + 1 /\ m + 3 = (m + 2) + 1 /\ m + 1 \in Nat /\ m + 2 \in Nat
    BY <1>a
  <2>2. g[j] \in Nat /\ SumTo(s, m) = g[j]
    BY <1>a, <1>2
  <2>3. g[j + 1] = g[j] + s[m + 1] + s[m + 2] + s[m + 3]
    BY <1>a
  <2>4. 3 * (j + 1) = m + 3
    OBVIOUS
  <2> HIDE DEF m
  <2>n1. s[m + 1] \in Nat
    BY <1>b, <2>1
  <2>n2. s[m + 2] \in Nat
    BY <1>b, <2>1
  <2>n3. s[m + 3] \in Nat
    BY <1>b, <2>1
  <2>5. /\ SumTo(s, m + 1) = SumTo(s, m) + s[m + 1]
        /\ SumTo(s, m + 2) = SumTo(s, m + 1) + s[m + 2]
        /\ SumTo(s, m + 3) = SumTo(s, m + 2) + s[m + 3]
    BY <2>1, <1>a, SumNext
  <2>6. SumTo(s, m + 3) = g[j + 1]
    BY <2>2, <2>n1, <2>n2, <2>n3, <2>3, <2>5
  <2> QED
    BY <2>4, <2>6
<1>3. n \in Nat /\ \A j \in 0..(n - 1) : j \in S => j + 1 \in S
  BY <1>2, <1>a
<1> HIDE DEF S
<1>4. \A j \in 0..n : j \in S
  BY <1>1, <1>3, BoundedInduction, Zenon
<1>5. n \in S
  BY <1>4, <1>a
<1> QED
  BY <1>5, <1>a DEF S, SumOf

-----------------------------------------------------------------------------
(* What is repeated in a record.                                           *)

\* n reads of an identifier take n times its size.
LEMMA CountIds ==
  ASSUME NEW z \in {4, 8}, NEW n \in Nat
  PROVE  count(<<z>>, n) \in Seq(Nat) /\ SumOf(count(<<z>>, n)) = n * z
<1> DEFINE s == count(<<z>>, n)
           g == [j \in 0..n |-> j * z]
<1>1. s = [k \in 1..n |-> z]
  <2>1. Len(<<z>>) = 1 /\ n * 1 = n /\ <<z>>[1] = z
    OBVIOUS
  <2>2. \A k \in 1..n : ((k - 1) % 1) + 1 = 1
    OBVIOUS
  <2> QED
    BY <2>1, <2>2 DEF count
<1>2. s \in Seq(Nat) /\ Len(s) = n
  BY <1>1
<1>3. \A j \in 1..n : g[j] = g[j - 1] + s[j]
  BY <1>1
<1>4. Len(s) = 1 * n /\ g \in [0..n -> Nat] /\ g[0] = 0 /\ g[n] = n * z
  BY <1>2
<1> HIDE DEF s, g
<1>5. SumOf(s) = g[n]
  BY <1>2, <1>3, <1>4, SumOfOnes DEF Blocks
<1> QED
  BY <1>2, <1>4, <1>5 DEF s

\* n reads of a pair take n times the size of the pair.
LEMMA CountPairs ==
  ASSUME NEW a \in {4, 8}, NEW b \in {1, 4}, NEW n \in Nat
  PROVE  count(<<a, b>>, n) \in Seq(Nat) /\ SumOf(count(<<a, b>>, n)) = n * a + n * b
<1> DEFINE s == count(<<a, b>>, n)
           g == [j \in 0..n |-> j * a + j * b]
<1>1. s = [k \in 1..(2 * n) |-> IF k % 2 = 1 THEN a ELSE b]
  <2>1. Len(<<a, b>>) = 2 /\ n * 2 = 2 * n /\ <<a, b>>[1] = a /\ <<a, b>>[2] = b
    OBVIOUS
  <2>2. \A k \in 1..(2 * n) : ((k - 1) % 2) + 1 = IF k % 2 = 1 THEN 1 ELSE 2
    OBVIOUS
  <2> QED
    BY <2>1, <2>2 DEF count
<1>2. s \in Seq(Nat) /\ Len(s) = 2 * n
  <2>1. 2 * n \in Nat
    OBVIOUS
  <2> QED
    BY <1>1, <2>1
<1>3. \A j \in 1..n : g[j] = g[j - 1] + s[2 * j - 1] + s[2 * j]
  <2> TAKE j \in 1..n
  <2>1. s[2 * j - 1] = a /\ s[2 * j] = b
    BY <1>1
  <2> QED
    BY <2>1
<1>4. g \in [0..n -> Nat] /\ g[0] = 0 /\ g[n] = n * a + n * b
  OBVIOUS
<1> HIDE DEF s, g
<1>5. SumOf(s) = g[n]
  BY <1>2, <1>3, <1>4, SumOfPairs DEF Blocks
<1> QED
  BY <1>2, <1>4, <1>5 DEF s

\* The allocation sites.
LEMMA CountSites ==
  ASSUME NEW n \in Nat
  PROVE  /\ count(<<1, 4, 4, 4, 4, 4, 4>>, n) \in Seq(Nat)
         /\ SumOf(count(<<1, 4, 4, 4, 4, 4, 4>>, n)) = 25 * n
<1> DEFINE s == count(<<1, 4, 4, 4, 4, 4, 4>>, n)
           S == {j \in Nat : SumTo(s, 7 * j) = 25 * j}
<1>1. s = [k \in 1..(7 * n) |-> IF k % 7 = 1 THEN 1 ELSE 4]
  <2> DEFINE p == <<1, 4, 4, 4, 4, 4, 4>>
  <2>1. Len(p) = 7 /\ n * 7 = 7 * n /\ p[1] = 1 /\ \A i \in 2..7 : p[i] = 4
    OBVIOUS
  <2>2. \A k \in 1..(7 * n) : /\ ((k - 1) % 7) + 1 \in 1..7
                              /\ ((k - 1) % 7) + 1 = 1 <=> k % 7 = 1
    OBVIOUS
  <2> HIDE DEF p
  <2>3. count(p, n) = [k \in 1..(7 * n) |-> IF k % 7 = 1 THEN 1 ELSE 4]
    BY <2>1, <2>2 DEF count
  <2> QED
    BY <2>3 DEF p
<1>2. s \in Seq(Nat) /\ Len(s) = 7 * n
  <2>1. 7 * n \in Nat
    OBVIOUS
  <2> QED
    BY <1>1, <2>1
<1>a. Len(s) \in Nat
  BY <1>2
<1> HIDE DEF s
<1>3. 0 \in S
  <2>1. 7 * 0 = 0 /\ SumTo(s, 0) = 0
    BY SumSteps, <1>a
  <2> QED
    BY <2>1
<1>4. ASSUME NEW j \in 0..(n - 1), j \in S PROVE j + 1 \in S
  <2> DEFINE m == 7 * j
  <2>1. m \in Nat /\ m + 7 <= Len(s) /\ 7 * (j + 1) = m + 7
    BY <1>2
  <2>2. s[m + 1] = 1 /\ \A i \in 2..7 : s[m + i] = 4
    <3>1. (m + 1) % 7 = 1 /\ \A i \in 2..7 : (m + i) % 7 # 1
      OBVIOUS
    <3>2. \A i \in 1..7 : m + i \in 1..(7 * n)
      OBVIOUS
    <3> QED
      BY <3>1, <3>2, <1>1
  <2>3. SumTo(s, m) = 25 * j
    BY <1>4
  <2> HIDE DEF m
  <2>4. \A i \in 0..6 : SumTo(s, m + (i + 1)) = SumTo(s, m + i) + s[m + (i + 1)]
    <3> TAKE i \in 0..6
    <3>1. m + i \in Nat /\ m + (i + 1) = (m + i) + 1 /\ m + (i + 1) <= Len(s)
      BY <2>1, <1>a
    <3> QED
      BY <3>1, <1>a, SumNext
  <2>5. m + 0 = m
    BY <2>1
  <2>6. SumTo(s, m + 7) = SumTo(s, m) + 25
    <3>1. SumTo(s, m + 1) = SumTo(s, m) + 1
      BY <2>2, <2>4, <2>5
    <3>2. \A i \in 1..6 : SumTo(s, m + (i + 1)) = SumTo(s, m + i) + 4
      BY <2>2, <2>4
    <3>3. SumTo(s, m) \in Nat
      BY <2>3
    <3> QED
      BY <3>1, <3>2, <3>3
  <2>7. SumTo(s, 7 * (j + 1)) = 25 * (j + 1)
    BY <2>1, <2>3, <2>6
  <2> QED
    BY <2>7
<1>5. n \in Nat /\ \A j \in 0..(n - 1) : j \in S => j + 1 \in S
  BY <1>4
<1> HIDE DEF S
<1>6. \A j \in 0..n : j \in S
  BY <1>3, <1>5, BoundedInduction, Zenon
<1>7. n \in S
  BY <1>6
<1> QED
  BY <1>7, <1>2 DEF S, SumOf, s

-----------------------------------------------------------------------------
(* The items of a class.                                                   *)

\* How many of the first j types are in the set, and the bytes of their values.
Upto(types, set, j) == Cardinality({k \in 1..j : types[k] \in set})
BytesUpto(types, j) ==
  Upto(types, {"Bool", "Byte"}, j) + 2 * Upto(types, {"Char", "Short"}, j)
    + 4 * Upto(types, {"Float", "Int"}, j) + 8 * Upto(types, {"Double", "Long"}, j)
ValuesUpto(types, z, j) == z * Upto(types, {"Object"}, j) + BytesUpto(types, j)

\* The number of types of a set among the first j, from that among the first j - 1.
LEMMA UptoStep ==
  ASSUME NEW types, NEW set
  PROVE  /\ Upto(types, set, 0) = 0
         /\ \A j \in Nat : Upto(types, set, j) \in Nat
         /\ \A j \in Nat \ {0} : Upto(types, set, j) = Upto(types, set, j - 1)
                                    + (IF types[j] \in set THEN 1 ELSE 0)
<1> DEFINE C(j) == {k \in 1..j : types[k] \in set}
<1>1. \A j \in Nat : IsFiniteSet(C(j)) /\ Cardinality(C(j)) \in Nat
  <2> TAKE j \in Nat
  <2>1. IsFiniteSet(1..j)
    BY FS_Interval
  <2>2. C(j) \subseteq 1..j
    OBVIOUS
  <2>3. IsFiniteSet(C(j))
    BY <2>1, <2>2, FS_Subset, Zenon
  <2> QED
    BY <2>3, FS_CardinalityType, Zenon
<1>2. Cardinality(C(0)) = 0
  <2>1. C(0) = {}
    OBVIOUS
  <2> QED
    BY <2>1, FS_EmptySet
<1>3. ASSUME NEW j \in Nat \ {0}
      PROVE  Cardinality(C(j)) = Cardinality(C(j - 1)) + (IF types[j] \in set THEN 1 ELSE 0)
  <2>1. j - 1 \in Nat /\ IsFiniteSet(C(j - 1)) /\ Cardinality(C(j - 1)) \in Nat
    BY <1>1
  <2>2. CASE types[j] \in set
    <3>1. C(j) = C(j - 1) \cup {j} /\ j \notin C(j - 1)
      BY <2>2
    <3> HIDE DEF C
    <3>2. Cardinality(C(j - 1) \cup {j}) = Cardinality(C(j - 1)) + 1
      BY <2>1, <3>1, FS_AddElement
    <3> QED
      BY <2>2, <3>1, <3>2
  <2>3. CASE types[j] \notin set
    <3>1. C(j) = C(j - 1)
      BY <2>3
    <3> HIDE DEF C
    <3> QED
      BY <2>3, <3>1, <2>1
  <2> QED
    BY <2>2, <2>3
<1> HIDE DEF C
<1>4. \A j : Upto(types, set, j) = Cardinality(C(j))
  BY DEF Upto, C
<1> QED
  BY <1>1, <1>2, <1>3, <1>4

\* The bytes of the first j values, from those of the first j - 1.
LEMMA ValuesStep ==
  ASSUME NEW types, NEW z \in {4, 8}
  PROVE  /\ ValuesUpto(types, z, 0) = 0
         /\ \A j \in Nat : ValuesUpto(types, z, j) \in Nat /\ BytesUpto(types, j) \in Nat
         /\ \A j \in Nat \ {0} : ValuesUpto(types, z, j)
                                    = ValuesUpto(types, z, j - 1) + parse_field_value(types[j], z)
<1> DEFINE O == {"Object"}
           B == {"Bool", "Byte"}
           C == {"Char", "Short"}
           F == {"Float", "Int"}
           D == {"Double", "Long"}
<1>1. \A set : Upto(types, set, 0) = 0 /\ \A j \in Nat : Upto(types, set, j) \in Nat
  BY UptoStep, Zenon
<1>2. \A j : /\ BytesUpto(types, j) = Upto(types, B, j) + 2 * Upto(types, C, j)
                                        + 4 * Upto(types, F, j) + 8 * Upto(types, D, j)
             /\ ValuesUpto(types, z, j) = z * Upto(types, O, j) + BytesUpto(types, j)
  BY DEF BytesUpto, ValuesUpto
<1>3. ASSUME NEW j \in Nat \ {0}
      PROVE  ValuesUpto(types, z, j) = ValuesUpto(types, z, j - 1) + parse_field_value(types[j], z)
  <2> DEFINE x == IF types[j] \in O THEN 1 ELSE 0
             y == IF types[j] \in B THEN 1 ELSE 0
             u == IF types[j] \in C THEN 1 ELSE 0
             v == IF types[j] \in F THEN 1 ELSE 0
             w == IF types[j] \in D THEN 1 ELSE 0
             o == Upto(types, O, j - 1)
             b == Upto(types, B, j - 1)
             c == Upto(types, C, j - 1)
             f == Upto(types, F, j - 1)
             d == Upto(types, D, j - 1)
  <2>1. parse_field_value(types[j], z) = z * x + y + 2 * u + 4 * v + 8 * w
    BY DEF parse_field_value, PrimitiveSize
  <2>2. x \in {0, 1} /\ y \in {0, 1} /\ u \in {0, 1} /\ v \in {0, 1} /\ w \in {0, 1}
    OBVIOUS
  <2>3. o \in Nat /\ b \in Nat /\ c \in Nat /\ f \in Nat /\ d \in Nat
    <3>1. j - 1 \in Nat
      OBVIOUS
    <3> QED
      BY <3>1, <1>1, Zenon
  <2> HIDE DEF O, B, C, F, D
  <2>4. /\ Upto(types, O, j) = o + x
        /\ Upto(types, B, j) = b + y
        /\ Upto(types, C, j) = c + u
        /\ Upto(types, F, j) = f + v
        /\ Upto(types, D, j) = d + w
    <3>1. \A set : Upto(types, set, j)
                     = Upto(types, set, j - 1) + (IF types[j] \in set THEN 1 ELSE 0)
      BY UptoStep
    <3> QED
      BY <3>1, Zenon
  <2>5. /\ ValuesUpto(types, z, j - 1) = z * o + (b + 2 * c + 4 * f + 8 * d)
        /\ ValuesUpto(types, z, j) = z * (o + x) + ((b + y) + 2 * (c + u) + 4 * (f + v) + 8 * (d + w))
    BY <1>2, <2>4, ZenonT(60)
  <2> HIDE DEF x, y, u, v, w, o, b, c, f, d
  <2> QED
    BY <2>1, <2>2, <2>3, <2>5
<1> HIDE DEF O, B, C, F, D
<1>4. ASSUME NEW j \in Nat PROVE ValuesUpto(types, z, j) \in Nat /\ BytesUpto(types, j) \in Nat
  <2> DEFINE o == Upto(types, O, j)
             b == Upto(types, B, j)
             c == Upto(types, C, j)
             f == Upto(types, F, j)
             d == Upto(types, D, j)
  <2>1. o \in Nat /\ b \in Nat /\ c \in Nat /\ f \in Nat /\ d \in Nat
    BY <1>1, Zenon
  <2>2. BytesUpto(types, j) = b + 2 * c + 4 * f + 8 * d /\ ValuesUpto(types, z, j) = z * o + BytesUpto(types, j)
    BY <1>2, Zenon
  <2> HIDE DEF o, b, c, f, d
  <2> QED
    BY <2>1, <2>2
<1>5. ValuesUpto(types, z, 0) = 0
  <2>1. \A set : Upto(types, set, 0) = 0
    BY <1>1, Zenon
  <2>2. BytesUpto(types, 0) = 0
    <3>1. BytesUpto(types, 0) = 0 + 2 * 0 + 4 * 0 + 8 * 0
      BY <2>1, <1>2
    <3> QED
      BY <3>1
  <2>3. ValuesUpto(types, z, 0) = z * 0 + BytesUpto(types, 0)
    BY <2>1, <1>2, Zenon
  <2> QED
    BY <2>2, <2>3
<1> QED
  BY <1>3, <1>4, <1>5

\* The reads of a constant pool take an index, a type and a value for each entry.
LEMMA SumOfConstants ==
  ASSUME NEW types, Len(types) \in Nat, NEW z \in {4, 8}
  PROVE  /\ parse_const_pool_items(types, z) \in Seq(Nat)
         /\ SumOf(parse_const_pool_items(types, z))
              = 2 * Len(types) + Len(types) + ValuesUpto(types, z, Len(types))
<1> DEFINE n == Len(types)
           s == parse_const_pool_items(types, z)
           V(j) == ValuesUpto(types, z, j)
           g == [j \in 0..n |-> 2 * j + j + V(j)]
<1>1. /\ V(0) = 0
      /\ \A j \in Nat : V(j) \in Nat
      /\ \A j \in 1..n : V(j) = V(j - 1) + parse_field_value(types[j], z)
  <2>1. \A j \in 1..n : j \in Nat \ {0}
    OBVIOUS
  <2>2. /\ V(0) = 0
        /\ \A j \in Nat : V(j) \in Nat
        /\ \A j \in Nat \ {0} : V(j) = V(j - 1) + parse_field_value(types[j], z)
    BY ValuesStep, Zenon
  <2> QED
    BY <2>1, <2>2, Zenon
<1>2. \A j : parse_field_value(types[j], z) \in Nat
  BY DEF parse_field_value, PrimitiveSize
<1>3. s = [k \in 1..(3 * n) |-> CASE k % 3 = 1 -> 2
                                  [] k % 3 = 2 -> 1
                                  [] k % 3 = 0 -> parse_field_value(types[k \div 3], z)]
  BY DEF parse_const_pool_items
<1> HIDE DEF s, V
<1>4. ASSUME NEW k \in 1..(3 * n)
      PROVE  /\ k % 3 = 1 => s[k] = 2
             /\ k % 3 = 2 => s[k] = 1
             /\ k % 3 = 0 => s[k] = parse_field_value(types[k \div 3], z)
             /\ s[k] \in Nat
  <2>1. k % 3 \in {0, 1, 2}
    OBVIOUS
  <2> QED
    BY <1>2, <1>3, <2>1
<1>5. s \in Seq(Nat) /\ Len(s) = 3 * n
  <2>1. 3 * n \in Nat
    OBVIOUS
  <2>2. s \in [1..(3 * n) -> Nat]
    BY <1>3, <1>4
  <2> QED
    BY <2>1, <2>2
<1>6. ASSUME NEW j \in 1..n PROVE g[j] = g[j - 1] + s[3 * j - 2] + s[3 * j - 1] + s[3 * j]
  <2>1. /\ 3 * j - 2 \in 1..(3 * n) /\ 3 * j - 1 \in 1..(3 * n) /\ 3 * j \in 1..(3 * n)
        /\ (3 * j - 2) % 3 = 1 /\ (3 * j - 1) % 3 = 2 /\ (3 * j) % 3 = 0 /\ (3 * j) \div 3 = j
    OBVIOUS
  <2>2. s[3 * j - 2] = 2 /\ s[3 * j - 1] = 1 /\ s[3 * j] = parse_field_value(types[j], z)
    BY <2>1, <1>4
  <2>3. V(j) = V(j - 1) + parse_field_value(types[j], z)
    BY <1>1
  <2>4. g[j] = 2 * j + j + V(j) /\ g[j - 1] = 2 * (j - 1) + (j - 1) + V(j - 1)
    OBVIOUS
  <2> DEFINE p == parse_field_value(types[j], z)
             v == V(j - 1)
  <2>5. v \in Nat /\ p \in Nat
    BY <1>1, <1>2
  <2>6. g[j] = 2 * j + j + (v + p) /\ g[j - 1] = 2 * (j - 1) + (j - 1) + v
    BY <2>3, <2>4
  <2> HIDE DEF p, v, g
  <2> QED
    BY <2>2, <2>5, <2>6 DEF p
<1>7. g \in [0..n -> Nat] /\ g[0] = 0 /\ g[n] = 2 * n + n + V(n)
  BY <1>1
<1> HIDE DEF g
<1>8. SumOf(s) = g[n]
  BY <1>5, <1>6, <1>7, SumOfTriples DEF Blocks
<1> QED
  BY <1>5, <1>7, <1>8 DEF s, V

\* The reads of static fields take a name, a type and a value for each field.
LEMMA SumOfStatics ==
  ASSUME NEW types, Len(types) \in Nat, NEW z \in {4, 8}
  PROVE  /\ parse_static_field_items(types, z) \in Seq(Nat)
         /\ SumOf(parse_static_field_items(types, z))
              = z * Len(types) + Len(types) + ValuesUpto(types, z, Len(types))
<1> DEFINE n == Len(types)
           s == parse_static_field_items(types, z)
           V(j) == ValuesUpto(types, z, j)
           g == [j \in 0..n |-> z * j + j + V(j)]
<1>1. /\ V(0) = 0
      /\ \A j \in Nat : V(j) \in Nat
      /\ \A j \in 1..n : V(j) = V(j - 1) + parse_field_value(types[j], z)
  <2>1. \A j \in 1..n : j \in Nat \ {0}
    OBVIOUS
  <2>2. /\ V(0) = 0
        /\ \A j \in Nat : V(j) \in Nat
        /\ \A j \in Nat \ {0} : V(j) = V(j - 1) + parse_field_value(types[j], z)
    BY ValuesStep, Zenon
  <2> QED
    BY <2>1, <2>2, Zenon
<1>2. \A j : parse_field_value(types[j], z) \in Nat
  BY DEF parse_field_value, PrimitiveSize
<1>3. s = [k \in 1..(3 * n) |-> CASE k % 3 = 1 -> z
                                  [] k % 3 = 2 -> 1
                                  [] k % 3 = 0 -> parse_field_value(types[k \div 3], z)]
  BY DEF parse_static_field_items
<1> HIDE DEF s, V
<1>4. ASSUME NEW k \in 1..(3 * n)
      PROVE  /\ k % 3 = 1 => s[k] = z
             /\ k % 3 = 2 => s[k] = 1
             /\ k % 3 = 0 => s[k] = parse_field_value(types[k \div 3], z)
             /\ s[k] \in Nat
  <2>1. k % 3 \in {0, 1, 2}
    OBVIOUS
  <2> QED
    BY <1>2, <1>3, <2>1
<1>5. s \in Seq(Nat) /\ Len(s) = 3 * n
  <2>1. 3 * n \in Nat
    OBVIOUS
  <2>2. s \in [1..(3 * n) -> Nat]
    BY <1>3, <1>4
  <2> QED
    BY <2>1, <2>2
<1>6. ASSUME NEW j \in 1..n PROVE g[j] = g[j - 1] + s[3 * j - 2] + s[3 * j - 1] + s[3 * j]
  <2>1. /\ 3 * j - 2 \in 1..(3 * n) /\ 3 * j - 1 \in 1..(3 * n) /\ 3 * j \in 1..(3 * n)
        /\ (3 * j - 2) % 3 = 1 /\ (3 * j - 1) % 3 = 2 /\ (3 * j) % 3 = 0 /\ (3 * j) \div 3 = j
    OBVIOUS
  <2>2. s[3 * j - 2] = z /\ s[3 * j - 1] = 1 /\ s[3 * j] = parse_field_value(types[j], z)
    BY <2>1, <1>4
  <2>3. V(j) = V(j - 1) + parse_field_value(types[j], z)
    BY <1>1
  <2>4. g[j] = z * j + j + V(j) /\ g[j - 1] = z * (j - 1) + (j - 1) + V(j - 1)
    OBVIOUS
  <2> DEFINE p == parse_field_value(types[j], z)
             v == V(j - 1)
  <2>5. v \in Nat /\ p \in Nat
    BY <1>1, <1>2
  <2>6. g[j] = z * j + j + (v + p) /\ g[j - 1] = z * (j - 1) + (j - 1) + v
    BY <2>3, <2>4
  <2> HIDE DEF p, v, g
  <2> QED
    BY <2>2, <2>5, <2>6 DEF p
<1>7. g \in [0..n -> Nat] /\ g[0] = 0 /\ g[n] = z * n + n + V(n)
  BY <1>1, SMTT(30)
<1> HIDE DEF g
<1>8. SumOf(s) = g[n]
  BY <1>5, <1>6, <1>7, SumOfTriples DEF Blocks
<1> QED
  BY <1>5, <1>7, <1>8 DEF s, V

-----------------------------------------------------------------------------
(* The sizes of the records, by kind.                                      *)

\* The reads at the head of a class dump.
LEMMA SumOfClassHead ==
  ASSUME NEW z \in {4, 8}
  PROVE  <<z, 4, z, z, z, z, z, z, 4, 2>> \in Seq(Nat) /\ SumOf(<<z, 4, z, z, z, z, z, z, 4, 2>>) = 7 * z + 10
<1> DEFINE s == <<z, 4, z, z, z, z, z, z, 4, 2>>
<1>1. s \in Seq(Nat) /\ Len(s) = 10
  OBVIOUS
<1>2. s[1] = z /\ s[2] = 4 /\ s[3] = z /\ s[4] = z /\ s[5] = z /\ s[6] = z /\ s[7] = z /\ s[8] = z /\ s[9] = 4 /\ s[10] = 2
  OBVIOUS
<1> HIDE DEF s
<1>3. SumTo(s, 0) = 0 /\ \A k \in 1..Len(s) : SumTo(s, k) = SumTo(s, k - 1) + s[k]
  <2>1. Len(s) \in Nat
    BY <1>1
  <2> QED
    BY <2>1, SumSteps, Zenon
<1>4. /\ SumTo(s, 1) = SumTo(s, 0) + z
      /\ SumTo(s, 2) = SumTo(s, 1) + 4
      /\ SumTo(s, 3) = SumTo(s, 2) + z
      /\ SumTo(s, 4) = SumTo(s, 3) + z
      /\ SumTo(s, 5) = SumTo(s, 4) + z
      /\ SumTo(s, 6) = SumTo(s, 5) + z
      /\ SumTo(s, 7) = SumTo(s, 6) + z
      /\ SumTo(s, 8) = SumTo(s, 7) + z
      /\ SumTo(s, 9) = SumTo(s, 8) + 4
      /\ SumTo(s, 10) = SumTo(s, 9) + 2
  BY <1>1, <1>2, <1>3
<1>5. SumTo(s, 10) = 7 * z + 10
  BY <1>3, <1>4, SMTT(30)
<1> QED
  BY <1>1, <1>5 DEF s, SumOf

\* The reads of a stack frame.
LEMMA SumOfFrame ==
  ASSUME NEW z \in {4, 8}
  PROVE  <<z, z, z, z, 4, 4>> \in Seq(Nat) /\ SumOf(<<z, z, z, z, 4, 4>>) = 4 * z + 8
<1> DEFINE s == <<z, z, z, z, 4, 4>>
<1>1. s \in Seq(Nat) /\ Len(s) = 6
  OBVIOUS
<1>2. s[1] = z /\ s[2] = z /\ s[3] = z /\ s[4] = z /\ s[5] = 4 /\ s[6] = 4
  OBVIOUS
<1> HIDE DEF s
<1>3. SumTo(s, 0) = 0 /\ \A k \in 1..Len(s) : SumTo(s, k) = SumTo(s, k - 1) + s[k]
  <2>1. Len(s) \in Nat
    BY <1>1
  <2> QED
    BY <2>1, SumSteps, Zenon
<1>4. /\ SumTo(s, 1) = SumTo(s, 0) + z
      /\ SumTo(s, 2) = SumTo(s, 1) + z
      /\ SumTo(s, 3) = SumTo(s, 2) + z
      /\ SumTo(s, 4) = SumTo(s, 3) + z
      /\ SumTo(s, 5) = SumTo(s, 4) + 4
      /\ SumTo(s, 6) = SumTo(s, 5) + 4
  BY <1>1, <1>2, <1>3
<1>5. SumTo(s, 6) = 4 * z + 8
  BY <1>3, <1>4
<1> QED
  BY <1>1, <1>5 DEF s, SumOf

\* The reads of a started thread.
LEMMA SumOfThread ==
  ASSUME NEW z \in {4, 8}
  PROVE  <<4, z, 4, z, z, z>> \in Seq(Nat) /\ SumOf(<<4, z, 4, z, z, z>>) = 4 * z + 8
<1> DEFINE s == <<4, z, 4, z, z, z>>
<1>1. s \in Seq(Nat) /\ Len(s) = 6
  OBVIOUS
<1>2. s[1] = 4 /\ s[2] = z /\ s[3] = 4 /\ s[4] = z /\ s[5] = z /\ s[6] = z
  OBVIOUS
<1> HIDE DEF s
<1>3. SumTo(s, 0) = 0 /\ \A k \in 1..Len(s) : SumTo(s, k) = SumTo(s, k - 1) + s[k]
  <2>1. Len(s) \in Nat
    BY <1>1
  <2> QED
    BY <2>1, SumSteps, Zenon
<1>4. /\ SumTo(s, 1) = SumTo(s, 0) + 4
      /\ SumTo(s, 2) = SumTo(s, 1) + z
      /\ SumTo(s, 3) = SumTo(s, 2) + 4
      /\ SumTo(s, 4) = SumTo(s, 3) + z
      /\ SumTo(s, 5) = SumTo(s, 4) + z
      /\ SumTo(s, 6) = SumTo(s, 5) + z
  BY <1>1, <1>2, <1>3
<1>5. SumTo(s, 6) = 4 * z + 8
  BY <1>3, <1>4
<1> QED
  BY <1>1, <1>5 DEF s, SumOf

\* The reads at the head of the allocation sites.
LEMMA SumOfSitesHead ==
  <<2, 4, 4, 4, 8, 8, 4>> \in Seq(Nat) /\ SumOf(<<2, 4, 4, 4, 8, 8, 4>>) = 34
<1> DEFINE s == <<2, 4, 4, 4, 8, 8, 4>>
<1>1. s \in Seq(Nat) /\ Len(s) = 7
  OBVIOUS
<1>2. s[1] = 2 /\ s[2] = 4 /\ s[3] = 4 /\ s[4] = 4 /\ s[5] = 8 /\ s[6] = 8 /\ s[7] = 4
  OBVIOUS
<1> HIDE DEF s
<1>3. SumTo(s, 0) = 0 /\ \A k \in 1..Len(s) : SumTo(s, k) = SumTo(s, k - 1) + s[k]
  <2>1. Len(s) \in Nat
    BY <1>1
  <2> QED
    BY <2>1, SumSteps, Zenon
<1>4. /\ SumTo(s, 1) = SumTo(s, 0) + 2
      /\ SumTo(s, 2) = SumTo(s, 1) + 4
      /\ SumTo(s, 3) = SumTo(s, 2) + 4
      /\ SumTo(s, 4) = SumTo(s, 3) + 4
      /\ SumTo(s, 5) = SumTo(s, 4) + 8
      /\ SumTo(s, 6) = SumTo(s, 5) + 8
      /\ SumTo(s, 7) = SumTo(s, 6) + 4
  BY <1>1, <1>2, <1>3
<1>5. SumTo(s, 7) = 34
  BY <1>3, <1>4
<1> QED
  BY <1>1, <1>5 DEF s, SumOf

\* The reads of a class dump are its head, its constants, its statics and its fields.
LEMMA SumOfClass ==
  ASSUME NEW r \in Record, NEW z \in {4, 8}
  PROVE  /\ parse_gc_class_dump(r, z) \in Seq(Nat)
         /\ SumOf(parse_gc_class_dump(r, z))
              = 7 * z + 14 + (3 * Len(r.consts) + ValuesUpto(r.consts, z, Len(r.consts)))
                  + (z * Len(r.statics) + Len(r.statics)
                       + ValuesUpto(r.statics, z, Len(r.statics)))
                  + (Len(r.fields) * z + Len(r.fields))
<1> DEFINE h == <<z, 4, z, z, z, z, z, z, 4, 2>>
           c == parse_const_pool_items(r.consts, z)
           s == parse_static_field_items(r.statics, z)
           f == count(<<z, 1>>, Len(r.fields))
           t == <<2>>
           nc == Len(r.consts)
           ns == Len(r.statics)
           nf == Len(r.fields)
           vc == ValuesUpto(r.consts, z, Len(r.consts))
           vs == ValuesUpto(r.statics, z, Len(r.statics))
<1>1. nc \in Nat /\ ns \in Nat /\ nf \in Nat
  BY DEF Record
<1>2. h \in Seq(Nat) /\ SumOf(h) = 7 * z + 10
  BY SumOfClassHead
<1>3. c \in Seq(Nat) /\ SumOf(c) = 2 * nc + nc + vc
  BY <1>1, SumOfConstants, Zenon
<1>4. s \in Seq(Nat) /\ SumOf(s) = z * ns + ns + vs
  BY <1>1, SumOfStatics, Zenon
<1>5. f \in Seq(Nat) /\ SumOf(f) = nf * z + nf * 1
  <2>1. 1 \in {1, 4}
    OBVIOUS
  <2> QED
    BY <1>1, <2>1, CountPairs, Zenon
<1>6. t \in Seq(Nat) /\ SumOf(t) = 2
  BY SumOfShort
<1>7. vc \in Nat /\ vs \in Nat
  BY <1>1, ValuesStep, Zenon
<1>8. parse_gc_class_dump(r, z) = h \o c \o t \o s \o t \o f
  BY DEF parse_gc_class_dump
<1> HIDE DEF h, c, s, f, t, nc, ns, nf, vc, vs
<1>a. h \o c \in Seq(Nat) /\ SumOf(h \o c) = SumOf(h) + SumOf(c)
  BY <1>2, <1>3, SumOfConcat, Zenon
<1>b. h \o c \o t \in Seq(Nat) /\ SumOf(h \o c \o t) = SumOf(h \o c) + SumOf(t)
  BY <1>a, <1>6, SumOfConcat, Zenon
<1>c. h \o c \o t \o s \in Seq(Nat) /\ SumOf(h \o c \o t \o s) = SumOf(h \o c \o t) + SumOf(s)
  BY <1>b, <1>4, SumOfConcat, Zenon
<1>d. /\ h \o c \o t \o s \o t \in Seq(Nat)
      /\ SumOf(h \o c \o t \o s \o t) = SumOf(h \o c \o t \o s) + SumOf(t)
  BY <1>c, <1>6, SumOfConcat, Zenon
<1>e. /\ h \o c \o t \o s \o t \o f \in Seq(Nat)
      /\ SumOf(h \o c \o t \o s \o t \o f) = SumOf(h \o c \o t \o s \o t) + SumOf(f)
  BY <1>d, <1>5, SumOfConcat, Zenon
<1>9. SumOf(parse_gc_class_dump(r, z))
        = 7 * z + 10 + (2 * nc + nc + vc) + 2 + (z * ns + ns + vs) + 2 + (nf * z + nf * 1)
  BY <1>2, <1>3, <1>4, <1>5, <1>6, <1>8, <1>a, <1>b, <1>c, <1>d, <1>e, Zenon
<1>10. SumOf(parse_gc_class_dump(r, z))
         = 7 * z + 14 + (3 * nc + vc) + (z * ns + ns + vs) + (nf * z + nf)
  BY <1>9, <1>1, <1>7
<1> QED
  BY <1>8, <1>e, <1>10 DEF nc, ns, nf, vc, vs

\* The counts of the format are the counts up to the last type.
LEMMA BytesOfTypes ==
  ASSUME NEW types
  PROVE  /\ References(types) = Upto(types, {"Object"}, Len(types))
         /\ Bytes(types) = BytesUpto(types, Len(types))
<1>1. {k \in 1..Len(types) : types[k] = "Object"} = {k \in 1..Len(types) : types[k] \in {"Object"}}
  OBVIOUS
<1> QED
  BY <1>1 DEF References, Bytes, Amount, BytesUpto, Upto

\* The bytes of a single type.
LEMMA BytesOfOne == ASSUME NEW t PROVE Bytes(<<t>>) = PrimitiveSize(t)
<1> DEFINE types == <<t>>
<1>1. Len(types) = 1 /\ types[1] = t
  OBVIOUS
<1> HIDE DEF types
<1>2. \A set : Upto(types, set, 1) = IF t \in set THEN 1 ELSE 0
  <2> TAKE set
  <2>1. Upto(types, set, 0) = 0
    BY UptoStep
  <2>2. Upto(types, set, 1) = Upto(types, set, 1 - 1) + (IF types[1] \in set THEN 1 ELSE 0)
    BY UptoStep
  <2> QED
    BY <2>1, <2>2, <1>1
<1>3. Bytes(types) = BytesUpto(types, 1)
  BY <1>1, BytesOfTypes
<1>4. BytesUpto(types, 1) = PrimitiveSize(t)
  BY <1>2 DEF BytesUpto, PrimitiveSize
<1> QED
  BY <1>3, <1>4 DEF types

\* A primitive value takes up to 8 bytes, and a reference is not one.
LEMMA PrimitiveSizes == ASSUME NEW t PROVE PrimitiveSize(t) \in {0, 1, 2, 4, 8}
BY DEF PrimitiveSize

\* The reads of a sub-record take what was written of it behind its tag.
LEMMA SubRecordSize ==
  ASSUME NEW r \in Record, NEW z \in {4, 8}, r.tag \in GcTags
  PROVE  /\ parse_gc_record(r, z) \in Seq(Nat)
         /\ SumOf(parse_gc_record(r, z)) = z * Identifiers(r) + OtherBytes(r)
<1>1. r.n \in Nat /\ r.tag \in 0..255
  BY DEF Record
<1>2. CASE r.tag = TAG_GC.CLASS_DUMP
  <2> DEFINE nc == Len(r.consts)
             ns == Len(r.statics)
             nf == Len(r.fields)
             oc == Upto(r.consts, {"Object"}, nc)
             os == Upto(r.statics, {"Object"}, ns)
             bc == BytesUpto(r.consts, nc)
             bs == BytesUpto(r.statics, ns)
  <2>1. nc \in Nat /\ ns \in Nat /\ nf \in Nat
    BY DEF Record
  <2>2. parse_gc_record(r, z) = parse_gc_class_dump(r, z)
    BY <1>2 DEF parse_gc_record, AndroidTags, TAG_GC
  <2>3. Identifiers(r) = 7 + oc + ns + os + nf
    <3>1. Identifiers(r) = 7 + References(r.consts) + Len(r.statics) + References(r.statics) + Len(r.fields)
      BY <1>2 DEF Identifiers, TAG_GC
    <3>2. References(r.consts) = oc /\ References(r.statics) = os
      BY BytesOfTypes, Zenon
    <3> QED
      BY <3>1, <3>2, Zenon
  <2>4. OtherBytes(r) = 14 + 3 * nc + bc + ns + bs + nf
    <3>1. OtherBytes(r) = 14 + 3 * Len(r.consts) + Bytes(r.consts) + Len(r.statics)
                            + Bytes(r.statics) + Len(r.fields)
      BY <1>2 DEF OtherBytes, TAG_GC
    <3>2. Bytes(r.consts) = bc /\ Bytes(r.statics) = bs
      BY BytesOfTypes, Zenon
    <3> QED
      BY <3>1, <3>2, Zenon
  <2>5. /\ parse_gc_class_dump(r, z) \in Seq(Nat)
        /\ SumOf(parse_gc_class_dump(r, z))
             = 7 * z + 14 + (3 * nc + (z * oc + bc)) + (z * ns + ns + (z * os + bs)) + (nf * z + nf)
    BY SumOfClass DEF ValuesUpto
  <2>6. oc \in Nat /\ os \in Nat /\ bc \in Nat /\ bs \in Nat
    BY <2>1, UptoStep, ValuesStep, Zenon
  <2> HIDE DEF nc, ns, nf, oc, os, bc, bs
  <2> QED
    BY <2>1, <2>2, <2>3, <2>4, <2>5, <2>6
<1>3. CASE r.tag = TAG_GC.INSTANCE_DUMP
  <2>1. parse_gc_record(r, z) = <<z, 4, z, 4, r.n>> /\ Identifiers(r) = 2 /\ OtherBytes(r) = 8 + r.n
    BY <1>3 DEF parse_gc_record, parse_gc_instance_dump, AndroidTags, TAG_GC, Identifiers, OtherBytes
  <2> DEFINE n == r.n
  <2>2. n \in Nat
    BY <1>1
  <2> HIDE DEF n
  <2>3. SumOf(<<z, 4, z, 4, n>>) = z + 4 + z + 4 + n /\ <<z, 4, z, 4, n>> \in Seq(Nat)
    BY <2>2, SumOfShort, SMTT(30)
  <2>4. z + 4 + z + 4 + n = z * 2 + (8 + n)
    BY <2>2
  <2> QED
    BY <2>1, <2>3, <2>4 DEF n
<1>4. CASE r.tag = TAG_GC.OBJ_ARRAY_DUMP
  <2>1. /\ parse_gc_record(r, z) = <<z, 4, 4, z, r.n * z>>
        /\ Identifiers(r) = 2 + r.n /\ OtherBytes(r) = 8
    BY <1>4 DEF parse_gc_record, parse_gc_object_array_dump, AndroidTags, TAG_GC, Identifiers, OtherBytes
  <2> DEFINE b == r.n * z
  <2>2. b \in Nat /\ z + 4 + 4 + z + b = z * (2 + r.n) + 8
    BY <1>1
  <2> HIDE DEF b
  <2>3. SumOf(<<z, 4, 4, z, b>>) = z + 4 + 4 + z + b /\ <<z, 4, 4, z, b>> \in Seq(Nat)
    BY <2>2, SumOfShort, SMTT(30)
  <2> QED
    BY <2>1, <2>2, <2>3 DEF b
<1>5. CASE r.tag = TAG_GC.PRIM_ARRAY_DUMP
  <2> DEFINE p == r.n * PrimitiveSize(r.type)
  <2>1. /\ parse_gc_record(r, z) = <<z, 4, 4, 1, p>>
        /\ Identifiers(r) = 1 /\ OtherBytes(r) = 9 + r.n * Bytes(<<r.type>>)
    BY <1>5 DEF parse_gc_record, parse_gc_primitive_array_dump, AndroidTags, TAG_GC, Identifiers, OtherBytes
  <2>2. p \in Nat
    BY <1>1, PrimitiveSizes
  <2>3. OtherBytes(r) = 9 + p
    BY <2>1, BytesOfOne
  <2> HIDE DEF p
  <2>4. SumOf(<<z, 4, 4, 1, p>>) = z + 4 + 4 + 1 + p
    BY <2>2, SumOfShort, SMTT(30)
  <2> QED
    BY <2>1, <2>2, <2>3, <2>4
<1>6. CASE r.tag \in {TAG_GC.ROOT_THREAD_OBJ, TAG_GC.ROOT_JNI_LOCAL, TAG_GC.ROOT_JAVA_FRAME,
                      TAG_GC.ROOT_JNI_MONITOR}
  <2>1. parse_gc_record(r, z) = <<z, 4, 4>> /\ Identifiers(r) = 1 /\ OtherBytes(r) = 8
    BY <1>6, SMTT(30) DEF parse_gc_record, parse_gc_root, parse_gc_android, AndroidTags, TAG_GC, Identifiers, OtherBytes
  <2>2. SumOf(<<z, 4, 4>>) = z + 4 + 4
    BY SumOfShort
  <2> QED
    BY <2>1, <2>2
<1>7. CASE r.tag \in {TAG_GC.ROOT_NATIVE_STACK, TAG_GC.ROOT_THREAD_BLOCK}
  <2>1. parse_gc_record(r, z) = <<z, 4>> /\ Identifiers(r) = 1 /\ OtherBytes(r) = 4
    BY <1>7, SMTT(30) DEF parse_gc_record, parse_gc_root, AndroidTags, TAG_GC, Identifiers, OtherBytes
  <2>2. SumOf(<<z, 4>>) = z + 4
    BY SumOfShort
  <2> QED
    BY <2>1, <2>2
<1>8. CASE r.tag = TAG_GC.ROOT_JNI_GLOBAL
  <2>1. parse_gc_record(r, z) = <<z, z>> /\ Identifiers(r) = 2 /\ OtherBytes(r) = 0
    BY <1>8 DEF parse_gc_record, parse_gc_root, AndroidTags, TAG_GC, Identifiers, OtherBytes
  <2>2. SumOf(<<z, z>>) = z + z
    BY SumOfShort
  <2> QED
    BY <2>1, <2>2
<1>9. CASE r.tag = TAG_GC.PRIM_ARRAY_NODATA_DUMP
  <2>1. parse_gc_record(r, z) = <<z, 4, 4, 1>> /\ Identifiers(r) = 1 /\ OtherBytes(r) = 9
    BY <1>9 DEF parse_gc_record, parse_gc_android, AndroidTags, TAG_GC, Identifiers, OtherBytes
  <2>2. SumOf(<<z, 4, 4, 1>>) = z + 4 + 4 + 1
    BY SumOfShort
  <2> QED
    BY <2>1, <2>2
<1>10. CASE r.tag = TAG_GC.HEAP_DUMP_INFO
  <2>1. parse_gc_record(r, z) = <<4, z>> /\ Identifiers(r) = 1 /\ OtherBytes(r) = 4
    BY <1>10 DEF parse_gc_record, parse_gc_android, AndroidTags, TAG_GC, Identifiers, OtherBytes
  <2>2. SumOf(<<4, z>>) = 4 + z
    BY SumOfShort
  <2> QED
    BY <2>1, <2>2
<1>11. CASE r.tag \in {TAG_GC.ROOT_UNKNOWN, TAG_GC.ROOT_STICKY_CLASS, TAG_GC.ROOT_MONITOR_USED,
                       TAG_GC.ROOT_INTERNED_STRING, TAG_GC.ROOT_FINALIZING, TAG_GC.ROOT_DEBUGGER,
                       TAG_GC.ROOT_REFERENCE_CLEANUP, TAG_GC.ROOT_VM_INTERNAL, TAG_GC.UNREACHABLE}
  <2>0. r.tag \in {255, 5, 7, 137, 138, 139, 140, 141, 144}
    BY <1>11 DEF TAG_GC
  <2>1. parse_gc_record(r, z) = <<z>> /\ Identifiers(r) = 1 /\ OtherBytes(r) = 0
    <3>1. Identifiers(r) = 1 /\ OtherBytes(r) = 0
      <4>1. r.tag \in {255, 5, 7, 137, 138, 139, 140, 141, 144}
        BY <2>0
      <4>2. Identifiers(r) = 1
        BY <4>1 DEF TAG_GC, Identifiers
      <4>3. OtherBytes(r) = 0
        <5>1. r.tag \notin {32, 33, 34, 35, 195, 2, 3, 8, 142, 4, 6, 254}
          BY <4>1
        <5> QED
          BY <5>1 DEF TAG_GC, OtherBytes
      <4> QED
        BY <4>2, <4>3
    <3>2. CASE r.tag \in AndroidTags
      BY <1>11, <3>1, <3>2 DEF parse_gc_record, parse_gc_android, TAG_GC
    <3>3. CASE r.tag \notin AndroidTags
      <4>1. r.tag \in {255, 5, 7}
        BY <2>0, <3>3 DEF AndroidTags, TAG_GC
      <4>2. parse_gc_record(r, z) = parse_gc_root(r, z)
        BY <4>1, <3>3 DEF parse_gc_record, TAG_GC
      <4>3. parse_gc_root(r, z) = <<z>>
        BY <4>1 DEF parse_gc_root, TAG_GC
      <4> QED
        BY <4>2, <4>3, <3>1
    <3> QED
      BY <3>2, <3>3
  <2>2. SumOf(<<z>>) = z
    BY SumOfShort
  <2> QED
    BY <2>1, <2>2
<1> QED
  <2>1. r.tag \in {1, 2, 3, 4, 5, 6, 7, 8, 32, 33, 34, 35, 137, 138, 139, 140, 141, 142, 144,
                   195, 254, 255}
    BY DEF GcTags, TAG_GC
  <2> QED
    BY <2>1, <1>2, <1>3, <1>4, <1>5, <1>6, <1>7, <1>8, <1>9, <1>10, <1>11 DEF TAG_GC

\* The numbers of the tags of the top-level records.
LEMMA TopTagNumbers ==
  ASSUME NEW r, r.tag \in TopTags
  PROVE  r.tag \in {1, 2, 3, 4, 5, 6, 7, 10, 11, 12, 13, 14, 28, 44}
BY DEF TopTags, TAG

\* The reads of a stack trace take the length that its header gives.
LEMMA StackTraceSize ==
  ASSUME NEW r \in Record, NEW z \in {4, 8}
  PROVE  /\ parse_stack_trace(r, z) \in Seq(Nat)
         /\ r.length = 12 + r.n * z => SumOf(parse_stack_trace(r, z)) = r.length
<1> DEFINE k == SaturatingSub(r.length, 12) \div z
           c == count(<<z>>, k)
           h == <<4, 4, 4>>
<1>1. k \in Nat /\ r.n \in Nat /\ (r.length = 12 + r.n * z => k = r.n)
  <2>1. r.length \in Nat /\ r.n \in Nat
    BY DEF Record
  <2>2. SaturatingSub(r.length, 12) \in Nat
    BY <2>1 DEF SaturatingSub
  <2>3. r.length = 12 + r.n * z => SaturatingSub(r.length, 12) = r.n * z
    BY <2>1 DEF SaturatingSub
  <2> DEFINE x == SaturatingSub(r.length, 12)
             n == r.n
  <2>4. x \in Nat /\ n \in Nat /\ (x = n * z => x \div z = n) /\ x \div z \in Nat
    BY <2>1, <2>2
  <2> QED
    BY <2>1, <2>3, <2>4
<1>2. parse_stack_trace(r, z) = h \o c
  BY DEF parse_stack_trace
<1> HIDE DEF k
<1>3. c \in Seq(Nat) /\ SumOf(c) = k * z
  BY <1>1, CountIds
<1>4. h \in Seq(Nat) /\ SumOf(h) = 12
  BY SumOfShort
<1> HIDE DEF c, h
<1>5. h \o c \in Seq(Nat) /\ SumOf(h \o c) = 12 + k * z
  BY <1>3, <1>4, SumOfConcat
<1> QED
  BY <1>1, <1>2, <1>5

\* The reads of the allocation sites take 25 bytes for each site.
LEMMA SitesSize ==
  ASSUME NEW r \in Record
  PROVE  /\ parse_allocation_sites(r) \in Seq(Nat)
         /\ SumOf(parse_allocation_sites(r)) = 34 + 25 * r.n
<1> DEFINE h == <<2, 4, 4, 4, 8, 8, 4>>
           c == count(<<1, 4, 4, 4, 4, 4, 4>>, r.n)
<1>1. r.n \in Nat
  BY DEF Record
<1>2. c \in Seq(Nat) /\ SumOf(c) = 25 * r.n
  BY <1>1, CountSites, Zenon
<1>3. h \in Seq(Nat) /\ SumOf(h) = 34
  BY SumOfSitesHead, Zenon
<1>4. parse_allocation_sites(r) = h \o c
  BY DEF parse_allocation_sites
<1> HIDE DEF h, c
<1>5. h \o c \in Seq(Nat) /\ SumOf(h \o c) = 34 + 25 * r.n
  BY <1>2, <1>3, SumOfConcat, Zenon
<1> QED
  BY <1>4, <1>5

\* The reads of the CPU samples take a pair of counts for each sample, not for each trace.
LEMMA SamplesSize ==
  ASSUME NEW r \in Record
  PROVE  /\ parse_cpu_samples(r) \in Seq(Nat)
         /\ SumOf(parse_cpu_samples(r)) = 8 + 8 * r.total
<1> DEFINE h == <<4, 4>>
           c == count(<<4, 4>>, r.total)
           n == r.total
<1>1. n \in Nat
  BY DEF Record
<1>2. c \in Seq(Nat) /\ SumOf(c) = n * 4 + n * 4
  <2>1. 4 \in {4, 8} /\ 4 \in {1, 4}
    OBVIOUS
  <2> QED
    BY <1>1, <2>1, CountPairs, Zenon
<1>3. h \in Seq(Nat) /\ SumOf(h) = 8
  BY SumOfShort
<1>4. parse_cpu_samples(r) = h \o c
  BY DEF parse_cpu_samples
<1> HIDE DEF h, c
<1>5. h \o c \in Seq(Nat) /\ SumOf(h \o c) = SumOf(h) + SumOf(c)
  BY <1>2, <1>3, SumOfConcat, Zenon
<1> HIDE DEF n
<1>6. SumOf(h \o c) = 8 + 8 * n
  BY <1>1, <1>2, <1>3, <1>5
<1> QED
  BY <1>4, <1>5, <1>6 DEF n

\* The reads of a string take the length that its header gives.
LEMMA StringSize ==
  ASSUME NEW r \in Record, NEW z \in {4, 8}
  PROVE  /\ parse_utf8_string(r, z) \in Seq(Nat)
         /\ r.length = z + r.n => SumOf(parse_utf8_string(r, z)) = r.length
<1> DEFINE k == SaturatingSub(r.length, z)
<1>1. k \in Nat /\ r.n \in Nat /\ (r.length = z + r.n => k = r.n)
  <2>1. r.length \in Nat /\ r.n \in Nat
    BY DEF Record
  <2> QED
    BY <2>1 DEF SaturatingSub
<1>2. parse_utf8_string(r, z) = <<z, k>>
  BY DEF parse_utf8_string
<1> HIDE DEF k
<1>3. <<z, k>> \in Seq(Nat) /\ SumOf(<<z, k>>) = z + k
  BY <1>1, SumOfShort
<1> QED
  BY <1>1, <1>2, <1>3

\* The reads behind the header of a top-level record take the length that the header
\* declares, except of a profile in which a trace was sampled more than once.
LEMMA TopRecordSize ==
  ASSUME NEW r \in Record, NEW z \in {4, 8}, r.tag \in TopTags
  PROVE  /\ parse_record_body(r, z) \in Seq(Nat)
         /\ r.tag \in HeapDumpTags => SumOf(parse_record_body(r, z)) = 0
         /\ /\ r.length = DeclaredLength(r, z)
            /\ r.tag \notin HeapDumpTags
            /\ r.tag = TAG.CPU_SAMPLES => r.total = r.n
            => SumOf(parse_record_body(r, z)) = r.length
<1>0. r.n \in Nat /\ r.total \in Nat
  BY DEF Record
<1>1. CASE r.tag = TAG.STRING
  <2>1. parse_record_body(r, z) = parse_utf8_string(r, z) /\ DeclaredLength(r, z) = z + r.n
    BY <1>1 DEF parse_record_body, DeclaredLength, TAG, HeapDumpTags
  <2> QED
    BY <1>1, <2>1, StringSize DEF TAG, HeapDumpTags
<1>2. CASE r.tag = TAG.STACK_TRACE
  <2>1. parse_record_body(r, z) = parse_stack_trace(r, z) /\ DeclaredLength(r, z) = 12 + r.n * z
    BY <1>2 DEF parse_record_body, DeclaredLength, TAG, HeapDumpTags
  <2> QED
    BY <1>2, <2>1, StackTraceSize DEF TAG, HeapDumpTags
<1>3. CASE r.tag = TAG.ALLOC_SITES
  <2>1. parse_record_body(r, z) = parse_allocation_sites(r) /\ DeclaredLength(r, z) = 34 + 25 * r.n
    BY <1>3 DEF parse_record_body, DeclaredLength, TAG, HeapDumpTags
  <2> QED
    BY <1>3, <2>1, SitesSize DEF TAG, HeapDumpTags
<1>4. CASE r.tag = TAG.CPU_SAMPLES
  <2>1. parse_record_body(r, z) = parse_cpu_samples(r) /\ DeclaredLength(r, z) = 8 + 8 * r.n
    BY <1>4 DEF parse_record_body, DeclaredLength, TAG, HeapDumpTags
  <2> QED
    BY <1>4, <2>1, SamplesSize DEF TAG, HeapDumpTags
<1>5. CASE r.tag = TAG.LOAD_CLASS
  <2>1. parse_record_body(r, z) = <<4, z, 4, z>> /\ DeclaredLength(r, z) = 8 + 2 * z
    BY <1>5 DEF parse_record_body, parse_load_class, DeclaredLength, TAG, HeapDumpTags
  <2>2. SumOf(<<4, z, 4, z>>) = 4 + z + 4 + z
    BY SumOfShort
  <2> QED
    BY <1>5, <2>1, <2>2 DEF TAG, HeapDumpTags
<1>6. CASE r.tag \in {TAG.UNLOAD_CLASS, TAG.END_THREAD}
  <2>1. parse_record_body(r, z) = <<4>> /\ DeclaredLength(r, z) = 4
    BY <1>6 DEF parse_record_body, parse_unload_class, parse_end_thread, DeclaredLength, TAG, HeapDumpTags
  <2>2. SumOf(<<4>>) = 4
    BY SumOfShort
  <2> QED
    BY <1>6, <2>1, <2>2 DEF TAG, HeapDumpTags
<1>7. CASE r.tag = TAG.STACK_FRAME
  <2>1. parse_record_body(r, z) = <<z, z, z, z, 4, 4>> /\ DeclaredLength(r, z) = 8 + 4 * z
    BY <1>7 DEF parse_record_body, parse_stack_frame, DeclaredLength, TAG, HeapDumpTags
  <2> QED
    BY <1>7, <2>1, SumOfFrame DEF TAG, HeapDumpTags
<1>8. CASE r.tag = TAG.START_THREAD
  <2>1. parse_record_body(r, z) = <<4, z, 4, z, z, z>> /\ DeclaredLength(r, z) = 8 + 4 * z
    BY <1>8 DEF parse_record_body, parse_start_thread, DeclaredLength, TAG, HeapDumpTags
  <2> QED
    BY <1>8, <2>1, SumOfThread DEF TAG, HeapDumpTags
<1>9. CASE r.tag = TAG.HEAP_SUMMARY
  <2>1. parse_record_body(r, z) = <<4, 4, 8, 8>> /\ DeclaredLength(r, z) = 24
    BY <1>9 DEF parse_record_body, parse_heap_summary, DeclaredLength, TAG, HeapDumpTags
  <2>2. SumOf(<<4, 4, 8, 8>>) = 24
    BY SumOfShort
  <2> QED
    BY <1>9, <2>1, <2>2 DEF TAG, HeapDumpTags
<1>10. CASE r.tag = TAG.CONTROL_SETTING
  <2>1. parse_record_body(r, z) = <<4, 2>> /\ DeclaredLength(r, z) = 6
    BY <1>10 DEF parse_record_body, parse_control_settings, DeclaredLength, TAG, HeapDumpTags
  <2>2. SumOf(<<4, 2>>) = 6
    BY SumOfShort
  <2> QED
    BY <1>10, <2>1, <2>2 DEF TAG, HeapDumpTags
<1>11. CASE r.tag \in HeapDumpTags \cup {TAG.HEAP_DUMP_END}
  <2>1. parse_record_body(r, z) = << >> /\ (r.tag \notin HeapDumpTags => DeclaredLength(r, z) = 0)
    BY <1>11 DEF parse_record_body, DeclaredLength, TAG, HeapDumpTags
  <2> QED
    BY <2>1, SumOfShort
<1> QED
  BY TopTagNumbers, <1>1, <1>2, <1>3, <1>4, <1>5, <1>6, <1>7, <1>8, <1>9, <1>10, <1>11
     DEF TAG, HeapDumpTags

\* A sequence that starts with another one has its first read.
LEMMA ConcatHead ==
  ASSUME NEW h \in Seq(Nat), NEW b \in Seq(Nat), 1 <= Len(h)
  PROVE  h \o b \in Seq(Nat) /\ Len(h \o b) >= 1 /\ (h \o b)[1] = h[1]
<1>1. Len(h) \in Nat /\ Len(b) \in Nat /\ Len(h \o b) = Len(h) + Len(b)
  OBVIOUS
<1>2. (h \o b)[1] = h[1]
  OBVIOUS
<1> QED
  BY <1>1, <1>2

\* The first read is that of the tag.
LEMMA ReadsAreNumbers ==
  ASSUME NEW r \in Record, NEW z \in {4, 8}, NEW within \in BOOLEAN
  PROVE  /\ Reads(r, z, within) \in Seq(Nat)
         /\ Len(Reads(r, z, within)) >= 1
         /\ SumTo(Reads(r, z, within), 1) = 1
<1> DEFINE s == Reads(r, z, within)
<1>1. s \in Seq(Nat) /\ Len(s) >= 1 /\ s[1] = 1
  <2>1. CASE ~Known(r, within)
    BY <2>1 DEF Reads
  <2>2. CASE Known(r, within) /\ within
    <3>1. s = <<1>> \o parse_gc_record(r, z)
      BY <2>2 DEF Reads
    <3>2. parse_gc_record(r, z) \in Seq(Nat)
      BY <2>2, SubRecordSize DEF Known
    <3> QED
      BY <3>1, <3>2
  <2>3. CASE Known(r, within) /\ ~within
    <3>1. s = <<1>> \o <<4, 4>> \o parse_record_body(r, z)
      BY <2>3 DEF Reads, parse_header_record
    <3> DEFINE b == parse_record_body(r, z)
               h == <<1>> \o <<4, 4>>
    <3>2. b \in Seq(Nat)
      BY <2>3, TopRecordSize DEF Known
    <3>3. h \in Seq(Nat) /\ Len(h) = 3 /\ h[1] = 1
      OBVIOUS
    <3> HIDE DEF b, h
    <3>4. h \o b \in Seq(Nat) /\ Len(h \o b) >= 1 /\ (h \o b)[1] = h[1]
      <4>1. 1 <= Len(h)
        BY <3>3
      <4> QED
        BY <3>2, <3>3, <4>1, ConcatHead, Zenon
    <3> QED
      BY <3>1, <3>3, <3>4 DEF b, h
  <2> QED
    BY <2>1, <2>2, <2>3
<1> HIDE DEF s
<1>2. SumTo(s, 0) = 0 /\ SumTo(s, 1) = SumTo(s, 0) + s[1]
  <2>1. Len(s) \in Nat /\ 1 \in 1..Len(s) /\ 1 - 1 = 0
    BY <1>1
  <2>2. SumTo(s, 0) = 0 /\ \A k \in 1..Len(s) : SumTo(s, k) = SumTo(s, k - 1) + s[k]
    BY <2>1, SumSteps, Zenon
  <2> QED
    BY <2>1, <2>2
<1> QED
  BY <1>1, <1>2 DEF s

\* The identifiers and the other bytes of a sub-record are numbers.
LEMMA NumbersOfSubRecord ==
  ASSUME NEW r \in Record
  PROVE  Identifiers(r) \in Nat /\ OtherBytes(r) \in Nat
<1>0. /\ r.n \in Nat /\ r.length \in Nat /\ r.sub \in BOOLEAN
      /\ Len(r.consts) \in Nat /\ Len(r.statics) \in Nat /\ Len(r.fields) \in Nat
  BY DEF Record
<1>1. ASSUME NEW types, Len(types) \in Nat PROVE References(types) \in Nat /\ Bytes(types) \in Nat
  <2>1. References(types) = Upto(types, {"Object"}, Len(types)) /\ Bytes(types) = BytesUpto(types, Len(types))
    BY BytesOfTypes, Zenon
  <2>2. Upto(types, {"Object"}, Len(types)) \in Nat
    BY <1>1, UptoStep, Zenon
  <2>3. BytesUpto(types, Len(types)) \in Nat
    <3>1. 4 \in {4, 8}
      OBVIOUS
    <3> QED
      BY <3>1, <1>1, ValuesStep, Zenon
  <2> QED
    BY <2>1, <2>2, <2>3, Zenon
<1> DEFINE rc == References(r.consts)
           rs == References(r.statics)
           bc == Bytes(r.consts)
           bs == Bytes(r.statics)
           nc == Len(r.consts)
           ns == Len(r.statics)
           nf == Len(r.fields)
           bt == r.n * Bytes(<<r.type>>)
<1>2. rc \in Nat /\ rs \in Nat /\ bc \in Nat /\ bs \in Nat /\ nc \in Nat /\ ns \in Nat /\ nf \in Nat
  BY <1>0, <1>1, Zenon
<1>3. bt \in Nat
  BY <1>0, BytesOfOne, PrimitiveSizes
<1>4. Identifiers(r) \in {7 + rc + ns + rs + nf, 2 + r.n, 2, 1}
  BY DEF Identifiers
<1>5. OtherBytes(r) \in {14 + 3 * nc + bc + ns + bs + nf, 8 + r.n, 8, 9 + bt, 9, 4, 0}
  BY DEF OtherBytes
<1> HIDE DEF rc, rs, bc, bs, nc, ns, nf, bt
<1> QED
  BY <1>0, <1>2, <1>3, <1>4, <1>5

\* A record has at least its tag.
LEMMA WrittenSizePositive ==
  ASSUME NEW r \in Record, NEW z \in {4, 8}
  PROVE  WrittenSize(r, z) \in Nat \ {0}
<1>0. r.length \in Nat /\ r.sub \in BOOLEAN
  BY DEF Record
<1>6. Identifiers(r) \in Nat /\ OtherBytes(r) \in Nat
  BY NumbersOfSubRecord
<1>7. CASE r.sub
  <2>1. WrittenSize(r, z) = 1 + z * Identifiers(r) + OtherBytes(r)
    BY <1>7 DEF WrittenSize
  <2> QED
    BY <2>1, <1>6
<1>8. CASE ~r.sub
  BY <1>0, <1>8 DEF WrittenSize
<1> QED
  BY <1>0, <1>7, <1>8

\* All reads of a record in its table take what was written of it.
LEMMA ReadsTakeRecord ==
  ASSUME NEW r \in Record, NEW z \in {4, 8},
         ~r.sub /\ r.tag \notin HeapDumpTags => r.length = DeclaredLength(r, z),
         ~r.sub /\ r.tag = TAG.CPU_SAMPLES => r.total = r.n
  PROVE  /\ SumOf(Reads(r, z, r.sub)) <= WrittenSize(r, z)
         /\ Known(r, r.sub) => SumOf(Reads(r, z, r.sub)) = WrittenSize(r, z)
<1>0. r.sub \in BOOLEAN /\ r.length \in Nat /\ WrittenSize(r, z) \in Nat \ {0}
  BY WrittenSizePositive DEF Record
<1>a. <<1>> \in Seq(Nat) /\ SumOf(<<1>>) = 1
  BY SumOfShort
<1>1. CASE ~Known(r, r.sub)
  <2>1. Reads(r, z, r.sub) = <<1>>
    BY <1>1 DEF Reads
  <2> QED
    BY <2>1, <1>0, <1>1, <1>a
<1>2. CASE Known(r, r.sub) /\ r.sub
  <2> DEFINE b == parse_gc_record(r, z)
  <2>1. Reads(r, z, r.sub) = <<1>> \o b
    BY <1>2 DEF Reads
  <2>2. r.tag \in GcTags
    BY <1>2 DEF Known
  <2>3. b \in Seq(Nat) /\ SumOf(b) = z * Identifiers(r) + OtherBytes(r)
    BY <2>2, SubRecordSize
  <2> HIDE DEF b
  <2>4. SumOf(<<1>> \o b) = SumOf(<<1>>) + SumOf(b)
    BY <1>a, <2>3, SumOfConcat, Zenon
  <2>5. WrittenSize(r, z) = 1 + z * Identifiers(r) + OtherBytes(r)
    BY <1>2 DEF WrittenSize
  <2>6. SumOf(<<1>> \o b) = 1 + (z * Identifiers(r) + OtherBytes(r))
    BY <2>3, <2>4, <1>a, Zenon
  <2> DEFINE i == Identifiers(r)
             o == OtherBytes(r)
  <2>7. i \in Nat /\ o \in Nat
    BY NumbersOfSubRecord
  <2>8. WrittenSize(r, z) = 1 + z * i + o /\ SumOf(<<1>> \o b) = 1 + (z * i + o)
    BY <2>5, <2>6
  <2> HIDE DEF i, o
  <2>9. SumOf(<<1>> \o b) = WrittenSize(r, z)
    BY <2>7, <2>8
  <2> QED
    BY <2>1, <2>9, <1>0
<1>3. CASE Known(r, r.sub) /\ ~r.sub
  <2> DEFINE b == parse_record_body(r, z)
             h == <<1>> \o <<4, 4>>
  <2>1. Reads(r, z, r.sub) = h \o b
    BY <1>3 DEF Reads, parse_header_record
  <2>2. r.tag \in TopTags
    BY <1>3 DEF Known
  <2>3. /\ b \in Seq(Nat)
        /\ SumOf(b) = IF r.tag \in HeapDumpTags THEN 0 ELSE r.length
    BY <2>2, <1>3, TopRecordSize
  <2>4. <<4, 4>> \in Seq(Nat) /\ SumOf(<<4, 4>>) = 8
    BY SumOfShort
  <2>5. h \in Seq(Nat) /\ SumOf(h) = 1 + 8
    BY <1>a, <2>4, SumOfConcat, Zenon
  <2>6. WrittenSize(r, z) = IF r.tag \in HeapDumpTags THEN 9 ELSE 9 + r.length
    BY <1>3 DEF WrittenSize
  <2> HIDE DEF b, h
  <2>7. SumOf(h \o b) = SumOf(h) + SumOf(b)
    BY <2>3, <2>5, SumOfConcat, Zenon
  <2> QED
    BY <1>0, <2>1, <2>3, <2>5, <2>6, <2>7
<1> QED
  BY <1>0, <1>1, <1>2, <1>3

-----------------------------------------------------------------------------
(* Where the records are.                                                  *)

\* The records of a well-formed file, and their sizes.
LEMMA FileFacts ==
  ASSUME NEW f, WellFormed(f)
  PROVE  /\ Len(f.records) \in Nat /\ f.id_size \in {4, 8}
         /\ \A k \in 1..Len(f.records) : f.records[k] \in Record
         /\ \A k \in 1..Len(f.records) : WrittenSize(f.records[k], f.id_size) \in Nat \ {0}
<1>1. f.id_size \in {4, 8} /\ f.records \in Seq(Record)
  BY DEF WellFormed
<1>2. Len(f.records) \in Nat /\ \A k \in 1..Len(f.records) : f.records[k] \in Record
  BY <1>1
<1> QED
  BY <1>1, <1>2, WrittenSizePositive

\* Each record starts where the one before it ends.
LEMMA StartFacts ==
  ASSUME NEW f, WellFormed(f)
  PROVE  /\ Start(f, 1) = 0
         /\ \A i \in 1..(Len(f.records) + 1) : Start(f, i) \in Nat
         /\ \A i \in 1..Len(f.records) :
              Start(f, i + 1) = Start(f, i) + WrittenSize(f.records[i], f.id_size)
         /\ \A i, j \in 1..(Len(f.records) + 1) : i <= j => Start(f, i) <= Start(f, j)
         /\ \A i, j \in 1..(Len(f.records) + 1) : i < j => Start(f, i) < Start(f, j)
<1> DEFINE n == Len(f.records)
           size == [k \in 1..n |-> WrittenSize(f.records[k], f.id_size)]
<1>1. n \in Nat /\ \A k \in 1..n : WrittenSize(f.records[k], f.id_size) \in Nat \ {0}
  BY FileFacts
<1>2. size \in Seq(Nat) /\ Len(size) = n
  BY <1>1
<1>3. \A i : Start(f, i) = SumTo(size, i - 1)
  BY DEF Start
<1>4. \A k \in 1..n : size[k] = WrittenSize(f.records[k], f.id_size)
  OBVIOUS
<1> HIDE DEF size, n
<1>5. /\ SumTo(size, 0) = 0
      /\ \A k \in 1..n : SumTo(size, k) = SumTo(size, k - 1) + size[k]
      /\ \A k \in 0..n : SumTo(size, k) \in Nat
      /\ \A i, j \in 0..n : i <= j => SumTo(size, i) <= SumTo(size, j)
  <2>1. Len(size) \in Nat
    BY <1>1, <1>2
  <2>2. /\ SumTo(size, 0) = 0
        /\ \A k \in 1..Len(size) : SumTo(size, k) = SumTo(size, k - 1) + size[k]
    BY <2>1, SumSteps, Zenon
  <2>3. \A k \in 0..Len(size) : SumTo(size, k) \in Nat
    BY <1>2, SumIsNat, Zenon
  <2>4. \A i, j \in 0..Len(size) : i <= j => SumTo(size, i) <= SumTo(size, j)
    BY <1>2, SumsGrow, Zenon
  <2> QED
    BY <1>2, <2>2, <2>3, <2>4, Zenon
<1>6. Start(f, 1) = 0
  <2>1. 1 - 1 = 0
    OBVIOUS
  <2> QED
    BY <2>1, <1>3, <1>5
<1>7. ASSUME NEW i \in 1..(n + 1) PROVE i - 1 \in 0..n /\ Start(f, i) \in Nat
  <2>1. i - 1 \in 0..n
    BY <1>1
  <2> QED
    BY <2>1, <1>3, <1>5, Zenon
<1>8. ASSUME NEW i \in 1..n
      PROVE  Start(f, i + 1) = Start(f, i) + WrittenSize(f.records[i], f.id_size)
  <2>1. (i + 1) - 1 = i
    OBVIOUS
  <2>2. SumTo(size, i) = SumTo(size, i - 1) + WrittenSize(f.records[i], f.id_size)
    BY <1>4, <1>5
  <2>3. Start(f, i + 1) = SumTo(size, i)
    BY <2>1, <1>3
  <2>4. Start(f, i) = SumTo(size, i - 1)
    BY <1>3, Zenon
  <2> QED
    BY <2>2, <2>3, <2>4
<1>9. ASSUME NEW i \in 1..(n + 1), NEW j \in 1..(n + 1), i <= j PROVE Start(f, i) <= Start(f, j)
  <2>1. i - 1 \in 0..n /\ j - 1 \in 0..n /\ i - 1 <= j - 1
    BY <1>7, <1>9
  <2> QED
    BY <2>1, <1>3, <1>5, Zenon
<1>10. ASSUME NEW i \in 1..(n + 1), NEW j \in 1..(n + 1), i < j PROVE Start(f, i) < Start(f, j)
  <2>1. i \in 1..n /\ i + 1 \in 1..(n + 1) /\ i + 1 <= j
    BY <1>1, <1>10
  <2>2. Start(f, i + 1) <= Start(f, j)
    BY <2>1, <1>9
  <2> DEFINE x == Start(f, i)
             y == Start(f, j)
             w == WrittenSize(f.records[i], f.id_size)
  <2>3. x \in Nat /\ y \in Nat /\ w \in Nat \ {0}
    BY <2>1, <1>7, <1>1
  <2>4. x + w <= y
    BY <2>1, <2>2, <1>8
  <2> HIDE DEF x, y, w
  <2>5. x < y
    BY <2>3, <2>4
  <2> QED
    BY <2>5 DEF x, y
<1> QED
  BY <1>6, <1>7, <1>8, <1>9, <1>10 DEF n
-----------------------------------------------------------------------------
(* Types.                                                                  *)

\* A record has at least the read of its tag.
LEMMA CurrentReadsType ==
  ASSUME WellFormed(file), remaining \in Nat, at \in 1..Len(file.records)
  PROVE  /\ CurrentReads \in Seq(Nat) /\ Len(CurrentReads) \in Nat
         /\ Len(CurrentReads) >= 1 /\ SumTo(CurrentReads, 1) = 1
         /\ \A k \in 1..Len(CurrentReads) : CurrentReads[k] \in Nat
<1>1. file.records[at] \in Record /\ file.id_size \in {4, 8} /\ (remaining > 0) \in BOOLEAN
  BY FileFacts
<1> DEFINE s == CurrentReads
<1>2. s \in Seq(Nat) /\ Len(s) >= 1 /\ SumTo(s, 1) = 1
  BY <1>1, ReadsAreNumbers, Zenon DEF CurrentReads
<1> HIDE DEF s
<1>3. Len(s) \in Nat /\ \A k \in 1..Len(s) : s[k] \in Nat
  BY <1>2
<1> QED
  BY <1>2, <1>3 DEF s

\* Every step keeps the types.
LEMMA TypeStep == WellFormed(file) /\ TypeOK /\ [Next]_vars => WellFormed(file)' /\ TypeOK'
<1> SUFFICES ASSUME WellFormed(file), TypeOK, [Next]_vars PROVE WellFormed(file)' /\ TypeOK'
  OBVIOUS
<1> DEFINE n == Len(file.records)
<1>a. file' = file
  BY DEF Next, vars, ReadField, Incomplete, RecordDone, ReadPanics, Arrive, Ended
<1>b. WellFormed(file)'
  BY <1>a
<1>c. Total \in Nat /\ n \in Nat
  <2>1. n \in Nat /\ n + 1 \in 1..(n + 1)
    BY FileFacts
  <2> QED
    BY <2>1, StartFacts DEF Total
<1>d. Total' = Total
  BY <1>a DEF Total
<1>1. CASE ReadField
  <2>1. at \in 1..n
    BY <1>1, <1>c DEF ReadField, OnRecord, TypeOK
  <2>2. NextRead \in Nat
    <3>1. NextRead = CurrentReads[reads + 1]
      BY <2>1, <1>c DEF NextRead
    <3>2. /\ Len(CurrentReads) \in Nat
          /\ \A k \in 1..Len(CurrentReads) : CurrentReads[k] \in Nat
      BY <2>1, CurrentReadsType DEF TypeOK
    <3>3. reads + 1 \in 1..Len(CurrentReads)
      BY <1>1, <3>2 DEF ReadField, TypeOK
    <3> QED
      BY <3>1, <3>2, <3>3
  <2> QED
    BY <1>1, <1>a, <1>b, <1>d, <2>2 DEF ReadField, TypeOK
<1>2. CASE Incomplete
  <2>1. NextRead \in Nat
    <3>1. CASE at > n
      BY <3>1 DEF NextRead
    <3>2. CASE ~(at > n)
      <4>1. at \in 1..n
        BY <3>2, <1>c DEF TypeOK
      <4>2. NextRead = CurrentReads[reads + 1]
        BY <3>2 DEF NextRead
      <4>3. /\ Len(CurrentReads) \in Nat
            /\ \A k \in 1..Len(CurrentReads) : CurrentReads[k] \in Nat
        BY <4>1, CurrentReadsType DEF TypeOK
      <4>4. reads + 1 \in 1..Len(CurrentReads)
        BY <1>2, <3>2, <4>3 DEF Incomplete, TypeOK
      <4> QED
        BY <4>2, <4>3, <4>4
    <3> QED
      BY <3>1, <3>2
  <2>2. needed' \in Nat
    BY <1>2, <2>1 DEF Incomplete, TypeOK
  <2> QED
    BY <1>2, <1>a, <1>b, <1>d, <2>2 DEF Incomplete, TypeOK
<1>3. CASE RecordDone
  <2>1. at \in 1..n
    BY <1>3, <1>c DEF RecordDone, OnRecord, TypeOK
  <2>2. file.records[at].length \in Nat
    BY <2>1, FileFacts DEF Record
  <2>3. remaining' \in Nat
    BY <1>3, <2>2, SMTT(30) DEF RecordDone, RemainingAfter, SaturatingSub, TypeOK
  <2>4. at' \in 1..(n + 1)
    BY <1>3, <1>c, <2>1 DEF RecordDone
  <2> QED
    BY <1>3, <1>a, <1>b, <1>d, <2>3, <2>4 DEF RecordDone, TypeOK
<1>4. CASE ReadPanics
  BY <1>4, <1>a, <1>b, <1>d DEF ReadPanics, TypeOK
<1>5. CASE Arrive
  <2>1. chunk \in Nat \ {0}
    BY ChunkAssumption DEF TypeOK
  <2>2. available' \in 0..Total
    BY <1>5, <1>c, <2>1 DEF Arrive, TypeOK
  <2> QED
    BY <1>5, <1>a, <1>b, <1>d, <2>2 DEF Arrive, TypeOK
<1>6. CASE UNCHANGED vars
  BY <1>6, <1>b DEF vars, TypeOK, Total
<1> QED
  BY <1>1, <1>2, <1>3, <1>4, <1>5, <1>6 DEF Next, Ended

\* The parser starts with the types.
LEMMA TypeInit == Init => WellFormed(file) /\ TypeOK
<1> SUFFICES ASSUME Init PROVE WellFormed(file) /\ TypeOK
  OBVIOUS
<1>1. WellFormed(file)
  BY StreamAssumption DEF Init
<1>2. Len(file.records) \in Nat /\ Len(file.records) + 1 \in 1..(Len(file.records) + 1)
  BY <1>1, FileFacts
<1>3. Total \in Nat /\ file.id_size \in {4, 8}
  BY <1>1, <1>2, StartFacts, FileFacts DEF Total
<1> QED
  BY <1>1, <1>2, <1>3 DEF Init, TypeOK

\* Every variable of the record parser has its type: in particular no more is taken as
\* received than the file has, and heap_dump_remaining_len never goes below zero.
THEOREM ParserTypeCorrect == Spec => []TypeOK
BY TypeInit, TypeStep, PTL DEF Spec

-----------------------------------------------------------------------------
(* The invariant.                                                          *)

\* The sub-records that are left are counted: the table is the right one.
LEMMA TableIsRight ==
  ASSUME WellFormed(file), TypeOK, Enclosed, at \in 1..Len(file.records)
  PROVE  (remaining > 0) = file.records[at].sub
<1> DEFINE n == Len(file.records)
<1>1. PICK m \in (at - 1)..n :
        SubRecordsUpTo(file, at, m) /\ remaining = Start(file, m + 1) - Start(file, at)
  BY DEF Enclosed
<1>2. n \in Nat /\ file.records[at].sub \in BOOLEAN
  BY FileFacts DEF Record
<1>3. at \in 1..(n + 1) /\ m + 1 \in 1..(n + 1)
  BY <1>2
<1>4. Start(file, at) \in Nat /\ Start(file, m + 1) \in Nat
  BY <1>3, StartFacts
<1>5. CASE m = at - 1
  <2>1. ~file.records[at].sub
    BY <1>1, <1>2, <1>5 DEF SubRecordsUpTo
  <2>2. m + 1 = at
    BY <1>5, <1>2
  <2>3. remaining = 0
    BY <1>1, <1>4, <2>2
  <2> QED
    BY <1>2, <2>1, <2>3
<1>6. CASE m # at - 1
  <2>1. at \in at..m /\ at < m + 1
    BY <1>2, <1>6
  <2>2. file.records[at].sub
    BY <1>1, <2>1 DEF SubRecordsUpTo
  <2>3. Start(file, at) < Start(file, m + 1)
    BY <1>3, <2>1, StartFacts
  <2>4. remaining > 0
    BY <1>1, <1>4, <2>3
  <2> QED
    BY <1>2, <2>2, <2>4
<1> QED
  BY <1>5, <1>6

\* The reads of the current record fit in it, and fill it if its tag is known.
LEMMA CurrentSize ==
  ASSUME WellFormed(file), SampledOnce(file), TypeOK, Enclosed, at \in 1..Len(file.records)
  PROVE  LET r == file.records[at] IN
         /\ SumOf(CurrentReads) \in Nat
         /\ Start(file, at) + SumOf(CurrentReads) <= Start(file, at + 1)
         /\ Known(r, r.sub) => Start(file, at) + SumOf(CurrentReads) = Start(file, at + 1)
         /\ CurrentPanics = PanicReads(r, r.sub)
<1> DEFINE r == file.records[at]
           z == file.id_size
<1>1. (remaining > 0) = r.sub
  BY TableIsRight
<1>2. CurrentReads = Reads(r, z, r.sub) /\ CurrentPanics = PanicReads(r, r.sub)
  BY <1>1 DEF CurrentReads, CurrentPanics
<1>3. r \in Record /\ z \in {4, 8} /\ WrittenSize(r, z) \in Nat \ {0}
  BY FileFacts
<1>4. /\ ~r.sub /\ r.tag \notin HeapDumpTags => r.length = DeclaredLength(r, z)
      /\ ~r.sub /\ r.tag = TAG.CPU_SAMPLES => r.total = r.n
  BY DEF WellFormed, SampledOnce
<1>5. /\ SumOf(CurrentReads) <= WrittenSize(r, z)
      /\ Known(r, r.sub) => SumOf(CurrentReads) = WrittenSize(r, z)
  BY <1>2, <1>3, <1>4, ReadsTakeRecord, Zenon
<1>6. SumOf(CurrentReads) \in Nat
  <2> DEFINE s == CurrentReads
  <2>1. s \in Seq(Nat) /\ Len(s) \in 0..Len(s)
    BY CurrentReadsType DEF TypeOK
  <2> HIDE DEF s
  <2>2. SumTo(s, Len(s)) \in Nat
    BY <2>1, SumIsNat, Zenon
  <2> QED
    BY <2>2 DEF SumOf, s
<1>7. Start(file, at + 1) = Start(file, at) + WrittenSize(r, z)
  BY StartFacts
<1>8. Start(file, at) \in Nat
  <2>1. at \in 1..(Len(file.records) + 1)
    BY FileFacts
  <2> QED
    BY <2>1, StartFacts
<1> DEFINE a == SumOf(CurrentReads)
           b == WrittenSize(r, z)
           c == Start(file, at)
<1>9. a \in Nat /\ b \in Nat /\ c \in Nat /\ a <= b /\ (Known(r, r.sub) => a = b)
      /\ Start(file, at + 1) = c + b
  BY <1>3, <1>5, <1>6, <1>7, <1>8
<1> HIDE DEF a, b, c
<1>10. c + a <= c + b /\ (Known(r, r.sub) => c + a = c + b)
  BY <1>9
<1> QED
  BY <1>2, <1>9, <1>10 DEF a, b, c

\* The parser starts with the invariant.
LEMMA ParserInit == Init /\ WellFormed(file) => ParserInv
<1> SUFFICES ASSUME Init, WellFormed(file) PROVE ParserInv
  OBVIOUS
<1> DEFINE n == Len(file.records)
<1>1. n \in Nat /\ Start(file, 1) = 0
  BY FileFacts, StartFacts
<1>2. /\ at = 1 /\ pos = 0 /\ reads = 0 /\ offset = 0 /\ available = 0 /\ needed = 0
      /\ remaining = 0 /\ tries = 0 /\ phase = "wait"
  BY DEF Init
<1>3. Enclosed
  <2>1. 0 < n => ~file.records[1].sub
    <3>1. 0 < n => 1 \in 1..n
      BY <1>1
    <3> QED
      BY <3>1 DEF WellFormed
  <2>2. SubRecordsUpTo(file, 1, 0)
    BY <1>1, <2>1 DEF SubRecordsUpTo
  <2>3. 0 \in (1 - 1)..n /\ Start(file, 0 + 1) - Start(file, 1) = 0
    BY <1>1
  <2> QED
    BY <1>2, <2>2, <2>3 DEF Enclosed
<1>4. ASSUME at <= n PROVE Attempt /\ Persistent
  <2> DEFINE s == CurrentReads
  <2>1. Len(s) \in Nat
    BY <1>1, <1>2, <1>4, CurrentReadsType
  <2> HIDE DEF s
  <2>2. SumTo(s, 0) = 0
    BY <2>1, SumSteps
  <2> QED
    BY <1>2, <2>1, <2>2 DEF Attempt, Persistent, s
<1> QED
  BY <1>1, <1>2, <1>3, <1>4 DEF ParserInv, Aligned, AsksOnlyForRecord

\* A read keeps to the bytes of the record and of the input.
LEMMA ReadFieldKeeps ==
  ASSUME WellFormed(file), TypeOK, ParserInv, ReadField
  PROVE  ParserInv'
<1> DEFINE n == Len(file.records)
           s == CurrentReads
<1>1. n \in Nat /\ at \in 1..n
  BY FileFacts DEF ReadField, OnRecord, TypeOK
<1>2. s \in Seq(Nat) /\ Len(s) \in Nat
  BY <1>1, CurrentReadsType DEF TypeOK
<1>3. /\ s' = s /\ reads' = reads + 1 /\ offset' = offset + s[reads + 1]
      /\ reads < Len(s) /\ pos + offset' <= available
  <2>1. s' = s /\ reads' = reads + 1 /\ reads < Len(s)
    BY DEF ReadField, CurrentReads
  <2>2. NextRead = s[reads + 1]
    BY <1>1 DEF NextRead
  <2>3. offset' = offset + NextRead /\ pos + offset + NextRead <= available
    BY DEF ReadField
  <2>4. pos \in Nat /\ offset \in Nat /\ reads + 1 \in 1..Len(s)
    BY <1>2, <2>1 DEF TypeOK
  <2> HIDE DEF s
  <2>5. s[reads + 1] \in Nat
    BY <1>2, <2>4
  <2> QED
    BY <2>1, <2>2, <2>3, <2>4, <2>5
<1>4. reads \in Nat /\ offset = SumTo(s, reads) /\ Persistent
  BY <1>1 DEF ParserInv, Attempt, TypeOK
<1>5. /\ UNCHANGED <<file, chunk, at, pos, available, pushed, needed, remaining, tries, phase>>
      /\ phase = "parse"
  BY DEF ReadField
<1>6. Persistent'
  BY <1>3, <1>4, <1>5 DEF Persistent
<1>7. Attempt'
  <2> HIDE DEF s
  <2>1. reads + 1 \in Nat /\ reads + 1 <= Len(s)
    BY <1>2, <1>3, <1>4
  <2>2. SumTo(s, reads + 1) = SumTo(s, reads) + s[reads + 1]
    BY <1>2, <1>4, <2>1, SumNext
  <2>3. reads' <= Len(s)' /\ offset' = SumTo(s, reads)' /\ pos' + offset' <= available'
    BY <1>3, <1>4, <1>5, <2>1, <2>2
  <2> QED
    BY <2>3 DEF Attempt, s
<1>8. Aligned' /\ (pos <= available)' /\ Enclosed' /\ AsksOnlyForRecord'
  BY <1>5 DEF ParserInv, Aligned, Enclosed, AsksOnlyForRecord
<1>9. ~(phase = "wait" \/ at > Len(file.records))'
  BY <1>1, <1>5
<1> QED
  BY <1>6, <1>7, <1>8, <1>9 DEF ParserInv

\* The read that runs out of input is a later one than at the last try, and what is asked
\* for ends within the record.
LEMMA IncompleteKeeps ==
  ASSUME WellFormed(file), SampledOnce(file), TypeOK, ParserInv, Incomplete
  PROVE  ParserInv'
<1> DEFINE n == Len(file.records)
           s == CurrentReads
<1>1. n \in Nat /\ at \in 1..(n + 1)
  BY FileFacts DEF TypeOK
<1>2. /\ UNCHANGED <<file, chunk, at, pos, available, pushed, remaining>>
      /\ reads' = 0 /\ offset' = 0 /\ phase' = "wait" /\ phase = "parse" /\ tries' = tries + 1
      /\ needed' = IF pushed = 0 THEN offset + NextRead ELSE 0
  BY DEF Incomplete
<1>3. Aligned' /\ (pos <= available)' /\ Enclosed'
  BY <1>2 DEF ParserInv, Aligned, Enclosed
<1>4. CASE at > n
  <2>1. ~(at' <= Len(file.records)')
    BY <1>1, <1>2, <1>4
  <2>2. AsksOnlyForRecord'
    BY <2>1 DEF AsksOnlyForRecord
  <2> QED
    BY <1>2, <1>3, <2>1, <2>2 DEF ParserInv
<1>5. CASE at <= n
  <2>1. at \in 1..n
    BY <1>1, <1>5
  <2>2. s \in Seq(Nat) /\ Len(s) \in Nat /\ Len(s) >= 1 /\ \A k \in 1..Len(s) : s[k] \in Nat
    BY <2>1, CurrentReadsType DEF TypeOK
  <2>3. /\ reads < Len(s) /\ NextRead = s[reads + 1] /\ pos + offset + NextRead > available
        /\ s' = s
    BY <2>1, <1>1, <1>2 DEF Incomplete, NextRead, CurrentReads
  <2>4. /\ reads \in Nat /\ tries \in Nat /\ pos \in Nat /\ available \in Nat /\ pushed \in Nat
        /\ offset \in Nat /\ offset = SumTo(s, reads) /\ tries <= Len(s)
        /\ pos + SumTo(s, tries) <= available
        /\ pushed > 0 => tries = 0
        /\ pos <= available
    <3>1. Attempt /\ Persistent
      BY <1>5 DEF ParserInv
    <3>2. available \in Nat
      BY DEF TypeOK
    <3> QED
      BY <3>1, <3>2, <1>2 DEF ParserInv, Attempt, Persistent, TypeOK
  <2>5. SumOf(s) \in Nat /\ Start(file, at) + SumOf(s) <= Start(file, at + 1)
    BY <2>1, CurrentSize DEF ParserInv
  <2>6. pos = Start(file, at)
    BY DEF ParserInv, Aligned
  <2>7. Start(file, at + 1) \in Nat
    <3>1. at + 1 \in 1..(n + 1)
      BY <1>1, <2>1
    <3> QED
      BY <3>1, StartFacts
  <2> DEFINE l == reads + 1
  <2>8. l \in Nat /\ l <= Len(s) /\ l \in 0..Len(s) /\ Len(s) \in 0..Len(s) /\ tries \in 0..Len(s)
        /\ l \in 1..Len(s)
    BY <2>2, <2>3, <2>4
  <2> HIDE DEF s
  <2>9. SumTo(s, l) = offset + NextRead
    BY <2>2, <2>3, <2>4, <2>8, SumNext
  <2>10. /\ SumTo(s, l) \in Nat /\ SumTo(s, tries) \in Nat
         /\ SumTo(s, l) <= SumOf(s)
         /\ l <= tries => SumTo(s, l) <= SumTo(s, tries)
    <3>1. \A i, j \in 0..Len(s) : i <= j => SumTo(s, i) <= SumTo(s, j)
      BY <2>2, SumsGrow, Zenon
    <3>2. \A i \in 0..Len(s) : SumTo(s, i) \in Nat
      BY <2>2, SumIsNat, Zenon
    <3>3. SumTo(s, l) <= SumTo(s, Len(s))
      BY <3>1, <2>8
    <3> QED
      BY <3>1, <3>2, <3>3, <2>8 DEF SumOf
  <2>a. pos + SumTo(s, l) > available
    <3>1. NextRead \in Nat
      BY <2>2, <2>3, <2>8
    <3> QED
      BY <2>3, <2>4, <2>9, <3>1
  <2> HIDE DEF l
  <2>11. tries < l
    BY <2>4, <2>8, <2>10, <2>a
  <2>12. tries + 1 \in Nat /\ tries + 1 <= l /\ tries + 1 <= Len(s) /\ tries + 1 \in 0..Len(s)
    BY <2>2, <2>4, <2>8, <2>11
  <2>13. SumTo(s, tries + 1) <= SumTo(s, l)
    <3>1. \A i, j \in 0..Len(s) : i <= j => SumTo(s, i) <= SumTo(s, j)
      BY <2>2, SumsGrow, Zenon
    <3> QED
      BY <3>1, <2>8, <2>12
  <2>14. needed' >= SumTo(s, tries + 1) \/ (needed' = 0 /\ tries + 1 = 1)
    <3>1. SumTo(s, tries + 1) \in Nat
      BY <2>2, <2>12, SumIsNat, Zenon
    <3>2. CASE pushed = 0
      BY <1>2, <2>9, <2>10, <2>13, <3>1, <3>2
    <3>3. CASE pushed # 0
      BY <1>2, <2>4, <3>3
    <3> QED
      BY <3>2, <3>3
  <2>15. Persistent'
    <3>1. /\ tries' <= Len(s)'
          /\ phase' = "wait"
          /\ needed' >= SumTo(s, tries)' \/ (needed' = 0 /\ tries' = 1)
      BY <1>2, <2>3, <2>12, <2>14
    <3> QED
      BY <3>1 DEF Persistent, s
  <2>16. Attempt'
    <3>1. SumTo(s, 0) = 0
      BY <2>2, SumSteps
    <3>2. reads' <= Len(s)' /\ offset' = SumTo(s, reads)' /\ pos' + offset' <= available'
      BY <1>2, <2>2, <2>3, <2>4, <3>1
    <3> QED
      BY <3>2 DEF Attempt, s
  <2>17. pos' + needed' <= Start(file, at + 1)'
    <3>1. needed' <= SumOf(s) /\ needed' \in Nat
      BY <1>2, <2>4, <2>5, <2>9, <2>10
    <3>2. pos + needed' <= Start(file, at + 1)
      BY <2>4, <2>5, <2>6, <2>7, <3>1
    <3> QED
      BY <1>2, <3>2
  <2> QED
    BY <1>2, <1>3, <2>15, <2>16, <2>17 DEF ParserInv, AsksOnlyForRecord
<1> QED
  BY <1>1, <1>4, <1>5

\* The record is taken as it was written, and what is left of the heap dump is known.
LEMMA RecordDoneKeeps ==
  ASSUME WellFormed(file), SampledOnce(file), TypeOK, TypeOK', ParserInv, RecordDone
  PROVE  ParserInv'
<1> DEFINE n == Len(file.records)
           s == CurrentReads
           r == file.records[at]
<1>1. n \in Nat /\ at \in 1..n /\ at \in 1..(n + 1) /\ at + 1 \in 1..(n + 1)
  BY FileFacts DEF RecordDone, OnRecord, TypeOK
<1>2. /\ UNCHANGED <<file, chunk, available, needed, phase>> /\ phase = "parse"
      /\ at' = at + 1 /\ pos' = pos + offset /\ reads' = 0 /\ offset' = 0 /\ tries' = 0
      /\ remaining' = RemainingAfter(r, offset)
      /\ reads = Len(s) /\ reads \notin CurrentPanics
  BY DEF RecordDone
<1>3. offset = SumOf(s) /\ pos + offset <= available /\ pos = Start(file, at)
  BY <1>1, <1>2 DEF ParserInv, Attempt, Aligned, SumOf
<1>4. pos + offset = Start(file, at + 1)
  <2>1. /\ Known(r, r.sub) => Start(file, at) + SumOf(s) = Start(file, at + 1)
        /\ CurrentPanics = PanicReads(r, r.sub)
    BY <1>1, CurrentSize DEF ParserInv
  <2>2. Known(r, r.sub)
    <3> SUFFICES ASSUME ~Known(r, r.sub) PROVE FALSE
      OBVIOUS
    <3>1. (remaining > 0) = r.sub
      BY <1>1, TableIsRight DEF ParserInv
    <3>2. s = Reads(r, file.id_size, r.sub)
      BY <3>1 DEF CurrentReads
    <3>3. Reads(r, file.id_size, r.sub) = <<1>>
      BY DEF Reads
    <3>4. PanicReads(r, r.sub) = {1}
      <4>1. r.sub => r.tag \notin {32, 35, 195}
        BY DEF Known, GcTags, TAG_GC
      <4> QED
        BY <4>1 DEF PanicReads, TAG_GC
    <3>5. Len(<<1>>) = 1
      OBVIOUS
    <3> QED
      BY <1>2, <2>1, <3>2, <3>3, <3>4, <3>5
  <2> QED
    BY <2>1, <2>2, <1>3
<1>5. Aligned' /\ (pos <= available)'
  BY <1>2, <1>3, <1>4 DEF Aligned
<1>6. Enclosed'
  <2>1. PICK m \in (at - 1)..n :
          SubRecordsUpTo(file, at, m) /\ remaining = Start(file, m + 1) - Start(file, at)
    BY DEF ParserInv, Enclosed
  <2>2. (remaining > 0) = r.sub /\ r.sub \in BOOLEAN /\ remaining \in Nat /\ offset \in Nat
    BY <1>1, TableIsRight, FileFacts DEF ParserInv, Record, TypeOK
  <2>3. SUFFICES \E k \in at..n :
                   SubRecordsUpTo(file, at + 1, k)
                     /\ remaining' = Start(file, k + 1) - Start(file, at + 1)
    <3>1. (at + 1) - 1 = at
      BY <1>1
    <3> QED
      BY <1>2, <3>1, <2>3 DEF Enclosed
  <2>4. CASE r.sub
    <3>1. m \in at..n /\ m + 1 \in 1..(n + 1) /\ at + 1 <= m + 1
      <4>1. m # at - 1
        BY <1>1, <2>1, <2>4 DEF SubRecordsUpTo
      <4> QED
        BY <1>1, <2>1, <4>1
    <3>2. SubRecordsUpTo(file, at + 1, m)
      BY <1>1, <2>1, <3>1 DEF SubRecordsUpTo
    <3>3. remaining' = SaturatingSub(remaining, offset)
      <4>1. remaining > 0
        BY <2>2, <2>4
      <4> QED
        BY <1>2, <4>1 DEF RemainingAfter
    <3>4. /\ Start(file, at) \in Nat /\ Start(file, m + 1) \in Nat /\ Start(file, at + 1) \in Nat
          /\ Start(file, at + 1) <= Start(file, m + 1)
      BY <1>1, <3>1, StartFacts
    <3> DEFINE a == Start(file, at)
               b == Start(file, at + 1)
               c == Start(file, m + 1)
    <3>5. a + offset = b /\ remaining = c - a /\ a \in Nat /\ b \in Nat /\ c \in Nat /\ b <= c
      BY <1>3, <1>4, <2>1, <3>4
    <3> HIDE DEF a, b, c
    <3>6. remaining' = c - b
      BY <2>2, <3>3, <3>5 DEF SaturatingSub
    <3> QED
      BY <3>1, <3>2, <3>6 DEF b, c
  <2>5. CASE ~r.sub /\ r.tag \in HeapDumpTags
    <3>1. remaining' = r.length
      BY <1>2, <2>2, <2>5 DEF RemainingAfter
    <3>2. HeapDumpLength(file, at)
      BY <1>1, <2>5 DEF WellFormed
    <3> QED
      BY <3>1, <3>2 DEF HeapDumpLength
  <2>6. CASE ~r.sub /\ r.tag \notin HeapDumpTags
    <3>1. remaining' = 0
      BY <1>2, <2>2, <2>6 DEF RemainingAfter
    <3>2. at < n => ~file.records[at + 1].sub
      <4> SUFFICES ASSUME at < n, file.records[at + 1].sub PROVE FALSE
        OBVIOUS
      <4>1. at + 1 \in 1..n /\ (at + 1) - 1 = at
        BY <1>1
      <4>2. file.records[(at + 1) - 1].sub \/ file.records[(at + 1) - 1].tag \in HeapDumpTags
        BY <4>1 DEF WellFormed
      <4> QED
        BY <4>1, <4>2, <2>6
    <3>3. SubRecordsUpTo(file, at + 1, at)
      BY <1>1, <3>2 DEF SubRecordsUpTo
    <3>4. Start(file, at + 1) - Start(file, at + 1) = 0 /\ at \in at..n
      BY <1>1, StartFacts
    <3> QED
      BY <3>1, <3>3, <3>4
  <2> QED
    BY <2>2, <2>4, <2>5, <2>6
<1>7. ASSUME at' <= Len(file.records)' PROVE Attempt' /\ Persistent'
  <2> DEFINE t == Reads(file.records[at + 1], file.id_size, remaining' > 0)
  <2>1. CurrentReads' = t
    BY <1>2 DEF CurrentReads
  <2>2. file.records[at + 1] \in Record /\ file.id_size \in {4, 8} /\ (remaining' > 0) \in BOOLEAN
    <3>1. at + 1 \in 1..n
      BY <1>1, <1>2, <1>7
    <3> QED
      BY <3>1, FileFacts DEF TypeOK
  <2>3. t \in Seq(Nat)
    BY <2>2, ReadsAreNumbers, Zenon
  <2> HIDE DEF t
  <2>4. Len(t) \in Nat /\ SumTo(t, 0) = 0
    BY <2>3, SumSteps
  <2>5. pos' \in Nat
    BY DEF TypeOK
  <2>6. Attempt'
    BY <1>2, <1>3, <2>1, <2>4, <2>5 DEF Attempt
  <2>7. Persistent'
    BY <1>2, <1>3, <2>1, <2>4, <2>5 DEF Persistent
  <2> QED
    BY <2>6, <2>7
<1>8. AsksOnlyForRecord' /\ (phase = "wait" \/ at > Len(file.records) => reads = 0 /\ offset = 0)'
  BY <1>2 DEF AsksOnlyForRecord
<1> QED
  BY <1>5, <1>6, <1>7, <1>8 DEF ParserInv

\* With the bytes that were asked for, or with any byte if none were, the next try gets
\* further than the last.
LEMMA ArriveKeeps ==
  ASSUME WellFormed(file), TypeOK, ParserInv, Arrive
  PROVE  ParserInv'
<1> DEFINE n == Len(file.records)
           s == CurrentReads
<1>1. /\ UNCHANGED <<file, chunk, at, pos, reads, offset, needed, remaining, tries>>
      /\ phase = "wait" /\ pushed' = 0
      /\ phase' = IF needed > available' - pos THEN "wait" ELSE "parse"
      /\ reads = 0 /\ offset = 0
  BY DEF Arrive, ParserInv
<1>2. /\ pos \in Nat /\ needed \in Nat /\ available \in Nat /\ tries \in Nat /\ pos <= available
      /\ available' \in Nat /\ available < available'
  <2>1. chunk \in Nat \ {0}
    BY ChunkAssumption DEF TypeOK
  <2>2. Total \in Nat
    <3>1. n \in Nat /\ n + 1 \in 1..(n + 1)
      BY FileFacts
    <3> QED
      BY <3>1, StartFacts DEF Total
  <2> QED
    BY <2>1, <2>2 DEF Arrive, TypeOK, ParserInv
<1>3. Aligned' /\ (pos <= available)' /\ Enclosed'
  BY <1>1, <1>2 DEF ParserInv, Aligned, Enclosed
<1>4. AsksOnlyForRecord'
  BY <1>1 DEF ParserInv, AsksOnlyForRecord
<1>5. ASSUME at <= n PROVE Attempt' /\ Persistent'
  <2>1. s' = s /\ Attempt /\ Persistent
    BY <1>1, <1>5 DEF ParserInv, CurrentReads
  <2>2. s \in Seq(Nat) /\ Len(s) \in Nat /\ SumTo(s, 1) = 1
    <3>1. at \in 1..n
      BY <1>5, FileFacts DEF TypeOK
    <3> QED
      BY <3>1, CurrentReadsType DEF TypeOK
  <2>3. /\ tries <= Len(s)
        /\ needed >= SumTo(s, tries) \/ (needed = 0 /\ tries = 1)
    BY <1>1, <2>1 DEF Persistent
  <2>4. Attempt'
    BY <1>1, <1>2, <2>1 DEF Attempt
  <2> HIDE DEF s
  <2>5. SumTo(s, tries) \in Nat
    <3>1. tries \in 0..Len(s)
      BY <1>2, <2>2, <2>3
    <3> QED
      BY <3>1, <2>2, SumIsNat, Zenon
  <2>6. phase' = "parse" => pos + SumTo(s, tries) <= available'
    <3> SUFFICES ASSUME phase' = "parse" PROVE pos + SumTo(s, tries) <= available'
      OBVIOUS
    <3>1. pos + needed <= available'
      <4>1. ~(needed > available' - pos)
        <5>1. "wait" # "parse"
          OBVIOUS
        <5> QED
          BY <1>1, <5>1, Zenon
      <4> DEFINE a == available'
      <4>2. a \in Nat /\ pos \in Nat /\ needed \in Nat /\ ~(needed > a - pos)
        BY <1>2, <4>1
      <4> HIDE DEF a
      <4>3. pos + needed <= a
        BY <4>2
      <4> QED
        BY <4>3 DEF a
    <3>2. CASE needed >= SumTo(s, tries)
      <4> DEFINE x == SumTo(s, tries)
      <4>1. x \in Nat /\ x <= needed
        BY <1>2, <2>5, <3>2
      <4> HIDE DEF x
      <4>2. pos + x <= available'
        BY <1>2, <3>1, <4>1
      <4> QED
        BY <4>2 DEF x
    <3>3. CASE needed = 0 /\ tries = 1
      BY <1>2, <2>2, <3>3
    <3> QED
      BY <2>3, <3>2, <3>3
  <2>7. Persistent'
    <3>1. /\ tries' <= Len(s)'
          /\ phase' = "parse" => pos' + SumTo(s, tries)' <= available' /\ ~(pushed' > 0)
          /\ phase' = "wait" => needed' >= SumTo(s, tries)' \/ (needed' = 0 /\ tries' = 1)
      BY <1>1, <2>1, <2>3, <2>6
    <3> QED
      BY <3>1 DEF Persistent, s
  <2> QED
    BY <2>4, <2>7
<1> QED
  BY <1>1, <1>3, <1>4, <1>5 DEF ParserInv

\* Every step of the parser keeps the invariant.
LEMMA ParserStep ==
  ASSUME WellFormed(file), SampledOnce(file), TypeOK, TypeOK', ParserInv, [Next]_vars
  PROVE  ParserInv'
<1>1. CASE ReadPanics
  BY <1>1 DEF ReadPanics, ParserInv, Aligned, Enclosed, Attempt, Persistent, AsksOnlyForRecord, CurrentReads
<1>2. CASE UNCHANGED vars
  BY <1>2 DEF vars, ParserInv, Aligned, Enclosed, Attempt, Persistent, AsksOnlyForRecord, CurrentReads
<1> QED
  BY <1>1, <1>2, ReadFieldKeeps, IncompleteKeeps, RecordDoneKeeps, ArriveKeeps DEF Next, Ended

\* The induction: on a file that is SampledOnce the invariant holds in every state.
LEMMA InvariantCorrect ==
  Spec => [](WellFormed(file) /\ TypeOK /\ (SampledOnce(file) => ParserInv))
<1> DEFINE I == WellFormed(file) /\ TypeOK /\ (SampledOnce(file) => ParserInv)
<1>1. Init => I
  BY TypeInit, ParserInit
<1>2. I /\ [Next]_vars => I'
  <2> SUFFICES ASSUME I, [Next]_vars PROVE I'
    OBVIOUS
  <2>1. WellFormed(file)' /\ TypeOK'
    BY TypeStep
  <2>2. file' = file
    BY DEF Next, vars, ReadField, Incomplete, RecordDone, ReadPanics, Arrive, Ended
  <2>3. SampledOnce(file)' => SampledOnce(file)
    BY <2>2
  <2>4. ASSUME SampledOnce(file) PROVE ParserInv'
    BY <2>1, <2>4, ParserStep
  <2> QED
    BY <2>1, <2>3, <2>4
<1> QED
  BY <1>1, <1>2, PTL DEF Spec

\* parse_hprof_record takes just the record that was written, for every sequence of
\* records of every kind, both identifier sizes and every way to cut the input.  The
\* exception is the profile that the run cpu_samples shows.
THEOREM AlignedCorrect == Spec => [](SampledOnce(file) => Aligned)
<1>1. WellFormed(file) /\ TypeOK /\ (SampledOnce(file) => ParserInv) => (SampledOnce(file) => Aligned)
  BY DEF ParserInv
<1> QED
  BY <1>1, InvariantCorrect, PTL

\* heap_dump_remaining_len reaches 0 with the last sub-record of a heap dump: a tag is
\* never looked up in the wrong table.
THEOREM TableCorrect == Spec => [](SampledOnce(file) => RightTable)
<1>1. WellFormed(file) /\ TypeOK /\ (SampledOnce(file) => ParserInv) => (SampledOnce(file) => RightTable)
  <2> SUFFICES ASSUME WellFormed(file), TypeOK, ParserInv, at <= Len(file.records)
               PROVE  remaining > 0 <=> file.records[at].sub
    BY DEF RightTable
  <2>1. at \in 1..Len(file.records)
    BY FileFacts DEF TypeOK
  <2>2. (remaining > 0) = file.records[at].sub
    BY <2>1, TableIsRight DEF ParserInv
  <2>3. file.records[at].sub \in BOOLEAN
    BY <2>1, FileFacts DEF Record
  <2> QED
    BY <2>2, <2>3
<1> QED
  BY <1>1, InvariantCorrect, PTL

\* The parser never waits for bytes behind the record that it is parsing, so that a whole
\* record in the input is never left unparsed.
THEOREM AsksCorrect == Spec => [](SampledOnce(file) => AsksOnlyForRecord)
<1>1. WellFormed(file) /\ TypeOK /\ (SampledOnce(file) => ParserInv)
        => (SampledOnce(file) => AsksOnlyForRecord)
  BY DEF ParserInv
<1> QED
  BY <1>1, InvariantCorrect, PTL

\* However small the buffers, a record is tried at most once for each of its reads.
THEOREM RetriesCorrect == Spec => [](SampledOnce(file) => RetriesBounded)
<1>1. WellFormed(file) /\ TypeOK /\ (SampledOnce(file) => ParserInv)
        => (SampledOnce(file) => RetriesBounded)
  BY DEF ParserInv, Persistent, RetriesBounded
<1> QED
  BY <1>1, InvariantCorrect, PTL
=============================================================================
