--------------------------- MODULE RecorderSteps ----------------------------
(***************************************************************************)
(* The maps of the recorder are what RecorderInvariant says of the         *)
(* records, record by record, for every dump and every order of its        *)
(* records: one lemma for each map, and facts about numbers, sets and      *)
(* places that they share.                                                 *)
(***************************************************************************)
EXTENDS RecorderInvariant, SumLemmas, FunctionTheorems

(***************************************************************************)
(* Largest and smallest numbers.                                           *)
(***************************************************************************)

\* The numbers up to n are n numbers.
LEMMA NumbersUpTo ==
  ASSUME NEW n \in Nat
  PROVE  IsFiniteSet(1..n) /\ Cardinality(1..n) = n
<1>1. IsFiniteSet(1..n) /\ Cardinality(1..n) = IF 1 > n THEN 0 ELSE n - 1 + 1
  BY FS_Interval
<1> QED
  BY <1>1

\* A finite set of numbers has a largest one.
LEMMA LargestExists ==
  ASSUME NEW S \in SUBSET Nat, IsFiniteSet(S), S # {}
  PROVE  Max(S) \in S /\ \A y \in S : Max(S) >= y
<1> DEFINE Has(s) == \E x \in s : \A y \in s : x >= y
           N == {n \in Nat : \A s \in SUBSET S : Cardinality(s) = n + 1 => Has(s)}
<1>1. 0 \in N
  <2>1. ASSUME NEW s \in SUBSET S, Cardinality(s) = 1 PROVE Has(s)
    <3>1. PICK x : s = {x}
      BY <2>1, FS_Subset, FS_Singleton
    <3> QED
      BY <3>1
  <2> QED
    BY <2>1
<1>2. ASSUME NEW n \in Nat, n \in N PROVE n + 1 \in N
  <2>1. ASSUME NEW s \in SUBSET S, Cardinality(s) = n + 2 PROVE Has(s)
    <3>1. s # {}
      <4>1. n + 2 # 0 /\ Cardinality({}) = 0
        BY FS_EmptySet
      <4> QED
        BY <2>1, <4>1
    <3>2. PICK z \in s : TRUE
      BY <3>1
    <3>3. Cardinality(s \ {z}) = n + 1 /\ s \ {z} \in SUBSET S
      <4>1. \A x \in s : Cardinality(s \ {x}) = Cardinality(s) - 1
        BY <3>1, Without, Zenon
      <4> QED
        BY <2>1, <4>1
    <3>4. PICK x \in s \ {z} : \A y \in s \ {z} : x >= y
      BY <1>2, <3>3
    <3>5. \A y \in s : y \in Nat
      OBVIOUS
    <3> QED
      BY <3>4, <3>5
  <2>2. \A s \in SUBSET S : Cardinality(s) = (n + 1) + 1 => Has(s)
    BY <2>1
  <2> QED
    BY <2>2
<1> HIDE DEF N
<1>3. \A n \in Nat : n \in N
  BY <1>1, <1>2, Induction
<1>4. Cardinality(S) \in Nat /\ Cardinality(S) > 0
  BY Without
<1>5. Cardinality(S) - 1 \in N
  BY <1>3, <1>4
<1>6. Has(S)
  BY <1>4, <1>5 DEF N
<1> QED
  BY <1>6 DEF Max

\* An element that is not smaller than any other is the largest one.
LEMMA LargestOf ==
  ASSUME NEW S, NEW m \in S, S \subseteq Nat, \A y \in S : m >= y
  PROVE  Max(S) = m
<1>1. \E x \in S : \A y \in S : x >= y
  OBVIOUS
<1>2. Max(S) \in S /\ \A y \in S : Max(S) >= y
  BY <1>1 DEF Max
<1>3. m \in Nat /\ Max(S) \in Nat /\ m >= Max(S) /\ Max(S) >= m
  BY <1>2
<1> QED
  BY <1>3

\* One more number.
LEMMA LargestAdds ==
  ASSUME NEW S \in SUBSET Nat, IsFiniteSet(S), NEW v \in Nat
  PROVE  /\ S = {} => Max(S \cup {v}) = v
         /\ S # {} => Max(S \cup {v}) = IF v > Max(S) THEN v ELSE Max(S)
<1>1. S = {} => Max(S \cup {v}) = v
  <2>1. Max({v}) = v
    BY LargestOf
  <2>2. S = {} => S \cup {v} = {v}
    OBVIOUS
  <2> QED
    BY <2>1, <2>2
<1>2. ASSUME S # {} PROVE Max(S \cup {v}) = IF v > Max(S) THEN v ELSE Max(S)
  <2>1. Max(S) \in S /\ Max(S) \in Nat /\ \A y \in S : Max(S) >= y
    BY <1>2, LargestExists
  <2>2. CASE v > Max(S)
    <3>1. \A y \in S \cup {v} : v >= y
      BY <2>1, <2>2
    <3> QED
      BY <2>2, <3>1, LargestOf
  <2>3. CASE ~(v > Max(S))
    <3>1. \A y \in S \cup {v} : Max(S) >= y
      BY <2>1, <2>3
    <3> QED
      BY <2>1, <2>3, <3>1, LargestOf
  <2> QED
    BY <2>2, <2>3
<1> QED
  BY <1>1, <1>2

\* A set of natural numbers that is not empty has a smallest element.
LEMMA SmallestExists ==
  ASSUME NEW S \in SUBSET Nat, S # {}
  PROVE  Min(S) \in S /\ \A y \in S : Min(S) <= y
  BY LeastNumber DEF Min

\* A place behind all others is the last one, and only then the first if it is alone.
LEMMA PlaceBehind ==
  ASSUME NEW n \in Nat, NEW S \in SUBSET (1..n)
  PROVE  /\ Max(S \cup {n + 1}) = n + 1
         /\ S # {} => Max(S) \in S /\ Min(S) \in S /\ Min(S \cup {n + 1}) = Min(S)
         /\ S = {} => Min(S \cup {n + 1}) = n + 1
<1>0. S \in SUBSET Nat /\ IsFiniteSet(S) /\ n + 1 \in Nat
  <2>1. IsFiniteSet(1..n)
    BY NumbersUpTo
  <2>2. IsFiniteSet(S)
    BY <2>1, FS_Subset
  <2> QED
    BY <2>2
<1>1. Max(S \cup {n + 1}) = n + 1
  <2> DEFINE T == S \cup {n + 1}
  <2>1. n + 1 \in T /\ T \subseteq Nat /\ \A y \in T : n + 1 >= y
    BY <1>0
  <2> HIDE DEF T
  <2>2. Max(T) = n + 1
    BY <2>1, LargestOf
  <2> QED
    BY <2>2 DEF T
<1>2. ASSUME S # {} PROVE Max(S) \in S /\ Min(S) \in S /\ Min(S \cup {n + 1}) = Min(S)
  <2>1. Max(S) \in S /\ Min(S) \in S /\ \A y \in S : Min(S) <= y
    <3>1. Max(S) \in S
      BY <1>0, <1>2, LargestExists
    <3>2. Min(S) \in S /\ \A y \in S : Min(S) <= y
      BY <1>0, <1>2, SmallestExists
    <3> QED
      BY <3>1, <3>2
  <2> DEFINE T == S \cup {n + 1}
  <2>2. T \in SUBSET Nat /\ T # {}
    BY <1>0
  <2>3. Min(T) \in T /\ \A y \in T : Min(T) <= y
    BY <2>2, SmallestExists
  <2>4. /\ Min(S) \in 1..n /\ Min(T) <= Min(S) /\ Min(T) \in Nat
        /\ Min(T) \in S \/ Min(T) = n + 1
    BY <2>1, <2>3, <1>0
  <2>5. Min(T) \in S => Min(S) <= Min(T)
    BY <2>1
  <2> HIDE DEF T
  <2>6. Min(T) = Min(S)
    BY <2>4, <2>5
  <2> QED
    BY <2>1, <2>6 DEF T
<1>3. S = {} => Min(S \cup {n + 1}) = n + 1
  <2>1. Min({n + 1}) \in {n + 1}
    BY <1>0, SmallestExists
  <2>2. S = {} => S \cup {n + 1} = {n + 1}
    OBVIOUS
  <2> QED
    BY <2>1, <2>2
<1> QED
  BY <1>1, <1>2, <1>3

(***************************************************************************)
(* Counters that wrap around.                                              *)
(***************************************************************************)

\* What a remainder is.
LEMMA RemainderIs ==
  ASSUME NEW M \in Nat \ {0}, NEW q \in Int, NEW r \in 0..(M - 1)
  PROVE  (M * q + r) % M = r
  BY Z3

\* Quotient and remainder are natural numbers, and belong together.
LEMMA Divides ==
  ASSUME NEW M \in Nat \ {0}, NEW n \in Nat
  PROVE  n % M \in 0..(M - 1) /\ n \div M \in Nat /\ n = M * (n \div M) + (n % M)
  BY Z3

\* A counter that is counted up after it wrapped around, or before.
LEMMA CountUp ==
  ASSUME NEW M \in Nat \ {0}, NEW n \in Nat
  PROVE  ((n % M) + 1) % M = (n + 1) % M
<1> DEFINE q == n \div M
           r == n % M
<1>1. r \in 0..(M - 1) /\ q \in Nat /\ n = M * q + r
  BY Divides
<1> HIDE DEF q, r
<1>2. CASE r + 1 < M
  <2>1. r + 1 \in 0..(M - 1) /\ n + 1 = M * q + (r + 1) /\ r + 1 = M * 0 + (r + 1)
    BY <1>1, <1>2
  <2>2. (M * q + (r + 1)) % M = r + 1 /\ (M * 0 + (r + 1)) % M = r + 1
    BY <1>1, <2>1, RemainderIs
  <2> QED
    BY <2>1, <2>2 DEF r
<1>3. CASE r + 1 = M
  <2>1. 0 \in 0..(M - 1) /\ n + 1 = M * (q + 1) + 0 /\ r + 1 = M * 1 + 0 /\ q + 1 \in Int
    BY <1>1, <1>3
  <2>2. (M * (q + 1) + 0) % M = 0 /\ (M * 1 + 0) % M = 0
    <3>1. (M * (q + 1) + 0) % M = 0
      BY <2>1, RemainderIs
    <3>2. (M * 1 + 0) % M = 0
      BY <2>1, RemainderIs
    <3> QED
      BY <3>1, <3>2
  <2> QED
    BY <2>1, <2>2 DEF r
<1> QED
  BY <1>1, <1>2, <1>3

\* A number of which M is taken away has the same remainder.
LEMMA WrapAround ==
  ASSUME NEW M \in Nat \ {0}, NEW n \in Nat, n >= M
  PROVE  (n - M) % M = n % M
<1> DEFINE q == n \div M
           r == n % M
<1>1. r \in 0..(M - 1) /\ q \in Nat /\ n = M * q + r
  BY Divides
<1> HIDE DEF q, r
<1>2. n - M = M * (q - 1) + r /\ q - 1 \in Int
  BY <1>1
<1>3. (M * (q - 1) + r) % M = r
  BY <1>1, <1>2, RemainderIs
<1> QED
  BY <1>2, <1>3 DEF r

(***************************************************************************)
(* Sums of the entries of a map.                                           *)
(***************************************************************************)

\* The sum of the entries grows by as much as one of them.
LEMMA EntryGrows ==
  ASSUME NEW f, IsFiniteSet(DOMAIN f), \A x \in DOMAIN f : f[x] \in Nat, NEW k, NEW d \in Nat,
         NEW g, DOMAIN g = DOMAIN f \cup {k}, \A x \in DOMAIN f : x # k => g[x] = f[x],
         g[k] = get_or(f, k, 0) + d
  PROVE  /\ SumFunction(g) = SumFunction(f) + d
         /\ SumFunction(f) \in Nat
<1> DEFINE R == DOMAIN f \ {k}
           old == get_or(f, k, 0)
<1>1. /\ IsFiniteSet(R) /\ k \notin R /\ DOMAIN g = R \cup {k} /\ old \in Nat
      /\ \A x \in R : f[x] \in Nat /\ g[x] = f[x]
      /\ g[k] = old + d
  BY FS_Subset DEF get_or
<1>2. SumFunctionOnSet(f, R) = SumFunctionOnSet(g, R) /\ SumFunctionOnSet(f, R) \in Nat
  BY <1>1, SetSumSame, SetSumType
<1>3. \A y \in R \cup {k} : g[y] \in Nat
  BY <1>1
<1>4. SumFunctionOnSet(g, R \cup {k}) = SumFunctionOnSet(g, R) + g[k]
  BY <1>1, <1>3, SetSumAdds
<1>5. SumFunctionOnSet(f, DOMAIN f) = SumFunctionOnSet(f, R) + old
  <2>1. CASE k \in DOMAIN f
    <3>1. DOMAIN f = R \cup {k} /\ old = f[k] /\ \A y \in R \cup {k} : f[y] \in Nat
      BY <2>1 DEF get_or
    <3> HIDE DEF R, old
    <3> QED
      BY <1>1, <3>1, SetSumAdds
  <2>2. CASE k \notin DOMAIN f
    <3>1. DOMAIN f = R /\ old = 0
      BY <2>2 DEF get_or
    <3> HIDE DEF R, old
    <3> QED
      BY <1>2, <3>1
  <2> QED
    BY <2>1, <2>2
<1> HIDE DEF R, old
<1> QED
  BY <1>1, <1>2, <1>4, <1>5 DEF SumFunction

(***************************************************************************)
(* Numbers in order.                                                       *)
(***************************************************************************)

\* For every k there is a number with k - 1 smaller ones.
LEMMA RanksExist ==
  ASSUME NEW S \in SUBSET Nat, IsFiniteSet(S)
  PROVE  /\ Cardinality(S) \in Nat
         /\ \A k \in 1..Cardinality(S) : \E x \in S : Cardinality({y \in S : y < x}) = k - 1
<1> DEFINE Ranked(s, n) == \A k \in 1..n : \E x \in s : Cardinality({y \in s : y < x}) = k - 1
           N == {n \in Nat : \A s \in SUBSET S : Cardinality(s) = n => Ranked(s, n)}
<1>1. 0 \in N
  OBVIOUS
<1>2. ASSUME NEW n \in Nat, n \in N PROVE n + 1 \in N
  <2>1. ASSUME NEW s \in SUBSET S, Cardinality(s) = n + 1, NEW k \in 1..(n + 1)
        PROVE  \E x \in s : Cardinality({y \in s : y < x}) = k - 1
    <3>1. s # {} /\ IsFiniteSet(s) /\ s \in SUBSET Nat
      <4>1. n + 1 # 0 /\ Cardinality({}) = 0
        BY FS_EmptySet
      <4> QED
        BY <2>1, <4>1, FS_Subset
    <3> DEFINE m == Max(s)
               t == s \ {m}
    <3>2. m \in s /\ \A y \in s : m >= y
      BY <3>1, LargestExists
    <3>3. \A x \in s : Cardinality(s \ {x}) = Cardinality(s) - 1
      BY <3>1, Without, Zenon
    <3> HIDE DEF m
    <3>4. Cardinality(t) = n /\ t \in SUBSET S
      BY <2>1, <3>2, <3>3
    <3>5. CASE k <= n
      <4>1. PICK x \in t : Cardinality({y \in t : y < x}) = k - 1
        BY <1>2, <3>4, <3>5
      <4>2. {y \in s : y < x} = {y \in t : y < x}
        BY <3>1, <3>2, <4>1
      <4> QED
        BY <4>1, <4>2
    <3>6. CASE k = n + 1
      <4>1. \A y \in s : y < m <=> y # m
        BY <3>1, <3>2
      <4>2. {y \in s : y < m} = t
        BY <4>1
      <4> QED
        BY <3>2, <3>4, <3>6, <4>2
    <3> QED
      BY <3>5, <3>6
  <2> QED
    BY <2>1
<1> HIDE DEF N
<1>3. \A n \in Nat : n \in N
  BY <1>1, <1>2, Induction
<1>4. Cardinality(S) \in Nat /\ Cardinality(S) \in N
  BY <1>3, FS_CardinalityType
<1> QED
  BY <1>4 DEF N

\* The numbers of a finite set in order are a sequence of its elements, as long as it is large.
LEMMA AscendingIsSeq ==
  ASSUME NEW S \in SUBSET Nat, IsFiniteSet(S)
  PROVE  /\ ascending(S) \in Seq(S) /\ Len(ascending(S)) = Cardinality(S)
         /\ DOMAIN ascending(S) = 1..Cardinality(S) /\ Cardinality(S) \in Nat
<1>1. Cardinality(S) \in Nat
  BY RanksExist
<1>2. \A k \in 1..Cardinality(S) : ascending(S)[k] \in S
  BY RanksExist DEF ascending
<1>3. ascending(S) \in [1..Cardinality(S) -> S]
  BY <1>2 DEF ascending
<1> QED
  BY <1>1, <1>3

(***************************************************************************)
(* One record more.                                                        *)
(***************************************************************************)

PlainKinds == CountedRecords \cup CountedRoots \cup AndroidRecords \cup {"HeapDumpEnd"}

\* The fields of a record, by its kind.
LEMMA RecordFields ==
  ASSUME NEW r \in Records
  PROVE  /\ r.kind = "Utf8String" => r.id \in Nat /\ r.str \in Strings
         /\ r.kind = "LoadClass" => r.serial \in Nat /\ r.id \in Nat /\ r.name \in Nat
         /\ r.kind = "StackFrame" => r.id \in Nat /\ r.class_serial \in Nat
         /\ r.kind = "StackTrace" => r.serial \in Nat /\ r.frames \in Seq(Nat)
         /\ r.kind = "InstanceDump" => r.class \in Nat
         /\ r.kind = "ObjectArrayDump" => r.class \in Nat /\ r.n \in Nat
         /\ r.kind = "PrimitiveArrayDump" => r.type \in PrimitiveTypes /\ r.n \in Nat
         /\ r.kind = "PrimitiveArrayNoDataDump" => r.type \in FieldTypes
         /\ r.kind = "ClassDump" => r.id \in Nat /\ r.super \in Nat /\ r.fields \in Seq(FieldTypes)
         /\ r.kind \in PlainKinds \cup {"Utf8String", "LoadClass", "StackFrame", "StackTrace",
              "InstanceDump", "ObjectArrayDump", "PrimitiveArrayDump",
              "PrimitiveArrayNoDataDump", "ClassDump"}
<1> DEFINE Plain == [kind : PlainKinds]
<1>1. Records =
  [kind : {"Utf8String"}, id : Nat, str : Strings]
    \cup [kind : {"LoadClass"}, serial : Nat, id : Nat, name : Nat]
    \cup [kind : {"StackFrame"}, id : Nat, method : Nat, file : Nat, class_serial : Nat, line : Int]
    \cup [kind : {"StackTrace"}, serial : Nat, frames : Seq(Nat)]
    \cup [kind : {"InstanceDump"}, class : Nat]
    \cup [kind : {"ObjectArrayDump"}, class : Nat, n : Nat]
    \cup [kind : {"PrimitiveArrayDump"}, type : PrimitiveTypes, n : Nat]
    \cup [kind : {"PrimitiveArrayNoDataDump"}, type : FieldTypes]
    \cup [kind : {"ClassDump"}, id : Nat, super : Nat, fields : Seq(FieldTypes)]
    \cup [kind : PlainKinds]
  BY DEF Records, PlainKinds
<1>2. \A k \in PlainKinds : k \notin {"Utf8String", "LoadClass", "StackFrame", "StackTrace",
              "InstanceDump", "ObjectArrayDump", "PrimitiveArrayDump",
              "PrimitiveArrayNoDataDump", "ClassDump"}
  BY DEF PlainKinds, CountedRecords, CountedRoots, AndroidRecords
<1> QED
  BY <1>1, <1>2

\* The counters that a record counts up.
CountedBy(kind) ==
  CASE kind \in CountedRecords \cup {"StackFrame", "StackTrace"} -> {kind}
    [] kind \in CountedRoots \cup {"InstanceDump", "ObjectArrayDump", "PrimitiveArrayDump",
                                   "ClassDump"} -> {"GcSegment", kind}
    [] kind = "PrimitiveArrayNoDataDump" -> {"GcSegment", "PrimitiveArrayDump"}
    [] kind \in AndroidRecords -> {"GcSegment"}
    [] OTHER -> {}

\* What a record does to the recorder, field by field.
Effect(r) ==
  /\ DOMAIN self' = DOMAIN NewRecorder
  /\ self'.utf8_strings_by_id =
       IF r.kind = "Utf8String" THEN insert(self.utf8_strings_by_id, r.id, r.str)
       ELSE self.utf8_strings_by_id
  /\ self'.class_data =
       IF r.kind = "LoadClass"
       THEN Append(self.class_data, [class_object_id |-> r.id, class_name_id |-> r.name])
       ELSE self.class_data
  /\ self'.class_data_by_id =
       IF r.kind = "LoadClass" THEN insert(self.class_data_by_id, r.id, Len(self.class_data) + 1)
       ELSE self.class_data_by_id
  /\ self'.class_data_by_serial_number =
       IF r.kind = "LoadClass"
       THEN insert(self.class_data_by_serial_number, r.serial, Len(self.class_data) + 1)
       ELSE self.class_data_by_serial_number
  /\ self'.stack_frame_by_id =
       IF r.kind = "StackFrame" THEN insert(self.stack_frame_by_id, r.id, r)
       ELSE self.stack_frame_by_id
  /\ self'.stack_trace_by_serial_number =
       IF r.kind = "StackTrace" THEN insert(self.stack_trace_by_serial_number, r.serial, r.frames)
       ELSE self.stack_trace_by_serial_number
  /\ self'.classes_single_instance_size_by_id =
       IF r.kind = "ClassDump"
       THEN or_insert(self.classes_single_instance_size_by_id, r.id,
                      [super |-> r.super, fields |-> r.fields])
       ELSE self.classes_single_instance_size_by_id
  /\ self'.classes_all_instance_total_size_by_id =
       IF r.kind = "InstanceDump"
       THEN insert(self.classes_all_instance_total_size_by_id, r.class,
                   get_or(self.classes_all_instance_total_size_by_id, r.class, 0) + 1)
       ELSE self.classes_all_instance_total_size_by_id
  /\ self'.object_array_counters =
       IF r.kind = "ObjectArrayDump"
       THEN add_array(self.object_array_counters, r.class, object_array_size(input.id_size, r.n))
       ELSE self.object_array_counters
  /\ self'.primitive_array_counters =
       IF r.kind = "PrimitiveArrayDump"
       THEN add_array(self.primitive_array_counters, r.type,
                      primitive_array_size(input.id_size, r.type, r.n))
       ELSE IF r.kind = "PrimitiveArrayNoDataDump"
       THEN add_array(self.primitive_array_counters, r.type, 0)
       ELSE self.primitive_array_counters
  /\ self'.counters = IF CountedBy(r.kind) = {} THEN self.counters
                      ELSE incremented(self.counters, CountedBy(r.kind))

FieldNames == {"utf8_strings_by_id", "class_data", "class_data_by_id",
               "class_data_by_serial_number", "classes_single_instance_size_by_id",
               "classes_all_instance_total_size_by_id", "primitive_array_counters",
               "object_array_counters", "stack_trace_by_serial_number", "stack_frame_by_id",
               "counters"}

\* The fields of the recorder, by name.
LEMMA SelfFields == DOMAIN NewRecorder = FieldNames
  BY DEF NewRecorder, FieldNames

\* Every action of RecordNext has this effect.
LEMMA RecordEffect ==
  ASSUME TypeOK, RecordNext
  PROVE  \E i \in left : /\ Record(i, self') /\ Effect(input.file[i])
<1>0. DOMAIN self = FieldNames
  BY SelfFields DEF TypeOK
<1>1. PICK i \in left :
    \/ Utf8String(i) \/ LoadClass(i) \/ StackFrame(i) \/ StackTrace(i)
    \/ Counted(i) \/ HeapDumpEnd(i) \/ Root(i) \/ Android(i)
    \/ InstanceDump(i) \/ ObjectArrayDump(i) \/ PrimitiveArrayDump(i)
    \/ PrimitiveArrayNoDataDump(i) \/ ClassDump(i)
  BY DEF RecordNext
<1> DEFINE r == input.file[i]
<1> SUFFICES Record(i, self') /\ Effect(r)
  OBVIOUS
<1> USE SelfFields
<1>2. CASE Utf8String(i)
  <2>1. r.kind = "Utf8String"
    BY <1>2 DEF Utf8String
  <2>2. CountedBy(r.kind) = {}
    BY <2>1 DEF CountedBy, CountedRecords, CountedRoots, AndroidRecords
  <2>3. /\ Record(i, self')
        /\ self' = [self EXCEPT
           !.utf8_strings_by_id = insert(@, r.id, r.str)]
    BY <1>2 DEF Utf8String, Record
  <2> HIDE DEF r
  <2> QED
    BY <1>0, <2>1, <2>2, <2>3 DEF Effect, FieldNames
<1>3. CASE LoadClass(i)
  <2>1. r.kind = "LoadClass"
    BY <1>3 DEF LoadClass
  <2>2. CountedBy(r.kind) = {}
    BY <2>1 DEF CountedBy, CountedRecords, CountedRoots, AndroidRecords
  <2>3. /\ Record(i, self')
        /\ self' = [self EXCEPT
           !.class_data = Append(@, [class_object_id |-> r.id, class_name_id |-> r.name]),
           !.class_data_by_id = insert(@, r.id, Len(self.class_data) + 1),
           !.class_data_by_serial_number = insert(@, r.serial, Len(self.class_data) + 1)]
    BY <1>3 DEF LoadClass, Record
  <2> HIDE DEF r
  <2> QED
    BY <1>0, <2>1, <2>2, <2>3 DEF Effect, FieldNames
<1>4. CASE StackFrame(i)
  <2>1. r.kind = "StackFrame"
    BY <1>4 DEF StackFrame
  <2>2. CountedBy(r.kind) = {"StackFrame"}
    BY <2>1 DEF CountedBy, CountedRecords, CountedRoots, AndroidRecords
  <2>3. /\ Record(i, self')
        /\ self' = [self EXCEPT
           !.counters = incremented(@, {"StackFrame"}),
           !.stack_frame_by_id = insert(@, r.id, r)]
    BY <1>4 DEF StackFrame, Record
  <2> HIDE DEF r
  <2> QED
    BY <1>0, <2>1, <2>2, <2>3 DEF Effect, FieldNames
<1>5. CASE StackTrace(i)
  <2>1. r.kind = "StackTrace"
    BY <1>5 DEF StackTrace
  <2>2. CountedBy(r.kind) = {"StackTrace"}
    BY <2>1 DEF CountedBy, CountedRecords, CountedRoots, AndroidRecords
  <2>3. /\ Record(i, self')
        /\ self' = [self EXCEPT
           !.counters = incremented(@, {"StackTrace"}),
           !.stack_trace_by_serial_number = insert(@, r.serial, r.frames)]
    BY <1>5 DEF StackTrace, Record
  <2> HIDE DEF r
  <2> QED
    BY <1>0, <2>1, <2>2, <2>3 DEF Effect, FieldNames
<1>6. CASE Counted(i)
  <2>1. r.kind \in CountedRecords
    BY <1>6 DEF Counted
  <2>2. CountedBy(r.kind) = {r.kind}
    BY <2>1 DEF CountedBy, CountedRecords, CountedRoots, AndroidRecords
  <2>3. /\ Record(i, self')
        /\ self' = [self EXCEPT
           !.counters = incremented(@, {r.kind})]
    BY <1>6 DEF Counted, Record
  <2> HIDE DEF r
  <2> QED
    BY <1>0, <2>1, <2>2, <2>3 DEF Effect, FieldNames, CountedRecords, CountedRoots, AndroidRecords
<1>7. CASE HeapDumpEnd(i)
  <2>1. r.kind = "HeapDumpEnd"
    BY <1>7 DEF HeapDumpEnd
  <2>2. CountedBy(r.kind) = {}
    BY <2>1 DEF CountedBy, CountedRecords, CountedRoots, AndroidRecords
  <2>3. Record(i, self') /\ self' = self
    BY <1>7 DEF HeapDumpEnd, Record
  <2> HIDE DEF r
  <2> QED
    BY <1>0, <2>1, <2>2, <2>3 DEF Effect, FieldNames
<1>8. CASE Root(i)
  <2>1. r.kind \in CountedRoots
    BY <1>8 DEF Root
  <2>2. CountedBy(r.kind) = {"GcSegment", r.kind}
    BY <2>1 DEF CountedBy, CountedRecords, CountedRoots, AndroidRecords
  <2>3. /\ Record(i, self')
        /\ self' = [self EXCEPT
           !.counters = incremented(@, {"GcSegment", r.kind})]
    BY <1>8 DEF Root, Record
  <2> HIDE DEF r
  <2> QED
    BY <1>0, <2>1, <2>2, <2>3 DEF Effect, FieldNames, CountedRecords, CountedRoots, AndroidRecords
<1>9. CASE Android(i)
  <2>1. r.kind \in AndroidRecords
    BY <1>9 DEF Android
  <2>2. CountedBy(r.kind) = {"GcSegment"}
    BY <2>1 DEF CountedBy, CountedRecords, CountedRoots, AndroidRecords
  <2>3. /\ Record(i, self')
        /\ self' = [self EXCEPT
           !.counters = incremented(@, {"GcSegment"})]
    BY <1>9 DEF Android, Record
  <2> HIDE DEF r
  <2> QED
    BY <1>0, <2>1, <2>2, <2>3 DEF Effect, FieldNames, CountedRecords, CountedRoots, AndroidRecords
<1>10. CASE InstanceDump(i)
  <2>1. r.kind = "InstanceDump"
    BY <1>10 DEF InstanceDump
  <2>2. CountedBy(r.kind) = {"GcSegment", "InstanceDump"}
    BY <2>1 DEF CountedBy, CountedRecords, CountedRoots, AndroidRecords
  <2>3. /\ Record(i, self')
        /\ self' = [self EXCEPT
           !.counters = incremented(@, {"GcSegment", "InstanceDump"}),
           !.classes_all_instance_total_size_by_id = insert(@, r.class, get_or(@, r.class, 0) + 1)]
    BY <1>10 DEF InstanceDump, Record
  <2> HIDE DEF r
  <2> QED
    BY <1>0, <2>1, <2>2, <2>3 DEF Effect, FieldNames
<1>11. CASE ObjectArrayDump(i)
  <2>1. r.kind = "ObjectArrayDump"
    BY <1>11 DEF ObjectArrayDump
  <2>2. CountedBy(r.kind) = {"GcSegment", "ObjectArrayDump"}
    BY <2>1 DEF CountedBy, CountedRecords, CountedRoots, AndroidRecords
  <2>3. /\ Record(i, self')
        /\ self' = [self EXCEPT
           !.counters = incremented(@, {"GcSegment", "ObjectArrayDump"}),
           !.object_array_counters = add_array(@, r.class, object_array_size(input.id_size, r.n))]
    BY <1>11 DEF ObjectArrayDump, Record
  <2> HIDE DEF r
  <2> QED
    BY <1>0, <2>1, <2>2, <2>3 DEF Effect, FieldNames
<1>12. CASE PrimitiveArrayDump(i)
  <2>1. r.kind = "PrimitiveArrayDump"
    BY <1>12 DEF PrimitiveArrayDump
  <2>2. CountedBy(r.kind) = {"GcSegment", "PrimitiveArrayDump"}
    BY <2>1 DEF CountedBy, CountedRecords, CountedRoots, AndroidRecords
  <2>3. /\ Record(i, self')
        /\ self' = [self EXCEPT
           !.counters = incremented(@, {"GcSegment", "PrimitiveArrayDump"}),
           !.primitive_array_counters =
             add_array(@, r.type, primitive_array_size(input.id_size, r.type, r.n))]
    BY <1>12 DEF PrimitiveArrayDump, Record
  <2> HIDE DEF r
  <2> QED
    BY <1>0, <2>1, <2>2, <2>3 DEF Effect, FieldNames
<1>13. CASE PrimitiveArrayNoDataDump(i)
  <2>1. r.kind = "PrimitiveArrayNoDataDump"
    BY <1>13 DEF PrimitiveArrayNoDataDump
  <2>2. CountedBy(r.kind) = {"GcSegment", "PrimitiveArrayDump"}
    BY <2>1 DEF CountedBy, CountedRecords, CountedRoots, AndroidRecords
  <2>3. /\ Record(i, self')
        /\ self' = [self EXCEPT
           !.counters = incremented(@, {"GcSegment", "PrimitiveArrayDump"}),
           !.primitive_array_counters = add_array(@, r.type, 0)]
    BY <1>13 DEF PrimitiveArrayNoDataDump, Record
  <2> HIDE DEF r
  <2> QED
    BY <1>0, <2>1, <2>2, <2>3 DEF Effect, FieldNames
<1>14. CASE ClassDump(i)
  <2>1. r.kind = "ClassDump"
    BY <1>14 DEF ClassDump
  <2>2. CountedBy(r.kind) = {"GcSegment", "ClassDump"}
    BY <2>1 DEF CountedBy, CountedRecords, CountedRoots, AndroidRecords
  <2>3. /\ Record(i, self')
        /\ self' = [self EXCEPT
           !.counters = incremented(@, {"GcSegment", "ClassDump"}),
           !.classes_single_instance_size_by_id =
             or_insert(@, r.id, [super |-> r.super, fields |-> r.fields])]
    BY <1>14 DEF ClassDump, Record
  <2> HIDE DEF r
  <2> QED
    BY <1>0, <2>1, <2>2, <2>3 DEF Effect, FieldNames
<1> QED
  BY <1>1, <1>2, <1>3, <1>4, <1>5, <1>6, <1>7, <1>8, <1>9, <1>10, <1>11, <1>12, <1>13, <1>14

\* The stream with r behind it.
Extended(r) ==
  /\ r \in Records /\ stream \in Seq(Records) /\ stream' \in Seq(Records)
  /\ Len(stream) \in Nat /\ Len(stream') = Len(stream) + 1
  /\ DOMAIN stream = 1..Len(stream) /\ DOMAIN stream' = 1..(Len(stream) + 1)
  /\ \A j \in 1..Len(stream) : stream'[j] = stream[j]
  /\ stream'[Len(stream) + 1] = r
  /\ input' = input

\* Recording the i-th record of the dump puts it behind the stream.
LEMMA StreamStep ==
  ASSUME TypeOK, StreamInv, NEW i \in left, Record(i, self')
  PROVE  Extended(input.file[i])
<1> DEFINE r == input.file[i]
<1>1. r \in Records
  BY RecorderAssumption DEF TypeOK
<1>2. stream \in Seq(Records) /\ stream' = Append(stream, r) /\ input' = input
  BY DEF StreamInv, Record
<1> HIDE DEF r
<1>3. Extended(r)
  BY <1>1, <1>2 DEF Extended
<1> QED
  BY <1>3 DEF r

\* The places new are those of old, and the one of the new record if it counts.
Grows(old, new, counts) ==
  /\ old \in SUBSET (1..Len(stream))
  /\ new = old \cup (IF counts THEN {Len(stream) + 1} ELSE {})

\* The places of some kinds of records grow by the new place if the record is of such a kind.
LEMMA OfGrows ==
  ASSUME NEW r, Extended(r), NEW K
  PROVE  Grows(Of(K), Of(K)', r.kind \in K)
  BY DEF Extended, Grows, Of

\* So do the places of every key.
LEMMA PlacesGrow ==
  ASSUME NEW r, Extended(r), NEW x
  PROVE  /\ Grows(StringsOf(x), StringsOf(x)', r.kind = "Utf8String" /\ r.id = x)
         /\ Grows(LoadsOf(x), LoadsOf(x)', r.kind = "LoadClass" /\ r.id = x)
         /\ Grows(LoadsAs(x), LoadsAs(x)', r.kind = "LoadClass" /\ r.serial = x)
         /\ Grows(FramesOf(x), FramesOf(x)', r.kind = "StackFrame" /\ r.id = x)
         /\ Grows(TracesOf(x), TracesOf(x)', r.kind = "StackTrace" /\ r.serial = x)
         /\ Grows(DumpsOf(x), DumpsOf(x)', r.kind = "ClassDump" /\ r.id = x)
         /\ Grows(InstancesOf(x), InstancesOf(x)', r.kind = "InstanceDump" /\ r.class = x)
         /\ Grows(ObjectArraysOf(x), ObjectArraysOf(x)', r.kind = "ObjectArrayDump" /\ r.class = x)
         /\ Grows(ArraysOf(x), ArraysOf(x)', r.kind \in PrimitiveArrays /\ r.type = x)
<1>1. Grows(StringsOf(x), StringsOf(x)', r.kind = "Utf8String" /\ r.id = x)
  BY DEF Extended, Grows, Of, StringsOf
<1>2. Grows(LoadsOf(x), LoadsOf(x)', r.kind = "LoadClass" /\ r.id = x)
  BY DEF Extended, Grows, Of, LoadsOf
<1>3. Grows(LoadsAs(x), LoadsAs(x)', r.kind = "LoadClass" /\ r.serial = x)
  BY DEF Extended, Grows, Of, LoadsAs
<1>4. Grows(FramesOf(x), FramesOf(x)', r.kind = "StackFrame" /\ r.id = x)
  BY DEF Extended, Grows, Of, FramesOf
<1>5. Grows(TracesOf(x), TracesOf(x)', r.kind = "StackTrace" /\ r.serial = x)
  BY DEF Extended, Grows, Of, TracesOf
<1>6. Grows(DumpsOf(x), DumpsOf(x)', r.kind = "ClassDump" /\ r.id = x)
  BY DEF Extended, Grows, Of, DumpsOf
<1>7. Grows(InstancesOf(x), InstancesOf(x)', r.kind = "InstanceDump" /\ r.class = x)
  BY DEF Extended, Grows, Of, InstancesOf
<1>8. Grows(ObjectArraysOf(x), ObjectArraysOf(x)', r.kind = "ObjectArrayDump" /\ r.class = x)
  BY DEF Extended, Grows, Of, ObjectArraysOf
<1>9. Grows(ArraysOf(x), ArraysOf(x)', r.kind \in PrimitiveArrays /\ r.type = x)
  BY DEF Extended, Grows, Of, ArraysOf
<1> QED
  BY <1>1, <1>2, <1>3, <1>4, <1>5, <1>6, <1>7, <1>8, <1>9

\* The keys that there are.
LEMMA KeysGrow ==
  ASSUME NEW r, Extended(r), NEW K
  PROVE  /\ {stream[i].id : i \in Of(K)}' =
              {stream[i].id : i \in Of(K)} \cup (IF r.kind \in K THEN {r.id} ELSE {})
         /\ {stream[i].serial : i \in Of(K)}' =
              {stream[i].serial : i \in Of(K)} \cup (IF r.kind \in K THEN {r.serial} ELSE {})
         /\ {stream[i].class : i \in Of(K)}' =
              {stream[i].class : i \in Of(K)} \cup (IF r.kind \in K THEN {r.class} ELSE {})
         /\ {stream[i].type : i \in Of(K)}' =
              {stream[i].type : i \in Of(K)} \cup (IF r.kind \in K THEN {r.type} ELSE {})
<1>1. /\ \A i \in Of(K) : stream'[i] = stream[i]
      /\ stream'[Len(stream) + 1] = r
      /\ Of(K)' = Of(K) \cup (IF r.kind \in K THEN {Len(stream) + 1} ELSE {})
  BY OfGrows DEF Extended, Grows
<1>2. {stream[i].id : i \in Of(K)}' =
        {stream[i].id : i \in Of(K)} \cup (IF r.kind \in K THEN {r.id} ELSE {})
  BY <1>1
<1>3. {stream[i].serial : i \in Of(K)}' =
        {stream[i].serial : i \in Of(K)} \cup (IF r.kind \in K THEN {r.serial} ELSE {})
  BY <1>1
<1>4. {stream[i].class : i \in Of(K)}' =
        {stream[i].class : i \in Of(K)} \cup (IF r.kind \in K THEN {r.class} ELSE {})
  BY <1>1
<1>5. {stream[i].type : i \in Of(K)}' =
        {stream[i].type : i \in Of(K)} \cup (IF r.kind \in K THEN {r.type} ELSE {})
  BY <1>1
<1> QED
  BY <1>2, <1>3, <1>4, <1>5

\* A key has a record or none.
LEMMA KeysHavePlaces ==
  /\ \A x \in {stream[i].id : i \in Of({"Utf8String"})} : StringsOf(x) # {}
  /\ \A x \in {stream[i].id : i \in Of({"LoadClass"})} : LoadsOf(x) # {}
  /\ \A x \in {stream[i].serial : i \in Of({"LoadClass"})} : LoadsAs(x) # {}
  /\ \A x \in {stream[i].id : i \in Of({"StackFrame"})} : FramesOf(x) # {}
  /\ \A x \in {stream[i].serial : i \in Of({"StackTrace"})} : TracesOf(x) # {}
  /\ \A x \in {stream[i].id : i \in Of({"ClassDump"})} : DumpsOf(x) # {}
  /\ \A x \in InstanceClasses : InstancesOf(x) # {}
  /\ \A x \in ArrayClasses : ObjectArraysOf(x) # {}
  /\ \A x \in ArrayTypes : ArraysOf(x) # {}
  BY DEF StringsOf, LoadsOf, LoadsAs, FramesOf, TracesOf, DumpsOf, InstancesOf, ObjectArraysOf,
         ArraysOf, InstanceClasses, ArrayClasses, ArrayTypes
\* A key that some record has is among the keys of its kind of records.
LEMMA PlacesHaveKeys ==
  /\ \A x : StringsOf(x) # {} => x \in {stream[i].id : i \in Of({"Utf8String"})}
  /\ \A x : LoadsOf(x) # {} => x \in {stream[i].id : i \in Of({"LoadClass"})}
  /\ \A x : LoadsAs(x) # {} => x \in {stream[i].serial : i \in Of({"LoadClass"})}
  /\ \A x : FramesOf(x) # {} => x \in {stream[i].id : i \in Of({"StackFrame"})}
  /\ \A x : TracesOf(x) # {} => x \in {stream[i].serial : i \in Of({"StackTrace"})}
  /\ \A x : DumpsOf(x) # {} => x \in {stream[i].id : i \in Of({"ClassDump"})}
  /\ \A x : InstancesOf(x) # {} => x \in InstanceClasses
  /\ \A x : ObjectArraysOf(x) # {} => x \in ArrayClasses
  /\ \A x : ArraysOf(x) # {} => x \in ArrayTypes
  BY DEF StringsOf, LoadsOf, LoadsAs, FramesOf, TracesOf, DumpsOf, InstancesOf, ObjectArraysOf,
         ArraysOf, InstanceClasses, ArrayClasses, ArrayTypes

\* The last and the first record of places that grow.
LEMMA LatestStep ==
  ASSUME NEW r, Extended(r), NEW old, NEW new, NEW counts, Grows(old, new, counts)
  PROVE  /\ counts => stream'[Max(new)] = r
         /\ ~counts => new = old
         /\ old # {} => /\ Max(old) \in old /\ stream'[Max(old)] = stream[Max(old)]
                        /\ Min(old) \in old /\ Min(new) = Min(old)
                        /\ stream'[Min(new)] = stream[Min(old)]
         /\ old = {} /\ counts => stream'[Min(new)] = r
<1> DEFINE n == Len(stream)
<1>1. n \in Nat /\ old \in SUBSET (1..n) /\ stream'[n + 1] = r /\ \A j \in 1..n : stream'[j] = stream[j]
  BY DEF Extended, Grows
<1>2. new = IF counts THEN old \cup {n + 1} ELSE old
  BY DEF Grows
<1> HIDE DEF n
<1>3. /\ Max(old \cup {n + 1}) = n + 1
      /\ old # {} => Max(old) \in old /\ Min(old) \in old /\ Min(old \cup {n + 1}) = Min(old)
      /\ old = {} => Min(old \cup {n + 1}) = n + 1
  BY <1>1, PlaceBehind
<1> QED
  BY <1>1, <1>2, <1>3

(***************************************************************************)
(* The maps speak of one record more.                                      *)
(***************************************************************************)

\* The entry of a key that the record is not about is still right.
LEMMA StringsStep ==
  ASSUME StringsInv, NEW r, Extended(r), Effect(r)
  PROVE  StringsInv'
<1> DEFINE map == self.utf8_strings_by_id
           Keys == {stream[i].id : i \in Of({"Utf8String"})}
<1>1. map' = IF r.kind = "Utf8String" THEN insert(map, r.id, r.str) ELSE map
  BY DEF Effect
<1>2. Keys' = Keys \cup (IF r.kind = "Utf8String" THEN {r.id} ELSE {})
  BY KeysGrow
<1>3. DOMAIN map = Keys /\ \A n \in Keys : map[n] = Latest(StringsOf(n)).str
  BY DEF StringsInv
<1>4. DOMAIN map' = Keys'
  BY <1>1, <1>2, <1>3 DEF insert
<1>5. ASSUME NEW n \in Keys' PROVE map'[n] = Latest(StringsOf(n))'.str
  <2> DEFINE counts == r.kind = "Utf8String" /\ r.id = n
  <2>1. Grows(StringsOf(n), StringsOf(n)', counts)
    BY PlacesGrow
  <2> HIDE DEF counts
  <2>2. /\ counts => Latest(StringsOf(n))' = r
        /\ ~counts /\ StringsOf(n) # {} => Latest(StringsOf(n))' = Latest(StringsOf(n))
    BY <2>1, LatestStep DEF Latest
  <2> USE DEF counts
  <2>3. ~counts => n \in Keys /\ StringsOf(n) # {}
    BY <1>2, <1>5, KeysHavePlaces
  <2> HIDE DEF Keys
  <2> QED
    BY <1>1, <1>3, <2>2, <2>3 DEF insert
<1> QED
  BY <1>4, <1>5 DEF StringsInv

\* The map of the stack frames has the last frame of each id.
LEMMA FramesStep ==
  ASSUME FramesInv, NEW r, Extended(r), Effect(r)
  PROVE  FramesInv'
<1> DEFINE map == self.stack_frame_by_id
           Keys == {stream[i].id : i \in Of({"StackFrame"})}
<1>1. map' = IF r.kind = "StackFrame" THEN insert(map, r.id, r) ELSE map
  BY DEF Effect
<1>2. Keys' = Keys \cup (IF r.kind = "StackFrame" THEN {r.id} ELSE {})
  BY KeysGrow
<1>3. DOMAIN map = Keys /\ \A f \in Keys : map[f] = Latest(FramesOf(f))
  BY DEF FramesInv
<1>4. DOMAIN map' = Keys'
  BY <1>1, <1>2, <1>3 DEF insert
<1>5. ASSUME NEW f \in Keys' PROVE map'[f] = Latest(FramesOf(f))'
  <2> DEFINE counts == r.kind = "StackFrame" /\ r.id = f
  <2>1. Grows(FramesOf(f), FramesOf(f)', counts)
    BY PlacesGrow
  <2> HIDE DEF counts
  <2>2. /\ counts => Latest(FramesOf(f))' = r
        /\ ~counts /\ FramesOf(f) # {} => Latest(FramesOf(f))' = Latest(FramesOf(f))
    BY <2>1, LatestStep DEF Latest
  <2> USE DEF counts
  <2>3. ~counts => f \in Keys /\ FramesOf(f) # {}
    BY <1>2, <1>5, KeysHavePlaces
  <2> HIDE DEF Keys
  <2> QED
    BY <1>1, <1>3, <2>2, <2>3 DEF insert
<1> QED
  BY <1>4, <1>5 DEF FramesInv

\* The map of the stack traces has the last trace of each serial number.
LEMMA TracesStep ==
  ASSUME TracesInv, NEW r, Extended(r), Effect(r)
  PROVE  TracesInv'
<1> DEFINE map == self.stack_trace_by_serial_number
           Keys == TraceSerials
<1>1. map' = IF r.kind = "StackTrace" THEN insert(map, r.serial, r.frames) ELSE map
  BY DEF Effect
<1>2. Keys' = Keys \cup (IF r.kind = "StackTrace" THEN {r.serial} ELSE {})
  BY KeysGrow DEF TraceSerials
<1>3. DOMAIN map = Keys /\ \A s \in Keys : map[s] = Latest(TracesOf(s)).frames
  BY DEF TracesInv
<1>4. DOMAIN map' = Keys'
  BY <1>1, <1>2, <1>3 DEF insert
<1>5. ASSUME NEW s \in Keys' PROVE map'[s] = Latest(TracesOf(s))'.frames
  <2> DEFINE counts == r.kind = "StackTrace" /\ r.serial = s
  <2>1. Grows(TracesOf(s), TracesOf(s)', counts)
    BY PlacesGrow
  <2> HIDE DEF counts
  <2>2. /\ counts => Latest(TracesOf(s))' = r
        /\ ~counts /\ TracesOf(s) # {} => Latest(TracesOf(s))' = Latest(TracesOf(s))
    BY <2>1, LatestStep DEF Latest
  <2> USE DEF counts
  <2>3. ~counts => s \in Keys /\ TracesOf(s) # {}
    BY <1>2, <1>5, KeysHavePlaces DEF TraceSerials
  <2> HIDE DEF Keys
  <2> QED
    BY <1>1, <1>3, <2>2, <2>3 DEF insert
<1> QED
  BY <1>4, <1>5 DEF TracesInv

\* Both maps of the classes point into class_data at the last loading of their key.
LEMMA LoadsStep ==
  ASSUME LoadsInv, NEW r, Extended(r), Effect(r)
  PROVE  LoadsInv'
<1> DEFINE data == self.class_data
           by_id == self.class_data_by_id
           by_serial == self.class_data_by_serial_number
           loads == r.kind = "LoadClass"
           Datum == [class_object_id : Nat, class_name_id : Nat]
           Ids == {stream[i].id : i \in Of({"LoadClass"})}
           Serials == {stream[i].serial : i \in Of({"LoadClass"})}
           n == Len(data) + 1
<1>1. /\ data' = IF loads THEN Append(data, Loaded(r)) ELSE data
      /\ by_id' = IF loads THEN insert(by_id, r.id, n) ELSE by_id
      /\ by_serial' = IF loads THEN insert(by_serial, r.serial, n) ELSE by_serial
  BY DEF Effect, Loaded
<1>2. /\ Ids' = Ids \cup (IF loads THEN {r.id} ELSE {})
      /\ Serials' = Serials \cup (IF loads THEN {r.serial} ELSE {})
  <2>1. Ids' = Ids \cup (IF loads THEN {r.id} ELSE {})
    BY KeysGrow
  <2>2. Serials' = Serials \cup (IF loads THEN {r.serial} ELSE {})
    BY KeysGrow
  <2> QED
    BY <2>1, <2>2
<1>3. /\ data \in Seq(Datum)
      /\ DOMAIN by_id = Ids /\ DOMAIN by_serial = Serials
      /\ \A c \in Ids : by_id[c] \in DOMAIN data /\ data[by_id[c]] = Loaded(Latest(LoadsOf(c)))
      /\ \A s \in Serials :
           by_serial[s] \in DOMAIN data /\ data[by_serial[s]] = Loaded(Latest(LoadsAs(s)))
  BY DEF LoadsInv
<1>4. loads => Loaded(r) \in Datum
  BY RecordFields DEF Extended, Loaded
<1>5. /\ data' \in Seq(Datum) /\ \A k \in DOMAIN data : k \in DOMAIN data' /\ data'[k] = data[k]
      /\ loads => n \in DOMAIN data' /\ data'[n] = Loaded(r)
  <2> HIDE DEF data, Datum, loads
  <2>1. CASE loads
    <3>1. data' = Append(data, Loaded(r)) /\ Loaded(r) \in Datum /\ data \in Seq(Datum)
      BY <1>1, <1>3, <1>4, <2>1
    <3> QED
      BY <3>1
  <2>2. CASE ~loads
    BY <1>1, <1>3, <2>2
  <2> QED
    BY <2>1, <2>2
<1>6. ASSUME NEW c \in Ids'
      PROVE  by_id'[c] \in DOMAIN data' /\ data'[by_id'[c]] = Loaded(Latest(LoadsOf(c))')
  <2> DEFINE counts == r.kind = "LoadClass" /\ r.id = c
  <2>1. Grows(LoadsOf(c), LoadsOf(c)', counts)
    BY PlacesGrow
  <2> HIDE DEF counts
  <2>2. /\ counts => Latest(LoadsOf(c))' = r
        /\ ~counts /\ LoadsOf(c) # {} => Latest(LoadsOf(c))' = Latest(LoadsOf(c))
    BY <2>1, LatestStep DEF Latest
  <2> USE DEF counts
  <2>3. ~counts => c \in Ids /\ LoadsOf(c) # {}
    BY <1>2, <1>6, KeysHavePlaces
  <2>4. by_id'[c] = IF counts THEN n ELSE by_id[c]
    BY <1>1, <1>3, <2>3 DEF insert
  <2> HIDE DEF Ids, data, n, by_id
  <2> QED
    BY <1>3, <1>5, <2>2, <2>3, <2>4
<1>7. ASSUME NEW s \in Serials'
      PROVE  by_serial'[s] \in DOMAIN data' /\ data'[by_serial'[s]] = Loaded(Latest(LoadsAs(s))')
  <2> DEFINE counts == r.kind = "LoadClass" /\ r.serial = s
  <2>1. Grows(LoadsAs(s), LoadsAs(s)', counts)
    BY PlacesGrow
  <2> HIDE DEF counts
  <2>2. /\ counts => Latest(LoadsAs(s))' = r
        /\ ~counts /\ LoadsAs(s) # {} => Latest(LoadsAs(s))' = Latest(LoadsAs(s))
    BY <2>1, LatestStep DEF Latest
  <2> USE DEF counts
  <2>3. ~counts => s \in Serials /\ LoadsAs(s) # {}
    BY <1>2, <1>7, KeysHavePlaces
  <2>4. by_serial'[s] = IF counts THEN n ELSE by_serial[s]
    BY <1>1, <1>3, <2>3 DEF insert
  <2> HIDE DEF Serials, data, n, by_serial
  <2> QED
    BY <1>3, <1>5, <2>2, <2>3, <2>4
<1>8. DOMAIN by_id' = Ids' /\ DOMAIN by_serial' = Serials'
  BY <1>1, <1>2, <1>3 DEF insert
<1> QED
  BY <1>5, <1>6, <1>7, <1>8 DEF LoadsInv, Loaded

\* The map of the layouts has the first dump of each class.
LEMMA LayoutsStep ==
  ASSUME LayoutsInv, NEW r, Extended(r), Effect(r)
  PROVE  LayoutsInv'
<1> DEFINE map == self.classes_single_instance_size_by_id
           Keys == {stream[i].id : i \in Of({"ClassDump"})}
           Layout(d) == [super |-> d.super, fields |-> d.fields]
<1>1. map' = IF r.kind = "ClassDump" THEN or_insert(map, r.id, Layout(r)) ELSE map
  BY DEF Effect
<1>2. Keys' = Keys \cup (IF r.kind = "ClassDump" THEN {r.id} ELSE {})
  BY KeysGrow
<1>3. DOMAIN map = Keys /\ \A c \in Keys : map[c] = Layout(First(DumpsOf(c)))
  BY DEF LayoutsInv, ClassInfo
<1>4. DOMAIN map' = Keys'
  BY <1>1, <1>2, <1>3 DEF insert, or_insert
<1>5. ASSUME NEW c \in Keys' PROVE map'[c] = Layout(First(DumpsOf(c))')
  <2> DEFINE counts == r.kind = "ClassDump" /\ r.id = c
  <2>1. Grows(DumpsOf(c), DumpsOf(c)', counts)
    BY PlacesGrow
  <2> HIDE DEF counts
  <2>2. /\ counts /\ DumpsOf(c) = {} => First(DumpsOf(c))' = r
        /\ DumpsOf(c) # {} => First(DumpsOf(c))' = First(DumpsOf(c))
    BY <2>1, LatestStep DEF First
  <2> USE DEF counts
  <2>3. /\ c \in Keys <=> DumpsOf(c) # {}
        /\ ~counts => c \in Keys
    BY <1>2, <1>5, KeysHavePlaces, PlacesHaveKeys
  <2>4. map'[c] = IF c \in Keys THEN map[c] ELSE Layout(r)
    BY <1>1, <1>3, <2>3 DEF insert, or_insert, get_or
  <2> HIDE DEF Keys, map
  <2> QED
    BY <1>3, <2>2, <2>3, <2>4
<1> QED
  BY <1>4, <1>5 DEF LayoutsInv, ClassInfo

\* Places are finitely many.
LEMMA PlacesCount ==
  ASSUME NEW r, Extended(r), NEW old, NEW new, NEW counts \in BOOLEAN, Grows(old, new, counts)
  PROVE  /\ IsFiniteSet(old) /\ IsFiniteSet(new) /\ Cardinality(old) \in Nat
         /\ Cardinality(new) = Cardinality(old) + (IF counts THEN 1 ELSE 0)
         /\ (old = {} <=> Cardinality(old) = 0)
<1>1. /\ Len(stream) \in Nat /\ old \in SUBSET (1..Len(stream)) /\ Len(stream) + 1 \notin old
      /\ new = old \cup (IF counts THEN {Len(stream) + 1} ELSE {})
  BY DEF Extended, Grows
<1>2. IsFiniteSet(old)
  <2>1. IsFiniteSet(1..Len(stream))
    BY <1>1, NumbersUpTo
  <2> QED
    BY <1>1, <2>1, FS_Subset
<1>3. Cardinality(old) \in Nat /\ (old = {} <=> Cardinality(old) = 0)
  BY <1>2, FS_CardinalityType, FS_EmptySet
<1>4. IsFiniteSet(old \cup {Len(stream) + 1}) /\ Cardinality(old \cup {Len(stream) + 1}) = Cardinality(old) + 1
  BY <1>1, <1>2, FS_AddElement
<1>5. CASE counts
  BY <1>1, <1>2, <1>3, <1>4, <1>5
<1>6. CASE ~counts
  <2>1. new = old
    BY <1>1, <1>6
  <2> QED
    BY <1>2, <1>3, <1>6, <2>1
<1> QED
  BY <1>5, <1>6

\* An instance is counted once, in the entry of its class.
LEMMA InstancesStep ==
  ASSUME InstancesInv, NEW r, Extended(r), Effect(r)
  PROVE  InstancesInv'
<1> DEFINE map == self.classes_all_instance_total_size_by_id
<1>1. map' = IF r.kind = "InstanceDump" THEN insert(map, r.class, get_or(map, r.class, 0) + 1)
             ELSE map
  BY DEF Effect
<1>2. InstanceClasses' = InstanceClasses \cup (IF r.kind = "InstanceDump" THEN {r.class} ELSE {})
  BY KeysGrow DEF InstanceClasses
<1>3. DOMAIN map = InstanceClasses /\ \A c \in InstanceClasses : map[c] = Cardinality(InstancesOf(c))
  BY DEF InstancesInv
<1>4. DOMAIN map' = InstanceClasses'
  BY <1>1, <1>2, <1>3 DEF insert
<1>5. ASSUME NEW c \in InstanceClasses' PROVE map'[c] = Cardinality(InstancesOf(c)')
  <2> DEFINE counts == r.kind = "InstanceDump" /\ r.class = c
             old == InstancesOf(c)
  <2>1. Grows(old, old', counts)
    BY PlacesGrow
  <2>2. /\ Cardinality(old) \in Nat /\ (old = {} <=> Cardinality(old) = 0)
        /\ Cardinality(old') = Cardinality(old) + (IF counts THEN 1 ELSE 0)
    <3>1. counts \in BOOLEAN
      OBVIOUS
    <3> HIDE DEF counts, old
    <3> QED
      BY <2>1, <3>1, PlacesCount
  <2>3. c \in InstanceClasses <=> old # {}
    BY KeysHavePlaces, PlacesHaveKeys
  <2>4. ~counts => c \in InstanceClasses
    BY <1>2, <1>5
  <2> HIDE DEF old
  <2>5. get_or(map, c, 0) = Cardinality(old)
    BY <1>3, <2>2, <2>3 DEF get_or, old
  <2>6. map'[c] = IF counts THEN get_or(map, c, 0) + 1 ELSE map[c]
    BY <1>1, <1>3, <2>4 DEF insert
  <2> QED
    BY <1>3, <2>2, <2>4, <2>5, <2>6 DEF old
<1> QED
  BY <1>4, <1>5 DEF InstancesInv

\* Sizes are numbers.
LEMMA MultipleIsNat ==
  ASSUME NEW m \in {4, 8}, NEW n \in Nat
  PROVE  next_multiple_of(n, m) \in Nat
  BY Z3 DEF next_multiple_of

\* The sizes of arrays are natural numbers.
LEMMA ArraySizesAreNat ==
  ASSUME NEW id_size \in {4, 8}, NEW n \in Nat, NEW t \in PrimitiveTypes
  PROVE  /\ object_array_size(id_size, n) \in Nat
         /\ primitive_array_size(id_size, t, n) \in Nat
<1>1. array_header_size(id_size) \in Nat /\ primitive_byte_size(t) \in {1, 2, 4, 8}
  BY DEF array_header_size, primitive_byte_size, PrimitiveTypes
<1>2. array_header_size(id_size) + id_size * n \in Nat
  BY <1>1
<1>3. array_header_size(id_size) + primitive_byte_size(t) * n \in Nat
  BY <1>1
<1> QED
  BY <1>2, <1>3, MultipleIsNat DEF object_array_size, primitive_array_size, OBJECT_ALIGN

\* One number more than those of f.
LEMMA OneMore ==
  ASSUME NEW D, IsFiniteSet(D), NEW f \in [D -> Nat], NEW k, k \notin D, NEW v \in Nat,
         NEW g \in [D \cup {k} -> Nat], \A x \in D : g[x] = f[x], g[k] = v
  PROVE  /\ Cardinality(D \cup {k}) = Cardinality(D) + 1 /\ Cardinality(D) \in Nat
         /\ SumFunction(g) = SumFunction(f) + v /\ SumFunction(f) \in Nat
         /\ Max(Range(g)) = IF D = {} \/ v > Max(Range(f)) THEN v ELSE Max(Range(f))
         /\ D # {} => Max(Range(f)) \in Nat
         /\ D = {} => Cardinality(D) = 0 /\ SumFunction(f) = 0
<1>1. Cardinality(D \cup {k}) = Cardinality(D) + 1 /\ Cardinality(D) \in Nat
  BY FS_AddElement, FS_CardinalityType
<1>2. SumFunction(g) = SumFunction(f) + v /\ SumFunction(f) \in Nat
  <2>1. /\ DOMAIN f = D /\ DOMAIN g = DOMAIN f \cup {k} /\ \A x \in DOMAIN f : f[x] \in Nat
        /\ g[k] = get_or(f, k, 0) + v /\ \A x \in DOMAIN f : x # k => g[x] = f[x]
    BY DEF get_or
  <2> QED
    BY <2>1, EntryGrows
<1>3. Range(f) \in SUBSET Nat /\ IsFiniteSet(Range(f)) /\ (Range(f) = {} <=> D = {})
  <2>1. Range(f) \in SUBSET Nat /\ (Range(f) = {} <=> D = {})
    BY DEF Range
  <2>2. f \in Surjection(D, Range(f))
    BY Fun_RangeProperties
  <2>3. IsFiniteSet(Range(f))
    BY <2>2, FS_Surjection
  <2> QED
    BY <2>1, <2>3
<1>4. Range(g) = Range(f) \cup {v}
  BY DEF Range
<1>5. Max(Range(g)) = IF D = {} \/ v > Max(Range(f)) THEN v ELSE Max(Range(f))
  BY <1>3, <1>4, LargestAdds
<1>6. D # {} => Max(Range(f)) \in Nat
  BY <1>3, LargestExists
<1>7. D = {} => Cardinality(D) = 0 /\ SumFunction(f) = 0
  BY FS_EmptySet, SetSumEmpty DEF SumFunction
<1> QED
  BY <1>1, <1>2, <1>5, <1>6, <1>7

\* What add_array makes of the entry for the numbers of f.
CounterOf(f) ==
  [number |-> Cardinality(DOMAIN f), max |-> Max(Range(f)), total |-> SumFunction(f)]

\* add_array turns the counter of some arrays into that of one array more.
LEMMA AddArray ==
  ASSUME NEW D, IsFiniteSet(D), NEW f \in [D -> Nat], NEW k, k \notin D, NEW v \in Nat,
         NEW g \in [D \cup {k} -> Nat], \A x \in D : g[x] = f[x], g[k] = v,
         NEW map, NEW key, key \in DOMAIN map <=> D # {},
         key \in DOMAIN map => map[key] = CounterOf(f)
  PROVE  add_array(map, key, v)[key] = CounterOf(g)
<1> DEFINE c == get_or(map, key, [number |-> 0, max |-> 0, total |-> 0])
<1>1. add_array(map, key, v)[key] = [number |-> c.number + 1, max |-> IF v > c.max THEN v ELSE c.max,
                                     total |-> c.total + v]
  BY DEF add_array, insert
<1>2. /\ Cardinality(D \cup {k}) = Cardinality(D) + 1 /\ Cardinality(D) \in Nat
      /\ SumFunction(g) = SumFunction(f) + v /\ SumFunction(f) \in Nat
      /\ Max(Range(g)) = IF D = {} \/ v > Max(Range(f)) THEN v ELSE Max(Range(f))
      /\ D # {} => Max(Range(f)) \in Nat
      /\ D = {} => Cardinality(D) = 0 /\ SumFunction(f) = 0
  BY OneMore
<1>3. DOMAIN f = D /\ DOMAIN g = D \cup {k}
  OBVIOUS
<1>4. CASE D = {}
  <2>1. c = [number |-> 0, max |-> 0, total |-> 0]
    BY <1>4 DEF get_or
  <2>2. c.number = 0 /\ c.max = 0 /\ c.total = 0
    BY <2>1
  <2>3. CounterOf(g) = [number |-> 1, max |-> v, total |-> v]
    BY <1>2, <1>3, <1>4 DEF CounterOf
  <2> HIDE DEF c
  <2>4. (IF v > c.max THEN v ELSE c.max) = v /\ c.number + 1 = 1 /\ c.total + v = v
    BY <2>2
  <2> QED
    BY <1>1, <2>3, <2>4
<1>5. CASE D # {}
  <2>1. c = CounterOf(f)
    BY <1>5 DEF get_or
  <2>2. c.number = Cardinality(D) /\ c.max = Max(Range(f)) /\ c.total = SumFunction(f)
    BY <1>3, <2>1 DEF CounterOf
  <2> HIDE DEF c
  <2> QED
    BY <1>1, <1>2, <1>3, <1>5, <2>2 DEF CounterOf
<1> QED
  BY <1>4, <1>5

\* The bytes of an array do not change, and the new record has its own.
BytesOf(r) ==
  CASE r.kind = "ObjectArrayDump" -> object_array_size(input.id_size, r.n)
    [] r.kind = "PrimitiveArrayDump" -> primitive_array_size(input.id_size, r.type, r.n)
    [] OTHER -> 0

\* The bytes that a record stands for are a natural number.
LEMMA BytesAreNat ==
  ASSUME input.id_size \in {4, 8}, NEW s \in Records
  PROVE  BytesOf(s) \in Nat
<1>1. /\ s.kind = "ObjectArrayDump" => s.n \in Nat
      /\ s.kind = "PrimitiveArrayDump" => s.type \in PrimitiveTypes /\ s.n \in Nat
  BY RecordFields
<1>2. s.kind = "ObjectArrayDump" => object_array_size(input.id_size, s.n) \in Nat
  BY <1>1, ArraySizesAreNat DEF PrimitiveTypes
<1>3. s.kind = "PrimitiveArrayDump" => primitive_array_size(input.id_size, s.type, s.n) \in Nat
  BY <1>1, ArraySizesAreNat
<1> QED
  BY <1>2, <1>3 DEF BytesOf

\* The bytes of the arrays so far stay, and those of the new record are added.
LEMMA BytesStep ==
  ASSUME input.id_size \in {4, 8}, NEW r, Extended(r)
  PROVE  /\ \A i \in 1..Len(stream) : ArrayBytes(i) \in Nat /\ ArrayBytes(i)' = ArrayBytes(i)
         /\ \A i : i = Len(stream) + 1 => ArrayBytes(i)' = BytesOf(r)
         /\ BytesOf(r) \in Nat
<1>1. \A s \in Records : BytesOf(s) \in Nat
  BY BytesAreNat
<1>2. ASSUME NEW i \in 1..Len(stream) PROVE ArrayBytes(i) \in Nat /\ ArrayBytes(i)' = ArrayBytes(i)
  <2>1. ArrayBytes(i) = BytesOf(stream[i])
    BY DEF ArrayBytes, BytesOf
  <2>2. stream[i] \in Records /\ stream'[i] = stream[i] /\ input' = input
    BY DEF Extended
  <2>3. ArrayBytes(i)' = ArrayBytes(i)
    BY <2>2 DEF ArrayBytes
  <2> QED
    BY <1>1, <2>1, <2>2, <2>3
<1>3. ASSUME NEW i, i = Len(stream) + 1 PROVE ArrayBytes(i)' = BytesOf(r)
  BY <1>3 DEF Extended, ArrayBytes, BytesOf
<1>4. BytesOf(r) \in Nat
  BY <1>1 DEF Extended
<1> QED
  BY <1>2, <1>3, <1>4

\* The counter of the arrays at some places, one of them new or not.
LEMMA ArrayEntryStep ==
  ASSUME input.id_size \in {4, 8}, NEW r, Extended(r), NEW old, NEW new, NEW counts \in BOOLEAN,
         Grows(old, new, counts), NEW f, f = [i \in old |-> ArrayBytes(i)],
         NEW g, g = [i \in new |-> ArrayBytes(i)'], NEW map, NEW key,
         key \in DOMAIN map <=> old # {}, key \in DOMAIN map => map[key] = CounterOf(f)
  PROVE  /\ counts => add_array(map, key, BytesOf(r))[key] = CounterOf(g)
         /\ ~counts => g = f
<1>1. PICK k : k = Len(stream) + 1
  OBVIOUS
<1>2. /\ old \in SUBSET (1..Len(stream)) /\ k \notin old /\ IsFiniteSet(old)
      /\ new = IF counts THEN old \cup {k} ELSE old
  <2>1. IsFiniteSet(old)
    BY PlacesCount
  <2> QED
    BY <1>1, <2>1 DEF Extended, Grows
<1>3. \A i \in old : f[i] \in Nat /\ f[i] = ArrayBytes(i)'
  BY <1>2, BytesStep
<1>4. ArrayBytes(k)' = BytesOf(r) /\ BytesOf(r) \in Nat
  BY <1>1, BytesStep
<1>5. ASSUME counts PROVE add_array(map, key, BytesOf(r))[key] = CounterOf(g)
  <2>1. f \in [old -> Nat] /\ DOMAIN f = old
    BY <1>3
  <2>2. new = old \cup {k}
    BY <1>2, <1>5
  <2>3. g[k] = BytesOf(r) /\ \A x \in old : g[x] = f[x]
    BY <1>3, <1>4, <2>2
  <2>4. g \in [old \cup {k} -> Nat]
    <3>1. \A x \in old \cup {k} : g[x] \in Nat
      BY <1>3, <1>4, <2>3
    <3>2. g = [x \in old \cup {k} |-> g[x]]
      BY <2>2
    <3> QED
      BY <3>1, <3>2
  <2>5. IsFiniteSet(old) /\ k \notin old /\ BytesOf(r) \in Nat
    BY <1>2, <1>4
  <2> HIDE <1>2, <1>4
  <2> QED
    BY <2>1, <2>3, <2>4, <2>5, AddArray, SMTT(40)
<1>6. ~counts => g = f
  BY <1>2, <1>3
<1> QED
  BY <1>5, <1>6

\* ArrayCounter is the counter of the bytes of the arrays.
LEMMA CounterOfArrays ==
  ASSUME NEW at
  PROVE  /\ ArrayCounter(at) = CounterOf([i \in at |-> ArrayBytes(i)])
         /\ ArrayCounter(at)' = CounterOf([i \in at |-> ArrayBytes(i)'])
<1>1. Range([i \in at |-> ArrayBytes(i)]) = {ArrayBytes(i) : i \in at}
  BY DEF Range
<1>2. Range([i \in at |-> ArrayBytes(i)']) = {ArrayBytes(i)' : i \in at}
  BY DEF Range
<1>3. ArrayCounter(at)' =
        [number |-> Cardinality(at), max |-> Max({ArrayBytes(i)' : i \in at}),
         total |-> SumFunction([i \in at |-> ArrayBytes(i)'])]
  BY DEF ArrayCounter
<1> QED
  BY <1>1, <1>2, <1>3 DEF ArrayCounter, CounterOf

\* An object array is counted in the entry of its class.
LEMMA ObjectArraysStep ==
  ASSUME input.id_size \in {4, 8}, ArraysInv, NEW r, Extended(r), Effect(r),
         NEW c \in ArrayClasses'
  PROVE  self'.object_array_counters[c] = ArrayCounter(ObjectArraysOf(c))'
<1> DEFINE map == self.object_array_counters
           counts == r.kind = "ObjectArrayDump" /\ r.class = c
<1>1. PICK old, new : old = ObjectArraysOf(c) /\ new = ObjectArraysOf(c)'
  OBVIOUS
<1>2. Grows(old, new, counts)
  BY <1>1, PlacesGrow
<1>3. PICK f, g : f = [i \in old |-> ArrayBytes(i)] /\ g = [i \in new |-> ArrayBytes(i)']
  OBVIOUS
<1>4. c \in DOMAIN map <=> old # {}
  BY <1>1, KeysHavePlaces, PlacesHaveKeys DEF ArraysInv
<1>5. c \in DOMAIN map => map[c] = CounterOf(f)
  BY <1>1, <1>3, CounterOfArrays DEF ArraysInv
<1>6. ArrayCounter(ObjectArraysOf(c))' = CounterOf(g)
  BY <1>1, <1>3, CounterOfArrays DEF ArrayCounter
<1>7. /\ counts => add_array(map, c, BytesOf(r))[c] = CounterOf(g)
      /\ ~counts => g = f
  <2>1. counts \in BOOLEAN
    OBVIOUS
  <2> HIDE DEF counts, map
  <2> QED
    BY <1>2, <1>3, <1>4, <1>5, <2>1, ArrayEntryStep
<1>8. ArrayClasses' = ArrayClasses \cup (IF r.kind = "ObjectArrayDump" THEN {r.class} ELSE {})
  BY KeysGrow DEF ArrayClasses
<1>9. map' = IF r.kind = "ObjectArrayDump" THEN add_array(map, r.class, BytesOf(r)) ELSE map
  BY DEF Effect, BytesOf
<1>10. DOMAIN map = ArrayClasses
  BY DEF ArraysInv
<1>11. CASE counts
  BY <1>6, <1>7, <1>9, <1>11
<1>12. CASE ~counts
  <2>1. c \in DOMAIN map
    BY <1>8, <1>10, <1>12
  <2>2. map'[c] = map[c]
    BY <1>9, <1>12, <2>1 DEF add_array, insert
  <2> QED
    BY <1>5, <1>6, <1>7, <1>12, <2>1, <2>2
<1> QED
  BY <1>11, <1>12

\* A primitive array is counted in the entry of its type, with or without its data.
LEMMA PrimitiveArraysStep ==
  ASSUME input.id_size \in {4, 8}, ArraysInv, NEW r, Extended(r), Effect(r),
         NEW t \in ArrayTypes'
  PROVE  self'.primitive_array_counters[t] = ArrayCounter(ArraysOf(t))'
<1> DEFINE map == self.primitive_array_counters
           counts == r.kind \in PrimitiveArrays /\ r.type = t
<1>1. PICK old, new : old = ArraysOf(t) /\ new = ArraysOf(t)'
  OBVIOUS
<1>2. Grows(old, new, counts)
  BY <1>1, PlacesGrow
<1>3. PICK f, g : f = [i \in old |-> ArrayBytes(i)] /\ g = [i \in new |-> ArrayBytes(i)']
  OBVIOUS
<1>4. t \in DOMAIN map <=> old # {}
  BY <1>1, KeysHavePlaces, PlacesHaveKeys DEF ArraysInv
<1>5. t \in DOMAIN map => map[t] = CounterOf(f)
  BY <1>1, <1>3, CounterOfArrays DEF ArraysInv
<1>6. ArrayCounter(ArraysOf(t))' = CounterOf(g)
  BY <1>1, <1>3, CounterOfArrays DEF ArrayCounter
<1>7. /\ counts => add_array(map, t, BytesOf(r))[t] = CounterOf(g)
      /\ ~counts => g = f
  <2>1. counts \in BOOLEAN
    OBVIOUS
  <2> HIDE DEF counts, map
  <2> QED
    BY <1>2, <1>3, <1>4, <1>5, <2>1, ArrayEntryStep
<1>8. ArrayTypes' = ArrayTypes \cup (IF r.kind \in PrimitiveArrays THEN {r.type} ELSE {})
  BY KeysGrow DEF ArrayTypes
<1>9. map' = IF r.kind \in PrimitiveArrays THEN add_array(map, r.type, BytesOf(r)) ELSE map
  BY DEF Effect, BytesOf, PrimitiveArrays
<1>10. DOMAIN map = ArrayTypes
  BY DEF ArraysInv
<1>11. CASE counts
  BY <1>6, <1>7, <1>9, <1>11
<1>12. CASE ~counts
  <2>1. t \in DOMAIN map
    BY <1>8, <1>10, <1>12
  <2>2. map'[t] = map[t]
    BY <1>9, <1>12, <2>1 DEF add_array, insert
  <2> QED
    BY <1>5, <1>6, <1>7, <1>12, <2>1, <2>2
<1> QED
  BY <1>11, <1>12

\* The counters of both kinds of arrays are those of the records so far.
LEMMA ArraysStep ==
  ASSUME input.id_size \in {4, 8}, ArraysInv, NEW r, Extended(r), Effect(r)
  PROVE  ArraysInv'
<1>1. DOMAIN self'.object_array_counters = ArrayClasses'
  <2>1. ArrayClasses' = ArrayClasses \cup (IF r.kind = "ObjectArrayDump" THEN {r.class} ELSE {})
    BY KeysGrow DEF ArrayClasses
  <2> QED
    BY <2>1 DEF Effect, ArraysInv, add_array, insert
<1>2. DOMAIN self'.primitive_array_counters = ArrayTypes'
  <2>1. ArrayTypes' = ArrayTypes \cup (IF r.kind \in PrimitiveArrays THEN {r.type} ELSE {})
    BY KeysGrow DEF ArrayTypes
  <2> QED
    BY <2>1 DEF Effect, ArraysInv, add_array, insert, PrimitiveArrays
<1>3. \A c \in ArrayClasses' : self'.object_array_counters[c] = ArrayCounter(ObjectArraysOf(c))'
  BY ObjectArraysStep
<1>4. \A t \in ArrayTypes' : self'.primitive_array_counters[t] = ArrayCounter(ArraysOf(t))'
  BY PrimitiveArraysStep
<1> QED
  BY <1>1, <1>2, <1>3, <1>4 DEF ArraysInv

\* The next record is one of the file too.
LEMMA OriginStep ==
  ASSUME TypeOK, OriginInv, NEW i \in left, Record(i, self'), NEW r, r = input.file[i], Extended(r)
  PROVE  OriginInv'
<1>1. i \in DOMAIN input.file /\ input' = input
  BY RecorderAssumption DEF TypeOK, Record
<1> QED
  BY <1>1 DEF OriginInv, Extended

(***************************************************************************)
(* The counters.                                                           *)
(***************************************************************************)

\* The keys of some kinds are finitely many.
LEMMA KeysFinite ==
  ASSUME StreamInv, NEW K
  PROVE  /\ IsFiniteSet(Of(K))
         /\ IsFiniteSet({stream[i].class : i \in Of(K)})
         /\ IsFiniteSet({stream[i].type : i \in Of(K)})
         /\ IsFiniteSet({stream[i].id : i \in Of(K)})
         /\ IsFiniteSet({stream[i].super : i \in Of(K)})
         /\ IsFiniteSet({stream[i].serial : i \in Of(K)})
<1>1. IsFiniteSet(Of(K))
  <2>1. IsFiniteSet(1..Len(stream))
    BY NumbersUpTo DEF StreamInv
  <2>2. Of(K) \in SUBSET (1..Len(stream))
    BY DEF StreamInv, Of
  <2> QED
    BY <2>1, <2>2, FS_Subset
<1>2. \A f : f \in [Of(K) -> Range(f)] => IsFiniteSet(Range(f))
  BY <1>1, Fun_RangeProperties, FS_Surjection
<1>3. ASSUME NEW f, f = [i \in Of(K) |-> f[i]] PROVE IsFiniteSet(Range(f))
  BY <1>2, <1>3 DEF Range
<1>4. IsFiniteSet({stream[i].class : i \in Of(K)})
  <2> DEFINE f == [i \in Of(K) |-> stream[i].class]
  <2>1. IsFiniteSet(Range(f))
    BY <1>3
  <2> QED
    BY <2>1 DEF Range
<1>5. IsFiniteSet({stream[i].type : i \in Of(K)})
  <2> DEFINE f == [i \in Of(K) |-> stream[i].type]
  <2>1. IsFiniteSet(Range(f))
    BY <1>3
  <2> QED
    BY <2>1 DEF Range
<1>6. IsFiniteSet({stream[i].id : i \in Of(K)})
  <2> DEFINE f == [i \in Of(K) |-> stream[i].id]
  <2>1. IsFiniteSet(Range(f))
    BY <1>3
  <2> QED
    BY <2>1 DEF Range
<1>7. IsFiniteSet({stream[i].super : i \in Of(K)})
  <2> DEFINE f == [i \in Of(K) |-> stream[i].super]
  <2>1. IsFiniteSet(Range(f))
    BY <1>3
  <2> QED
    BY <2>1 DEF Range
<1>8. IsFiniteSet({stream[i].serial : i \in Of(K)})
  <2> DEFINE f == [i \in Of(K) |-> stream[i].serial]
  <2>1. IsFiniteSet(Range(f))
    BY <1>3
  <2> QED
    BY <2>1 DEF Range
<1> QED
  BY <1>1, <1>4, <1>5, <1>6, <1>7, <1>8

\* Every place that some key has is one of finitely many.
LEMMA PlacesFinite ==
  ASSUME StreamInv, NEW S, \A i \in S : i \in DOMAIN stream
  PROVE  IsFiniteSet(S) /\ S \in SUBSET Nat /\ Cardinality(S) \in Nat
<1>1. IsFiniteSet(1..Len(stream))
  BY NumbersUpTo DEF StreamInv
<1>2. S \in SUBSET (1..Len(stream))
  BY DEF StreamInv
<1>3. IsFiniteSet(S)
  BY <1>1, <1>2, FS_Subset
<1> QED
  BY <1>2, <1>3, FS_CardinalityType

\* The parts of CountsAgree.
Number(map) == SumFunction([k \in DOMAIN map |-> map[k].number])
CountedDumps == {"InstanceDump", "ObjectArrayDump", "PrimitiveArrayDump", "ClassDump"}
SubRecords == CountedRoots \cup CountedDumps

\* CountsAgree, equation by equation, before and after a step.
LEMMA CountsParts ==
  /\ CountsAgree <=>
       /\ self.counters["InstanceDump"] =
            SumFunction(self.classes_all_instance_total_size_by_id) % U32
       /\ self.counters["ObjectArrayDump"] = Number(self.object_array_counters) % U32
       /\ self.counters["PrimitiveArrayDump"] = Number(self.primitive_array_counters) % U32
       /\ self.counters["GcSegment"] =
            (SumFunctionOnSet(self.counters, SubRecords) + Cardinality(Of(AndroidRecords))) % U32
  /\ CountsAgree' <=>
       /\ self'.counters["InstanceDump"] =
            SumFunction(self'.classes_all_instance_total_size_by_id) % U32
       /\ self'.counters["ObjectArrayDump"] = Number(self'.object_array_counters) % U32
       /\ self'.counters["PrimitiveArrayDump"] = Number(self'.primitive_array_counters) % U32
       /\ self'.counters["GcSegment"] =
            (SumFunctionOnSet(self'.counters, SubRecords) + Cardinality(Of(AndroidRecords)')) % U32
  BY DEF CountsAgree, Number, SubRecords, CountedDumps

\* A finite list of names is a finite set of names.
LEMMA SubRecordsFinite == IsFiniteSet(SubRecords) /\ SubRecords \subseteq Counters
<1>1. /\ IsFiniteSet({"RootUnknown", "RootThreadObject", "RootJniGlobal", "RootJniLocal"})
      /\ IsFiniteSet({"RootJavaFrame", "RootNativeStack", "RootStickyClass", "RootThreadBlock",
                      "RootMonitorUsed"})
      /\ IsFiniteSet(CountedDumps)
  <2>1. \A a : IsFiniteSet({a})
    BY FS_Singleton
  <2>2. ASSUME NEW a, NEW b PROVE IsFiniteSet({a, b})
    <3>1. {a, b} = {a} \cup {b}
      OBVIOUS
    <3>2. IsFiniteSet({a})
      BY <2>1
    <3>3. IsFiniteSet({a} \cup {b})
      BY <3>2, FS_AddElement
    <3> QED
      BY <3>1, <3>3, Zenon
  <2>3. ASSUME NEW a, NEW b, NEW c, NEW d PROVE IsFiniteSet({a, b, c, d})
    <3>1. {a, b, c, d} = ({a, b} \cup {c}) \cup {d}
      OBVIOUS
    <3>2. IsFiniteSet({a, b} \cup {c})
      BY <2>2, FS_AddElement
    <3>3. IsFiniteSet(({a, b} \cup {c}) \cup {d})
      BY <3>2, FS_AddElement
    <3> QED
      BY <3>1, <3>3, Zenon
  <2>4. ASSUME NEW a, NEW b, NEW c, NEW d, NEW e PROVE IsFiniteSet({a, b, c, d, e})
    <3>1. {a, b, c, d, e} = {a, b, c, d} \cup {e}
      OBVIOUS
    <3>2. IsFiniteSet({a, b, c, d})
      BY <2>3
    <3>3. IsFiniteSet({a, b, c, d} \cup {e})
      BY <3>2, FS_AddElement
    <3> QED
      BY <3>1, <3>3, Zenon
  <2> QED
    BY <2>3, <2>4, Zenon DEF CountedDumps
<1>2. SubRecords = ({"RootUnknown", "RootThreadObject", "RootJniGlobal", "RootJniLocal"}
                    \cup {"RootJavaFrame", "RootNativeStack", "RootStickyClass", "RootThreadBlock",
                      "RootMonitorUsed"}) \cup CountedDumps
  BY DEF SubRecords, CountedRoots
<1>3. IsFiniteSet(SubRecords)
  BY <1>1, <1>2, FS_Union, Zenon
<1> QED
  BY <1>3 DEF SubRecords, CountedDumps, Counters

\* What the record adds to the sum of the entries of a map of array counters.
LEMMA NumberGrows ==
  ASSUME NEW map, IsFiniteSet(DOMAIN map), \A x \in DOMAIN map : map[x].number \in Nat,
         NEW key, NEW size
  PROVE  Number(add_array(map, key, size)) = Number(map) + 1 /\ Number(map) \in Nat
<1> DEFINE f == [k \in DOMAIN map |-> map[k].number]
           after == add_array(map, key, size)
           g == [k \in DOMAIN after |-> after[k].number]
<1>1. DOMAIN after = DOMAIN map \cup {key}
  BY DEF add_array, insert
<1>2. \A x \in DOMAIN map : x # key => after[x] = map[x]
  BY DEF add_array, insert
<1>3. after[key].number = get_or(f, key, 0) + 1
  BY DEF add_array, insert, get_or
<1> HIDE DEF after
<1>4. /\ DOMAIN f = DOMAIN map /\ DOMAIN g = DOMAIN f \cup {key}
      /\ \A x \in DOMAIN f : f[x] \in Nat /\ (x # key => g[x] = f[x])
      /\ g[key] = get_or(f, key, 0) + 1
  BY <1>1, <1>2, <1>3
<1>5. SumFunction(g) = SumFunction(f) + 1 /\ SumFunction(f) \in Nat
  <2> HIDE DEF f, g
  <2> QED
    BY <1>4, EntryGrows
<1> QED
  BY <1>5 DEF Number, after

\* A counter is counted up, or starts again.
LEMMA NextRemainder ==
  ASSUME NEW M \in Nat \ {0}, NEW n \in 0..(M - 1)
  PROVE  (n + 1) % M = IF n = M - 1 THEN 0 ELSE n + 1
  BY Z3

\* One counter of some wraps around: their sum is one more, all but a multiple of U32.
LEMMA CountedSum ==
  ASSUME NEW S, IsFiniteSet(S), NEW c, \A y \in S : c[y] \in 0..(U32 - 1), NEW x \in S,
         NEW d, \A y \in S : y # x => d[y] = c[y], d[x] = (c[x] + 1) % U32, NEW a \in Nat
  PROVE  (SumFunctionOnSet(d, S) + a) % U32 = (SumFunctionOnSet(c, S) + a + 1) % U32
<1> DEFINE R == S \ {x}
<1>0. U32 \in Nat \ {0} /\ c[x] \in 0..(U32 - 1)
  BY RecorderAssumption
<1>1. d[x] = IF c[x] = U32 - 1 THEN 0 ELSE c[x] + 1
  BY <1>0, NextRemainder
<1>2. /\ IsFiniteSet(R) /\ x \notin R /\ S = R \cup {x}
      /\ \A y \in R : c[y] = d[y] /\ c[y] \in Nat /\ d[y] \in Nat
  BY <1>0, FS_Subset
<1>3. c[x] \in Nat /\ d[x] \in Nat
  BY <1>0, <1>1
<1>4. SumFunctionOnSet(c, R) = SumFunctionOnSet(d, R) /\ SumFunctionOnSet(c, R) \in Nat
  <2>1. SumFunctionOnSet(c, R) = SumFunctionOnSet(d, R)
    BY <1>2, SetSumSame
  <2>2. SumFunctionOnSet(c, R) \in Nat
    BY <1>2, SetSumType
  <2> QED
    BY <2>1, <2>2
<1>5. SumFunctionOnSet(c, S) = SumFunctionOnSet(c, R) + c[x]
  <2>1. \A y \in R \cup {x} : c[y] \in Nat
    BY <1>2, <1>3
  <2> HIDE DEF R
  <2> QED
    BY <1>2, <2>1, SetSumAdds
<1>6. SumFunctionOnSet(d, S) = SumFunctionOnSet(c, R) + d[x]
  <2>1. \A y \in R \cup {x} : d[y] \in Nat
    BY <1>2, <1>3
  <2>2. SumFunctionOnSet(d, R \cup {x}) = SumFunctionOnSet(d, R) + d[x]
    <3> HIDE DEF R
    <3> QED
      BY <1>2, <2>1, SetSumAdds
  <2> QED
    BY <1>2, <1>4, <2>2
<1> DEFINE n == SumFunctionOnSet(c, S) + a + 1
           m == SumFunctionOnSet(d, S) + a
           q == SumFunctionOnSet(c, R)
<1>7. q \in Nat /\ n = q + c[x] + a + 1 /\ m = q + d[x] + a
  BY <1>3, <1>4, <1>5, <1>6
<1> HIDE DEF n, m, q
<1>8. m = n \/ (m = n - U32 /\ n >= U32 /\ n \in Nat)
  BY <1>0, <1>1, <1>7
<1>9. m % U32 = n % U32
  BY <1>0, <1>8, WrapAround
<1> QED
  BY <1>9 DEF n, m

\* Which kinds a counter is for.
LEMMA CountersOf ==
  ASSUME NEW r \in Records
  PROVE  LET k == r.kind IN
         /\ CountedBy(k) \subseteq Counters
         /\ "InstanceDump" \in CountedBy(k) <=> k = "InstanceDump"
         /\ "ObjectArrayDump" \in CountedBy(k) <=> k = "ObjectArrayDump"
         /\ "PrimitiveArrayDump" \in CountedBy(k) <=> k \in PrimitiveArrays
         /\ "GcSegment" \in CountedBy(k) <=> k \in SubRecords \cup AndroidRecords \cup PrimitiveArrays
         /\ k \in SubRecords => CountedBy(k) \cap SubRecords = {k} /\ k \notin AndroidRecords
         /\ k = "PrimitiveArrayNoDataDump" =>
              CountedBy(k) \cap SubRecords = {"PrimitiveArrayDump"} /\ k \notin AndroidRecords
         /\ k \notin SubRecords /\ k # "PrimitiveArrayNoDataDump" => CountedBy(k) \cap SubRecords = {}
<1>1. PICK k : k = r.kind
  OBVIOUS
<1>2. k \in PlainKinds \cup {"Utf8String", "LoadClass", "StackFrame", "StackTrace",
              "InstanceDump", "ObjectArrayDump", "PrimitiveArrayDump",
              "PrimitiveArrayNoDataDump", "ClassDump"}
  BY <1>1, RecordFields
<1>3. \/ k \in CountedRecords \cup {"StackFrame", "StackTrace"} /\ CountedBy(k) = {k}
      \/ k \in SubRecords /\ CountedBy(k) = {"GcSegment", k}
      \/ k = "PrimitiveArrayNoDataDump" /\ CountedBy(k) = {"GcSegment", "PrimitiveArrayDump"}
      \/ k \in AndroidRecords /\ CountedBy(k) = {"GcSegment"}
      \/ k \in {"Utf8String", "LoadClass", "HeapDumpEnd"} /\ CountedBy(k) = {}
  BY <1>2 DEF PlainKinds, CountedBy, CountedRecords, CountedRoots, AndroidRecords, SubRecords,
              CountedDumps
<1> USE DEF PrimitiveArrays, Counters, CountedRecords, CountedRoots, AndroidRecords, SubRecords,
            CountedDumps
<1>4. CASE k \in CountedRecords \cup {"StackFrame", "StackTrace"} /\ CountedBy(k) = {k}
  BY <1>1, <1>4
<1>5. CASE k \in SubRecords /\ CountedBy(k) = {"GcSegment", k}
  BY <1>1, <1>5
<1>6. CASE k = "PrimitiveArrayNoDataDump" /\ CountedBy(k) = {"GcSegment", "PrimitiveArrayDump"}
  BY <1>1, <1>6
<1>7. CASE k \in AndroidRecords /\ CountedBy(k) = {"GcSegment"}
  BY <1>1, <1>7
<1>8. CASE k \in {"Utf8String", "LoadClass", "HeapDumpEnd"} /\ CountedBy(k) = {}
  BY <1>1, <1>8
<1> QED
  BY <1>3, <1>4, <1>5, <1>6, <1>7, <1>8

\* A record increments the counters of its kind, modulo 2^32, and leaves the others.
LEMMA CountersStep ==
  ASSUME TypeOK, NEW r \in Records, Effect(r)
  PROVE  /\ self'.counters \in [Counters -> 0..(U32 - 1)]
         /\ \A x \in Counters : self'.counters[x] =
              IF x \in CountedBy(r.kind) THEN (self.counters[x] + 1) % U32 ELSE self.counters[x]
<1> DEFINE c == self.counters
           d == self'.counters
<1>1. c \in [Counters -> 0..(U32 - 1)]
  BY DEF TypeOK
<1>2. d = IF CountedBy(r.kind) = {} THEN c ELSE incremented(c, CountedBy(r.kind))
  BY DEF Effect
<1> HIDE DEF c, d
<1>3. DOMAIN d = Counters /\ d = [x \in Counters |-> d[x]]
  BY <1>1, <1>2 DEF incremented
<1>4. \A x \in Counters :
        d[x] = IF x \in CountedBy(r.kind) THEN (c[x] + 1) % U32 ELSE c[x]
  BY <1>1, <1>2 DEF incremented
<1>5. \A n \in Nat : n % U32 \in 0..(U32 - 1)
  <2>1. U32 \in Nat \ {0}
    BY RecorderAssumption
  <2> QED
    BY <2>1, Divides
<1>6. \A x \in Counters : d[x] \in 0..(U32 - 1)
  <2>1. \A x \in Counters : c[x] + 1 \in Nat /\ c[x] \in 0..(U32 - 1)
    BY <1>1
  <2> QED
    BY <1>4, <1>5, <2>1
<1>7. d \in [Counters -> 0..(U32 - 1)]
  BY <1>3, <1>6
<1> QED
  BY <1>4, <1>7 DEF c, d

\* The counters of the summary and those of the rows count the new record alike.
LEMMA CountsStep ==
  ASSUME TypeOK, StreamInv, InstancesInv, ArraysInv, CountsAgree, NEW r, Extended(r), Effect(r)
  PROVE  CountsAgree'
<1> DEFINE c == self.counters
           d == self'.counters
           k == r.kind
<1>0. U32 \in Nat \ {0} /\ r \in Records /\ input.id_size \in {4, 8}
  BY RecorderAssumption DEF Extended, TypeOK
<1>1. /\ c \in [Counters -> 0..(U32 - 1)]
      /\ \A x \in Counters : d[x] = IF x \in CountedBy(k) THEN (c[x] + 1) % U32 ELSE c[x]
  BY <1>0, CountersStep DEF TypeOK
<1>2. /\ "InstanceDump" \in Counters /\ "ObjectArrayDump" \in Counters
      /\ "PrimitiveArrayDump" \in Counters /\ "GcSegment" \in Counters
  BY DEF Counters
<1>3. /\ "InstanceDump" \in CountedBy(k) <=> k = "InstanceDump"
      /\ "ObjectArrayDump" \in CountedBy(k) <=> k = "ObjectArrayDump"
      /\ "PrimitiveArrayDump" \in CountedBy(k) <=> k \in PrimitiveArrays
      /\ "GcSegment" \in CountedBy(k) <=> k \in SubRecords \cup AndroidRecords \cup PrimitiveArrays
      /\ k \in SubRecords => CountedBy(k) \cap SubRecords = {k} /\ k \notin AndroidRecords
      /\ k = "PrimitiveArrayNoDataDump" =>
           CountedBy(k) \cap SubRecords = {"PrimitiveArrayDump"} /\ k \notin AndroidRecords
      /\ k \notin SubRecords /\ k # "PrimitiveArrayNoDataDump" => CountedBy(k) \cap SubRecords = {}
  BY <1>0, CountersOf
<1>4. /\ c["InstanceDump"] = SumFunction(self.classes_all_instance_total_size_by_id) % U32
      /\ c["ObjectArrayDump"] = Number(self.object_array_counters) % U32
      /\ c["PrimitiveArrayDump"] = Number(self.primitive_array_counters) % U32
      /\ c["GcSegment"] =
           (SumFunctionOnSet(c, SubRecords) + Cardinality(Of(AndroidRecords))) % U32
  BY CountsParts
<1> HIDE DEF c, d, k
<1>5. d["InstanceDump"] = SumFunction(self'.classes_all_instance_total_size_by_id) % U32
  <2> DEFINE f == self.classes_all_instance_total_size_by_id
  <2>1. IsFiniteSet(DOMAIN f)
    BY KeysFinite DEF InstancesInv, InstanceClasses
  <2>2. \A x \in DOMAIN f : f[x] \in Nat
    <3>1. \A x : Cardinality(InstancesOf(x)) \in Nat
      BY PlacesFinite DEF InstancesOf, Of
    <3> QED
      BY <3>1 DEF InstancesInv
  <2>3. CASE k = "InstanceDump"
    <3>1. f' = insert(f, r.class, get_or(f, r.class, 0) + 1)
      BY <2>3 DEF Effect, k
    <3>2. DOMAIN f' = DOMAIN f \cup {r.class} /\ f'[r.class] = get_or(f, r.class, 0) + 1
      BY <3>1 DEF insert
    <3>3. \A x \in DOMAIN f : x # r.class => f'[x] = f[x]
      BY <3>1 DEF insert
    <3> HIDE DEF f
    <3>4. SumFunction(f') = SumFunction(f) + 1 /\ SumFunction(f) \in Nat
      BY <2>1, <2>2, <3>2, <3>3, EntryGrows
    <3>5. c["InstanceDump"] = SumFunction(f) % U32
      BY <1>4 DEF f
    <3>6. d["InstanceDump"] = ((SumFunction(f) % U32) + 1) % U32
      BY <1>1, <1>2, <1>3, <2>3, <3>5
    <3>7. d["InstanceDump"] = SumFunction(f') % U32
      BY <1>0, <3>4, <3>6, CountUp
    <3> QED
      BY <3>7 DEF f
  <2>4. CASE k # "InstanceDump"
    <3>1. f' = f
      BY <2>4 DEF Effect, k
    <3> QED
      BY <1>1, <1>2, <1>3, <1>4, <2>4, <3>1
  <2> QED
    BY <2>3, <2>4
<1>6. d["ObjectArrayDump"] = Number(self'.object_array_counters) % U32
  <2> DEFINE map == self.object_array_counters
  <2>1. IsFiniteSet(DOMAIN map)
    BY KeysFinite DEF ArraysInv, ArrayClasses
  <2>2. \A x \in DOMAIN map : map[x].number \in Nat
    <3>1. \A x : Cardinality(ObjectArraysOf(x)) \in Nat
      BY PlacesFinite DEF ObjectArraysOf, Of
    <3>2. \A x \in DOMAIN map : map[x] = ArrayCounter(ObjectArraysOf(x))
      BY DEF ArraysInv
    <3>3. \A at : ArrayCounter(at).number = Cardinality(at)
      BY DEF ArrayCounter
    <3> QED
      BY <3>1, <3>2, <3>3
  <2>3. CASE k = "ObjectArrayDump"
    <3>1. map' = add_array(map, r.class, object_array_size(input.id_size, r.n))
      BY <2>3 DEF Effect, k
    <3> HIDE DEF map
    <3>4. Number(map') = Number(map) + 1 /\ Number(map) \in Nat
      BY <2>1, <2>2, <3>1, NumberGrows
    <3>5. c["ObjectArrayDump"] = Number(map) % U32
      BY <1>4 DEF map
    <3>6. d["ObjectArrayDump"] = ((Number(map) % U32) + 1) % U32
      BY <1>1, <1>2, <1>3, <2>3, <3>5
    <3>7. d["ObjectArrayDump"] = Number(map') % U32
      BY <1>0, <3>4, <3>6, CountUp
    <3> QED
      BY <3>7 DEF map
  <2>4. CASE k # "ObjectArrayDump"
    <3>1. map' = map
      BY <2>4 DEF Effect, k
    <3> QED
      BY <1>1, <1>2, <1>3, <1>4, <2>4, <3>1
  <2> QED
    BY <2>3, <2>4
<1>7. d["PrimitiveArrayDump"] = Number(self'.primitive_array_counters) % U32
  <2> DEFINE map == self.primitive_array_counters
  <2>1. IsFiniteSet(DOMAIN map)
    BY KeysFinite DEF ArraysInv, ArrayTypes
  <2>2. \A x \in DOMAIN map : map[x].number \in Nat
    <3>1. \A x : Cardinality(ArraysOf(x)) \in Nat
      BY PlacesFinite DEF ArraysOf, Of
    <3>2. \A x \in DOMAIN map : map[x] = ArrayCounter(ArraysOf(x))
      BY DEF ArraysInv
    <3>3. \A at : ArrayCounter(at).number = Cardinality(at)
      BY DEF ArrayCounter
    <3> QED
      BY <3>1, <3>2, <3>3
  <2>3. CASE k \in PrimitiveArrays
    <3>1. PICK size : map' = add_array(map, r.type, size)
      BY <2>3 DEF Effect, k, PrimitiveArrays
    <3> HIDE DEF map
    <3>4. Number(map') = Number(map) + 1 /\ Number(map) \in Nat
      BY <2>1, <2>2, <3>1, NumberGrows
    <3>5. c["PrimitiveArrayDump"] = Number(map) % U32
      BY <1>4 DEF map
    <3>6. d["PrimitiveArrayDump"] = ((Number(map) % U32) + 1) % U32
      BY <1>1, <1>2, <1>3, <2>3, <3>5
    <3>7. d["PrimitiveArrayDump"] = Number(map') % U32
      BY <1>0, <3>4, <3>6, CountUp
    <3> QED
      BY <3>7 DEF map
  <2>4. CASE k \notin PrimitiveArrays
    <3>1. map' = map
      BY <2>4 DEF Effect, k, PrimitiveArrays
    <3> QED
      BY <1>1, <1>2, <1>3, <1>4, <2>4, <3>1
  <2> QED
    BY <2>3, <2>4
<1>8. d["GcSegment"] = (SumFunctionOnSet(d, SubRecords) + Cardinality(Of(AndroidRecords)')) % U32
  <2> DEFINE S == SubRecords
             sum == SumFunctionOnSet(c, S)
             a == Cardinality(Of(AndroidRecords))
             counts == k \in AndroidRecords
  <2>1. IsFiniteSet(S) /\ \A y \in S : y \in Counters /\ c[y] \in 0..(U32 - 1) /\ c[y] \in Nat
    BY <1>1, SubRecordsFinite
  <2>2. sum \in Nat
    BY <2>1, SetSumType
  <2>3. a \in Nat /\ Cardinality(Of(AndroidRecords)') = a + (IF counts THEN 1 ELSE 0)
    <3>1. Grows(Of(AndroidRecords), Of(AndroidRecords)', counts)
      BY OfGrows DEF k
    <3>2. counts \in BOOLEAN
      OBVIOUS
    <3> HIDE DEF counts
    <3> QED
      BY <3>1, <3>2, PlacesCount
  <2>4. c["GcSegment"] = (sum + a) % U32
    BY <1>4
  <2> HIDE DEF sum, a, S
  <2>5. (((sum + a) % U32) + 1) % U32 = (sum + a + 1) % U32
    <3> DEFINE n == sum + a
    <3>1. n \in Nat
      BY <2>2, <2>3
    <3> HIDE DEF n
    <3>2. ((n % U32) + 1) % U32 = (n + 1) % U32
      BY <1>0, <3>1, CountUp
    <3> QED
      BY <3>2 DEF n
  <2>6. CASE k \in AndroidRecords
    <3>1. \A y \in S : d[y] = c[y]
      <4>1. k \notin SubRecords /\ k # "PrimitiveArrayNoDataDump"
        BY <1>3, <2>6
      <4> QED
        BY <1>1, <1>3, <2>1, <4>1 DEF S
    <3>2. SumFunctionOnSet(d, S) = sum
      BY <2>1, <3>1, SetSumSame DEF sum
    <3>3. d["GcSegment"] = (sum + a + 1) % U32
      BY <1>1, <1>2, <1>3, <2>4, <2>5, <2>6
    <3>4. sum + a + 1 = sum + (a + 1)
      BY <2>2, <2>3
    <3> QED
      BY <2>3, <2>6, <3>2, <3>3, <3>4 DEF S
  <2>7. CASE k \notin AndroidRecords /\ CountedBy(k) \cap S # {}
    <3>1. PICK x \in S : CountedBy(k) \cap S = {x}
      BY <1>3, <2>7 DEF S
    <3>2. "GcSegment" \in CountedBy(k)
      BY <1>3, <2>7 DEF S, PrimitiveArrays
    <3>3. d[x] = (c[x] + 1) % U32 /\ \A y \in S : y # x => d[y] = c[y]
      BY <1>1, <2>1, <3>1
    <3>4. (SumFunctionOnSet(d, S) + a) % U32 = (sum + a + 1) % U32
      BY <2>1, <2>3, <3>3, CountedSum DEF sum
    <3>5. d["GcSegment"] = (sum + a + 1) % U32
      BY <1>1, <1>2, <2>4, <2>5, <3>2
    <3>6. Cardinality(Of(AndroidRecords)') = a
      BY <2>3, <2>7
    <3> QED
      BY <3>4, <3>5, <3>6 DEF S
  <2>8. CASE k \notin AndroidRecords /\ CountedBy(k) \cap S = {}
    <3>1. \A y \in S : d[y] = c[y]
      BY <1>1, <2>1, <2>8
    <3>2. SumFunctionOnSet(d, S) = sum
      BY <2>1, <3>1, SetSumSame DEF sum
    <3>3. "GcSegment" \notin CountedBy(k)
      BY <1>3, <2>8 DEF S, PrimitiveArrays, SubRecords, CountedDumps
    <3>4. d["GcSegment"] = (sum + a) % U32
      BY <1>1, <1>2, <2>4, <3>3
    <3>5. Cardinality(Of(AndroidRecords)') = a
      BY <2>3, <2>8
    <3> QED
      BY <3>2, <3>4, <3>5 DEF S
  <2> QED
    BY <2>6, <2>7, <2>8
<1> QED
  BY <1>5, <1>6, <1>7, <1>8, CountsParts DEF d

\* The sum of noughts.
LEMMA SetSumNoughts ==
  ASSUME NEW S, IsFiniteSet(S), NEW w, \A x \in S : w[x] = 0
  PROVE  SumFunctionOnSet(w, S) = 0
<1> DEFINE N == {n \in Nat : \A s \in SUBSET S : Cardinality(s) = n => SumFunctionOnSet(w, s) = 0}
<1>1. 0 \in N
  <2>1. \A s \in SUBSET S : Cardinality(s) = 0 => s = {}
    BY FS_Subset, FS_EmptySet
  <2> QED
    BY <2>1, SetSumEmpty
<1>2. ASSUME NEW n \in Nat, n \in N PROVE n + 1 \in N
  <2>1. ASSUME NEW s \in SUBSET S, Cardinality(s) = n + 1
        PROVE  SumFunctionOnSet(w, s) = 0
    <3>1. s # {}
      BY <2>1, FS_EmptySet
    <3>2. /\ IsFiniteSet(s) /\ s \ {Some(s)} \in SUBSET S /\ Some(s) \in s
          /\ Cardinality(s \ {Some(s)}) = Cardinality(s) - 1
      BY <3>1, Without
    <3>3. SumFunctionOnSet(w, s \ {Some(s)}) = 0
      BY <1>2, <2>1, <3>2
    <3>4. w[Some(s)] = 0
      BY <3>2
    <3>5. SumFunctionOnSet(w, s) = w[Some(s)] + SumFunctionOnSet(w, s \ {Some(s)})
      BY <3>1, <3>2, SetSumStep
    <3> QED
      BY <3>3, <3>4, <3>5
  <2> QED
    BY <2>1
<1> HIDE DEF N
<1>3. \A n \in Nat : n \in N
  BY <1>1, <1>2, Induction
<1>4. Cardinality(S) \in Nat /\ Cardinality(S) \in N
  BY <1>3, FS_CardinalityType
<1> QED
  BY <1>4 DEF N

\* The maps of a new recorder are empty.
LEMMA InitRecords == Init => TypeOK /\ RecordsInv
<1> SUFFICES ASSUME Init PROVE TypeOK /\ RecordsInv
  OBVIOUS
<1>1. /\ input \in Inputs /\ left = DOMAIN input.file /\ stream = << >> /\ self = NewRecorder
      /\ phase = "recording" /\ unsized = {} /\ walk = NoWalk /\ missing_class_ids = {}
  BY DEF Init
<1>2. input.file \in Seq(Records) /\ U32 \in Nat \ {0} /\ MaxDepth \in Nat \ {0}
  BY <1>1, RecorderAssumption
<1>3. \A K : Of(K) = {}
  BY <1>1 DEF Of
<1>4. /\ DOMAIN self = FieldNames
      /\ self.utf8_strings_by_id = << >> /\ self.class_data = << >>
      /\ self.class_data_by_id = << >> /\ self.class_data_by_serial_number = << >>
      /\ self.classes_single_instance_size_by_id = << >>
      /\ self.classes_all_instance_total_size_by_id = << >>
      /\ self.primitive_array_counters = << >> /\ self.object_array_counters = << >>
      /\ self.stack_trace_by_serial_number = << >> /\ self.stack_frame_by_id = << >>
      /\ self.counters = [x \in Counters |-> 0]
  BY <1>1 DEF NewRecorder, EmptyMap, FieldNames
<1>5. DOMAIN << >> = {}
  OBVIOUS
<1>6. TypeOK
  <2>1. Len(stream) + Cardinality(left) = Len(input.file)
    <3>1. Cardinality(1..Len(input.file)) = Len(input.file) /\ left = 1..Len(input.file) /\ Len(stream) = 0
      BY <1>1, <1>2, NumbersUpTo
    <3> QED
      BY <1>2, <3>1
  <2>2. self.counters \in [Counters -> 0..(U32 - 1)]
    BY <1>2, <1>4
  <2>3. walk \in [class : Nat, calls : Seq(Nat), value : Nat] /\ Len(walk.calls) <= MaxDepth
    BY <1>1, <1>2 DEF NoWalk
  <2>4. unsized \subseteq DOMAIN self.classes_all_instance_total_size_by_id
    BY <1>1
  <2> QED
    BY <1>1, <2>1, <2>2, <2>3, <2>4 DEF TypeOK
<1>7. StreamInv /\ StringsInv
  BY <1>1, <1>3, <1>4, <1>5 DEF StreamInv, StringsInv
<1>8. LoadsInv
  BY <1>3, <1>4, <1>5 DEF LoadsInv
<1>9. FramesInv /\ TracesInv
  BY <1>3, <1>4, <1>5 DEF FramesInv, TracesInv, TraceSerials
<1>10. LayoutsInv /\ InstancesInv
  BY <1>3, <1>4, <1>5 DEF LayoutsInv, InstancesInv, ClassInfo, InstanceClasses
<1>11. ArraysInv
  BY <1>3, <1>4, <1>5 DEF ArraysInv, ArrayClasses, ArrayTypes
<1>12. OriginInv
  BY <1>1 DEF OriginInv
<1>13. CountsAgree
  <2>1. SumFunction(<< >>) = 0
    BY <1>5, SetSumEmpty DEF SumFunction
  <2>2. Number(<< >>) = 0
    <3>1. DOMAIN [k \in DOMAIN << >> |-> << >>[k].number] = {}
      OBVIOUS
    <3> QED
      BY <3>1, SetSumEmpty DEF Number, SumFunction
  <2>3. SumFunctionOnSet(self.counters, SubRecords) = 0
    BY <1>4, SubRecordsFinite, SetSumNoughts
  <2>4. Cardinality(Of(AndroidRecords)) = 0
    BY <1>3, FS_EmptySet
  <2>5. 0 % U32 = 0 /\ 0 + 0 = 0
    BY <1>2
  <2>6. \A x \in {"InstanceDump", "ObjectArrayDump", "PrimitiveArrayDump", "GcSegment"} :
          self.counters[x] = 0
    BY <1>4 DEF Counters
  <2> QED
    BY <1>4, <2>1, <2>2, <2>3, <2>4, <2>5, <2>6, CountsParts
<1> QED
  BY <1>6, <1>7, <1>8, <1>9, <1>10, <1>11, <1>12, <1>13 DEF RecordsInv

\* The rest of the invariant says nothing while records are still to come.
LEMMA RecordingInv ==
  ASSUME phase = "recording", unsized = {}, walk = NoWalk, rows = << >>, missing_class_ids = {}
  PROVE  ControlInv /\ WalkInv /\ CyclesInv /\ RowsInv /\ MissingInv
<1>1. << >> \in Seq(Rows)
  OBVIOUS
<1> QED
  BY <1>1 DEF ControlInv, WalkInv, CyclesInv, RowsInv, MissingInv

\* The invariant holds of the new recorder.
LEMMA InitInv == Init => RecorderInv
  BY InitRecords, RecordingInv DEF RecorderInv, Init

\* A record that is recorded keeps the invariant.
LEMMA RecordStep ==
  ASSUME RecorderInv, RecordNext
  PROVE  RecorderInv'
<1>0. /\ TypeOK /\ StreamInv /\ StringsInv /\ LoadsInv /\ FramesInv /\ TracesInv /\ LayoutsInv
      /\ InstancesInv /\ ArraysInv /\ OriginInv /\ CountsAgree /\ ControlInv /\ MissingInv
  BY DEF RecorderInv, RecordsInv
<1>1. PICK i \in left : Record(i, self') /\ Effect(input.file[i])
  BY <1>0, RecordEffect
<1>2. PICK r : r = input.file[i]
  OBVIOUS
<1>3. Extended(r) /\ Effect(r) /\ r \in Records
  <2>1. Extended(r)
    BY <1>0, <1>1, <1>2, StreamStep
  <2> QED
    BY <1>1, <1>2, <2>1 DEF Extended
<1>4. input.id_size \in {4, 8} /\ input.file \in Seq(Records)
  BY <1>0, RecorderAssumption DEF TypeOK
<1>5. /\ phase = "recording" /\ phase' = phase /\ unsized = {} /\ unsized' = {}
      /\ walk = NoWalk /\ walk' = NoWalk /\ rows' = << >> /\ missing_class_ids' = {}
      /\ left' = left \ {i} /\ input' = input
  BY <1>0, <1>1 DEF Record, ControlInv, MissingInv
<1>6. TypeOK'
  <2>1. Len(stream') + Cardinality(left') = Len(input.file)
    <3>1. IsFiniteSet(left) /\ Cardinality(left) \in Nat
      <4>1. left \in SUBSET (1..Len(input.file)) /\ Len(input.file) \in Nat
        BY <1>0, <1>4 DEF TypeOK
      <4>2. IsFiniteSet(1..Len(input.file))
        BY <4>1, NumbersUpTo
      <4>3. IsFiniteSet(left)
        BY <4>1, <4>2, FS_Subset
      <4> QED
        BY <4>3, FS_CardinalityType
    <3>2. Cardinality(left') = Cardinality(left) - 1
      <4>1. left \in SUBSET left /\ left # {}
        OBVIOUS
      <4>2. \A x \in left : Cardinality(left \ {x}) = Cardinality(left) - 1
        BY <3>1, <4>1, Without, Zenon
      <4> QED
        BY <1>5, <4>2
    <3>3. Len(stream') = Len(stream) + 1 /\ Len(stream) \in Nat
      BY <1>3 DEF Extended
    <3>4. Len(stream) + Cardinality(left) = Len(input.file)
      BY <1>0 DEF TypeOK
    <3> QED
      BY <3>1, <3>2, <3>3, <3>4
  <2>2. self'.counters \in [Counters -> 0..(U32 - 1)]
    BY <1>0, <1>3, CountersStep
  <2>3. DOMAIN self' = DOMAIN NewRecorder
    BY <1>3 DEF Effect
  <2>4. walk' \in [class : Nat, calls : Seq(Nat), value : Nat] /\ Len(walk'.calls) <= MaxDepth
    BY <1>0, <1>5 DEF TypeOK
  <2> QED
    BY <1>0, <1>5, <2>1, <2>2, <2>3, <2>4 DEF TypeOK
<1>7. StreamInv'
  BY <1>3 DEF Extended, StreamInv
<1>8. StringsInv' /\ LoadsInv'
  BY <1>0, <1>3, StringsStep, LoadsStep
<1>9. FramesInv' /\ TracesInv'
  BY <1>0, <1>3, FramesStep, TracesStep
<1>10. LayoutsInv' /\ InstancesInv'
  BY <1>0, <1>3, LayoutsStep, InstancesStep
<1>11. ArraysInv'
  BY <1>0, <1>3, <1>4, ArraysStep
<1>12. OriginInv'
  BY <1>0, <1>1, <1>2, <1>3, OriginStep
<1>13. CountsAgree'
  BY <1>0, <1>3, CountsStep
<1>14. ControlInv' /\ WalkInv' /\ CyclesInv' /\ RowsInv' /\ MissingInv'
  <2>1. << >> \in Seq(Rows)
    OBVIOUS
  <2> QED
    BY <1>5, <2>1 DEF ControlInv, WalkInv, CyclesInv, RowsInv, MissingInv
<1> QED
  BY <1>6, <1>7, <1>8, <1>9, <1>10, <1>11, <1>12, <1>13, <1>14 DEF RecorderInv, RecordsInv
=============================================================================
