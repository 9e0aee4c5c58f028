----------------------------- MODULE QueueLemmas -----------------------------
(* Facts about sequences used as first-in first-out queues.                *)
EXTENDS Integers, Sequences, FiniteSets, Functions, FiniteSetTheorems, TLAPS

\* No element occurs twice.
Distinct(q) == \A i, j \in 1..Len(q) : q[i] = q[j] => i = j

-----------------------------------------------------------------------------

\* The range of a sequence is the set of its elements.
LEMMA RangeIsElements ==
    ASSUME NEW S, NEW q \in Seq(S)
    PROVE  /\ Range(q) = {q[i] : i \in 1..Len(q)}
           /\ Range(q) \subseteq S
           /\ (q = <<>>) <=> (Range(q) = {})
<1>1. DOMAIN q = 1..Len(q) /\ Len(q) \in Nat
  OBVIOUS
<1>2. Range(q) = {q[i] : i \in 1..Len(q)}
  BY <1>1 DEF Range
<1>3. \A i \in 1..Len(q) : q[i] \in S
  OBVIOUS
<1>4. Range(q) \subseteq S
  BY <1>2, <1>3
<1>5. q = <<>> => Range(q) = {}
  BY <1>2
<1>6. ASSUME q # <<>> PROVE Range(q) # {}
  <2>1. 1 \in 1..Len(q)
    BY <1>6, <1>1
  <2>2. q[1] \in Range(q)
    BY <2>1, <1>2
  <2> QED BY <2>2
<1> QED BY <1>2, <1>4, <1>5, <1>6

\* Inserting at the tail (insert_list_last) adds one element, and keeps a
\* queue without repetition so when the element is new.
LEMMA AppendQueue ==
    ASSUME NEW S, NEW q \in Seq(S), NEW x \in S
    PROVE  /\ Append(q, x) \in Seq(S)
           /\ Append(q, x) # <<>>
           /\ Len(Append(q, x)) = Len(q) + 1
           /\ Range(Append(q, x)) = Range(q) \cup {x}
           /\ Distinct(q) /\ x \notin Range(q) => Distinct(Append(q, x))
<1> DEFINE a == Append(q, x)
<1>1. a \in Seq(S) /\ Len(a) = Len(q) + 1 /\ Len(q) \in Nat
  OBVIOUS
<1>2. \A i \in 1..Len(a) : a[i] = IF i = Len(q) + 1 THEN x ELSE q[i]
  OBVIOUS
<1>3. Range(a) = {a[i] : i \in 1..Len(a)} /\ Range(q) = {q[i] : i \in 1..Len(q)}
  BY <1>1, RangeIsElements
<1>4. Range(a) = Range(q) \cup {x}
  <2>1. ASSUME NEW e \in Range(a) PROVE e \in Range(q) \cup {x}
    <3>1. PICK i \in 1..Len(a) : e = a[i]
      BY <1>3
    <3>2. i = Len(q) + 1 \/ i \in 1..Len(q)
      BY <1>1
    <3> QED BY <3>1, <3>2, <1>1, <1>2, <1>3
  <2>2. ASSUME NEW e \in Range(q) PROVE e \in Range(a)
    <3>1. PICK i \in 1..Len(q) : e = q[i]
      BY <1>3
    <3>2. i \in 1..Len(a) /\ a[i] = q[i]
      BY <1>1, <1>2
    <3> QED BY <3>1, <3>2, <1>3
  <2>3. x \in Range(a)
    <3>1. Len(q) + 1 \in 1..Len(a) /\ a[Len(q) + 1] = x
      BY <1>1, <1>2
    <3> QED BY <3>1, <1>3
  <2> QED BY <2>1, <2>2, <2>3
<1>5. ASSUME Distinct(q), x \notin Range(q) PROVE Distinct(a)
  <2>1. ASSUME NEW i \in 1..Len(a), NEW j \in 1..Len(a), a[i] = a[j]
        PROVE  i = j
    <3>1. \A k \in 1..Len(q) : q[k] # x
      BY <1>5, <1>3
    <3>2. CASE i = Len(q) + 1 /\ j # Len(q) + 1
      BY <3>2, <3>1, <2>1, <1>1, <1>2
    <3>3. CASE j = Len(q) + 1 /\ i # Len(q) + 1
      BY <3>3, <3>1, <2>1, <1>1, <1>2
    <3>4. CASE i # Len(q) + 1 /\ j # Len(q) + 1
      BY <3>4, <1>5, <2>1, <1>1, <1>2 DEF Distinct
    <3> QED BY <3>2, <3>3, <3>4
  <2> QED BY <2>1 DEF Distinct
<1>6. a # <<>>
  BY <1>1
<1> QED BY <1>1, <1>4, <1>5, <1>6

\* Removing at the head (remove_list_first) takes out exactly the head.
LEMMA TailQueue ==
    ASSUME NEW S, NEW q \in Seq(S), q # <<>>
    PROVE  /\ Head(q) \in S /\ Head(q) \in Range(q)
           /\ Tail(q) \in Seq(S)
           /\ Len(Tail(q)) = Len(q) - 1 /\ Len(q) > 0
           /\ Range(q) = Range(Tail(q)) \cup {Head(q)}
           /\ Distinct(q) => /\ Distinct(Tail(q))
                             /\ Head(q) \notin Range(Tail(q))
<1> DEFINE r == Tail(q)
<1>1. r \in Seq(S) /\ Len(r) = Len(q) - 1 /\ Len(q) \in Nat /\ Len(q) > 0
  OBVIOUS
<1>2. \A i \in 1..Len(r) : r[i] = q[i + 1]
  OBVIOUS
<1>3. Head(q) = q[1] /\ Head(q) \in S
  OBVIOUS
<1>4. Range(r) = {r[i] : i \in 1..Len(r)} /\ Range(q) = {q[i] : i \in 1..Len(q)}
  BY <1>1, RangeIsElements
<1>5. Head(q) \in Range(q)
  <2>1. 1 \in 1..Len(q)
    BY <1>1
  <2> QED BY <2>1, <1>3, <1>4
<1>6. Range(q) = Range(r) \cup {Head(q)}
  <2>1. ASSUME NEW e \in Range(q) PROVE e \in Range(r) \cup {Head(q)}
    <3>1. PICK i \in 1..Len(q) : e = q[i]
      BY <1>4
    <3>2. CASE i = 1
      BY <3>1, <3>2, <1>3
    <3>3. CASE i # 1
      <4>1. i - 1 \in 1..Len(r) /\ r[i - 1] = q[i]
        BY <3>3, <1>1, <1>2
      <4> QED BY <4>1, <3>1, <1>4
    <3> QED BY <3>2, <3>3
  <2>2. ASSUME NEW e \in Range(r) PROVE e \in Range(q)
    <3>1. PICK i \in 1..Len(r) : e = r[i]
      BY <1>4
    <3>2. i + 1 \in 1..Len(q) /\ q[i + 1] = r[i]
      BY <1>1, <1>2
    <3> QED BY <3>1, <3>2, <1>4
  <2> QED BY <2>1, <2>2, <1>5
<1>7. ASSUME Distinct(q) PROVE Distinct(r) /\ Head(q) \notin Range(r)
  <2>1. Distinct(r)
    <3>1. ASSUME NEW i \in 1..Len(r), NEW j \in 1..Len(r), r[i] = r[j]
          PROVE  i = j
      <4>1. i + 1 \in 1..Len(q) /\ j + 1 \in 1..Len(q) /\ q[i + 1] = q[j + 1]
        BY <1>1, <1>2, <3>1
      <4>2. i + 1 = j + 1
        BY <4>1, <1>7 DEF Distinct
      <4> QED BY <4>2
    <3> QED BY <3>1 DEF Distinct
  <2>2. ASSUME Head(q) \in Range(r) PROVE FALSE
    <3>1. PICK i \in 1..Len(r) : r[i] = Head(q)
      BY <2>2, <1>4
    <3>2. i + 1 \in 1..Len(q) /\ 1 \in 1..Len(q) /\ q[i + 1] = q[1]
      BY <3>1, <1>1, <1>2, <1>3
    <3>3. i + 1 = 1
      BY <3>2, <1>7 DEF Distinct
    <3> QED BY <3>3, <1>1
  <2> QED BY <2>1, <2>2
<1> QED BY <1>1, <1>3, <1>5, <1>6, <1>7

\* The empty queue.
LEMMA EmptyQueue ==
    ASSUME NEW S
    PROVE  <<>> \in Seq(S) /\ Distinct(<<>>) /\ Range(<<>>) = {}
<1>1. <<>> \in Seq(S) /\ Len(<<>>) = 0
  OBVIOUS
<1>2. Range(<<>>) = {}
  BY <1>1, RangeIsElements
<1> QED BY <1>1, <1>2 DEF Distinct

\* A queue without repetition is no longer than the set of what it can hold.
LEMMA DistinctFits ==
    ASSUME NEW S, IsFiniteSet(S), NEW q \in Seq(S), Distinct(q)
    PROVE  Len(q) <= Cardinality(S)
<1>1. Len(q) \in Nat /\ q \in [1..Len(q) -> S]
  OBVIOUS
<1>2. IsFiniteSet(1..Len(q)) /\ Cardinality(1..Len(q)) = Len(q)
  BY <1>1, FS_Interval
<1>3. Cardinality(S) \in Nat
  BY FS_CardinalityType
<1>4. ASSUME Cardinality(S) < Len(q) PROVE FALSE
  <2>1. \E i, j \in 1..Len(q) : i # j /\ q[i] = q[j]
    BY <1>1, <1>2, <1>4, FS_PigeonHole
  <2> QED BY <2>1 DEF Distinct
<1> QED BY <1>1, <1>3, <1>4

\* A queue without repetition has as many elements as it is long.
LEMMA DistinctCounts ==
    ASSUME NEW S, NEW q \in Seq(S), Distinct(q)
    PROVE  /\ Range(q) = {q[i] : i \in 1..Len(q)}
           /\ Cardinality({q[i] : i \in 1..Len(q)}) = Len(q)
<1> DEFINE R == {q[i] : i \in 1..Len(q)}
<1>1. Len(q) \in Nat /\ q \in [1..Len(q) -> R]
  OBVIOUS
<1>2. q \in Bijection(1..Len(q), R)
  BY <1>1 DEF Distinct, Bijection, Injection, Surjection, IsInjective
<1>3. IsFiniteSet(1..Len(q)) /\ Cardinality(1..Len(q)) = Len(q)
  BY <1>1, FS_Interval
<1>4. Cardinality(R) = Len(q)
  BY <1>2, <1>3, FS_Bijection DEF ExistsBijection
<1> QED BY <1>4, RangeIsElements
=============================================================================
