-------------------------- MODULE SequenceElements --------------------------
(***************************************************************************)
(* Lemmas that the proofs share: induction over the natural numbers, stated *)
(* with a set in place of a predicate, and what a push at either end and a *)
(* pop do to the elements of a sequence.                                   *)
(***************************************************************************)
EXTENDS Integers, Sequences, SequencesExt, TLAPS, SequenceTheorems, FiniteSetTheorems,
        WellFoundedInduction

LEMMA NatLess ==
  \E R : IsWellFoundedOn(R, Nat) /\ \A m, n \in Nat : <<m, n>> \in R <=> m < n
<1> DEFINE R == OpToRel(<, Nat)
<1>1. \A m, n \in Nat : <<m, n>> \in R <=> m < n
  BY DEF OpToRel
<1> QED BY <1>1, NatLessThanWellFounded

\* Every set of natural numbers that is not empty has a least element.
LEMMA NatMinimum ==
  ASSUME NEW T \in SUBSET Nat, T # {}
  PROVE  \E n \in T : \A m \in T : n <= m
<1>1. PICK R : IsWellFoundedOn(R, Nat) /\ \A m, n \in Nat : <<m, n>> \in R <=> m < n
  BY NatLess
<1>2. T \subseteq Nat
  OBVIOUS
<1>3. PICK n \in T : \A m \in T : <<m, n>> \notin R
  <2>1. IsWellFoundedOn(R, Nat)
    BY <1>1
  <2> QED BY <2>1, <1>2, WFMin
<1>4. ASSUME NEW m \in T PROVE n <= m
  <2>1. m \in Nat /\ n \in Nat
    BY <1>2
  <2>2. ~(m < n)
    BY <1>1, <1>3, <2>1
  <2> QED BY <2>1, <2>2
<1> QED BY <1>4

\* Induction: T is the set of numbers for which the statement is true.
LEMMA NatSetInduction ==
  ASSUME NEW T, 0 \in T, \A n \in Nat : n \in T => n + 1 \in T
  PROVE  Nat \subseteq T
<1> SUFFICES ASSUME Nat \ T # {} PROVE FALSE
  OBVIOUS
<1>1. PICK n \in Nat \ T : \A m \in Nat \ T : n <= m
  BY NatMinimum
<1>2. n - 1 \in Nat /\ n - 1 \notin Nat \ T
  BY <1>1
<1> QED BY <1>1, <1>2

Elems(s) == {s[i] : i \in 1..Len(s)}
Distinct(s) == \A i, j \in 1..Len(s) : s[i] = s[j] => i = j

\* Appending adds one element.
LEMMA ElemsAppend ==
  ASSUME NEW S, NEW s \in Seq(S), NEW x \in S
  PROVE  /\ Append(s, x) \in Seq(S)
         /\ Elems(Append(s, x)) = Elems(s) \cup {x}
         /\ x \notin Elems(s) /\ Distinct(s) => Distinct(Append(s, x))
<1>1. /\ Append(s, x) \in Seq(S)
      /\ Len(Append(s, x)) = Len(s) + 1
      /\ \A i \in 1..Len(s) : Append(s, x)[i] = s[i]
      /\ Append(s, x)[Len(s) + 1] = x
  BY AppendProperties
<1>2. Len(s) \in Nat
  BY LenProperties
<1>3. Elems(Append(s, x)) = Elems(s) \cup {x}
  BY <1>1, <1>2 DEF Elems
<1>4. x \notin Elems(s) /\ Distinct(s) => Distinct(Append(s, x))
  BY <1>1, <1>2 DEF Elems, Distinct
<1> QED BY <1>1, <1>3, <1>4

\* The tail has every element but the head.
LEMMA ElemsTail ==
  ASSUME NEW S, NEW s \in Seq(S), s # <<>>
  PROVE  /\ Tail(s) \in Seq(S)
         /\ Head(s) \in S
         /\ Head(s) = s[1] /\ 1 \in 1..Len(s)
         /\ Len(Tail(s)) = Len(s) - 1
         /\ \A i \in 1..Len(Tail(s)) : Tail(s)[i] = s[i + 1] /\ i + 1 \in 1..Len(s)
         /\ Elems(s) = Elems(Tail(s)) \cup {Head(s)}
         /\ Distinct(s) => Distinct(Tail(s)) /\ Head(s) \notin Elems(Tail(s))
<1>1. /\ Len(s) \in Nat \ {0}
      /\ Head(s) = s[1] /\ Head(s) \in S
      /\ Tail(s) \in Seq(S) /\ Len(Tail(s)) = Len(s) - 1
      /\ \A i \in 1..Len(Tail(s)) : Tail(s)[i] = s[i + 1]
  BY HeadTailProperties, LenProperties, EmptySeq
<1>2. \A i \in 1..Len(s) : i = 1 \/ (i - 1 \in 1..Len(Tail(s)) /\ s[i] = Tail(s)[i - 1])
  BY <1>1
<1>3. Elems(s) = Elems(Tail(s)) \cup {Head(s)}
  <2>1. ASSUME NEW i \in 1..Len(s) PROVE s[i] \in Elems(Tail(s)) \cup {Head(s)}
    BY <1>1, <1>2 DEF Elems
  <2>2. Elems(Tail(s)) \cup {Head(s)} \subseteq Elems(s)
    BY <1>1 DEF Elems
  <2> QED BY <2>1, <2>2 DEF Elems
<1>4. Distinct(s) => Distinct(Tail(s)) /\ Head(s) \notin Elems(Tail(s))
  BY <1>1 DEF Elems, Distinct
<1> QED BY <1>1, <1>3, <1>4

\* Pushing at the front adds one element.
LEMMA ElemsCons ==
  ASSUME NEW S, NEW s \in Seq(S), NEW x \in S
  PROVE  /\ <<x>> \o s \in Seq(S)
         /\ Len(<<x>> \o s) = Len(s) + 1
         /\ Elems(<<x>> \o s) = Elems(s) \cup {x}
         /\ x \notin Elems(s) /\ Distinct(s) => Distinct(<<x>> \o s)
<1> DEFINE t == <<x>> \o s
<1>1. <<x>> \in Seq(S) /\ Len(<<x>>) = 1 /\ <<x>>[1] = x
  OBVIOUS
<1>2. /\ t \in Seq(S) /\ Len(t) = Len(s) + 1 /\ Len(s) \in Nat
      /\ t[1] = x
      /\ \A i \in 1..Len(s) : t[i + 1] = s[i] /\ i + 1 \in 1..Len(t)
      /\ \A i \in 1..Len(t) : i = 1 \/ (i - 1 \in 1..Len(s) /\ t[i] = s[i - 1])
  BY <1>1, ConcatProperties, LenProperties
<1> HIDE DEF t
<1>3. Elems(t) = Elems(s) \cup {x}
  <2>1. ASSUME NEW i \in 1..Len(t) PROVE t[i] \in Elems(s) \cup {x}
    BY <1>2 DEF Elems
  <2>2. Elems(s) \cup {x} \subseteq Elems(t)
    BY <1>2 DEF Elems
  <2> QED BY <2>1, <2>2 DEF Elems
<1>4. ASSUME x \notin Elems(s), Distinct(s) PROVE Distinct(t)
  <2> SUFFICES ASSUME NEW i \in 1..Len(t), NEW j \in 1..Len(t), t[i] = t[j] PROVE i = j
    BY DEF Distinct
  <2>1. \A k \in 1..Len(s) : s[k] # x
    BY <1>4 DEF Elems
  <2>2. i # 1 /\ j # 1 => i - 1 = j - 1
    BY <1>2, <1>4 DEF Distinct
  <2> QED BY <1>2, <2>1, <2>2
<1> QED BY <1>2, <1>3, <1>4 DEF t

\* The sequences that SetToSeqs makes of a set hold each of its elements once.
LEMMA BatchElems ==
  ASSUME NEW S, IsFiniteSet(S), NEW s \in SetToSeqs(S)
  PROVE  s \in Seq(S) /\ Distinct(s) /\ Elems(s) = S
<1> DEFINE D == 1..Cardinality(S)
<1>1. Cardinality(S) \in Nat
  BY FS_CardinalityType
<1>2. s \in [D -> S] /\ \A i, j \in D : i # j => s[i] # s[j]
  BY DEF SetToSeqs
<1>3. s \in Seq(S) /\ Len(s) = Cardinality(S)
  BY <1>1, <1>2
<1>4. Distinct(s)
  BY <1>2, <1>3 DEF Distinct
<1>5. s \in Injection(D, S)
  BY <1>2 DEF Injection, IsInjective
<1>6. Cardinality(D) = Cardinality(S) /\ IsFiniteSet(D)
  BY <1>1, FS_Interval
<1>7. s \in Surjection(D, S)
  BY <1>5, <1>6, FS_Injection
<1>8. Elems(s) = S
  BY <1>2, <1>3, <1>7 DEF Elems, Surjection
<1> QED BY <1>3, <1>4, <1>8
\* A sequence without repetition is as long as it has elements.
LEMMA DistinctCount ==
  ASSUME NEW S, NEW s \in Seq(S), Distinct(s)
  PROVE  IsFiniteSet(Elems(s)) /\ Cardinality(Elems(s)) = Len(s)
<1> DEFINE D == 1..Len(s)
<1>1. Len(s) \in Nat /\ s \in [D -> S]
  BY LenProperties
<1>2. s \in [D -> Elems(s)]
  BY <1>1 DEF Elems
<1>3. s \in Injection(D, Elems(s)) /\ s \in Surjection(D, Elems(s))
  BY <1>2 DEF Elems, Distinct, Injection, IsInjective, Surjection
<1>4. IsFiniteSet(D) /\ Cardinality(D) = Len(s)
  BY <1>1, FS_Interval
<1> QED BY <1>3, <1>4, FS_Surjection

\* s with x put in at place k, and s without its place k.
Inserted(s, k, x) ==
  [j \in 1..Len(s) + 1 |-> IF j < k THEN s[j] ELSE IF j = k THEN x ELSE s[j - 1]]
Removed(s, k) == [j \in 1..Len(s) - 1 |-> IF j < k THEN s[j] ELSE s[j + 1]]

LEMMA ElemsInserted ==
  ASSUME NEW S, NEW s \in Seq(S), NEW k \in 1..Len(s) + 1, NEW x \in S
  PROVE  /\ Inserted(s, k, x) \in Seq(S)
         /\ Len(Inserted(s, k, x)) = Len(s) + 1
         /\ Elems(Inserted(s, k, x)) = Elems(s) \cup {x}
         /\ x \notin Elems(s) /\ Distinct(s) => Distinct(Inserted(s, k, x))
<1> DEFINE t == Inserted(s, k, x)
<1>1. Len(s) \in Nat /\ \A j \in 1..Len(s) : s[j] \in S
  BY LenProperties, ElementOfSeq
<1>2. \A j \in 1..Len(s) + 1 :
        t[j] = IF j < k THEN s[j] ELSE IF j = k THEN x ELSE s[j - 1]
  BY DEF Inserted
<1>3. t \in [1..Len(s) + 1 -> S]
  BY <1>1 DEF Inserted
<1>4. t \in Seq(S) /\ Len(t) = Len(s) + 1
  BY <1>1, <1>3
<1> HIDE DEF t
<1>5. Elems(t) = Elems(s) \cup {x}
  <2>1. ASSUME NEW j \in 1..Len(t) PROVE t[j] \in Elems(s) \cup {x}
    <3>1. j < k \/ j = k \/ j - 1 \in 1..Len(s)
      BY <1>1, <1>4
    <3>2. j < k => j \in 1..Len(s)
      BY <1>1, <1>4
    <3> QED BY <1>1, <1>2, <1>4, <3>1, <3>2 DEF Elems
  <2>2. ASSUME NEW j \in 1..Len(s) PROVE s[j] \in Elems(t)
    <3>1. CASE j < k
      BY <1>1, <1>2, <1>4, <3>1 DEF Elems
    <3>2. CASE ~(j < k)
      <4>1. j + 1 \in 1..Len(t) /\ t[j + 1] = s[j]
        BY <1>1, <1>2, <1>4, <3>2
      <4> QED BY <4>1 DEF Elems
    <3> QED BY <3>1, <3>2
  <2>3. x \in Elems(t)
    BY <1>1, <1>2, <1>4 DEF Elems
  <2> QED BY <2>1, <2>2, <2>3 DEF Elems
<1>6. ASSUME x \notin Elems(s), Distinct(s) PROVE Distinct(t)
  <2> SUFFICES ASSUME NEW i \in 1..Len(t), NEW j \in 1..Len(t), t[i] = t[j], i < j
               PROVE  FALSE
    BY <1>1, <1>4 DEF Distinct
  <2>1. \A l \in 1..Len(s) : s[l] # x
    BY <1>6 DEF Elems
  <2>2. \A l, m \in 1..Len(s) : s[l] = s[m] => l = m
    BY <1>6 DEF Distinct
  <2>3. CASE j < k
    BY <1>1, <1>2, <1>4, <2>2, <2>3
  <2>4. CASE j = k
    BY <1>1, <1>2, <1>4, <2>1, <2>4
  <2>5. CASE j > k
    <3>1. j - 1 \in 1..Len(s) /\ t[j] = s[j - 1]
      BY <1>1, <1>2, <1>4, <2>5
    <3>2. i < k => i \in 1..Len(s) /\ t[i] = s[i] /\ i # j - 1
      BY <1>1, <1>2, <1>4, <2>5
    <3>3. i > k => i - 1 \in 1..Len(s) /\ t[i] = s[i - 1] /\ i - 1 # j - 1
      BY <1>1, <1>2, <1>4
    <3>4. i = k => t[i] = x
      BY <1>1, <1>2, <1>4
    <3> QED BY <1>4, <2>1, <2>2, <3>1, <3>2, <3>3, <3>4
  <2> QED BY <1>1, <2>3, <2>4, <2>5
<1> QED BY <1>4, <1>5, <1>6 DEF t

LEMMA ElemsRemoved ==
  ASSUME NEW S, NEW s \in Seq(S), Distinct(s), NEW k \in 1..Len(s)
  PROVE  /\ Removed(s, k) \in Seq(S)
         /\ Len(Removed(s, k)) = Len(s) - 1
         /\ Elems(Removed(s, k)) = Elems(s) \ {s[k]}
         /\ Distinct(Removed(s, k))
<1> DEFINE t == Removed(s, k)
<1>1. /\ Len(s) \in Nat /\ \A j \in 1..Len(s) : s[j] \in S
      /\ \A l, m \in 1..Len(s) : s[l] = s[m] => l = m
  BY LenProperties, ElementOfSeq DEF Distinct
<1>2. \A j \in 1..Len(s) - 1 : t[j] = IF j < k THEN s[j] ELSE s[j + 1]
  BY DEF Removed
<1>3. t \in [1..Len(s) - 1 -> S]
  BY <1>1 DEF Removed
<1>4. t \in Seq(S) /\ Len(t) = Len(s) - 1
  BY <1>1, <1>3
<1> HIDE DEF t
<1>5. Elems(t) = Elems(s) \ {s[k]}
  <2>1. ASSUME NEW j \in 1..Len(t) PROVE t[j] \in Elems(s) \ {s[k]}
    BY <1>1, <1>2, <1>4 DEF Elems
  <2>2. ASSUME NEW j \in 1..Len(s), j # k PROVE s[j] \in Elems(t)
    <3>1. CASE j < k
      BY <1>1, <1>2, <1>4, <3>1 DEF Elems
    <3>2. CASE j > k
      <4>1. j - 1 \in 1..Len(t) /\ t[j - 1] = s[j]
        BY <1>1, <1>2, <1>4, <3>2
      <4> QED BY <4>1 DEF Elems
    <3> QED BY <1>1, <2>2, <3>1, <3>2
  <2> QED BY <2>1, <2>2 DEF Elems
<1>6. Distinct(t)
  BY <1>1, <1>2, <1>4 DEF Distinct
<1> QED BY <1>4, <1>5, <1>6 DEF t
=============================================================================
