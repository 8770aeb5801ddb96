------------------------- MODULE AddressBookProofs --------------------------
(***************************************************************************)
(* The address book keeps a sorted, doubly linked list, for any number of  *)
(* nodes and any names.  The proof names the list: a sequence of nodes     *)
(* along which `next' and `prev' lead, so that what a loop sees and what   *)
(* an insertion or a deletion does can be said of sequences.               *)
(***************************************************************************)
EXTENDS AddressBook, SequenceElements

Pointers == Nodes \cup {Null, Raw}
Heap == [front : Pointers, prev : [Nodes -> Pointers], next : [Nodes -> Pointers],
         name : [Nodes -> Names], live : SUBSET Nodes, wild : BOOLEAN]

\* What malloc left in a first node's links stays at the ends of the list, and only
\* a node that is alone lacks both links.
EndLinks(b, s) ==
  /\ b.prev[s[1]] \in {Null, Raw} /\ b.next[s[Len(s)]] \in {Null, Raw}
  /\ b.prev[s[1]] = Raw /\ b.next[s[Len(s)]] = Raw => Len(s) = 1

Follows(b, m, n) == b.next[m] = n /\ b.prev[n] = m /\ b.name[m] <= b.name[n]

\* The book's list is s.  When an unassigned link has been followed, the node that
\* was being inserted is not linked.
IsList(b, s) ==
  /\ b \in Heap /\ s \in Seq(Nodes) /\ Distinct(s) /\ Elems(s) \subseteq b.live
  /\ b.front = IF s = <<>> THEN Null ELSE s[1]
  /\ \A k \in 1..Len(s) - 1 : Follows(b, s[k], s[k + 1])
  /\ s # <<>> => EndLinks(b, s)
  /\ ~b.wild => b.live = Elems(s)

End(b, s) == IF s = <<>> THEN Null ELSE b.next[s[Len(s)]]

-----------------------------------------------------------------------------
(* Loops over the list.                                                    *)

LEMMA ListBasics ==
  ASSUME NEW b, NEW s, IsList(b, s)
  PROVE  /\ Len(s) \in Nat /\ \A k \in 1..Len(s) : s[k] \in Nodes
         /\ s # <<>> <=> Len(s) > 0
         /\ End(b, s) \in {Null, Raw}
         /\ IsFiniteSet(b.live) /\ Cardinality(Nodes) \in Nat
         /\ Len(s) = Cardinality(Elems(s)) /\ Len(s) <= Cardinality(Nodes)
<1>1. s \in Seq(Nodes) /\ Distinct(s) /\ Elems(s) \subseteq Nodes /\ b.live \subseteq Nodes
  BY DEF IsList, Heap
<1>2. Len(s) \in Nat /\ \A k \in 1..Len(s) : s[k] \in Nodes
  BY <1>1, LenProperties, ElementOfSeq
<1>3. s # <<>> <=> Len(s) > 0
  BY <1>1, EmptySeq
<1>4. End(b, s) \in {Null, Raw}
  BY <1>2 DEF IsList, End, EndLinks
<1>5. IsFiniteSet(b.live) /\ Cardinality(Nodes) \in Nat
  BY <1>1, NodesAssumption, FS_Subset, FS_CardinalityType
<1>6. Len(s) = Cardinality(Elems(s))
  BY <1>1, DistinctCount
<1>7. Cardinality(Elems(s)) <= Cardinality(Nodes)
  BY <1>1, NodesAssumption, FS_Subset
<1> QED BY <1>2, <1>3, <1>4, <1>5, <1>6, <1>7

\* Walk sees the nodes in order, then the end of the list.
LEMMA WalkIs ==
  ASSUME NEW b, NEW s, IsList(b, s)
  PROVE  Walk(b) = [k \in 0..Cardinality(Nodes) |-> IF k < Len(s) THEN s[k + 1] ELSE End(b, s)]
<1> DEFINE D == 0..Cardinality(Nodes)
           Steps(w) == [i \in D |-> IF i = 0 THEN b.front
                                    ELSE IF w[i - 1] \in Nodes THEN b.next[w[i - 1]] ELSE w[i - 1]]
           W == [k \in D |-> IF k < Len(s) THEN s[k + 1] ELSE End(b, s)]
<1>1. /\ Len(s) \in Nat /\ \A k \in 1..Len(s) : s[k] \in Nodes
      /\ End(b, s) \notin Nodes /\ Cardinality(Nodes) \in Nat
      /\ s # <<>> <=> Len(s) > 0
  BY ListBasics, NodesAssumption
<1>2. ASSUME NEW i \in D
      PROVE  W[i] = IF i = 0 THEN b.front
                    ELSE IF W[i - 1] \in Nodes THEN b.next[W[i - 1]] ELSE W[i - 1]
  <2>1. CASE i = 0
    BY <1>1, <2>1 DEF IsList, End
  <2>2. CASE i # 0
    <3>1. i - 1 \in D /\ i \in Nat /\ i > 0
      BY <1>1, <2>2
    <3>2. CASE i < Len(s)
      <4>1. W[i - 1] = s[i] /\ W[i] = s[i + 1] /\ i \in 1..Len(s) - 1 /\ i \in 1..Len(s)
        BY <1>1, <3>1, <3>2
      <4>2. b.next[s[i]] = s[i + 1]
        BY <4>1 DEF IsList, Follows
      <4> QED BY <1>1, <2>2, <4>1, <4>2
    <3>3. CASE i = Len(s)
      <4>1. W[i - 1] = s[i] /\ W[i] = End(b, s) /\ i \in 1..Len(s)
        BY <1>1, <3>1, <3>3
      <4>2. End(b, s) = b.next[s[i]]
        BY <1>1, <3>1, <3>3 DEF End
      <4> QED BY <1>1, <2>2, <4>1, <4>2
    <3>4. CASE i > Len(s)
      <4>1. W[i - 1] = End(b, s) /\ W[i] = End(b, s)
        BY <1>1, <3>1, <3>4
      <4> QED BY <1>1, <2>2, <4>1
    <3> QED BY <1>1, <3>1, <3>2, <3>3, <3>4
  <2> QED BY <2>1, <2>2
<1>3. W = Steps(W)
  BY <1>2
<1>4. Walk(b) = Steps(Walk(b))
  <2>1. Walk(b) = CHOOSE w : w = Steps(w)
    BY DEF Walk
  <2> HIDE DEF W, Steps
  <2> QED BY <1>3, <2>1
<1>5. \A n \in Nat : n \in D => Walk(b)[n] = W[n]
  <2> DEFINE T == {n \in Nat : n \in D => Walk(b)[n] = W[n]}
  <2>1. 0 \in T
    <3>1. 0 \in D
      BY <1>1
    <3>2. Walk(b)[0] = b.front
      BY <1>4, <3>1
    <3> QED BY <1>2, <3>1, <3>2
  <2>2. ASSUME NEW n \in Nat, n \in T PROVE n + 1 \in T
    <3> SUFFICES ASSUME n + 1 \in D PROVE Walk(b)[n + 1] = W[n + 1]
      OBVIOUS
    <3>1. n \in D /\ (n + 1) - 1 = n /\ n + 1 # 0
      BY <1>1
    <3>2. Walk(b)[n] = W[n]
      BY <2>2, <3>1
    <3> HIDE DEF W
    <3>3. Walk(b)[n + 1] = IF W[n] \in Nodes THEN b.next[W[n]] ELSE W[n]
      BY <1>4, <3>1, <3>2
    <3>4. W[n + 1] = IF W[n] \in Nodes THEN b.next[W[n]] ELSE W[n]
      BY <1>2, <3>1
    <3> QED BY <3>3, <3>4
  <2> HIDE DEF T
  <2>3. Nat \subseteq T
    BY <2>1, <2>2, NatSetInduction
  <2> QED BY <2>3 DEF T
<1>6. Walk(b) = [k \in D |-> Walk(b)[k]]
  BY <1>4
<1> HIDE DEF Steps
<1>7. D \subseteq Nat
  BY <1>1
<1> QED BY <1>5, <1>6, <1>7

\* A search stops at the first node that is looked for, or at the end.
LEMMA FindIs ==
  ASSUME NEW b, NEW s, IsList(b, s), NEW S, S \subseteq Nodes
  PROVE  \/ \E k \in 1..Len(s) : /\ s[k] \in S /\ \A j \in 1..k - 1 : s[j] \notin S
                                 /\ Find(b, S) = s[k]
         \/ (\A k \in 1..Len(s) : s[k] \notin S) /\ Find(b, S) = End(b, s)
<1> DEFINE D == 0..Cardinality(Nodes)
           w == Walk(b)
           I == {i \in DOMAIN w : w[i] \in S \/ w[i] \notin Nodes}
<1>1. /\ Len(s) \in Nat /\ \A k \in 1..Len(s) : s[k] \in Nodes
      /\ End(b, s) \notin Nodes /\ Cardinality(Nodes) \in Nat /\ Len(s) <= Cardinality(Nodes)
  BY ListBasics, NodesAssumption
<1>2. w = [k \in D |-> IF k < Len(s) THEN s[k + 1] ELSE End(b, s)]
  BY WalkIs
<1>3. DOMAIN w = D /\ \A k \in D : w[k] = IF k < Len(s) THEN s[k + 1] ELSE End(b, s)
  BY <1>2
<1>4. Find(b, S) = w[Min(I)]
  BY DEF Find
<1> HIDE DEF w
<1>5. I \subseteq Nat /\ Len(s) \in I
  BY <1>1, <1>3
<1>6. Min(I) \in I /\ \A i \in I : Min(I) <= i
  <2>1. Min(I) = CHOOSE x \in I : \A y \in I : x <= y
    BY DEF Min
  <2>2. I \in SUBSET Nat /\ I # {}
    BY <1>5
  <2> HIDE DEF I
  <2> QED BY <2>1, <2>2, NatMinimum
<1> DEFINE m == Min(I)
<1>7. m \in D /\ m \in Nat /\ m <= Len(s) /\ (w[m] \in S \/ w[m] \notin Nodes)
  BY <1>3, <1>5, <1>6
<1>8. \A j \in 1..m : s[j] \notin S
  <2> SUFFICES ASSUME NEW j \in 1..m, s[j] \in S PROVE FALSE
    OBVIOUS
  <2>1. j - 1 \in D /\ j - 1 < Len(s) /\ (j - 1) + 1 = j
    BY <1>1, <1>7
  <2>2. w[j - 1] = s[j]
    BY <1>3, <2>1
  <2>3. j - 1 \in I
    BY <1>3, <2>1, <2>2
  <2>4. m <= j - 1
    BY <1>6, <2>3
  <2> QED BY <1>7, <2>4
<1> HIDE DEF I, m
<1>9. CASE m < Len(s)
  <2>1. m + 1 \in 1..Len(s) /\ w[m] = s[m + 1] /\ \A j \in 1..(m + 1) - 1 : s[j] \notin S
    BY <1>1, <1>3, <1>7, <1>8, <1>9
  <2> QED BY <1>1, <1>4, <1>7, <2>1 DEF m
<1>10. CASE m = Len(s)
  BY <1>3, <1>4, <1>7, <1>8, <1>10 DEF m
<1> QED BY <1>1, <1>7, <1>9, <1>10

LEMMA ListedIs ==
  ASSUME NEW b, NEW s, IsList(b, s)
  PROVE  /\ Listed(b) = Elems(s)
         /\ NamesOf(b) = [i \in 1..Len(s) |-> b.name[s[i]]]
         /\ NamesOf(b) \in Seq(Names) /\ Len(NamesOf(b)) = Len(s)
<1> DEFINE D == 0..Cardinality(Nodes)
           w == Walk(b)
<1>1. /\ Len(s) \in Nat /\ \A k \in 1..Len(s) : s[k] \in Nodes
      /\ End(b, s) \notin Nodes /\ Cardinality(Nodes) \in Nat
      /\ Len(s) = Cardinality(Elems(s)) /\ Len(s) <= Cardinality(Nodes)
  BY ListBasics, NodesAssumption
<1>2. w = [k \in D |-> IF k < Len(s) THEN s[k + 1] ELSE End(b, s)]
  BY WalkIs
<1>3. DOMAIN w = D /\ \A k \in D : w[k] = IF k < Len(s) THEN s[k + 1] ELSE End(b, s)
  BY <1>2
<1>4. Range(w) \cap Nodes = Elems(s)
  <2> HIDE DEF w
  <2>1. ASSUME NEW k \in D, w[k] \in Nodes PROVE w[k] \in Elems(s)
    <3>1. k < Len(s) /\ w[k] = s[k + 1] /\ k + 1 \in 1..Len(s)
      BY <1>1, <1>3, <2>1
    <3> QED BY <3>1 DEF Elems
  <2>2. ASSUME NEW k \in 1..Len(s) PROVE s[k] \in Range(w) \cap Nodes
    <3>1. k - 1 \in D /\ w[k - 1] = s[k]
      BY <1>1, <1>3
    <3> QED BY <1>1, <1>3, <3>1 DEF Range
  <2> QED BY <1>3, <2>1, <2>2 DEF Elems, Range
<1>5. NamesOf(b) = [i \in 1..Len(s) |-> b.name[w[i - 1]]]
  BY <1>1, <1>4 DEF NamesOf
<1>6. \A i \in 1..Len(s) : w[i - 1] = s[i]
  BY <1>1, <1>3
<1> HIDE DEF w
<1>7. NamesOf(b) = [i \in 1..Len(s) |-> b.name[s[i]]]
  BY <1>5, <1>6
<1>8. NamesOf(b) \in [1..Len(s) -> Names]
  BY <1>1, <1>7 DEF IsList, Heap
<1> QED BY <1>1, <1>4, <1>7, <1>8 DEF Listed, w

-----------------------------------------------------------------------------
(* Insertion and deletion.                                                 *)

\* A node that is not in the list keeps out of its way.
LEMMA Untouched ==
  ASSUME NEW b, NEW s, IsList(b, s), NEW r \in Heap,
         r.front = b.front, r.prev = b.prev, r.next = b.next, b.live \subseteq r.live,
         \A n \in Elems(s) : r.name[n] = b.name[n], r.wild
  PROVE  IsList(r, s)
<1>1. s \in Seq(Nodes) /\ Distinct(s) /\ Elems(s) \subseteq r.live /\ Len(s) \in Nat
  BY ListBasics DEF IsList
<1>2. s # <<>> => EndLinks(r, s)
  BY DEF IsList, EndLinks
<1>3. ASSUME NEW k \in 1..Len(s) - 1 PROVE Follows(r, s[k], s[k + 1])
  <2>1. s[k] \in Elems(s) /\ s[k + 1] \in Elems(s)
    <3>1. k \in 1..Len(s) /\ k + 1 \in 1..Len(s)
      BY <1>1
    <3> QED BY <3>1 DEF Elems
  <2> QED BY <2>1 DEF IsList, Follows
<1> QED BY <1>1, <1>2, <1>3 DEF IsList

\* list_insert_front, with the node at place k of the list.
LEMMA LinkedIn ==
  ASSUME NEW b, NEW s, IsList(b, s), s # <<>>, ~b.wild,
         NEW k \in 1..Len(s) + 1,
         k = 1 => b.prev[s[1]] = Null, k = Len(s) + 1 => b.next[s[Len(s)]] = Null,
         NEW n \in Nodes \ b.live, NEW x \in Names,
         \A j \in 1..k - 1 : b.name[s[j]] <= x,
         k <= Len(s) => x <= b.name[s[k]],
         NEW r \in Heap,
         r.front = IF k = 1 THEN n ELSE b.front,
         r.name = [b.name EXCEPT ![n] = x],
         \A j \in Nodes : r.next[j] = IF j = n THEN IF k <= Len(s) THEN s[k] ELSE Null
                                      ELSE IF k > 1 /\ j = s[k - 1] THEN n ELSE b.next[j],
         \A j \in Nodes : r.prev[j] = IF j = n THEN IF k > 1 THEN s[k - 1] ELSE Null
                                      ELSE IF k <= Len(s) /\ j = s[k] THEN n ELSE b.prev[j],
         r.live = b.live \cup {n}, r.wild = b.wild
  PROVE  IsList(r, Inserted(s, k, n))
<1> DEFINE t == Inserted(s, k, n)
<1>1. /\ Len(s) \in Nat /\ Len(s) > 0 /\ \A j \in 1..Len(s) : s[j] \in Nodes
      /\ s \in Seq(Nodes) /\ Distinct(s) /\ Elems(s) \subseteq b.live /\ b \in Heap
  BY ListBasics DEF IsList
<1>2. n \notin Elems(s) /\ \A j \in 1..Len(s) : s[j] # n
  BY <1>1 DEF Elems
<1>3. \A i, j \in 1..Len(s) : s[i] = s[j] => i = j
  BY <1>1 DEF Distinct
<1>4. /\ t \in Seq(Nodes) /\ Len(t) = Len(s) + 1 /\ Elems(t) = Elems(s) \cup {n} /\ Distinct(t)
  BY <1>1, <1>2, ElemsInserted
<1>5. \A j \in 1..Len(s) + 1 :
        t[j] = IF j < k THEN s[j] ELSE IF j = k THEN n ELSE s[j - 1]
  BY DEF Inserted
<1> HIDE DEF t
<1>6. b.live = Elems(s)
  BY DEF IsList
<1>7. \A j \in 1..Len(s) - 1 : Follows(b, s[j], s[j + 1])
  BY DEF IsList
<1>8. \A j \in 1..Len(s) : r.name[s[j]] = b.name[s[j]]
  BY <1>1, <1>2 DEF Heap
<1>9. r.name[n] = x
  BY <1>1 DEF Heap
<1>10. ASSUME NEW j \in 1..Len(s) - 1, j + 1 # k PROVE Follows(r, s[j], s[j + 1])
  <2>1. j \in 1..Len(s) /\ j + 1 \in 1..Len(s) /\ s[j] \in Nodes /\ s[j + 1] \in Nodes
    BY <1>1
  <2>2. k > 1 => k - 1 \in 1..Len(s) /\ k - 1 # j
    BY <1>1, <1>10
  <2>3. r.next[s[j]] = b.next[s[j]]
    BY <1>2, <1>3, <2>1, <2>2
  <2>4. r.prev[s[j + 1]] = b.prev[s[j + 1]]
    BY <1>1, <1>2, <1>3, <1>10, <2>1
  <2> QED BY <1>7, <1>8, <2>1, <2>3, <2>4 DEF Follows
<1>11. k > 1 => Follows(r, s[k - 1], n)
  <2> SUFFICES ASSUME k > 1 PROVE Follows(r, s[k - 1], n)
    OBVIOUS
  <2>1. k - 1 \in 1..Len(s) /\ k - 1 \in 1..k - 1 /\ s[k - 1] \in Nodes /\ s[k - 1] # n
    BY <1>1, <1>2
  <2> QED BY <1>8, <1>9, <2>1 DEF Follows
<1>12. k <= Len(s) => Follows(r, n, s[k])
  <2> SUFFICES ASSUME k <= Len(s) PROVE Follows(r, n, s[k])
    OBVIOUS
  <2>1. k \in 1..Len(s) /\ s[k] \in Nodes /\ s[k] # n
    BY <1>1, <1>2
  <2> QED BY <1>8, <1>9, <2>1 DEF Follows
<1>13. \A j \in 1..Len(t) - 1 : Follows(r, t[j], t[j + 1])
  <2> TAKE j \in 1..Len(t) - 1
  <2>1. j \in 1..Len(s) /\ j \in 1..Len(s) + 1 /\ j + 1 \in 1..Len(s) + 1 /\ k \in Nat
    BY <1>1, <1>4
  <2>2. CASE j + 1 < k
    <3>1. t[j] = s[j] /\ t[j + 1] = s[j + 1] /\ j \in 1..Len(s) - 1 /\ j + 1 # k
      BY <1>1, <1>5, <2>1, <2>2
    <3> QED BY <1>10, <3>1
  <2>3. CASE j + 1 = k
    <3>1. t[j] = s[k - 1] /\ t[j + 1] = n /\ k > 1
      BY <1>1, <1>5, <2>1, <2>3
    <3> QED BY <1>11, <3>1
  <2>4. CASE j = k
    <3>1. k <= Len(s) /\ ~(j < k) /\ ~(j + 1 < k) /\ j + 1 # k /\ (j + 1) - 1 = k
      BY <1>1, <2>1, <2>4
    <3>2. t[j] = n
      BY <1>5, <2>1, <2>4, <3>1
    <3>3. t[j + 1] = s[(j + 1) - 1]
      BY <1>5, <2>1, <3>1
    <3> QED BY <1>12, <2>4, <3>1, <3>2, <3>3
  <2>5. CASE j > k
    <3>1. /\ t[j] = s[j - 1] /\ t[j + 1] = s[(j - 1) + 1] /\ j - 1 \in 1..Len(s) - 1
          /\ (j - 1) + 1 # k
      BY <1>1, <1>5, <2>1, <2>5
    <3> QED BY <1>10, <3>1
  <2> QED BY <1>1, <2>1, <2>2, <2>3, <2>4, <2>5
<1>14. EndLinks(r, t)
  <2>1. 1 \in 1..Len(s) + 1 /\ Len(s) + 1 \in 1..Len(s) + 1 /\ 1 \in 1..Len(s) /\ Len(s) \in 1..Len(s)
    BY <1>1
  <2>2. r.prev[t[1]] = IF k = 1 THEN Null ELSE b.prev[s[1]]
    <3>1. CASE k = 1
      BY <1>1, <1>5, <2>1, <3>1
    <3>2. CASE k > 1
      <4>1. t[1] = s[1] /\ s[1] \in Nodes /\ s[1] # n /\ (k <= Len(s) => s[k] # s[1])
        BY <1>1, <1>2, <1>3, <1>5, <2>1, <3>2
      <4> QED BY <3>2, <4>1
    <3> QED BY <1>1, <3>1, <3>2
  <2>3. r.next[t[Len(t)]] = IF k = Len(s) + 1 THEN Null ELSE b.next[s[Len(s)]]
    <3>1. CASE k = Len(s) + 1
      BY <1>1, <1>4, <1>5, <2>1, <3>1
    <3>2. CASE k <= Len(s)
      <4>1. k > 1 => k - 1 \in 1..Len(s) /\ k - 1 # Len(s)
        BY <1>1, <3>2
      <4>2. t[Len(t)] = s[Len(s)]
        <5>1. Len(t) = Len(s) + 1 /\ (Len(s) + 1) - 1 = Len(s) /\ k < Len(s) + 1
          BY <1>1, <1>4, <3>2
        <5>2. t[Len(s) + 1] = s[(Len(s) + 1) - 1]
          BY <1>5, <2>1, <5>1
        <5> QED BY <5>1, <5>2
      <4>3. s[Len(s)] \in Nodes /\ s[Len(s)] # n /\ (k > 1 => s[k - 1] # s[Len(s)])
        BY <1>1, <1>2, <1>3, <2>1, <4>1
      <4>4. k # Len(s) + 1
        BY <1>1, <3>2
      <4> QED BY <4>2, <4>3, <4>4
    <3> QED BY <1>1, <3>1, <3>2
  <2>4. EndLinks(b, s)
    BY DEF IsList
  <2>5. Len(s) = 1 => k = 1 \/ k = Len(s) + 1
    BY <1>1
  <2> QED BY <2>2, <2>3, <2>4, <2>5, NodesAssumption DEF EndLinks
<1>15. r.front = t[1] /\ t # <<>>
  BY <1>1, <1>4, <1>5 DEF IsList
<1> QED BY <1>4, <1>6, <1>13, <1>14, <1>15 DEF IsList, t

LEMMA OneOrMore ==
  ASSUME NEW m \in Nat, m > 0
  PROVE  m = 1 \/ (m >= 2 /\ m > 1 /\ 1 \in 1..m - 1 /\ 2 \in 1..m)
OBVIOUS

\* list_delete of the node at place k.
LEMMA Unlinked ==
  ASSUME NEW b, NEW s, IsList(b, s), ~b.wild, NEW k \in 1..Len(s),
         b.prev[s[k]] # Raw, b.next[s[k]] # Raw,
         NEW r \in Heap,
         r.front = IF k = 1 THEN b.next[s[1]] ELSE b.front,
         \A j \in Nodes \ {s[k]} : r.name[j] = b.name[j],
         \A j \in Nodes \ {s[k]} :
           r.next[j] = IF j = b.prev[s[k]] THEN b.next[s[k]] ELSE b.next[j],
         \A j \in Nodes \ {s[k]} :
           r.prev[j] = IF j = b.next[s[k]] THEN b.prev[s[k]] ELSE b.prev[j],
         r.live = b.live \ {s[k]}, r.wild = b.wild
  PROVE  IsList(r, Removed(s, k))
<1> DEFINE t == Removed(s, k)
           n == s[k]
<1>0. Len(s) \in Nat /\ Len(s) > 0
  BY ListBasics
<1>1. /\ Len(s) \in Nat /\ Len(s) > 0 /\ \A j \in 1..Len(s) : s[j] \in Nodes
      /\ s \in Seq(Nodes) /\ Distinct(s) /\ Elems(s) \subseteq b.live /\ b \in Heap
  BY ListBasics DEF IsList
<1>2. \A i, j \in 1..Len(s) : s[i] = s[j] => i = j
  BY <1>1 DEF Distinct
<1>3. t \in Seq(Nodes) /\ Len(t) = Len(s) - 1 /\ Elems(t) = Elems(s) \ {n} /\ Distinct(t)
  BY <1>1, ElemsRemoved
<1>4. \A j \in 1..Len(s) - 1 : t[j] = IF j < k THEN s[j] ELSE s[j + 1]
  BY DEF Removed
<1> HIDE DEF t
<1>5. b.live = Elems(s) /\ EndLinks(b, s)
  BY <1>1, EmptySeq DEF IsList
<1>6. \A j \in 1..Len(s) - 1 : Follows(b, s[j], s[j + 1])
  BY DEF IsList
<1>7. /\ b.prev[n] = IF k = 1 THEN Null ELSE s[k - 1]
      /\ b.next[n] = IF k = Len(s) THEN Null ELSE s[k + 1]
  <2>1. k # 1 => k - 1 \in 1..Len(s) - 1 /\ (k - 1) + 1 = k
    BY <1>1
  <2>2. k # Len(s) => k \in 1..Len(s) - 1
    BY <1>1
  <2> QED BY <1>5, <1>6, <2>1, <2>2 DEF Follows, EndLinks
<1>8. ASSUME NEW j \in 1..Len(s), j # k
      PROVE  /\ s[j] \in Nodes \ {n} /\ r.name[s[j]] = b.name[s[j]]
             /\ r.next[s[j]] = IF j + 1 = k THEN b.next[n] ELSE b.next[s[j]]
             /\ r.prev[s[j]] = IF j = k + 1 THEN b.prev[n] ELSE b.prev[s[j]]
  <2>1. s[j] \in Nodes \ {n}
    BY <1>1, <1>2, <1>8
  <2>2. s[j] = b.prev[n] <=> j + 1 = k
    BY <1>1, <1>2, <1>7, NodesAssumption
  <2>3. s[j] = b.next[n] <=> j = k + 1
    BY <1>1, <1>2, <1>7, NodesAssumption
  <2> QED BY <2>1, <2>2, <2>3
<1>9. \A j \in 1..Len(t) - 1 : Follows(r, t[j], t[j + 1])
  <2> TAKE j \in 1..Len(t) - 1
  <2>1. j \in 1..Len(s) - 1 /\ j + 1 \in 1..Len(s) - 1 /\ j + 2 \in 1..Len(s)
    BY <1>1, <1>3
  <2>2. CASE j + 1 < k
    <3>1. t[j] = s[j] /\ t[j + 1] = s[j + 1] /\ j # k /\ j + 1 # k /\ (j + 1) + 1 # k + 1
      BY <1>1, <1>4, <2>1, <2>2
    <3>2. j + 1 # k + 1 /\ j \in 1..Len(s) /\ j + 1 \in 1..Len(s)
      BY <1>1, <2>1, <2>2
    <3> QED BY <1>6, <1>8, <2>1, <3>1, <3>2 DEF Follows
  <2>3. CASE j + 1 = k
    <3>1. t[j] = s[j] /\ t[j + 1] = s[k + 1] /\ j # k /\ k + 1 \in 1..Len(s) /\ k # k + 1
          /\ k - 1 = j /\ k # 1 /\ k # Len(s) /\ j \in 1..Len(s)
      BY <1>1, <1>4, <2>1, <2>3
    <3>2. r.next[s[j]] = s[k + 1] /\ r.prev[s[k + 1]] = s[j]
          /\ r.name[s[j]] = b.name[s[j]] /\ r.name[s[k + 1]] = b.name[s[k + 1]]
      BY <1>7, <1>8, <2>3, <3>1
    <3>3. b.name[s[j]] <= b.name[s[k]] /\ b.name[s[k]] <= b.name[s[k + 1]]
      <4>1. Follows(b, s[j], s[k]) /\ k \in 1..Len(s) - 1
        BY <1>1, <1>6, <2>1, <2>3
      <4> QED BY <1>6, <4>1 DEF Follows
    <3>4. b.name[s[j]] \in Int /\ b.name[s[k]] \in Int /\ b.name[s[k + 1]] \in Int
      BY <1>1, <3>1, NamesAssumption DEF Heap
    <3> QED BY <3>1, <3>2, <3>3, <3>4 DEF Follows
  <2>4. CASE j + 1 > k
    <3>1. t[j] = s[j + 1] /\ t[j + 1] = s[j + 2] /\ j + 1 # k /\ j + 2 # k
          /\ (j + 1) + 1 # k /\ j + 2 # k + 1 /\ j + 1 \in 1..Len(s) /\ j + 2 = (j + 1) + 1
      BY <1>1, <1>4, <2>1, <2>4
    <3>2. Follows(b, s[j + 1], s[j + 2])
      BY <1>6, <2>1, <3>1
    <3> QED BY <1>8, <2>1, <3>1, <3>2 DEF Follows
  <2> QED BY <1>1, <2>1, <2>2, <2>3, <2>4
<1>10. r.front = IF t = <<>> THEN Null ELSE t[1]
  <2>1. t = <<>> <=> Len(s) = 1
    BY <1>1, <1>3, EmptySeq
  <2>2. CASE Len(s) = 1
    BY <1>1, <1>7, <2>1, <2>2
  <2>3. CASE Len(s) > 1
    <3>1. 1 \in 1..Len(s) - 1 /\ 1 + 1 = 2 /\ s # <<>> /\ t # <<>>
      BY <1>1, <2>1, <2>3, EmptySeq
    <3>2. t[1] = IF k = 1 THEN s[2] ELSE s[1]
      BY <1>1, <1>4, <3>1
    <3>3. b.next[s[1]] = s[2]
      BY <1>6, <3>1 DEF Follows
    <3>4. b.front = s[1]
      BY <3>1 DEF IsList
    <3> QED BY <3>1, <3>2, <3>3, <3>4
  <2>4. Len(s) = 1 \/ Len(s) > 1
    BY <1>0, OneOrMore
  <2> QED BY <2>2, <2>3, <2>4
<1>11. t # <<>> => EndLinks(r, t)
  <2> SUFFICES ASSUME t # <<>> PROVE EndLinks(r, t)
    OBVIOUS
  <2>1. Len(s) - 1 \in Nat \ {0}
    BY <1>3, EmptySeq
  <2>2. r.prev[t[1]] = IF k = 1 THEN Null ELSE b.prev[s[1]]
    <3>1. CASE k = 1
      <4>1. 1 \in 1..Len(s) - 1 /\ 1 + 1 = 2 /\ 2 \in 1..Len(s) /\ 2 # k /\ 2 = k + 1
        <5>1. Len(s) # 1
          BY <2>1
        <5>2. 1 \in 1..Len(s) - 1 /\ 2 \in 1..Len(s)
          BY <1>0, <5>1, OneOrMore
        <5> QED BY <3>1, <5>2
      <4>2. t[1] = s[2]
        BY <1>4, <3>1, <4>1
      <4> QED BY <1>7, <1>8, <3>1, <4>1, <4>2
    <3>2. CASE k > 1
      <4>1. t[1] = s[1] /\ 1 \in 1..Len(s) /\ 1 # k /\ 1 # k + 1
        BY <1>1, <1>4, <2>1, <3>2
      <4> QED BY <1>8, <3>2, <4>1
    <3> QED BY <1>1, <3>1, <3>2
  <2>3. r.next[t[Len(t)]] = IF k = Len(s) THEN Null ELSE b.next[s[Len(s)]]
    <3>1. CASE k = Len(s)
      <4>1. t[Len(t)] = s[Len(s) - 1] /\ Len(s) - 1 \in 1..Len(s) /\ Len(s) - 1 # k
            /\ (Len(s) - 1) + 1 = k
        BY <1>1, <1>3, <1>4, <2>1, <3>1
      <4> QED BY <1>7, <1>8, <3>1, <4>1
    <3>2. CASE k < Len(s)
      <4>1. t[Len(t)] = s[Len(s)] /\ Len(s) \in 1..Len(s) /\ Len(s) # k /\ Len(s) + 1 # k
        BY <1>1, <1>3, <1>4, <2>1, <3>2
      <4> QED BY <1>8, <3>2, <4>1
    <3> QED BY <1>1, <3>1, <3>2
  <2>4. Len(s) = 1 => k = 1
    BY <1>1
  <2> QED BY <1>5, <2>2, <2>3, <2>4, NodesAssumption DEF EndLinks
<1> QED BY <1>3, <1>5, <1>9, <1>10, <1>11 DEF IsList, t

\* The last node is the only one without a successor.
LEMMA LastIs ==
  ASSUME NEW b, NEW s, IsList(b, s), s # <<>>, b.next[s[Len(s)]] = Null
  PROVE  LastNode(b) = s[Len(s)]
<1>1. /\ Len(s) \in Nat /\ Len(s) > 0 /\ \A j \in 1..Len(s) : s[j] \in Nodes
      /\ Listed(b) = Elems(s)
  BY ListBasics, ListedIs
<1>2. \A j \in 1..Len(s) - 1 : b.next[s[j]] = s[j + 1]
  BY DEF IsList, Follows
<1>3. s[Len(s)] \in Elems(s) /\ b.next[s[Len(s)]] = Null
  <2>1. Len(s) \in 1..Len(s)
    BY <1>1
  <2> QED BY <2>1 DEF Elems
<1>4. ASSUME NEW q \in Elems(s), b.next[q] = Null PROVE q = s[Len(s)]
  <2>1. PICK j \in 1..Len(s) : q = s[j]
    BY DEF Elems
  <2>2. CASE j = Len(s)
    BY <2>1, <2>2
  <2>3. CASE j # Len(s)
    <3>1. j \in 1..Len(s) - 1 /\ j + 1 \in 1..Len(s)
      BY <1>1, <2>3
    <3> QED BY <1>1, <1>2, <1>4, <2>1, <3>1, NodesAssumption
  <2> QED BY <2>2, <2>3
<1> QED BY <1>1, <1>3, <1>4 DEF LastNode

\* An inserted node is in the list from then on, or the program has followed an
\* unassigned link.
LEMMA InsertKeepsList ==
  ASSUME NEW b, NEW s, IsList(b, s), ~b.wild, NEW n \in Nodes \ b.live, NEW x \in Names,
         NEW c \in Leftovers
  PROVE  /\ ListInsert(b, n, x, c).live = b.live \cup {n}
         /\ ListInsert(b, n, x, c).name = [b.name EXCEPT ![n] = x]
         /\ \E t : /\ IsList(ListInsert(b, n, x, c), t)
                   /\ \/ Elems(t) = Elems(s) \cup {n} /\ ~ListInsert(b, n, x, c).wild
                      \/ t = s /\ ListInsert(b, n, x, c).wild
<1> DEFINE m == [b EXCEPT !.name[n] = x, !.live = @ \cup {n}]
           at == Find(b, {k \in Nodes : x <= b.name[k]})
           before == b.prev[at]
           linked == [m EXCEPT !.next[n] = at, !.prev[n] = before, !.prev[at] = n]
           first == [m EXCEPT !.front = n, !.prev[n] = c.prev, !.next[n] = c.next]
           last == [m EXCEPT !.next[LastNode(b)] = n, !.prev[n] = LastNode(b), !.next[n] = Null]
           wild == [m EXCEPT !.wild = @ \/ TRUE]
           r == ListInsert(b, n, x, c)
<1>1. /\ Len(s) \in Nat /\ \A j \in 1..Len(s) : s[j] \in Nodes
      /\ s # <<>> <=> Len(s) > 0
      /\ b \in Heap /\ s \in Seq(Nodes) /\ Distinct(s) /\ Elems(s) \subseteq b.live
      /\ b.front = IF s = <<>> THEN Null ELSE s[1]
      /\ End(b, s) \in {Null, Raw}
  BY ListBasics DEF IsList
<1>2. c.prev \in {Null, Raw} /\ c.next \in {Null, Raw}
      /\ Null \notin Nodes /\ Raw \notin Nodes /\ Null # Raw
  BY FreshAssumption, NodesAssumption DEF Leftovers
<1>3. s # <<>> => s[1] \in Nodes
  BY <1>1
<1>4. /\ m \in Heap /\ m.front = b.front /\ m.prev = b.prev /\ m.next = b.next
      /\ m.name = [b.name EXCEPT ![n] = x] /\ m.live = b.live \cup {n} /\ m.wild = b.wild
  BY <1>1 DEF Heap
<1>5. \/ at \in Nodes /\ \E k \in 1..Len(s) :
           /\ at = s[k] /\ x <= b.name[s[k]] /\ \A j \in 1..k - 1 : ~(x <= b.name[s[j]])
      \/ at = End(b, s) /\ \A j \in 1..Len(s) : ~(x <= b.name[s[j]])
  <2> DEFINE S == {k \in Nodes : x <= b.name[k]}
  <2>1. \/ \E k \in 1..Len(s) : /\ s[k] \in S /\ \A j \in 1..k - 1 : s[j] \notin S
                                /\ Find(b, S) = s[k]
        \/ (\A k \in 1..Len(s) : s[k] \notin S) /\ Find(b, S) = End(b, s)
    BY FindIs
  <2>2. \A k \in 1..Len(s) : \A j \in 1..k - 1 : j \in 1..Len(s)
    BY <1>1
  <2> QED BY <1>1, <2>1, <2>2
<1> HIDE DEF at, m
<1>6. CASE s = <<>>
  <2>1. at = Null /\ b.front = Null /\ b.live = {}
    <3>1. Len(s) = 0
      BY <1>1, <1>6
    <3> QED BY <1>1, <1>5, <1>6, <3>1 DEF End, IsList, Elems
  <2>2. r = first
    BY <1>2, <2>1 DEF ListInsert, m, at
  <2>3. /\ first \in Heap /\ first.front = n /\ first.prev[n] = c.prev
        /\ first.next[n] = c.next
        /\ first.name = m.name /\ first.live = m.live /\ first.wild = b.wild
    BY <1>2, <1>4, <2>1 DEF Heap, Pointers
  <2> HIDE DEF r, first
  <2>4. /\ <<n>> \in Seq(Nodes) /\ Len(<<n>>) = 1 /\ <<n>>[1] = n /\ <<n>> # <<>>
        /\ Elems(<<n>>) = {n}
    BY DEF Elems
  <2>5. Distinct(<<n>>) /\ \A k \in 1..Len(<<n>>) - 1 : Follows(first, <<n>>[k], <<n>>[k + 1])
    BY <2>4 DEF Distinct
  <2>6. EndLinks(first, <<n>>)
    BY <1>2, <2>3, <2>4 DEF EndLinks
  <2>7. first.live = Elems(<<n>>)
    BY <1>4, <2>1, <2>3, <2>4
  <2>8. IsList(first, <<n>>)
    BY <2>3, <2>4, <2>5, <2>6, <2>7 DEF IsList
  <2>9. Elems(s) = {}
    BY <1>1, <2>1
  <2> QED BY <1>4, <2>1, <2>2, <2>3, <2>4, <2>8, <2>9 DEF r
<1>7. r = wild => IsList(r, s) /\ r.live = m.live /\ r.name = m.name /\ r.wild
  <2> SUFFICES ASSUME r = wild PROVE IsList(wild, s) /\ wild.live = m.live /\ wild.name = m.name
                                     /\ wild.wild
    OBVIOUS
  <2>1. /\ wild \in Heap /\ wild.front = b.front /\ wild.prev = b.prev /\ wild.next = b.next
        /\ wild.name = m.name /\ wild.live = m.live /\ wild.wild
    BY <1>4 DEF Heap
  <2> HIDE DEF r, wild
  <2>2. \A j \in Elems(s) : wild.name[j] = b.name[j]
    BY <1>1, <1>4, <2>1 DEF Heap
  <2>3. b.live \subseteq wild.live
    BY <1>4, <2>1
  <2>4. IsList(wild, s)
    BY <2>1, <2>2, <2>3, Untouched
  <2> QED BY <2>1, <2>4
<1>8. CASE s # <<>>
  <2>1. \A j \in 1..Len(s) : b.name[s[j]] \in Int /\ x \in Int
    BY <1>1, NamesAssumption DEF Heap
  <2>2. Len(s) > 0 /\ b.front = s[1] /\ End(b, s) = b.next[s[Len(s)]] /\ EndLinks(b, s)
    BY <1>1, <1>8 DEF End, IsList
  <2>3. \A j \in 1..Len(s) : s[j] # n
    BY <1>1 DEF Elems
  <2>6. CASE at = Raw
    <3>1. r = wild
      BY <1>2, <1>3, <1>8, <2>2, <2>6 DEF ListInsert, Touch, m, at
    <3> HIDE DEF r, wild
    <3> QED BY <1>4, <1>7, <3>1 DEF r
  <2>4. CASE at = Null
    <3> DEFINE l == s[Len(s)]
    <3>0. b.next[s[Len(s)]] = Null
      BY <1>1, <1>2, <1>5, <2>2, <2>4
    <3>1. r = last
      BY <1>2, <1>3, <1>8, <2>2, <2>4 DEF ListInsert, m, at
    <3>2. LastNode(b) = l /\ l \in Nodes /\ l # n
      <4>1. Len(s) \in 1..Len(s)
        BY <1>1, <2>2
      <4> QED BY <1>1, <1>8, <2>3, <3>0, <4>1, LastIs
    <3>3. /\ last \in Heap /\ last.front = b.front /\ last.name = m.name /\ last.live = m.live
          /\ last.wild = b.wild
          /\ \A j \in Nodes : last.next[j] = IF j = n THEN Null ELSE IF j = l THEN n ELSE b.next[j]
          /\ \A j \in Nodes : last.prev[j] = IF j = n THEN l ELSE b.prev[j]
      BY <1>4, <3>2 DEF Heap, Pointers
    <3> HIDE DEF r, last, l
    <3> DEFINE k == Len(s) + 1
    <3>4. /\ k \in 1..Len(s) + 1 /\ k > 1 /\ ~(k <= Len(s)) /\ k # 1 /\ k - 1 = Len(s)
          /\ \A j \in 1..k - 1 : j \in 1..Len(s)
      BY <1>1, <2>2
    <3>5. \A j \in 1..k - 1 : b.name[s[j]] <= x
      BY <1>1, <1>2, <1>5, <2>1, <2>4, <3>4
    <3> HIDE DEF k
    <3>6. IsList(last, Inserted(s, k, n))
      BY <1>4, <1>8, <3>0, <3>3, <3>4, <3>5, LinkedIn DEF l
    <3>7. Elems(Inserted(s, k, n)) = Elems(s) \cup {n}
      BY <1>1, <3>4, ElemsInserted
    <3> QED BY <1>4, <3>1, <3>3, <3>6, <3>7 DEF r
  <2>5. CASE at # Null /\ at # Raw
    <3>1. PICK k \in 1..Len(s) : /\ at = s[k] /\ at \in Nodes /\ x <= b.name[s[k]]
                                 /\ \A j \in 1..k - 1 : ~(x <= b.name[s[j]])
      BY <1>1, <1>5, <2>5
    <3>2. before = IF k = 1 THEN b.prev[s[1]] ELSE s[k - 1]
      <4>1. k # 1 => k - 1 \in 1..Len(s) - 1 /\ (k - 1) + 1 = k
        BY <1>1
      <4> QED BY <1>8, <3>1, <4>1 DEF IsList, Follows
    <3>3. k # 1 => k - 1 \in 1..Len(s)
      BY <1>1
    <3>13. CASE before = Raw
      <4>1. r = wild
        BY <1>2, <1>3, <1>8, <2>2, <3>1, <3>13 DEF ListInsert, Touch, m, at
      <4> HIDE DEF r, wild
      <4> QED BY <1>4, <1>7, <4>1 DEF r
    <3>14. CASE before # Raw
      <4>0. before = IF k = 1 THEN Null ELSE s[k - 1]
        BY <2>2, <3>2, <3>14 DEF EndLinks
      <4>4. /\ linked \in Heap /\ linked.front = b.front /\ linked.name = m.name
            /\ linked.live = m.live /\ linked.wild = b.wild
            /\ linked.next = [b.next EXCEPT ![n] = at]
            /\ \A j \in Nodes : linked.prev[j] = IF j = at THEN n ELSE IF j = n THEN before
                                                  ELSE b.prev[j]
        BY <1>1, <1>4, <3>1, <4>0, <3>3 DEF Heap, Pointers
      <4> DEFINE front == [linked EXCEPT !.front = n]
                 inside == [linked EXCEPT !.next[before] = n]
                 w == IF k = 1 THEN front ELSE inside
      <4>5. r = w
        BY <1>1, <1>2, <1>3, <1>8, <2>2, <3>1, <4>0, <3>3 DEF ListInsert, m, at
      <4> HIDE DEF r, linked, before
      <4>6. /\ w \in Heap /\ w.front = (IF k = 1 THEN n ELSE b.front) /\ w.name = m.name
            /\ w.live = m.live /\ w.wild = b.wild /\ w.prev = linked.prev
            /\ w.next = IF k = 1 THEN linked.next ELSE [linked.next EXCEPT ![before] = n]
        BY <4>4 DEF Heap, Pointers
      <4> HIDE DEF w
      <4>7. k \in 1..Len(s) + 1 /\ k <= Len(s) /\ (k > 1 <=> k # 1)
        BY <1>1
      <4>8. \A j \in Nodes :
              w.next[j] = IF j = n THEN IF k <= Len(s) THEN s[k] ELSE Null
                          ELSE IF k > 1 /\ j = s[k - 1] THEN n ELSE b.next[j]
        BY <1>1, <2>3, <3>1, <4>0, <3>3, <4>4, <4>6, <4>7 DEF Heap
      <4>9. \A j \in Nodes :
              w.prev[j] = IF j = n THEN IF k > 1 THEN s[k - 1] ELSE Null
                          ELSE IF k <= Len(s) /\ j = s[k] THEN n ELSE b.prev[j]
        BY <1>1, <2>3, <3>1, <4>0, <4>4, <4>6, <4>7
      <4>10. \A j \in 1..k - 1 : b.name[s[j]] <= x
        <5> TAKE j \in 1..k - 1
        <5>1. j \in 1..Len(s)
          BY <1>1
        <5> QED BY <2>1, <3>1, <5>1
      <4>11. IsList(w, Inserted(s, k, n))
        <5>1. /\ w.name = [b.name EXCEPT ![n] = x] /\ w.live = b.live \cup {n}
              /\ x <= b.name[s[k]] /\ w.front = (IF k = 1 THEN n ELSE b.front)
          BY <1>4, <3>1, <4>6
        <5>2. w \in Heap /\ w.wild = b.wild
          BY <4>6
        <5>3. k = 1 => b.prev[s[1]] = Null
          BY <3>2, <4>0
        <5>4. k # Len(s) + 1
          BY <1>1
        <5> QED BY <1>8, <4>7, <4>8, <4>9, <4>10, <5>1, <5>2, <5>3, <5>4, LinkedIn
      <4>12. Elems(Inserted(s, k, n)) = Elems(s) \cup {n}
        BY <1>1, <4>7, ElemsInserted
      <4> QED BY <1>4, <4>5, <4>6, <4>11, <4>12 DEF r
    <3> QED BY <3>13, <3>14
  <2> QED BY <2>4, <2>5, <2>6
<1> QED BY <1>6, <1>8

LEMMA SearchEnds ==
  ASSUME NEW b, NEW s, IsList(b, s), NEW S, S \subseteq Nodes
  PROVE  /\ Find(b, S) \in Nodes => \E k \in 1..Len(s) : Find(b, S) = s[k] /\ s[k] \in S
         /\ Find(b, S) \in Nodes \cup {Null, Raw}
<1>1. \A k \in 1..Len(s) : s[k] \in Nodes
  BY ListBasics
<1>2. End(b, s) \in {Null, Raw}
  BY ListBasics
<1>3. \/ \E k \in 1..Len(s) : s[k] \in S /\ Find(b, S) = s[k]
      \/ Find(b, S) = End(b, s)
  BY FindIs
<1> QED BY <1>1, <1>2, <1>3, NodesAssumption

LEMMA TouchKeepsList ==
  ASSUME NEW b, NEW s, IsList(b, s), NEW wild \in BOOLEAN
  PROVE  /\ IsList(Touch(b, wild), s)
         /\ Touch(b, wild).live = b.live /\ Touch(b, wild).name = b.name
<1> DEFINE r == Touch(b, wild)
<1>1. b \in Heap
  BY DEF IsList
<1>2. /\ r \in Heap /\ r.front = b.front /\ r.prev = b.prev /\ r.next = b.next
      /\ r.name = b.name /\ r.live = b.live /\ r.wild = (b.wild \/ wild)
  BY <1>1 DEF Touch, Heap
<1> HIDE DEF r
<1>3. s # <<>> => EndLinks(r, s)
  BY <1>2 DEF IsList, EndLinks
<1>4. \A k \in 1..Len(s) - 1 : Follows(r, s[k], s[k + 1])
  BY <1>2 DEF IsList, Follows
<1> QED BY <1>2, <1>3, <1>4 DEF IsList, r

\* A deleted node is neither in the list nor in use, and no other is lost.
LEMMA DeleteKeepsList ==
  ASSUME NEW b, NEW s, IsList(b, s), ~b.wild, NEW k \in 1..Len(s)
  PROVE  \/ /\ IsList(ListDelete(b, s[k]), Removed(s, k))
            /\ ListDelete(b, s[k]).live = b.live \ {s[k]}
            /\ Elems(Removed(s, k)) = Elems(s) \ {s[k]}
            /\ \A j \in Nodes \ {s[k]} : ListDelete(b, s[k]).name[j] = b.name[j]
         \/ ListDelete(b, s[k]) = Touch(b, TRUE)
<1> DEFINE n == s[k]
           p == b.prev[n]
           q == b.next[n]
           cut == [b EXCEPT !.next = [j \in Nodes |-> IF j = n THEN Null ELSE IF j = p THEN q ELSE @[j]],
                            !.prev = [j \in Nodes |-> IF j = n THEN Null ELSE IF j = q THEN p ELSE @[j]],
                            !.front = IF @ = n THEN q ELSE @,
                            !.name[n] = Q, !.live = @ \ {n}]
<1>1. /\ Len(s) \in Nat /\ Len(s) > 0 /\ \A j \in 1..Len(s) : s[j] \in Nodes
      /\ s # <<>> /\ b \in Heap /\ s \in Seq(Nodes) /\ Distinct(s)
      /\ b.front = s[1]
  BY ListBasics DEF IsList
<1>3. CASE Raw \in {p, q}
  BY <1>3 DEF ListDelete
<1>4. CASE Raw \notin {p, q}
  <2>1. p # Raw /\ q # Raw /\ p \in Pointers /\ q \in Pointers
    BY <1>1, <1>4 DEF Heap
  <2>2. ListDelete(b, n) = cut
    BY <2>1 DEF ListDelete
  <2>3. n \in Nodes /\ Q \in Names
    BY <1>1, NamesAssumption
  <2>4. s[1] = n <=> k = 1
    BY <1>1 DEF Distinct
  <2>5. /\ cut \in Heap /\ cut.front = (IF k = 1 THEN b.next[s[1]] ELSE b.front)
        /\ \A j \in Nodes \ {n} : cut.name[j] = b.name[j]
        /\ \A j \in Nodes \ {n} : cut.next[j] = IF j = p THEN q ELSE b.next[j]
        /\ \A j \in Nodes \ {n} : cut.prev[j] = IF j = q THEN p ELSE b.prev[j]
        /\ cut.live = b.live \ {n} /\ cut.wild = b.wild
    <3> HIDE DEF n
    <3> QED BY <1>1, <2>1, <2>3, <2>4 DEF Heap, Pointers
  <2> HIDE DEF cut
  <2>6. IsList(cut, Removed(s, k))
    BY <2>1, <2>5, Unlinked
  <2>7. Elems(Removed(s, k)) = Elems(s) \ {n}
    BY <1>1, ElemsRemoved
  <2> QED BY <2>2, <2>5, <2>6, <2>7
<1> QED BY <1>3, <1>4

-----------------------------------------------------------------------------
(* The persons of a name.                                                  *)

Count(b, x) == CountIn(NamesOf(b), x)

LEMMA CountIs ==
  ASSUME NEW b, NEW s, IsList(b, s), NEW x
  PROVE  /\ IsFiniteSet({n \in Elems(s) : b.name[n] = x})
         /\ Count(b, x) = Cardinality({n \in Elems(s) : b.name[n] = x})
         /\ Count(b, x) \in Nat
<1> DEFINE A == {i \in 1..Len(s) : b.name[s[i]] = x}
           B == {n \in Elems(s) : b.name[n] = x}
           f == [i \in A |-> s[i]]
<1>1. Len(s) \in Nat /\ NamesOf(b) = [i \in 1..Len(s) |-> b.name[s[i]]]
  BY ListBasics, ListedIs
<1>2. Count(b, x) = Cardinality(A)
  BY <1>1 DEF Count, CountIn
<1>3. IsFiniteSet(A)
  <2>1. IsFiniteSet(1..Len(s))
    BY <1>1, FS_Interval
  <2> QED BY <2>1, FS_Subset
<1>4. \A i, j \in 1..Len(s) : s[i] = s[j] => i = j
  BY DEF IsList, Distinct
<1>5. f \in Injection(A, B) /\ f \in Surjection(A, B)
  <2>1. f \in [A -> B]
    BY DEF Elems
  <2>2. \A i, j \in A : f[i] = f[j] => i = j
    BY <1>4
  <2>3. \A n \in B : \E i \in A : f[i] = n
    BY DEF Elems
  <2> HIDE DEF f, A, B
  <2> QED BY <2>1, <2>2, <2>3 DEF Injection, IsInjective, Surjection
<1>6. IsFiniteSet(B) /\ Cardinality(B) = Cardinality(A)
  <2> HIDE DEF f, A, B
  <2> QED BY <1>3, <1>5, FS_Surjection
<1> QED BY <1>2, <1>3, <1>6, FS_CardinalityType

\* person_insert: one person more, or none when an unassigned link was followed.
LEMMA PersonInserted ==
  ASSUME NEW b, NEW s, IsList(b, s), ~b.wild, NEW x \in Names, NEW c \in Leftovers,
         Nodes \ b.live # {}
  PROVE  /\ \E t : IsList(PersonInsert(b, x, c), t)
         /\ b.live \subseteq PersonInsert(b, x, c).live
         /\ Cardinality(PersonInsert(b, x, c).live) = Cardinality(b.live) + 1
         /\ \A y \in Names :
              Count(PersonInsert(b, x, c), y) =
                Count(b, y) + IF ~PersonInsert(b, x, c).wild /\ y = x THEN 1 ELSE 0
<1>1. PICK n \in Nodes \ b.live : PersonInsert(b, x, c) = ListInsert(b, n, x, c)
  BY DEF PersonInsert
<1> DEFINE r == PersonInsert(b, x, c)
<1>2. /\ r.live = b.live \cup {n} /\ r.name = [b.name EXCEPT ![n] = x]
      /\ \E t : /\ IsList(r, t)
                /\ \/ Elems(t) = Elems(s) \cup {n} /\ ~r.wild
                   \/ t = s /\ r.wild
  BY <1>1, InsertKeepsList
<1> HIDE DEF r
<1>3. PICK t : /\ IsList(r, t)
               /\ \/ Elems(t) = Elems(s) \cup {n} /\ ~r.wild
                  \/ t = s /\ r.wild
  BY <1>2
<1>4. Cardinality(r.live) = Cardinality(b.live) + 1
  <2>1. IsFiniteSet(b.live)
    BY ListBasics
  <2> QED BY <1>2, <2>1, FS_AddElement
<1>5. n \notin Elems(s) /\ Elems(s) \subseteq Nodes /\ b.name \in [Nodes -> Names]
  BY DEF IsList, Heap
<1>6. ASSUME NEW y \in Names
      PROVE  Count(r, y) = Count(b, y) + IF ~r.wild /\ y = x THEN 1 ELSE 0
  <2> DEFINE B == {j \in Elems(s) : b.name[j] = y}
             R == {j \in Elems(t) : r.name[j] = y}
  <2>1. IsFiniteSet(B) /\ Count(b, y) = Cardinality(B) /\ Count(b, y) \in Nat
    BY CountIs
  <2>2. Count(r, y) = Cardinality(R)
    BY <1>3, CountIs
  <2>3. CASE ~r.wild /\ y = x
    <3>1. R = B \cup {n} /\ n \notin B
      BY <1>2, <1>3, <1>5, <2>3
    <3> HIDE DEF B, R
    <3>2. Cardinality(B \cup {n}) = Cardinality(B) + 1
      BY <2>1, <3>1, FS_AddElement
    <3> QED BY <2>1, <2>2, <2>3, <3>1, <3>2
  <2>4. CASE ~(~r.wild /\ y = x)
    <3>1. R = B
      BY <1>2, <1>3, <1>5, <2>4
    <3> HIDE DEF B, R
    <3> QED BY <2>1, <2>2, <2>4, <3>1
  <2> QED BY <2>3, <2>4
<1> QED BY <1>2, <1>3, <1>4, <1>6 DEF r

\* The nodes that malloc has left.
LEMMA Remaining ==
  ASSUME NEW L \in SUBSET Nodes
  PROVE  /\ Cardinality(Nodes \ L) = Cardinality(Nodes) - Cardinality(L)
         /\ Cardinality(Nodes) \in Nat /\ Cardinality(L) \in Nat
         /\ Cardinality(L) < Cardinality(Nodes) => Nodes \ L # {}
<1>1. IsFiniteSet(Nodes) /\ IsFiniteSet(L) /\ IsFiniteSet(Nodes \ L)
  BY NodesAssumption, FS_Subset
<1>2. L \cup (Nodes \ L) = Nodes /\ L \cap (Nodes \ L) = {}
  OBVIOUS
<1>3. Cardinality(Nodes) = Cardinality(L) + Cardinality(Nodes \ L) - Cardinality({})
  BY <1>1, <1>2, FS_Union
<1>4. /\ Cardinality(Nodes) \in Nat /\ Cardinality(L) \in Nat /\ Cardinality(Nodes \ L) \in Nat
      /\ Cardinality({}) = 0
  BY <1>1, FS_CardinalityType, FS_EmptySet
<1> QED BY <1>3, <1>4

-----------------------------------------------------------------------------
(* Loading the file.                                                       *)

\* One round of load_entry's loop; the function of its rounds, and that there is one.
LoadOne(b, x, c) == IF b.wild THEN b ELSE PersonInsert(b, x, c)
LoadSteps(b, names, c, l, m) ==
  l = [k \in 0..m |-> IF k = 0 THEN b ELSE LoadOne(l[k - 1], names[k], c)]

LEMMA LoadStepsExist ==
  ASSUME NEW b, NEW names, NEW c, NEW m \in Nat
  PROVE  \E l : LoadSteps(b, names, c, l, m)
<1> DEFINE T == {k \in Nat : \E l : LoadSteps(b, names, c, l, k)}
<1>1. 0 \in T
  <2> DEFINE l == [k \in 0..0 |-> b]
  <2>1. l = [k \in 0..0 |-> IF k = 0 THEN b ELSE LoadOne(l[k - 1], names[k], c)]
    <3>1. \A k \in 0..0 : k = 0
      OBVIOUS
    <3> QED BY <3>1
  <2> QED BY <2>1 DEF LoadSteps
<1>2. ASSUME NEW k \in Nat, k \in T PROVE k + 1 \in T
  <2>1. PICK l : LoadSteps(b, names, c, l, k)
    BY <1>2
  <2> DEFINE next == LoadOne(l[k], names[k + 1], c)
             g == [j \in 0..k + 1 |-> IF j = k + 1 THEN next ELSE l[j]]
  <2>2. ASSUME NEW j \in 0..k + 1
        PROVE  g[j] = IF j = 0 THEN b ELSE LoadOne(g[j - 1], names[j], c)
    <3>1. CASE j = 0
      <4>1. 0 \in 0..k /\ 0 # k + 1
        OBVIOUS
      <4> QED BY <2>1, <3>1, <4>1 DEF LoadSteps
    <3>2. CASE j \in 1..k
      <4>1. j \in 0..k /\ j - 1 \in 0..k + 1 /\ j # 0 /\ j # k + 1 /\ j - 1 # k + 1
        BY <3>2
      <4>2. g[j] = l[j] /\ g[j - 1] = l[j - 1]
        BY <4>1
      <4>3. l[j] = LoadOne(l[j - 1], names[j], c)
        BY <2>1, <4>1 DEF LoadSteps
      <4> QED BY <4>1, <4>2, <4>3
    <3>3. CASE j = k + 1
      <4>1. j - 1 = k /\ k \in 0..k + 1 /\ k # k + 1 /\ j # 0
        BY <3>3
      <4> QED BY <3>3, <4>1
    <3>4. j = 0 \/ j \in 1..k \/ j = k + 1
      OBVIOUS
    <3> QED BY <3>1, <3>2, <3>3, <3>4
  <2>3. g = [j \in 0..k + 1 |-> IF j = 0 THEN b ELSE LoadOne(g[j - 1], names[j], c)]
    BY <2>2
  <2>4. LoadSteps(b, names, c, g, k + 1)
    <3> HIDE DEF g
    <3> QED BY <2>3 DEF LoadSteps
  <2> QED BY <2>4
<1> HIDE DEF T
<1>3. Nat \subseteq T
  BY <1>1, <1>2, NatSetInduction
<1> QED BY <1>3 DEF T

LEMMA LoadedIs ==
  ASSUME NEW b, NEW names \in Seq(Names), NEW c
  PROVE  \E l : /\ LoadSteps(b, names, c, l, Len(names))
               /\ Loaded(b, names, c) = IF l[Len(names)].wild THEN Touch(b, TRUE) ELSE l[Len(names)]
<1> DEFINE f == CHOOSE l : LoadSteps(b, names, c, l, Len(names))
<1>1. \E l : LoadSteps(b, names, c, l, Len(names))
  BY LenProperties, LoadStepsExist
<1>2. LoadSteps(b, names, c, f, Len(names))
  BY <1>1
<1>3. Loaded(b, names, c) = IF f[Len(names)].wild THEN Touch(b, TRUE) ELSE f[Len(names)]
  BY DEF Loaded, LoadSteps, LoadOne
<1> HIDE DEF f
<1> QED BY <1>2, <1>3

\* How many of the first k names are x.
Upto(names, k, x) == Cardinality({i \in 1..k : names[i] = x})

LEMMA UptoNext ==
  ASSUME NEW names, NEW k \in Nat, NEW x
  PROVE  /\ Upto(names, 0, x) = 0 /\ Upto(names, k, x) \in Nat
         /\ Upto(names, k + 1, x) = Upto(names, k, x) + IF names[k + 1] = x THEN 1 ELSE 0
<1> DEFINE A == {i \in 1..k : names[i] = x}
           B == {i \in 1..k + 1 : names[i] = x}
<1>1. IsFiniteSet(A) /\ Cardinality(A) \in Nat
  <2>1. IsFiniteSet(1..k)
    BY FS_Interval
  <2> QED BY <2>1, FS_Subset, FS_CardinalityType
<1>2. B = IF names[k + 1] = x THEN A \cup {k + 1} ELSE A
  <2>1. \A i : i \in 1..k + 1 <=> i \in 1..k \/ i = k + 1
    OBVIOUS
  <2> QED BY <2>1
<1>3. k + 1 \notin A
  OBVIOUS
<1>4. Cardinality(B) = Cardinality(A) + IF names[k + 1] = x THEN 1 ELSE 0
  <2> HIDE DEF A, B
  <2> QED BY <1>1, <1>2, <1>3, FS_AddElement
<1>5. Upto(names, 0, x) = 0
  <2>1. {i \in 1..0 : names[i] = x} = {}
    OBVIOUS
  <2> QED BY <2>1, FS_EmptySet DEF Upto
<1> QED BY <1>1, <1>4, <1>5 DEF Upto

\* load_entry: every record of the file is a person more, unless an unassigned link
\* has been followed.
LEMMA LoadKeepsList ==
  ASSUME NEW b, NEW s, IsList(b, s), ~b.wild, NEW names \in Seq(Names), NEW c \in Leftovers,
         Len(names) <= Cardinality(Nodes \ b.live)
  PROVE  \/ Loaded(b, names, c) = Touch(b, TRUE)
         \/ /\ \E t : IsList(Loaded(b, names, c), t)
            /\ Cardinality(b.live) <= Cardinality(Loaded(b, names, c).live)
            /\ \A x \in Names :
                 Count(Loaded(b, names, c), x) = Count(b, x) + Upto(names, Len(names), x)
<1> DEFINE m == Len(names)
           C == Cardinality(b.live)
<1>1. PICK l : /\ LoadSteps(b, names, c, l, m)
               /\ Loaded(b, names, c) = IF l[m].wild THEN Touch(b, TRUE) ELSE l[m]
  BY LoadedIs
<1>2. m \in Nat /\ \A k \in 1..m : names[k] \in Names
  BY LenProperties, ElementOfSeq
<1>3. b.live \in SUBSET Nodes
  BY DEF IsList, Heap
<1>4. C \in Nat /\ Cardinality(Nodes) \in Nat /\ C + m <= Cardinality(Nodes)
  <2>1. m <= Cardinality(Nodes \ b.live)
    OBVIOUS
  <2>2. /\ Cardinality(Nodes \ b.live) = Cardinality(Nodes) - C
        /\ Cardinality(Nodes) \in Nat /\ C \in Nat
    <3> HIDE DEF m
    <3> QED BY <1>3, Remaining
  <2> HIDE DEF m, C
  <2> QED BY <1>2, <2>1, <2>2
<1> HIDE DEF m, C
<1>5. l[0] = b /\ \A k \in 0..m - 1 : l[k + 1] = LoadOne(l[k], names[k + 1], c)
  <2>1. 0 \in 0..m
    BY <1>2
  <2>2. ASSUME NEW k \in 0..m - 1 PROVE l[k + 1] = LoadOne(l[k], names[k + 1], c)
    <3>1. k + 1 \in 0..m /\ k + 1 # 0 /\ (k + 1) - 1 = k
      BY <1>2
    <3> QED BY <1>1, <3>1 DEF LoadSteps
  <2> QED BY <1>1, <2>1, <2>2 DEF LoadSteps
<1> DEFINE Good(k) ==
             \/ l[k].wild
             \/ /\ \E t : IsList(l[k], t)
                /\ Cardinality(l[k].live) = C + k
                /\ \A x \in Names : Count(l[k], x) = Count(b, x) + Upto(names, k, x)
           T == {k \in Nat : k <= m => Good(k)}
<1>6. \A x : Count(b, x) \in Nat
  BY CountIs
<1>7. 0 \in T
  <2>1. \A x \in Names : Count(b, x) = Count(b, x) + Upto(names, 0, x)
    <3> TAKE x \in Names
    <3>1. Upto(names, 0, x) = 0
      BY UptoNext
    <3> QED BY <1>6, <3>1
  <2>2. Cardinality(b.live) = C + 0
    BY <1>4 DEF C
  <2> QED BY <1>5, <2>1, <2>2
<1>8. ASSUME NEW k \in Nat, k \in T PROVE k + 1 \in T
  <2> SUFFICES ASSUME k + 1 <= m PROVE Good(k + 1)
    OBVIOUS
  <2>1. k <= m /\ k \in 0..m - 1 /\ k + 1 \in 1..m
    BY <1>2
  <2>2. Good(k)
    BY <1>8, <2>1
  <2>3. l[k + 1] = LoadOne(l[k], names[k + 1], c)
    BY <1>5, <2>1
  <2> HIDE DEF T
  <2>4. CASE l[k].wild
    BY <2>3, <2>4 DEF LoadOne
  <2>5. CASE ~l[k].wild
    <3>1. PICK t : IsList(l[k], t)
      BY <2>2, <2>5
    <3>2. /\ Cardinality(l[k].live) = C + k
          /\ \A x \in Names : Count(l[k], x) = Count(b, x) + Upto(names, k, x)
      BY <2>2, <2>5
    <3> DEFINE r == PersonInsert(l[k], names[k + 1], c)
    <3>3. l[k + 1] = r
      BY <2>3, <2>5 DEF LoadOne
    <3>4. l[k].live \in SUBSET Nodes
      BY <3>1 DEF IsList, Heap
    <3>5. Nodes \ l[k].live # {}
      <4>1. Cardinality(l[k].live) < Cardinality(Nodes)
        BY <1>2, <1>4, <3>2
      <4> QED BY <3>4, <4>1, Remaining
    <3>6. /\ \E u : IsList(r, u)
          /\ Cardinality(r.live) = Cardinality(l[k].live) + 1
          /\ \A x \in Names :
               Count(r, x) = Count(l[k], x) + IF ~r.wild /\ x = names[k + 1] THEN 1 ELSE 0
      BY <1>2, <2>1, <2>5, <3>1, <3>5, PersonInserted
    <3> HIDE DEF r
    <3>7. Cardinality(r.live) = C + (k + 1)
      BY <1>4, <3>2, <3>6
    <3>8. ASSUME ~r.wild, NEW x \in Names
          PROVE  Count(r, x) = Count(b, x) + Upto(names, k + 1, x)
      <4>1. Count(r, x) = Count(l[k], x) + IF x = names[k + 1] THEN 1 ELSE 0
        BY <3>6, <3>8
      <4>2. Count(l[k], x) = Count(b, x) + Upto(names, k, x)
        BY <3>2
      <4>3. /\ Upto(names, k + 1, x) = Upto(names, k, x) + IF names[k + 1] = x THEN 1 ELSE 0
            /\ Upto(names, k, x) \in Nat /\ Count(b, x) \in Nat
        BY <1>6, UptoNext
      <4> QED BY <4>1, <4>2, <4>3
    <3> QED BY <3>3, <3>6, <3>7, <3>8
  <2> QED BY <2>4, <2>5
<1> HIDE DEF T, Good
<1>9. Nat \subseteq T
  BY <1>7, <1>8, NatSetInduction
<1>10. Good(m)
  BY <1>2, <1>9 DEF T
<1>11. C <= C + m
  BY <1>2, <1>4
<1> QED BY <1>1, <1>10, <1>11 DEF m, C, Good

-----------------------------------------------------------------------------
(* What every step does to the list, the size and the counts.              *)

LEMMA SameCounts ==
  ASSUME NEW b, NEW s, IsList(b, s), NEW r, IsList(r, s), r.name = b.name
  PROVE  \A y \in Names : Count(r, y) = Count(b, y)
<1> TAKE y \in Names
<1>1. Count(r, y) = Cardinality({j \in Elems(s) : r.name[j] = y})
  BY CountIs
<1>2. Count(b, y) = Cardinality({j \in Elems(s) : b.name[j] = y})
  BY CountIs
<1> QED BY <1>1, <1>2

LEMMA OneLess ==
  ASSUME NEW b, NEW s, IsList(b, s), NEW r, NEW t, IsList(r, t),
         NEW n \in Elems(s), Elems(t) = Elems(s) \ {n},
         \A j \in Elems(t) : r.name[j] = b.name[j]
  PROVE  \A y \in Names : /\ Count(r, y) = Count(b, y) - IF y = b.name[n] THEN 1 ELSE 0
                          /\ y = b.name[n] => Count(b, y) > 0
<1> TAKE y \in Names
<1> DEFINE B == {j \in Elems(s) : b.name[j] = y}
           R == {j \in Elems(t) : r.name[j] = y}
<1>1. IsFiniteSet(B) /\ Count(b, y) = Cardinality(B) /\ Count(b, y) \in Nat
  BY CountIs
<1>2. Count(r, y) = Cardinality(R)
  BY CountIs
<1>3. R = B \ {n} /\ (n \in B <=> y = b.name[n])
  OBVIOUS
<1> HIDE DEF B, R
<1>4. Cardinality(B \ {n}) = IF n \in B THEN Cardinality(B) - 1 ELSE Cardinality(B)
  BY <1>1, FS_RemoveElement
<1>5. n \in B => Cardinality(B) # 0
  BY <1>1, FS_EmptySet
<1> QED BY <1>1, <1>2, <1>3, <1>4, <1>5

LEMMA DeleteCounts ==
  ASSUME NEW b, NEW s, IsList(b, s), ~b.wild, NEW k \in 1..Len(s)
  PROVE  LET r == ListDelete(b, s[k])
         IN /\ \E t : IsList(r, t)
            /\ Cardinality(b.live) \in Nat \ {0}
            /\ \/ /\ Cardinality(r.live) = Cardinality(b.live) - 1
                  /\ b.name[s[k]] \in Names /\ Count(b, b.name[s[k]]) > 0
                  /\ \A y \in Names :
                       Count(r, y) = Count(b, y) - IF y = b.name[s[k]] THEN 1 ELSE 0
               \/ /\ Cardinality(r.live) = Cardinality(b.live)
                  /\ \A y \in Names : Count(r, y) = Count(b, y)
<1> DEFINE r == ListDelete(b, s[k])
           n == s[k]
<1>1. n \in Nodes /\ n \in Elems(s) /\ Elems(s) \subseteq b.live /\ b \in Heap
      /\ Elems(s) \subseteq Nodes
  BY ListBasics DEF IsList, Elems
<1>2. IsFiniteSet(b.live) /\ Cardinality(b.live) \in Nat \ {0}
  <2>1. IsFiniteSet(b.live)
    BY ListBasics
  <2> QED BY <1>1, <2>1, FS_CardinalityType, FS_EmptySet
<1>3. CASE r = Touch(b, TRUE)
  <2>1. IsList(r, s) /\ r.live = b.live /\ r.name = b.name
    BY <1>3, TouchKeepsList
  <2> HIDE DEF r
  <2>2. \A y \in Names : Count(r, y) = Count(b, y)
    BY <2>1, SameCounts
  <2> QED BY <1>2, <2>1, <2>2 DEF r
<1>4. CASE r # Touch(b, TRUE)
  <2> DEFINE t == Removed(s, k)
  <2>1. /\ IsList(r, t) /\ r.live = b.live \ {n} /\ Elems(t) = Elems(s) \ {n}
        /\ \A j \in Nodes \ {n} : r.name[j] = b.name[j]
    BY <1>4, DeleteKeepsList
  <2> HIDE DEF r, t, n
  <2>2. Cardinality(r.live) = Cardinality(b.live) - 1
    BY <1>1, <1>2, <2>1, FS_RemoveElement
  <2>3. b.name[n] \in Names
    BY <1>1 DEF Heap
  <2>4. \A y \in Names : /\ Count(r, y) = Count(b, y) - IF y = b.name[n] THEN 1 ELSE 0
                         /\ y = b.name[n] => Count(b, y) > 0
    <3>1. IsList(r, t) /\ n \in Elems(s) /\ Elems(t) = Elems(s) \ {n}
      BY <1>1, <2>1
    <3>2. \A j \in Elems(t) : r.name[j] = b.name[j]
      BY <1>1, <2>1
    <3> QED BY <3>1, <3>2, OneLess
  <2>5. Count(b, b.name[n]) > 0
    BY <2>3, <2>4
  <2> QED BY <1>2, <2>1, <2>2, <2>3, <2>4, <2>5 DEF r, n
<1> QED BY <1>3, <1>4

LEMMA TouchCounts ==
  ASSUME NEW b, NEW s, IsList(b, s), NEW wild \in BOOLEAN
  PROVE  /\ IsList(Touch(b, wild), s) /\ Touch(b, wild).live = b.live
         /\ \A y \in Names : Count(Touch(b, wild), y) = Count(b, y)
<1> DEFINE r == Touch(b, wild)
<1>1. IsList(r, s) /\ r.live = b.live /\ r.name = b.name
  BY TouchKeepsList
<1> HIDE DEF r
<1>2. \A y \in Names : Count(r, y) = Count(b, y)
  BY <1>1, SameCounts
<1> QED BY <1>1, <1>2 DEF r

Ascending(s) == \A i \in 1..Len(s) - 1 : s[i] <= s[i + 1]

LEMMA NamesAscend ==
  ASSUME NEW b, NEW s, IsList(b, s)
  PROVE  NamesOf(b) \in Seq(Names) /\ Ascending(NamesOf(b))
<1>1. /\ NamesOf(b) = [i \in 1..Len(s) |-> b.name[s[i]]]
      /\ NamesOf(b) \in Seq(Names) /\ Len(NamesOf(b)) = Len(s)
  BY ListedIs
<1>2. \A k \in 1..Len(s) - 1 : b.name[s[k]] <= b.name[s[k + 1]]
  BY DEF IsList, Follows
<1>3. Len(s) \in Nat
  BY ListBasics
<1>4. ASSUME NEW i \in 1..Len(s) - 1 PROVE NamesOf(b)[i] <= NamesOf(b)[i + 1]
  <2>1. i \in 1..Len(s) /\ i + 1 \in 1..Len(s)
    BY <1>3
  <2> QED BY <1>1, <1>2, <2>1
<1> QED BY <1>1, <1>4 DEF Ascending

\* A part of the names: what a save has written that was killed or had no room.
LEMMA Prefix ==
  ASSUME NEW u \in Seq(Names), Ascending(u), NEW k \in 0..Len(u)
  PROVE  /\ SubSeq(u, 1, k) \in Seq(Names) /\ Ascending(SubSeq(u, 1, k))
         /\ \A x : CountIn(SubSeq(u, 1, k), x) \in 0..CountIn(u, x)
<1> DEFINE v == SubSeq(u, 1, k)
<1>1. Len(u) \in Nat /\ DOMAIN u = 1..Len(u) /\ \A i \in 1..Len(u) : u[i] \in Names
  BY LenProperties, ElementOfSeq
<1>2. v = [i \in 1..k |-> u[i]]
  BY <1>1
<1> HIDE DEF v
<1>3. v \in [1..k -> Names]
  BY <1>1, <1>2
<1>4. v \in Seq(Names) /\ Len(v) = k /\ DOMAIN v = 1..k
  BY <1>1, <1>3
<1>5. Ascending(v)
  <2> SUFFICES ASSUME NEW i \in 1..k - 1 PROVE v[i] <= v[i + 1]
    BY <1>4 DEF Ascending
  <2>1. i \in 1..Len(u) - 1 /\ i \in 1..k /\ i + 1 \in 1..k
    BY <1>1
  <2> QED BY <1>2, <2>1 DEF Ascending
<1>6. ASSUME NEW x PROVE CountIn(v, x) \in 0..CountIn(u, x)
  <2> DEFINE A == {i \in DOMAIN v : v[i] = x}
             B == {i \in DOMAIN u : u[i] = x}
  <2>1. IsFiniteSet(B)
    <3>1. IsFiniteSet(1..Len(u))
      BY <1>1, FS_Interval
    <3> QED BY <1>1, <3>1, FS_Subset
  <2>2. A \subseteq B
    BY <1>1, <1>2, <1>4
  <2>3. CountIn(v, x) = Cardinality(A) /\ CountIn(u, x) = Cardinality(B)
    BY DEF CountIn
  <2> HIDE DEF A, B
  <2>4. Cardinality(A) <= Cardinality(B) /\ Cardinality(A) \in Nat /\ Cardinality(B) \in Nat
    BY <2>1, <2>2, FS_Subset, FS_CardinalityType
  <2> QED BY <2>3, <2>4
<1> QED BY <1>4, <1>5, <1>6 DEF v

-----------------------------------------------------------------------------
(* The invariant, and the abstract step that every step is.                *)

BookInv ==
  /\ \E s : IsList(book, s)
  /\ file \in Seq(Names) /\ Ascending(file)
  /\ size \in 0..Cardinality(book.live)

Entries == [x \in Names |-> Count(book, x)]
Stored == [x \in Names |-> CountIn(file, x)]

SameEntries == \A y \in Names : Count(book', y) = Count(book, y)
OneAdded(x) == \A y \in Names : Count(book', y) = Count(book, y) + IF y = x THEN 1 ELSE 0
OneRemoved(x) ==
  /\ Count(book, x) > 0
  /\ \A y \in Names : Count(book', y) = Count(book, y) - IF y = x THEN 1 ELSE 0

\* What a step of the address book does to the two bags.
BagStep ==
  \/ /\ UNCHANGED file
     /\ \/ SameEntries
        \/ \E x \in Names : OneAdded(x) \/ OneRemoved(x)
        \/ \A y \in Names : Count(book', y) = Count(book, y) + CountIn(file, y)
        \/ \A y \in Names : Count(book', y) = 0
  \/ /\ SameEntries \/ \A y \in Names : Count(book', y) = 0
     /\ \A y \in Names : CountIn(file', y) \in 0..Count(book, y)

LEMMA NobodyListed ==
  ASSUME NEW b, NEW s, IsList(b, s), Elems(s) = {}, NEW y
  PROVE  Count(b, y) = 0
<1>1. {n \in Elems(s) : b.name[n] = y} = {}
  OBVIOUS
<1> QED BY <1>1, CountIs, FS_EmptySet

LEMMA EmptyIsList ==
  /\ IsList(EmptyBook, <<>>)
  /\ Cardinality(EmptyBook.live) = 0
  /\ \A y \in Names : Count(EmptyBook, y) = 0
<1>1. EmptyBook \in Heap
  BY NamesAssumption DEF EmptyBook, Heap, Pointers
<1>2. /\ <<>> \in Seq(Nodes) /\ Len(<<>>) = 0 /\ Elems(<<>>) = {} /\ Distinct(<<>>)
  BY DEF Elems, Distinct
<1>3. /\ EmptyBook.front = Null /\ EmptyBook.live = {} /\ ~EmptyBook.wild
  BY DEF EmptyBook
<1>4. \A k \in 1..Len(<<>>) - 1 : Follows(EmptyBook, <<>>[k], <<>>[k + 1])
  BY <1>2
<1>5. IsList(EmptyBook, <<>>)
  BY <1>1, <1>2, <1>3, <1>4 DEF IsList
<1>6. \A y \in Names : Count(EmptyBook, y) = 0
  BY <1>2, <1>5, NobodyListed
<1> QED BY <1>3, <1>5, <1>6, FS_EmptySet

LEMMA LiveCount ==
  ASSUME NEW b, NEW s, IsList(b, s)
  PROVE  Cardinality(b.live) \in Nat
<1>1. IsFiniteSet(b.live)
  BY ListBasics
<1> QED BY <1>1, FS_CardinalityType

LEMMA InsertStep ==
  ASSUME BookInv, InsertEntry
  PROVE  BookInv' /\ BagStep
<1>1. PICK s : IsList(book, s)
  BY DEF BookInv
<1>2. PICK x \in Names, c \in Leftovers : book' = PersonInsert(book, x, c)
  BY DEF InsertEntry
<1>3. Room(1) /\ size' = size + 1 /\ file' = file /\ ~book.wild
  BY DEF InsertEntry, Choose
<1>4. Nodes \ book.live # {}
  <2>1. Cardinality(Nodes \ book.live) # 0
    BY <1>1, <1>3, Remaining DEF Room, IsList, Heap
  <2> QED BY <2>1, FS_EmptySet
<1>5. /\ \E t : IsList(book', t)
      /\ Cardinality(book'.live) = Cardinality(book.live) + 1
      /\ \A y \in Names : Count(book', y) =
            Count(book, y) + IF ~book'.wild /\ y = x THEN 1 ELSE 0
  BY <1>1, <1>2, <1>3, <1>4, PersonInserted
<1>6. size' \in 0..Cardinality(book'.live)
  BY <1>1, <1>3, <1>5, LiveCount DEF BookInv
<1>7. SameEntries \/ OneAdded(x)
  <2>1. \A y \in Names : Count(book, y) \in Nat
    BY <1>1, CountIs
  <2>2. CASE book'.wild
    BY <1>5, <2>1, <2>2 DEF SameEntries
  <2>3. CASE ~book'.wild
    BY <1>5, <2>3 DEF OneAdded
  <2> QED BY <2>2, <2>3
<1> QED BY <1>3, <1>5, <1>6, <1>7 DEF BookInv, BagStep

\* A step that follows the links and changes nothing else.
LEMMA LookStep ==
  ASSUME BookInv, NEW wild \in BOOLEAN, book' = Touch(book, wild)
  PROVE  /\ \E s : IsList(book', s)
         /\ book'.live = book.live /\ SameEntries
<1>1. PICK s : IsList(book, s)
  BY DEF BookInv
<1> QED BY <1>1, TouchCounts DEF SameEntries

LEMMA DeleteStep ==
  ASSUME BookInv, DeleteEntry
  PROVE  BookInv' /\ BagStep
<1>1. PICK s : IsList(book, s)
  BY DEF BookInv
<1>2. file' = file /\ ~book.wild
  BY DEF DeleteEntry, Choose
<1>3. CASE UNCHANGED <<book, size>>
  <2>1. BookInv'
    BY <1>2, <1>3 DEF BookInv
  <2>2. SameEntries
    BY <1>3 DEF SameEntries
  <2> QED BY <1>2, <2>1, <2>2 DEF BagStep
<1>4. CASE \E x \in Names :
             LET at == Find(book, Named(book, x))
             IN  IF at \in Nodes
                   THEN size # 0 /\ book' = ListDelete(book, at) /\ size' = size - 1
                   ELSE book' = Touch(book, at = Raw) /\ UNCHANGED size
  <2>1. PICK x \in Names :
          LET at == Find(book, Named(book, x))
          IN  IF at \in Nodes
                THEN size # 0 /\ book' = ListDelete(book, at) /\ size' = size - 1
                ELSE book' = Touch(book, at = Raw) /\ UNCHANGED size
    BY <1>4
  <2> DEFINE at == Find(book, Named(book, x))
  <2>2. Named(book, x) \subseteq Nodes
    BY DEF Named
  <2> HIDE DEF at
  <2>3. CASE at \in Nodes
    <3>1. PICK k \in 1..Len(s) : at = s[k]
      BY <1>1, <2>2, <2>3, SearchEnds DEF at
    <3>2. size # 0 /\ book' = ListDelete(book, s[k]) /\ size' = size - 1
      BY <2>1, <2>3, <3>1 DEF at
    <3>3. /\ \E t : IsList(book', t)
          /\ Cardinality(book.live) \in Nat \ {0}
          /\ \/ /\ Cardinality(book'.live) = Cardinality(book.live) - 1
                /\ book.name[s[k]] \in Names /\ Count(book, book.name[s[k]]) > 0
                /\ \A y \in Names :
                     Count(book', y) = Count(book, y) - IF y = book.name[s[k]] THEN 1 ELSE 0
             \/ /\ Cardinality(book'.live) = Cardinality(book.live)
                /\ \A y \in Names : Count(book', y) = Count(book, y)
      BY <1>1, <1>2, <3>2, DeleteCounts
    <3>4. size' \in 0..Cardinality(book'.live)
      BY <3>2, <3>3 DEF BookInv
    <3>5. SameEntries \/ \E y \in Names : OneRemoved(y)
      BY <3>3 DEF SameEntries, OneRemoved
    <3> QED BY <1>2, <3>3, <3>4, <3>5 DEF BookInv, BagStep
  <2>4. CASE at \notin Nodes
    <3>1. book' = Touch(book, at = Raw) /\ size' = size
      BY <2>1, <2>4 DEF at
    <3>3. (at = Raw) \in BOOLEAN
      OBVIOUS
    <3>4. (\E t : IsList(book', t)) /\ book'.live = book.live /\ SameEntries
      BY <3>1, <3>3, LookStep
    <3> QED BY <1>2, <3>1, <3>4 DEF BookInv, BagStep
  <2> QED BY <2>3, <2>4
<1> QED BY <1>3, <1>4 DEF DeleteEntry

LEMMA PrintStep ==
  ASSUME BookInv, PrintEntry \/ SearchEntry
  PROVE  BookInv' /\ BagStep
<1>1. file' = file /\ size' = size
  BY DEF PrintEntry, SearchEntry
<1>2. PICK S : book' = Touch(book, Find(book, S) = Raw)
  <2>1. CASE PrintEntry
    BY <2>1 DEF PrintEntry, WalksWild
  <2>2. CASE SearchEntry
    BY <2>2 DEF SearchEntry
  <2> QED BY <2>1, <2>2
<1>3. (Find(book, S) = Raw) \in BOOLEAN
  OBVIOUS
<1>4. (\E t : IsList(book', t)) /\ book'.live = book.live /\ SameEntries
  BY <1>2, <1>3, LookStep
<1> QED BY <1>1, <1>4 DEF BookInv, BagStep

LEMMA SaveStep ==
  ASSUME BookInv, SaveEntry
  PROVE  BookInv' /\ BagStep
<1>1. PICK s : IsList(book, s)
  BY DEF BookInv
<1>2. CASE UNCHANGED <<book, file>>
  <2>1. size' = size
    BY DEF SaveEntry
  <2> QED BY <1>2, <2>1 DEF BookInv, BagStep, SameEntries
<1>3. CASE /\ book' = Touch(book, WalksWild(book))
           /\ \E k \in 0..Len(NamesOf(book)) : file' = SubSeq(NamesOf(book), 1, k)
  <2>1. size' = size
    BY DEF SaveEntry
  <2>2. WalksWild(book) \in BOOLEAN
    BY DEF WalksWild
  <2>3. (\E t : IsList(book', t)) /\ book'.live = book.live /\ SameEntries
    BY <1>3, <2>2, LookStep
  <2>4. /\ file' \in Seq(Names) /\ Ascending(file')
        /\ \A y : CountIn(file', y) \in 0..CountIn(NamesOf(book), y)
    BY <1>1, <1>3, NamesAscend, Prefix
  <2> QED BY <2>1, <2>3, <2>4 DEF BookInv, BagStep, Count
<1> QED BY <1>2, <1>3 DEF SaveEntry

LEMMA LoadStep ==
  ASSUME BookInv, LoadEntry
  PROVE  BookInv' /\ BagStep
<1>1. PICK s : IsList(book, s)
  BY DEF BookInv
<1>2. file' = file /\ size' = size /\ ~book.wild
  BY DEF LoadEntry, Choose
<1>3. CASE UNCHANGED book
  BY <1>2, <1>3 DEF BookInv, BagStep, SameEntries
<1>4. CASE Room(Len(file)) /\ \E c \in Leftovers : book' = Loaded(book, file, c)
  <2>1. PICK c \in Leftovers : book' = Loaded(book, file, c)
    BY <1>4
  <2>2. Len(file) <= Cardinality(Nodes \ book.live)
    BY <1>4 DEF Room
  <2>3. file \in Seq(Names)
    BY DEF BookInv
  <2>4. \/ book' = Touch(book, TRUE)
        \/ /\ \E t : IsList(book', t)
           /\ Cardinality(book.live) <= Cardinality(book'.live)
           /\ \A x \in Names : Count(book', x) = Count(book, x) + Upto(file, Len(file), x)
    BY <1>1, <1>2, <2>1, <2>2, <2>3, LoadKeepsList
  <2>5. CASE book' = Touch(book, TRUE)
    <3>1. (\E t : IsList(book', t)) /\ book'.live = book.live /\ SameEntries
      BY <2>5, LookStep
    <3> QED BY <1>2, <3>1 DEF BookInv, BagStep
  <2>6. CASE book' # Touch(book, TRUE)
    <3>1. size' \in 0..Cardinality(book'.live)
      <4>1. Cardinality(book'.live) \in Nat /\ Cardinality(book.live) \in Nat
        BY <1>1, <2>4, <2>6, LiveCount
      <4>2. Cardinality(book.live) <= Cardinality(book'.live)
        BY <2>4, <2>6
      <4>3. size' \in 0..Cardinality(book.live)
        BY <1>2 DEF BookInv
      <4> HIDE DEF BookInv
      <4> QED BY <4>1, <4>2, <4>3
    <3>2. \A x : Upto(file, Len(file), x) = CountIn(file, x)
      <4>1. DOMAIN file = 1..Len(file)
        BY <2>3, LenProperties
      <4> QED BY <4>1 DEF Upto, CountIn
    <3> QED BY <1>2, <2>4, <2>6, <3>1, <3>2 DEF BookInv, BagStep
  <2> QED BY <2>5, <2>6
<1> QED BY <1>3, <1>4 DEF LoadEntry

\* The process ends, or is killed during a save.
LEMMA EndStep ==
  ASSUME BookInv, Restart \/ KilledInSave \/ OutOfMemory
  PROVE  BookInv' /\ BagStep
<1>1. book' = EmptyBook /\ size' = 0
  BY DEF Restart, KilledInSave, OutOfMemory, Restarted
<1>2. (\E s : IsList(book', s)) /\ size' \in 0..Cardinality(book'.live)
      /\ \A y \in Names : Count(book', y) = 0
  BY <1>1, EmptyIsList
<1>3. CASE file' = file
  BY <1>2, <1>3 DEF BookInv, BagStep
<1>4. CASE KilledInSave
  <2>1. PICK s : IsList(book, s)
    BY DEF BookInv
  <2>2. PICK k \in 0..Len(NamesOf(book)) : file' = SubSeq(NamesOf(book), 1, k)
    BY <1>4 DEF KilledInSave
  <2>3. /\ file' \in Seq(Names) /\ Ascending(file')
        /\ \A y : CountIn(file', y) \in 0..CountIn(NamesOf(book), y)
    BY <2>1, <2>2, NamesAscend, Prefix
  <2> QED BY <1>2, <2>3 DEF BookInv, BagStep, Count
<1> QED BY <1>3, <1>4 DEF Restart, OutOfMemory

LEMMA OtherStep ==
  ASSUME BookInv, UNCHANGED <<book, size, file>>
  PROVE  BookInv' /\ BagStep
BY DEF BookInv, BagStep, SameEntries

LEMMA InvariantStep ==
  ASSUME BookInv, [Next]_vars
  PROVE  BookInv' /\ BagStep
<1>1. CASE UNCHANGED <<book, size, file>>
  BY <1>1, OtherStep
<1>2. CASE Next
  BY <1>1, <1>2, InsertStep, PrintStep, DeleteStep, SaveStep, LoadStep, EndStep DEF Next, Leave, vars
<1> QED BY <1>1, <1>2 DEF vars

LEMMA InvariantInit ==
  ASSUME Init
  PROVE  BookInv
<1>1. /\ book = EmptyBook /\ size = 0 /\ file = <<>>
  BY DEF Init
<1>2. <<>> \in Seq(Names) /\ Ascending(<<>>)
  BY DEF Ascending
<1> QED BY <1>1, <1>2, EmptyIsList DEF BookInv

\* There is a list along which next and prev lead, through all nodes in use, in
\* the order of the names; a link that malloc left unassigned is at an end of it.
\* The size is at most the number of those nodes.
THEOREM BookInvariant ==
  Spec => []BookInv
<1>1. Init => BookInv
  BY InvariantInit
<1>2. BookInv /\ [Next]_vars => BookInv'
  BY InvariantStep
<1> QED BY <1>1, <1>2, PTL DEF Spec

\* list_insert_front and list_delete: no node is lost, none is freed while it is
\* linked, prev leads back the way next leads, and what malloc left in a link stays
\* at an end of the list.
THEOREM LinkedHolds ==
  Spec => []Linked
<1>1. BookInv => Linked
  <2> SUFFICES ASSUME BookInv, ~book.wild PROVE Linked
    BY DEF Linked
  <2> DEFINE w == Walk(book)
  <2>1. PICK s : IsList(book, s)
    BY DEF BookInv
  <2>2. Listed(book) = Elems(s) /\ book.live = Elems(s)
    BY <2>1, ListedIs DEF IsList
  <2>3. /\ Len(s) \in Nat /\ \A k \in 1..Len(s) : s[k] \in Nodes
        /\ End(book, s) \notin Nodes /\ Cardinality(Nodes) \in Nat
        /\ s # <<>> <=> Len(s) > 0
    BY <2>1, ListBasics, NodesAssumption
  <2>4. w = [k \in 0..Cardinality(Nodes) |-> IF k < Len(s) THEN s[k + 1] ELSE End(book, s)]
    BY <2>1, WalkIs
  <2> HIDE DEF w
  <2>5. ASSUME NEW i \in DOMAIN w, w[i] \in Nodes
        PROVE  IF i = 0 THEN book.prev[w[i]] \in {Null, Raw} ELSE book.prev[w[i]] = w[i - 1]
    <3>1. i \in 0..Cardinality(Nodes) /\ i < Len(s) /\ w[i] = s[i + 1]
      BY <2>3, <2>4, <2>5
    <3>2. CASE i = 0
      <4>1. w[i] = s[1] /\ s # <<>>
        BY <2>3, <3>1, <3>2
      <4> QED BY <2>1, <3>2, <4>1 DEF IsList, EndLinks
    <3>3. CASE i # 0
      <4>1. i \in 1..Len(s) - 1 /\ i - 1 \in 0..Cardinality(Nodes) /\ i - 1 < Len(s)
            /\ (i - 1) + 1 = i
        BY <2>3, <3>1, <3>3
      <4>2. w[i - 1] = s[i]
        BY <2>4, <4>1
      <4>3. book.prev[s[i + 1]] = s[i]
        BY <2>1, <4>1 DEF IsList, Follows
      <4> QED BY <3>1, <3>3, <4>2, <4>3
    <3> QED BY <3>2, <3>3
  <2>6. ASSUME w[0] \in Nodes, book.prev[w[0]] = Raw, WalksWild(book)
        PROVE  book.live = {w[0]}
    <3>1. w[0] = s[1] /\ s # <<>>
      BY <2>3, <2>4, <2>6
    <3>2. End(book, s) = Raw
      <4>1. Find(book, {}) = End(book, s)
        BY <2>1, FindIs
      <4> QED BY <2>6, <4>1 DEF WalksWild
    <3>3. Len(s) = 1
      BY <2>1, <2>6, <3>1, <3>2 DEF IsList, EndLinks, End
    <3>4. Elems(s) = {s[1]}
      BY <3>3 DEF Elems
    <3> QED BY <2>2, <3>1, <3>4
  <2> QED BY <2>2, <2>5, <2>6 DEF Linked, w
<1> QED BY <1>1, BookInvariant, PTL

\* The list and the file are sorted, whatever was inserted, deleted and loaded.
THEOREM SortedHolds ==
  Spec => []Sorted
<1>1. BookInv => Sorted
  BY NamesAscend DEF BookInv, Sorted, Ascending
<1> QED BY <1>1, BookInvariant, PTL

\* contacts->size is never more than what there is to delete, and never negative.
THEOREM SizeCoveredHolds ==
  Spec => []SizeCovered
<1>1. BookInv => SizeCovered
  BY DEF BookInv, SizeCovered
<1> QED BY <1>1, BookInvariant, PTL

\* The list and the file are two bags of names: every entry of the menu adds a
\* person, removes one, saves or loads the bag, or leaves both bags as they are.
THEOREM BookImplementsBags ==
  Spec => BookSpec
<1>1. Init => Abstract!BookInit
  <2> SUFFICES ASSUME Init PROVE Abstract!BookInit
    OBVIOUS
  <2>1. book = EmptyBook /\ file = <<>>
    BY DEF Init
  <2>2. ASSUME NEW x \in Names PROVE CountIn(<<>>, x) = 0
    <3>1. {i \in DOMAIN <<>> : <<>>[i] = x} = {}
      OBVIOUS
    <3> QED BY <3>1, FS_EmptySet DEF CountIn
  <2>3. \A x \in Names : CountIn(NamesOf(book), x) = 0
    BY <2>1, EmptyIsList DEF Count
  <2> QED BY <2>1, <2>2, <2>3 DEF Abstract!BookInit, Abstract!None
<1>2. BookInv /\ [Next]_vars => [Abstract!BookNext]_(Abstract!bookVars)
  <2> SUFFICES ASSUME BookInv, [Next]_vars
               PROVE  [Abstract!BookNext]_(Abstract!bookVars)
    OBVIOUS
  <2>0. \A y \in Names : Count(book, y) \in Nat
    BY CountIs DEF BookInv
  <2>1. BagStep
    BY InvariantStep
  <2>2. CASE UNCHANGED file /\ SameEntries
    BY <2>2 DEF SameEntries, Count, Abstract!bookVars
  <2>3. CASE UNCHANGED file /\ \E x \in Names : OneAdded(x)
    <3>1. PICK x \in Names : OneAdded(x)
      BY <2>3
    <3>2. Abstract!Add(x)
      <4> DEFINE e == Entries
      <4>1. /\ e = [y \in Names |-> CountIn(NamesOf(book), y)]
            /\ e' = [y \in Names |-> CountIn(NamesOf(book'), y)]
        BY DEF Entries, Count
      <4>2. \A y \in Names : e[y] \in Nat /\ e'[y] = e[y] + IF y = x THEN 1 ELSE 0
        BY <2>0, <3>1 DEF OneAdded, Entries
      <4> HIDE DEF e
      <4>3. \A y \in Names : e'[y] = IF y = x THEN e[y] + 1 ELSE e[y]
        BY <4>2
      <4>4. e' = [e EXCEPT ![x] = @ + 1]
        BY <4>1, <4>3
      <4> QED BY <2>3, <4>1, <4>4 DEF Abstract!Add
    <3> QED BY <3>2 DEF Abstract!BookNext
  <2>4. CASE UNCHANGED file /\ \E x \in Names : OneRemoved(x)
    <3>1. PICK x \in Names : OneRemoved(x)
      BY <2>4
    <3>2. Abstract!Remove(x)
      <4> DEFINE e == Entries
      <4>1. /\ e = [y \in Names |-> CountIn(NamesOf(book), y)]
            /\ e' = [y \in Names |-> CountIn(NamesOf(book'), y)]
        BY DEF Entries, Count
      <4>2. \A y \in Names : e[y] \in Nat /\ e'[y] = e[y] - IF y = x THEN 1 ELSE 0
        BY <2>0, <3>1 DEF OneRemoved, Entries
      <4> HIDE DEF e
      <4>3. \A y \in Names : e'[y] = IF y = x THEN e[y] - 1 ELSE e[y]
        BY <4>2
      <4>4. e' = [e EXCEPT ![x] = @ - 1]
        BY <4>1, <4>3
      <4>5. e[x] > 0
        BY <3>1, <4>1 DEF OneRemoved, Count
      <4> QED BY <2>4, <4>1, <4>4, <4>5 DEF Abstract!Remove
    <3> QED BY <3>2 DEF Abstract!BookNext
  <2>5. CASE /\ UNCHANGED file
             /\ \A y \in Names : Count(book', y) = Count(book, y) + CountIn(file, y)
    <3>1. Abstract!Load
      BY <2>5 DEF Count, Abstract!Load
    <3> QED BY <3>1 DEF Abstract!BookNext
  <2>6. CASE UNCHANGED file /\ \A y \in Names : Count(book', y) = 0
    <3>1. Abstract!End
      BY <2>6 DEF Count, Abstract!End, Abstract!None
    <3> QED BY <3>1 DEF Abstract!BookNext
  <2>7. CASE /\ SameEntries \/ \A y \in Names : Count(book', y) = 0
             /\ \A y \in Names : CountIn(file', y) \in 0..Count(book, y)
    <3>1. Abstract!Written
      BY <2>7 DEF Count, Abstract!Written
    <3>2. Abstract!Save \/ Abstract!EndInSave
      BY <2>7, <3>1 DEF SameEntries, Count, Abstract!Save, Abstract!EndInSave, Abstract!None
    <3> QED BY <3>2 DEF Abstract!BookNext
  <2> QED BY <2>1, <2>2, <2>3, <2>4, <2>5, <2>6, <2>7 DEF BagStep
<1> QED BY <1>1, <1>2, BookInvariant, PTL DEF Spec, BookSpec, Abstract!BookSpec
=============================================================================
