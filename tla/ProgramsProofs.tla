--------------------------- MODULE ProgramsProofs ---------------------------
(***************************************************************************)
(* What is proved of the programs that stand alone, for all values of      *)
(* their constants.  Each part has the invariant of one program; the       *)
(* theorems at the end state the properties of Programs.                   *)
(***************************************************************************)
EXTENDS Programs, SequenceElements

-----------------------------------------------------------------------------
(* lock.c: the counter.                                                    *)

LEMMA CounterLibrary ==
  /\ \A S : Counter!IsFiniteSet(S) <=> IsFiniteSet(S)
  /\ \A S : Counter!Cardinality(S) = Cardinality(S)
BY DEF Counter!IsFiniteSet, IsFiniteSet, Counter!Cardinality, Cardinality

CounterTypeOK ==
  /\ count \in Nat /\ old \in [Threads -> Nat] /\ i \in [Threads -> 0..Rounds]
  /\ pc \in [Threads -> {"start", "compare", "store", "reload", "done"}]

\* The rounds that have ended.
Rounded == {u \in Threads \X (1..Rounds) : u[2] <= i[u[1]]}

\* What a thread compares with is not ahead either.  A counter that is 0 has never
\* been stored to, and a thread that has stored does not go back to 0.
CounterInv ==
  /\ CounterTypeOK
  /\ IsFiniteSet(Rounded) /\ count <= Cardinality(Rounded)
  /\ \A t \in Threads :
       /\ pc[t] = "done" <=> i[t] = Rounds
       /\ old[t] <= Cardinality(Rounded)
       /\ i[t] > 0 => count > 0
       /\ pc[t] = "store" /\ i[t] > 0 => old[t] > 0
  /\ Counter!TwoSurvive

LEMMA InitCounterInv ==
  ASSUME Counter!Assumption, Counter!Init
  PROVE  CounterInv
<1> USE DEF Counter!Assumption, Counter!Init
<1>1. CounterTypeOK /\ \A t \in Threads : pc[t] = "start"
  BY DEF CounterTypeOK
<1>2. Rounded = {}
  BY DEF Rounded
<1>3. Counter!TwoSurvive
  BY <1>1 DEF Counter!TwoSurvive, Counter!AllDone
<1> QED BY <1>1, <1>2, <1>3, FS_EmptySet DEF CounterInv

\* 28-48: the end of a round is counted once.
LEMMA RoundCounts ==
  ASSUME Counter!Assumption, CounterInv, NEW t \in Threads, pc[t] = "store",
         i' = [i EXCEPT ![t] = @ + 1]
  PROVE  /\ IsFiniteSet(Rounded') /\ Cardinality(Rounded') = Cardinality(Rounded) + 1
         /\ i[t] \in 0..Rounds - 1 /\ i'[t] = i[t] + 1 /\ i' \in [Threads -> 0..Rounds]
         /\ Cardinality(Rounded) \in Nat
<1> USE DEF CounterInv, CounterTypeOK
<1>1. Rounds \in Nat /\ i[t] \in 0..Rounds /\ i[t] # Rounds
  BY DEF Counter!Assumption
<1>2. i[t] \in 0..Rounds - 1 /\ i'[t] = i[t] + 1 /\ i' \in [Threads -> 0..Rounds]
  BY <1>1
<1> DEFINE u == <<t, i[t] + 1>>
<1>3. u \notin Rounded
  BY <1>1, <1>2 DEF Rounded
<1>4. Rounded' = Rounded \cup {u}
  <2>1. ASSUME NEW x \in Threads, NEW r \in 1..Rounds
        PROVE  r <= i'[x] <=> (r <= i[x] \/ (x = t /\ r = i[t] + 1))
    BY <1>1, <1>2
  <2>2. u \in Rounded'
    BY <1>1, <1>2 DEF Rounded
  <2>3. ASSUME NEW v \in Threads \X (1..Rounds)
        PROVE  v \in Rounded' <=> (v \in Rounded \/ v = u)
    <3>1. PICK x \in Threads, r \in 1..Rounds : v = <<x, r>>
      OBVIOUS
    <3>2. v \in Rounded' <=> r <= i'[x]
      BY <3>1 DEF Rounded
    <3>3. v \in Rounded <=> r <= i[x]
      BY <3>1 DEF Rounded
    <3> QED BY <2>1, <3>1, <3>2, <3>3
  <2> QED BY <2>2, <2>3 DEF Rounded
<1>5. IsFiniteSet(Rounded') /\ Cardinality(Rounded') = Cardinality(Rounded) + 1
  BY <1>3, <1>4, FS_AddElement
<1> QED BY <1>2, <1>5, FS_CardinalityType

\* The store: what is stored is one more than what was compared.
LEMMA StoreKeeps ==
  ASSUME Counter!Assumption, CounterInv, NEW t \in Threads, Counter!Store(t)
  PROVE  CounterInv'
<1> USE DEF CounterInv
<1>1. /\ pc[t] = "store" /\ i' = [i EXCEPT ![t] = @ + 1]
      /\ pc' = [pc EXCEPT ![t] = IF i[t] + 1 < Rounds THEN "compare" ELSE "done"]
      /\ UNCHANGED old /\ count' = old[t] + 1
  BY DEF Counter!Store, Counter!EndRound
<1>2. /\ IsFiniteSet(Rounded') /\ Cardinality(Rounded') = Cardinality(Rounded) + 1
      /\ i[t] \in 0..Rounds - 1 /\ i'[t] = i[t] + 1 /\ i' \in [Threads -> 0..Rounds]
      /\ Cardinality(Rounded) \in Nat
  BY <1>1, RoundCounts
<1>3. Rounds \in Nat \ {0}
  BY DEF Counter!Assumption
<1>4. CounterTypeOK'
  BY <1>1, <1>2 DEF CounterTypeOK
<1>5. count' <= Cardinality(Rounded')
  BY <1>1, <1>2 DEF CounterTypeOK
<1>6. ASSUME NEW x \in Threads
      PROVE  /\ pc'[x] = "done" <=> i'[x] = Rounds
             /\ old'[x] <= Cardinality(Rounded')
             /\ i'[x] > 0 => count' > 0
             /\ pc'[x] = "store" /\ i'[x] > 0 => old'[x] > 0
  <2>1. old[x] \in Nat /\ old[t] \in Nat
    BY DEF CounterTypeOK
  <2>2. CASE x = t
    BY <1>1, <1>2, <1>3, <2>1, <2>2 DEF CounterTypeOK
  <2>3. CASE x # t
    BY <1>1, <1>2, <2>1, <2>3 DEF CounterTypeOK
  <2> QED BY <2>2, <2>3
<1>7. Counter!TwoSurvive'
  <2>1. old[t] \in Nat
    BY DEF CounterTypeOK
  <2>2. CASE i[t] = 0
    <3>1. Counter!AllDone' => Rounds = 1
      <4>1. Counter!AllDone' => i'[t] = Rounds
        BY <1>6 DEF Counter!AllDone
      <4> QED BY <1>2, <2>2, <4>1
    <3> QED BY <1>1, <2>1, <3>1 DEF Counter!TwoSurvive
  <2>3. CASE i[t] > 0
    BY <1>1, <2>1, <2>3 DEF Counter!TwoSurvive
  <2> QED BY <1>2, <2>2, <2>3
<1> QED BY <1>2, <1>4, <1>5, <1>6, <1>7

LEMMA CompareKeeps ==
  ASSUME Counter!Assumption, CounterInv, NEW t \in Threads,
         Counter!Start(t) \/ Counter!Compare(t) \/ Counter!Reload(t)
  PROVE  CounterInv'
<1> USE DEF CounterInv
<1>1. /\ UNCHANGED <<count, i>> /\ pc[t] # "done"
      /\ old' \in {old, [old EXCEPT ![t] = count]}
      /\ pc' \in {[pc EXCEPT ![t] = x] : x \in {"compare", "reload", "store"}}
      /\ pc'[t] = "store" => count = old[t] /\ UNCHANGED old
  BY DEF Counter!Start, Counter!Compare, Counter!Reload, CounterTypeOK
<1>2. CounterTypeOK'
  BY <1>1 DEF CounterTypeOK
<1>3. UNCHANGED Rounded
  BY <1>1 DEF Rounded
<1>4. ASSUME NEW x \in Threads
      PROVE  /\ pc'[x] = "done" <=> i'[x] = Rounds
             /\ old'[x] <= Cardinality(Rounded')
             /\ i'[x] > 0 => count' > 0
             /\ pc'[x] = "store" /\ i'[x] > 0 => old'[x] > 0
  BY <1>1, <1>3 DEF CounterTypeOK
<1>5. Counter!TwoSurvive'
  BY <1>1, <1>4 DEF Counter!TwoSurvive, Counter!AllDone
<1> QED BY <1>1, <1>2, <1>3, <1>4, <1>5

LEMMA CounterStutters ==
  ASSUME CounterInv, UNCHANGED <<count, old, i, pc>>
  PROVE  CounterInv'
BY DEF CounterInv, CounterTypeOK, Rounded, Counter!TwoSurvive, Counter!AllDone

LEMMA CounterKeeps ==
  ASSUME Counter!Assumption, CounterInv, Counter!Next
  PROVE  CounterInv'
<1>1. ASSUME NEW t \in Threads, Counter!ThreadStep(t) PROVE CounterInv'
  BY <1>1, StoreKeeps, CompareKeeps DEF Counter!ThreadStep
<1>2. CASE Counter!MainReturns \/ UNCHANGED Counter!vars
  BY <1>2, CounterStutters DEF Counter!MainReturns, Counter!vars
<1> QED BY <1>1, <1>2 DEF Counter!Next

-----------------------------------------------------------------------------


\* The operators of the library that EpollClient takes in are the library's.
LEMMA GeneratorLibrary ==
  /\ \A S : Generator!IsFiniteSet(S) <=> IsFiniteSet(S)
  /\ \A S : Generator!Cardinality(S) = Cardinality(S)
  /\ \A S : Generator!SetToSeqs(S) = SetToSeqs(S)
BY DEF Generator!IsFiniteSet, IsFiniteSet, Generator!Cardinality, Cardinality,
       Generator!SetToSeqs, SetToSeqs

GeneratorInv == Generator!TypeOK /\ IsFiniteSet(open) /\ Generator!OpenAreCounted /\ Generator!EventsAreOpen

LEMMA InitGeneratorInv ==
  ASSUME Generator!Assumption, Generator!Init
  PROVE  GeneratorInv
<1>1. Generator!TypeOK
  BY DEF Generator!Assumption, Generator!Init, Generator!TypeOK
<1>2. IsFiniteSet(open) /\ Generator!OpenAreCounted
  BY FS_EmptySet, GeneratorLibrary
     DEF Generator!Assumption, Generator!Init, Generator!OpenAreCounted
<1>3. Generator!EventsAreOpen
  BY DEF Generator!Init, Generator!EventsAreOpen
<1> QED BY <1>1, <1>2, <1>3 DEF GeneratorInv

\* 163-171: an event is handled, and its socket may be closed: the others of the
\* batch are about other sockets.
LEMMA NextEventKeeps ==
  ASSUME Generator!TypeOK, Generator!EventsAreOpen, step = "events", Generator!NextEvent,
         open \ {Generator!clientfd} \subseteq open'
  PROVE  /\ events' \in Seq([fd : Fds, is : {"in", "out"}])
         /\ step' \in {"open", "events"} /\ (step' = "events" => events' # <<>>)
         /\ Generator!clientfd \in open
         /\ Generator!EventsAreOpen'
<1> DEFINE R == [fd : Fds, is : {"in", "out"}]
<1>1. events \in Seq(R) /\ events # <<>>
  BY DEF Generator!TypeOK
<1>2. events' = Tail(events) /\ step' = IF Tail(events) = <<>> THEN "open" ELSE "events"
  BY DEF Generator!NextEvent
<1> HIDE DEF R
<1>3. /\ events' \in Seq(R) /\ Head(events) = events[1] /\ 1 \in 1..Len(events)
      /\ \A k \in 1..Len(events') : events'[k] = events[k + 1] /\ k + 1 \in 1..Len(events)
      /\ Len(events') \in Nat
  BY <1>1, <1>2, ElemsTail, LenProperties
<1>4. Generator!clientfd \in open
  BY <1>3 DEF Generator!EventsAreOpen, Generator!clientfd
<1>5. Generator!EventsAreOpen'
  <2> SUFFICES ASSUME NEW k \in 1..Len(events'), NEW j \in 1..Len(events')
               PROVE  /\ events'[k].fd \in open'
                      /\ events'[k].fd = events'[j].fd => k = j
    BY DEF Generator!EventsAreOpen
  <2>1. /\ events'[k] = events[k + 1] /\ k + 1 \in 1..Len(events)
        /\ events'[j] = events[j + 1] /\ j + 1 \in 1..Len(events)
    BY <1>3
  <2>2. events'[k].fd \in open /\ events'[k].fd # events[1].fd
    BY <1>3, <2>1 DEF Generator!EventsAreOpen
  <2>3. events'[k].fd = events'[j].fd => k + 1 = j + 1
    BY <2>1 DEF Generator!EventsAreOpen
  <2> QED BY <1>3, <2>2, <2>3 DEF Generator!clientfd
<1> QED BY <1>2, <1>3, <1>4, <1>5 DEF R

\* 122-127: a batch has at most one event of each open socket.
LEMMA EpollWaitKeeps ==
  ASSUME GeneratorInv, Generator!EpollWait
  PROVE  GeneratorInv'
<1> USE DEF GeneratorInv
<1> DEFINE R == [fd : Fds, is : {"in", "out"}]
<1>1. /\ step' = IF events' = <<>> THEN "open" ELSE "events"
      /\ UNCHANGED <<index, sockfd, connections, open, inbox, gone, full>>
  BY DEF Generator!EpollWait, Generator!kernelVars
<1>2. PICK batch \in SUBSET Generator!ReadyEvents : events' \in SetToSeqs(batch)
  BY GeneratorLibrary DEF Generator!EpollWait, Generator!kSubset
<1>3. \A e \in Generator!ReadyEvents : e \in R /\ e.fd \in open
  BY DEF Generator!ReadyEvents, Generator!TypeOK
<1>4. \A d, e \in Generator!ReadyEvents : d.fd = e.fd => d = e
  BY DEF Generator!ReadyEvents
<1>5. IsFiniteSet(batch)
  <2> DEFINE Fd == [e \in batch |-> e.fd]
  <2>1. Fd \in Injection(batch, open)
    BY <1>3, <1>4 DEF Injection, IsInjective
  <2> QED BY <2>1, FS_Injection
<1>6. events' \in Seq(batch) /\ Distinct(events') /\ Elems(events') = batch
  BY <1>2, <1>5, BatchElems
<1>7. \A k \in 1..Len(events') : events'[k] \in batch
  BY <1>6 DEF Elems
<1>8. Generator!TypeOK'
  <2>1. batch \subseteq R
    BY <1>3
  <2> HIDE DEF R
  <2>2. events' \in Seq(R)
    BY <1>6, <2>1
  <2> QED BY <1>1, <2>2 DEF Generator!TypeOK, R
<1>9. Generator!EventsAreOpen'
  <2> SUFFICES ASSUME NEW k \in 1..Len(events'), NEW j \in 1..Len(events')
               PROVE  /\ events'[k].fd \in open
                      /\ events'[k].fd = events'[j].fd => k = j
    BY <1>1 DEF Generator!EventsAreOpen
  <2>1. events'[k] \in Generator!ReadyEvents /\ events'[j] \in Generator!ReadyEvents
    BY <1>7
  <2> QED BY <1>3, <1>4, <1>6, <2>1 DEF Distinct
<1> QED BY <1>1, <1>8, <1>9 DEF Generator!OpenAreCounted

\* 133-171: what send, recv and the closes do to the counts.
LEMMA HandleKeeps ==
  ASSUME Generator!Assumption, GeneratorInv, Generator!Send \/ Generator!Recv \/ Generator!Disconnect \/ Generator!Error
  PROVE  GeneratorInv'
<1> USE DEF GeneratorInv
<1>1. CASE Generator!Send /\ step' = "ended" /\ UNCHANGED events
  BY <1>1 DEF Generator!Send, Generator!TypeOK, Generator!OpenAreCounted, Generator!EventsAreOpen
<1>2. CASE (Generator!Send /\ Generator!NextEvent) \/ Generator!Recv
  <2>1. /\ step = "events" /\ Generator!NextEvent
        /\ UNCHANGED <<index, sockfd, connections, open, gone>>
        /\ full' \in SUBSET open /\ inbox' \in [Fds -> 0..MaxInbox]
    <3>1. CASE Generator!Send
      BY <1>2, <3>1 DEF Generator!Send, Generator!Recv, Generator!TypeOK
    <3>2. CASE Generator!Recv
      <4>1. /\ sockfd \in open /\ inbox[sockfd] > 0
            /\ inbox' = [inbox EXCEPT ![sockfd] = @ - 1]
            /\ step = "events" /\ Generator!NextEvent
            /\ UNCHANGED <<index, sockfd, connections, open, gone, full>>
        BY <3>2 DEF Generator!Recv, Generator!Receiving
      <4>2. inbox[sockfd] \in 0..MaxInbox
        BY <4>1 DEF Generator!TypeOK
      <4>3. inbox[sockfd] - 1 \in 0..MaxInbox
        BY <4>1, <4>2 DEF Generator!Assumption
      <4> QED BY <4>1, <4>3 DEF Generator!TypeOK
    <3> QED BY <1>2, <3>1, <3>2
  <2>2. /\ events' \in Seq([fd : Fds, is : {"in", "out"}]) /\ Generator!EventsAreOpen'
        /\ step' \in {"open", "events"} /\ (step' = "events" => events' # <<>>)
    BY <2>1, NextEventKeeps
  <2> QED BY <2>1, <2>2 DEF Generator!TypeOK, Generator!OpenAreCounted
<1>3. CASE Generator!Disconnect \/ Generator!Error
  <2>1. /\ step = "events" /\ Generator!NextEvent /\ Generator!Close(Generator!clientfd)
        /\ UNCHANGED <<index, sockfd>>
        /\ connections' \in {connections, connections - 1}
    BY <1>3 DEF Generator!Disconnect, Generator!CountOff, Generator!Error, Generator!Receiving
  <2>2. /\ open' = open \ {Generator!clientfd} /\ gone' = gone \ {Generator!clientfd}
        /\ full' = full \ {Generator!clientfd} /\ inbox' = [inbox EXCEPT ![Generator!clientfd] = 0]
    BY <2>1 DEF Generator!Close
  <2>3. /\ events' \in Seq([fd : Fds, is : {"in", "out"}]) /\ Generator!EventsAreOpen'
        /\ step' \in {"open", "events"} /\ (step' = "events" => events' # <<>>)
        /\ Generator!clientfd \in open
    BY <2>1, <2>2, NextEventKeeps
  <2>4. Generator!TypeOK'
    BY <2>1, <2>2, <2>3 DEF Generator!TypeOK, Generator!Assumption
  <2>5. IsFiniteSet(open') /\ Cardinality(open') = Cardinality(open) - 1
    BY <2>2, <2>3, FS_RemoveElement
  <2>6. Generator!OpenAreCounted'
    BY <2>1, <2>5, FS_CardinalityType, GeneratorLibrary
       DEF Generator!OpenAreCounted, Generator!TypeOK, Generator!Assumption
  <2> QED BY <2>3, <2>4, <2>5, <2>6
<1> QED BY <1>1, <1>2, <1>3 DEF Generator!Send

LEMMA OpenKeeps ==
  ASSUME Generator!Assumption, GeneratorInv, Generator!Open \/ Generator!OpenNothing \/ Generator!OpenFails
  PROVE  GeneratorInv'
<1> USE DEF GeneratorInv
<1>1. index' \in 0..MaxPort - 1 /\ UNCHANGED <<events, inbox, gone>>
  BY DEF Generator!Assumption, Generator!Open, Generator!OpenNothing, Generator!OpenFails, Generator!NextIndex, Generator!kernelVars, Generator!TypeOK
<1>2. CASE Generator!Open
  <2>1. PICK f \in Fds \ open : /\ sockfd' = f /\ open' = open \cup {f}
                                /\ full' \in {full, full \cup {f}}
    BY <1>2 DEF Generator!Open
  <2>2. /\ connections < Cap /\ connections' = connections + 1
        /\ step' \in {"poll", "open"}
    BY <1>2 DEF Generator!Open
  <2>3. IsFiniteSet(open') /\ Cardinality(open') = Cardinality(open) + 1
    BY <2>1, FS_AddElement
  <2>4. Generator!TypeOK'
    BY <1>1, <2>1, <2>2 DEF Generator!TypeOK
  <2>5. Generator!OpenAreCounted'
    BY <2>2, <2>3, FS_CardinalityType, GeneratorLibrary
       DEF Generator!OpenAreCounted, Generator!Assumption, Generator!TypeOK
  <2>6. Generator!EventsAreOpen'
    BY <1>1, <2>1 DEF Generator!EventsAreOpen
  <2> QED BY <2>3, <2>4, <2>5, <2>6
<1>3. CASE Generator!OpenNothing \/ Generator!OpenFails
  <2>1. /\ UNCHANGED <<connections, open, full>> /\ sockfd' \in {sockfd, 0}
        /\ step' \in {"poll", "ended"}
    BY <1>3 DEF Generator!OpenNothing, Generator!OpenFails, Generator!kernelVars
  <2> QED BY <1>1, <2>1 DEF Generator!TypeOK, Generator!OpenAreCounted, Generator!EventsAreOpen
<1> QED BY <1>2, <1>3

LEMMA PeersKeep ==
  ASSUME Generator!Assumption, GeneratorInv, NEW f \in Fds, Generator!PeerStep(f)
  PROVE  GeneratorInv'
<1> USE DEF GeneratorInv
<1>1. UNCHANGED <<step, index, sockfd, connections, events, open>>
  BY DEF Generator!PeerStep, Generator!PeerSend, Generator!PeerRead, Generator!PeerGone
<1>2. inbox' \in [Fds -> 0..MaxInbox]
  <2>1. CASE Generator!PeerSend(f)
    <3>1. inbox[f] < MaxInbox /\ inbox' = [inbox EXCEPT ![f] = @ + 1]
      BY <2>1 DEF Generator!PeerSend
    <3>2. inbox[f] + 1 \in 0..MaxInbox
      BY <3>1 DEF Generator!TypeOK, Generator!Assumption
    <3> QED BY <3>1, <3>2 DEF Generator!TypeOK
  <2>2. CASE Generator!PeerRead(f) \/ Generator!PeerGone(f)
    BY <2>2 DEF Generator!PeerRead, Generator!PeerGone, Generator!TypeOK
  <2> QED BY <2>1, <2>2 DEF Generator!PeerStep
<1>3. gone' \in SUBSET open /\ full' \in SUBSET open
  BY DEF Generator!PeerStep, Generator!PeerSend, Generator!PeerRead, Generator!PeerGone, Generator!TypeOK
<1> QED BY <1>1, <1>2, <1>3 DEF Generator!TypeOK, Generator!OpenAreCounted, Generator!EventsAreOpen

LEMMA GeneratorStutters ==
  ASSUME GeneratorInv, UNCHANGED Generator!vars
  PROVE  GeneratorInv'
BY DEF Generator!vars, Generator!kernelVars, GeneratorInv, Generator!TypeOK,
       Generator!OpenAreCounted, Generator!EventsAreOpen

LEMMA GeneratorKeeps ==
  ASSUME Generator!Assumption, GeneratorInv, Generator!Next
  PROVE  GeneratorInv'
<1>1. CASE Generator!Open \/ Generator!OpenNothing \/ Generator!OpenFails
  BY <1>1, OpenKeeps
<1>2. CASE Generator!EpollWait
  BY <1>2, EpollWaitKeeps
<1>3. CASE Generator!Send \/ Generator!Recv \/ Generator!Disconnect \/ Generator!Error
  BY <1>3, HandleKeeps
<1>4. CASE \E f \in Fds : Generator!PeerStep(f)
  BY <1>4, PeersKeep
<1>5. CASE UNCHANGED Generator!vars
  BY <1>5, GeneratorStutters
<1> QED BY <1>1, <1>2, <1>3, <1>4, <1>5 DEF Generator!Next, Generator!ClientStep

-----------------------------------------------------------------------------

BytesOK == bitArr \in [0..Bloom!bitSize - 1 -> SUBSET (0..7)]

\* BitSet's constructor: the byte of every bit below N is in the array.
LEMMA ByteInArray ==
  ASSUME Bloom!Assumption, NEW x \in 0..N - 1
  PROVE  x \div 8 \in 0..Bloom!bitSize - 1 /\ x % 8 \in 0..7
BY SMTT(30) DEF Bloom!Assumption, Bloom!bitSize

\* BitSet::set, 24-31: the bit is set, no other is cleared, and the array keeps
\* its shape.
LEMMA SetBitKeeps ==
  ASSUME Bloom!Assumption, NEW x \in 0..N - 1,
         NEW arr \in [0..Bloom!bitSize - 1 -> SUBSET (0..7)]
  PROVE  /\ Bloom!SetBit(arr, x) \in [0..Bloom!bitSize - 1 -> SUBSET (0..7)]
         /\ x % 8 \in Bloom!SetBit(arr, x)[x \div 8]
         /\ \A b \in 0..Bloom!bitSize - 1 : arr[b] \subseteq Bloom!SetBit(arr, x)[b]
<1>1. x \div 8 \in 0..Bloom!bitSize - 1 /\ x % 8 \in 0..7
  BY ByteInArray
<1> DEFINE byte == x \div 8
           bit == x % 8
<1>2. Bloom!SetBit(arr, x) = [arr EXCEPT ![byte] = @ \cup {bit}]
  BY DEF Bloom!SetBit
<1> HIDE DEF byte, bit
<1>3. byte \in 0..Bloom!bitSize - 1 /\ bit \in 0..7
  BY <1>1 DEF byte, bit
<1>4. /\ Bloom!SetBit(arr, x) \in [0..Bloom!bitSize - 1 -> SUBSET (0..7)]
      /\ bit \in Bloom!SetBit(arr, x)[byte]
      /\ \A b \in 0..Bloom!bitSize - 1 : arr[b] \subseteq Bloom!SetBit(arr, x)[b]
  BY <1>2, <1>3
<1> QED BY <1>4 DEF byte, bit

\* BloomFilter::set, 130-140, then test of any key, 141-154.
LEMMA SetKeeps ==
  ASSUME Bloom!Assumption, BytesOK, NEW k \in Key, Bloom!Set(k)
  PROVE  /\ BytesOK'
         /\ Bloom!Test(k)'
         /\ \A j \in Key : Bloom!Test(j) => Bloom!Test(j)'
<1> DEFINE P(j, h) == Position[j][h]
           one == Bloom!SetBit(bitArr, P(k, 1))
           two == Bloom!SetBit(one, P(k, 2))
<1>1. \A j \in Key, h \in 1..3 : P(j, h) \in 0..N - 1
  BY DEF Bloom!Assumption
<1>2. /\ one \in [0..Bloom!bitSize - 1 -> SUBSET (0..7)]
      /\ P(k, 1) % 8 \in one[P(k, 1) \div 8]
      /\ \A b \in 0..Bloom!bitSize - 1 : bitArr[b] \subseteq one[b]
  <2>1. bitArr \in [0..Bloom!bitSize - 1 -> SUBSET (0..7)] /\ P(k, 1) \in 0..N - 1
    BY <1>1 DEF BytesOK
  <2> QED BY <2>1, SetBitKeeps
<1>3. /\ two \in [0..Bloom!bitSize - 1 -> SUBSET (0..7)]
      /\ P(k, 2) % 8 \in two[P(k, 2) \div 8]
      /\ \A b \in 0..Bloom!bitSize - 1 : one[b] \subseteq two[b]
  BY <1>1, <1>2, SetBitKeeps
<1>4. bitArr' = Bloom!SetBit(two, P(k, 3))
  BY DEF Bloom!Set
<1>5. /\ bitArr' \in [0..Bloom!bitSize - 1 -> SUBSET (0..7)]
      /\ P(k, 3) % 8 \in bitArr'[P(k, 3) \div 8]
      /\ \A b \in 0..Bloom!bitSize - 1 : two[b] \subseteq bitArr'[b]
  BY <1>1, <1>3, <1>4, SetBitKeeps
<1> HIDE DEF one, two
<1>6. \A j \in Key, h \in 1..3 : P(j, h) \div 8 \in 0..Bloom!bitSize - 1
  BY <1>1, ByteInArray
<1> HIDE DEF P
<1>7. \A b \in 0..Bloom!bitSize - 1 : bitArr[b] \subseteq bitArr'[b]
  BY <1>2, <1>3, <1>5
<1>8. BytesOK'
  BY <1>5 DEF BytesOK
<1>9. \A h \in 1..3 : P(k, h) % 8 \in bitArr'[P(k, h) \div 8]
  <2>1. P(k, 1) % 8 \in bitArr'[P(k, 1) \div 8]
    BY <1>2, <1>3, <1>5, <1>6
  <2>2. P(k, 2) % 8 \in bitArr'[P(k, 2) \div 8]
    BY <1>3, <1>5, <1>6
  <2>3. \A h \in 1..3 : h = 1 \/ h = 2 \/ h = 3
    OBVIOUS
  <2> QED BY <2>1, <2>2, <2>3, <1>5
<1>10. Bloom!Test(k)'
  BY <1>9 DEF Bloom!Test, Bloom!TestBit, P
<1>11. \A j \in Key : Bloom!Test(j) => Bloom!Test(j)'
  <2> SUFFICES ASSUME NEW j \in Key, Bloom!Test(j) PROVE Bloom!Test(j)'
    OBVIOUS
  <2>1. \A h \in 1..3 : P(j, h) % 8 \in bitArr[P(j, h) \div 8]
    <3>1. /\ P(j, 1) % 8 \in bitArr[P(j, 1) \div 8]
          /\ P(j, 2) % 8 \in bitArr[P(j, 2) \div 8]
          /\ P(j, 3) % 8 \in bitArr[P(j, 3) \div 8]
      BY DEF Bloom!Test, Bloom!TestBit, P
    <3>2. \A h \in 1..3 : h = 1 \/ h = 2 \/ h = 3
      OBVIOUS
    <3> QED BY <3>1, <3>2
  <2>2. \A h \in 1..3 : P(j, h) % 8 \in bitArr'[P(j, h) \div 8]
    BY <2>1, <1>6, <1>7
  <2> QED BY <2>2 DEF Bloom!Test, Bloom!TestBit, P
<1> QED BY <1>8, <1>10, <1>11

BloomInv == BytesOK /\ added \subseteq Key /\ Bloom!NoFalseNegatives

LEMMA InitBloomInv ==
  ASSUME Bloom!Init
  PROVE  BloomInv
BY DEF Bloom!Init, BloomInv, BytesOK, Bloom!NoFalseNegatives

LEMMA BloomStutters ==
  ASSUME BloomInv, UNCHANGED Bloom!vars
  PROVE  BloomInv'
BY DEF BloomInv, Bloom!vars, BytesOK, Bloom!NoFalseNegatives, Bloom!Test, Bloom!TestBit

LEMMA BloomKeeps ==
  ASSUME Bloom!Assumption, BloomInv, Bloom!Next
  PROVE  BloomInv'
<1>1. PICK k \in Key : Bloom!Set(k)
  BY DEF Bloom!Next
<1>2. BytesOK' /\ Bloom!Test(k)' /\ \A j \in Key : Bloom!Test(j) => Bloom!Test(j)'
  BY <1>1, SetKeeps DEF BloomInv
<1>3. added' = added \cup {k}
  BY <1>1 DEF Bloom!Set
<1> QED BY <1>2, <1>3 DEF BloomInv, Bloom!NoFalseNegatives

-----------------------------------------------------------------------------
(* http-connect.c: the HTTP client.                                        *)

Characters == {"a", "b", "s", "0"}

\* result is what recv has returned, and nothing is left to receive once the
\* server's close has ended the loop.
HttpInv ==
  /\ response \in Seq(Characters) /\ sent \in 0..Len(response) /\ received \in 0..sent
  /\ ended = "close" => received = sent /\ peer = "closed"
  /\ Http!Text =>
       /\ result = SubSeq(response, 1, received)
       /\ step = "done" => IsPrefix(Http!AfterHeader(result), file)

LEMMA HttpLibrary == \A s, t : Http!IsPrefix(s, t) <=> IsPrefix(s, t)
BY DEF Http!IsPrefix, IsPrefix

\* A sequence begins what is appended to it.
LEMMA PrefixOfConcat ==
  ASSUME NEW S, NEW s \in Seq(S), NEW t \in Seq(S)
  PROVE  IsPrefix(s, s \o t)
<1>1. Len(s) \in Nat /\ Len(t) \in Nat /\ Len(s \o t) = Len(s) + Len(t)
  BY LenProperties, ConcatProperties
<1>2. SubSeq(s \o t, 1, Len(s)) = SubSeq(s, 1, Len(s))
  <2>1. CASE s = <<>>
    BY <2>1, SubSeqEmpty
  <2>2. CASE s # <<>>
    <3>1. 1 \in 1..Len(s) /\ Len(s) \in 1..Len(s)
      BY <1>1, <2>2, EmptySeq
    <3> QED BY <3>1, SubSeqOfConcat1
  <2> QED BY <2>1, <2>2
<1> QED BY <1>1, <1>2 DEF IsPrefix

LEMMA InitHttpInv ==
  ASSUME Http!Assumption, Http!Init
  PROVE  HttpInv
<1>1. response \in Seq(Characters)
  <2>1. PICK n \in 0..MaxLength : response \in [1..n -> Characters]
    BY DEF Http!Init, Http!BoundedSeq, Http!SeqOf, Characters
  <2> QED BY <2>1 DEF Http!Assumption
<1>2. Len(response) \in Nat
  BY <1>1
<1>3. SubSeq(response, 1, 0) = <<>>
  BY SubSeqEmpty
<1>4. /\ sent = 0 /\ received = 0 /\ result = <<>>
      /\ ended # "close" /\ step = "resolve"
  BY DEF Http!Init
<1>5. sent \in 0..Len(response) /\ received \in 0..sent
  BY <1>2, <1>4
<1> QED BY <1>1, <1>3, <1>4, <1>5 DEF HttpInv

\* 121-127: without a zero byte in the response, a chunk is taken as it is, and
\* follows what was taken before.
LEMMA RecvKeeps ==
  ASSUME Http!Assumption, HttpInv, Http!Recv
  PROVE  HttpInv'
<1> USE DEF HttpInv
<1>1. /\ received < sent /\ step' = "select"
      /\ received' = received + Http!Taken
      /\ result' = result \o Http!UpToNul(Http!Arrived(Http!Taken))
      /\ UNCHANGED <<response, sent, peer, ended>>
  BY DEF Http!Recv, Http!Collect, Http!serverVars
<1>2. Len(response) \in Nat /\ received \in Nat /\ sent \in Nat
  OBVIOUS
<1> DEFINE n == Http!Taken
<1>3. n \in 1..sent - received
  <2>1. n \in {Chunk, sent - received} /\ \A y \in {Chunk, sent - received} : n <= y
    <3>1. Http!Taken = CHOOSE x \in {Chunk, sent - received} :
                         \A y \in {Chunk, sent - received} : x <= y
      BY DEF Http!Taken, Http!Min
    <3>2. \E x \in {Chunk, sent - received} : \A y \in {Chunk, sent - received} : x <= y
      BY <1>2 DEF Http!Assumption
    <3> QED BY <3>1, <3>2
  <2> QED BY <1>1, <1>2, <2>1 DEF Http!Assumption
<1> HIDE DEF n
<1>4. received' \in 0..sent' /\ (ended' = "close" => FALSE)
  BY <1>1, <1>2, <1>3 DEF n
<1>5. ASSUME Http!Text PROVE result' = SubSeq(response, 1, received')
  <2> DEFINE part == SubSeq(response, received + 1, received + n)
  <2>1. /\ \A k \in received + 1..received + n : response[k] \in Characters /\ response[k] # "0"
        /\ received + 1 \in Int /\ received + n \in Int
    BY <1>2, <1>3, <1>5, ElementOfSeq DEF Http!Text, Http!Contains
  <2>2. part \in Seq(Characters \ {"0"})
    BY <2>1, SubSeqProperties
  <2>3. \A k \in 1..Len(part) : part[k] # "0"
    BY <2>2, ElementOfSeq
  <2>4. Http!UpToNul(part) = part
    BY <2>3 DEF Http!UpToNul, Http!SelectInSeq
  <2>5. SubSeq(response, 1, received) \o part = SubSeq(response, 1, received + n)
    BY <1>2, <1>3, ConcatAdjacentSubSeq
  <2> QED BY <1>1, <1>5, <2>4, <2>5 DEF n, Http!Arrived
<1> QED BY <1>1, <1>4, <1>5 DEF Http!Text

\* saveHttp: the body is written, and at most what lies behind it.
LEMMA SaveHttpKeeps ==
  ASSUME HttpInv, Http!Save
  PROVE  HttpInv'
<1> USE DEF HttpInv
<1>1. /\ UNCHANGED <<response, sent, peer, received, result, ended>>
      /\ Http!HeaderEnd(result) > 0
      /\ step' = "done" => file' \in {Http!AfterHeader(result),
                                      Append(Http!AfterHeader(result), "?")}
  BY DEF Http!Save, Http!serverVars
<1>2. ASSUME Http!Text, step' = "done" PROVE IsPrefix(Http!AfterHeader(result), file')
  <2> DEFINE C == Characters \cup {"?"}
             body == Http!AfterHeader(result)
  <2>1. result \in Seq(Characters)
    BY <1>2, SubSeqProperties, ElementOfSeq
  <2>2. Http!HeaderEnd(result) \in 1..Len(result)
    <3> DEFINE I == {k \in 1..Len(result) : result[k] = "s"}
    <3>1. Http!HeaderEnd(result) = IF I # {} THEN Http!Min(I) ELSE 0
      BY DEF Http!HeaderEnd, Http!SelectInSeq
    <3>2. I # {} => Http!Min(I) \in I
      <4>1. I \in SUBSET Nat /\ Http!Min(I) = CHOOSE x \in I : \A y \in I : x <= y
        BY <2>1 DEF Http!Min
      <4> QED BY <4>1, NatMinimum
    <3> QED BY <1>1, <3>1, <3>2
  <2>3. body \in Seq(C)
    BY <2>1, <2>2, SubSeqProperties, ElementOfSeq DEF Http!AfterHeader
  <2>4. \A s \in Seq(C) : IsPrefix(s, s) /\ IsPrefix(s, Append(s, "?"))
    <3> TAKE s \in Seq(C)
    <3>1. IsPrefix(s, s)
      BY LenProperties DEF IsPrefix
    <3>2. Append(s, "?") = s \o <<"?">> /\ <<"?">> \in Seq(C)
      BY AppendIsConcat
    <3> QED BY <3>1, <3>2, PrefixOfConcat
  <2> QED BY <1>1, <1>2, <2>3, <2>4
<1>3. Http!AfterHeader(result') = Http!AfterHeader(result) /\ Http!Text' = Http!Text
  BY <1>1 DEF Http!Text
<1> QED BY <1>1, <1>2, <1>3

LEMMA HttpStutters ==
  ASSUME HttpInv, UNCHANGED Http!vars
  PROVE  HttpInv'
BY DEF HttpInv, Http!vars, Http!serverVars, Http!Text

LEMMA HttpKeeps ==
  ASSUME Http!Assumption, HttpInv, Http!Next
  PROVE  HttpInv'
<1> USE DEF HttpInv
<1>1. CASE Http!Transmit \/ Http!TransmitMore
  BY <1>1 DEF Http!Transmit, Http!TransmitMore, Http!Text
<1>2. CASE Http!HangUp
  BY <1>2 DEF Http!HangUp, Http!Text
<1>3. CASE \/ Http!Resolve \/ Http!Connect \/ Http!SelectReady \/ Http!SelectWaits
           \/ Http!SelectTimesOut \/ Http!RecvMore \/ Http!RecvClose \/ Http!RecvFails \/ Http!SaveNothing
  <2>1. /\ UNCHANGED <<response, sent, received, result, file>> /\ step' # "done"
        /\ \/ UNCHANGED <<ended, peer>>
           \/ UNCHANGED peer /\ ended' = "timeout"
           \/ UNCHANGED peer /\ ended' \in {"close", ended} /\ received = sent /\ peer = "closed"
           \/ ended' = "error"
    BY <1>3 DEF Http!Resolve, Http!Connect, Http!SelectReady, Http!BeginRecv, Http!SelectWaits,
                Http!SelectTimesOut, Http!RecvMore, Http!RecvClose, Http!AllRead,
                Http!RecvFails, Http!SaveNothing, Http!serverVars
  <2> QED BY <2>1 DEF Http!Text
<1>4. CASE UNCHANGED Http!vars
  BY <1>4, HttpStutters
<1> QED BY <1>1, <1>2, <1>3, <1>4, RecvKeeps, SaveHttpKeeps
        DEF Http!Next, Http!ProgramStep, Http!Loop

LEMMA HttpInvSaves ==
  ASSUME HttpInv
  PROVE  Http!SavedIsReceived
<1> USE DEF HttpInv
<1>1. Len(response) \in Nat /\ received \in Nat /\ sent \in Nat
  OBVIOUS
<1>2. IsPrefix(SubSeq(response, 1, received), SubSeq(response, 1, sent))
  <2>1. /\ SubSeq(response, 1, sent) \in Seq(Characters)
        /\ Len(SubSeq(response, 1, sent)) = sent /\ Len(SubSeq(response, 1, received)) = received
    BY <1>1, SubSeqProperties, ElementOfSeq
  <2>2. SubSeq(SubSeq(response, 1, received), 1, received)
        = SubSeq(SubSeq(response, 1, sent), 1, received)
    <3>1. CASE received = 0
      BY <3>1, SubSeqEmpty
    <3>2. CASE received # 0
      BY <1>1, <3>2, SubSeqOfSubSeq
    <3> QED BY <3>1, <3>2
  <2> QED BY <1>1, <2>1, <2>2 DEF IsPrefix
<1> QED BY <1>2, HttpLibrary DEF Http!SavedIsReceived

-----------------------------------------------------------------------------
(* mysql.c: the image store.                                               *)

Rows == Seq(Images \cup {NULL})

\* If all rows that were selected hold one image, then length and buffer are that
\* image's from the first row on, whichever row they come from.
ImagesInv ==
  /\ table \in Rows /\ result \in Rows
  /\ column \in 0..Len(result)
  /\ \A img \in Images : ToSet(result) = {img} =>
       /\ (step = "fetch" /\ column > 0) \/ step = "save" =>
            total = Len(img) /\ buffer = img
       /\ step = "saved" => copy = img

LEMMA StoreLibrary == \A s : Store!ToSet(s) = ToSet(s)
BY DEF Store!ToSet, ToSet

LEMMA InitImagesInv ==
  ASSUME Store!Assumption, Store!Init
  PROVE  ImagesInv
<1>1. table \in Rows
  <2>1. PICK n \in 0..MaxRows : table \in [1..n -> Images \cup {NULL}]
    BY DEF Store!Init, Store!BoundedSeq, Store!SeqOf
  <2> QED BY <2>1 DEF Store!Assumption, Rows
<1>2. result = <<>> /\ result \in Rows /\ Len(result) = 0
  BY DEF Store!Init, Rows
<1>3. step = "select" /\ column = 0
  BY DEF Store!Init
<1> QED BY <1>1, <1>2, <1>3 DEF ImagesInv

\* 150-168: with one image in all rows, the row at hand holds it.
LEMMA FetchKeeps ==
  ASSUME Store!Assumption, ImagesInv, Store!Fetch
  PROVE  ImagesInv'
<1> USE DEF ImagesInv
<1>1. /\ step = "fetch" /\ column < Len(result) /\ column' = column + 1
      /\ UNCHANGED <<table, result, copy>>
      /\ step' \in {"undefined", "fetch"}
  BY DEF Store!Fetch
<1>2. Len(result) \in Nat /\ DOMAIN result = 1..Len(result)
  BY DEF Rows
<1>3. column' \in 0..Len(result') /\ column' > 0
  BY <1>1, <1>2
<1>4. ASSUME NEW img \in Images, ToSet(result) = {img}
      PROVE  total' = Len(img) /\ buffer' = img
  <2>1. result[column + 1] \in ToSet(result)
    BY <1>1, <1>2 DEF ToSet
  <2>2. result[column + 1] = img /\ img # NULL
    BY <1>4, <2>1 DEF Store!Assumption
  <2>3. total' = Len(img)
        /\ buffer' = IF column = 0 THEN Store!Fetched(img) ELSE buffer
    BY <2>2 DEF Store!Fetch
  <2>4. Store!Fetched(img) = img
    BY DEF Store!Assumption, Store!Fetched
  <2>5. column # 0 => column > 0
    BY <1>1
  <2> QED BY <1>1, <1>4, <2>3, <2>4, <2>5
<1> QED BY <1>1, <1>3, <1>4

\* 53-73: what the file gets is the buffer, as far as it was written.
LEMMA SaveKeeps ==
  ASSUME Store!Assumption, ImagesInv, Store!Save
  PROVE  ImagesInv'
<1> USE DEF ImagesInv
<1>1. /\ step = "save" /\ step' = "saved" /\ copy' = Store!Found
      /\ UNCHANGED <<table, result, column>>
  BY DEF Store!Save
<1>2. ASSUME NEW img \in Images, ToSet(result) = {img}
      PROVE  copy' = img
  <2>1. total = Len(img) /\ buffer = img
    BY <1>1, <1>2
  <2>2. img \in Seq(0..255)
    BY DEF Store!Assumption
  <2>3. DOMAIN img = 1..Len(img) /\ img = [b \in 1..Len(img) |-> img[b]]
    BY <2>2, LenProperties
  <2>4. Store!Found = [b \in 1..Len(img) |-> img[b]]
    BY <2>1 DEF Store!Found
  <2> QED BY <1>1, <2>3, <2>4
<1> QED BY <1>1, <1>2

LEMMA ImagesStutters ==
  ASSUME ImagesInv, UNCHANGED Store!vars
  PROVE  ImagesInv'
BY DEF ImagesInv, Store!vars

LEMMA ImagesKeeps ==
  ASSUME Store!Assumption, ImagesInv, Store!Next
  PROVE  ImagesInv'
<1>1. CASE Store!Write
  <2>1. UNCHANGED <<step, result, column, total, buffer, copy>> /\ table' \in Rows
    BY <1>1 DEF ImagesInv, Store!Write, Rows
  <2> QED BY <2>1 DEF ImagesInv
<1>2. CASE Store!Select
  <2>1. /\ step' = "fetch" /\ column' = 0 /\ result' = table /\ table' = table
    BY <1>2 DEF Store!Select
  <2> QED BY <2>1 DEF ImagesInv, Rows
<1>3. CASE Store!FetchEnds
  <2>1. /\ step = "fetch" /\ column = Len(result) /\ step' = "save"
        /\ UNCHANGED <<table, result, column, total, buffer, copy>>
    BY <1>3 DEF Store!FetchEnds
  <2>2. ASSUME NEW img, ToSet(result) = {img} PROVE column > 0
    BY <2>1, <2>2, LenProperties DEF ImagesInv, Rows, ToSet
  <2> QED BY <2>1, <2>2 DEF ImagesInv
<1>4. CASE Store!SelectFails \/ Store!SaveFails \/ Store!SaveAstray \/ Store!Restart
  <2>1. /\ step' \in {"failed", "undefined", "select"}
        /\ UNCHANGED <<table, result, column>>
    BY <1>4 DEF Store!SelectFails, Store!SaveFails, Store!SaveAstray, Store!Restart
  <2> QED BY <2>1 DEF ImagesInv
<1>5. CASE UNCHANGED Store!vars
  BY <1>5, ImagesStutters
<1> QED BY <1>1, <1>2, <1>3, <1>4, <1>5, FetchKeeps, SaveKeeps DEF Store!Next

-----------------------------------------------------------------------------
(* dns.c: the recursive functions of the DNS client.                       *)

\* The three recursions, one by each kind: the names of a message, the ends of its
\* names and the labels of a host name.
NoRound(kind, m) ==
  CASE kind = "names" -> [p \in 0..Len(m) - 1 |-> <<>>]
    [] kind = "ends" -> [p \in 0..Len(m) - 1 |-> p + 1]
    [] kind = "labels" -> [written |-> <<>>, label |-> <<>>]
OneRound(kind, m, k, x) ==
  CASE kind = "names" -> Dns!ReadName(m, x)
    [] kind = "ends" -> Dns!Skip(m, x)
    [] kind = "labels" -> Dns!Read(m[k], x)
RoundsFrom(kind, m, f, n) ==
  f = [k \in 0..n |-> IF k = 0 THEN NoRound(kind, m) ELSE OneRound(kind, m, k, f[k - 1])]

LEMMA RoundsExist ==
  ASSUME NEW kind, NEW m, NEW n \in Nat
  PROVE  \E f : RoundsFrom(kind, m, f, n)
<1> DEFINE T == {k \in Nat : \E f : RoundsFrom(kind, m, f, k)}
<1>1. 0 \in T
  <2> DEFINE f == [k \in 0..0 |-> NoRound(kind, m)]
  <2>1. f = [k \in 0..0 |-> IF k = 0 THEN NoRound(kind, m) ELSE OneRound(kind, m, k, f[k - 1])]
    <3>1. \A k \in 0..0 : k = 0
      OBVIOUS
    <3> QED BY <3>1
  <2> QED BY <2>1 DEF RoundsFrom
<1>2. ASSUME NEW n1 \in Nat, n1 \in T PROVE n1 + 1 \in T
  <2>1. PICK f : RoundsFrom(kind, m, f, n1)
    BY <1>2
  <2> DEFINE next == OneRound(kind, m, n1 + 1, f[n1])
             g == [k \in 0..n1 + 1 |-> IF k = n1 + 1 THEN next ELSE f[k]]
  <2>2. ASSUME NEW k \in 0..n1 + 1
        PROVE  g[k] = IF k = 0 THEN NoRound(kind, m) ELSE OneRound(kind, m, k, g[k - 1])
    <3>1. CASE k = 0
      <4>1. 0 \in 0..n1 /\ 0 # n1 + 1
        OBVIOUS
      <4> QED BY <2>1, <3>1, <4>1 DEF RoundsFrom
    <3>2. CASE k \in 1..n1
      <4>1. k \in 0..n1 /\ k - 1 \in 0..n1 + 1 /\ k # 0 /\ k # n1 + 1 /\ k - 1 # n1 + 1
        BY <3>2
      <4>2. g[k] = f[k] /\ g[k - 1] = f[k - 1]
        BY <4>1
      <4>3. f[k] = OneRound(kind, m, k, f[k - 1])
        BY <2>1, <4>1 DEF RoundsFrom
      <4> QED BY <4>1, <4>2, <4>3
    <3>3. CASE k = n1 + 1
      <4>1. k - 1 = n1 /\ n1 \in 0..n1 + 1 /\ n1 # n1 + 1 /\ k # 0
        BY <3>3
      <4> QED BY <3>3, <4>1
    <3>4. k = 0 \/ k \in 1..n1 \/ k = n1 + 1
      OBVIOUS
    <3> QED BY <3>1, <3>2, <3>3, <3>4
  <2>3. g = [k \in 0..n1 + 1 |-> IF k = 0 THEN NoRound(kind, m) ELSE OneRound(kind, m, k, g[k - 1])]
    BY <2>2
  <2>4. RoundsFrom(kind, m, g, n1 + 1)
    <3> HIDE DEF g
    <3> QED BY <2>3 DEF RoundsFrom
  <2> QED BY <2>4
<1> HIDE DEF T
<1>3. Nat \subseteq T
  BY <1>1, <1>2, NatSetInduction
<1> QED BY <1>3 DEF T

\* A round of dnsParseName at one offset.
LEMMA NamesAre ==
  ASSUME NEW m, Len(m) \in Nat
  PROVE  /\ \A p \in 0..Len(m) - 1 : Dns!NamesIn(m)[0][p] = <<>>
         /\ \A d \in 1..Len(m), p \in 0..Len(m) - 1 :
              Dns!NamesIn(m)[d][p] =
                IF Dns!Byte(m, p) = 0 THEN <<>>
                ELSE IF Dns!IsPointer(Dns!Byte(m, p)) THEN Dns!NamesIn(m)[d - 1][Dns!Byte(m, p + 1)]
                ELSE SubSeq(m, p + 2, p + 1 + Dns!Byte(m, p))
                     \o Dns!Separator(Dns!Byte(m, p + 1 + Dns!Byte(m, p)))
                     \o Dns!NamesIn(m)[d - 1][p + 1 + Dns!Byte(m, p)]
<1> DEFINE Eq(f) == f = [k \in 0..Len(m) |-> IF k = 0 THEN [q \in 0..Len(m) - 1 |-> <<>>]
                                             ELSE Dns!ReadName(m, f[k - 1])]
<1>1. \A f : RoundsFrom("names", m, f, Len(m)) <=> Eq(f)
  BY DEF RoundsFrom, NoRound, OneRound
<1>2. \E f : Eq(f)
  BY <1>1, RoundsExist
<1>3. Dns!NamesIn(m) = CHOOSE f : Eq(f)
  BY DEF Dns!NamesIn
<1>4. Eq(Dns!NamesIn(m))
  <2> HIDE DEF Eq
  <2> QED BY <1>2, <1>3
<1>5. \A p \in 0..Len(m) - 1 : Dns!NamesIn(m)[0][p] = <<>>
  <2>1. 0 \in 0..Len(m)
    OBVIOUS
  <2> QED BY <1>4, <2>1
<1>6. \A d \in 1..Len(m) : Dns!NamesIn(m)[d] = Dns!ReadName(m, Dns!NamesIn(m)[d - 1])
  <2>1. \A d \in 1..Len(m) : d \in 0..Len(m) /\ d # 0
    OBVIOUS
  <2> QED BY <1>4, <2>1
<1> QED BY <1>5, <1>6 DEF Dns!ReadName

\* A round of the loop that skips a name.
LEMMA EndsAre ==
  ASSUME NEW m, Len(m) \in Nat
  PROVE  /\ \A p \in 0..Len(m) - 1 : Dns!EndsIn(m)[0][p] = p + 1
         /\ \A d \in 1..Len(m), p \in 0..Len(m) - 1 :
              Dns!EndsIn(m)[d][p] = IF Dns!Byte(m, p) = 0 THEN p + 1
                                    ELSE Dns!EndsIn(m)[d - 1][p + 1 + Dns!Byte(m, p)]
<1> DEFINE Eq(f) == f = [k \in 0..Len(m) |-> IF k = 0 THEN [q \in 0..Len(m) - 1 |-> q + 1]
                                             ELSE Dns!Skip(m, f[k - 1])]
<1>1. \A f : RoundsFrom("ends", m, f, Len(m)) <=> Eq(f)
  BY DEF RoundsFrom, NoRound, OneRound
<1>2. \E f : Eq(f)
  BY <1>1, RoundsExist
<1>3. Dns!EndsIn(m) = CHOOSE f : Eq(f)
  BY DEF Dns!EndsIn
<1>4. Eq(Dns!EndsIn(m))
  <2> HIDE DEF Eq
  <2> QED BY <1>2, <1>3
<1>5. \A p \in 0..Len(m) - 1 : Dns!EndsIn(m)[0][p] = p + 1
  <2>1. 0 \in 0..Len(m)
    OBVIOUS
  <2> QED BY <1>4, <2>1
<1>6. \A d \in 1..Len(m) : Dns!EndsIn(m)[d] = Dns!Skip(m, Dns!EndsIn(m)[d - 1])
  <2>1. \A d \in 1..Len(m) : d \in 0..Len(m) /\ d # 0
    OBVIOUS
  <2> QED BY <1>4, <2>1
<1>7. ASSUME NEW d \in 1..Len(m), NEW p \in 0..Len(m) - 1
      PROVE  Dns!EndsIn(m)[d][p] = IF Dns!Byte(m, p) = 0 THEN p + 1
                                   ELSE Dns!EndsIn(m)[d - 1][p + 1 + Dns!Byte(m, p)]
  <2> DEFINE x == Dns!EndsIn(m)[d - 1]
  <2>1. Dns!EndsIn(m)[d] = Dns!Skip(m, x)
    BY <1>6
  <2> HIDE DEF x
  <2>2. Dns!Skip(m, x)[p] = IF Dns!Byte(m, p) = 0 THEN p + 1 ELSE x[p + 1 + Dns!Byte(m, p)]
    BY Zenon DEF Dns!Skip
  <2>3. Dns!EndsIn(m)[d][p] = IF Dns!Byte(m, p) = 0 THEN p + 1 ELSE x[p + 1 + Dns!Byte(m, p)]
    BY <2>1, <2>2, Zenon
  <2> QED BY <2>3, Zenon DEF x
<1> HIDE DEF Eq
<1> QED BY <1>5, <1>7, Zenon

\* A character of the host name.
LEMMA LabelsAre ==
  ASSUME NEW h, Len(h) \in Nat
  PROVE  /\ Dns!LabelsOf(h)[0] = [written |-> <<>>, label |-> <<>>]
         /\ \A k \in 1..Len(h) : Dns!LabelsOf(h)[k] = Dns!Read(h[k], Dns!LabelsOf(h)[k - 1])
<1> DEFINE Eq(f) == f = [k \in 0..Len(h) |-> IF k = 0 THEN [written |-> <<>>, label |-> <<>>]
                                             ELSE Dns!Read(h[k], f[k - 1])]
<1>1. \A f : RoundsFrom("labels", h, f, Len(h)) <=> Eq(f)
  BY DEF RoundsFrom, NoRound, OneRound
<1>2. \E f : Eq(f)
  BY <1>1, RoundsExist
<1>3. Dns!LabelsOf(h) = CHOOSE f : Eq(f)
  BY DEF Dns!LabelsOf
<1>4. Eq(Dns!LabelsOf(h))
  <2> HIDE DEF Eq
  <2> QED BY <1>2, <1>3
<1>5. /\ 0 \in 0..Len(h)
      /\ \A k \in 1..Len(h) : k \in 0..Len(h) /\ k # 0
  OBVIOUS
<1> QED BY <1>4, <1>5

-----------------------------------------------------------------------------
(* dns.c, 81-117: how a host name is encoded.                              *)

\* What comes at offset o of the question: the length of the label that begins
\* there, in the place of the dot before it, or a character.
NextDot(h, o) == CHOOSE j \in o + 1..Len(h) + 1 :
                   /\ j = Len(h) + 1 \/ h[j] = Dns!Dot
                   /\ \A k \in o + 1..j - 1 : h[k] # Dns!Dot
Coded(h, o) == IF o = 0 \/ h[o] = Dns!Dot THEN NextDot(h, o) - o - 1 ELSE h[o]

LEMMA NextDotIs ==
  ASSUME NEW h, Len(h) \in Nat, NEW o \in 0..Len(h), NEW j \in o + 1..Len(h) + 1,
         j = Len(h) + 1 \/ h[j] = Dns!Dot, \A k \in o + 1..j - 1 : h[k] # Dns!Dot
  PROVE  NextDot(h, o) = j
<1> DEFINE P(l) == /\ l = Len(h) + 1 \/ h[l] = Dns!Dot
                   /\ \A k \in o + 1..l - 1 : h[k] # Dns!Dot
<1>1. ASSUME NEW l \in o + 1..Len(h) + 1, P(l) PROVE l = j
  <2>1. CASE l < j
    BY <1>1, <2>1
  <2>2. CASE j < l
    BY <1>1, <2>2
  <2> QED BY <2>1, <2>2
<1>2. P(j)
  OBVIOUS
<1>3. NextDot(h, o) = CHOOSE l \in o + 1..Len(h) + 1 : P(l)
  BY DEF NextDot
<1> HIDE DEF P
<1> QED BY <1>1, <1>2, <1>3

LEMMA NextDotExists ==
  ASSUME NEW h, Len(h) \in Nat, NEW o \in 0..Len(h)
  PROVE  /\ NextDot(h, o) \in o + 1..Len(h) + 1
         /\ NextDot(h, o) = Len(h) + 1 \/ h[NextDot(h, o)] = Dns!Dot
         /\ \A k \in o + 1..NextDot(h, o) - 1 : h[k] # Dns!Dot
<1> DEFINE D == {j \in o + 1..Len(h) + 1 : j = Len(h) + 1 \/ h[j] = Dns!Dot}
<1>1. D \in SUBSET Nat /\ Len(h) + 1 \in D
  OBVIOUS
<1>2. PICK j \in D : \A k \in D : j <= k
  <2> HIDE DEF D
  <2> QED BY <1>1, NatMinimum
<1>3. \A k \in o + 1..j - 1 : h[k] # Dns!Dot
  BY <1>2
<1>4. NextDot(h, o) = j
  BY <1>2, <1>3, NextDotIs
<1> QED BY <1>2, <1>3, <1>4

LEMMA ThreeJoined ==
  ASSUME NEW S, NEW s1 \in Seq(S), NEW s2 \in Seq(S), NEW s3 \in Seq(S)
  PROVE  /\ s1 \o s2 \o s3 \in Seq(S)
         /\ Len(s1 \o s2 \o s3) = Len(s1) + Len(s2) + Len(s3)
         /\ \A k \in 1..Len(s1) : (s1 \o s2 \o s3)[k] = s1[k]
         /\ \A k \in 1..Len(s2) : (s1 \o s2 \o s3)[Len(s1) + k] = s2[k]
         /\ \A k \in 1..Len(s3) : (s1 \o s2 \o s3)[Len(s1) + Len(s2) + k] = s3[k]
<1>1. Len(s1) \in Nat /\ Len(s2) \in Nat /\ Len(s3) \in Nat
  BY LenProperties
<1>2. /\ s1 \o s2 \in Seq(S) /\ Len(s1 \o s2) = Len(s1) + Len(s2)
      /\ \A k \in 1..Len(s1) + Len(s2) : (s1 \o s2)[k] = IF k <= Len(s1) THEN s1[k] ELSE s2[k - Len(s1)]
  BY ConcatProperties
<1> DEFINE s12 == s1 \o s2
<1> HIDE DEF s12
<1>3. /\ s12 \o s3 \in Seq(S) /\ Len(s12 \o s3) = Len(s12) + Len(s3)
      /\ \A k \in 1..Len(s12) + Len(s3) : (s12 \o s3)[k] = IF k <= Len(s12) THEN s12[k] ELSE s3[k - Len(s12)]
  BY <1>2, ConcatProperties DEF s12
<1>4. Len(s12) = Len(s1) + Len(s2)
  BY <1>2 DEF s12
<1> DEFINE s123 == s12 \o s3
<1> HIDE DEF s123
<1>5. \A k \in 1..Len(s1) : s123[k] = s1[k]
  BY <1>1, <1>2, <1>3, <1>4 DEF s12, s123
<1>6. \A k \in 1..Len(s2) : s123[Len(s1) + k] = s2[k]
  <2> TAKE k \in 1..Len(s2)
  <2>1. Len(s1) + k \in 1..Len(s1) + Len(s2) /\ ~(Len(s1) + k <= Len(s1)) /\ Len(s1) + k - Len(s1) = k
    BY <1>1
  <2>2. s12[Len(s1) + k] = s2[k]
    BY <1>2, <2>1 DEF s12
  <2>3. Len(s1) + k \in 1..Len(s12) + Len(s3) /\ Len(s1) + k <= Len(s12)
    BY <1>1, <1>4
  <2> QED BY <1>3, <2>2, <2>3 DEF s123
<1>7. \A k \in 1..Len(s3) : s123[Len(s1) + Len(s2) + k] = s3[k]
  <2> TAKE k \in 1..Len(s3)
  <2> DEFINE j == Len(s1) + Len(s2) + k
  <2>1. j \in 1..Len(s12) + Len(s3) /\ ~(j <= Len(s12)) /\ j - Len(s12) = k
    BY <1>1, <1>4
  <2> HIDE DEF j
  <2>2. s123[j] = s3[k]
    BY <1>3, <2>1 DEF s123
  <2> QED BY <2>2 DEF j
<1> QED BY <1>3, <1>4, <1>5, <1>6, <1>7 DEF s12, s123

\* The label that has begun after k characters, and what is written before it.
ReadTo(h, k) ==
  LET l == Dns!LabelsOf(h)[k].label
      w == Dns!LabelsOf(h)[k].written
      s == k - Len(l)
  IN /\ l \in Seq(Nat) /\ w \in Seq(Nat)
     /\ Len(l) <= k /\ Len(w) = s
     /\ s = 0 \/ h[s] = Dns!Dot
     /\ \A j \in 1..Len(l) : l[j] = h[s + j] /\ h[s + j] # Dns!Dot
     /\ \A o \in 0..s - 1 : w[o + 1] = Coded(h, o)

LEMMA PutIs ==
  ASSUME NEW h, Len(h) \in Nat, NEW k \in 1..Len(h), ReadTo(h, k), h[k] # Dns!Dot,
         k = Len(h) \/ h[k + 1] = Dns!Dot
  PROVE  /\ Dns!Put(Dns!LabelsOf(h)[k]) \in Seq(Nat)
         /\ Len(Dns!Put(Dns!LabelsOf(h)[k])) = k + 1
         /\ \A o \in 0..k : Dns!Put(Dns!LabelsOf(h)[k])[o + 1] = Coded(h, o)
<1> DEFINE l == Dns!LabelsOf(h)[k].label
           w == Dns!LabelsOf(h)[k].written
           s == k - Len(l)
           v == w \o <<Len(l)>> \o l
<1>1. l \in Seq(Nat) /\ w \in Seq(Nat) /\ Len(l) \in Nat /\ Len(w) \in Nat
  BY LenProperties DEF ReadTo
<1>2. /\ Len(l) <= k /\ Len(w) = s
      /\ s = 0 \/ h[s] = Dns!Dot
      /\ \A j \in 1..Len(l) : l[j] = h[s + j] /\ h[s + j] # Dns!Dot
      /\ \A o \in 0..s - 1 : w[o + 1] = Coded(h, o)
  BY DEF ReadTo
<1>3. s \in Nat /\ s = k - Len(l)
  BY <1>1, <1>2
<1>4. l # <<>> => Dns!Put(Dns!LabelsOf(h)[k]) = v
  BY DEF Dns!Put
<1> HIDE DEF l, w, s
<1>5. s \in 0..k - 1 /\ Len(l) = k - s /\ l # <<>>
  <2>1. s # k
    BY <1>2
  <2>2. Len(l) # 0
    BY <1>1, <1>3, <2>1
  <2> QED BY <1>1, <1>3, <2>2, EmptySeq
<1>6. NextDot(h, s) = k + 1
  <2>1. ASSUME NEW j \in s + 1..k PROVE h[j] # Dns!Dot
    <3>1. j - s \in 1..Len(l) /\ s + (j - s) = j
      BY <1>5
    <3> QED BY <1>2, <3>1
  <2>2. s \in 0..Len(h) /\ k + 1 \in s + 1..Len(h) + 1 /\ (k + 1) - 1 = k
    BY <1>5
  <2>3. k + 1 = Len(h) + 1 \/ h[k + 1] = Dns!Dot
    OBVIOUS
  <2> QED BY <2>1, <2>2, <2>3, NextDotIs
<1>7. /\ v \in Seq(Nat) /\ Len(v) = k + 1
      /\ \A o \in 1..s : v[o] = w[o]
      /\ v[s + 1] = Len(l)
      /\ \A o \in 1..Len(l) : v[s + 1 + o] = l[o]
  <2>1. <<Len(l)>> \in Seq(Nat) /\ Len(<<Len(l)>>) = 1 /\ <<Len(l)>>[1] = Len(l)
    BY <1>1
  <2>2. Len(w) = s /\ Len(l) = k - s /\ s \in 0..k - 1 /\ k \in Nat
    BY <1>2, <1>5
  <2> DEFINE b == <<Len(l)>>
  <2> HIDE DEF b
  <2>3. /\ v \in Seq(Nat) /\ Len(v) = Len(w) + Len(b) + Len(l)
        /\ \A o \in 1..Len(w) : v[o] = w[o]
        /\ \A o \in 1..Len(b) : v[Len(w) + o] = b[o]
        /\ \A o \in 1..Len(l) : v[Len(w) + Len(b) + o] = l[o]
    BY <1>1, <2>1, ThreeJoined DEF b
  <2> HIDE DEF v
  <2>4. Len(b) = 1 /\ b[1] = Len(l) /\ 1 \in 1..Len(b) /\ Len(w) + Len(b) + Len(l) = k + 1
    BY <2>1, <2>2 DEF b
  <2> QED BY <2>2, <2>3, <2>4
<1> HIDE DEF v
<1>8. ASSUME NEW o \in 0..k PROVE v[o + 1] = Coded(h, o)
  <2>1. CASE o < s
    <3>1. o \in 0..s - 1 /\ o + 1 \in 1..s
      BY <1>5, <2>1
    <3> QED BY <1>2, <1>7, <3>1
  <2>2. CASE o = s
    BY <1>2, <1>5, <1>6, <1>7, <2>2 DEF Coded
  <2>3. CASE o > s
    <3>1. o - s \in 1..Len(l) /\ s + (o - s) = o /\ o + 1 = s + 1 + (o - s) /\ o # 0
      BY <1>5, <2>3
    <3>2. l[o - s] = h[o] /\ h[o] # Dns!Dot
      BY <1>2, <3>1
    <3>3. v[o + 1] = l[o - s]
      BY <1>7, <3>1
    <3> QED BY <3>1, <3>2, <3>3 DEF Coded
  <2> QED BY <1>5, <2>1, <2>2, <2>3
<1> QED BY <1>4, <1>5, <1>7, <1>8

LEMMA ReadToHolds ==
  ASSUME NEW h \in Seq(Nat), Dns!Proper(h)
  PROVE  \A k \in 0..Len(h) : ReadTo(h, k)
<1> DEFINE T == {k \in Nat : k <= Len(h) => ReadTo(h, k)}
<1>1. Len(h) \in Nat /\ \A k \in 1..Len(h) : h[k] \in Nat
  BY LenProperties, ElementOfSeq
<1>2. 0 \in T
  <2> DEFINE x == Dns!LabelsOf(h)[0]
  <2>1. x = [written |-> <<>>, label |-> <<>>]
    BY <1>1, LabelsAre
  <2>2. x.written = <<>> /\ x.label = <<>>
    BY <2>1
  <2> HIDE DEF x
  <2>3. x.written \in Seq(Nat) /\ x.label \in Seq(Nat) /\ Len(x.written) = 0 /\ Len(x.label) = 0
    BY <2>2, EmptySeq
  <2>4. ReadTo(h, 0)
    BY <2>3 DEF ReadTo, x
  <2> QED BY <2>4
<1>3. ASSUME NEW n1 \in Nat, n1 \in T PROVE n1 + 1 \in T
  <2> SUFFICES ASSUME n1 + 1 <= Len(h) PROVE ReadTo(h, n1 + 1)
    OBVIOUS
  <2> DEFINE c == h[n1 + 1]
             x == Dns!LabelsOf(h)[n1]
             y == Dns!LabelsOf(h)[n1 + 1]
  <2>1. ReadTo(h, n1) /\ n1 \in 0..Len(h) /\ n1 + 1 \in 1..Len(h) /\ c \in Nat
    BY <1>1, <1>3
  <2>2. y = Dns!Read(c, x)
    <3>1. (n1 + 1) - 1 = n1
      OBVIOUS
    <3> QED BY <1>1, <2>1, <3>1, LabelsAre
  <2>3. CASE c = Dns!Dot
    <3>1. y.written = Dns!Put(x) /\ y.label = <<>>
      BY <2>2, <2>3 DEF Dns!Read
    <3>2. n1 \in 1..Len(h) /\ h[n1] # Dns!Dot
      <4>1. n1 # 0
        BY <2>3 DEF Dns!Proper
      <4>2. n1 \in 1..Len(h) - 1
        BY <1>1, <4>1
      <4> QED BY <2>3, <4>2 DEF Dns!Proper
    <3>3. /\ y.written \in Seq(Nat) /\ Len(y.written) = n1 + 1
          /\ \A o \in 0..n1 : y.written[o + 1] = Coded(h, o)
      BY <1>1, <2>1, <2>3, <3>1, <3>2, PutIs
    <3> DEFINE l == y.label
               w == y.written
    <3>4. l \in Seq(Nat) /\ Len(l) = 0
      BY <3>1
    <3>5. w \in Seq(Nat) /\ Len(w) = n1 + 1 /\ \A o \in 0..n1 : w[o + 1] = Coded(h, o)
      BY <3>3
    <3>6. h[n1 + 1] = Dns!Dot
      BY <2>3
    <3> HIDE DEF l, w, c, x
    <3>7. Len(l) <= n1 + 1 /\ (n1 + 1) - Len(l) = n1 + 1 /\ 1..Len(l) = {} /\ (n1 + 1) - 1 = n1
      BY <3>4
    <3>8. /\ l \in Seq(Nat) /\ w \in Seq(Nat) /\ Len(l) <= n1 + 1 /\ Len(w) = (n1 + 1) - Len(l)
          /\ h[(n1 + 1) - Len(l)] = Dns!Dot
          /\ \A o \in 0..((n1 + 1) - Len(l)) - 1 : w[o + 1] = Coded(h, o)
      BY <3>4, <3>5, <3>6, <3>7
    <3> HIDE DEF y
    <3>9. \A j \in 1..Len(l) : l[j] = h[(n1 + 1) - Len(l) + j] /\ h[(n1 + 1) - Len(l) + j] # Dns!Dot
      BY <3>7
    <3> QED BY <3>8, <3>9, Zenon DEF ReadTo, l, w, y
  <2>4. CASE c # Dns!Dot
    <3> DEFINE l == x.label
               w == x.written
               s == n1 - Len(l)
    <3>1. y.written = w /\ y.label = Append(l, c)
      BY <2>2, <2>4 DEF Dns!Read
    <3>2. /\ l \in Seq(Nat) /\ w \in Seq(Nat) /\ Len(l) <= n1 /\ Len(w) = s
          /\ s = 0 \/ h[s] = Dns!Dot
          /\ \A j \in 1..Len(l) : l[j] = h[s + j] /\ h[s + j] # Dns!Dot
          /\ \A o \in 0..s - 1 : w[o + 1] = Coded(h, o)
      BY <2>1 DEF ReadTo
    <3>3. s = n1 - Len(l) /\ Len(l) \in Nat
      BY <3>2, LenProperties
    <3> HIDE DEF l, w, s, y
    <3>4. /\ y.label \in Seq(Nat) /\ Len(y.label) = Len(l) + 1
          /\ \A j \in 1..Len(l) : y.label[j] = l[j]
          /\ y.label[Len(l) + 1] = c
      BY <2>1, <3>1, <3>2
    <3>5. (n1 + 1) - Len(y.label) = s /\ s + (Len(l) + 1) = n1 + 1 /\ Len(y.label) <= n1 + 1
      BY <3>2, <3>3, <3>4
    <3>6. ASSUME NEW j \in 1..Len(y.label) PROVE y.label[j] = h[s + j] /\ h[s + j] # Dns!Dot
      <4>1. CASE j \in 1..Len(l)
        BY <3>2, <3>4, <4>1
      <4>2. CASE j = Len(l) + 1
        BY <2>4, <3>4, <3>5, <4>2
      <4> QED BY <3>3, <3>4, <4>1, <4>2
    <3>7. y.written \in Seq(Nat) /\ Len(y.written) = s /\ \A o \in 0..s - 1 : y.written[o + 1] = Coded(h, o)
      BY <3>1, <3>2
    <3> QED BY <3>2, <3>4, <3>5, <3>6, <3>7 DEF ReadTo, y
  <2> QED BY <2>3, <2>4
<1> HIDE DEF T
<1>4. Nat \subseteq T
  BY <1>2, <1>3, NatSetInduction
<1> QED BY <1>1, <1>4 DEF T

\* dnsCreateBody: the encoded name fills the block.
LEMMA QNameIs ==
  ASSUME NEW h \in Seq(Nat), Dns!Proper(h), NEW rest
  PROVE  /\ Dns!QName(h, rest) \in Seq(Nat) /\ Len(Dns!QName(h, rest)) = Len(h) + 2
         /\ \A o \in 0..Len(h) : Dns!QName(h, rest)[o + 1] = Coded(h, o)
         /\ Dns!QName(h, rest)[Len(h) + 2] = 0
<1> DEFINE n == Len(h)
           labels == Dns!Put(Dns!LabelsOf(h)[n])
           written == labels \o <<0>>
<1>1. n \in Nat /\ n # 0 /\ h[n] # Dns!Dot
  BY LenProperties, EmptySeq DEF Dns!Proper
<1>2. ReadTo(h, n)
  BY <1>1, ReadToHolds
<1>3. labels \in Seq(Nat) /\ Len(labels) = n + 1 /\ \A o \in 0..n : labels[o + 1] = Coded(h, o)
  BY <1>1, <1>2, PutIs
<1> HIDE DEF labels
<1>4. /\ written \in Seq(Nat) /\ Len(written) = n + 2 /\ written[n + 2] = 0
      /\ \A o \in 1..n + 1 : written[o] = labels[o]
  BY <1>1, <1>3
<1>5. labels # <<>>
  BY <1>1, <1>3
<1>6. Dns!QName(h, rest) = [o \in 1..n + 2 |-> IF o <= n + 2 THEN written[o] ELSE rest]
  BY <1>4, <1>5 DEF Dns!QName, Dns!BodyLength, labels
<1>7. Dns!QName(h, rest) = written
  <2> HIDE DEF written, n
  <2>1. written = [o \in 1..n + 2 |-> written[o]]
    BY <1>4, LenProperties
  <2>2. \A o \in 1..n + 2 : o <= n + 2
    BY <1>1
  <2> QED BY <1>6, <2>1, <2>2
<1>8. \A o \in 0..n : o + 1 \in 1..n + 1
  BY <1>1
<1> QED BY <1>3, <1>4, <1>7, <1>8

\* The twelve bytes H hold the flags f and the number a of answers.
IsHeader(H, f, a) ==
  Len(H) = 12 /\ H[3] = f \div 256 /\ H[4] = f % 256 /\ H[7] = a \div 256 /\ H[8] = a % 256

LEMMA HeaderIs ==
  ASSUME NEW f \in Nat, NEW a \in Nat
  PROVE  /\ Dns!Header(f, a) \in Seq(Nat) /\ Len(Dns!Header(f, a)) = 12
         /\ IsHeader(Dns!Header(f, a), f, a)
<1> DEFINE f1 == f \div 256 f2 == f % 256 a1 == a \div 256 a2 == a % 256
<1>1. f1 \in Nat /\ f2 \in Nat /\ a1 \in Nat /\ a2 \in Nat
  OBVIOUS
<1>2. Dns!Bytes(1) = <<0, 1>> /\ Dns!Bytes(0) = <<0, 0>> /\ Dns!Bytes(f) = <<f1, f2>> /\ Dns!Bytes(a) = <<a1, a2>>
  BY DEF Dns!Bytes
<1> HIDE DEF f1, f2, a1, a2
<1>3. Dns!Header(f, a) = <<0, 1>> \o <<f1, f2>> \o <<0, 1>> \o <<a1, a2>> \o <<0, 0>> \o <<0, 0>>
  BY <1>2 DEF Dns!Header
<1> DEFINE s1 == <<0, 1>> \o <<f1, f2>>
           s2 == s1 \o <<0, 1>>
           s3 == s2 \o <<a1, a2>>
           s4 == s3 \o <<0, 0>>
           s5 == s4 \o <<0, 0>>
<1>4. s1 \in Seq(Nat) /\ Len(s1) = 4 /\ s1[3] = f1 /\ s1[4] = f2
  <2> DEFINE s0 == <<0, 1>>
  <2>1. s0 \in Seq(Nat)
    OBVIOUS
  <2>2. Len(s0) = 2
    OBVIOUS
  <2> HIDE DEF s0
  <2>3. /\ s1 \in Seq(Nat) /\ Len(s1) = Len(s0) + 2
        /\ s1[Len(s0) + 1] = f1 /\ s1[Len(s0) + 2] = f2
    <3>1. /\ s0 \o <<f1, f2>> \in Seq(Nat) /\ Len(s0 \o <<f1, f2>>) = Len(s0) + 2
          /\ (s0 \o <<f1, f2>>)[Len(s0) + 1] = f1 /\ (s0 \o <<f1, f2>>)[Len(s0) + 2] = f2
      BY <1>1, <2>1
    <3> QED BY <3>1 DEF s0
  <2> HIDE DEF s1
  <2> QED BY <2>2, <2>3
<1> HIDE DEF s1
<1>5. s2 \in Seq(Nat) /\ Len(s2) = 6 /\ s2[3] = f1 /\ s2[4] = f2
  <2>1. s1 \in Seq(Nat)
    BY <1>4
  <2>2. /\ s2 \in Seq(Nat) /\ Len(s2) = Len(s1) + 2
        /\ \A k \in 1..Len(s1) : s2[k] = s1[k]
        /\ s2[Len(s1) + 1] = 0 /\ s2[Len(s1) + 2] = 1
    BY <2>1
  <2> HIDE DEF s2
  <2> QED BY <1>4, <2>2
<1> HIDE DEF s2
<1>6. s3 \in Seq(Nat) /\ Len(s3) = 8 /\ s3[3] = f1 /\ s3[4] = f2 /\ s3[7] = a1 /\ s3[8] = a2
  <2>1. s2 \in Seq(Nat)
    BY <1>5
  <2>2. /\ s3 \in Seq(Nat) /\ Len(s3) = Len(s2) + 2
        /\ \A k \in 1..Len(s2) : s3[k] = s2[k]
        /\ s3[Len(s2) + 1] = a1 /\ s3[Len(s2) + 2] = a2
    BY <1>1, <2>1
  <2> HIDE DEF s3
  <2> QED BY <1>5, <2>2
<1> HIDE DEF s3
<1>7. s4 \in Seq(Nat) /\ Len(s4) = 10 /\ s4[3] = f1 /\ s4[4] = f2 /\ s4[7] = a1 /\ s4[8] = a2
  <2>1. s3 \in Seq(Nat)
    BY <1>6
  <2>2. /\ s4 \in Seq(Nat) /\ Len(s4) = Len(s3) + 2
        /\ \A k \in 1..Len(s3) : s4[k] = s3[k]
        /\ s4[Len(s3) + 1] = 0 /\ s4[Len(s3) + 2] = 0
    BY <2>1
  <2> HIDE DEF s4
  <2> QED BY <1>6, <2>2
<1> HIDE DEF s4
<1>8. s5 \in Seq(Nat) /\ Len(s5) = 12 /\ s5[3] = f1 /\ s5[4] = f2 /\ s5[7] = a1 /\ s5[8] = a2
  <2>1. s4 \in Seq(Nat)
    BY <1>7
  <2>2. /\ s5 \in Seq(Nat) /\ Len(s5) = Len(s4) + 2
        /\ \A k \in 1..Len(s4) : s5[k] = s4[k]
        /\ s5[Len(s4) + 1] = 0 /\ s5[Len(s4) + 2] = 0
    BY <2>1
  <2> HIDE DEF s5
  <2> QED BY <1>7, <2>2
<1>9. Dns!Header(f, a) = s5
  BY <1>3 DEF s1, s2, s3, s4
<1> HIDE DEF s5
<1>10. IsHeader(s5, f, a)
  BY <1>8 DEF IsHeader, f1, f2, a1, a2
<1> QED BY <1>8, <1>9, <1>10

LEMMA HeadDropped ==
  ASSUME NEW S, NEW s \in Seq(S), NEW t \in Seq(S)
  PROVE  SubSeq(s \o t, Len(s) + 1, Len(s \o t)) = t
<1> DEFINE u == s \o t
           v == SubSeq(u, Len(s) + 1, Len(u))
<1>1. Len(s) \in Nat /\ Len(t) \in Nat
  BY LenProperties
<1>2. u \in Seq(S) /\ Len(u) = Len(s) + Len(t)
      /\ \A k \in 1..Len(s) + Len(t) : u[k] = IF k <= Len(s) THEN s[k] ELSE t[k - Len(s)]
  BY ConcatProperties
<1> HIDE DEF u
<1>3. \A k \in Len(s) + 1..Len(u) : u[k] \in S
  BY <1>1, <1>2, ElementOfSeq
<1>4. /\ v \in Seq(S)
      /\ Len(v) = IF Len(s) + 1 <= Len(u) THEN Len(u) - (Len(s) + 1) + 1 ELSE 0
      /\ \A k \in 1..Len(u) - (Len(s) + 1) + 1 : v[k] = u[Len(s) + 1 + k - 1]
  BY <1>1, <1>2, <1>3, SubSeqProperties
<1> HIDE DEF v
<1>5. Len(v) = Len(t)
  BY <1>1, <1>2, <1>4
<1>6. ASSUME NEW k \in 1..Len(v) PROVE v[k] = t[k]
  <2>1. /\ k \in 1..Len(u) - (Len(s) + 1) + 1 /\ Len(s) + 1 + k - 1 = Len(s) + k
        /\ Len(s) + k \in 1..Len(s) + Len(t) /\ ~(Len(s) + k <= Len(s)) /\ Len(s) + k - Len(s) = k
    BY <1>1, <1>2, <1>5
  <2>2. v[k] = u[Len(s) + k]
    BY <1>4, <2>1
  <2>3. u[Len(s) + k] = t[k]
    BY <1>2, <2>1
  <2> QED BY <2>2, <2>3
<1> QED BY <1>4, <1>5, <1>6, SeqEqual DEF v, u

\* What the server finds behind the header.
Asked(h, rest) == Dns!QName(h, rest) \o Dns!Bytes(Dns!A) \o Dns!Bytes(1)

LEMMA AskedIs ==
  ASSUME NEW h \in Seq(Nat), Dns!Proper(h), NEW rest
  PROVE  /\ Asked(h, rest) \in Seq(Nat) /\ Len(Asked(h, rest)) = Len(h) + 6
         /\ \A o \in 0..Len(h) : Asked(h, rest)[o + 1] = Coded(h, o)
         /\ Asked(h, rest)[Len(h) + 2] = 0
         /\ SubSeq(Asked(h, rest), Len(h) + 2, Len(Asked(h, rest))) = <<0>> \o Dns!Bytes(Dns!A) \o Dns!Bytes(1)
<1> DEFINE q == Dns!QName(h, rest)
           n == Len(h)
           v == q \o <<0, 1>> \o <<0, 1>>
<1>1. /\ q \in Seq(Nat) /\ Len(q) = n + 2 /\ q[n + 2] = 0
      /\ \A o \in 0..n : q[o + 1] = Coded(h, o)
  BY QNameIs
<1>2. n \in Nat
  BY LenProperties
<1>3. Dns!Bytes(Dns!A) = <<0, 1>> /\ Dns!Bytes(1) = <<0, 1>>
  BY DEF Dns!Bytes, Dns!A
<1>4. Asked(h, rest) = v
  BY <1>3 DEF Asked
<1> HIDE DEF q, n
<1>5. /\ v \in Seq(Nat) /\ Len(v) = Len(q) + 2 + 2
      /\ \A o \in 1..Len(q) : v[o] = q[o]
      /\ \A o \in 1..2 : v[Len(q) + o] = <<0, 1>>[o]
      /\ \A o \in 1..2 : v[Len(q) + 2 + o] = <<0, 1>>[o]
  <2> DEFINE b == <<0, 1>>
  <2>1. q \in Seq(Nat) /\ b \in Seq(Nat)
    BY <1>1
  <2>3. Len(b) = 2
    OBVIOUS
  <2> HIDE DEF b
  <2>2. /\ q \o b \o b \in Seq(Nat) /\ Len(q \o b \o b) = Len(q) + 2 + 2
        /\ \A o \in 1..Len(q) : (q \o b \o b)[o] = q[o]
        /\ \A o \in 1..2 : (q \o b \o b)[Len(q) + o] = b[o]
        /\ \A o \in 1..2 : (q \o b \o b)[Len(q) + 2 + o] = b[o]
    <3>1. /\ q \o b \o b \in Seq(Nat) /\ Len(q \o b \o b) = Len(q) + Len(b) + Len(b)
          /\ \A o \in 1..Len(q) : (q \o b \o b)[o] = q[o]
          /\ \A o \in 1..Len(b) : (q \o b \o b)[Len(q) + o] = b[o]
          /\ \A o \in 1..Len(b) : (q \o b \o b)[Len(q) + Len(b) + o] = b[o]
      BY <2>1, ThreeJoined
    <3> QED BY <2>3, <3>1
  <2> QED BY <2>2 DEF b
<1> HIDE DEF v
<1>6. \A o \in 1..n + 2 : v[o] = q[o]
  BY <1>1, <1>5
<1>7. Len(v) = n + 6 /\ v[n + 3] = 0 /\ v[n + 4] = 1 /\ v[n + 5] = 0 /\ v[n + 6] = 1 /\ v[n + 2] = 0
  <2>1. 1 \in 1..2 /\ 2 \in 1..2 /\ <<0, 1>>[1] = 0 /\ <<0, 1>>[2] = 1
    OBVIOUS
  <2>2. /\ Len(q) + 1 = n + 3 /\ Len(q) + 2 = n + 4 /\ Len(q) + 2 + 1 = n + 5
        /\ Len(q) + 2 + 2 = n + 6 /\ n + 2 \in 1..n + 2
    BY <1>1, <1>2
  <2> QED BY <1>1, <1>5, <1>6, <2>1, <2>2
<1>8. \A o \in 0..n : o + 1 \in 1..n + 2
  BY <1>2
<1>9. SubSeq(v, n + 2, n + 6) = <<0, 0, 1, 0, 1>>
  <2> DEFINE u == SubSeq(v, n + 2, n + 6)
  <2>1. \A k \in n + 2..n + 6 : v[k] \in Nat
    BY <1>2, <1>5, <1>7, ElementOfSeq
  <2>2. /\ u \in Seq(Nat)
        /\ Len(u) = IF n + 2 <= n + 6 THEN (n + 6) - (n + 2) + 1 ELSE 0
        /\ \A k \in 1..(n + 6) - (n + 2) + 1 : u[k] = v[n + 2 + k - 1]
    BY <1>2, <2>1, SubSeqProperties
  <2> HIDE DEF u
  <2>3. (n + 6) - (n + 2) + 1 = 5 /\ n + 2 <= n + 6
    BY <1>2
  <2>4. Len(u) = 5 /\ \A k \in 1..5 : u[k] = v[n + 2 + k - 1]
    BY <2>2, <2>3
  <2>5. /\ n + 2 + 1 - 1 = n + 2 /\ n + 2 + 2 - 1 = n + 3 /\ n + 2 + 3 - 1 = n + 4
        /\ n + 2 + 4 - 1 = n + 5 /\ n + 2 + 5 - 1 = n + 6
    BY <1>2
  <2>6. u[1] = 0 /\ u[2] = 0 /\ u[3] = 1 /\ u[4] = 0 /\ u[5] = 1
    BY <1>7, <2>4, <2>5
  <2>7. \A k \in 1..5 : u[k] = <<0, 0, 1, 0, 1>>[k]
    BY <2>6
  <2>8. <<0, 0, 1, 0, 1>> \in Seq(Nat) /\ Len(<<0, 0, 1, 0, 1>>) = 5
    OBVIOUS
  <2>9. u = <<0, 0, 1, 0, 1>>
    BY <2>2, <2>4, <2>7, <2>8, SeqEqual
  <2> QED BY <2>9 DEF u
<1>10. <<0>> \o <<0, 1>> \o <<0, 1>> = <<0, 0, 1, 0, 1>>
  <2> DEFINE s1 == <<0>> \o <<0, 1>>
             s2 == s1 \o <<0, 1>>
  <2>1. s1 \in Seq(Nat) /\ Len(s1) = 3 /\ s1[1] = 0 /\ s1[2] = 0 /\ s1[3] = 1
    <3> DEFINE s0 == <<0>>
    <3>1. s0 \in Seq(Nat)
      OBVIOUS
    <3>2. Len(s0) = 1 /\ s0[1] = 0
      OBVIOUS
    <3> HIDE DEF s0
    <3>3. /\ s1 \in Seq(Nat) /\ Len(s1) = Len(s0) + 2
          /\ \A k \in 1..Len(s0) : s1[k] = s0[k]
          /\ s1[Len(s0) + 1] = 0 /\ s1[Len(s0) + 2] = 1
      <4>1. /\ s0 \o <<0, 1>> \in Seq(Nat) /\ Len(s0 \o <<0, 1>>) = Len(s0) + 2
            /\ \A k \in 1..Len(s0) : (s0 \o <<0, 1>>)[k] = s0[k]
            /\ (s0 \o <<0, 1>>)[Len(s0) + 1] = 0 /\ (s0 \o <<0, 1>>)[Len(s0) + 2] = 1
        BY <3>1
      <4> QED BY <4>1 DEF s0
    <3> HIDE DEF s1
    <3> QED BY <3>2, <3>3
  <2> HIDE DEF s1
  <2>2. s2 \in Seq(Nat) /\ Len(s2) = 5 /\ s2[1] = 0 /\ s2[2] = 0 /\ s2[3] = 1 /\ s2[4] = 0 /\ s2[5] = 1
    <3>1. s1 \in Seq(Nat)
      BY <2>1
    <3>2. /\ s2 \in Seq(Nat) /\ Len(s2) = Len(s1) + 2
          /\ \A k \in 1..Len(s1) : s2[k] = s1[k]
          /\ s2[Len(s1) + 1] = 0 /\ s2[Len(s1) + 2] = 1
      BY <3>1
    <3> HIDE DEF s2
    <3> QED BY <2>1, <3>2
  <2> HIDE DEF s2
  <2>3. <<0, 0, 1, 0, 1>> \in Seq(Nat) /\ Len(<<0, 0, 1, 0, 1>>) = 5
    OBVIOUS
  <2>4. \A k \in 1..5 : s2[k] = <<0, 0, 1, 0, 1>>[k]
    BY <2>2
  <2>5. s2 = <<0, 0, 1, 0, 1>>
    BY <2>2, <2>3, <2>4, SeqEqual
  <2> QED BY <2>5 DEF s1, s2
<1> QED BY <1>1, <1>3, <1>4, <1>5, <1>6, <1>7, <1>8, <1>9, <1>10 DEF n

-----------------------------------------------------------------------------
(* dns.c, 203-297: how the question is read.                               *)

QuestionIn(m, h) ==
  /\ m \in Seq(Nat) /\ Len(h) + 18 <= Len(m)
  /\ \A o \in 0..Len(h) : Dns!Byte(m, 12 + o) = Coded(h, o)
  /\ Dns!Byte(m, 13 + Len(h)) = 0

\* A length byte is neither the end nor a pointer.
LEMMA LabelFits ==
  ASSUME NEW h \in Seq(Nat), Dns!Proper(h), NEW o \in 0..Len(h), o = 0 \/ h[o] = Dns!Dot
  PROVE  NextDot(h, o) - o - 1 \in 1..63 /\ o < Len(h)
<1> DEFINE n == Len(h)
           j == NextDot(h, o)
<1>1. n \in Nat /\ n # 0
  BY LenProperties, EmptySeq DEF Dns!Proper
<1>2. o < n
  <2>1. h[n] # Dns!Dot
    BY DEF Dns!Proper
  <2> QED BY <1>1, <2>1
<1>3. /\ j \in o + 1..n + 1
      /\ j = n + 1 \/ h[j] = Dns!Dot
      /\ \A k \in o + 1..j - 1 : h[k] # Dns!Dot
  BY <1>1, NextDotExists
<1> HIDE DEF j
<1>4. h[o + 1] # Dns!Dot
  <2>1. CASE o = 0
    BY <2>1 DEF Dns!Proper
  <2>2. CASE o # 0
    <3>1. o \in 1..n - 1
      BY <1>1, <1>2, <2>2
    <3> QED BY <2>2, <3>1 DEF Dns!Proper
  <2> QED BY <2>1, <2>2
<1>5. j # o + 1
  BY <1>1, <1>2, <1>3, <1>4
<1>6. ~(j - o - 1 > 63)
  <2> SUFFICES ASSUME j - o - 1 > 63 PROVE FALSE
    OBVIOUS
  <2>1. o \in 0..n - 64
    BY <1>1, <1>3
  <2>2. PICK k \in 1..64 : h[o + k] = Dns!Dot
    BY <2>1 DEF Dns!Proper, Dns!MaxLabel
  <2>3. o + k \in o + 1..j - 1
    BY <1>3
  <2> QED BY <1>3, <2>2, <2>3
<1>7. j - o - 1 \in 1..63
  BY <1>1, <1>3, <1>5, <1>6
<1> QED BY <1>2, <1>7 DEF j

\* The characters of a label, in the question and in the host name.
LEMMA LabelIs ==
  ASSUME NEW h \in Seq(Nat), Dns!Proper(h), NEW m, QuestionIn(m, h),
         NEW o \in 0..Len(h), o = 0 \/ h[o] = Dns!Dot
  PROVE  SubSeq(m, 14 + o, 12 + NextDot(h, o)) = SubSeq(h, o + 1, NextDot(h, o) - 1)
<1> DEFINE n == Len(h)
           j == NextDot(h, o)
           u == SubSeq(m, 14 + o, 12 + j)
           v == SubSeq(h, o + 1, j - 1)
<1>1. n \in Nat /\ Len(m) \in Nat /\ n + 18 <= Len(m) /\ m \in Seq(Nat)
  BY LenProperties DEF QuestionIn
<1>2. /\ j \in o + 1..n + 1
      /\ \A k \in o + 1..j - 1 : h[k] # Dns!Dot
  BY <1>1, NextDotExists
<1> HIDE DEF j
<1>3. \A k \in 14 + o..12 + j : m[k] \in Nat
  BY <1>1, <1>2, ElementOfSeq, SMTT(30)
<1>4. \A k \in o + 1..j - 1 : h[k] \in Nat
  BY <1>1, <1>2, ElementOfSeq, SMTT(30)
<1>5. /\ u \in Seq(Nat)
      /\ Len(u) = IF 14 + o <= 12 + j THEN (12 + j) - (14 + o) + 1 ELSE 0
      /\ \A k \in 1..(12 + j) - (14 + o) + 1 : u[k] = m[14 + o + k - 1]
  <2>1. 14 + o \in Int /\ 12 + j \in Int
    BY <1>2
  <2> QED BY <1>3, <2>1, SubSeqProperties
<1>6. /\ v \in Seq(Nat)
      /\ Len(v) = IF o + 1 <= j - 1 THEN (j - 1) - (o + 1) + 1 ELSE 0
      /\ \A k \in 1..(j - 1) - (o + 1) + 1 : v[k] = h[o + 1 + k - 1]
  <2>1. o + 1 \in Int /\ j - 1 \in Int
    BY <1>2
  <2> QED BY <1>4, <2>1, SubSeqProperties
<1> HIDE DEF u, v
<1>7. Len(u) = j - o - 1 /\ Len(v) = j - o - 1
  BY <1>2, <1>5, <1>6
<1>8. ASSUME NEW k \in 1..Len(u) PROVE u[k] = v[k]
  <2>1. /\ k \in 1..(12 + j) - (14 + o) + 1 /\ k \in 1..(j - 1) - (o + 1) + 1
        /\ 14 + o + k - 1 = 12 + (o + k) + 1 /\ o + 1 + k - 1 = o + k
        /\ o + k \in o + 1..j - 1 /\ o + k \in 0..n /\ o + k # 0
    BY <1>1, <1>2, <1>7
  <2>2. u[k] = m[12 + (o + k) + 1] /\ v[k] = h[o + k]
    BY <1>5, <1>6, <2>1
  <2>3. Dns!Byte(m, 12 + (o + k)) = Coded(h, o + k)
    BY <2>1 DEF QuestionIn
  <2>4. Coded(h, o + k) = h[o + k]
    BY <1>2, <2>1 DEF Coded
  <2> QED BY <2>2, <2>3, <2>4 DEF Dns!Byte
<1>9. u = v
  BY <1>5, <1>6, <1>7, <1>8, SeqEqual
<1> QED BY <1>9 DEF u, v, j

LEMMA Regrouped ==
  ASSUME NEW s \in Seq(Nat), NEW t \in Seq(Nat), NEW u \in Seq(Nat)
  PROVE  (s \o t) \o u = s \o (t \o u)
<1>1. \A S : \A a, b, c \in Seq(S) : (a \o b) \o c = a \o (b \o c)
  BY ConcatAssociative
<1> QED BY <1>1, SMTT(30)

\* A host name from one label on.
LEMMA SuffixIs ==
  ASSUME NEW h \in Seq(Nat), NEW o \in 0..Len(h), NEW j \in o + 1..Len(h), h[j] = Dns!Dot
  PROVE  SubSeq(h, o + 1, j - 1) \o <<Dns!Dot>> \o SubSeq(h, j + 1, Len(h)) = SubSeq(h, o + 1, Len(h))
<1> DEFINE n == Len(h)
<1>1. n \in Nat
  BY LenProperties
<1>2. j \in 1..n /\ n \in j..n /\ o + 1 \in 1..n + 1 /\ j - 1 \in (o + 1) - 1..n /\ n \in j - 1..n /\ (j - 1) + 1 = j
  BY <1>1
<1>3. SubSeq(h, j, n) = <<Dns!Dot>> \o SubSeq(h, j + 1, n)
  BY <1>2, SubSeqRecursiveFirst
<1>4. SubSeq(h, o + 1, j - 1) \o SubSeq(h, j, n) = SubSeq(h, o + 1, n)
  BY <1>2, ConcatAdjacentSubSeq
<1>5. SubSeq(h, o + 1, j - 1) \in Seq(Nat) /\ SubSeq(h, j + 1, n) \in Seq(Nat) /\ <<Dns!Dot>> \in Seq(Nat)
  <2>1. \A k \in o + 1..j - 1 : h[k] \in Nat
    BY <1>2, ElementOfSeq
  <2>2. \A k \in j + 1..n : h[k] \in Nat
    BY <1>2, ElementOfSeq
  <2>3. o + 1 \in Int /\ j - 1 \in Int /\ j + 1 \in Int /\ n \in Int
    BY <1>2
  <2>4. SubSeq(h, o + 1, j - 1) \in Seq(Nat)
    BY <2>1, <2>3, SubSeqProperties
  <2>5. SubSeq(h, j + 1, n) \in Seq(Nat)
    BY <2>2, <2>3, SubSeqProperties
  <2> QED BY <2>4, <2>5 DEF Dns!Dot
<1> DEFINE a == SubSeq(h, o + 1, j - 1)
           b == <<Dns!Dot>>
           c == SubSeq(h, j + 1, n)
<1>6. a \in Seq(Nat) /\ b \in Seq(Nat) /\ c \in Seq(Nat)
  BY <1>5
<1> HIDE DEF a, b, c
<1>7. (a \o b) \o c = a \o (b \o c)
  BY <1>6, Regrouped
<1> QED BY <1>3, <1>4, <1>7 DEF a, b, c

LEMMA LabelOffsets ==
  ASSUME NEW n \in Nat, NEW len \in Nat, NEW k \in Nat, NEW o \in 0..n, NEW j \in o + 1..n + 1,
         NEW e \in n + 1 - o..len, n + 18 <= len, n - o <= k + 1, o < n
  PROVE  /\ 12 + o \in 0..len - 1 /\ e \in 1..len /\ (12 + o) + 2 = 14 + o
         /\ 12 + o + 1 + (j - o - 1) = 12 + j /\ 12 + j \in 0..len - 1 /\ e - 1 \in 0..len
         /\ n - j <= k /\ e - 1 \in n + 1 - j..len /\ (e - 1 = 0 \/ e - 1 \in 1..len)
OBVIOUS

\* What dnsParseName, 214-246, and the loop of dnsResponseParse, 282-297, make of the
\* question from one label on.
ReadFrom(h, m, o) ==
  \A e \in Len(h) + 1 - o..Len(m) :
    /\ Dns!NamesIn(m)[e][12 + o] = SubSeq(h, o + 1, Len(h))
    /\ Dns!EndsIn(m)[e][12 + o] = Len(h) + 14

LEMMA LabelRead ==
  ASSUME NEW h \in Seq(Nat), Dns!Proper(h), NEW m, QuestionIn(m, h),
         NEW k \in Nat, NEW o \in 0..Len(h), o = 0 \/ h[o] = Dns!Dot, Len(h) - o <= k + 1,
         \A j \in 0..Len(h) : (j = 0 \/ h[j] = Dns!Dot) /\ Len(h) - j <= k => ReadFrom(h, m, j)
  PROVE  ReadFrom(h, m, o)
<1> DEFINE n == Len(h)
           j == NextDot(h, o)
           flag == j - o - 1
           names1 == Dns!NamesIn(m)
           ends == Dns!EndsIn(m)
<1>1. n \in Nat /\ Len(m) \in Nat /\ n + 18 <= Len(m) /\ m \in Seq(Nat)
  BY LenProperties DEF QuestionIn
<1> SUFFICES ASSUME NEW e \in n + 1 - o..Len(m)
             PROVE  names1[e][12 + o] = SubSeq(h, o + 1, n) /\ ends[e][12 + o] = n + 14
  BY DEF ReadFrom
<1>2. flag \in 1..63 /\ o < n
  BY LabelFits
<1>3. j \in o + 1..n + 1 /\ (j = n + 1 \/ h[j] = Dns!Dot)
  BY <1>1, NextDotExists
<1>4. Dns!Byte(m, 12 + o) = flag
  BY DEF QuestionIn, Coded
<1>5. SubSeq(m, 14 + o, 12 + j) = SubSeq(h, o + 1, j - 1)
  BY LabelIs
<1> HIDE DEF j
<1>6. /\ 12 + o \in 0..Len(m) - 1 /\ e \in 1..Len(m) /\ (12 + o) + 2 = 14 + o
      /\ 12 + o + 1 + flag = 12 + j /\ 12 + j \in 0..Len(m) - 1 /\ e - 1 \in 0..Len(m)
      /\ n - j <= k /\ e - 1 \in n + 1 - j..Len(m) /\ (e - 1 = 0 \/ e - 1 \in 1..Len(m))
  <2> HIDE DEF n
  <2>1. n - o <= k + 1 /\ o \in 0..n
    BY DEF n
  <2> QED BY <1>1, <1>2, <1>3, <2>1, LabelOffsets
<1> HIDE DEF flag
<1>7. ~Dns!IsPointer(flag) /\ flag # 0
  BY <1>2 DEF Dns!IsPointer
<1>8. /\ names1[e][12 + o] = SubSeq(m, 14 + o, 12 + j) \o Dns!Separator(Dns!Byte(m, 12 + j))
                              \o names1[e - 1][12 + j]
      /\ ends[e][12 + o] = ends[e - 1][12 + j]
  <2>1. names1[e][12 + o] =
          IF Dns!Byte(m, 12 + o) = 0 THEN <<>>
          ELSE IF Dns!IsPointer(Dns!Byte(m, 12 + o)) THEN names1[e - 1][Dns!Byte(m, 12 + o + 1)]
          ELSE SubSeq(m, 12 + o + 2, 12 + o + 1 + Dns!Byte(m, 12 + o))
               \o Dns!Separator(Dns!Byte(m, 12 + o + 1 + Dns!Byte(m, 12 + o)))
               \o names1[e - 1][12 + o + 1 + Dns!Byte(m, 12 + o)]
    BY <1>1, <1>6, NamesAre
  <2>2. ends[e][12 + o] = IF Dns!Byte(m, 12 + o) = 0 THEN 12 + o + 1
                          ELSE ends[e - 1][12 + o + 1 + Dns!Byte(m, 12 + o)]
    BY <1>1, <1>6, EndsAre
  <2> HIDE DEF names1, ends
  <2> QED BY <1>4, <1>6, <1>7, <2>1, <2>2
<1>9. CASE j = n + 1
  <2>1. Dns!Byte(m, 12 + j) = 0
    <3>1. 12 + j = 13 + n
      BY <1>1, <1>9
    <3> QED BY <3>1 DEF QuestionIn
  <2>2. names1[e - 1][12 + j] = <<>> /\ ends[e - 1][12 + j] = 12 + j + 1
    <3>1. CASE e - 1 = 0
      BY <1>1, <1>6, <3>1, NamesAre, EndsAre, ZenonT(60)
    <3>2. CASE e - 1 \in 1..Len(m)
      BY <1>1, <1>6, <2>1, <3>2, NamesAre, EndsAre
    <3> QED BY <1>6, <3>1, <3>2
  <2>3. 12 + j + 1 = n + 14 /\ j - 1 = n
    BY <1>1, <1>9
  <2>4. SubSeq(h, o + 1, n) \o <<>> \o <<>> = SubSeq(h, o + 1, n)
    <3>1. SubSeq(h, o + 1, n) \in Seq(Nat)
      <4>1. ASSUME NEW l \in o + 1..n PROVE h[l] \in Nat
        <5>1. l \in 1..Len(h)
          BY <1>1
        <5> QED BY <5>1, ElementOfSeq
      <4>2. o + 1 \in Int /\ n \in Int
        BY <1>1
      <4> QED BY <4>1, <4>2, SubSeqProperties
    <3> QED BY <3>1, ConcatEmptySeq
  <2>5. Dns!Separator(0) = <<>>
    BY DEF Dns!Separator
  <2> HIDE DEF names1, ends
  <2> QED BY <1>5, <1>8, <2>1, <2>2, <2>3, <2>4, <2>5
<1>10. CASE j # n + 1
  <2>1. j \in o + 1..n /\ j \in 0..n /\ h[j] = Dns!Dot
    BY <1>1, <1>3, <1>10
  <2>2. ReadFrom(h, m, j)
    BY <1>6, <2>1
  <2>3. names1[e - 1][12 + j] = SubSeq(h, j + 1, n) /\ ends[e - 1][12 + j] = n + 14
    BY <1>6, <2>2 DEF ReadFrom
  <2>4. Dns!Byte(m, 12 + j) # 0
    <3> DEFINE x == NextDot(h, j) - j - 1
    <3>1. Dns!Byte(m, 12 + j) = x
      BY <2>1 DEF QuestionIn, Coded
    <3>2. x \in 1..63
      BY <2>1, LabelFits
    <3> HIDE DEF x
    <3>3. x # 0
      BY <3>2
    <3> QED BY <3>1, <3>3
  <2>5. Dns!Separator(Dns!Byte(m, 12 + j)) = <<Dns!Dot>>
    BY <2>4 DEF Dns!Separator
  <2>6. SubSeq(h, o + 1, j - 1) \o <<Dns!Dot>> \o SubSeq(h, j + 1, n) = SubSeq(h, o + 1, n)
    BY <2>1, SuffixIs
  <2> HIDE DEF names1, ends
  <2> QED BY <1>5, <1>8, <2>3, <2>5, <2>6
<1> QED BY <1>9, <1>10

LEMMA QuestionRead ==
  ASSUME NEW h \in Seq(Nat), Dns!Proper(h), NEW m, QuestionIn(m, h)
  PROVE  \A o \in 0..Len(h) : o = 0 \/ h[o] = Dns!Dot => ReadFrom(h, m, o)
<1> DEFINE Upto(k) == \A o \in 0..Len(h) : (o = 0 \/ h[o] = Dns!Dot) /\ Len(h) - o <= k => ReadFrom(h, m, o)
           T == {k \in Nat : Upto(k)}
<1>1. Len(h) \in Nat
  BY LenProperties
<1>2. 0 \in T
  <2>1. ASSUME NEW o \in 0..Len(h), o = 0 \/ h[o] = Dns!Dot PROVE ~(Len(h) - o <= 0)
    <3>1. o < Len(h)
      BY <2>1, LabelFits
    <3> QED BY <1>1, <3>1
  <2>2. Upto(0)
    BY <2>1
  <2> QED BY <2>2
<1>3. ASSUME NEW k \in Nat, k \in T PROVE k + 1 \in T
  <2>1. Upto(k)
    BY <1>3
  <2>2. Upto(k + 1)
    BY <2>1, LabelRead
  <2> QED BY <2>2
<1> HIDE DEF T
<1>4. Nat \subseteq T
  BY <1>2, <1>3, NatSetInduction
<1>5. Upto(Len(h))
  BY <1>1, <1>4 DEF T
<1> SUFFICES ASSUME NEW o \in 0..Len(h), o = 0 \/ h[o] = Dns!Dot PROVE ReadFrom(h, m, o)
  OBVIOUS
<1>6. Len(h) - o <= Len(h)
  BY <1>1
<1> QED BY <1>5, <1>6

-----------------------------------------------------------------------------
(* dns.c, 203-248: the names a correct server writes are read back.        *)

\* In the message and in all longer ones, dnsParseName reads x at offset o.
Spells(m, o, x) ==
  /\ o \in 0..Len(m) - 1
  /\ \A t \in Seq(Nat) : \A e \in Len(m)..Len(m \o t) : Dns!NamesIn(m \o t)[e][o] = x

LEMMA LongerIs ==
  ASSUME NEW s \in Seq(Nat), NEW t \in Seq(Nat)
  PROVE  /\ s \o t \in Seq(Nat) /\ Len(s \o t) = Len(s) + Len(t) /\ Len(s) \in Nat /\ Len(t) \in Nat
         /\ \A o \in 0..Len(s) - 1 : Dns!Byte(s \o t, o) = Dns!Byte(s, o)
         /\ \A o \in 0..Len(t) - 1 : Dns!Byte(s \o t, Len(s) + o) = Dns!Byte(t, o)
<1>1. Len(s) \in Nat /\ Len(t) \in Nat
  BY LenProperties
<1>2. /\ s \o t \in Seq(Nat) /\ Len(s \o t) = Len(s) + Len(t)
      /\ \A k \in 1..Len(s) + Len(t) : (s \o t)[k] = IF k <= Len(s) THEN s[k] ELSE t[k - Len(s)]
  BY ConcatProperties
<1> DEFINE u == s \o t
<1> HIDE DEF u
<1>3. ASSUME NEW o \in 0..Len(s) - 1 PROVE u[o + 1] = s[o + 1]
  <2>1. o + 1 \in 1..Len(s) + Len(t) /\ o + 1 <= Len(s)
    BY <1>1
  <2> QED BY <1>2, <2>1 DEF u
<1>4. ASSUME NEW o \in 0..Len(t) - 1 PROVE u[Len(s) + o + 1] = t[o + 1]
  <2> DEFINE k == Len(s) + o + 1
  <2>1. k \in 1..Len(s) + Len(t) /\ ~(k <= Len(s)) /\ k - Len(s) = o + 1
    BY <1>1
  <2> HIDE DEF k
  <2>2. u[k] = t[o + 1]
    BY <1>2, <2>1 DEF u
  <2> QED BY <2>2 DEF k
<1> QED BY <1>1, <1>2, <1>3, <1>4 DEF u, Dns!Byte

LEMMA SpellsStays ==
  ASSUME NEW m \in Seq(Nat), NEW s \in Seq(Nat), NEW o, NEW x, Spells(m, o, x)
  PROVE  Spells(m \o s, o, x)
<1> DEFINE ms == m \o s
<1>1. ms \in Seq(Nat) /\ Len(ms) = Len(m) + Len(s) /\ Len(m) \in Nat /\ Len(s) \in Nat
  BY LongerIs
<1>2. \A t \in Seq(Nat) : ms \o t = m \o (s \o t) /\ s \o t \in Seq(Nat)
  BY Regrouped, LongerIs, SMTT(30)
<1> HIDE DEF ms
<1>3. o \in 0..Len(ms) - 1
  BY <1>1 DEF Spells
<1>4. ASSUME NEW t \in Seq(Nat), NEW e \in Len(ms)..Len(ms \o t) PROVE Dns!NamesIn(ms \o t)[e][o] = x
  <2>1. Len(ms \o t) \in Nat
    BY <1>1, LongerIs
  <2>2. e \in Len(m)..Len(m \o (s \o t))
    BY <1>1, <1>2, <2>1
  <2>3. Dns!NamesIn(m \o (s \o t))[e][o] = x
    BY <1>2, <2>2 DEF Spells
  <2> QED BY <1>2, <2>3
<1> QED BY <1>3, <1>4 DEF Spells, ms

LEMMA SpellsNow ==
  ASSUME NEW m \in Seq(Nat), NEW o, NEW x, Spells(m, o, x)
  PROVE  Dns!NameAt(m, o) = x
<1>1. m \o <<>> = m /\ <<>> \in Seq(Nat) /\ Len(m) \in Nat
  BY ConcatEmptySeq, EmptySeq, LenProperties
<1>2. Len(m) \in Len(m)..Len(m \o <<>>)
  BY <1>1
<1>3. Dns!NamesIn(m \o <<>>)[Len(m)][o] = x
  BY <1>1, <1>2 DEF Spells
<1> QED BY <1>1, <1>3 DEF Dns!NameAt

\* A pointer to a name spells it.
LEMMA PointerSpells ==
  ASSUME NEW m \in Seq(Nat), NEW p \in Nat, NEW x, Spells(m, p, x)
  PROVE  Spells(m \o <<192, p>>, Len(m), x)
<1> DEFINE b == <<192, p>>
           mb == m \o b
<1>1. b \in Seq(Nat)
  OBVIOUS
<1>2. Len(b) = 2 /\ Dns!Byte(b, 0) = 192 /\ Dns!Byte(b, 1) = p
  BY DEF Dns!Byte
<1> HIDE DEF b
<1>3. mb \in Seq(Nat) /\ Len(mb) = Len(m) + Len(b) /\ Len(m) \in Nat
  BY <1>1, LongerIs
<1>4. Dns!Byte(mb, Len(m)) = 192 /\ Dns!Byte(mb, Len(m) + 1) = p
  <2>1. \A o \in 0..Len(b) - 1 : Dns!Byte(mb, Len(m) + o) = Dns!Byte(b, o)
    BY <1>1, LongerIs
  <2> HIDE DEF mb
  <2>2. 0 \in 0..Len(b) - 1 /\ 1 \in 0..Len(b) - 1 /\ Len(m) + 0 = Len(m)
    BY <1>2, <1>3
  <2> QED BY <1>2, <2>1, <2>2
<1>5. \A t \in Seq(Nat) : mb \o t = m \o (b \o t) /\ b \o t \in Seq(Nat)
  BY <1>1, Regrouped, LongerIs, SMTT(30)
<1> HIDE DEF mb
<1>6. ASSUME NEW t \in Seq(Nat), NEW e \in Len(mb)..Len(mb \o t) PROVE Dns!NamesIn(mb \o t)[e][Len(m)] = x
  <2> DEFINE M == mb \o t
  <2>1. /\ M \in Seq(Nat) /\ Len(M) = Len(mb) + Len(t) /\ Len(t) \in Nat
        /\ \A o \in 0..Len(mb) - 1 : Dns!Byte(M, o) = Dns!Byte(mb, o)
    BY <1>3, LongerIs
  <2>2. M = m \o (b \o t)
    BY <1>5
  <2> HIDE DEF M
  <2>3. /\ Len(m) \in 0..Len(mb) - 1 /\ Len(m) + 1 \in 0..Len(mb) - 1 /\ Len(m) \in 0..Len(M) - 1
        /\ e \in 1..Len(M) /\ e - 1 \in Len(m)..Len(M) /\ Len(M) \in Nat
    BY <1>2, <1>3, <2>1 DEF M
  <2>4. Dns!Byte(M, Len(m)) = 192 /\ Dns!Byte(M, Len(m) + 1) = p
    BY <1>4, <2>1, <2>3
  <2>5. Dns!IsPointer(192)
    BY DEF Dns!IsPointer
  <2>6. Dns!NamesIn(M)[e][Len(m)] = Dns!NamesIn(M)[e - 1][p]
    <3>1. Dns!NamesIn(M)[e][Len(m)] =
            IF Dns!Byte(M, Len(m)) = 0 THEN <<>>
            ELSE IF Dns!IsPointer(Dns!Byte(M, Len(m))) THEN Dns!NamesIn(M)[e - 1][Dns!Byte(M, Len(m) + 1)]
            ELSE SubSeq(M, Len(m) + 2, Len(m) + 1 + Dns!Byte(M, Len(m)))
                 \o Dns!Separator(Dns!Byte(M, Len(m) + 1 + Dns!Byte(M, Len(m))))
                 \o Dns!NamesIn(M)[e - 1][Len(m) + 1 + Dns!Byte(M, Len(m))]
      BY <2>3, NamesAre
    <3> QED BY <2>4, <2>5, <3>1
  <2>7. Dns!NamesIn(M)[e - 1][p] = x
    BY <1>5, <2>2, <2>3 DEF Spells
  <2> QED BY <2>6, <2>7 DEF M
<1>7. Len(m) \in 0..Len(mb) - 1
  BY <1>2, <1>3
<1> QED BY <1>6, <1>7 DEF Spells, mb, b

\* A label, and what is written behind it.
LabelThen(l, s) == <<Len(l)>> \o l \o s

LEMMA LabelThenIs ==
  ASSUME NEW l \in Seq(Nat), NEW s \in Seq(Nat)
  PROVE  /\ Len(l) \in Nat /\ Len(s) \in Nat
         /\ LabelThen(l, s) \in Seq(Nat) /\ Len(LabelThen(l, s)) = 1 + Len(l) + Len(s)
         /\ LabelThen(l, s)[1] = Len(l)
         /\ \A k \in 1..Len(l) : LabelThen(l, s)[1 + k] = l[k]
         /\ \A k \in 1..Len(s) : LabelThen(l, s)[1 + Len(l) + k] = s[k]
<1> DEFINE a == <<Len(l)>>
           b == a \o l \o s
<1>1. Len(l) \in Nat /\ Len(s) \in Nat
  BY LenProperties
<1>2. a \in Seq(Nat)
  BY <1>1
<1>3. Len(a) = 1 /\ a[1] = Len(l)
  OBVIOUS
<1>4. LabelThen(l, s) = b
  BY DEF LabelThen
<1> HIDE DEF a
<1>5. /\ b \in Seq(Nat) /\ Len(b) = Len(a) + Len(l) + Len(s)
      /\ \A k \in 1..Len(a) : b[k] = a[k]
      /\ \A k \in 1..Len(l) : b[Len(a) + k] = l[k]
      /\ \A k \in 1..Len(s) : b[Len(a) + Len(l) + k] = s[k]
  BY <1>2, ThreeJoined
<1> HIDE DEF b
<1>6. 1 \in 1..Len(a)
  BY <1>3
<1> QED BY <1>1, <1>3, <1>4, <1>5, <1>6

\* The message M holds m, the label l with s behind it, which together are b, and t.
Labelled(m, l, s, t, b, M) ==
  /\ Len(m) \in Nat /\ Len(l) \in Nat /\ Len(s) \in Nat /\ Len(t) \in Nat
  /\ b \in Seq(Nat) /\ Len(b) = 1 + Len(l) + Len(s)
  /\ b \o t \in Seq(Nat) /\ M = m \o (b \o t)
  /\ M \in Seq(Nat) /\ Len(M) = Len(m) + Len(b) + Len(t)
  /\ M[Len(m) + 1] = Len(l)
  /\ SubSeq(M, Len(m) + 2, Len(m) + 1 + Len(l)) = l
  /\ \A k \in 1..Len(s) : M[Len(m) + 1 + Len(l) + k] = s[k]

LEMMA LabelBytes ==
  ASSUME NEW m \in Seq(Nat), NEW l \in Seq(Nat), NEW s \in Seq(Nat), NEW t \in Seq(Nat)
  PROVE  Labelled(m, l, s, t, LabelThen(l, s), m \o LabelThen(l, s) \o t)
<1> DEFINE b == LabelThen(l, s)
           M == m \o b \o t
<1>1. Len(m) \in Nat /\ Len(l) \in Nat /\ Len(s) \in Nat /\ Len(t) \in Nat
  BY LenProperties
<1>2. b \in Seq(Nat)
  BY LabelThenIs
<1>3. /\ Len(b) = 1 + Len(l) + Len(s) /\ b[1] = Len(l)
      /\ \A k \in 1..Len(l) : b[1 + k] = l[k]
      /\ \A k \in 1..Len(s) : b[1 + Len(l) + k] = s[k]
  BY LabelThenIs
<1> HIDE DEF b
<1>4. b \o t \in Seq(Nat) /\ M = m \o (b \o t)
  <2>1. b \o t \in Seq(Nat)
    BY <1>2, LongerIs
  <2>2. M = m \o (b \o t)
    BY <1>2, Regrouped, SMTT(30)
  <2> QED BY <2>1, <2>2
<1>5. /\ M \in Seq(Nat) /\ Len(M) = Len(m) + Len(b) + Len(t)
      /\ \A k \in 1..Len(b) : M[Len(m) + k] = b[k]
  BY <1>2, ThreeJoined
<1> HIDE DEF M
<1>6. M[Len(m) + 1] = Len(l)
  <2>1. 1 \in 1..Len(b)
    BY <1>1, <1>3
  <2> QED BY <1>3, <1>5, <2>1
<1>7. \A k \in 1..Len(l) : M[Len(m) + 1 + k] = l[k]
  <2> TAKE k \in 1..Len(l)
  <2>1. 1 + k \in 1..Len(b) /\ Len(m) + (1 + k) = Len(m) + 1 + k
    BY <1>1, <1>3
  <2>2. M[Len(m) + (1 + k)] = b[1 + k]
    BY <1>5, <2>1
  <2> QED BY <1>3, <2>1, <2>2
<1>8. \A k \in 1..Len(s) : M[Len(m) + 1 + Len(l) + k] = s[k]
  <2> TAKE k \in 1..Len(s)
  <2> DEFINE j == 1 + Len(l) + k
  <2>1. j \in 1..Len(b) /\ Len(m) + j = Len(m) + 1 + Len(l) + k
    BY <1>1, <1>3
  <2>2. b[j] = s[k]
    BY <1>3
  <2> HIDE DEF j
  <2>3. M[Len(m) + j] = b[j]
    BY <1>5, <2>1
  <2> QED BY <2>1, <2>2, <2>3
<1>9. SubSeq(M, Len(m) + 2, Len(m) + 1 + Len(l)) = l
  <2> DEFINE x == Len(m) + 2
             y == Len(m) + 1 + Len(l)
             u == SubSeq(M, x, y)
  <2>1. x \in Int /\ y \in Int /\ x = Len(m) + 2 /\ y = Len(m) + 1 + Len(l)
    BY <1>1
  <2> HIDE DEF x, y
  <2>2. ASSUME NEW k \in x..y PROVE M[k] \in Nat
    <3>1. k \in 1..Len(M)
      BY <1>1, <1>3, <1>5, <2>1
    <3> QED BY <1>5, <3>1, ElementOfSeq
  <2>3. x \in Int /\ y \in Int
    BY <2>1
  <2>4. /\ u \in Seq(Nat) /\ Len(u) = IF x <= y THEN y - x + 1 ELSE 0
        /\ \A k \in 1..y - x + 1 : u[k] = M[x + k - 1]
    BY <2>2, <2>3, SubSeqProperties
  <2> HIDE DEF u
  <2>5. Len(u) = Len(l)
    BY <1>1, <2>1, <2>4
  <2>6. ASSUME NEW k \in 1..Len(u) PROVE u[k] = l[k]
    <3>1. k \in 1..y - x + 1 /\ x + k - 1 = Len(m) + 1 + k /\ k \in 1..Len(l)
      BY <1>1, <2>1, <2>5
    <3>2. u[k] = M[Len(m) + 1 + k]
      BY <2>4, <3>1
    <3> QED BY <1>7, <3>1, <3>2
  <2>7. u = l
    BY <2>4, <2>5, <2>6, SeqEqual
  <2> QED BY <2>7 DEF u, x, y
<1>10. Labelled(m, l, s, t, b, M)
  BY <1>1, <1>2, <1>3, <1>4, <1>5, <1>6, <1>8, <1>9 DEF Labelled
<1> QED BY <1>10 DEF M, b

\* How it is read.
ReadsLabel(m, l, s, M) ==
  Len(l) \in 1..63 /\ s # <<>> =>
    \A e \in 1..Len(M) :
      Dns!NamesIn(M)[e][Len(m)] =
        l \o Dns!Separator(s[1]) \o Dns!NamesIn(M)[e - 1][Len(m) + 1 + Len(l)]

LEMMA LabelWritten ==
  ASSUME NEW m \in Seq(Nat), NEW l \in Seq(Nat), NEW s \in Seq(Nat), NEW t \in Seq(Nat)
  PROVE  ReadsLabel(m, l, s, m \o LabelThen(l, s) \o t)
<1> DEFINE b == LabelThen(l, s)
           M == m \o b \o t
           q == Len(m) + 1 + Len(l)
<1>0. Labelled(m, l, s, t, b, M)
  BY LabelBytes
<1> HIDE DEF M, b
<1>1. /\ Len(m) \in Nat /\ Len(l) \in Nat /\ Len(s) \in Nat /\ Len(t) \in Nat
      /\ Len(b) = 1 + Len(l) + Len(s) /\ Len(M) = Len(m) + Len(b) + Len(t) /\ M \in Seq(Nat)
      /\ M[Len(m) + 1] = Len(l)
      /\ SubSeq(M, Len(m) + 2, Len(m) + 1 + Len(l)) = l
      /\ \A k \in 1..Len(s) : M[q + k] = s[k]
  BY <1>0 DEF Labelled
<1> SUFFICES ASSUME Len(l) \in 1..63, s # <<>>, NEW e \in 1..Len(M)
             PROVE  Dns!NamesIn(M)[e][Len(m)] = l \o Dns!Separator(s[1]) \o Dns!NamesIn(M)[e - 1][q]
  BY DEF M, b, ReadsLabel
<1>2. 1 \in 1..Len(s)
  BY <1>1, EmptySeq
<1>3. Dns!Byte(M, Len(m)) = Len(l) /\ Dns!Byte(M, q) = s[1]
  <2> HIDE DEF q
  <2> QED BY <1>1, <1>2 DEF Dns!Byte
<1>4. Len(m) \in 0..Len(M) - 1 /\ Len(M) \in Nat
  BY <1>1
<1>5. Dns!NamesIn(M)[e][Len(m)] =
        IF Dns!Byte(M, Len(m)) = 0 THEN <<>>
        ELSE IF Dns!IsPointer(Dns!Byte(M, Len(m))) THEN Dns!NamesIn(M)[e - 1][Dns!Byte(M, Len(m) + 1)]
        ELSE SubSeq(M, Len(m) + 2, Len(m) + 1 + Dns!Byte(M, Len(m)))
             \o Dns!Separator(Dns!Byte(M, Len(m) + 1 + Dns!Byte(M, Len(m))))
             \o Dns!NamesIn(M)[e - 1][Len(m) + 1 + Dns!Byte(M, Len(m))]
  BY <1>4, NamesAre
<1>6. Len(l) # 0 /\ ~Dns!IsPointer(Len(l))
  <2>1. \A k \in 1..63 : k # 0 /\ ~Dns!IsPointer(k)
    BY DEF Dns!IsPointer
  <2> QED BY <2>1
<1> QED BY <1>1, <1>3, <1>5, <1>6

\* A label alone, and a label before a pointer.
LEMMA LabelSpells ==
  ASSUME NEW m \in Seq(Nat), NEW l \in Seq(Nat), Len(l) \in 1..63
  PROVE  LET b == <<Len(l)>> \o l \o <<0>>
         IN Spells(m \o b, Len(m), l) /\ b \in Seq(Nat) /\ Len(b) = Len(l) + 2 /\ b[1] = Len(l)
<1> DEFINE s == <<0>>
           b == LabelThen(l, s)
           mb == m \o b
           q == Len(m) + 1 + Len(l)
<1>1. s \in Seq(Nat) /\ s # <<>>
  OBVIOUS
<1>2. Len(s) = 1 /\ s[1] = 0
  OBVIOUS
<1>3. b = <<Len(l)>> \o l \o <<0>>
  BY DEF LabelThen
<1> HIDE DEF s
<1>4. Len(m) \in Nat /\ Len(l) \in Nat /\ b \in Seq(Nat) /\ Len(b) = Len(l) + 2 /\ b[1] = Len(l)
  <2>1. Len(m) \in Nat
    BY LenProperties
  <2>2. /\ Len(l) \in Nat /\ Len(s) \in Nat /\ b \in Seq(Nat)
        /\ Len(b) = 1 + Len(l) + Len(s) /\ b[1] = Len(l)
    BY <1>1, LabelThenIs
  <2> HIDE DEF b
  <2>3. Len(b) = Len(l) + 2
    BY <1>2, <2>2
  <2> QED BY <2>1, <2>2, <2>3
<1>5. Len(mb) = Len(m) + Len(b) /\ mb \in Seq(Nat)
  <2>1. b \in Seq(Nat)
    BY <1>4
  <2> HIDE DEF b
  <2> QED BY <2>1, LongerIs
<1>6. ASSUME NEW t \in Seq(Nat), NEW e \in Len(mb)..Len(mb \o t) PROVE Dns!NamesIn(mb \o t)[e][Len(m)] = l
  <2> DEFINE M == mb \o t
  <2>1. Labelled(m, l, s, t, b, M)
    BY <1>1, LabelBytes
  <2>2. \A d \in 1..Len(M) : Dns!NamesIn(M)[d][Len(m)] = l \o Dns!Separator(s[1]) \o Dns!NamesIn(M)[d - 1][q]
    <3>1. s \in Seq(Nat)
      BY <1>1
    <3>2. ReadsLabel(m, l, s, M)
      BY <3>1, LabelWritten
    <3> HIDE DEF M
    <3> QED BY <1>1, <3>2, Zenon DEF ReadsLabel
  <2>3. e \in Len(mb)..Len(M)
    OBVIOUS
  <2> HIDE DEF M, mb, b
  <2>4. M \in Seq(Nat) /\ Len(M) = Len(m) + Len(b) + Len(t) /\ Len(t) \in Nat /\ M[q + 1] = 0
    BY <1>2, <2>1 DEF Labelled
  <2>5. /\ e \in 1..Len(M) /\ e - 1 \in 1..Len(M) /\ q \in 0..Len(M) - 1 /\ Len(M) \in Nat
    <3>1. Len(M) = Len(m) + Len(b) + Len(t) /\ Len(t) \in Nat
      BY <2>4
    <3> QED BY <1>4, <1>5, <2>3, <3>1
  <2> HIDE DEF q
  <2>6. Dns!Byte(M, q) = 0
    BY <2>4 DEF Dns!Byte
  <2>7. Dns!NamesIn(M)[e - 1][q] = <<>>
    BY <2>5, <2>6, NamesAre
  <2>8. Dns!Separator(s[1]) = <<>>
    BY <1>2 DEF Dns!Separator
  <2>9. l \o <<>> \o <<>> = l
    BY ConcatEmptySeq
  <2>10. Dns!NamesIn(M)[e][Len(m)] = l
    BY <2>2, <2>5, <2>7, <2>8, <2>9
  <2> QED BY <2>10 DEF M
<1>7. Len(m) \in 0..Len(mb) - 1
  BY <1>4, <1>5
<1>8. Spells(mb, Len(m), l)
  BY <1>6, <1>7 DEF Spells
<1> QED BY <1>3, <1>4, <1>8

LEMMA BothSpell ==
  ASSUME NEW m \in Seq(Nat), NEW l \in Seq(Nat), Len(l) \in 1..63,
         NEW p \in Nat, NEW x, Spells(m, p, x)
  PROVE  LET b == <<Len(l)>> \o l \o <<192, p>>
         IN /\ Spells(m \o b, Len(m), l \o <<Dns!Dot>> \o x)
            /\ b \in Seq(Nat) /\ Len(b) = Len(l) + 3 /\ b[1] = Len(l)
<1> DEFINE s == <<192, p>>
           b == LabelThen(l, s)
           mb == m \o b
           q == Len(m) + 1 + Len(l)
<1>1. s \in Seq(Nat) /\ s # <<>>
  OBVIOUS
<1>2. Len(s) = 2 /\ s[1] = 192 /\ s[2] = p
  OBVIOUS
<1>3. b = <<Len(l)>> \o l \o <<192, p>>
  BY DEF LabelThen
<1> HIDE DEF s
<1>4. Len(m) \in Nat /\ Len(l) \in Nat /\ b \in Seq(Nat) /\ Len(b) = Len(l) + 3 /\ b[1] = Len(l)
  <2>1. Len(m) \in Nat
    BY LenProperties
  <2>2. /\ Len(l) \in Nat /\ Len(s) \in Nat /\ b \in Seq(Nat)
        /\ Len(b) = 1 + Len(l) + Len(s) /\ b[1] = Len(l)
    BY <1>1, LabelThenIs
  <2> HIDE DEF b
  <2>3. Len(b) = Len(l) + 3
    BY <1>2, <2>2
  <2> QED BY <2>1, <2>2, <2>3
<1>5. Len(mb) = Len(m) + Len(b) /\ mb \in Seq(Nat)
  <2>1. b \in Seq(Nat)
    BY <1>4
  <2> HIDE DEF b
  <2> QED BY <2>1, LongerIs
<1>6. ASSUME NEW t \in Seq(Nat), NEW e \in Len(mb)..Len(mb \o t)
      PROVE  Dns!NamesIn(mb \o t)[e][Len(m)] = l \o <<Dns!Dot>> \o x
  <2> DEFINE M == mb \o t
  <2>1. Labelled(m, l, s, t, b, M)
    BY <1>1, LabelBytes
  <2>2. \A d \in 1..Len(M) : Dns!NamesIn(M)[d][Len(m)] = l \o Dns!Separator(s[1]) \o Dns!NamesIn(M)[d - 1][q]
    <3>1. s \in Seq(Nat)
      BY <1>1
    <3>2. ReadsLabel(m, l, s, M)
      BY <3>1, LabelWritten
    <3> HIDE DEF M
    <3> QED BY <1>1, <3>2, Zenon DEF ReadsLabel
  <2>3. e \in Len(mb)..Len(M)
    OBVIOUS
  <2> HIDE DEF M, mb, b
  <2>4. /\ M \in Seq(Nat) /\ Len(M) = Len(m) + Len(b) + Len(t) /\ Len(t) \in Nat
        /\ M[q + 1] = 192 /\ M[q + 2] = p /\ M = m \o (b \o t) /\ b \o t \in Seq(Nat)
    <3>1. /\ M \in Seq(Nat) /\ Len(M) = Len(m) + Len(b) + Len(t) /\ Len(t) \in Nat
          /\ M = m \o (b \o t) /\ b \o t \in Seq(Nat)
      BY <2>1 DEF Labelled
    <3>2. \A k \in 1..Len(s) : M[q + k] = s[k]
      BY <2>1 DEF Labelled
    <3>3. 1 \in 1..Len(s) /\ 2 \in 1..Len(s)
      BY <1>2
    <3> HIDE DEF q
    <3>4. M[q + 1] = 192 /\ M[q + 2] = p
      BY <1>2, <3>2, <3>3
    <3> QED BY <3>1, <3>4
  <2>5. /\ e \in 1..Len(M) /\ e - 1 \in 1..Len(M) /\ q \in 0..Len(M) - 1 /\ Len(M) \in Nat
        /\ (e - 1) - 1 \in Len(m)..Len(M) /\ q + 1 + 1 = q + 2
    <3>1. Len(M) = Len(m) + Len(b) + Len(t) /\ Len(t) \in Nat
      BY <2>4
    <3> QED BY <1>4, <1>5, <2>3, <3>1
  <2> HIDE DEF q
  <2>6. Dns!Byte(M, q) = 192 /\ Dns!Byte(M, q + 1) = p
    BY <2>4, <2>5 DEF Dns!Byte
  <2>7. Dns!NamesIn(M)[e - 1][q] = Dns!NamesIn(M)[(e - 1) - 1][p]
    <3>1. Dns!NamesIn(M)[e - 1][q] =
            IF Dns!Byte(M, q) = 0 THEN <<>>
            ELSE IF Dns!IsPointer(Dns!Byte(M, q)) THEN Dns!NamesIn(M)[(e - 1) - 1][Dns!Byte(M, q + 1)]
            ELSE SubSeq(M, q + 2, q + 1 + Dns!Byte(M, q))
                 \o Dns!Separator(Dns!Byte(M, q + 1 + Dns!Byte(M, q)))
                 \o Dns!NamesIn(M)[(e - 1) - 1][q + 1 + Dns!Byte(M, q)]
      BY <2>5, NamesAre
    <3>2. Dns!IsPointer(192)
      BY DEF Dns!IsPointer
    <3> QED BY <2>6, <3>1, <3>2
  <2>8. Dns!NamesIn(M)[(e - 1) - 1][p] = x
    <3>1. (e - 1) - 1 \in Len(m)..Len(m \o (b \o t))
      BY <2>4, <2>5
    <3>2. \A d \in Len(m)..Len(m \o (b \o t)) : Dns!NamesIn(m \o (b \o t))[d][p] = x
      BY <2>4 DEF Spells
    <3>3. Dns!NamesIn(m \o (b \o t))[(e - 1) - 1][p] = x
      BY <3>1, <3>2
    <3> QED BY <2>4, <3>3
  <2>9. Dns!Separator(s[1]) = <<Dns!Dot>>
    BY <1>2 DEF Dns!Separator
  <2>10. Dns!NamesIn(M)[e][Len(m)] = l \o <<Dns!Dot>> \o x
    BY <2>2, <2>5, <2>7, <2>8, <2>9
  <2> QED BY <2>10 DEF M
<1>7. Len(m) \in 0..Len(mb) - 1
  BY <1>4, <1>5
<1>8. Spells(mb, Len(m), l \o <<Dns!Dot>> \o x)
  BY <1>6, <1>7 DEF Spells
<1> QED BY <1>3, <1>4, <1>8

-----------------------------------------------------------------------------
(* dns.c, 302-341: the records that a correct server writes.               *)

\* What the server has written can be read.
Names(m, ns) ==
  /\ ns \subseteq [at : Nat, name : Seq(Nat)]
  /\ \A n \in ns : Spells(m, n.at, n.name)

\* The server's names, at the end of a message in which its older ones are.
LEMMA NameWritten ==
  ASSUME Dns!Assumption, NEW m \in Seq(Nat), Names(m, names), NEW n \in Dns!Pointers \cup Dns!Spelled
  PROVE  /\ n.bytes \in Seq(Nat) /\ n.name \in Seq(Nat)
         /\ Spells(m \o n.bytes, Len(m), n.name)
         /\ Len(n.bytes) >= 2
         /\ Dns!IsPointer(n.bytes[1]) => Len(n.bytes) = 2
<1>1. ASSUME NEW l \in Labels PROVE l \in Seq(Nat) /\ Len(l) \in 1..63 /\ ~Dns!IsPointer(Len(l))
  <2>1. l \in Seq(1..255 \ {Dns!Dot}) /\ Len(l) \in 1..63
    BY DEF Dns!Assumption
  <2>2. l \in Seq(Nat)
    <3>1. l \in Seq(1..255 \ {Dns!Dot})
      BY <2>1
    <3>2. 1..255 \ {Dns!Dot} \subseteq Nat
      <4>1. 1..255 \subseteq Nat
        OBVIOUS
      <4> QED BY <4>1, Zenon
    <3> HIDE <2>1
    <3> QED BY <3>1, <3>2, SeqMonotonic
  <2>3. \A k \in 1..63 : ~Dns!IsPointer(k)
    BY DEF Dns!IsPointer
  <2> QED BY <2>1, <2>2, <2>3
<1>2. ASSUME NEW o \in names PROVE o.at \in Nat /\ o.name \in Seq(Nat) /\ Spells(m, o.at, o.name)
  BY DEF Names
<1>3. CASE n \in Dns!Pointers
  <2>1. PICK o \in names : n = [bytes |-> <<192, o.at>>, name |-> o.name]
    BY <1>3 DEF Dns!Pointers
  <2>2. n.bytes = <<192, o.at>> /\ n.name = o.name
    BY <2>1
  <2>3. Spells(m \o <<192, o.at>>, Len(m), o.name)
    BY <1>2, PointerSpells
  <2>4. <<192, o.at>> \in Seq(Nat) /\ Len(<<192, o.at>>) = 2
    BY <1>2
  <2> QED BY <1>2, <2>2, <2>3, <2>4
<1>4. CASE \E l \in Labels : n = [bytes |-> <<Len(l)>> \o l \o <<0>>, name |-> l]
  <2>1. PICK l \in Labels : n = [bytes |-> <<Len(l)>> \o l \o <<0>>, name |-> l]
    BY <1>4
  <2> DEFINE b == <<Len(l)>> \o l \o <<0>>
  <2>2. n.bytes = b /\ n.name = l
    BY <2>1
  <2>3. Spells(m \o b, Len(m), l) /\ b \in Seq(Nat) /\ Len(b) = Len(l) + 2 /\ b[1] = Len(l)
    BY <1>1, LabelSpells
  <2> HIDE DEF b
  <2>4. Len(b) >= 2
    BY <1>1, <2>3
  <2> QED BY <1>1, <2>2, <2>3, <2>4
<1>5. CASE \E l \in Labels, p \in Dns!Pointers :
             n = [bytes |-> <<Len(l)>> \o l \o p.bytes, name |-> l \o <<Dns!Dot>> \o p.name]
  <2>1. PICK l \in Labels, p \in Dns!Pointers :
               n = [bytes |-> <<Len(l)>> \o l \o p.bytes, name |-> l \o <<Dns!Dot>> \o p.name]
    BY <1>5
  <2>2. PICK o \in names : p = [bytes |-> <<192, o.at>>, name |-> o.name]
    BY DEF Dns!Pointers
  <2> DEFINE b == <<Len(l)>> \o l \o <<192, o.at>>
             x == l \o <<Dns!Dot>> \o o.name
  <2>3. n.bytes = b /\ n.name = x
    BY <2>1, <2>2
  <2>4. Spells(m \o b, Len(m), x) /\ b \in Seq(Nat) /\ Len(b) = Len(l) + 3 /\ b[1] = Len(l)
    <3>1. l \in Seq(Nat) /\ Len(l) \in 1..63
      BY <1>1
    <3>2. o.at \in Nat /\ o.name \in Seq(Nat) /\ Spells(m, o.at, o.name)
      BY <1>2
    <3> QED BY <3>1, <3>2, BothSpell
  <2>5. x \in Seq(Nat)
    <3>1. <<Dns!Dot>> \in Seq(Nat) /\ l \in Seq(Nat) /\ o.name \in Seq(Nat)
      BY <1>1, <1>2 DEF Dns!Dot
    <3> QED BY <3>1, ThreeJoined
  <2> HIDE DEF b, x
  <2>6. Len(b) >= 2
    BY <1>1, <2>4
  <2> QED BY <1>1, <2>3, <2>4, <2>5, <2>6
<1>6. \/ n \in Dns!Pointers
      \/ \E l \in Labels : n = [bytes |-> <<Len(l)>> \o l \o <<0>>, name |-> l]
      \/ \E l \in Labels, p \in Dns!Pointers :
             n = [bytes |-> <<Len(l)>> \o l \o p.bytes, name |-> l \o <<Dns!Dot>> \o p.name]
  <2> DEFINE Both(l, p) == [bytes |-> <<Len(l)>> \o l \o p.bytes, name |-> l \o <<Dns!Dot>> \o p.name]
             X == {[bytes |-> <<Len(l)>> \o l \o <<0>>, name |-> l] : l \in Labels}
             Y == {Both(l, p) : l \in Labels, p \in Dns!Pointers}
  <2> HIDE DEF Both
  <2>1. n \in Dns!Pointers \/ n \in X \/ n \in Y
    <3>1. Dns!Spelled = X \cup Y
      BY DEF Dns!Spelled, Both
    <3> HIDE DEF X, Y
    <3> QED BY <3>1
  <2>2. n \in X => \E l \in Labels : n = [bytes |-> <<Len(l)>> \o l \o <<0>>, name |-> l]
    BY Zenon
  <2>3. n \in Y => \E l \in Labels, p \in Dns!Pointers : n = Both(l, p)
    OBVIOUS
  <2> HIDE DEF X, Y
  <2> QED BY <2>1, <2>2, <2>3, Zenon DEF Both
<1> QED BY <1>3, <1>4, <1>5, <1>6

LEMMA ShortIs ==
  ASSUME NEW x \in Nat
  PROVE  x \div 256 \in Nat /\ x % 256 \in Nat /\ (256 * (x \div 256)) + (x % 256) = x
OBVIOUS

\* Type, class, ttl and data length of a record.
Fixed(t, x) == Dns!Bytes(t) \o Dns!Bytes(1) \o <<0, 0, 1, 44>> \o Dns!Bytes(x)

LEMMA FixedIs ==
  ASSUME NEW t \in Nat, NEW x \in Nat
  PROVE  /\ Fixed(t, x) \in Seq(Nat) /\ Len(Fixed(t, x)) = 10
         /\ 256 * Fixed(t, x)[1] + Fixed(t, x)[2] = t
         /\ 256 * Fixed(t, x)[9] + Fixed(t, x)[10] = x
<1> DEFINE t1 == t \div 256 t2 == t % 256 x1 == x \div 256 x2 == x % 256
<1>1. t1 \in Nat /\ t2 \in Nat /\ x1 \in Nat /\ x2 \in Nat /\ 256 * t1 + t2 = t /\ 256 * x1 + x2 = x
  BY ShortIs
<1>2. Dns!Bytes(t) = <<t1, t2>> /\ Dns!Bytes(1) = <<0, 1>> /\ Dns!Bytes(x) = <<x1, x2>>
  BY DEF Dns!Bytes
<1> HIDE DEF t1, t2, x1, x2
<1> DEFINE a == <<t1, t2>>
           b == <<0, 1>>
           c == <<0, 0, 1, 44>>
           d == <<x1, x2>>
           ab == a \o b \o c
<1>3. a \in Seq(Nat) /\ b \in Seq(Nat) /\ c \in Seq(Nat) /\ d \in Seq(Nat)
  BY <1>1
<1>4. Len(a) = 2 /\ Len(b) = 2 /\ Len(c) = 4 /\ Len(d) = 2 /\ a[1] = t1 /\ a[2] = t2 /\ d[1] = x1 /\ d[2] = x2
  OBVIOUS
<1>5. Fixed(t, x) = ab \o d
  BY <1>2 DEF Fixed
<1> HIDE DEF a, b, c, d
<1>6. /\ ab \in Seq(Nat) /\ Len(ab) = Len(a) + Len(b) + Len(c)
      /\ \A k \in 1..Len(a) : ab[k] = a[k]
  BY <1>3, ThreeJoined
<1> HIDE DEF ab
<1>7. /\ ab \o d \in Seq(Nat) /\ Len(ab \o d) = Len(ab) + Len(d)
      /\ \A k \in 1..Len(ab) + Len(d) : (ab \o d)[k] = IF k <= Len(ab) THEN ab[k] ELSE d[k - Len(ab)]
  <2>1. ab \in Seq(Nat)
    BY <1>6
  <2> QED BY <1>3, <2>1, ConcatProperties
<1> DEFINE f == ab \o d
<1> HIDE DEF f
<1>8. Len(ab) = 8 /\ ab[1] = t1 /\ ab[2] = t2
  <2>1. 1 \in 1..Len(a) /\ 2 \in 1..Len(a)
    BY <1>4
  <2> QED BY <1>4, <1>6, <2>1
<1>9. f \in Seq(Nat) /\ Len(f) = 10 /\ f[1] = t1 /\ f[2] = t2 /\ f[9] = x1 /\ f[10] = x2
  <2>1. \A k \in 1..10 : f[k] = IF k <= 8 THEN ab[k] ELSE d[k - 8]
    <3>1. Len(ab) = 8 /\ Len(d) = 2
      BY <1>4, <1>8
    <3>2. \A k \in 1..Len(ab) + Len(d) : f[k] = IF k <= Len(ab) THEN ab[k] ELSE d[k - Len(ab)]
      BY <1>7 DEF f
    <3>3. 1..Len(ab) + Len(d) = 1..10
      BY <3>1
    <3> QED BY <3>1, <3>2, <3>3
  <2>2. f \in Seq(Nat) /\ Len(f) = 10
    BY <1>4, <1>7, <1>8 DEF f
  <2>3. f[1] = ab[1] /\ f[2] = ab[2] /\ f[9] = d[1] /\ f[10] = d[2]
    BY <2>1
  <2> QED BY <1>4, <1>8, <2>2, <2>3
<1> QED BY <1>1, <1>5, <1>9 DEF f

\* The record r lies at offsets o to e.  Of one that does not begin with a pointer
\* nothing is said, since the parser gets lost in it.
RecordAt(m, o, e, r) ==
  /\ o \in Nat /\ e \in Nat /\ o + 12 <= e /\ e <= Len(m)
  /\ Dns!IsPointer(Dns!Byte(m, o)) =>
       /\ Spells(m, o, r.name)
       /\ Dns!Short(m, o + 2) = r.qType
       /\ o + 12 + Dns!Short(m, o + 10) = e
       /\ \/ r.qType = Dns!CNAME /\ Spells(m, o + 12, r.data)
          \/ r.qType = Dns!A /\ Dns!Short(m, o + 10) = 4 /\ SubSeq(m, o + 13, o + 16) = r.data
          \/ r.qType = Dns!TEXT /\ r.data = <<>>

LEMMA RecordStays ==
  ASSUME NEW m \in Seq(Nat), NEW s \in Seq(Nat), NEW o, NEW e, NEW r, RecordAt(m, o, e, r)
  PROVE  RecordAt(m \o s, o, e, r)
<1> DEFINE ms == m \o s
<1>1. /\ ms \in Seq(Nat) /\ Len(ms) = Len(m) + Len(s) /\ Len(m) \in Nat /\ Len(s) \in Nat
      /\ \A k \in 0..Len(m) - 1 : Dns!Byte(ms, k) = Dns!Byte(m, k)
  BY LongerIs
<1>2. \A k, x : Spells(m, k, x) => Spells(ms, k, x)
  BY SpellsStays
<1>3. o \in Nat /\ e \in Nat /\ o + 12 <= e /\ e <= Len(m)
  BY DEF RecordAt
<1>4. SubSeq(ms, o + 13, o + 16) = SubSeq(m, o + 13, o + 16) \/ e < o + 16
  <2> SUFFICES ASSUME ~(e < o + 16) PROVE SubSeq(ms, o + 13, o + 16) = SubSeq(m, o + 13, o + 16)
    OBVIOUS
  <2>1. o + 13 \in 1..Len(m) /\ o + 16 \in 1..Len(m)
    BY <1>1, <1>3
  <2> QED BY <2>1, SubSeqOfConcat1
<1> HIDE DEF ms
<1>5. Dns!Byte(ms, o) = Dns!Byte(m, o)
  BY <1>1, <1>3
<1>6. Dns!Short(ms, o + 2) = Dns!Short(m, o + 2) /\ Dns!Short(ms, o + 10) = Dns!Short(m, o + 10)
  <2>1. \A k \in {2, 3, 10, 11} : o + k \in 0..Len(m) - 1
    BY <1>1, <1>3
  <2>2. (o + 2) + 1 = o + 3 /\ (o + 10) + 1 = o + 11
    BY <1>3
  <2> QED BY <1>1, <2>1, <2>2 DEF Dns!Short
<1>7. e <= Len(ms)
  BY <1>1, <1>3
<1>8. ASSUME Dns!IsPointer(Dns!Byte(ms, o))
      PROVE  /\ Spells(ms, o, r.name)
             /\ Dns!Short(ms, o + 2) = r.qType
             /\ o + 12 + Dns!Short(ms, o + 10) = e
             /\ \/ r.qType = Dns!CNAME /\ Spells(ms, o + 12, r.data)
                \/ r.qType = Dns!A /\ Dns!Short(ms, o + 10) = 4 /\ SubSeq(ms, o + 13, o + 16) = r.data
                \/ r.qType = Dns!TEXT /\ r.data = <<>>
  <2>1. /\ Spells(m, o, r.name)
        /\ Dns!Short(m, o + 2) = r.qType
        /\ o + 12 + Dns!Short(m, o + 10) = e
        /\ \/ r.qType = Dns!CNAME /\ Spells(m, o + 12, r.data)
           \/ r.qType = Dns!A /\ Dns!Short(m, o + 10) = 4 /\ SubSeq(m, o + 13, o + 16) = r.data
           \/ r.qType = Dns!TEXT /\ r.data = <<>>
    BY <1>5, <1>8 DEF RecordAt
  <2>2. Dns!Short(m, o + 10) = 4 => ~(e < o + 16)
    <3> DEFINE z == Dns!Short(m, o + 10)
    <3>1. o + 12 + z = e
      BY <2>1
    <3> HIDE DEF z
    <3>2. z = 4 => ~(e < o + 16)
      BY <1>3, <3>1
    <3> QED BY <3>2 DEF z
  <2> QED BY <1>2, <1>4, <1>6, <2>1, <2>2
<1>9. RecordAt(ms, o, e, r)
  BY <1>3, <1>7, <1>8 DEF RecordAt
<1> QED BY <1>9 DEF ms

\* What a record holds, behind the names m.
Holds(m, c) ==
  /\ c.bytes \in Seq(Nat) /\ c.qType \in Nat /\ c.data \in Seq(Nat)
  /\ \/ c.qType = Dns!CNAME /\ Spells(m \o c.bytes, Len(m), c.data)
     \/ c.qType = Dns!A /\ Len(c.bytes) = 4 /\ c.bytes = c.data
     \/ c.qType = Dns!TEXT /\ c.data = <<>>

LEMMA ContentsHold ==
  ASSUME Dns!Assumption, NEW m \in Seq(Nat), Names(m, names), NEW c \in Dns!Contents
  PROVE  Holds(m, c)
<1>1. CASE c \in {[qType |-> Dns!A, bytes |-> x, data |-> x] : x \in Addresses}
  <2>1. PICK x \in Addresses : c = [qType |-> Dns!A, bytes |-> x, data |-> x]
    BY <1>1
  <2>2. c.bytes = x /\ c.qType = Dns!A /\ c.data = x
    BY <2>1
  <2>3. x \in Seq(Nat)
    <3>1. x \in Seq(0..255)
      BY DEF Dns!Assumption
    <3>2. 0..255 \subseteq Nat
      OBVIOUS
    <3> QED BY <3>1, <3>2, SeqMonotonic
  <2>4. Len(x) = 4
    BY DEF Dns!Assumption
  <2>5. Dns!A \in Nat
    BY DEF Dns!A
  <2> QED BY <2>2, <2>3, <2>4, <2>5, Zenon DEF Holds
<1>2. CASE c \in {[qType |-> Dns!CNAME, bytes |-> n.bytes, data |-> n.name] : n \in Dns!Pointers \cup Dns!Spelled}
  <2>1. PICK n \in Dns!Pointers \cup Dns!Spelled : c = [qType |-> Dns!CNAME, bytes |-> n.bytes, data |-> n.name]
    BY <1>2
  <2>2. c.bytes = n.bytes /\ c.qType = Dns!CNAME /\ c.data = n.name
    BY <2>1
  <2>3. n.bytes \in Seq(Nat) /\ n.name \in Seq(Nat) /\ Spells(m \o n.bytes, Len(m), n.name)
    BY NameWritten
  <2>4. Dns!CNAME \in Nat
    BY DEF Dns!CNAME
  <2> QED BY <2>2, <2>3, <2>4, Zenon DEF Holds
<1>3. CASE c \in {[qType |-> Dns!TEXT, bytes |-> <<7>>, data |-> <<>>]}
  <2>1. c.bytes = <<7>> /\ c.qType = Dns!TEXT /\ c.data = <<>>
    BY <1>3
  <2>2. <<7>> \in Seq(Nat) /\ <<>> \in Seq(Nat) /\ Dns!TEXT \in Nat
    BY DEF Dns!TEXT
  <2> QED BY <2>1, <2>2, Zenon DEF Holds
<1>4. \/ c \in {[qType |-> Dns!A, bytes |-> x, data |-> x] : x \in Addresses}
      \/ c \in {[qType |-> Dns!CNAME, bytes |-> n.bytes, data |-> n.name] : n \in Dns!Pointers \cup Dns!Spelled}
      \/ c \in {[qType |-> Dns!TEXT, bytes |-> <<7>>, data |-> <<>>]}
  BY Zenon DEF Dns!Contents
<1> QED BY <1>1, <1>2, <1>3, <1>4

Recs == [name : Seq(Nat), qType : Nat, data : Seq(Nat)]

FixedHolds(f, t, x) == Len(f) = 10 /\ 256 * f[1] + f[2] = t /\ 256 * f[9] + f[10] = x

LEMMA FixedHeld ==
  ASSUME NEW t \in Nat, NEW x \in Nat
  PROVE  FixedHolds(Fixed(t, x), t, x)
BY FixedIs DEF FixedHolds

\* AddRecord's bytes are a record.
LEMMA RecordWritten ==
  ASSUME Dns!Assumption, NEW m \in Seq(Nat), Names(m, names),
         NEW n \in Dns!Pointers \cup Dns!Spelled, NEW c \in Dns!Contents
  PROVE  LET m2 == m \o n.bytes \o Fixed(c.qType, Len(c.bytes))
             m3 == m2 \o c.bytes
             r == [name |-> n.name, qType |-> c.qType, data |-> c.data]
         IN /\ m2 \in Seq(Nat) /\ m3 \in Seq(Nat) /\ r \in Recs
            /\ RecordAt(m3, Len(m), Len(m3), r)
            /\ c.qType = Dns!CNAME => Spells(m3, Len(m2), c.data)
<1> DEFINE nb == n.bytes
           cb == c.bytes
           F == Fixed(c.qType, Len(cb))
           m1 == m \o nb
           m2 == m1 \o F
           m3 == m2 \o cb
           r == [name |-> n.name, qType |-> c.qType, data |-> c.data]
           o == Len(m)
           e == Len(m3)
<1>1. /\ nb \in Seq(Nat) /\ n.name \in Seq(Nat)
      /\ Spells(m1, o, n.name)
  BY NameWritten
<1>2. Len(nb) >= 2 /\ (Dns!IsPointer(nb[1]) => Len(nb) = 2)
  BY NameWritten
<1> HIDE DEF nb
<1>3. /\ m1 \in Seq(Nat) /\ Len(m1) = o + Len(nb) /\ o \in Nat /\ Len(nb) \in Nat
      /\ \A k \in 0..o - 1 : Dns!Byte(m1, k) = Dns!Byte(m, k)
      /\ \A k \in 0..Len(nb) - 1 : Dns!Byte(m1, o + k) = Dns!Byte(nb, k)
  BY <1>1, LongerIs
<1>4. cb \in Seq(Nat) /\ c.qType \in Nat /\ c.data \in Seq(Nat)
  <2>1. Holds(m, c)
    BY ContentsHold
  <2> QED BY <2>1 DEF Holds
<1>5. Len(cb) \in Nat
  BY <1>4, LenProperties
<1> HIDE DEF cb
<1>6. F \in Seq(Nat)
  BY <1>4, <1>5, FixedIs
<1>7. Len(F) = 10 /\ 256 * F[1] + F[2] = c.qType /\ 256 * F[9] + F[10] = Len(cb)
  <2> DEFINE t == c.qType
             x == Len(cb)
  <2>1. t \in Nat /\ x \in Nat
    BY <1>4, <1>5
  <2> HIDE DEF t, x
  <2>2. FixedHolds(Fixed(t, x), t, x)
    BY <2>1, FixedHeld
  <2>3. FixedHolds(F, c.qType, Len(cb))
    BY <2>2 DEF t, x
  <2> HIDE DEF F
  <2> QED BY <2>3 DEF FixedHolds
<1> HIDE DEF F, m1
<1>8. m1 \in Seq(Nat)
  BY <1>3
<1>9. /\ m2 \in Seq(Nat) /\ Len(m2) = Len(m1) + Len(F)
      /\ \A k \in 0..Len(m1) - 1 : Dns!Byte(m2, k) = Dns!Byte(m1, k)
      /\ \A k \in 0..Len(F) - 1 : Dns!Byte(m2, Len(m1) + k) = Dns!Byte(F, k)
  BY <1>6, <1>8, LongerIs
<1>10. Spells(m2, o, n.name)
  <2>1. Spells(m1, o, n.name)
    BY <1>1 DEF m1
  <2> QED BY <1>6, <1>8, <2>1, SpellsStays
<1> HIDE DEF m2
<1>11. m2 \in Seq(Nat)
  BY <1>9
<1>12. /\ m3 \in Seq(Nat) /\ e = Len(m2) + Len(cb)
       /\ \A k \in 0..Len(m2) - 1 : Dns!Byte(m3, k) = Dns!Byte(m2, k)
  BY <1>4, <1>11, LongerIs
<1>13. Spells(m3, o, n.name)
  BY <1>4, <1>10, <1>11, SpellsStays
<1>14. SubSeq(m3, Len(m2) + 1, e) = cb
  BY <1>4, <1>11, HeadDropped
<1>15. \/ c.qType = Dns!CNAME /\ Spells(m3, Len(m2), c.data)
       \/ c.qType = Dns!A /\ Len(cb) = 4 /\ cb = c.data
       \/ c.qType = Dns!TEXT /\ c.data = <<>>
  <2>1. Names(m2, names)
    <3>1. Names(m1, names)
      <4>1. \A k, x : Spells(m, k, x) => Spells(m1, k, x)
        BY <1>1, SpellsStays DEF m1
      <4> QED BY <4>1 DEF Names
    <3>2. \A k, x : Spells(m1, k, x) => Spells(m2, k, x)
      BY <1>6, <1>8, SpellsStays DEF m2
    <3> QED BY <3>1, <3>2 DEF Names
  <2>2. Holds(m2, c)
    BY <1>11, <2>1, ContentsHold
  <2> QED BY <2>2 DEF Holds, cb
<1> HIDE DEF m3
<1>16. Len(m1) + 10 = Len(m2) /\ e = Len(m2) + Len(cb) /\ o + 2 <= Len(m1) /\ Len(m1) \in Nat
  BY <1>2, <1>3, <1>7, <1>9, <1>12
<1>17. o + 12 <= e /\ e \in Nat
  BY <1>3, <1>5, <1>16
<1>18. Dns!Byte(m3, o) = nb[1]
  <2>1. 0 \in 0..Len(nb) - 1 /\ o + 0 = o /\ o \in 0..Len(m1) - 1 /\ o \in 0..Len(m2) - 1
    BY <1>2, <1>3, <1>16
  <2>2. Dns!Byte(m1, o) = Dns!Byte(nb, 0)
    BY <1>3, <2>1
  <2>3. Dns!Byte(m3, o) = Dns!Byte(m1, o)
    BY <1>9, <1>12, <2>1
  <2>4. Dns!Byte(nb, 0) = nb[1]
    BY DEF Dns!Byte
  <2> QED BY <2>2, <2>3, <2>4
<1>19. \A k \in 0..9 : Dns!Byte(m3, Len(m1) + k) = F[k + 1]
  <2> TAKE k \in 0..9
  <2>1. k \in 0..Len(F) - 1 /\ Len(m1) + k \in 0..Len(m2) - 1
    BY <1>7, <1>16
  <2>2. Dns!Byte(m3, Len(m1) + k) = Dns!Byte(F, k)
    BY <1>9, <1>12, <2>1
  <2> QED BY <2>2 DEF Dns!Byte
<1>20. Dns!Short(m3, Len(m1)) = c.qType /\ Dns!Short(m3, Len(m1) + 8) = Len(cb)
  <2>1. /\ Dns!Byte(m3, Len(m1) + 0) = F[0 + 1] /\ Dns!Byte(m3, Len(m1) + 1) = F[1 + 1]
        /\ Dns!Byte(m3, Len(m1) + 8) = F[8 + 1] /\ Dns!Byte(m3, Len(m1) + 9) = F[9 + 1]
    BY <1>19
  <2>2. /\ Len(m1) + 0 = Len(m1) /\ (Len(m1) + 8) + 1 = Len(m1) + 9
        /\ 0 + 1 = 1 /\ 1 + 1 = 2 /\ 8 + 1 = 9 /\ 9 + 1 = 10
    BY <1>16
  <2>3. /\ Dns!Byte(m3, Len(m1)) = F[1] /\ Dns!Byte(m3, Len(m1) + 1) = F[2]
        /\ Dns!Byte(m3, Len(m1) + 8) = F[9] /\ Dns!Byte(m3, (Len(m1) + 8) + 1) = F[10]
    BY <2>1, <2>2
  <2> QED BY <1>7, <2>3 DEF Dns!Short
<1>21. r \in Recs /\ r.name = n.name /\ r.qType = c.qType /\ r.data = c.data
  BY <1>1, <1>4 DEF Recs
<1> HIDE DEF r
<1>22. ASSUME Dns!IsPointer(Dns!Byte(m3, o))
       PROVE  /\ Spells(m3, o, r.name)
              /\ Dns!Short(m3, o + 2) = r.qType
              /\ o + 12 + Dns!Short(m3, o + 10) = e
              /\ \/ r.qType = Dns!CNAME /\ Spells(m3, o + 12, r.data)
                 \/ r.qType = Dns!A /\ Dns!Short(m3, o + 10) = 4 /\ SubSeq(m3, o + 13, o + 16) = r.data
                 \/ r.qType = Dns!TEXT /\ r.data = <<>>
  <2>1. Len(nb) = 2
    BY <1>2, <1>18, <1>22
  <2>2. Len(m1) = o + 2 /\ Len(m1) + 8 = o + 10 /\ Len(m2) = o + 12 /\ o + 12 + Len(cb) = e /\ Len(m2) + 1 = o + 13
    <3> DEFINE la == Len(m1)
               lb == Len(nb)
               ld == Len(m2)
               lc == Len(cb)
    <3>1. la \in Nat /\ o \in Nat /\ lc \in Nat /\ lb = 2 /\ la = o + lb /\ la + 10 = ld /\ e = ld + lc
      BY <1>3, <1>5, <1>16, <2>1
    <3> HIDE DEF la, lb, ld, lc, o, e
    <3>2. la = o + 2 /\ la + 8 = o + 10 /\ ld = o + 12 /\ o + 12 + lc = e /\ ld + 1 = o + 13
      BY <3>1
    <3> QED BY <3>2 DEF la, lb, ld, lc
  <2>3. Dns!Short(m3, o + 2) = r.qType /\ Dns!Short(m3, o + 10) = Len(cb)
    BY <1>20, <1>21, <2>2
  <2>4. Len(cb) = 4 => e = o + 16
    BY <1>3, <2>2
  <2>5. SubSeq(m3, o + 13, e) = cb
    BY <1>14, <2>2 DEF m3
  <2>6. \/ r.qType = Dns!CNAME /\ Spells(m3, o + 12, r.data)
        \/ r.qType = Dns!A /\ Len(cb) = 4 /\ cb = r.data
        \/ r.qType = Dns!TEXT /\ r.data = <<>>
    BY <1>15, <1>21, <2>2
  <2>7. o + 12 + Dns!Short(m3, o + 10) = e
    BY <2>2, <2>3
  <2> QED BY <1>13, <1>21, <2>3, <2>4, <2>5, <2>6, <2>7 DEF m3
<1>23. RecordAt(m3, o, e, r)
  <2>1. e <= Len(m3)
    BY <1>17
  <2> QED BY <1>3, <1>17, <1>22, <2>1 DEF RecordAt
<1>24. c.qType = Dns!CNAME => Spells(m3, Len(m2), c.data)
  <2>1. Dns!CNAME # Dns!A /\ Dns!CNAME # Dns!TEXT
    BY DEF Dns!CNAME, Dns!A, Dns!TEXT
  <2> QED BY <1>15, <2>1 DEF m3
<1> QED BY <1>11, <1>12, <1>21, <1>23, <1>24 DEF m3, m2, m1, F, nb, cb, r

\* What ParseRecord takes from a record that begins with a pointer.
LEMMA RecordParsed ==
  ASSUME response \in Seq(Nat), NEW o, NEW e, NEW r, RecordAt(response, o, e, r),
         Dns!IsPointer(Dns!Byte(response, o))
  PROVE  /\ Dns!NameAt(response, o) = r.name
         /\ Dns!Short(response, o + 2) = r.qType
         /\ Dns!Data(o + 2) = IF r.qType = Dns!CNAME THEN {r.data \o rest : rest \in Dns!Leftovers}
                              ELSE {r.data}
         /\ Dns!RecordEnd(o + 2) = e
<1>1. /\ o \in Nat /\ e \in Nat
      /\ Spells(response, o, r.name)
      /\ Dns!Short(response, o + 2) = r.qType
      /\ o + 12 + Dns!Short(response, o + 10) = e
      /\ \/ r.qType = Dns!CNAME /\ Spells(response, o + 12, r.data)
         \/ r.qType = Dns!A /\ Dns!Short(response, o + 10) = 4 /\ SubSeq(response, o + 13, o + 16) = r.data
         \/ r.qType = Dns!TEXT /\ r.data = <<>>
  BY DEF RecordAt
<1>2. /\ (o + 2) + 8 = o + 10 /\ (o + 2) + 10 = o + 12 /\ (o + 2) + 11 = o + 13 /\ (o + 2) + 14 = o + 16
  <2>1. o \in Nat
    BY <1>1
  <2> QED BY <2>1
<1>3. Dns!CNAME # Dns!A /\ Dns!CNAME # Dns!TEXT /\ Dns!A # Dns!TEXT
  BY DEF Dns!CNAME, Dns!A, Dns!TEXT
<1>4. Dns!NameAt(response, o) = r.name
  BY <1>1, SpellsNow
<1>5. Dns!RecordEnd(o + 2) = e
  BY <1>1, <1>2 DEF Dns!RecordEnd
<1>6. Dns!Data(o + 2) = IF r.qType = Dns!CNAME THEN {r.data \o rest : rest \in Dns!Leftovers}
                        ELSE {r.data}
  <2> DEFINE t == Dns!Short(response, o + 2)
             z == Dns!Short(response, o + 10)
             x == Dns!Named(o + 12)
             y == SubSeq(response, o + 13, o + 16)
  <2>1. Dns!Data(o + 2) = CASE t = Dns!CNAME -> x
                            [] t = Dns!A /\ z = 4 -> {y}
                            [] OTHER -> {<<>>}
    BY <1>2 DEF Dns!Data
  <2>2. t = r.qType
    BY <1>1
  <2>3. r.qType = Dns!CNAME => x = {r.data \o rest : rest \in Dns!Leftovers}
    <3>1. r.qType = Dns!CNAME => Spells(response, o + 12, r.data)
      BY <1>1, <1>3
    <3>2. r.qType = Dns!CNAME => Dns!NameAt(response, o + 12) = r.data
      BY <3>1, SpellsNow
    <3> QED BY <3>2 DEF Dns!Named
  <2>4. r.qType = Dns!A => z = 4 /\ y = r.data
    BY <1>1, <1>3
  <2>5. \/ r.qType = Dns!CNAME
        \/ r.qType = Dns!A
        \/ r.qType = Dns!TEXT /\ r.data = <<>>
    BY <1>1
  <2> HIDE DEF t, x, y, z
  <2> QED BY <1>3, <2>1, <2>2, <2>3, <2>4, <2>5
<1> QED BY <1>1, <1>4, <1>5, <1>6

LEMMA QuestionStays ==
  ASSUME NEW m, NEW h \in Seq(Nat), QuestionIn(m, h), NEW t \in Seq(Nat)
  PROVE  QuestionIn(m \o t, h)
<1> DEFINE mt == m \o t
<1>1. /\ m \in Seq(Nat) /\ Len(h) + 18 <= Len(m) /\ Len(h) \in Nat
      /\ \A o \in 0..Len(h) : Dns!Byte(m, 12 + o) = Coded(h, o)
      /\ Dns!Byte(m, 13 + Len(h)) = 0
  BY LenProperties DEF QuestionIn
<1>2. /\ mt \in Seq(Nat) /\ Len(mt) = Len(m) + Len(t) /\ Len(m) \in Nat /\ Len(t) \in Nat
      /\ \A o \in 0..Len(m) - 1 : Dns!Byte(mt, o) = Dns!Byte(m, o)
  BY <1>1, LongerIs
<1> HIDE DEF mt
<1>3. Len(h) + 18 <= Len(mt)
  BY <1>1, <1>2
<1>4. ASSUME NEW o \in 0..Len(h) PROVE Dns!Byte(mt, 12 + o) = Coded(h, o)
  <2>1. 12 + o \in 0..Len(m) - 1
    BY <1>1, <1>2
  <2> QED BY <1>1, <1>2, <2>1
<1>5. Dns!Byte(mt, 13 + Len(h)) = 0
  <2>1. 13 + Len(h) \in 0..Len(m) - 1
    <3> DEFINE lm == Len(m)
               lh == Len(h)
    <3>1. lm \in Nat /\ lh \in Nat /\ lh + 18 <= lm
      BY <1>1, <1>2
    <3> HIDE DEF lm, lh
    <3>2. 13 + lh \in 0..lm - 1
      BY <3>1
    <3> QED BY <3>2 DEF lm, lh
  <2> QED BY <1>1, <1>2, <2>1
<1>6. QuestionIn(mt, h)
  BY <1>2, <1>3, <1>4, <1>5 DEF QuestionIn
<1> QED BY <1>6 DEF mt

\* The names a pointer can refer to from the start: the host name and what follows
\* each of its dots.
LEMMA QuestionNames ==
  ASSUME NEW h \in Seq(Nat), Dns!Proper(h), NEW m, QuestionIn(m, h)
  PROVE  Names(m, Dns!SuffixNames(h))
<1> DEFINE n == Len(h)
           K == {j \in 1..n : j = 1 \/ h[j - 1] = Dns!Dot}
<1>1. n \in Nat /\ Len(m) \in Nat /\ n + 18 <= Len(m) /\ m \in Seq(Nat)
  BY LenProperties DEF QuestionIn
<1>2. ASSUME NEW k \in K
      PROVE  11 + k \in Nat /\ SubSeq(h, k, n) \in Seq(Nat) /\ Spells(m, 11 + k, SubSeq(h, k, n))
  <2>1. k \in 1..n /\ (k = 1 \/ h[k - 1] = Dns!Dot)
    OBVIOUS
  <2>2. SubSeq(h, k, n) \in Seq(Nat)
    <3>1. \A j \in k..n : h[j] \in Nat
      BY <1>1, <2>1, ElementOfSeq
    <3>2. k \in Int /\ n \in Int
      BY <1>1, <2>1
    <3> QED BY <3>1, <3>2, SubSeqProperties
  <2> DEFINE o == k - 1
  <2>3. /\ o \in 0..n /\ (o = 0 \/ h[o] = Dns!Dot) /\ o + 1 = k /\ 12 + o = 11 + k
        /\ 11 + k \in 0..Len(m) - 1 /\ n + 1 - o <= Len(m) /\ 11 + k \in Nat /\ n + 1 - o \in Nat
    BY <1>1, <2>1
  <2> HIDE DEF o
  <2>4. ASSUME NEW t \in Seq(Nat), NEW e \in Len(m)..Len(m \o t)
        PROVE  Dns!NamesIn(m \o t)[e][11 + k] = SubSeq(h, k, n)
    <3>1. QuestionIn(m \o t, h)
      BY QuestionStays
    <3>2. ReadFrom(h, m \o t, o)
      BY <2>3, <3>1, QuestionRead
    <3>3. Len(m \o t) \in Nat
      BY <1>1, LongerIs
    <3>4. e \in n + 1 - o..Len(m \o t)
      BY <1>1, <2>3, <3>3
    <3>5. Dns!NamesIn(m \o t)[e][12 + o] = SubSeq(h, o + 1, n)
      BY <3>2, <3>4 DEF ReadFrom
    <3> QED BY <2>3, <3>5
  <2>5. Spells(m, 11 + k, SubSeq(h, k, n))
    BY <2>3, <2>4 DEF Spells
  <2> QED BY <2>2, <2>3, <2>5
<1> DEFINE ns == {[at |-> 11 + k, name |-> SubSeq(h, k, n)] : k \in K}
<1>3. ASSUME NEW x \in ns PROVE x \in [at : Nat, name : Seq(Nat)] /\ Spells(m, x.at, x.name)
  <2>1. PICK k \in K : x = [at |-> 11 + k, name |-> SubSeq(h, k, n)]
    OBVIOUS
  <2>2. x.at = 11 + k /\ x.name = SubSeq(h, k, n)
    BY <2>1
  <2> QED BY <1>2, <2>1, <2>2
<1> HIDE DEF ns
<1>4. Names(m, ns)
  BY <1>3 DEF Names
<1>5. Dns!SuffixNames(h) = ns
  BY DEF Dns!SuffixNames, ns
<1> QED BY <1>4, <1>5

\* Where each record of ts starts, and the last one ends.
Laid(m, h, ts, starts) ==
  /\ starts \in Seq(Nat) /\ Len(starts) = Len(ts) + 1
  /\ starts[1] = Len(h) + 18 /\ starts[Len(starts)] = Len(m)
  /\ \A k \in 1..Len(ts) : RecordAt(m, starts[k], starts[k + 1], ts[k])

LEMMA LaidGrows ==
  ASSUME NEW m \in Seq(Nat), NEW x \in Seq(Nat), NEW y \in Seq(Nat), NEW z \in Seq(Nat), NEW h,
         NEW ts \in Seq(Recs), NEW r \in Recs, NEW starts, Laid(m, h, ts, starts),
         RecordAt(m \o x \o y \o z, Len(m), Len(m \o x \o y \o z), r)
  PROVE  \E longer : Laid(m \o x \o y \o z, h, Append(ts, r), longer)
<1> DEFINE m1 == m \o x
           m2 == m1 \o y
           m3 == m2 \o z
           e == Len(m3)
           ss == Append(starts, e)
           us == Append(ts, r)
<1>1. m1 \in Seq(Nat) /\ \A o, f, q : RecordAt(m, o, f, q) => RecordAt(m1, o, f, q)
  BY LongerIs, RecordStays
<1> HIDE DEF m1
<1>2. m2 \in Seq(Nat) /\ \A o, f, q : RecordAt(m1, o, f, q) => RecordAt(m2, o, f, q)
  BY <1>1, LongerIs, RecordStays
<1> HIDE DEF m2
<1>3. m3 \in Seq(Nat) /\ \A o, f, q : RecordAt(m2, o, f, q) => RecordAt(m3, o, f, q)
  BY <1>2, LongerIs, RecordStays
<1>4. RecordAt(m3, Len(m), e, r)
  BY DEF m1, m2
<1> HIDE DEF m3
<1>5. e \in Nat
  BY <1>3, LenProperties
<1> HIDE DEF e
<1>6. /\ starts \in Seq(Nat) /\ Len(starts) = Len(ts) + 1
      /\ starts[1] = Len(h) + 18 /\ starts[Len(starts)] = Len(m)
      /\ \A k \in 1..Len(ts) : RecordAt(m, starts[k], starts[k + 1], ts[k])
  BY DEF Laid
<1>7. starts \in Seq(Nat)
  BY <1>6
<1>8. /\ ss \in Seq(Nat) /\ Len(ss) = Len(starts) + 1
      /\ \A k \in 1..Len(starts) : ss[k] = starts[k]
      /\ ss[Len(starts) + 1] = e
  BY <1>5, <1>7, AppendProperties
<1>9. /\ us \in Seq(Recs) /\ Len(us) = Len(ts) + 1 /\ Len(ts) \in Nat
      /\ \A k \in 1..Len(ts) : us[k] = ts[k]
      /\ us[Len(ts) + 1] = r
  BY AppendProperties, LenProperties
<1> HIDE DEF ss, us
<1>10. ss \in Seq(Nat) /\ Len(ss) = Len(us) + 1 /\ ss[1] = Len(h) + 18 /\ ss[Len(ss)] = e
  <2>1. 1 \in 1..Len(starts) /\ Len(starts) = Len(us)
    BY <1>6, <1>9
  <2> QED BY <1>6, <1>8, <2>1
<1>11. ASSUME NEW k \in 1..Len(us) PROVE RecordAt(m3, ss[k], ss[k + 1], us[k])
  <2>1. CASE k \in 1..Len(ts)
    <3>1. k \in 1..Len(starts) /\ k + 1 \in 1..Len(starts)
      BY <1>6, <1>9, <2>1
    <3>2. RecordAt(m, ss[k], ss[k + 1], us[k])
      BY <1>6, <1>8, <1>9, <2>1, <3>1
    <3> QED BY <1>1, <1>2, <1>3, <3>2
  <2>2. CASE k = Len(ts) + 1
    <3>1. k = Len(starts) /\ k \in 1..Len(starts) /\ k + 1 = Len(starts) + 1
      BY <1>6, <1>9, <2>2
    <3>2. ss[k] = Len(m) /\ ss[k + 1] = e /\ us[k] = r
      BY <1>6, <1>8, <1>9, <2>2, <3>1
    <3> QED BY <1>4, <3>2
  <2> QED BY <1>9, <2>1, <2>2
<1>12. Laid(m3, h, us, ss)
  BY <1>10, <1>11 DEF Laid, e
<1> QED BY <1>12 DEF m3, m2, m1, us

-----------------------------------------------------------------------------
(* dns.c: the message as a whole.                                          *)

LEMMA HeaderRead ==
  ASSUME NEW f \in Nat, NEW a \in Nat, NEW S, Nat \subseteq S, NEW q \in Seq(S)
  PROVE  Dns!Short(Dns!Header(f, a) \o q, 2) = f /\ Dns!Short(Dns!Header(f, a) \o q, 6) = a
<1> DEFINE H == Dns!Header(f, a)
           m == H \o q
<1>1. H \in Seq(Nat)
  BY HeaderIs
<1>2. H \in Seq(S)
  BY <1>1, SeqMonotonic
<1>3. Len(H) = 12 /\ H[3] = f \div 256 /\ H[4] = f % 256 /\ H[7] = a \div 256 /\ H[8] = a % 256
  <2>1. IsHeader(H, f, a)
    BY HeaderIs
  <2> HIDE DEF H
  <2> QED BY <2>1 DEF IsHeader
<1> HIDE DEF H
<1>4. /\ \A k \in 1..Len(H) + Len(q) : m[k] = IF k <= Len(H) THEN H[k] ELSE q[k - Len(H)]
  BY <1>2, ConcatProperties
<1>5. Len(q) \in Nat
  BY LenProperties
<1> HIDE DEF m
<1>6. \A k \in 1..12 : m[k] = H[k]
  <2> TAKE k \in 1..12
  <2>1. k <= Len(H)
    BY <1>3
  <2>2. k \in 1..Len(H) + Len(q)
    BY <1>3, <1>5
  <2> QED BY <1>4, <2>1, <2>2
<1>7. m[3] = f \div 256 /\ m[4] = f % 256 /\ m[7] = a \div 256 /\ m[8] = a % 256
  BY <1>3, <1>6
<1>8. Dns!Short(m, 2) = (256 * m[3]) + m[4] /\ Dns!Short(m, 6) = (256 * m[7]) + m[8]
  BY DEF Dns!Short, Dns!Byte
<1>9. (256 * (f \div 256)) + (f % 256) = f /\ (256 * (a \div 256)) + (a % 256) = a
  BY ShortIs
<1> QED BY <1>7, <1>8, <1>9 DEF m, H

\* What is sent, when malloc's bytes hold `rest'.
Requests(rest) ==
  request = Dns!Header(Dns!Recursive, 0) \o Dns!QName(hostname, rest) \o Dns!Bytes(Dns!A) \o Dns!Bytes(1)

\* The block of an encoded name, whatever the host name is.
LEMMA QuestionIsSeq ==
  ASSUME hostname \in Seq(Nat), NEW rest, Requests(rest)
  PROVE  \E S : Nat \subseteq S /\ Dns!Question \in Seq(S)
<1> DEFINE H == Dns!Header(Dns!Recursive, 0)
           n == Len(hostname) + 2
           q == Dns!QName(hostname, rest)
           S == Nat \cup {q[k] : k \in 1..n}
           b == Dns!Bytes(Dns!A)
           c == Dns!Bytes(1)
<1>1. n \in Nat
  BY LenProperties
<1>2. q \in Seq(S)
  <2>1. q = [k \in 1..n |-> q[k]]
    BY DEF Dns!QName, Dns!BodyLength
  <2> HIDE DEF q, n
  <2>2. q \in [1..n -> S]
    BY <2>1
  <2> HIDE DEF S
  <2> QED BY <1>1, <2>2
<1> HIDE DEF S, q
<1>3. Nat \subseteq S
  BY DEF S
<1>4. H \in Seq(Nat)
  BY HeaderIs DEF Dns!Recursive
<1>5. b \in Seq(Nat) /\ c \in Seq(Nat)
  BY DEF Dns!Bytes, Dns!A
<1> HIDE DEF H, b, c
<1>6. H \in Seq(S) /\ b \in Seq(S) /\ c \in Seq(S)
  BY <1>3, <1>4, <1>5, SeqMonotonic
<1>7. H \o q \in Seq(S)
  BY <1>2, <1>6, ConcatProperties
<1>8. (H \o q) \o b \in Seq(S)
  BY <1>6, <1>7, ConcatProperties
<1>9. request \in Seq(S)
  <2>1. ((H \o q) \o b) \o c \in Seq(S)
    BY <1>6, <1>8, ConcatProperties
  <2> QED BY <2>1 DEF H, q, b, c, Requests
<1>10. Dns!Question \in Seq(S)
  <2>1. Len(request) \in Nat
    BY <1>9, LenProperties
  <2>2. \A k \in 13..Len(request) : request[k] \in S
    BY <1>9, <2>1, ElementOfSeq
  <2>3. SubSeq(request, 13, Len(request)) \in Seq(S)
    BY <2>1, <2>2, SubSeqProperties
  <2> QED BY <2>3 DEF Dns!Question
<1> QED BY <1>3, <1>10

LEMMA QuestionIsAsked ==
  ASSUME hostname \in Seq(Nat), Dns!Proper(hostname), NEW rest, Requests(rest)
  PROVE  Dns!Question = Asked(hostname, rest)
<1> DEFINE H == Dns!Header(Dns!Recursive, 0)
           q == Dns!QName(hostname, rest)
           b == Dns!Bytes(Dns!A)
           c == Dns!Bytes(1)
<1>1. q \in Seq(Nat)
  BY QNameIs
<1>2. H \in Seq(Nat)
  BY HeaderIs DEF Dns!Recursive
<1>3. b \in Seq(Nat) /\ c \in Seq(Nat)
  BY DEF Dns!Bytes, Dns!A
<1>4. Len(H) = 12
  BY HeaderIs DEF Dns!Recursive
<1>5. request = ((H \o q) \o b) \o c
  BY DEF Requests
<1>6. Asked(hostname, rest) = (q \o b) \o c
  BY DEF Asked
<1> HIDE DEF H, q, b, c
<1>7. q \o b \in Seq(Nat)
  BY <1>1, <1>3, ConcatProperties
<1>8. (H \o q) \o b = H \o (q \o b)
  BY <1>1, <1>2, <1>3, Regrouped
<1>9. (H \o (q \o b)) \o c = H \o ((q \o b) \o c)
  BY <1>2, <1>3, <1>7, Regrouped
<1> DEFINE k == (q \o b) \o c
<1>10. k \in Seq(Nat)
  BY <1>3, <1>7, ConcatProperties
<1>11. request = H \o k
  BY <1>5, <1>8, <1>9
<1> HIDE DEF k
<1>12. SubSeq(H \o k, Len(H) + 1, Len(H \o k)) = k
  BY <1>2, <1>10, HeadDropped
<1>13. Dns!Question = k
  <2>1. Len(H) + 1 = 13
    BY <1>4
  <2> QED BY <1>11, <1>12, <2>1 DEF Dns!Question
<1> QED BY <1>6, <1>13 DEF k

\* The server's copy of the question.
LEMMA QuestionCopied ==
  ASSUME NEW h \in Seq(Nat), Dns!Proper(h), NEW rest, NEW f \in Nat, NEW a \in Nat
  PROVE  LET m == Dns!Header(f, a) \o Asked(h, rest)
         IN QuestionIn(m, h) /\ Len(m) = Len(h) + 18
<1> DEFINE H == Dns!Header(f, a)
           q == Asked(h, rest)
           m == H \o q
           n == Len(h)
<1>1. H \in Seq(Nat)
  BY HeaderIs
<1>2. Len(H) = 12
  BY HeaderIs
<1>3. q \in Seq(Nat)
  BY AskedIs
<1>4. Len(q) = n + 6 /\ (\A o \in 0..n : q[o + 1] = Coded(h, o)) /\ q[n + 2] = 0
  BY AskedIs
<1>5. n \in Nat
  BY LenProperties
<1> HIDE DEF H, q, n
<1>6. /\ m \in Seq(Nat) /\ Len(m) = Len(H) + Len(q)
      /\ \A o \in 0..Len(q) - 1 : Dns!Byte(m, Len(H) + o) = Dns!Byte(q, o)
  BY <1>1, <1>3, LongerIs
<1> HIDE DEF m
<1>7. Len(m) = n + 18
  BY <1>2, <1>4, <1>5, <1>6
<1>8. \A o \in 0..n + 5 : Dns!Byte(m, 12 + o) = q[o + 1]
  <2> TAKE o \in 0..n + 5
  <2>1. o \in 0..Len(q) - 1
    BY <1>4, <1>5
  <2>2. Dns!Byte(m, Len(H) + o) = Dns!Byte(q, o)
    BY <1>6, <2>1
  <2> QED BY <1>2, <2>2 DEF Dns!Byte
<1>9. \A o \in 0..n : Dns!Byte(m, 12 + o) = Coded(h, o)
  <2> TAKE o \in 0..n
  <2>1. o \in 0..n + 5
    BY <1>5
  <2> QED BY <1>4, <1>8, <2>1
<1>10. Dns!Byte(m, 13 + n) = 0
  <2>1. n + 1 \in 0..n + 5 /\ 12 + (n + 1) = 13 + n /\ (n + 1) + 1 = n + 2
    BY <1>5
  <2>2. Dns!Byte(m, 12 + (n + 1)) = q[(n + 1) + 1]
    BY <1>8, <2>1
  <2> QED BY <1>4, <2>1, <2>2
<1>11. n + 18 <= Len(m)
  BY <1>5, <1>7
<1>12. QuestionIn(m, h)
  BY <1>6, <1>9, <1>10, <1>11 DEF QuestionIn, n
<1> QED BY <1>7, <1>12 DEF m, n, H, q

-----------------------------------------------------------------------------
(* dns.c: the client.                                                      *)

\* Of the query, and of an answer that holds an error code only.
Asking == \E rest \in {0, 255} : Requests(rest)
Refused == Dns!Answers = 0 /\ Dns!Short(response, 2) % 16 # 0 /\ truth = <<>>

\* Of an answer with records: of as many as the server has put together.
Answering ==
  /\ Dns!Proper(hostname) /\ QuestionIn(response, hostname) /\ Names(response, names)
  /\ Dns!Answers \in Nat /\ Len(truth) <= Dns!Answers
  /\ \E starts : Laid(response, hostname, truth, starts)

\* Of the parse: ptr is where the next record starts.
Parsing ==
  /\ response \in Seq(Nat) /\ Len(truth) = Dns!Answers /\ Len(list) <= Len(truth)
  /\ \A k \in 1..Len(list) : Dns!IsParsed(list[k], truth[Len(list) - k + 1])
  /\ \E starts : Laid(response, hostname, truth, starts) /\ ptr = starts[Len(list) + 1]

DnsInv ==
  /\ hostname \in Seq(Nat) /\ truth \in Seq(Recs) /\ list \in Seq(Recs)
  /\ step = "send" => net = "idle" /\ list = <<>> /\ truth = <<>>
  /\ step = "recv" => list = <<>>
  /\ net = "query" => truth = <<>> /\ Asking
  /\ net = "answer" => Refused \/ Answering
  /\ step \in {"parse", "free"} => net = "idle" /\ Parsing

LEMMA InitDnsInv ==
  ASSUME Dns!Assumption, Dns!Init
  PROVE  DnsInv
<1>1. hostname \in Seq(Nat)
  <2>1. PICK n \in 0..MaxHost : hostname \in [1..n -> Letter \cup {Dns!Dot}]
    BY DEF Dns!Init, Dns!BoundedSeq, Dns!SeqOf
  <2>2. n \in Nat
    BY <2>1 DEF Dns!Assumption, Dns!MaxMessage
  <2>3. Letter \cup {Dns!Dot} \subseteq Nat
    BY DEF Dns!Assumption, Dns!Dot
  <2>4. hostname \in [1..n -> Nat]
    BY <2>1, <2>3
  <2> QED BY <2>2, <2>4
<1>2. step = "send" /\ net = "idle" /\ list = <<>> /\ truth = <<>>
  BY DEF Dns!Init
<1> QED BY <1>1, <1>2, EmptySeq DEF DnsInv

LEMMA SendKeepsDns ==
  ASSUME DnsInv, Dns!Send
  PROVE  DnsInv'
<1>1. /\ step = "send" /\ step' = "recv" /\ net' = "query"
      /\ UNCHANGED <<hostname, response, names, truth, list>>
  BY DEF Dns!Send, Dns!serverVars
<1>2. PICK rest \in {0, 255} :
        request' = Dns!Header(Dns!Recursive, 0) \o Dns!QName(hostname, rest) \o Dns!Bytes(Dns!A) \o Dns!Bytes(1)
  BY Zenon DEF Dns!Send
<1>3. Asking'
  <2> QED BY <1>1, <1>2 DEF Asking, Requests
<1>4. truth' = <<>> /\ list' = <<>> /\ hostname' \in Seq(Nat) /\ truth' \in Seq(Recs) /\ list' \in Seq(Recs)
  BY <1>1 DEF DnsInv
<1> QED BY <1>1, <1>3, <1>4 DEF DnsInv

\* Everything that the invariant says of the message stays true.
LEMMA MessageStays ==
  ASSUME UNCHANGED <<hostname, request, response, names, truth, ptr, list>>
  PROVE  /\ Asking' = Asking /\ Refused' = Refused
         /\ Answering' = Answering /\ Parsing' = Parsing
BY DEF Asking, Requests, Refused, Answering, Parsing, Dns!Answers

LEMMA FailsKeepDns ==
  ASSUME DnsInv, Dns!CallFails \/ Dns!Lose \/ Dns!ParseAstray \/ Dns!ParseEnds \/ Dns!FreeAnswer
  PROVE  DnsInv'
<1>1. UNCHANGED <<hostname, request, response, names, truth, ptr, list>>
  BY DEF Dns!CallFails, Dns!Lose, Dns!ParseAstray, Dns!ParseEnds, Dns!FreeAnswer, Dns!serverVars
<1>2. \/ step' \in {"undefined", "done"} /\ net' = net
      \/ step = "recv" /\ net' = "lost" /\ step' = step
      \/ step = "parse" /\ step' = "free" /\ net' = net
  BY DEF Dns!CallFails, Dns!Lose, Dns!ParseAstray, Dns!ParseEnds, Dns!FreeAnswer
<1>3. /\ Asking' = Asking /\ Refused' = Refused
      /\ Answering' = Answering /\ Parsing' = Parsing
  BY <1>1, MessageStays
<1> HIDE DEF Asking, Refused, Answering, Parsing
<1>4. step' = "send" => FALSE
  BY <1>2
<1> QED BY <1>1, <1>2, <1>3, <1>4 DEF DnsInv

LEMMA BeginKeepsDns ==
  ASSUME DnsInv, Dns!Assumption, Dns!Begin
  PROVE  DnsInv'
<1>1. net = "query" /\ net' = "answer" /\ UNCHANGED <<step, hostname, truth, list>>
  BY DEF Dns!Begin
<1>2. PICK rcode \in {0, 1, 3}, n \in 0..MaxAnswers :
        /\ rcode = 0 => Dns!Proper(hostname)
        /\ rcode # 0 => n = 0
        /\ response' = Dns!Header(Dns!Reply + rcode, n) \o Dns!Question
  BY DEF Dns!Begin
<1>3. hostname \in Seq(Nat) /\ truth = <<>> /\ Asking
  BY <1>1 DEF DnsInv
<1>4. PICK rest \in {0, 255} : Requests(rest)
  BY <1>3, Zenon DEF Asking
<1>5. n \in Nat /\ Dns!Reply + rcode \in Nat
  BY <1>2 DEF Dns!Assumption, Dns!Reply
<1>6. CASE rcode # 0
  <2>1. PICK S : Nat \subseteq S /\ Dns!Question \in Seq(S)
    BY <1>3, <1>4, QuestionIsSeq
  <2>2. Dns!Short(response', 2) = Dns!Reply + rcode /\ Dns!Short(response', 6) = n
    BY <1>2, <1>5, <2>1, HeaderRead
  <2>3. (Dns!Reply + rcode) % 16 # 0 /\ n = 0
    <3>1. n = 0 /\ (rcode = 1 \/ rcode = 3)
      BY <1>2, <1>6
    <3>2. 33153 % 16 # 0 /\ 33155 % 16 # 0 /\ 33152 + 1 = 33153 /\ 33152 + 3 = 33155
      OBVIOUS
    <3> QED BY <3>1, <3>2 DEF Dns!Reply
  <2>4. Refused'
    BY <1>1, <1>3, <2>2, <2>3 DEF Refused, Dns!Answers
  <2> HIDE DEF Refused, Answering, Parsing, Asking
  <2> QED BY <1>1, <2>4 DEF DnsInv
<1>7. CASE rcode = 0
  <2>1. Dns!Proper(hostname)
    BY <1>2, <1>7
  <2>2. Dns!Question = Asked(hostname, rest) /\ Asked(hostname, rest) \in Seq(Nat)
    <3>1. Asked(hostname, rest) \in Seq(Nat)
      BY <1>3, <2>1, AskedIs
    <3>2. hostname \in Seq(Nat)
      BY <1>3
    <3>3. Dns!Question = Asked(hostname, rest)
      BY <1>4, <2>1, <3>2, QuestionIsAsked
    <3> QED BY <3>1, <3>3
  <2> DEFINE f == Dns!Reply + rcode
             m == Dns!Header(f, n) \o Asked(hostname, rest)
  <2>3. response' = m
    BY <1>2, <2>2
  <2>4. f \in Nat
    BY <1>5
  <2> HIDE DEF f
  <2>5. QuestionIn(m, hostname) /\ Len(m) = Len(hostname) + 18
    <3>1. hostname \in Seq(Nat) /\ n \in Nat
      BY <1>3, <1>5
    <3> QED BY <2>1, <2>4, <3>1, QuestionCopied
  <2>6. Dns!Short(m, 6) = n
    BY <1>5, <2>2, <2>4, HeaderRead
  <2> HIDE DEF m
  <2>7. QuestionIn(response', hostname') /\ Dns!Answers' = n /\ Dns!Proper(hostname')
    BY <1>1, <2>1, <2>3, <2>5, <2>6 DEF Dns!Answers
  <2>8. Names(response', names')
    <3>1. names' = Dns!SuffixNames(hostname)
      BY DEF Dns!Begin
    <3>2. Names(m, Dns!SuffixNames(hostname))
      BY <1>3, <2>1, <2>5, QuestionNames
    <3> QED BY <2>3, <3>1, <3>2
  <2>9. Laid(response', hostname', truth', <<Len(hostname) + 18>>)
    <3> DEFINE p == Len(hostname) + 18
               ss == <<p>>
    <3>1. p \in Nat
      BY <1>3, LenProperties
    <3>2. Len(response') = p
      BY <2>3, <2>5
    <3> HIDE DEF p
    <3>3. ss \in Seq(Nat) /\ Len(ss) = 1 /\ ss[1] = p
      BY <3>1
    <3> HIDE DEF ss
    <3>4. truth' = <<>> /\ Len(<<>>) = 0 /\ 1..Len(<<>>) = {}
      BY <1>1, <1>3
    <3>5. Len(truth') = 0 /\ 1..Len(truth') = {} /\ Len(ss) = Len(truth') + 1
      BY <3>3, <3>4
    <3>6. ss[1] = Len(hostname') + 18 /\ ss[Len(ss)] = Len(response')
      BY <1>1, <3>2, <3>3 DEF p
    <3>7. Laid(response', hostname', truth', ss)
      BY <3>3, <3>5, <3>6 DEF Laid
    <3> QED BY <3>7 DEF ss, p
  <2>10. Dns!Answers' \in Nat /\ Len(truth') <= Dns!Answers'
    <3>1. Len(truth') = 0
      BY <1>1, <1>3
    <3> QED BY <1>5, <2>7, <3>1
  <2>11. Answering'
    BY <2>7, <2>8, <2>9, <2>10 DEF Answering
  <2> HIDE DEF Refused, Answering, Parsing, Asking
  <2> QED BY <1>1, <2>11 DEF DnsInv
<1> QED BY <1>6, <1>7

\* What is known of a message stays known of a longer one.
LEMMA MessageGrows ==
  ASSUME NEW h \in Seq(Nat), NEW m, QuestionIn(m, h), NEW t \in Seq(Nat), NEW ns, Names(m, ns)
  PROVE  /\ QuestionIn(m \o t, h) /\ Names(m \o t, ns)
         /\ Dns!Short(m \o t, 6) = Dns!Short(m, 6)
<1>1. m \in Seq(Nat) /\ Len(h) + 18 <= Len(m) /\ Len(h) \in Nat /\ Len(m) \in Nat
  BY LenProperties DEF QuestionIn
<1>2. m \in Seq(Nat)
  BY <1>1
<1>3. QuestionIn(m \o t, h)
  BY QuestionStays
<1>4. Names(m \o t, ns)
  <2>1. \A k, x : Spells(m, k, x) => Spells(m \o t, k, x)
    BY <1>2, SpellsStays
  <2> QED BY <2>1 DEF Names
<1>5. \A k \in 0..Len(m) - 1 : Dns!Byte(m \o t, k) = Dns!Byte(m, k)
  BY <1>2, LongerIs
<1> DEFINE mt == m \o t
<1> HIDE DEF mt
<1>6. Dns!Short(mt, 6) = Dns!Short(m, 6)
  <2>1. 6 \in 0..Len(m) - 1 /\ 6 + 1 \in 0..Len(m) - 1
    BY <1>1
  <2>2. Dns!Byte(mt, 6) = Dns!Byte(m, 6) /\ Dns!Byte(mt, 6 + 1) = Dns!Byte(m, 6 + 1)
    BY <1>5, <2>1 DEF mt
  <2> QED BY <2>2 DEF Dns!Short
<1> QED BY <1>3, <1>4, <1>6 DEF mt

LEMMA AddKeepsDns ==
  ASSUME DnsInv, Dns!Assumption, Dns!AddRecord
  PROVE  DnsInv'
<1>1. /\ net = "answer" /\ Len(truth) < Dns!Answers
      /\ UNCHANGED <<hostname, request, step, net, ptr, list>>
  BY DEF Dns!AddRecord
<1>2. PICK n \in Dns!Pointers \cup Dns!Spelled, c \in Dns!Contents :
        LET fixed == Dns!Bytes(c.qType) \o Dns!Bytes(1) \o <<0, 0, 1, 44>> \o Dns!Bytes(Len(c.bytes))
        IN /\ response' = response \o n.bytes \o fixed \o c.bytes
           /\ truth' = Append(truth, [name |-> n.name, qType |-> c.qType, data |-> c.data])
           /\ names' = IF c.qType # Dns!CNAME THEN names
                       ELSE names \cup {[at |-> Len(response \o n.bytes \o fixed), name |-> c.data]}
  BY Zenon DEF Dns!AddRecord
<1> DEFINE nb == n.bytes
           cb == c.bytes
           F == Fixed(c.qType, Len(c.bytes))
           m1 == response \o nb
           m2 == m1 \o F
           m3 == m2 \o cb
           r == [name |-> n.name, qType |-> c.qType, data |-> c.data]
<1>3. /\ response' = m3 /\ truth' = Append(truth, r)
      /\ names' = IF c.qType # Dns!CNAME THEN names ELSE names \cup {[at |-> Len(m2), name |-> c.data]}
  BY <1>2 DEF Fixed
<1>4. /\ hostname \in Seq(Nat) /\ truth \in Seq(Recs) /\ list \in Seq(Recs)
      /\ step = "recv" => list = <<>>
      /\ ~(step \in {"parse", "free"}) /\ step # "send"
  BY <1>1 DEF DnsInv
<1>5. Answering
  <2>1. Refused \/ Answering
    BY <1>1 DEF DnsInv
  <2>2. ~Refused
    <3>1. Refused => Dns!Answers = 0 /\ Len(truth) = 0
      BY DEF Refused
    <3> QED BY <1>1, <3>1
  <2> QED BY <2>1, <2>2
<1>6. /\ Dns!Proper(hostname) /\ QuestionIn(response, hostname) /\ Names(response, names)
      /\ Dns!Answers \in Nat /\ Len(truth) <= Dns!Answers
      /\ response \in Seq(Nat)
  BY <1>5 DEF Answering, QuestionIn
<1>7. PICK starts : Laid(response, hostname, truth, starts)
  BY <1>5 DEF Answering
<1>8. nb \in Seq(Nat)
  BY <1>6, NameWritten
<1>9. cb \in Seq(Nat) /\ c.qType \in Nat
  <2>1. Holds(response, c)
    BY <1>6, ContentsHold
  <2> QED BY <2>1 DEF Holds
<1>10. F \in Seq(Nat)
  <2>1. Len(c.bytes) \in Nat
    BY <1>9, LenProperties
  <2> QED BY <1>9, <2>1, FixedIs
<1>11. /\ m2 \in Seq(Nat) /\ m3 \in Seq(Nat) /\ r \in Recs
       /\ RecordAt(m3, Len(response), Len(m3), r)
       /\ c.qType = Dns!CNAME => Spells(m3, Len(m2), c.data)
  BY <1>6, RecordWritten
<1>12. c.data \in Seq(Nat)
  <2>1. Holds(response, c)
    BY <1>6, ContentsHold
  <2> QED BY <2>1 DEF Holds
<1> HIDE DEF nb, cb, F, r
<1>13. \E longer : Laid(m3, hostname, Append(truth, r), longer)
  <2>1. RecordAt(response \o nb \o F \o cb, Len(response), Len(response \o nb \o F \o cb), r)
    BY <1>11
  <2>2. response \in Seq(Nat) /\ truth \in Seq(Recs) /\ r \in Recs
    BY <1>4, <1>6, <1>11
  <2>3. \E longer : Laid(response \o nb \o F \o cb, hostname, Append(truth, r), longer)
    BY <1>7, <1>8, <1>9, <1>10, <2>1, <2>2, LaidGrows
  <2> QED BY <2>3
<1>14. /\ QuestionIn(m1, hostname) /\ Names(m1, names)
       /\ Dns!Short(m1, 6) = Dns!Short(response, 6)
  BY <1>4, <1>6, <1>8, MessageGrows
<1> HIDE DEF m1
<1>15. /\ QuestionIn(m2, hostname) /\ Names(m2, names)
       /\ Dns!Short(m2, 6) = Dns!Short(m1, 6)
  BY <1>4, <1>10, <1>14, MessageGrows
<1> HIDE DEF m2
<1>16. /\ QuestionIn(m3, hostname) /\ Names(m3, names)
       /\ Dns!Short(m3, 6) = Dns!Short(m2, 6)
  BY <1>4, <1>9, <1>15, MessageGrows
<1>17. Dns!Answers' = Dns!Answers
  BY <1>3, <1>14, <1>15, <1>16 DEF Dns!Answers
<1>18. Names(m3, names')
  <2>1. CASE c.qType # Dns!CNAME
    BY <1>3, <1>16, <2>1
  <2>2. CASE c.qType = Dns!CNAME
    <3> DEFINE x == [at |-> Len(m2), name |-> c.data]
    <3>1. Len(m2) \in Nat /\ Spells(m3, Len(m2), c.data)
      BY <1>11, <2>2, LenProperties
    <3>2. x \in [at : Nat, name : Seq(Nat)] /\ Spells(m3, x.at, x.name)
      BY <1>12, <3>1
    <3>3. names' = names \cup {x}
      BY <1>3, <2>2
    <3> HIDE DEF x, m3
    <3> QED BY <1>16, <3>2, <3>3 DEF Names
  <2> QED BY <2>1, <2>2
<1> HIDE DEF m3
<1>19. Len(truth') <= Dns!Answers' /\ truth' \in Seq(Recs)
  <2>1. truth' \in Seq(Recs) /\ Len(truth') = Len(truth) + 1
    BY <1>3, <1>4, <1>11, AppendProperties
  <2>2. Len(truth) \in Nat
    BY <1>4, LenProperties
  <2>3. Len(truth) < Dns!Answers
    BY <1>1
  <2> QED BY <1>6, <1>17, <2>1, <2>2, <2>3
<1>20. Answering'
  BY <1>1, <1>3, <1>6, <1>13, <1>16, <1>17, <1>18, <1>19 DEF Answering
<1> HIDE DEF Refused, Answering, Parsing, Asking
<1> QED BY <1>1, <1>4, <1>19, <1>20 DEF DnsInv

LEMMA ReceiveKeepsDns ==
  ASSUME DnsInv, Dns!Receive
  PROVE  DnsInv'
<1>1. /\ step = "recv" /\ net = "answer" /\ Len(truth) = Dns!Answers /\ net' = "idle"
      /\ UNCHANGED <<hostname, request, response, names, truth, list>>
      /\ \/ Dns!Short(response, 2) % 16 # 0 /\ step' = "undefined"
         \/ ~(Dns!Short(response, 2) % 16 # 0) /\ step' = "parse" /\ ptr' = Dns!SkipName(response, 12) + 4
  BY DEF Dns!Receive, Dns!serverVars
<1>2. hostname \in Seq(Nat) /\ truth \in Seq(Recs) /\ list \in Seq(Recs) /\ list = <<>> /\ (Refused \/ Answering)
  BY <1>1 DEF DnsInv
<1>3. CASE step' = "undefined"
  <2> HIDE DEF Refused, Answering, Parsing, Asking
  <2> QED BY <1>1, <1>2, <1>3 DEF DnsInv
<1>4. CASE step' = "parse"
  <2>1. ~(Dns!Short(response, 2) % 16 # 0) /\ ptr' = Dns!SkipName(response, 12) + 4
    BY <1>1, <1>4
  <2>2. Answering
    BY <1>2, <2>1 DEF Refused
  <2>3. Dns!Proper(hostname) /\ QuestionIn(response, hostname)
    BY <2>2 DEF Answering
  <2>4. PICK starts : Laid(response, hostname, truth, starts)
    BY <2>2 DEF Answering
  <2>5. starts[1] = Len(hostname) + 18
    BY <2>4 DEF Laid
  <2>6. ptr' = Len(hostname) + 18
    <3>1. ReadFrom(hostname, response, 0)
      <4>1. 0 \in 0..Len(hostname)
        BY <1>2, LenProperties
      <4> QED BY <1>2, <2>3, <4>1, QuestionRead
    <3>2. Len(hostname) \in Nat /\ Len(response) \in Nat /\ Len(hostname) + 18 <= Len(response)
      BY <1>2, <2>3, LenProperties DEF QuestionIn
    <3> DEFINE n == Len(hostname)
               len == Len(response)
    <3>3. Dns!EndsIn(response)[len][12] = n + 14
      <4>1. len \in n + 1 - 0..len /\ 12 + 0 = 12
        BY <3>2
      <4>2. Dns!EndsIn(response)[len][12 + 0] = n + 14
        BY <3>1, <4>1 DEF ReadFrom
      <4> QED BY <4>1, <4>2
    <3>4. Dns!SkipName(response, 12) = n + 14
      BY <3>3 DEF Dns!SkipName
    <3>5. n \in Nat
      BY <3>2
    <3> HIDE DEF n
    <3>6. ptr' = n + 18
      BY <2>1, <3>4, <3>5
    <3> QED BY <3>6 DEF n
  <2>7. response' \in Seq(Nat)
    BY <1>1, <2>3 DEF QuestionIn
  <2>8. Dns!Answers' = Dns!Answers
    BY <1>1 DEF Dns!Answers
  <2>9. Len(list') = 0 /\ 1..Len(list') = {} /\ Len(list') + 1 = 1
    <3>1. Len(<<>>) = 0
      OBVIOUS
    <3>2. Len(list') = 0
      BY <1>1, <1>2, <3>1
    <3> QED BY <3>2
  <2>10. Len(list') <= Len(truth')
    <3>1. Len(truth) \in Nat
      BY <1>2, LenProperties
    <3>2. Len(truth') \in Nat
      BY <1>1, <3>1
    <3> HIDE DEF Dns!Receive
    <3> QED BY <2>9, <3>2
  <2>11. Laid(response', hostname', truth', starts) /\ ptr' = starts[Len(list') + 1]
    BY <1>1, <2>4, <2>5, <2>6, <2>9
  <2>12. Len(truth') = Dns!Answers'
    BY <1>1, <2>8
  <2>13. Parsing'
    BY <2>7, <2>9, <2>10, <2>11, <2>12 DEF Parsing
  <2> HIDE DEF Refused, Answering, Parsing, Asking
  <2> QED BY <1>1, <1>2, <1>4, <2>13 DEF DnsInv
<1> QED BY <1>1, <1>3, <1>4

LEMMA DnsLibrary == \A s, t : Dns!IsPrefix(s, t) <=> IsPrefix(s, t)
BY DEF Dns!IsPrefix, IsPrefix

\* 306, 324: what malloc has left follows the name.
LEMMA LeftoverAppended ==
  ASSUME NEW s \in Seq(Nat), NEW x \in {s \o rest : rest \in Dns!Leftovers}
  PROVE  x \in Seq(Nat) /\ IsPrefix(s, x)
<1>1. PICK rest \in Dns!Leftovers : x = s \o rest
  OBVIOUS
<1>2. rest \in Seq(Nat)
  <2>1. <<>> \in Seq(Nat) /\ <<255>> \in Seq(Nat)
    BY EmptySeq
  <2> QED BY <2>1, Zenon DEF Dns!Leftovers
<1> QED BY <1>1, <1>2, ConcatProperties, PrefixOfConcat

LEMMA ParseKeepsDns ==
  ASSUME DnsInv, Dns!ParseRecord
  PROVE  DnsInv'
<1>1. /\ step = "parse" /\ Len(list) < Dns!Answers
      /\ Dns!IsPointer(Dns!Byte(response, ptr))
      /\ UNCHANGED <<step, hostname, request, net, response, names, truth>>
  BY DEF Dns!ParseRecord, Dns!Readable, Dns!serverVars
<1>2. PICK name \in Dns!Named(ptr), data \in Dns!Data(ptr + 2) :
        list' = <<[name |-> name, qType |-> Dns!Short(response, ptr + 2), data |-> data]>> \o list
  BY Zenon DEF Dns!ParseRecord
<1>16. ptr' = Dns!RecordEnd(ptr + 2)
  BY Zenon DEF Dns!ParseRecord
<1>3. hostname \in Seq(Nat) /\ truth \in Seq(Recs) /\ list \in Seq(Recs) /\ net = "idle" /\ Parsing
  BY <1>1 DEF DnsInv
<1>4. /\ response \in Seq(Nat) /\ Len(truth) = Dns!Answers
      /\ \A k \in 1..Len(list) : Dns!IsParsed(list[k], truth[Len(list) - k + 1])
  BY <1>3 DEF Parsing
<1>5. PICK starts : Laid(response, hostname, truth, starts) /\ ptr = starts[Len(list) + 1]
  BY <1>3 DEF Parsing
<1> DEFINE n == Len(list)
           r == truth[n + 1]
<1>6. n \in Nat /\ n + 1 \in 1..Len(truth) /\ Len(truth) \in Nat
  <2>1. n \in Nat /\ Len(truth) \in Nat
    BY <1>3, LenProperties
  <2> QED BY <1>1, <1>4, <2>1
<1>7. RecordAt(response, ptr, starts[(n + 1) + 1], r)
  BY <1>5, <1>6 DEF Laid
<1>8. r \in Recs
  BY <1>3, <1>6, ElementOfSeq
<1> HIDE DEF r
<1>9. /\ Dns!NameAt(response, ptr) = r.name /\ Dns!Short(response, ptr + 2) = r.qType
      /\ Dns!Data(ptr + 2) = IF r.qType = Dns!CNAME THEN {r.data \o rest : rest \in Dns!Leftovers}
                              ELSE {r.data}
      /\ Dns!RecordEnd(ptr + 2) = starts[(n + 1) + 1]
  BY <1>1, <1>4, <1>7, RecordParsed
<1> DEFINE new == [name |-> name, qType |-> r.qType, data |-> data]
<1>10. list' = <<new>> \o list
  BY <1>2, <1>9
<1>17. r.name \in Seq(Nat) /\ r.qType \in Nat /\ r.data \in Seq(Nat)
  BY <1>8 DEF Recs
<1>18. name \in Seq(Nat) /\ IsPrefix(r.name, name)
  <2>1. name \in {r.name \o rest : rest \in Dns!Leftovers}
    BY <1>9 DEF Dns!Named
  <2> QED BY <1>17, <2>1, LeftoverAppended
<1>19. /\ data \in Seq(Nat)
       /\ IF r.qType = Dns!CNAME THEN IsPrefix(r.data, data) ELSE data = r.data
  <2>1. CASE r.qType = Dns!CNAME
    <3>1. data \in {r.data \o rest : rest \in Dns!Leftovers}
      BY <1>9, <2>1
    <3> QED BY <1>17, <2>1, <3>1, LeftoverAppended
  <2>2. CASE r.qType # Dns!CNAME
    BY <1>9, <1>17, <2>2
  <2> QED BY <2>1, <2>2
<1>20. new \in Recs /\ Dns!IsParsed(new, r)
  BY <1>17, <1>18, <1>19, DnsLibrary DEF Recs, Dns!IsParsed
<1> HIDE DEF new
<1>11. list' \in Seq(Recs) /\ Len(list') = n + 1
  BY <1>3, <1>20, <1>10, ElemsCons
<1>12. \A k \in 1..Len(list') : Dns!IsParsed(list'[k], truth[Len(list') - k + 1])
  <2> DEFINE a == <<new>>
  <2>1. a \in Seq(Recs) /\ Len(a) = 1 /\ a[1] = new
    BY <1>20
  <2> HIDE DEF a
  <2>2. \A k \in 1..Len(a) + Len(list) : (a \o list)[k] = IF k <= Len(a) THEN a[k] ELSE list[k - Len(a)]
    <3>1. a \in Seq(Recs)
      BY <2>1
    <3> QED BY <1>3, <3>1, ConcatProperties
  <2>3. list' = a \o list
    BY <1>10 DEF a
  <2>4. ASSUME NEW k \in 1..n + 1 PROVE Dns!IsParsed(list'[k], truth[(n + 1) - k + 1])
    <3>1. list'[k] = IF k <= 1 THEN a[k] ELSE list[k - 1]
      <4>1. k \in 1..Len(a) + Len(list)
        BY <1>6, <2>1
      <4> QED BY <2>1, <2>2, <2>3, <4>1
    <3>2. CASE k = 1
      <4>1. (n + 1) - k + 1 = n + 1 /\ k <= 1
        BY <1>6, <3>2
      <4> QED BY <1>20, <2>1, <3>1, <3>2, <4>1 DEF r
    <3>3. CASE k # 1
      <4>1. k - 1 \in 1..n /\ n - (k - 1) + 1 = (n + 1) - k + 1 /\ ~(k <= 1)
        BY <1>6, <3>3
      <4>2. Dns!IsParsed(list[k - 1], truth[n - (k - 1) + 1])
        BY <1>4, <4>1
      <4> QED BY <3>1, <4>1, <4>2
    <3> QED BY <3>2, <3>3
  <2> QED BY <1>11, <2>4
<1>13. Dns!Answers' = Dns!Answers
  BY <1>1 DEF Dns!Answers
<1>14. Parsing'
  <2>1. Laid(response', hostname', truth', starts) /\ ptr' = starts[Len(list') + 1]
    BY <1>1, <1>5, <1>9, <1>11, <1>16
  <2>2. response' \in Seq(Nat) /\ Len(truth') = Dns!Answers'
    BY <1>1, <1>4, <1>13
  <2>3. Len(list') <= Len(truth')
    BY <1>1, <1>6, <1>11
  <2>4. \A k \in 1..Len(list') : Dns!IsParsed(list'[k], truth'[Len(list') - k + 1])
    BY <1>1, <1>12
  <2> QED BY <2>1, <2>2, <2>3, <2>4 DEF Parsing
<1> HIDE DEF Refused, Answering, Parsing, Asking
<1>15. step' = "parse" /\ net' = "idle" /\ hostname' \in Seq(Nat) /\ truth' \in Seq(Recs)
  BY <1>1, <1>3
<1> QED BY <1>11, <1>14, <1>15 DEF DnsInv

LEMMA DnsStutters ==
  ASSUME DnsInv, UNCHANGED Dns!vars
  PROVE  DnsInv'
<1>1. UNCHANGED <<hostname, request, response, names, truth, ptr, list, step, net>>
  BY DEF Dns!vars, Dns!serverVars
<1>2. /\ Asking' = Asking /\ Refused' = Refused
      /\ Answering' = Answering /\ Parsing' = Parsing
  BY <1>1, MessageStays
<1> HIDE DEF Asking, Refused, Answering, Parsing
<1> QED BY <1>1, <1>2 DEF DnsInv

LEMMA DnsKeeps ==
  ASSUME DnsInv, Dns!Assumption, Dns!Next
  PROVE  DnsInv'
BY SendKeepsDns, FailsKeepDns, BeginKeepsDns, AddKeepsDns, ReceiveKeepsDns, ParseKeepsDns, DnsStutters DEF Dns!Next

LEMMA DnsInvEncodes ==
  ASSUME DnsInv
  PROVE  Dns!QueryIsEncoded
<1> SUFFICES ASSUME net = "query", Dns!Proper(hostname) PROVE Dns!QueryIsEncoded
  BY DEF Dns!QueryIsEncoded
<1>1. hostname \in Seq(Nat) /\ Asking
  BY DEF DnsInv
<1>2. PICK rest \in {0, 255} : Requests(rest)
  BY <1>1, Zenon DEF Asking
<1> DEFINE q == Asked(hostname, rest)
           n == Len(hostname)
           starts == {0} \cup {k \in 1..n : hostname[k] = Dns!Dot}
<1>3. Dns!Question = q
  BY <1>1, <1>2, QuestionIsAsked
<1>4. n \in Nat
  BY <1>1, LenProperties
<1>5. \A o \in 0..n : q[o + 1] = Coded(hostname, o)
  BY <1>1, AskedIs
<1>6. SubSeq(q, n + 2, Len(q)) = <<0>> \o Dns!Bytes(Dns!A) \o Dns!Bytes(1)
  BY <1>1, AskedIs
<1> HIDE DEF q
<1>7. \A o \in 0..n : o \in starts <=> o = 0 \/ hostname[o] = Dns!Dot
  BY <1>4
<1>8. \A o \in 0..n : q[o + 1] = IF o \in starts THEN NextDot(hostname, o) - o - 1 ELSE hostname[o]
  BY <1>5, <1>7 DEF Coded
<1>9. \A o \in 0..n : q[o + 1] =
        IF o \in starts
        THEN (CHOOSE j \in o + 1..n + 1 :
                /\ j = n + 1 \/ hostname[j] = Dns!Dot
                /\ \A k \in o + 1..j - 1 : hostname[k] # Dns!Dot) - o - 1
        ELSE hostname[o]
  BY <1>8, Zenon DEF NextDot
<1> HIDE DEF Asked
<1> QED BY <1>3, <1>6, <1>9, Zenon DEF Dns!QueryIsEncoded

LEMMA DnsInvLists ==
  ASSUME DnsInv
  PROVE  Dns!ListIsAnswer
<1> SUFFICES ASSUME step \in {"parse", "free"}
             PROVE  /\ \A k \in 1..Len(list) : Dns!IsParsed(list[k], truth[Len(list) - k + 1])
                    /\ Len(list) = Dns!Answers => ptr = Len(response)
  BY DEF Dns!ListIsAnswer
<1>1. Parsing
  BY DEF DnsInv
<1>2. /\ Len(truth) = Dns!Answers
      /\ \A k \in 1..Len(list) : Dns!IsParsed(list[k], truth[Len(list) - k + 1])
  BY <1>1 DEF Parsing
<1>3. PICK starts : Laid(response, hostname, truth, starts) /\ ptr = starts[Len(list) + 1]
  BY <1>1 DEF Parsing
<1>4. Len(starts) = Len(truth) + 1 /\ starts[Len(starts)] = Len(response)
  BY <1>3 DEF Laid
<1> QED BY <1>2, <1>3, <1>4

-----------------------------------------------------------------------------
(* The theorems.                                                           *)

Inv ==
  /\ program = "counter" => CounterInv
  /\ program = "generator" => GeneratorInv
  /\ program = "http" => HttpInv
  /\ program = "dns" => DnsInv
  /\ program = "images" => ImagesInv
  /\ program = "bloom" => BloomInv

LEMMA InitInv ==
  ASSUME Init
  PROVE  Inv
BY InitCounterInv, InitGeneratorInv, InitHttpInv, InitDnsInv, InitImagesInv, InitBloomInv,
   ProgramsAssumption DEF Init, Inv

LEMMA NextInv ==
  ASSUME Inv, [Next]_vars
  PROVE  Inv'
<1> USE ProgramsAssumption DEF Inv
<1>1. CASE CounterOnly /\ Counter!Next
  BY <1>1, CounterKeeps DEF CounterOnly
<1>2. CASE GeneratorOnly /\ Generator!Next
  BY <1>2, GeneratorKeeps DEF GeneratorOnly
<1>3. CASE HttpOnly /\ Http!Next
  BY <1>3, HttpKeeps DEF HttpOnly
<1>4. CASE DnsOnly /\ Dns!Next
  BY <1>4, DnsKeeps DEF DnsOnly
<1>5. CASE ImagesOnly /\ Store!Next
  BY <1>5, ImagesKeeps DEF ImagesOnly
<1>6. CASE BloomOnly /\ Bloom!Next
  BY <1>6, BloomKeeps DEF BloomOnly
<1>7. CASE UNCHANGED vars
  <2>1. UNCHANGED <<program, count, old, i, pc, Generator!vars, Http!vars, Dns!vars, Store!vars, Bloom!vars>>
    BY <1>7 DEF vars, counterVars, generatorVars, httpVars, dnsVars, imageVars, bloomVars,
                Counter!vars, Generator!vars, Generator!kernelVars, Http!vars, Http!serverVars,
                Dns!vars, Dns!serverVars, Store!vars, Bloom!vars
  <2> QED BY <2>1, CounterStutters, GeneratorStutters, HttpStutters, DnsStutters,
             ImagesStutters, BloomStutters
<1> QED BY <1>1, <1>2, <1>3, <1>4, <1>5, <1>6, <1>7 DEF Next

THEOREM InductiveInvariant == Spec => []Inv
BY InitInv, NextInv, PTL DEF Spec

\* lock.c: for any number of threads and rounds, the counter never exceeds the
\* number of rounds that have ended.
THEOREM NeverAheadHolds == Spec => []NeverAhead
<1>1. Inv => NeverAhead
  BY CounterLibrary DEF Inv, CounterInv, Rounded, NeverAhead, Counter!NeverAhead
<1> QED BY <1>1, InductiveInvariant, PTL

\* lock.c: for any number of threads, at the end the counter is at least 2, or 1 if
\* each of them had one round only.
THEOREM TwoSurviveHolds == Spec => []TwoSurvive
<1>1. Inv => TwoSurvive
  BY DEF Inv, CounterInv, TwoSurvive
<1> QED BY <1>1, InductiveInvariant, PTL

\* tcp-connect.c, 74-179: against any server, the count is never below the number of
\* open sockets nor above the cap.
THEOREM OpenAreCountedHolds == Spec => []OpenAreCounted
<1>1. Inv => OpenAreCounted
  BY DEF Inv, GeneratorInv, OpenAreCounted
<1> QED BY <1>1, InductiveInvariant, PTL

\* tcp-connect.c, 128-173: every event of a batch is about an open socket when its
\* turn comes, whatever was closed before it.
THEOREM EventsAreOpenHolds == Spec => []EventsAreOpen
<1>1. Inv => EventsAreOpen
  BY DEF Inv, GeneratorInv, EventsAreOpen
<1> QED BY <1>1, InductiveInvariant, PTL

\* http-connect.c, 101-127: result and file are what the server sent, for responses
\* of any length cut into chunks of any size.
THEOREM SavedIsReceivedHolds == Spec => []SavedIsReceived
<1>1. Inv => SavedIsReceived
  BY HttpInvSaves DEF Inv, SavedIsReceived
<1> QED BY <1>1, InductiveInvariant, PTL

\* dns.c, 81-117: for any host name of labels of at most 63 bytes, the question is the
\* host name with each label's length in the place of the dot before it, an empty
\* label, type and class.
THEOREM QueryIsEncodedHolds == Spec => []QueryIsEncoded
<1>1. Inv => QueryIsEncoded
  BY DnsInvEncodes DEF Inv, QueryIsEncoded
<1> QED BY <1>1, InductiveInvariant, PTL

\* dns.c, 203-341: for any host name, any labels and addresses and any number of
\* records, however the server compresses its names, what has been parsed is what was
\* encoded, last record first, and a complete parse ends at the end of the message.
THEOREM ListIsAnswerHolds == Spec => []ListIsAnswer
<1>1. Inv => ListIsAnswer
  BY DnsInvLists DEF Inv, ListIsAnswer
<1> QED BY <1>1, InductiveInvariant, PTL

\* mysql.c, 150-171: what is saved from rows with one image is that image, for any
\* number of rows, any images and any buffer.
THEOREM CopyIsStoredHolds == Spec => []CopyIsStored
<1>1. Inv => CopyIsStored
  BY StoreLibrary DEF Inv, ImagesInv, CopyIsStored, Store!CopyIsStored
<1> QED BY <1>1, InductiveInvariant, PTL

\* bloomfilter.h, 130-154: whatever was put into the filter is found, for any number
\* of bits, any keys, any hash functions and whatever the fresh bytes hold.
THEOREM NoFalseNegativesHold == Spec => []NoFalseNegatives
<1>1. Inv => NoFalseNegatives
  BY DEF Inv, BloomInv, NoFalseNegatives
<1> QED BY <1>1, InductiveInvariant, PTL
=============================================================================
