------------------------ MODULE ConnectionPoolProofs ------------------------
(***************************************************************************)
(* Theorems about ConnectionPool, for any number of clients, connections   *)
(* and any sizes.  Inductive is shown to be preserved by every step; what  *)
(* the pool promises follows from it.                                      *)
(***************************************************************************)
EXTENDS ConnectionPool, SequenceElements, FiniteSetTheorems

-----------------------------------------------------------------------------
(* Type correctness.                                                       *)

\* The pool starts in its type.
LEMMA InitTypeOK == Init => TypeOK
<1>1. <<>> \in Seq(Conns) /\ 0 \in Nat /\ 0 \in 0..MaxIdle + 1
  BY SizesAssumption, EmptySeq
<1> QED BY <1>1 DEF Init, TypeOK, Threads

\* Every step of getConnection, run() and the two threads keeps the types; the
\* scanner does not take connectionCount below zero.
LEMMA NextTypeOK == TypeOK /\ [Next]_vars => TypeOK'
<1> SUFFICES ASSUME TypeOK, [Next]_vars PROVE TypeOK'
  OBVIOUS
<1> USE DEF TypeOK, Threads
<1>1. ASSUME Step PROVE TypeOK'
  <2>1. ASSUME Run \/ StartThreads PROVE TypeOK'
    BY <2>1 DEF Run, StartThreads
  <2>2. ASSUME NEW k \in Conns, NEW ok \in ConnectResults, CreateConnection(k, ok)
        PROVE  /\ queue' \in Seq(Conns) /\ count' \in Nat
               /\ idle' \in [Conns -> 0..MaxIdle + 1] /\ usable' \in [Conns -> BOOLEAN]
    BY <2>2, ElemsAppend, SizesAssumption, ResultsAssumption DEF CreateConnection
  <2>3. CASE Fill
    BY <2>2, <2>3 DEF Fill
  <2>4. CASE ProducerCreate
    BY <2>2, <2>4 DEF ProducerCreate, WokenClients
  <2>5. ASSUME NEW c \in Clients, Call(c) \/ Acquire(c) \/ Wait(c) \/ Timeout(c) \/ Expire(c)
        PROVE  TypeOK'
    BY <2>5 DEF Call, Acquire, Wait, Timeout, Expire
  <2>6. ASSUME NEW c \in Clients, Take(c) PROVE TypeOK'
    <3>1. Tail(queue) \in Seq(Conns) /\ Head(queue) \in Conns
      BY <2>6, ElemsTail DEF Take, LendHead, NotifyAll
    <3> QED BY <2>6, <3>1 DEF Take, LendHead, NotifyAll, WokenClients, WokenProducer
  <2>7. ASSUME NEW c \in Clients, NEW k \in Conns, Return(c, k) PROVE TypeOK'
    BY <2>7, ElemsAppend, SizesAssumption DEF Return, GiveBack, Refreshed
  <2>8. CASE ProducerAcquire \/ ProducerWait \/ ProducerConnect \/ ProducerFull
    BY <2>8 DEF ProducerAcquire, ProducerWait, ProducerConnect, ProducerFull
  <2>9. CASE ScannerWake \/ ScannerAcquire \/ ScannerStop \/ ScannerEmptyFront
    BY <2>9 DEF ScannerWake, ScannerAcquire, ScannerStop, ScannerEmptyFront
  <2>10. CASE ScannerReclaim
    <3>1. Tail(queue) \in Seq(Conns) /\ count - 1 \in Nat
      BY <2>10, ElemsTail, SizesAssumption DEF ScannerReclaim, DeleteHead
    <3> QED BY <2>10, <3>1 DEF ScannerReclaim, DeleteHead
  <2>11. CASE SpuriousWake
    BY <2>11 DEF SpuriousWake
  <2>12. CASE Tick
    BY <2>12, SizesAssumption DEF Tick
  <2> QED
    BY <1>1, <2>1, <2>3, <2>4, <2>5, <2>6, <2>7, <2>8, <2>9, <2>10, <2>11, <2>12
    DEF Step, ClientStep, ProducerStep, ScannerStep
<1>2. CASE UNCHANGED vars
  BY <1>2 DEF vars
<1> QED BY <1>1, <1>2 DEF Next

\* The variables of the pool keep to their types.
THEOREM TypeCorrect == Spec => []TypeOK
  BY InitTypeOK, NextTypeOK, PTL DEF Spec

-----------------------------------------------------------------------------
(* Where connections move.                                                 *)

\* Of all the steps, only these touch the queue, the loans and the count:
\* createConnection, getConnection, the deleter and the scanner's pop.
LEMMA DataStep ==
  ASSUME [Next]_vars
  PROVE  \/ \E k \in Conns \ Live, ok \in ConnectResults :
              CreateConnection(k, ok) /\ UNCHANGED held /\ (Fill \/ ProducerCreate)
         \/ \E c \in Clients : Take(c)
         \/ \E c \in Clients, k \in Conns : Return(c, k)
         \/ ScannerReclaim
         \/ UNCHANGED <<queue, held, count>> /\ (UNCHANGED idle \/ Tick)
<1>1. CASE UNCHANGED vars
  BY <1>1 DEF vars
<1>2. ASSUME NEW c \in Clients, Call(c) \/ Acquire(c) \/ Wait(c) \/ Timeout(c) \/ Expire(c)
      PROVE  UNCHANGED <<queue, held, count, idle>>
  BY <1>2 DEF Call, Acquire, Wait, Timeout, Expire
<1>3. CASE Run \/ StartThreads \/ SpuriousWake
  BY <1>3 DEF Run, StartThreads, SpuriousWake
<1>4. CASE ProducerAcquire \/ ProducerWait \/ ProducerConnect \/ ProducerFull
  BY <1>4 DEF ProducerAcquire, ProducerWait, ProducerConnect, ProducerFull
<1>5. CASE ScannerWake \/ ScannerAcquire \/ ScannerStop \/ ScannerEmptyFront
  BY <1>5 DEF ScannerWake, ScannerAcquire, ScannerStop, ScannerEmptyFront
<1>6. CASE Tick
  BY <1>6 DEF Tick
<1>7. CASE Fill
  BY <1>7 DEF Fill
<1>8. CASE ProducerCreate
  BY <1>8 DEF ProducerCreate
<1> QED
  BY <1>1, <1>2, <1>3, <1>4, <1>5, <1>6, <1>7, <1>8
  DEF Next, Step, ClientStep, ProducerStep, ScannerStep

\* How each of them changes the set of connections that exist.
LEMMA LiveStep ==
  ASSUME TypeOK, Ownership, [Next]_vars
  PROVE  /\ Ownership'
         /\ \/ \E k \in Conns \ Live :
                 Live' = Live \cup {k} /\ count' = count + 1 /\ (Fill \/ ProducerCreate)
            \/ \E k \in Live : Live' = Live \ {k} /\ count' = count - 1 /\ ScannerReclaim
            \/ Live' = Live /\ count' = count
<1> USE DEF TypeOK, Ownership, Live
<1>q. /\ Queued = Elems(queue)
      /\ Queued' = Elems(queue')
      /\ Distinct(queue)
      /\ (\A i, j \in 1..Len(queue) : queue[i] = queue[j] => i = j)' <=> Distinct(queue')
  BY DEF Queued, Elems, Distinct
<1>1. ASSUME NEW k \in Conns \ Live, NEW ok \in ConnectResults,
             CreateConnection(k, ok), UNCHANGED held
      PROVE  Ownership' /\ Live' = Live \cup {k} /\ count' = count + 1
  <2>1. Queued' = Queued \cup {k} /\ Distinct(queue')
    BY <1>1, <1>q, ElemsAppend DEF CreateConnection
  <2>2. Lent' = Lent
    BY <1>1 DEF Lent
  <2> QED BY <1>1, <1>q, <2>1, <2>2 DEF CreateConnection
<1>2. ASSUME NEW c \in Clients, Take(c)
      PROVE  Ownership' /\ Live' = Live /\ count' = count
  <2> DEFINE h == Head(queue)
  <2>1. /\ Queued = Queued' \cup {h} /\ h \notin Queued' /\ Distinct(queue')
        /\ h \in Conns
    BY <1>2, <1>q, ElemsTail DEF Take, LendHead, NotifyAll
  <2>2. /\ held'[c] = held[c] \cup {h}
        /\ \A d \in Clients : d # c => held'[d] = held[d]
    BY <1>2 DEF Take, LendHead, NotifyAll
  <2>3. Lent' = Lent \cup {h}
    BY <2>2 DEF Lent
  <2>4. h \notin Lent /\ \A d \in Clients : h \notin held[d]
    BY <2>1 DEF Lent
  <2>5. Live' = Live
    BY <2>1, <2>3
  <2>6. Queued' \cap Lent' = {}
    BY <2>1, <2>3, <2>4
  <2>7. \A d, e \in Clients : d # e => held'[d] \cap held'[e] = {}
    BY <2>2, <2>4
  <2> QED BY <1>2, <1>q, <2>1, <2>5, <2>6, <2>7 DEF Take, LendHead, NotifyAll
<1>3. ASSUME NEW c \in Clients, NEW k \in Conns, Return(c, k)
      PROVE  Ownership' /\ Live' = Live /\ count' = count
  <2>1. k \in Lent /\ k \notin Queued
    BY <1>3 DEF Return, GiveBack, Refreshed, Lent
  <2>2. Queued' = Queued \cup {k} /\ Distinct(queue')
    BY <1>3, <1>q, <2>1, ElemsAppend DEF Return, GiveBack, Refreshed
  <2>3. /\ held'[c] = held[c] \ {k}
        /\ \A d \in Clients : d # c => held'[d] = held[d] /\ k \notin held[d]
    BY <1>3 DEF Return, GiveBack, Refreshed
  <2>4. Lent' = Lent \ {k}
    <3>1. \A d \in Clients : held'[d] = held[d] \ {k}
      BY <2>3
    <3> QED BY <3>1 DEF Lent
  <2>5. \A d, e \in Clients : d # e => held'[d] \cap held'[e] = {}
    BY <2>3
  <2> QED BY <1>3, <1>q, <2>1, <2>2, <2>4, <2>5 DEF Return, GiveBack, Refreshed
<1>4. ASSUME ScannerReclaim
      PROVE  /\ Ownership' /\ Head(queue) \in Live
             /\ Live' = Live \ {Head(queue)} /\ count' = count - 1
  <2>1. /\ Queued = Queued' \cup {Head(queue)} /\ Head(queue) \notin Queued'
        /\ Distinct(queue')
    BY <1>4, <1>q, ElemsTail DEF ScannerReclaim, DeleteHead
  <2>2. Lent' = Lent
    BY <1>4 DEF ScannerReclaim, DeleteHead, Lent
  <2> QED BY <1>4, <1>q, <2>1, <2>2 DEF ScannerReclaim, DeleteHead
<1>5. ASSUME UNCHANGED <<queue, held, count>>
      PROVE  Ownership' /\ Live' = Live /\ count' = count
  BY <1>5, <1>q DEF Lent
<1> QED BY <1>1, <1>2, <1>3, <1>4, <1>5, DataStep

-----------------------------------------------------------------------------
(* The inductive invariant, part by part.                                  *)

\* The mutex excludes, and whoever leaves a critical section gives it up.
LEMMA NextCriticalSections ==
  TypeOK /\ CriticalSections /\ [Next]_vars => CriticalSections'
<1> SUFFICES ASSUME TypeOK, CriticalSections, [Next]_vars PROVE CriticalSections'
  OBVIOUS
<1>n. \A c \in Clients : c # "producer" /\ c # "scanner" /\ c # "free"
  BY ClientsAssumption
<1> USE <1>n DEF TypeOK, CriticalSections
<1>1. CASE Run \/ StartThreads \/ Fill \/ Tick \/ UNCHANGED vars
  BY <1>1 DEF Run, StartThreads, Fill, Tick, vars
<1>2. ASSUME NEW c \in Clients, ClientStep(c) PROVE CriticalSections'
  <2>1. CASE Call(c) \/ Acquire(c) \/ Wait(c) \/ Timeout(c) \/ Expire(c)
    BY <1>2, <2>1 DEF Call, Acquire, Wait, Timeout, Expire
  <2>2. CASE Take(c)
    BY <1>2, <2>2 DEF Take, LendHead, NotifyAll, WokenClients, WokenProducer
  <2>3. CASE \E k \in Conns : Return(c, k)
    BY <1>2, <2>3 DEF Return, GiveBack, Refreshed
  <2> QED BY <1>2, <2>1, <2>2, <2>3 DEF ClientStep
<1>3. CASE ProducerAcquire \/ ProducerWait \/ ProducerConnect \/ ProducerFull
  BY <1>3 DEF ProducerAcquire, ProducerWait, ProducerConnect, ProducerFull
<1>4. CASE ProducerCreate
  BY <1>4 DEF ProducerCreate, WokenClients
<1>5. CASE ScannerWake \/ ScannerAcquire \/ ScannerReclaim \/ ScannerStop
  BY <1>5 DEF ScannerWake, ScannerAcquire, ScannerReclaim, DeleteHead, ScannerStop
<1>6. CASE ScannerEmptyFront
  BY <1>6 DEF ScannerEmptyFront
<1>7. CASE SpuriousWake
  BY <1>7 DEF SpuriousWake
<1> QED
  BY <1>1, <1>2, <1>3, <1>4, <1>5, <1>6, <1>7 DEF Next, Step, ProducerStep, ScannerStep

\* Before run() has started the threads, nothing but the pool has changed.
LEMMA NextBeforeRunning ==
  TypeOK /\ BeforeRunning /\ CriticalSections /\ count = Cardinality(Live) /\ [Next]_vars
    => BeforeRunning'
<1> SUFFICES ASSUME TypeOK, BeforeRunning, CriticalSections, count = Cardinality(Live),
                    [Next]_vars
             PROVE  BeforeRunning'
  OBVIOUS
<1> USE SizesAssumption DEF TypeOK, BeforeRunning
<1>1. CASE UNCHANGED vars
  BY <1>1 DEF vars
<1>2. CASE Run
  <2>1. stage = "setup" => count = 0
    <3>1. ASSUME stage = "setup" PROVE Live = {}
      BY <3>1, EmptySeq DEF Live, Queued, Lent
    <3> QED BY <3>1, FS_EmptySet
  <2> QED BY <1>2, <2>1 DEF Run
<1>3. CASE Fill
  BY <1>3 DEF Fill, CreateConnection
<1>4. CASE StartThreads
  BY <1>4 DEF StartThreads
<1>5. ASSUME ~Run, ~Fill, ~StartThreads, Next, ~UNCHANGED vars
      PROVE  stage = "running" /\ stage' = "running"
  <2>n. \A c \in Clients : c # "free"
    BY ClientsAssumption
  <2> USE <2>n DEF CriticalSections
  <2>1. ASSUME NEW c \in Clients, ClientStep(c) PROVE stage = "running" /\ stage' = stage
    BY <2>1 DEF ClientStep, Call, Acquire, Wait, Timeout, Expire, Take, LendHead, NotifyAll, Return, GiveBack, Refreshed
  <2>2. CASE ProducerAcquire \/ ProducerStep
    BY <2>2 DEF ProducerAcquire, ProducerStep, ProducerWait, ProducerConnect,
                ProducerCreate, ProducerFull
  <2>3. CASE ScannerWake \/ ScannerAcquire \/ ScannerStep
    BY <2>3 DEF ScannerWake, ScannerAcquire, ScannerStep, ScannerReclaim, DeleteHead, ScannerStop,
                ScannerEmptyFront
  <2>4. CASE SpuriousWake \/ Tick
    BY <2>4 DEF SpuriousWake, Tick
  <2> QED BY <1>5, <2>1, <2>2, <2>3, <2>4 DEF Next, Step
<1> QED BY <1>1, <1>2, <1>3, <1>4, <1>5

\* The test against maxSize still holds when connect returns: nothing else
\* changes connectionCount while the producer keeps the mutex.
LEMMA NextConnectBelowMax ==
  ASSUME TypeOK, CriticalSections, BeforeRunning, [Next]_vars,
         producer = "connect" => count < MaxSize,
         producer' = "connect"
  PROVE  count' < MaxSize
<1> USE SizesAssumption DEF TypeOK
<1>1. CASE ProducerConnect
  BY <1>1 DEF ProducerConnect
<1>2. ASSUME ~ProducerConnect PROVE producer = "connect"
  <2>1. ASSUME NEW c \in Clients, ClientStep(c) PROVE producer = "connect"
    BY <2>1 DEF ClientStep, Call, Acquire, Wait, Timeout, Expire, Take, LendHead, NotifyAll, Return, GiveBack, Refreshed, WokenProducer
  <2>2. CASE ProducerAcquire \/ ProducerStep
    BY <1>2, <2>2 DEF ProducerAcquire, ProducerStep, ProducerWait, ProducerCreate, ProducerFull
  <2>3. CASE ScannerWake \/ ScannerAcquire \/ ScannerStep
    BY <2>3 DEF ScannerWake, ScannerAcquire, ScannerStep, ScannerReclaim, DeleteHead, ScannerStop,
                ScannerEmptyFront
  <2>4. CASE SpuriousWake \/ Tick \/ Run \/ Fill \/ StartThreads \/ UNCHANGED vars
    BY <2>4 DEF SpuriousWake, Tick, Run, Fill, StartThreads, vars
  <2> QED BY <2>1, <2>2, <2>3, <2>4 DEF Next, Step
<1>3. ASSUME producer = "connect" PROVE count' = count
  <2>1. mutex = "producer" /\ scanner # "scan" /\ stage = "running"
    BY <1>3 DEF CriticalSections, BeforeRunning
  <2>2. ~ScannerReclaim /\ ~Fill
    BY <2>1 DEF ScannerReclaim, DeleteHead, Fill
  <2>3. ~ProducerCreate
    BY DEF ProducerCreate
  <2>4. ASSUME NEW c \in Clients, Take(c) PROVE count' = count
    BY <2>4 DEF Take, LendHead, NotifyAll
  <2>5. ASSUME NEW c \in Clients, NEW k \in Conns, Return(c, k) PROVE count' = count
    BY <2>5 DEF Return, GiveBack, Refreshed
  <2> QED BY <2>2, <2>3, <2>4, <2>5, DataStep
<1> QED BY <1>1, <1>2, <1>3

\* connectionCount counts the connections, between initSize and the limit.
LEMMA NextSizeWithinLimits == Inductive /\ [Next]_vars => SizeWithinLimits'
<1> SUFFICES ASSUME Inductive, [Next]_vars PROVE SizeWithinLimits'
  OBVIOUS
<1> USE SizesAssumption DEF Inductive, TypeOK, SizeWithinLimits, Limit
<1>1. IsFiniteSet(Live)
  <2>1. Live \subseteq Conns
    BY DEF Live, Queued, Lent
  <2> QED BY <2>1, ConnsAssumption, FS_Subset
<1>2. stage' = "running" => stage = "running" \/ (StartThreads /\ count >= InitSize)
  <2>1. stage' = stage \/ Run \/ StartThreads
    <3>1. ASSUME NEW c \in Clients, ClientStep(c) PROVE stage' = stage
      BY <3>1 DEF ClientStep, Call, Acquire, Wait, Timeout, Expire, Take, LendHead, NotifyAll, Return, GiveBack, Refreshed
    <3>2. CASE ProducerAcquire \/ ProducerStep
      BY <3>2 DEF ProducerAcquire, ProducerStep, ProducerWait, ProducerConnect,
                  ProducerCreate, ProducerFull
    <3>3. CASE ScannerWake \/ ScannerAcquire \/ ScannerStep
      BY <3>3 DEF ScannerWake, ScannerAcquire, ScannerStep, ScannerReclaim, DeleteHead, ScannerStop,
                  ScannerEmptyFront
    <3>4. CASE SpuriousWake \/ Tick \/ Fill \/ UNCHANGED vars
      BY <3>4 DEF SpuriousWake, Tick, Fill, vars
    <3> QED BY <3>1, <3>2, <3>3, <3>4 DEF Next, Step
  <2> QED BY <2>1 DEF Run, StartThreads
<1>3. ASSUME NEW k \in Conns \ Live, Live' = Live \cup {k}, count' = count + 1,
             Fill \/ ProducerCreate
      PROVE  SizeWithinLimits'
  <2>1. Cardinality(Live') = count'
    BY <1>1, <1>3, FS_AddElement
  <2>2. count' <= Limit
    BY <1>3 DEF Fill, ProducerCreate
  <2>3. stage' = stage
    BY <1>3 DEF Fill, ProducerCreate
  <2> QED BY <1>3, <2>1, <2>2, <2>3
<1>4. ASSUME NEW k \in Live, Live' = Live \ {k}, count' = count - 1, ScannerReclaim
      PROVE  SizeWithinLimits'
  <2>1. Cardinality(Live') = count'
    BY <1>1, <1>4, FS_RemoveElement
  <2>2. count' >= InitSize
    BY <1>4 DEF ScannerReclaim, DeleteHead
  <2> QED BY <1>4, <2>1, <2>2
<1>5. ASSUME Live' = Live, count' = count PROVE SizeWithinLimits'
  BY <1>2, <1>5 DEF StartThreads
<1> QED BY <1>3, <1>4, <1>5, LiveStep

\* The queue stays ordered by age: what is appended has just been refreshed, and
\* the clock moves all of them alike.
LEMMA NextIdleOrder == TypeOK /\ IdleOrder /\ Ownership /\ [Next]_vars => IdleOrder'
<1> SUFFICES ASSUME TypeOK, IdleOrder, Ownership, [Next]_vars PROVE IdleOrder'
  OBVIOUS
<1> USE SizesAssumption DEF TypeOK, IdleOrder
<1>1. ASSUME NEW k \in Conns, k \notin Queued, queue' = Append(queue, k),
             idle' = [idle EXCEPT ![k] = 0]
      PROVE  IdleOrder'
  <2>1. /\ Len(queue) \in Nat /\ Len(queue') = Len(queue) + 1
        /\ \A i \in 1..Len(queue) : queue'[i] = queue[i] /\ queue[i] \in Conns
        /\ queue'[Len(queue) + 1] = k
    BY <1>1, AppendProperties, LenProperties, ElementOfSeq
  <2>2. /\ \A i \in 1..Len(queue) : idle'[queue'[i]] = idle[queue[i]]
        /\ \A i \in 1..Len(queue) : idle[queue[i]] \in Nat
        /\ idle'[queue'[Len(queue) + 1]] = 0
    BY <1>1, <2>1 DEF Queued
  <2>3. ASSUME NEW i \in 1..Len(queue'), NEW j \in 1..Len(queue'), i < j
        PROVE  idle'[queue'[i]] >= idle'[queue'[j]]
    <3>1. i \in 1..Len(queue) /\ (j \in 1..Len(queue) \/ j = Len(queue) + 1)
      BY <2>1, <2>3
    <3>2. CASE j \in 1..Len(queue)
      BY <2>2, <2>3, <3>1, <3>2
    <3>3. CASE j = Len(queue) + 1
      BY <2>2, <3>1, <3>3
    <3> QED BY <3>1, <3>2, <3>3
  <2> QED BY <2>3
<1>2. ASSUME queue # <<>>, queue' = Tail(queue), idle' = idle PROVE IdleOrder'
  BY <1>2, ElemsTail, LenProperties
<1>3. ASSUME Tick PROVE IdleOrder'
  <2>1. queue' = queue /\ Len(queue) \in Nat
    BY <1>3, LenProperties DEF Tick
  <2>2. \A i \in 1..Len(queue) :
           /\ idle[queue[i]] \in 0..MaxIdle + 1
           /\ idle'[queue[i]] = IF idle[queue[i]] <= MaxIdle THEN idle[queue[i]] + 1
                                ELSE idle[queue[i]]
    BY <1>3, ElementOfSeq DEF Tick, Queued
  <2>3. ASSUME NEW i \in 1..Len(queue), NEW j \in 1..Len(queue), i < j
        PROVE  idle'[queue[i]] >= idle'[queue[j]]
    <3> DEFINE a == idle[queue[i]]
               b == idle[queue[j]]
    <3>1. a \in 0..MaxIdle + 1 /\ b \in 0..MaxIdle + 1 /\ a >= b
      BY <2>2, <2>3
    <3>2. /\ idle'[queue[i]] = IF a <= MaxIdle THEN a + 1 ELSE a
          /\ idle'[queue[j]] = IF b <= MaxIdle THEN b + 1 ELSE b
      BY <2>2
    <3> HIDE DEF a, b
    <3> QED BY <3>1, <3>2
  <2> QED BY <2>1, <2>3
<1>4. ASSUME NEW c \in Clients, NEW k \in Conns, Return(c, k) PROVE IdleOrder'
  <2>1. k \notin Queued
    BY <1>4 DEF Return, GiveBack, Refreshed, Ownership, Lent
  <2> QED BY <1>1, <1>4, <2>1 DEF Return, GiveBack, Refreshed
<1>5. ASSUME NEW k \in Conns \ Live, NEW ok \in ConnectResults, CreateConnection(k, ok)
      PROVE  IdleOrder'
  BY <1>1, <1>5 DEF CreateConnection, Live
<1>6. ASSUME NEW c \in Clients, Take(c) PROVE IdleOrder'
  BY <1>2, <1>6 DEF Take, LendHead, NotifyAll
<1>7. CASE ScannerReclaim
  BY <1>2, <1>7 DEF ScannerReclaim, DeleteHead
<1>8. ASSUME queue' = queue, idle' = idle PROVE IdleOrder'
  BY <1>8
<1> QED BY <1>3, <1>4, <1>5, <1>6, <1>7, <1>8, DataStep

\* The initial state satisfies the inductive invariant.
LEMMA InitInductive == Init => Inductive
<1> SUFFICES ASSUME Init PROVE Inductive
  OBVIOUS
<1>1. TypeOK
  BY InitTypeOK
<1>2. Queued = {} /\ Lent = {} /\ Len(queue) = 0
  BY EmptySeq DEF Init, Queued, Lent
<1>3. Ownership /\ IdleOrder
  BY <1>2 DEF Init, Ownership, IdleOrder
<1>4. SizeWithinLimits
  BY <1>2, FS_EmptySet, SizesAssumption DEF Init, SizeWithinLimits, Live, Limit
<1>5. CriticalSections
  BY ClientsAssumption DEF Init, CriticalSections
<1>6. BeforeRunning
  BY DEF Init, BeforeRunning
<1> QED BY <1>1, <1>3, <1>4, <1>5, <1>6 DEF Init, Inductive

\* And every step preserves it.
LEMMA NextInductive == Inductive /\ [Next]_vars => Inductive'
<1> SUFFICES ASSUME Inductive, [Next]_vars PROVE Inductive'
  OBVIOUS
<1>1. TypeOK'
  BY NextTypeOK DEF Inductive
<1>2. Ownership'
  BY LiveStep DEF Inductive
<1>3. SizeWithinLimits'
  BY NextSizeWithinLimits
<1>4. IdleOrder'
  BY NextIdleOrder DEF Inductive
<1>5. CriticalSections'
  BY NextCriticalSections DEF Inductive
<1>6. BeforeRunning'
  BY NextBeforeRunning DEF Inductive, SizeWithinLimits
<1>7. (producer = "connect" => count < MaxSize)'
  BY NextConnectBelowMax DEF Inductive
<1> QED BY <1>1, <1>2, <1>3, <1>4, <1>5, <1>6, <1>7 DEF Inductive

\* The conjunction that carries all the proofs holds in every reachable state.
THEOREM InductiveInvariant == Spec => []Inductive
  BY InitInductive, NextInductive, PTL DEF Spec

-----------------------------------------------------------------------------
(* What the pool promises.                                                 *)

\* A connection is never lent twice, and never lent while it is queued, however
\* getConnection, the deleter, the producer and the scanner interleave.
THEOREM OwnershipHolds == Spec => []Ownership
<1>1. Inductive => Ownership
  BY DEF Inductive
<1> QED BY <1>1, InductiveInvariant, PTL

\* connectionCount is exact, never above the limit, and never below initSize
\* once run() has returned.
THEOREM SizeHolds == Spec => []SizeWithinLimits
<1>1. Inductive => SizeWithinLimits
  BY DEF Inductive
<1> QED BY <1>1, InductiveInvariant, PTL

\* The head of the queue is the connection that has been idle longest.
THEOREM IdleOrderHolds == Spec => []IdleOrder
<1>1. Inductive => IdleOrder
  BY DEF Inductive
<1> QED BY <1>1, InductiveInvariant, PTL

\* That is why the scanner may stop at the first connection that is not expired.
THEOREM ScanIsComplete == Spec => ScanLeavesNoExpired
<1> DEFINE Complete == scanner = "scan" /\ scanner' = "sleep" /\ count > InitSize =>
                         \A k \in Queued : idle[k] <= MaxIdle
<1>1. Inductive /\ [Next]_vars => [Complete]_vars
  <2> SUFFICES ASSUME Inductive, Next, scanner = "scan", scanner' = "sleep",
                      count > InitSize
               PROVE  \A k \in Queued : idle[k] <= MaxIdle
    OBVIOUS
  <2> USE SizesAssumption DEF Inductive, TypeOK
  <2>1. ScannerStop \/ ScannerEmptyFront
    <3>1. ASSUME NEW c \in Clients, ClientStep(c) PROVE scanner' = scanner
      BY <3>1 DEF ClientStep, Call, Acquire, Wait, Timeout, Expire, Take, LendHead, NotifyAll, Return, GiveBack, Refreshed
    <3>2. ASSUME ProducerAcquire \/ ProducerStep PROVE scanner' = scanner
      BY <3>2 DEF ProducerAcquire, ProducerStep, ProducerWait, ProducerConnect,
                  ProducerCreate, ProducerFull
    <3>3. ASSUME ScannerWake \/ ScannerAcquire \/ ScannerReclaim PROVE scanner' # "sleep"
      BY <3>3 DEF ScannerWake, ScannerAcquire, ScannerReclaim, DeleteHead
    <3>4. ASSUME SpuriousWake \/ Tick \/ Fill \/ Run \/ StartThreads \/ UNCHANGED vars
          PROVE  scanner' = scanner
      BY <3>4 DEF SpuriousWake, Tick, Fill, Run, StartThreads, vars
    <3> QED BY <3>1, <3>2, <3>3, <3>4 DEF Next, Step, ScannerStep
  <2>2. CASE ScannerStop
    <3>1. queue # <<>> /\ idle[Head(queue)] <= MaxIdle
      BY <2>2 DEF ScannerStop
    <3>2. ASSUME NEW i \in 1..Len(queue) PROVE idle[queue[i]] <= MaxIdle
      <4>1. Head(queue) = queue[1] /\ 1 \in 1..Len(queue) /\ Len(queue) \in Nat
        BY <3>1, ElemsTail, LenProperties
      <4>2. idle[queue[1]] >= idle[queue[i]]
        BY <4>1 DEF IdleOrder
      <4>3. idle[queue[i]] \in 0..MaxIdle + 1 /\ idle[queue[1]] \in 0..MaxIdle + 1
        BY <4>1, ElementOfSeq
      <4> QED BY <3>1, <4>1, <4>2, <4>3
    <3> QED BY <3>2 DEF Queued
  <2>3. CASE ScannerEmptyFront
    <3>1. Queued = {}
      BY <2>3, EmptySeq DEF ScannerEmptyFront, Queued
    <3> QED BY <3>1
  <2> QED BY <2>1, <2>2, <2>3
<1>2. Spec => [][Complete]_vars
  BY <1>1, InductiveInvariant, PTL DEF Spec
<1> QED BY <1>2 DEF ScanLeavesNoExpired

-----------------------------------------------------------------------------
(* The pool implements LendingPool.                                        *)

Asking == {c \in Clients : client[c] # "out"}

\* Steps that move no connection are invisible, unless a call begins or ends.
LEMMA QuietStep ==
  ASSUME TypeOK, [Next]_vars, UNCHANGED <<queue, held>>
  PROVE  \/ UNCHANGED <<Queued, held, Asking>>
         \/ \E c \in Clients : Lending!Ask(c) \/ Lending!Refuse(c)
<1> USE DEF TypeOK
<1>1. UNCHANGED Queued
  BY DEF Queued
<1>2. ASSUME NEW c \in Clients, Call(c) PROVE Lending!Ask(c)
  <2>1. Asking' = Asking \cup {c} /\ c \notin Asking
    BY <1>2 DEF Call, Asking
  <2> QED BY <1>1, <2>1 DEF Lending!Ask, Asking
<1>3. ASSUME NEW c \in Clients, Expire(c)
      PROVE  UNCHANGED <<Queued, held, Asking>> \/ Lending!Refuse(c)
  <2>1. CASE queue = <<>>
    <3>1. Queued = {}
      BY <2>1, EmptySeq DEF Queued
    <3>2. Asking' = Asking \ {c} /\ c \in Asking
      BY <1>3, <2>1 DEF Expire, Asking
    <3> QED BY <1>1, <3>1, <3>2 DEF Lending!Refuse, Asking
  <2>2. CASE queue # <<>>
    <3>1. Asking' = Asking
      BY <1>3, <2>2 DEF Expire, Asking
    <3> QED BY <1>1, <3>1
  <2> QED BY <2>1, <2>2
<1>4. ASSUME NEW c \in Clients, Acquire(c) \/ Wait(c) \/ Timeout(c) PROVE UNCHANGED Asking
  BY <1>4 DEF Acquire, Wait, Timeout, Asking
<1>5. ASSUME NEW c \in Clients, Take(c) PROVE FALSE
  BY <1>5, ElemsTail, LenProperties DEF Take, LendHead, NotifyAll
<1>6. ASSUME NEW c \in Clients, NEW k \in Conns, Return(c, k) PROVE FALSE
  BY <1>6, AppendProperties, LenProperties DEF Return, GiveBack, Refreshed
<1>7. CASE Fill \/ Run \/ StartThreads \/ Tick \/ UNCHANGED vars
  BY <1>1, <1>7 DEF Fill, Run, StartThreads, Tick, vars, Asking
<1>8. CASE ProducerAcquire \/ ProducerWait \/ ProducerConnect \/ ProducerFull
  BY <1>1, <1>8 DEF ProducerAcquire, ProducerWait, ProducerConnect, ProducerFull, Asking
<1>9. CASE ProducerCreate
  BY <1>1, <1>9 DEF ProducerCreate, WokenClients, Asking
<1>10. CASE ScannerWake \/ ScannerAcquire \/ ScannerReclaim \/ ScannerStop
  BY <1>1, <1>10 DEF ScannerWake, ScannerAcquire, ScannerReclaim, DeleteHead, ScannerStop, Asking
<1>11. CASE ScannerEmptyFront
  BY <1>1, <1>11 DEF ScannerEmptyFront, Asking
<1>12. CASE SpuriousWake
  BY <1>1, <1>12 DEF SpuriousWake, Asking
<1> QED
  BY <1>1, <1>2, <1>3, <1>4, <1>5, <1>6, <1>7, <1>8, <1>9, <1>10, <1>11, <1>12
  DEF Next, Step, ClientStep, ProducerStep, ScannerStep

\* What a push and a pop do to the set of queued connections.
LEMMA PushPop ==
  ASSUME TypeOK
  PROVE  /\ \A k \in Conns : queue' = Append(queue, k) => Queued' = Queued \cup {k}
         /\ queue # <<>> /\ queue' = Tail(queue) /\ Ownership
              => /\ Head(queue) \in Conns /\ Head(queue) \in Queued
                 /\ Queued' = Queued \ {Head(queue)}
<1>1. Queued = Elems(queue) /\ Queued' = Elems(queue')
  BY DEF Queued, Elems
<1>2. Ownership => Distinct(queue)
  BY DEF Ownership, Distinct
<1>3. ASSUME NEW k \in Conns, queue' = Append(queue, k) PROVE Queued' = Queued \cup {k}
  BY <1>1, <1>3, ElemsAppend DEF TypeOK
<1>4. ASSUME queue # <<>>, queue' = Tail(queue), Ownership
      PROVE  /\ Head(queue) \in Conns /\ Head(queue) \in Queued
             /\ Queued' = Queued \ {Head(queue)}
  <2>1. queue \in Seq(Conns)
    BY DEF TypeOK
  <2>2. /\ Head(queue) \in Conns /\ Elems(queue) = Elems(queue') \cup {Head(queue)}
        /\ Head(queue) \notin Elems(queue')
    BY <1>2, <1>4, <2>1, ElemsTail
  <2> QED BY <1>1, <2>2
<1> QED BY <1>3, <1>4

\* Every step of the pool is a step of the abstract specification or a stutter.
LEMMA StepRefines ==
  ASSUME Inductive, Inductive', [Next]_vars
  PROVE  [Lending!PoolNext]_(Lending!poolVars)
<1>1. /\ Lending!Members = Live
      /\ Lending!poolVars = <<Queued, held, Asking>>
      /\ Lending!Cardinality(Live) = Cardinality(Live)
  BY DEF Lending!Members, Lending!poolVars, Lending!Cardinality, Cardinality,
         Live, Lent, Asking
<1>2. TypeOK /\ Ownership /\ count = Cardinality(Live) /\ count' <= Limit
  BY DEF Inductive, SizeWithinLimits
<1>3. ASSUME NEW k \in Conns \ Live, NEW ok \in ConnectResults,
             CreateConnection(k, ok), UNCHANGED held, Fill \/ ProducerCreate
      PROVE  Lending!Grow(k)
  <2>1. Queued' = Queued \cup {k}
    BY <1>2, <1>3, PushPop DEF CreateConnection
  <2>2. Asking' = Asking
    BY <1>2, <1>3 DEF TypeOK, Fill, ProducerCreate, WokenClients, Asking
  <2>3. Cardinality(Live) < Limit
    BY <1>2, <1>3, SizesAssumption DEF TypeOK, CreateConnection, Limit
  <2> QED BY <1>1, <1>3, <2>1, <2>2, <2>3 DEF Lending!Grow, Asking
<1>4. ASSUME NEW c \in Clients, Take(c) PROVE \E k \in Conns : Lending!Lend(c, k)
  <2>1. PICK k \in Conns : k = Head(queue) /\ k \in Queued /\ Queued' = Queued \ {k}
    BY <1>2, <1>4, PushPop DEF Take, LendHead, NotifyAll
  <2>2. Asking' = Asking \ {c} /\ c \in Asking
    BY <1>2, <1>4 DEF TypeOK, Take, LendHead, NotifyAll, WokenClients, Asking
  <2>3. Lending!Lend(c, k)
    BY <1>4, <2>1, <2>2 DEF Lending!Lend, Take, LendHead, NotifyAll, Asking
  <2> QED BY <2>3
<1>5. ASSUME NEW c \in Clients, NEW k \in Conns, Return(c, k) PROVE Lending!Restore(c, k)
  <2>1. Queued' = Queued \cup {k}
    BY <1>2, <1>5, PushPop DEF Return, GiveBack, Refreshed
  <2>2. Asking' = Asking /\ c \notin Asking
    BY <1>5 DEF Return, GiveBack, Refreshed, Asking
  <2> QED BY <1>5, <2>1, <2>2 DEF Lending!Restore, Return, GiveBack, Refreshed, Asking
<1>6. ASSUME ScannerReclaim PROVE \E k \in Conns : Lending!Shrink(k)
  <2>1. PICK k \in Conns : k = Head(queue) /\ k \in Queued /\ Queued' = Queued \ {k}
    BY <1>2, <1>6, PushPop DEF ScannerReclaim, DeleteHead
  <2>2. Asking' = Asking
    BY <1>6 DEF ScannerReclaim, DeleteHead, Asking
  <2>3. Cardinality(Live) > InitSize
    BY <1>2, <1>6 DEF ScannerReclaim, DeleteHead
  <2>4. Lending!Shrink(k)
    BY <1>1, <1>6, <2>1, <2>2, <2>3 DEF Lending!Shrink, ScannerReclaim, DeleteHead, Asking
  <2> QED BY <2>4
<1>7. ASSUME UNCHANGED <<queue, held>> PROVE [Lending!PoolNext]_(Lending!poolVars)
  <2>1. \/ UNCHANGED <<Queued, held, Asking>>
        \/ \E c \in Clients : Lending!Ask(c) \/ Lending!Refuse(c)
    BY <1>2, <1>7, QuietStep
  <2>2. CASE UNCHANGED <<Queued, held, Asking>>
    BY <1>1, <2>2 DEF Asking, Lending!poolVars
  <2>3. CASE \E c \in Clients : Lending!Ask(c) \/ Lending!Refuse(c)
    BY <2>3 DEF Lending!PoolNext
  <2> QED BY <2>1, <2>2, <2>3
<1>8. CASE \E k \in Conns \ Live, ok \in ConnectResults :
             CreateConnection(k, ok) /\ UNCHANGED held /\ (Fill \/ ProducerCreate)
  BY <1>3, <1>8 DEF Lending!PoolNext
<1>9. CASE \E c \in Clients : Take(c)
  BY <1>4, <1>9 DEF Lending!PoolNext
<1>10. CASE \E c \in Clients, k \in Conns : Return(c, k)
  BY <1>5, <1>10 DEF Lending!PoolNext
<1>11. CASE ScannerReclaim
  BY <1>6, <1>11 DEF Lending!PoolNext
<1>12. CASE UNCHANGED <<queue, held, count>>
  BY <1>7, <1>12
<1> QED BY <1>8, <1>9, <1>10, <1>11, <1>12, DataStep

\* The pool implements the lending pool: one borrower for each connection, a
\* refusal only while nothing is queued, a size between initSize and the limit.
THEOREM ImplementsLendingPool == Spec => LendingSpec
<1>1. Init => Lending!PoolInit
  <2> SUFFICES ASSUME Init PROVE Lending!PoolInit
    OBVIOUS
  <2>1. Queued = {}
    BY EmptySeq DEF Init, Queued
  <2> QED BY <2>1 DEF Init, Lending!PoolInit
<1>2. Inductive /\ Inductive' /\ [Next]_vars => [Lending!PoolNext]_(Lending!poolVars)
  BY StepRefines
<1> QED BY <1>1, <1>2, InductiveInvariant, PTL DEF Spec, LendingSpec, Lending!PoolSpec
=============================================================================
