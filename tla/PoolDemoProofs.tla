--------------------------- MODULE PoolDemoProofs ---------------------------
(***************************************************************************)
(* For every initSize of at least one, every maxSize, idle time and number *)
(* of iterations, the demo's query runs on a connection that is in the     *)
(* queue.                                                                  *)
(***************************************************************************)
EXTENDS PoolDemo, ConnectionPoolProofs

\* The demo uses the pool in ways the pool allows.
LEMMA DemoUsesPool == TypeOK /\ [DemoNext]_<<vars, demoVars>> => [Next]_vars
<1> SUFFICES ASSUME TypeOK, [DemoNext]_<<vars, demoVars>> PROVE [Next]_vars
  OBVIOUS
<1> USE DemoAssumption
<1>0. Main \in Clients
  OBVIOUS
<1>1. ASSUME MainStep, ~undefined PROVE [Next]_vars
  <2>1. CASE Prepare
    BY <1>1, <2>1 DEF Prepare, Next, Step
  <2>2. CASE Ask
    BY <1>0, <1>1, <2>2 DEF Ask, Next, Step, ClientStep
  <2>3. CASE Await
    BY <1>0, <1>1, <2>3 DEF Await, Next, Step, ClientStep
  <2>4. CASE Get
    BY <1>0, <1>1, <2>4 DEF Get, Next, Step, ClientStep
  <2>5. CASE Drop
    <3>1. db \in Conns /\ Return(Main, db)
      BY <1>0, <2>5 DEF Drop, Return, GiveBack, TypeOK
    <3> QED BY <1>0, <1>1, <3>1 DEF Next, Step, ClientStep
  <2>6. CASE Query \/ Exit
    BY <2>6 DEF Query, Exit, vars
  <2> QED BY <1>1, <2>1, <2>2, <2>3, <2>4, <2>5, <2>6 DEF MainStep
<1>2. ASSUME Background, ~undefined PROVE [Next]_vars
  BY <1>2 DEF Background, Next, Step
<1> QED BY <1>1, <1>2 DEF DemoNext, Over, vars

\* What holds beside the pool's own invariant: main holds a connection only
\* between getConnection and the end of the block, never sleeps in the pool, and
\* has its connection at the tail of the queue while the query runs; nobody can
\* push another one, as the producer finds the queue empty before it connects.
DemoInv ==
  /\ at \in {"start", "loop", "get", "drop", "query", "exited"}
  /\ stage # "running" => at = "start"
  /\ held[Main] = IF at = "drop" THEN {db} ELSE {}
  /\ client[Main] \in IF at = "get" THEN {"lock", "test"} ELSE {"out"}
  /\ producer = "connect" => queue = <<>>
  /\ at = "query" => queue # <<>> /\ db = queue[Len(queue)]

LEMMA InitDemoInv == DemoInit => DemoInv
  BY DemoAssumption DEF DemoInit, Init, DemoInv

\* While main holds nothing every connection is in the queue, and there are at
\* least as many as run() has made.
LEMMA AllQueued ==
  ASSUME Inductive, DemoInv, stage = "running", at # "drop"
  PROVE  /\ queue # <<>>
         /\ count > InitSize => Len(queue) > 1
<1> USE DemoAssumption, SizesAssumption
<1>1. Live = Queued
  BY DEF Live, Lent, DemoInv
<1>2. queue \in Seq(Conns) /\ Len(queue) \in Nat
  BY LenProperties DEF Inductive, TypeOK
<1>3. count = Cardinality(Queued) /\ count >= InitSize /\ count \in Nat
  BY <1>1 DEF Inductive, SizeWithinLimits, TypeOK
<1>4. queue # <<>>
  <2>1. SUFFICES ASSUME queue = <<>> PROVE FALSE
    OBVIOUS
  <2>2. Queued = {}
    BY <2>1, EmptySeq DEF Queued
  <2> QED BY <1>3, <2>2, FS_EmptySet
<1>5. ASSUME count > InitSize, ~(Len(queue) > 1) PROVE FALSE
  <2>1. Len(queue) # 0
    BY <1>2, <1>4, EmptySeq
  <2>2. Len(queue) = 1
    <3>1. \A n \in Nat : n # 0 /\ ~(n > 1) => n = 1
      OBVIOUS
    <3> QED BY <1>2, <1>5, <2>1, <3>1
  <2>3. Queued = {queue[1]}
    BY <2>2 DEF Queued
  <2>4. Cardinality(Queued) = 1
    BY <2>3, FS_Singleton
  <2> QED BY <1>3, <1>5, <2>4
<1> QED BY <1>2, <1>4, <1>5

\* Neither a sleep in the pool nor an answer of nullptr is in reach of main.
LEMMA MainNeverWaits ==
  ASSUME Inductive, DemoInv
  PROVE  ~Wait(Main) /\ ~Timeout(Main) /\ ~Expire(Main)
<1>1. ~Timeout(Main) /\ ~Expire(Main)
  BY DEF DemoInv, Timeout, Expire
<1>2. ASSUME Wait(Main) PROVE FALSE
  <2>1. at = "get" /\ queue = <<>>
    BY <1>2 DEF Wait, DemoInv
  <2>2. stage = "running"
    BY <2>1 DEF DemoInv
  <2> QED BY <2>1, <2>2, AllQueued
<1> QED BY <1>1, <1>2

LEMMA MainKeepsDemoInv ==
  ASSUME Inductive, DemoInv, MainStep
  PROVE  DemoInv'
<1> USE DemoAssumption DEF DemoInv
<1>0. Main \in Clients /\ held \in [Clients -> SUBSET Conns] /\ queue \in Seq(Conns)
      /\ client \in [Clients -> {"out", "lock", "test", "wait", "woken", "expired"}]
  BY DEF Inductive, TypeOK
<1>1. CASE Prepare
  <2>1. CASE Run
    BY <1>1, <2>1 DEF Prepare, Run, Fill, StartThreads
  <2>2. CASE Fill
    BY <1>1, <2>2 DEF Prepare, Run, Fill, StartThreads, Inductive, BeforeRunning
  <2>3. CASE StartThreads
    BY <1>1, <2>3 DEF Prepare, StartThreads
  <2> QED BY <1>1, <2>1, <2>2, <2>3 DEF Prepare
<1>2. CASE Ask
  BY <1>0, <1>2 DEF Ask, Call
<1>3. CASE Await
  <2>1. Acquire(Main) /\ UNCHANGED demoVars
    BY <1>3, MainNeverWaits DEF Await
  <2> QED BY <1>0, <2>1 DEF Acquire, demoVars
<1>4. CASE Get
  BY <1>0, <1>4 DEF Get, Take, LendHead, NotifyAll, WokenClients, WokenProducer, Inductive, CriticalSections
<1>5. CASE Drop
  <2>1. db \in Conns /\ Return(Main, db) /\ at' = "query" /\ db' = db
    BY <1>0, <1>5 DEF Drop
  <2>2. queue' = Append(queue, db) /\ queue' # <<>> /\ queue'[Len(queue')] = db
    BY <1>0, <2>1, AppendProperties, EmptySeq DEF Return
  <2>3. producer' # "connect"
    BY <2>1 DEF Return, GiveBack, Inductive, CriticalSections
  <2> QED BY <1>0, <1>5, <2>1, <2>2, <2>3 DEF Return, GiveBack, Drop
<1>6. CASE Query \/ Exit
  BY <1>6 DEF Query, Exit, vars
<1> QED BY <1>1, <1>2, <1>3, <1>4, <1>5, <1>6 DEF MainStep

LEMMA BackgroundKeepsDemoInv ==
  ASSUME Inductive, DemoInv, Background
  PROVE  DemoInv'
<1> USE DemoAssumption DEF DemoInv
<1>0. /\ Main \in Clients /\ queue \in Seq(Conns) /\ UNCHANGED <<at, db, round>>
      /\ client \in [Clients -> {"out", "lock", "test", "wait", "woken", "expired"}]
  BY DEF Inductive, TypeOK, Background, demoVars
<1>1. CASE ProducerAcquire \/ ProducerWait \/ ProducerConnect \/ ProducerFull
  BY <1>0, <1>1 DEF ProducerAcquire, ProducerWait, ProducerConnect, ProducerFull
<1>2. CASE ProducerCreate
  BY <1>0, <1>2 DEF ProducerCreate, CreateConnection, WokenClients
<1>3. CASE ScannerWake \/ ScannerAcquire \/ ScannerStop \/ ScannerEmptyFront
  BY <1>0, <1>3 DEF ScannerWake, ScannerAcquire, ScannerStop, ScannerEmptyFront
<1>4. CASE ScannerReclaim
  <2>1. /\ queue # <<>> /\ queue' = Tail(queue) /\ scanner = "scan" /\ count > InitSize
        /\ UNCHANGED <<stage, held, client, producer>>
    BY <1>4 DEF ScannerReclaim, DeleteHead
  <2>2. producer # "connect"
    BY <2>1 DEF Inductive, CriticalSections
  <2>3. ASSUME at = "query" PROVE queue' # <<>> /\ queue'[Len(queue')] = queue[Len(queue)]
    <3>1. stage = "running" /\ Len(queue) > 1
      BY <2>1, <2>3, AllQueued
    <3>2. Len(queue') = Len(queue) - 1 /\ \A i \in 1..Len(queue') : queue'[i] = queue[i + 1]
      BY <1>0, <2>1, ElemsTail
    <3>3. Len(queue) \in Nat
      BY <1>0, LenProperties
    <3> QED BY <3>1, <3>2, <3>3, EmptySeq
  <2> QED BY <1>0, <2>1, <2>2, <2>3
<1>5. CASE SpuriousWake \/ Tick
  BY <1>0, <1>5 DEF SpuriousWake, Tick
<1> QED
  BY <1>1, <1>2, <1>3, <1>4, <1>5 DEF Background, ProducerStep, ScannerStep

LEMMA NextDemoInv ==
  Inductive /\ DemoInv /\ [DemoNext]_<<vars, demoVars>> => DemoInv'
<1> SUFFICES ASSUME Inductive, DemoInv, [DemoNext]_<<vars, demoVars>> PROVE DemoInv'
  OBVIOUS
<1>1. CASE UNCHANGED <<vars, demoVars>>
  BY <1>1 DEF DemoInv, vars, demoVars
<1>2. CASE MainStep \/ Background
  BY <1>2, MainKeepsDemoInv, BackgroundKeepsDemoInv
<1> QED BY <1>1, <1>2 DEF DemoNext

\* test-connection-poll.cpp:83-86: getConnection never answers with nullptr, and
\* the connection a query runs on is in the queue until the query is over, for all
\* sizes, idle times and timings.
THEOREM QueriesAreSafe == DemoSpec => []QueriesLiveConnection
<1>1. DemoInit => Inductive
  BY InitInductive DEF DemoInit
<1>2. Inductive /\ [DemoNext]_<<vars, demoVars>> => Inductive'
  BY DemoUsesPool, NextInductive DEF Inductive
<1>3. Inductive /\ DemoInv => QueriesLiveConnection
  <2> SUFFICES ASSUME Inductive, DemoInv PROVE QueriesLiveConnection
    OBVIOUS
  <2>1. ~Refused
    BY DEF DemoInv, Refused
  <2>2. ASSUME at = "query" PROVE db \in Queued
    <3>1. queue \in Seq(Conns) /\ queue # <<>> /\ db = queue[Len(queue)]
      BY <2>2 DEF DemoInv, Inductive, TypeOK
    <3>2. Len(queue) \in 1..Len(queue)
      BY <3>1, LenProperties, EmptySeq
    <3> QED BY <3>1, <3>2 DEF Queued
  <2> QED BY <2>1, <2>2 DEF QueriesLiveConnection
<1> QED BY <1>1, <1>2, <1>3, InitDemoInv, NextDemoInv, PTL DEF DemoSpec
=============================================================================
