--------------------------- MODULE ConnectionPool ---------------------------
(***************************************************************************)
(* The MySQL connection pool of mysql-connection-poll/: the threads that   *)
(* call getConnection, the detached producer and scanner threads, and the  *)
(* deleter that puts a connection back.  All of them share one mutex, one  *)
(* condition variable and one FIFO of idle connections.                    *)
(*                                                                         *)
(* A stretch of code that runs under the mutex without waiting is one      *)
(* step; the producer's network connect, which keeps the mutex, is two.    *)
(***************************************************************************)
EXTENDS Integers, Sequences, FiniteSets

CONSTANTS
  Clients,          \* threads that call getConnection
  Conns,            \* what `new Connection' may return; reused after delete
  InitSize,         \* initSize: the size run() fills the pool to
  MaxSize,          \* maxSize: the size the producer stops at
  MaxIdle,          \* maxIdleTime, in ticks of clock()
  ConnectResults,   \* what Connection::connect may return
  SpuriousWakeups   \* whether a wait may end without a notification

Limit == IF InitSize > MaxSize THEN InitSize ELSE MaxSize
Threads == Clients \cup {"producer", "scanner"}

ASSUME ClientsAssumption == Clients \cap {"producer", "scanner", "free"} = {}
ASSUME SizesAssumption == /\ InitSize \in Nat
                          /\ MaxSize \in Nat
                          /\ MaxIdle \in Nat
\* operator new does not run out of memory below the pool's limit.
ASSUME ConnsAssumption == IsFiniteSet(Conns) /\ Cardinality(Conns) >= Limit
ASSUME ResultsAssumption == /\ ConnectResults \subseteq BOOLEAN /\ ConnectResults # {}
                            /\ SpuriousWakeups \in BOOLEAN

VARIABLES
  stage,      \* "setup", "filling" or "running": how far run() has come
  error,      \* d->error: "none", "init" or "timeout"
  mutex,      \* the thread that owns d->mutex, or "free"
  queue,      \* connectionQueue
  count,      \* connectionCount
  held,       \* held[c]: connections whose last shared_ptr client c owns
  idle,       \* idle[k]: ticks since refreshAliveTime, cut off past MaxIdle
  usable,     \* usable[k]: what connect returned for k
  client,     \* client[c]: where thread c is in getConnection
  producer,   \* where produceConnectionTask is
  scanner,    \* where scannerConnectionTask is
  undefined   \* TRUE once the process has executed undefined behaviour

vars == <<stage, error, mutex, queue, count, held, idle, usable,
          client, producer, scanner, undefined>>

Queued == {queue[i] : i \in 1..Len(queue)}
Lent == UNION {held[c] : c \in Clients}
Live == Queued \cup Lent

Init ==
  /\ stage = "setup" /\ error = "none" /\ mutex = "free"
  /\ queue = <<>> /\ count = 0
  /\ held = [c \in Clients |-> {}]
  /\ idle = [k \in Conns |-> 0]
  /\ usable = [k \in Conns |-> TRUE]
  /\ client = [c \in Clients |-> "out"]
  /\ producer = "lock" /\ scanner = "sleep"
  /\ undefined = FALSE

-----------------------------------------------------------------------------
(* Helpers shared by the threads.                                          *)

\* notify_all: every thread that waits on cond contends for the mutex again.
WokenClients == [c \in Clients |-> IF client[c] = "wait" THEN "woken" ELSE client[c]]
WokenProducer == IF producer = "wait" THEN "woken" ELSE producer

\* createConnection: the result of connect is not looked at.
CreateConnection(k, ok) ==
  /\ usable' = [usable EXCEPT ![k] = ok]
  /\ idle' = [idle EXCEPT ![k] = 0]
  /\ queue' = Append(queue, k)
  /\ count' = count + 1

-----------------------------------------------------------------------------
(* run(): the fields are checked, the pool is filled without the mutex     *)
(* while no other thread knows of it, and the two threads are detached.    *)

Run ==
  /\ stage = "setup"
  /\ \/ stage' = "setup" /\ error' = "init"   \* one of the four fields is empty
     \/ stage' = "filling" /\ UNCHANGED error
  /\ UNCHANGED <<mutex, queue, count, held, idle, usable,
                 client, producer, scanner, undefined>>

Fill ==
  /\ stage = "filling"
  /\ count < InitSize
  /\ \E k \in Conns \ Live, ok \in ConnectResults : CreateConnection(k, ok)
  /\ UNCHANGED <<stage, error, mutex, held, client, producer, scanner, undefined>>

StartThreads ==
  /\ stage = "filling"
  /\ count >= InitSize
  /\ stage' = "running"
  /\ UNCHANGED <<error, mutex, queue, count, held, idle, usable,
                 client, producer, scanner, undefined>>

-----------------------------------------------------------------------------
(* getConnection and testConnectionPoolHasConnection.                      *)

Call(c) ==
  /\ stage = "running"
  /\ client[c] = "out"
  /\ client' = [client EXCEPT ![c] = "lock"]
  /\ UNCHANGED <<stage, error, mutex, queue, count, held, idle, usable,
                 producer, scanner, undefined>>

Acquire(c) ==
  /\ client[c] \in {"lock", "woken"}
  /\ mutex = "free"
  /\ mutex' = c
  /\ client' = [client EXCEPT ![c] = "test"]
  /\ UNCHANGED <<stage, error, queue, count, held, idle, usable,
                 producer, scanner, undefined>>

Wait(c) ==
  /\ client[c] = "test"
  /\ queue = <<>>
  /\ mutex' = "free"
  /\ client' = [client EXCEPT ![c] = "wait"]
  /\ UNCHANGED <<stage, error, queue, count, held, idle, usable,
                 producer, scanner, undefined>>

\* Mutation: wait instead of wait_for.
NoTimeout(c) == FALSE

\* A notified thread that gets the mutex late also reports cv_status::timeout.
Timeout(c) ==
  /\ client[c] \in {"wait", "woken"}
  /\ client' = [client EXCEPT ![c] = "expired"]
  /\ UNCHANGED <<stage, error, mutex, queue, count, held, idle, usable,
                 producer, scanner, undefined>>

\* Mutation: nullptr without a second look at the queue.
ExpireUnchecked(c) ==
  /\ client[c] = "expired"
  /\ mutex = "free"
  /\ error' = "timeout"
  /\ client' = [client EXCEPT ![c] = "out"]
  /\ UNCHANGED <<stage, mutex, queue, count, held, idle, usable,
                 producer, scanner, undefined>>

\* The thread has the mutex again: nullptr if the queue is still empty,
\* otherwise the loop test, which now succeeds.
Expire(c) ==
  /\ client[c] = "expired"
  /\ mutex = "free"
  /\ IF queue = <<>>
       THEN /\ error' = "timeout"
            /\ client' = [client EXCEPT ![c] = "out"]
            /\ UNCHANGED mutex
       ELSE /\ mutex' = c
            /\ client' = [client EXCEPT ![c] = "test"]
            /\ UNCHANGED error
  /\ UNCHANGED <<stage, queue, count, held, idle, usable,
                 producer, scanner, undefined>>

\* The head of the queue goes to c, and the mutex is given up.
LendHead(c) ==
  /\ client[c] = "test"
  /\ queue # <<>>
  /\ held' = [held EXCEPT ![c] = @ \cup {Head(queue)}]
  /\ mutex' = "free"
  /\ UNCHANGED <<stage, error, count, idle, usable, scanner, undefined>>

NotifyAll(c) == /\ client' = [WokenClients EXCEPT ![c] = "out"]
                /\ producer' = WokenProducer

\* Mutation: no queue.pop().
TakeWithoutPop(c) == LendHead(c) /\ NotifyAll(c) /\ UNCHANGED queue

\* Mutation: no notify_all.
TakeSilently(c) ==
  /\ LendHead(c) /\ queue' = Tail(queue)
  /\ client' = [client EXCEPT ![c] = "out"] /\ UNCHANGED producer

Take(c) == LendHead(c) /\ NotifyAll(c) /\ queue' = Tail(queue)

\* c drops its last shared_ptr of k, and the deleter gets the mutex.
GiveBack(c, k) ==
  /\ client[c] = "out"
  /\ k \in held[c]
  /\ mutex = "free"
  /\ held' = [held EXCEPT ![c] = @ \ {k}]
  /\ UNCHANGED <<stage, error, mutex, usable, client, producer, scanner, undefined>>

Refreshed(k) == [idle EXCEPT ![k] = 0]

\* Mutation: the deleter gives up the connection's place in connectionCount.
ReturnUncounted(c, k) == /\ GiveBack(c, k) /\ queue' = Append(queue, k)
                         /\ idle' = Refreshed(k) /\ count' = count - 1

\* Mutation: the connection keeps the time stamp it was lent with.
ReturnUnrefreshed(c, k) == /\ GiveBack(c, k) /\ queue' = Append(queue, k)
                           /\ UNCHANGED <<idle, count>>

\* Mutation: the connection that comes back is the next one to be lent.
ReturnToFront(c, k) == /\ GiveBack(c, k) /\ queue' = <<k>> \o queue
                       /\ idle' = Refreshed(k) /\ UNCHANGED count

\* The deleter of the shared_ptr: it notifies nobody.
Return(c, k) == /\ GiveBack(c, k) /\ queue' = Append(queue, k)
                /\ idle' = Refreshed(k) /\ UNCHANGED count

SpuriousWake ==
  /\ SpuriousWakeups
  /\ \/ \E c \in Clients : /\ client[c] = "wait"
                           /\ client' = [client EXCEPT ![c] = "woken"]
                           /\ UNCHANGED producer
     \/ producer = "wait" /\ producer' = "woken" /\ UNCHANGED client
  /\ UNCHANGED <<stage, error, mutex, queue, count, held, idle, usable,
                 scanner, undefined>>

-----------------------------------------------------------------------------
(* produceConnectionTask.                                                  *)

ProducerAcquire ==
  /\ stage = "running"
  /\ producer \in {"lock", "woken"}
  /\ mutex = "free"
  /\ mutex' = "producer"
  /\ producer' = "test"
  /\ UNCHANGED <<stage, error, queue, count, held, idle, usable,
                 client, scanner, undefined>>

ProducerWait ==
  /\ producer = "test"
  /\ queue # <<>>
  /\ producer' = "wait"
  /\ mutex' = "free"
  /\ UNCHANGED <<stage, error, queue, count, held, idle, usable,
                 client, scanner, undefined>>

\* mysql_real_connect starts; the mutex is kept until it returns.
ProducerConnect ==
  /\ producer = "test"
  /\ queue = <<>>
  /\ count < MaxSize
  /\ producer' = "connect"
  /\ UNCHANGED <<stage, error, mutex, queue, count, held, idle, usable,
                 client, scanner, undefined>>

ProducerCreate ==
  /\ producer = "connect"
  /\ \E k \in Conns \ Live, ok \in ConnectResults : CreateConnection(k, ok)
  /\ client' = WokenClients
  /\ producer' = "lock"
  /\ mutex' = "free"
  /\ UNCHANGED <<stage, error, held, scanner, undefined>>

\* At maxSize the loop goes round without waiting.
ProducerFull ==
  /\ producer = "test"
  /\ queue = <<>>
  /\ count >= MaxSize
  /\ producer' = "lock"
  /\ mutex' = "free"
  /\ UNCHANGED <<stage, error, queue, count, held, idle, usable,
                 client, scanner, undefined>>

-----------------------------------------------------------------------------
(* scannerConnectionTask.                                                  *)

ScannerWake ==
  /\ stage = "running"
  /\ scanner = "sleep"
  /\ scanner' = "lock"
  /\ UNCHANGED <<stage, error, mutex, queue, count, held, idle, usable,
                 client, producer, undefined>>

ScannerAcquire ==
  /\ scanner = "lock"
  /\ mutex = "free"
  /\ mutex' = "scanner"
  /\ scanner' = "scan"
  /\ UNCHANGED <<stage, error, queue, count, held, idle, usable,
                 client, producer, undefined>>

DeleteHead ==
  /\ scanner = "scan"
  /\ queue # <<>>
  /\ idle[Head(queue)] > MaxIdle
  /\ queue' = Tail(queue)
  /\ count' = count - 1
  /\ UNCHANGED <<stage, error, mutex, held, idle, usable,
                 client, producer, scanner, undefined>>

\* Mutation: >= instead of > in the test against initSize.
ReclaimPastLimit == count >= InitSize /\ DeleteHead

ScannerReclaim == count > InitSize /\ DeleteHead

ScannerStop ==
  /\ scanner = "scan"
  /\ \/ count <= InitSize
     \/ queue # <<>> /\ idle[Head(queue)] <= MaxIdle
  /\ scanner' = "sleep"
  /\ mutex' = "free"
  /\ UNCHANGED <<stage, error, queue, count, held, idle, usable,
                 client, producer, undefined>>

\* front() of an empty queue is undefined.  Built with libstdc++ it reads a
\* stale slot of the deque: what is there may look fresh, which ends the scan,
\* or the process faults or corrupts the queue, which ends the model.
ScannerEmptyFront ==
  /\ scanner = "scan"
  /\ count > InitSize
  /\ queue = <<>>
  /\ \/ scanner' = "sleep" /\ mutex' = "free" /\ UNCHANGED undefined
     \/ undefined' = TRUE /\ UNCHANGED <<scanner, mutex>>
  /\ UNCHANGED <<stage, error, queue, count, held, idle, usable, client, producer>>

\* clock() advances.  It counts the processor time of the process and is
\* unrelated to the wall clock behind sleep_for and wait_for.  Only the age of
\* queued connections is ever read.
Tick ==
  /\ stage = "running"
  /\ \E k \in Queued : idle[k] <= MaxIdle
  /\ idle' = [k \in Conns |-> IF k \in Queued /\ idle[k] <= MaxIdle
                                THEN idle[k] + 1 ELSE idle[k]]
  /\ UNCHANGED <<stage, error, mutex, queue, count, held, usable,
                 client, producer, scanner, undefined>>

-----------------------------------------------------------------------------

ClientStep(c) ==
  \/ Call(c) \/ Acquire(c) \/ Wait(c) \/ Timeout(c) \/ Expire(c) \/ Take(c)
  \/ \E k \in Conns : Return(c, k)

ProducerStep == ProducerWait \/ ProducerConnect \/ ProducerCreate \/ ProducerFull

ScannerStep == ScannerReclaim \/ ScannerStop \/ ScannerEmptyFront

Step ==
  \/ Run \/ Fill \/ StartThreads
  \/ \E c \in Clients : ClientStep(c)
  \/ ProducerAcquire \/ ProducerStep
  \/ ScannerWake \/ ScannerAcquire \/ ScannerStep
  \/ SpuriousWake \/ Tick

\* Nothing is said of the process after undefined behaviour.
Next == \/ ~undefined /\ Step
        \/ undefined /\ UNCHANGED vars

Spec == Init /\ [][Next]_vars

(***************************************************************************)
(* The scheduler runs every thread that can run, and a thread that waits   *)
(* for the mutex gets it if it is free again and again (std::mutex hands   *)
(* over to waiters with probability one, not in FIFO order).  A wait_for   *)
(* and a sleep_for end, and a connect returns.  Nothing makes a client     *)
(* call, give a connection back, or be woken without a notification.       *)
(***************************************************************************)
ClientFairness(c) ==
  /\ SF_vars(~undefined /\ Acquire(c))
  /\ SF_vars(~undefined /\ Expire(c))
  /\ WF_vars(~undefined /\ (Wait(c) \/ Take(c)))
  /\ WF_vars(~undefined /\ Timeout(c))

Fairness ==
  /\ WF_vars(~undefined /\ (Fill \/ StartThreads))
  /\ \A c \in Clients : ClientFairness(c)
  /\ SF_vars(~undefined /\ ProducerAcquire) /\ WF_vars(~undefined /\ ProducerStep)
  /\ WF_vars(~undefined /\ ScannerWake)
  /\ SF_vars(~undefined /\ ScannerAcquire) /\ WF_vars(~undefined /\ ScannerStep)

FairSpec == Spec /\ Fairness

-----------------------------------------------------------------------------
(* Invariants.                                                             *)

\* Every variable stays in its range.
TypeOK ==
  /\ stage \in {"setup", "filling", "running"}
  /\ error \in {"none", "init", "timeout"}
  /\ mutex \in Threads \cup {"free"}
  /\ queue \in Seq(Conns)
  /\ count \in Nat
  /\ held \in [Clients -> SUBSET Conns]
  /\ idle \in [Conns -> 0..MaxIdle + 1]
  /\ usable \in [Conns -> BOOLEAN]
  /\ client \in [Clients -> {"out", "lock", "test", "wait", "woken", "expired"}]
  /\ producer \in {"lock", "test", "connect", "wait", "woken"}
  /\ scanner \in {"sleep", "lock", "scan"}
  /\ undefined \in BOOLEAN

\* Between getConnection, the deleter, the producer and the scanner, a
\* connection is in one place: once in the queue, or with one client.
Ownership ==
  /\ \A i, j \in 1..Len(queue) : queue[i] = queue[j] => i = j
  /\ Queued \cap Lent = {}
  /\ \A c, d \in Clients : c # d => held[c] \cap held[d] = {}

\* connectionCount is the number of connections that exist, and from the end of
\* run() on it never leaves initSize..max(initSize, maxSize).
SizeWithinLimits ==
  /\ count = Cardinality(Live)
  /\ count <= Limit
  /\ stage = "running" => count >= InitSize

\* connectionpool.cpp:172: when the head of the queue has not expired, no other
\* connection has: ages never increase from the head to the tail.
IdleOrder == \A i, j \in 1..Len(queue) : i < j => idle[queue[i]] >= idle[queue[j]]

\* Who is in its critical section owns the mutex, and nobody else.
CriticalSections ==
  /\ \A c \in Clients : client[c] = "test" <=> mutex = c
  /\ producer \in {"test", "connect"} <=> mutex = "producer"
  /\ scanner = "scan" <=> mutex = "scanner"

\* Until run() detaches them, no other thread has done anything.
BeforeRunning ==
  /\ stage # "running" => /\ mutex = "free" /\ producer = "lock" /\ scanner = "sleep"
                         /\ \A c \in Clients : client[c] = "out" /\ held[c] = {}
  /\ stage = "setup" => queue = <<>>
  /\ stage = "filling" => count <= InitSize

\* What getConnection, the deleter and the two threads rely on together: the
\* strengthening of the invariants above that every step preserves.  It adds
\* what the threads know inside the mutex, the producer's test against maxSize
\* above all, which must still hold when connect returns.
Inductive ==
  /\ TypeOK /\ Ownership /\ SizeWithinLimits /\ IdleOrder
  /\ CriticalSections /\ BeforeRunning
  /\ producer = "connect" => count < MaxSize

-----------------------------------------------------------------------------
(* Action properties.                                                      *)

\* A scan that ends leaves no expired connection in the queue, unless the pool
\* is down to initSize.
ScanLeavesNoExpired ==
  [][scanner = "scan" /\ scanner' = "sleep" /\ count > InitSize =>
       \A k \in Queued : idle[k] <= MaxIdle]_vars

-----------------------------------------------------------------------------
(* A state predicate that a comment of the code states.                    *)

\* connectionpool.cpp:162: looking at the head of the queue is all the scanner
\* has to do, so there is a head whenever it looks.
ScannerHeadExists == scanner = "scan" /\ count > InitSize => queue # <<>>

-----------------------------------------------------------------------------
(* Liveness.                                                               *)

\* connectionpool.cpp:29: a call ends, at the latest when its time is up.
CallReturns == \A c \in Clients : client[c] = "lock" ~> (client[c] = "out" \/ undefined)

\* A call that does not end is woken again and again; nothing else keeps it.
NeverStuck ==
  \A c \in Clients : []<>(client[c] \in {"out", "woken"} \/ undefined)

\* connectionpool.cpp:107: an empty queue below maxSize makes the producer
\* create a connection (or one comes back first).
Exhausted == stage = "running" /\ queue = <<>> /\ count < MaxSize
ExhaustedPoolGrows == Exhausted ~> (~Exhausted \/ undefined)

\* The notification of getConnection is enough for that as long as no connection
\* expires, so that only clients empty the queue.
GrowsWhileYoung == [](\A k \in Conns : idle[k] <= MaxIdle) => ExhaustedPoolGrows

-----------------------------------------------------------------------------
(* Every step of the pool is a step of the abstract lending pool.          *)

Lending == INSTANCE LendingPool
             WITH available <- Queued, lent <- held,
                  asking <- {c \in Clients : client[c] # "out"},
                  Low <- InitSize, High <- Limit

LendingSpec == Lending!PoolSpec
=============================================================================
