----------------------------- MODULE ThreadPool -----------------------------
(***************************************************************************)
(* The thread pool of thread-poll.c: a LIFO list of tasks under one mutex  *)
(* and one condition variable, workers that run threadCallback, and the    *)
(* thread that owns the pool, which creates it, pushes tasks and destroys  *)
(* it (main is the only thread that has the pool's address).               *)
(*                                                                         *)
(* destroyThreadPool writes `terminate' and `task' without the mutex, so   *)
(* every read of the two by a worker is a step of its own.                 *)
(***************************************************************************)
EXTENDS Integers, Sequences, FiniteSets

CONSTANTS
  Workers,          \* threads that pthread_create may start
  Tasks,            \* tasks that may be pushed, each of them once
  ThreadNum,        \* threadNum
  SpuriousWakeups   \* whether pthread_cond_wait may return by itself

Wanted == IF ThreadNum < 1 THEN 1 ELSE ThreadNum

ASSUME WorkersAssumption == "free" \notin Workers
ASSUME ThreadNumAssumption == ThreadNum \in Int
ASSUME EnoughWorkers == IsFiniteSet(Workers) /\ Cardinality(Workers) >= Wanted
ASSUME WakeupsAssumption == SpuriousWakeups \in BOOLEAN

VARIABLES
  owner,      \* where the owner is between its calls, or in one
  pc,         \* pc[w]: where worker w is in threadCallback
  mutex,      \* the worker that owns the mutex, or "free"
  tasks,      \* the list threadPool->task, first element first
  terminate,  \* threadPool->terminate
  running,    \* running[w]: the task w has taken off the list, as a set
  done,       \* tasks whose callback has returned
  undefined   \* TRUE once freed memory or a null pointer has been used

vars == <<owner, pc, mutex, tasks, terminate, running, done, undefined>>

Listed == {tasks[i] : i \in 1..Len(tasks)}
Taken == UNION {running[w] : w \in Workers}
Waiting == {w \in Workers : pc[w] = "wait"}
\* Awake and bound for the list.
Coming == {w \in Workers : pc[w] \in {"lock", "woken", "test", "check", "recheck", "pop"}}
Holding == {w \in Workers : pc[w] \in {"test", "check", "drowsy", "recheck", "pop"}}
\* destroyThreadPool has given the mutex up.
Closed == owner \in {"clearing", "destroyed"}
ThreadsStarted == {w \in Workers : pc[w] # "none"}

Init ==
  /\ owner = "create" /\ mutex = "free"
  /\ pc = [w \in Workers |-> "none"]
  /\ tasks = <<>> /\ terminate = FALSE
  /\ running = [w \in Workers |-> {}] /\ done = {}
  /\ undefined = FALSE

-----------------------------------------------------------------------------
(* createThreadPoll.                                                       *)

CreateWorker(w) ==
  /\ owner = "create"
  /\ Cardinality(ThreadsStarted) < Wanted
  /\ pc[w] = "none"
  /\ pc' = [pc EXCEPT ![w] = "lock"]
  /\ UNCHANGED <<owner, mutex, tasks, terminate, running, done, undefined>>

CreateReturn ==
  /\ owner = "create"
  /\ Cardinality(ThreadsStarted) = Wanted
  /\ owner' = "idle"
  /\ UNCHANGED <<pc, mutex, tasks, terminate, running, done, undefined>>

\* malloc or pthread_create fails: the pool is freed, whoever uses it.
CreateFail ==
  /\ owner = "create"
  /\ Cardinality(ThreadsStarted) < Wanted
  /\ owner' = "failed"
  /\ UNCHANGED <<pc, mutex, tasks, terminate, running, done, undefined>>

UseAfterFree(w) ==
  /\ owner = "failed"
  /\ pc[w] # "none"
  /\ undefined' = TRUE
  /\ UNCHANGED <<owner, pc, mutex, tasks, terminate, running, done>>

-----------------------------------------------------------------------------
(* pushTaskThreadPool and destroyThreadPool.                               *)

\* pthread_cond_signal wakes one of the waiting threads, if there is one.
Signal == \/ Waiting = {} /\ UNCHANGED pc
          \/ \E w \in Waiting : pc' = [pc EXCEPT ![w] = "woken"]

PutFirst(t) ==
  /\ owner \in {"idle", "destroyed"}
  /\ t \notin Listed \cup Taken \cup done
  /\ mutex = "free"
  /\ tasks' = <<t>> \o tasks
  /\ UNCHANGED <<owner, mutex, terminate, running, done, undefined>>

\* Mutation: a signal only for the first task of the list.
PushQuietly(t) == PutFirst(t) /\ IF tasks = <<>> THEN Signal ELSE UNCHANGED pc

\* Mutation: no signal at all.
PushUnsignalled(t) == PutFirst(t) /\ UNCHANGED pc

Push(t) == PutFirst(t) /\ Signal

\* Mutation: the flag is not set.
ForgetTerminate ==
  /\ owner = "idle"
  /\ owner' = "terminating"
  /\ UNCHANGED <<pc, mutex, tasks, terminate, running, done, undefined>>

SetTerminate ==
  /\ owner = "idle"
  /\ owner' = "terminating"
  /\ terminate' = TRUE
  /\ UNCHANGED <<pc, mutex, tasks, running, done, undefined>>

GoOn ==
  /\ owner = "terminating"
  /\ owner' = "clearing"
  /\ UNCHANGED <<mutex, tasks, terminate, running, done, undefined>>
WakeAll == pc' = [w \in Workers |-> IF pc[w] = "wait" THEN "woken" ELSE pc[w]]

\* Mutation: the broadcast does not wait for the mutex.
BroadcastUnlocked == GoOn /\ WakeAll

\* Mutation: pthread_cond_signal instead of pthread_cond_broadcast.
BroadcastToOne == mutex = "free" /\ GoOn /\ Signal

Broadcast == mutex = "free" /\ GoOn /\ WakeAll

\* The mutex has been given up; what the list held is leaked.
ClearTasks ==
  /\ owner = "clearing"
  /\ tasks' = <<>>
  /\ owner' = "destroyed"
  /\ UNCHANGED <<pc, mutex, terminate, running, done, undefined>>

-----------------------------------------------------------------------------
(* threadCallback.                                                         *)

Acquire(w) ==
  /\ pc[w] \in {"lock", "woken"}
  /\ mutex = "free"
  /\ mutex' = w
  /\ pc' = [pc EXCEPT ![w] = "test"]
  /\ UNCHANGED <<owner, tasks, terminate, running, done, undefined>>

TestTask(w) ==
  /\ pc[w] = "test"
  /\ pc' = [pc EXCEPT ![w] = IF tasks = <<>> THEN "check" ELSE "recheck"]
  /\ UNCHANGED <<owner, mutex, tasks, terminate, running, done, undefined>>

CheckTerminate(w) ==
  /\ pc[w] = "check"
  /\ pc' = [pc EXCEPT ![w] = IF terminate THEN "recheck" ELSE "drowsy"]
  /\ UNCHANGED <<owner, mutex, tasks, terminate, running, done, undefined>>

\* pthread_cond_wait: the mutex is given up and the thread asleep in one step.
Wait(w) ==
  /\ pc[w] = "drowsy"
  /\ pc' = [pc EXCEPT ![w] = "wait"]
  /\ mutex' = "free"
  /\ UNCHANGED <<owner, tasks, terminate, running, done, undefined>>

\* Mutation: the second test of terminate is left out.
SkipRecheck(w) ==
  /\ pc[w] = "recheck"
  /\ pc' = [pc EXCEPT ![w] = "pop"]
  /\ UNCHANGED <<owner, mutex, tasks, terminate, running, done, undefined>>

\* Mutation: the worker leaves without unlocking.
RecheckKeepsMutex(w) ==
  /\ pc[w] = "recheck"
  /\ pc' = [pc EXCEPT ![w] = IF terminate THEN "exit" ELSE "pop"]
  /\ UNCHANGED <<owner, mutex, tasks, terminate, running, done, undefined>>

Recheck(w) ==
  /\ pc[w] = "recheck"
  /\ IF terminate
       THEN pc' = [pc EXCEPT ![w] = "exit"] /\ mutex' = "free"
       ELSE pc' = [pc EXCEPT ![w] = "pop"] /\ UNCHANGED mutex
  /\ UNCHANGED <<owner, tasks, terminate, running, done, undefined>>

\* Mutation: the task is read but not deleted from the list.
PeekTask(w) ==
  /\ pc[w] = "pop"
  /\ IF tasks = <<>>
       THEN undefined' = TRUE /\ UNCHANGED <<pc, mutex, running>>
       ELSE /\ running' = [running EXCEPT ![w] = {Head(tasks)}]
            /\ pc' = [pc EXCEPT ![w] = "run"]
            /\ mutex' = "free"
            /\ UNCHANGED undefined
  /\ UNCHANGED <<owner, tasks, terminate, done>>

\* DELETE_LIST of a null task would be a null dereference.
PopTask(w) ==
  /\ pc[w] = "pop"
  /\ IF tasks = <<>>
       THEN undefined' = TRUE /\ UNCHANGED <<pc, mutex, tasks, running>>
       ELSE /\ tasks' = Tail(tasks)
            /\ running' = [running EXCEPT ![w] = {Head(tasks)}]
            /\ pc' = [pc EXCEPT ![w] = "run"]
            /\ mutex' = "free"
            /\ UNCHANGED undefined
  /\ UNCHANGED <<owner, terminate, done>>

\* taskCallback returns and the task is freed.
RunTask(w) ==
  /\ pc[w] = "run"
  /\ done' = done \cup running[w]
  /\ running' = [running EXCEPT ![w] = {}]
  /\ pc' = [pc EXCEPT ![w] = "lock"]
  /\ UNCHANGED <<owner, mutex, tasks, terminate, undefined>>

SpuriousWake(w) ==
  /\ SpuriousWakeups
  /\ pc[w] = "wait"
  /\ pc' = [pc EXCEPT ![w] = "woken"]
  /\ UNCHANGED <<owner, mutex, tasks, terminate, running, done, undefined>>

-----------------------------------------------------------------------------

WorkerStep(w) ==
  \/ TestTask(w) \/ CheckTerminate(w) \/ Wait(w)
  \/ Recheck(w) \/ PopTask(w) \/ RunTask(w)

OwnerStep ==
  \/ CreateReturn \/ CreateFail \/ SetTerminate \/ Broadcast \/ ClearTasks
  \/ \E w \in Workers : CreateWorker(w)
  \/ \E t \in Tasks : Push(t)

\* A process whose pool could not be created, or whose workers are all gone.
Stopped ==
  /\ owner \in {"failed", "destroyed"}
  /\ \A w \in Workers : pc[w] \in {"none", "exit"}

Next ==
  \/ /\ ~undefined
     /\ \/ OwnerStep
        \/ /\ owner # "failed"
           /\ \E w \in Workers : Acquire(w) \/ WorkerStep(w) \/ SpuriousWake(w)
        \/ \E w \in Workers : UseAfterFree(w)
  \/ (undefined \/ Stopped) /\ UNCHANGED vars

Spec == Init /\ [][Next]_vars

(***************************************************************************)
(* Every thread that can run is run, a callback returns, and a thread that *)
(* waits for the mutex gets it if it is free again and again.  The owner   *)
(* finishes the call it is in; nothing makes it push or destroy.           *)
(***************************************************************************)
Fairness ==
  /\ \A w \in Workers : /\ SF_vars(~undefined /\ owner # "failed" /\ Acquire(w))
                        /\ WF_vars(~undefined /\ owner # "failed" /\ WorkerStep(w))
  /\ WF_vars(~undefined /\ (CreateReturn \/ ClearTasks \/ \E w \in Workers : CreateWorker(w)))
  /\ SF_vars(~undefined /\ Broadcast)

FairSpec == Spec /\ Fairness

-----------------------------------------------------------------------------
(* Invariants.                                                             *)

\* Every variable stays in its range, and the mutex is owned by the worker that
\* is in the critical section of threadCallback, by nobody if none is.
TypeOK ==
  /\ owner \in {"create", "failed", "idle", "terminating", "clearing", "destroyed"}
  /\ pc \in [Workers -> {"none", "lock", "test", "check", "drowsy", "wait", "woken",
                         "recheck", "pop", "run", "exit"}]
  /\ mutex \in Workers \cup {"free"}
  /\ tasks \in Seq(Tasks)
  /\ terminate \in BOOLEAN
  /\ running \in [Workers -> SUBSET Tasks]
  /\ done \in SUBSET Tasks
  /\ undefined \in BOOLEAN
  /\ Holding = {mutex} \ {"free"}

\* threadCallback, 82-88: a task is in one place: once in the list, or with one
\* worker that has taken it, or done.
TaskOnce ==
  /\ \A i, j \in 1..Len(tasks) : tasks[i] = tasks[j] => i = j
  /\ Listed \cap (Taken \cup done) = {} /\ Taken \cap done = {}
  /\ \A w, v \in Workers : w # v => running[w] \cap running[v] = {}

\* pushTaskThreadPool, 149-153: as long as a worker sleeps, there is a worker
\* awake and on its way to the list for every task in it; one signal for each
\* push is enough, with other workers taking tasks in between.
NoTaskIdle == ~terminate /\ Waiting # {} => Len(tasks) <= Cardinality(Coming)

\* destroyThreadPool, 136-140: setting the flag before taking the mutex leaves
\* no worker asleep once the broadcast is out, although a worker may have read
\* the flag just before it was set.
DestroyWakesAll == Closed => Waiting = {}

\* destroyThreadPool, 142: the list is emptied without the mutex, and still no
\* worker that is about to take a task finds it gone.
PopHasTask == \A w \in Workers : pc[w] = "pop" => tasks # <<>> /\ owner # "clearing"

-----------------------------------------------------------------------------
(* Action property.                                                        *)

\* No worker takes a task once destroyThreadPool has given up the mutex.
NothingTakenAfterDestroy ==
  [][Closed => Taken' \subseteq Taken]_vars

-----------------------------------------------------------------------------
(* Liveness.                                                               *)

\* A pushed task is carried out, unless the pool is destroyed.
TasksAreRun == \A t \in Tasks : t \in Listed ~> (t \in done \/ terminate)

\* Every worker leaves threadCallback once the pool is destroyed.
WorkersExit == terminate ~> \A w \in Workers : pc[w] \in {"none", "exit"}

-----------------------------------------------------------------------------
(* Every step of the pool is a step of the abstract task bag.              *)

Bag == INSTANCE TaskBag
         WITH pending <- Listed, executing <- running, finished <- done,
              open <- ~Closed

BagSpec == Bag!BagSpec
=============================================================================
