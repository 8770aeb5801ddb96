-------------------------- MODULE ThreadPoolProofs --------------------------
(***************************************************************************)
(* Theorems about ThreadPool, for any number of workers and tasks: every   *)
(* task is carried out once, and the writes destroyThreadPool makes        *)
(* without the mutex do no harm.                                           *)
(***************************************************************************)
EXTENDS ThreadPool, SequenceElements, FiniteSetTheorems

InSection == {"test", "check", "drowsy", "recheck", "pop"}

\* What the range of the variables says of one worker.
Typed ==
  /\ owner \in {"create", "failed", "idle", "terminating", "clearing", "destroyed"}
  /\ pc \in [Workers -> {"none", "lock", "test", "check", "drowsy", "wait", "woken",
                         "recheck", "pop", "run", "exit"}]
  /\ mutex \in Workers \cup {"free"}
  /\ tasks \in Seq(Tasks)
  /\ terminate \in BOOLEAN
  /\ running \in [Workers -> SUBSET Tasks]
  /\ done \in SUBSET Tasks
  /\ undefined \in BOOLEAN
  /\ \A w \in Workers : mutex = w <=> pc[w] \in InSection

\* What the threads know: the flag is up from the first write of
\* destroyThreadPool on; between two accesses of a worker to the shared fields
\* the owner may have written them, and what the worker has read still tells it
\* whether the list is empty.
Knowledge ==
  /\ terminate <=> owner \in {"terminating", "clearing", "destroyed"}
  /\ \A w \in Workers :
       /\ pc[w] = "check" => tasks = <<>>
       /\ pc[w] = "drowsy" => tasks = <<>> /\ ~Closed
       /\ pc[w] = "recheck" => tasks # <<>> \/ terminate
       /\ pc[w] = "pop" => tasks # <<>> /\ ~Closed
       /\ pc[w] = "wait" => ~Closed
       /\ pc[w] = "run" => \E t \in Tasks : running[w] = {t}
       /\ pc[w] # "run" => running[w] = {}

Inductive == Typed /\ Knowledge

\* Any step of a thread.
Acts ==
  \/ OwnerStep
  \/ \E w \in Workers : Acquire(w) \/ WorkerStep(w) \/ SpuriousWake(w) \/ UseAfterFree(w)

LEMMA NextActs == [Next]_vars => Acts \/ UNCHANGED vars
  BY DEF Next, Acts

-----------------------------------------------------------------------------
(* Types, the mutex and what the threads know.                             *)

LEMMA InitInductive == Init => Inductive
  BY WorkersAssumption, EmptySeq
  DEF Init, Inductive, Typed, Knowledge, InSection, Closed

\* The owner's steps, with pthread_cond_signal and pthread_cond_broadcast.
LEMMA OwnerInductive == Inductive /\ OwnerStep => Inductive'
<1> SUFFICES ASSUME Inductive, OwnerStep PROVE Inductive'
  OBVIOUS
<1> USE WorkersAssumption DEF Inductive, Typed, Knowledge, InSection, Closed
<1>1. ASSUME NEW w \in Workers, CreateWorker(w) PROVE Inductive'
  BY <1>1 DEF CreateWorker
<1>2. CASE CreateReturn \/ CreateFail
  BY <1>2 DEF CreateReturn, CreateFail
<1>3. CASE SetTerminate
  BY <1>3 DEF SetTerminate
<1>4. CASE Broadcast
  BY <1>4 DEF Broadcast, GoOn, WakeAll
<1>5. CASE ClearTasks
  BY <1>5, EmptySeq DEF ClearTasks
<1>6. ASSUME NEW t \in Tasks, Push(t) PROVE Inductive'
  <2>1. <<t>> \o tasks \in Seq(Tasks) /\ <<t>> \o tasks # <<>>
    BY ElemsCons, EmptySeq, LenProperties
  <2>2. CASE UNCHANGED pc
    BY <1>6, <2>1, <2>2 DEF Push, PutFirst
  <2>3. CASE \E w \in Waiting : pc' = [pc EXCEPT ![w] = "woken"]
    BY <1>6, <2>1, <2>3 DEF Push, PutFirst, Waiting
  <2> QED BY <1>6, <2>2, <2>3 DEF Push, PutFirst, Signal
<1> QED BY <1>1, <1>2, <1>3, <1>4, <1>5, <1>6 DEF OwnerStep

\* The workers' steps.
LEMMA WorkerInductive ==
  ASSUME NEW w \in Workers
  PROVE  Inductive /\ (Acquire(w) \/ WorkerStep(w) \/ SpuriousWake(w) \/ UseAfterFree(w))
           => Inductive'
<1> SUFFICES ASSUME Inductive, Acquire(w) \/ WorkerStep(w) \/ SpuriousWake(w) \/ UseAfterFree(w)
             PROVE  Inductive'
  OBVIOUS
<1> USE WorkersAssumption DEF Inductive, Typed, Knowledge, InSection, Closed
<1>1. CASE Acquire(w)
  BY <1>1 DEF Acquire
<1>2. CASE SpuriousWake(w)
  BY <1>2 DEF SpuriousWake
<1>3. CASE UseAfterFree(w)
  BY <1>3 DEF UseAfterFree
<1>4. CASE TestTask(w)
  BY <1>4 DEF TestTask
<1>5. CASE CheckTerminate(w)
  BY <1>5 DEF CheckTerminate
<1>6. CASE Wait(w)
  BY <1>6 DEF Wait
<1>7. CASE Recheck(w)
  BY <1>7 DEF Recheck
<1>8. CASE PopTask(w)
  <2>1. tasks # <<>>
    BY <1>8 DEF PopTask
  <2>2. Tail(tasks) \in Seq(Tasks) /\ Head(tasks) \in Tasks
    BY <2>1, ElemsTail
  <2>3. /\ mutex' = "free" /\ tasks' = Tail(tasks)
        /\ pc' = [pc EXCEPT ![w] = "run"]
        /\ running' = [running EXCEPT ![w] = {Head(tasks)}]
        /\ UNCHANGED <<owner, terminate, done, undefined>>
    BY <1>8, <2>1 DEF PopTask
  <2>4. \A v \in Workers : v # w => pc[v] \notin InSection
    BY <1>8 DEF PopTask
  <2>5. Typed'
    BY <2>2, <2>3, <2>4
  <2>6. Knowledge'
    BY <2>2, <2>3, <2>4
  <2> QED BY <2>5, <2>6
<1>9. CASE RunTask(w)
  BY <1>9 DEF RunTask
<1> QED BY <1>1, <1>2, <1>3, <1>4, <1>5, <1>6, <1>7, <1>8, <1>9 DEF WorkerStep

\* The strengthening is an invariant.
THEOREM InductiveInvariant == Spec => []Inductive
<1>1. Inductive /\ [Next]_vars => Inductive'
  <2> SUFFICES ASSUME Inductive, Acts \/ UNCHANGED vars PROVE Inductive'
    BY NextActs
  <2>1. CASE Acts
    BY <2>1, OwnerInductive, WorkerInductive DEF Acts
  <2>2. CASE UNCHANGED vars
    BY <2>2 DEF vars, Inductive, Typed, Knowledge, Closed
  <2> QED BY <2>1, <2>2
<1> QED BY <1>1, InitInductive, PTL DEF Spec

\* The variables keep to their types, and the mutex is owned by whoever is in
\* threadCallback's critical section.
THEOREM TypeCorrect == Spec => []TypeOK
<1>1. Inductive => TypeOK
  <2> SUFFICES ASSUME Inductive PROVE TypeOK
    OBVIOUS
  <2>1. Holding = {mutex} \ {"free"}
    BY WorkersAssumption DEF Inductive, Typed, InSection, Holding
  <2> QED BY <2>1 DEF Inductive, Typed, TypeOK
<1> QED BY <1>1, InductiveInvariant, PTL

\* destroyThreadPool leaves no worker asleep, although it raises the flag without
\* the mutex.
THEOREM AllAreWoken == Spec => []DestroyWakesAll
<1>1. Inductive => DestroyWakesAll
  BY DEF Inductive, Knowledge, DestroyWakesAll, Waiting
<1> QED BY <1>1, InductiveInvariant, PTL

\* A worker about to take a task finds one, although destroyThreadPool empties the
\* list without the mutex.
THEOREM NoEmptyPop == Spec => []PopHasTask
<1>1. Inductive => PopHasTask
  BY DEF Inductive, Knowledge, PopHasTask, Closed
<1> QED BY <1>1, InductiveInvariant, PTL

-----------------------------------------------------------------------------
(* Where tasks go.                                                         *)

\* What a push and a pop do to the set of listed tasks.
LEMMA PushPop ==
  ASSUME tasks \in Seq(Tasks)
  PROVE  /\ \A t \in Tasks : tasks' = <<t>> \o tasks =>
              /\ Listed' = Listed \cup {t} /\ Len(tasks') = Len(tasks) + 1
              /\ t \notin Listed /\ Distinct(tasks) => Distinct(tasks')
         /\ tasks # <<>> /\ tasks' = Tail(tasks) =>
              /\ Head(tasks) \in Tasks /\ Head(tasks) \in Listed
              /\ Len(tasks') = Len(tasks) - 1
              /\ Distinct(tasks) => Distinct(tasks') /\ Listed' = Listed \ {Head(tasks)}
<1>1. Listed = Elems(tasks) /\ Listed' = Elems(tasks')
  BY DEF Listed, Elems
<1>2. ASSUME NEW t \in Tasks, tasks' = <<t>> \o tasks
      PROVE  /\ Listed' = Listed \cup {t} /\ Len(tasks') = Len(tasks) + 1
             /\ t \notin Listed /\ Distinct(tasks) => Distinct(tasks')
  BY <1>1, <1>2, ElemsCons
<1>3. ASSUME tasks # <<>>, tasks' = Tail(tasks)
      PROVE  /\ Head(tasks) \in Tasks /\ Head(tasks) \in Listed
             /\ Len(tasks') = Len(tasks) - 1
             /\ Distinct(tasks) => Distinct(tasks') /\ Listed' = Listed \ {Head(tasks)}
  <2>1. /\ Head(tasks) \in Tasks /\ Elems(tasks) = Elems(tasks') \cup {Head(tasks)}
        /\ Len(tasks') = Len(tasks) - 1
        /\ Distinct(tasks) => Distinct(tasks') /\ Head(tasks) \notin Elems(tasks')
    BY <1>3, ElemsTail
  <2> QED BY <1>1, <2>1
<1> QED BY <1>2, <1>3

\* Of all the steps, only pushTaskThreadPool, DELETE_LIST, the callback's return and
\* the write at the end of destroyThreadPool move a task.
LEMMA DataStep ==
  ASSUME [Next]_vars
  PROVE  \/ \E t \in Tasks : Push(t)
         \/ \E w \in Workers : PopTask(w) \/ RunTask(w)
         \/ ClearTasks
         \/ UNCHANGED <<tasks, running, done>>
<1>1. CASE UNCHANGED vars
  BY <1>1 DEF vars
<1>2. ASSUME NEW w \in Workers, Acquire(w) \/ SpuriousWake(w) \/ UseAfterFree(w)
      PROVE  UNCHANGED <<tasks, running, done>>
  BY <1>2 DEF Acquire, SpuriousWake, UseAfterFree
<1>3. ASSUME NEW w \in Workers, TestTask(w) \/ CheckTerminate(w) \/ Wait(w) \/ Recheck(w)
      PROVE  UNCHANGED <<tasks, running, done>>
  BY <1>3 DEF TestTask, CheckTerminate, Wait, Recheck
<1>4. ASSUME NEW w \in Workers, CreateWorker(w) PROVE UNCHANGED <<tasks, running, done>>
  BY <1>4 DEF CreateWorker
<1>5. CASE CreateReturn \/ CreateFail \/ SetTerminate \/ Broadcast
  BY <1>5 DEF CreateReturn, CreateFail, SetTerminate, Broadcast, GoOn, WakeAll
<1> QED BY <1>1, <1>2, <1>3, <1>4, <1>5, NextActs DEF Acts, OwnerStep, WorkerStep

\* What the worker does to the tasks that are taken and done.
LEMMA TakenSteps ==
  ASSUME Inductive, NEW w \in Workers
  PROVE  /\ PopTask(w) => /\ tasks # <<>> /\ ~Closed /\ tasks' = Tail(tasks)
                          /\ running[w] = {}
                          /\ running' = [running EXCEPT ![w] = {Head(tasks)}]
                          /\ Taken' = Taken \cup {Head(tasks)} /\ done' = done
         /\ RunTask(w) => \E t \in Tasks :
                          /\ running[w] = {t} /\ tasks' = tasks
                          /\ running' = [running EXCEPT ![w] = {}]
                          /\ Taken = Taken' \cup {t} /\ done' = done \cup {t}
<1>1. ASSUME PopTask(w)
      PROVE  /\ tasks # <<>> /\ ~Closed /\ tasks' = Tail(tasks)
             /\ running[w] = {}
             /\ running' = [running EXCEPT ![w] = {Head(tasks)}]
             /\ Taken' = Taken \cup {Head(tasks)} /\ done' = done
  <2>1. /\ tasks # <<>> /\ ~Closed /\ tasks' = Tail(tasks) /\ running[w] = {}
        /\ running' = [running EXCEPT ![w] = {Head(tasks)}] /\ done' = done
    BY <1>1 DEF PopTask, Inductive, Knowledge
  <2>2. running \in [Workers -> SUBSET Tasks]
    BY DEF Inductive, Typed
  <2>3. Taken' = Taken \cup {Head(tasks)}
    BY <2>1, <2>2 DEF Taken
  <2> QED BY <2>1, <2>3
<1>2. ASSUME RunTask(w)
      PROVE  \E t \in Tasks :
               /\ running[w] = {t} /\ tasks' = tasks
               /\ running' = [running EXCEPT ![w] = {}]
               /\ Taken = Taken' \cup {t} /\ done' = done \cup {t}
  <2>1. PICK t \in Tasks : running[w] = {t}
    BY <1>2 DEF RunTask, Inductive, Knowledge
  <2>2. tasks' = tasks /\ running' = [running EXCEPT ![w] = {}] /\ done' = done \cup {t}
    BY <1>2, <2>1 DEF RunTask
  <2>3. running \in [Workers -> SUBSET Tasks]
    BY DEF Inductive, Typed
  <2>4. Taken = Taken' \cup {t}
    BY <2>1, <2>2, <2>3 DEF Taken
  <2> QED BY <2>1, <2>2, <2>4
<1> QED BY <1>1, <1>2

\* No step makes a task be in two places.
LEMMA NextTaskOnce == Inductive /\ TaskOnce /\ [Next]_vars => TaskOnce'
<1> SUFFICES ASSUME Inductive, TaskOnce, [Next]_vars PROVE TaskOnce'
  OBVIOUS
<1>1. /\ Distinct(tasks) <=> \A i, j \in 1..Len(tasks) : tasks[i] = tasks[j] => i = j
      /\ Distinct(tasks') <=> \A i, j \in 1..Len(tasks') : tasks'[i] = tasks'[j] => i = j
  BY DEF Distinct
<1>2. tasks \in Seq(Tasks) /\ running \in [Workers -> SUBSET Tasks]
  BY DEF Inductive, Typed
<1>3. ASSUME NEW t \in Tasks, Push(t) PROVE TaskOnce'
  <2>1. Listed' = Listed \cup {t} /\ Distinct(tasks')
    BY <1>1, <1>2, <1>3, PushPop DEF Push, PutFirst, TaskOnce
  <2>2. Taken' = Taken
    BY <1>3 DEF Push, PutFirst, Taken
  <2>3. running' = running /\ done' = done /\ t \notin Taken \cup done
    BY <1>3 DEF Push, PutFirst
  <2>4. \A w, v \in Workers : w # v => running'[w] \cap running'[v] = {}
    BY <2>3 DEF TaskOnce
  <2>5. Listed' \cap (Taken' \cup done') = {} /\ Taken' \cap done' = {}
    BY <2>1, <2>2, <2>3 DEF TaskOnce
  <2> QED BY <1>1, <2>1, <2>4, <2>5 DEF TaskOnce
<1>4. ASSUME NEW w \in Workers, PopTask(w) PROVE TaskOnce'
  <2>1. /\ tasks # <<>> /\ tasks' = Tail(tasks) /\ Taken' = Taken \cup {Head(tasks)}
        /\ running' = [running EXCEPT ![w] = {Head(tasks)}] /\ done' = done
    BY <1>4, TakenSteps
  <2>2. /\ Head(tasks) \in Listed
        /\ Listed' = Listed \ {Head(tasks)} /\ Distinct(tasks')
    BY <1>1, <1>2, <2>1, PushPop DEF TaskOnce
  <2>3. \A v \in Workers : Head(tasks) \notin running[v]
    BY <2>2 DEF TaskOnce, Taken
  <2>4. \A u, v \in Workers : u # v => running'[u] \cap running'[v] = {}
    BY <1>2, <2>1, <2>3 DEF TaskOnce
  <2> QED BY <1>1, <2>1, <2>2, <2>4 DEF TaskOnce
<1>5. ASSUME NEW w \in Workers, RunTask(w) PROVE TaskOnce'
  <2>1. PICK t \in Tasks : /\ running[w] = {t} /\ tasks' = tasks
                           /\ running' = [running EXCEPT ![w] = {}]
                           /\ Taken = Taken' \cup {t} /\ done' = done \cup {t}
    BY <1>5, TakenSteps
  <2>2. \A u, v \in Workers : u # v => running'[u] \cap running'[v] = {}
    BY <1>2, <2>1 DEF TaskOnce
  <2>3. t \notin Taken'
    BY <1>2, <2>1 DEF TaskOnce, Taken
  <2>4. Listed' = Listed
    BY <2>1 DEF Listed
  <2> QED BY <2>1, <2>2, <2>3, <2>4 DEF TaskOnce
<1>6. CASE ClearTasks
  <2>1. Listed' = {} /\ \A i \in 1..Len(tasks') : FALSE
    BY <1>6, EmptySeq DEF ClearTasks, Listed
  <2>2. Taken' = Taken /\ UNCHANGED <<running, done>>
    BY <1>6 DEF ClearTasks, Taken
  <2>3. Distinct(tasks')
    BY <2>1 DEF Distinct
  <2>4. Listed' \cap (Taken' \cup done') = {} /\ Taken' \cap done' = {}
    BY <2>1, <2>2 DEF TaskOnce
  <2>5. \A w, v \in Workers : w # v => running'[w] \cap running'[v] = {}
    BY <2>2 DEF TaskOnce
  <2> QED BY <1>1, <2>3, <2>4, <2>5 DEF TaskOnce
<1>7. CASE UNCHANGED <<tasks, running, done>>
  BY <1>7 DEF TaskOnce, Listed, Taken
<1> QED BY <1>3, <1>4, <1>5, <1>6, <1>7, DataStep

\* A task is in the list, with one worker, or done.
THEOREM TasksAreTakenOnce == Spec => []TaskOnce
<1>1. Init => TaskOnce
  <2> SUFFICES ASSUME Init PROVE TaskOnce
    OBVIOUS
  <2>1. Listed = {} /\ \A i \in 1..Len(tasks) : FALSE
    BY EmptySeq DEF Init, Listed
  <2> QED BY <2>1 DEF Init, TaskOnce, Taken
<1> QED BY <1>1, NextTaskOnce, InductiveInvariant, PTL DEF Spec

\* Once destroyThreadPool has given up the mutex, no worker takes a task.
THEOREM NothingStartsAfterDestroy == Spec => NothingTakenAfterDestroy
<1>1. Inductive /\ [Next]_vars => (Closed => Taken' \subseteq Taken)
  <2> SUFFICES ASSUME Inductive, [Next]_vars, Closed PROVE Taken' \subseteq Taken
    OBVIOUS
  <2>1. ASSUME NEW w \in Workers, PopTask(w) \/ RunTask(w) PROVE Taken' \subseteq Taken
    BY <2>1, TakenSteps
  <2>2. CASE (\E t \in Tasks : Push(t)) \/ ClearTasks \/ UNCHANGED <<tasks, running, done>>
    BY <2>2 DEF Push, PutFirst, ClearTasks, Taken
  <2> QED BY <2>1, <2>2, DataStep
<1> QED BY <1>1, InductiveInvariant, PTL DEF Spec, NothingTakenAfterDestroy

-----------------------------------------------------------------------------
(* One signal for each push is enough.                                     *)

\* A worker on its way to the list is lost only when it takes a task.
LEMMA ComingSteps ==
  ASSUME Inductive, [Next]_vars, ~terminate', Waiting' # {}
  PROVE  \/ tasks' = <<>>
         \/ Waiting # {} /\ tasks' = tasks /\ Coming \subseteq Coming'
         \/ \E t \in Tasks, w \in Waiting :
              tasks' = <<t>> \o tasks /\ Coming' = Coming \cup {w} /\ w \notin Coming
         \/ \E w \in Coming : /\ Waiting # {} /\ tasks # <<>> /\ tasks' = Tail(tasks)
                              /\ Coming' = Coming \ {w}
<1> DEFINE Goal == \/ tasks' = <<>>
                   \/ Waiting # {} /\ tasks' = tasks /\ Coming \subseteq Coming'
                   \/ \E t \in Tasks, w \in Waiting :
                        tasks' = <<t>> \o tasks /\ Coming' = Coming \cup {w} /\ w \notin Coming
                   \/ \E w \in Coming : /\ Waiting # {} /\ tasks # <<>> /\ tasks' = Tail(tasks)
                                        /\ Coming' = Coming \ {w}
<1>1. pc \in [Workers -> {"none", "lock", "test", "check", "drowsy", "wait", "woken",
                          "recheck", "pop", "run", "exit"}]
  BY DEF Inductive, Typed
<1>2. CASE UNCHANGED vars
  BY <1>2 DEF vars, Waiting, Coming
<1>3. ASSUME NEW w \in Workers,
             Acquire(w) \/ TestTask(w) \/ RunTask(w) \/ CreateWorker(w) \/ UseAfterFree(w)
      PROVE  Goal
  <2>1. tasks' = tasks /\ Waiting' = Waiting /\ Coming \subseteq Coming'
    BY <1>1, <1>3 DEF Acquire, TestTask, RunTask, CreateWorker, UseAfterFree, Waiting, Coming
  <2> QED BY <2>1
<1>4. ASSUME NEW w \in Workers, SpuriousWake(w) PROVE Goal
  <2>1. tasks' = tasks /\ w \in Waiting /\ Coming \subseteq Coming'
    BY <1>1, <1>4 DEF SpuriousWake, Waiting, Coming
  <2> QED BY <2>1
<1>5. ASSUME NEW w \in Workers, CheckTerminate(w) \/ Wait(w) PROVE Goal
  <2>1. tasks' = <<>>
    BY <1>5 DEF CheckTerminate, Wait, Inductive, Knowledge
  <2> QED BY <2>1
<1>6. ASSUME NEW w \in Workers, Recheck(w) PROVE Goal
  <2>1. tasks' = tasks /\ Waiting' = Waiting /\ Coming \subseteq Coming'
    BY <1>1, <1>6 DEF Recheck, Waiting, Coming
  <2> QED BY <2>1
<1>7. ASSUME NEW w \in Workers, PopTask(w) PROVE Goal
  <2>1. tasks # <<>> /\ tasks' = Tail(tasks)
    BY <1>7, TakenSteps
  <2>2. w \in Coming /\ Coming' = Coming \ {w} /\ Waiting' = Waiting
    BY <1>1, <1>7, <2>1 DEF PopTask, Waiting, Coming
  <2> QED BY <2>1, <2>2
<1>8. ASSUME NEW t \in Tasks, Push(t) PROVE Goal
  <2>1. Waiting # {}
    BY <1>8 DEF Push, PutFirst, Signal, Waiting
  <2>2. PICK w \in Waiting : pc' = [pc EXCEPT ![w] = "woken"]
    BY <1>8, <2>1 DEF Push, PutFirst, Signal
  <2>3. Coming' = Coming \cup {w} /\ w \notin Coming
    BY <1>1, <2>2 DEF Waiting, Coming
  <2> QED BY <1>8, <2>3 DEF Push, PutFirst
<1>9. CASE CreateReturn \/ CreateFail
  BY <1>9 DEF CreateReturn, CreateFail, Waiting, Coming
<1>10. ~(SetTerminate \/ Broadcast \/ ClearTasks)
  BY DEF SetTerminate, Broadcast, GoOn, WakeAll, ClearTasks, Inductive, Knowledge
<1> QED
  BY <1>2, <1>3, <1>4, <1>5, <1>6, <1>7, <1>8, <1>9, <1>10, NextActs
  DEF Acts, OwnerStep, WorkerStep

LEMMA NextNoTaskIdle == Inductive /\ Inductive' /\ NoTaskIdle /\ [Next]_vars => NoTaskIdle'
<1> SUFFICES ASSUME Inductive, Inductive', NoTaskIdle, [Next]_vars, ~terminate', Waiting' # {}
             PROVE  Len(tasks') <= Cardinality(Coming')
  BY DEF NoTaskIdle
<1>1. /\ IsFiniteSet(Coming) /\ IsFiniteSet(Coming')
      /\ Cardinality(Coming) \in Nat /\ Cardinality(Coming') \in Nat
  <2>1. Coming \subseteq Workers /\ Coming' \subseteq Workers
    BY DEF Coming
  <2> QED BY <2>1, EnoughWorkers, FS_Subset, FS_CardinalityType
<1>2. Len(tasks) \in Nat /\ tasks \in Seq(Tasks) /\ ~terminate
  <2>1. ~terminate
    BY NextActs DEF Acts, OwnerStep, WorkerStep, CreateWorker, CreateReturn, CreateFail, Push, PutFirst,
       SetTerminate, Broadcast, GoOn, WakeAll, ClearTasks, Acquire, TestTask, CheckTerminate, Wait, Recheck,
       PopTask, RunTask, SpuriousWake, UseAfterFree, vars
  <2> QED BY <2>1, LenProperties DEF Inductive, Typed
<1>3. CASE tasks' = <<>>
  BY <1>1, <1>3, EmptySeq
<1>4. CASE Waiting # {} /\ tasks' = tasks /\ Coming \subseteq Coming'
  BY <1>1, <1>2, <1>4, FS_Subset DEF NoTaskIdle
<1>5. ASSUME NEW t \in Tasks, NEW w \in Waiting,
             tasks' = <<t>> \o tasks, Coming' = Coming \cup {w}, w \notin Coming
      PROVE  Len(tasks') <= Cardinality(Coming')
  <2>1. Cardinality(Coming') = Cardinality(Coming) + 1
    BY <1>1, <1>5, FS_AddElement
  <2>2. Len(tasks') = Len(tasks) + 1
    BY <1>2, <1>5, ElemsCons
  <2> QED BY <1>1, <1>2, <2>1, <2>2 DEF NoTaskIdle
<1>6. ASSUME NEW w \in Coming, Waiting # {}, tasks # <<>>, tasks' = Tail(tasks),
             Coming' = Coming \ {w}
      PROVE  Len(tasks') <= Cardinality(Coming')
  <2>1. Cardinality(Coming') = Cardinality(Coming) - 1
    BY <1>1, <1>6, FS_RemoveElement
  <2>2. Len(tasks') = Len(tasks) - 1
    BY <1>2, <1>6, ElemsTail
  <2> QED BY <1>1, <1>2, <1>6, <2>1, <2>2 DEF NoTaskIdle
<1> QED BY <1>3, <1>4, <1>5, <1>6, ComingSteps

\* No task lies in the list while a worker sleeps and nobody comes for it.
THEOREM TasksAreCovered == Spec => []NoTaskIdle
<1>1. Init => NoTaskIdle
  BY DEF Init, NoTaskIdle, Waiting
<1> QED BY <1>1, NextNoTaskIdle, InductiveInvariant, PTL DEF Spec

-----------------------------------------------------------------------------
(* The thread pool implements the task bag.                                *)

LEMMA StepRefines ==
  ASSUME Inductive, Inductive', TaskOnce, [Next]_vars
  PROVE  [Bag!BagNext]_(Bag!bagVars)
<1>1. Bag!Started = Taken \cup done
  BY Zenon DEF Bag!Started, Taken
<1>2. tasks \in Seq(Tasks) /\ running \in [Workers -> SUBSET Tasks]
  BY DEF Inductive, Typed
<1>3. ASSUME NEW t \in Tasks, Push(t) PROVE Bag!Submit(t)
  <2>1. Listed' = Listed \cup {t}
    BY <1>2, <1>3, PushPop DEF Push, PutFirst
  <2> QED BY <1>1, <1>3, <2>1 DEF Push, PutFirst, Bag!Submit, Closed
<1>4. ASSUME NEW w \in Workers, PopTask(w) PROVE \E t \in Tasks : Bag!Start(w, t)
  <2>1. /\ tasks # <<>> /\ tasks' = Tail(tasks) /\ running[w] = {} /\ ~Closed
        /\ running' = [running EXCEPT ![w] = {Head(tasks)}] /\ done' = done
    BY <1>4, TakenSteps
  <2>2. Distinct(tasks)
    BY DEF TaskOnce, Distinct
  <2>3. PICK t \in Tasks : t = Head(tasks) /\ t \in Listed /\ Listed' = Listed \ {t}
    BY <1>2, <2>1, <2>2, PushPop
  <2>4. Closed' = Closed
    BY <1>4 DEF PopTask, Closed
  <2>5. Bag!Start(w, t)
    BY <2>1, <2>3, <2>4 DEF Bag!Start
  <2> QED BY <2>5
<1>5. ASSUME NEW w \in Workers, RunTask(w) PROVE \E t \in Tasks : Bag!Complete(w, t)
  <2>1. PICK t \in Tasks : /\ running[w] = {t} /\ tasks' = tasks
                           /\ running' = [running EXCEPT ![w] = {}]
                           /\ done' = done \cup {t}
    BY <1>5, TakenSteps
  <2>2. Closed' = Closed /\ Listed' = Listed
    BY <1>5, <2>1 DEF RunTask, Closed, Listed
  <2>3. Bag!Complete(w, t)
    BY <2>1, <2>2 DEF Bag!Complete
  <2> QED BY <2>3
<1>6. ASSUME ClearTasks PROVE Bag!Discard
  <2>1. Listed' = {}
    BY <1>6, EmptySeq DEF ClearTasks, Listed
  <2> QED BY <1>6, <2>1 DEF ClearTasks, Bag!Discard, Closed
<1>7. ASSUME UNCHANGED <<tasks, running, done>>
      PROVE  Bag!ShutDown \/ UNCHANGED Bag!bagVars
  <2>1. Listed' = Listed
    BY <1>7 DEF Listed
  <2>2. Closed => Closed'
    BY NextActs DEF Acts, OwnerStep, WorkerStep, CreateWorker, CreateReturn, CreateFail, Push, PutFirst,
       SetTerminate, Broadcast, GoOn, WakeAll, ClearTasks, Acquire, TestTask, CheckTerminate, Wait, Recheck,
       PopTask, RunTask, SpuriousWake, UseAfterFree, vars, Closed
  <2>3. CASE Closed'
    BY <1>7, <2>1, <2>3 DEF Bag!ShutDown
  <2>4. CASE ~Closed' /\ ~Closed
    <3>1. (~Closed)' = ~Closed
      BY <2>4
    <3> QED BY <1>7, <2>1, <3>1, Zenon DEF Bag!bagVars
  <2> QED BY <2>2, <2>3, <2>4
<1>8. CASE \E t \in Tasks : Push(t)
  BY <1>3, <1>8 DEF Bag!BagNext
<1>9. CASE \E w \in Workers : PopTask(w) \/ RunTask(w)
  BY <1>4, <1>5, <1>9 DEF Bag!BagNext
<1>10. CASE ClearTasks
  BY <1>6, <1>10 DEF Bag!BagNext
<1>11. CASE UNCHANGED <<tasks, running, done>>
  BY <1>7, <1>11, Zenon DEF Bag!BagNext
<1> QED BY <1>8, <1>9, <1>10, <1>11, DataStep

\* The thread pool implements the task bag: a task is started once, completed by
\* the worker that started it, and nothing is started after the shutdown.
THEOREM ImplementsTaskBag == Spec => BagSpec
<1>1. Init => Bag!BagInit
  <2> SUFFICES ASSUME Init PROVE Bag!BagInit
    OBVIOUS
  <2>1. Listed = {} /\ ~Closed
    BY EmptySeq DEF Init, Listed, Closed
  <2> QED BY <2>1 DEF Init, Bag!BagInit
<1>2. Inductive /\ Inductive' /\ TaskOnce /\ [Next]_vars => [Bag!BagNext]_(Bag!bagVars)
  BY StepRefines
<1> QED
  BY <1>1, <1>2, InductiveInvariant, TasksAreTakenOnce, PTL DEF Spec, BagSpec, Bag!BagSpec
=============================================================================
