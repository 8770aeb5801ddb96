------------------------------ MODULE TaskBag ------------------------------
(***************************************************************************)
(* What a thread pool promises, with no list, lock or condition variable:  *)
(* a submitted task is carried out once, by one worker, or discarded when  *)
(* the pool is shut down, after which nothing is started any more.         *)
(***************************************************************************)
CONSTANTS Workers, Tasks

VARIABLES pending,   \* submitted, not started
          executing, \* executing[w]: the tasks worker w carries out
          finished,  \* carried out
          open       \* FALSE once the pool is shut down

bagVars == <<pending, executing, finished, open>>

Started == (UNION {executing[w] : w \in Workers}) \cup finished

BagInit ==
  /\ pending = {} /\ finished = {} /\ open = TRUE
  /\ executing = [w \in Workers |-> {}]

Submit(t) ==
  /\ t \notin pending \cup Started
  /\ pending' = pending \cup {t}
  /\ UNCHANGED <<executing, finished, open>>

Start(w, t) ==
  /\ open
  /\ executing[w] = {} /\ t \in pending
  /\ pending' = pending \ {t}
  /\ executing' = [executing EXCEPT ![w] = {t}]
  /\ UNCHANGED <<finished, open>>

Complete(w, t) ==
  /\ t \in executing[w]
  /\ executing' = [executing EXCEPT ![w] = {}]
  /\ finished' = finished \cup {t}
  /\ UNCHANGED <<pending, open>>

ShutDown ==
  /\ open' = FALSE
  /\ UNCHANGED <<pending, executing, finished>>

Discard ==
  /\ ~open
  /\ pending' = {}
  /\ UNCHANGED <<executing, finished, open>>

BagNext ==
  \/ \E t \in Tasks : Submit(t)
  \/ \E w \in Workers, t \in Tasks : Start(w, t) \/ Complete(w, t)
  \/ ShutDown \/ Discard

BagSpec == BagInit /\ [][BagNext]_bagVars
=============================================================================
