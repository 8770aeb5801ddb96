---------------------------- MODULE LockCounter -----------------------------
(***************************************************************************)
(* The counter of lock.c: threads that raise one int with a compare and    *)
(* swap written in C.  The comparison and the store are two instructions,  *)
(* and nothing keeps another thread from running between them.  main waits *)
(* ten seconds, not for the threads: its return ends them where they are.  *)
(***************************************************************************)
EXTENDS Integers, FiniteSets

CONSTANTS Threads,  \* the threads main creates
          Rounds    \* how often each of them raises the counter

Assumption == IsFiniteSet(Threads) /\ Threads # {} /\ Rounds \in Nat \ {0}

VARIABLES running, \* main has not returned
          count,  \* main's int
          old,    \* old[t]: the thread's local variable
          i,      \* i[t]: how often compare_and_swap has succeeded
          pc      \* pc[t]: "start", "compare", "store", "reload" or "done"

vars == <<running, count, old, i, pc>>

Init ==
  /\ running = TRUE /\ count = 0
  /\ old = [t \in Threads |-> 0] /\ i = [t \in Threads |-> 0]
  /\ pc = [t \in Threads |-> "start"]

Start(t) ==
  /\ pc[t] = "start"
  /\ old' = [old EXCEPT ![t] = count]
  /\ pc' = [pc EXCEPT ![t] = "compare"]
  /\ UNCHANGED <<count, i>>

\* Mutation: the comparison is left out.
CompareNothing(t) ==
  /\ pc[t] = "compare"
  /\ pc' = [pc EXCEPT ![t] = "store"]
  /\ UNCHANGED <<count, old, i>>

Compare(t) ==
  /\ pc[t] = "compare"
  /\ pc' = [pc EXCEPT ![t] = IF count = old[t] THEN "store" ELSE "reload"]
  /\ UNCHANGED <<count, old, i>>

\* The round ends; `old' keeps the value that was compared.
EndRound(t) ==
  /\ pc[t] = "store"
  /\ i' = [i EXCEPT ![t] = @ + 1]
  /\ pc' = [pc EXCEPT ![t] = IF i[t] + 1 < Rounds THEN "compare" ELSE "done"]
  /\ UNCHANGED old

\* Mutation: the (*count)++ that is commented out runs as well.
StoreAndRaise(t) == EndRound(t) /\ count' = old[t] + 2

Store(t) == EndRound(t) /\ count' = old[t] + 1

\* Mutation: `old' is not read again.
ReloadNothing(t) ==
  /\ pc[t] = "reload"
  /\ pc' = [pc EXCEPT ![t] = "compare"]
  /\ UNCHANGED <<count, old, i>>

Reload(t) ==
  /\ pc[t] = "reload"
  /\ old' = [old EXCEPT ![t] = count]
  /\ pc' = [pc EXCEPT ![t] = "compare"]
  /\ UNCHANGED <<count, i>>

AllDone == \A t \in Threads : pc[t] = "done"

ThreadStep(t) == running /\ UNCHANGED running /\ (Start(t) \/ Compare(t) \/ Store(t) \/ Reload(t))

\* The ten seconds are over: the process ends, and with it every thread.
MainReturns ==
  /\ running /\ running' = FALSE
  /\ UNCHANGED <<count, old, i, pc>>

Next == (\E t \in Threads : ThreadStep(t)) \/ MainReturns \/ (~running /\ UNCHANGED vars)

-----------------------------------------------------------------------------

\* Updates get lost, but none is counted twice, even when a late store takes the
\* counter back to a value that another thread is comparing with.
NeverAhead == count <= Cardinality({u \in Threads \X (1..Rounds) : u[2] <= i[u[1]]})

\* All but two updates can be lost, and no more: a thread's last store follows a
\* comparison with a value that its own earlier store has made positive.
TwoSurvive == AllDone => count >= (IF Rounds = 1 THEN 1 ELSE 2)
=============================================================================
