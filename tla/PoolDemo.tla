------------------------------ MODULE PoolDemo ------------------------------
(***************************************************************************)
(* test-connection-poll.cpp on top of the pool: main fills the pool, one   *)
(* thread inserts rows through it, and the process exits.                  *)
(*                                                                         *)
(* The insert loop keeps only the MYSQL pointer.  The shared_ptr dies at   *)
(* the end of the block of line 80, so that each query runs on a           *)
(* connection that is already back in the queue.                           *)
(***************************************************************************)
EXTENDS ConnectionPool

CONSTANTS
  Main,      \* the thread of main
  Queries    \* how often the loop goes round

ASSUME DemoAssumption == Clients = {Main} /\ InitSize >= 1 /\ Queries \in Nat

VARIABLES
  at,     \* where main is: "start", "loop", "get", "drop", "query",
          \* and "exited" when the pool is being destroyed
  db,     \* the MYSQL pointer, as its connection; "none" before the first
  round   \* iterations that are over

demoVars == <<at, db, round>>

DemoInit == Init /\ at = "start" /\ db = "none" /\ round = 0

\* The four setters are called before run().
Prepare ==
  /\ at = "start"
  /\ \/ Run /\ stage' = "filling" /\ UNCHANGED at
     \/ Fill /\ UNCHANGED at
     \/ StartThreads /\ at' = "loop"
  /\ UNCHANGED <<db, round>>

Ask ==
  /\ at = "loop" /\ round < Queries
  /\ Call(Main)
  /\ at' = "get" /\ UNCHANGED <<db, round>>

\* nullptr leaves main here with client[Main] = "out", and connect->db() faults.
Await ==
  /\ Acquire(Main) \/ Wait(Main) \/ Timeout(Main) \/ Expire(Main)
  /\ UNCHANGED demoVars

Get ==
  /\ Take(Main)
  /\ at' = "drop" /\ db' = Head(queue) /\ UNCHANGED round

Drop ==
  /\ at = "drop"
  /\ Return(Main, db)
  /\ at' = "query" /\ UNCHANGED <<db, round>>

Query ==
  /\ at = "query"
  /\ at' = "loop" /\ round' = round + 1
  /\ UNCHANGED <<db, vars>>

\* The static pool is destroyed, without the mutex, under its two threads:
\* nothing is said of the process from then on.
Exit ==
  /\ at = "loop" /\ round = Queries
  /\ at' = "exited"
  /\ UNCHANGED <<db, round, vars>>

MainStep == Prepare \/ Ask \/ Await \/ Get \/ Drop \/ Query \/ Exit

Background ==
  /\ \/ ProducerAcquire \/ ProducerStep
     \/ ScannerWake \/ ScannerAcquire \/ ScannerStep
     \/ SpuriousWake \/ Tick
  /\ UNCHANGED demoVars

Refused == at = "get" /\ client[Main] = "out"
Over == at = "exited" \/ Refused \/ undefined

DemoNext == \/ ~Over /\ (MainStep \/ Background)
            \/ Over /\ UNCHANGED <<vars, demoVars>>

DemoSpec == DemoInit /\ [][DemoNext]_<<vars, demoVars>>

-----------------------------------------------------------------------------

\* test-connection-poll.cpp:83-86: no call of the demo comes back with nullptr, and
\* the connection that a query runs on has not been deleted by the scanner since it
\* was given back, nor lent to anybody else: it is the youngest of the queue.
QueriesLiveConnection == ~Refused /\ (at = "query" => db \in Queued)
=============================================================================
