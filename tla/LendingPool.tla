---------------------------- MODULE LendingPool ----------------------------
(***************************************************************************)
(* What a connection pool promises its callers, with no queue, lock,       *)
(* thread or clock: a set of connections is lent out and restored, every   *)
(* connection has one borrower at most, a request is refused only while    *)
(* nothing is available, and the pool keeps between Low and High members   *)
(* once it is open.  ConnectionPool implements this specification.         *)
(***************************************************************************)
EXTENDS Integers, FiniteSets

CONSTANTS Clients,   \* the borrowers
          Conns,     \* the connections that may ever exist at once
          Low,       \* size below which the pool never shrinks
          High       \* size above which it never grows

VARIABLES available, \* connections nobody has borrowed
          lent,      \* lent[c]: the connections client c has borrowed
          asking     \* clients whose request is not answered yet

poolVars == <<available, lent, asking>>

Members == available \cup UNION {lent[c] : c \in Clients}

PoolInit ==
  /\ available = {}
  /\ lent = [c \in Clients |-> {}]
  /\ asking = {}

Grow(k) ==
  /\ k \in Conns \ Members
  /\ Cardinality(Members) < High
  /\ available' = available \cup {k}
  /\ UNCHANGED <<lent, asking>>

Shrink(k) ==
  /\ k \in available
  /\ Cardinality(Members) > Low
  /\ available' = available \ {k}
  /\ UNCHANGED <<lent, asking>>

Ask(c) ==
  /\ c \notin asking
  /\ asking' = asking \cup {c}
  /\ UNCHANGED <<available, lent>>

Lend(c, k) ==
  /\ c \in asking
  /\ k \in available
  /\ available' = available \ {k}
  /\ lent' = [lent EXCEPT ![c] = @ \cup {k}]
  /\ asking' = asking \ {c}

Refuse(c) ==
  /\ c \in asking
  /\ available = {}
  /\ asking' = asking \ {c}
  /\ UNCHANGED <<available, lent>>

Restore(c, k) ==
  /\ c \notin asking
  /\ k \in lent[c]
  /\ available' = available \cup {k}
  /\ lent' = [lent EXCEPT ![c] = @ \ {k}]
  /\ UNCHANGED asking

PoolNext ==
  \/ \E k \in Conns : Grow(k) \/ Shrink(k)
  \/ \E c \in Clients : Ask(c) \/ Refuse(c)
  \/ \E c \in Clients, k \in Conns : Lend(c, k) \/ Restore(c, k)

PoolSpec == PoolInit /\ [][PoolNext]_poolVars
=============================================================================
