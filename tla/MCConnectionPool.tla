-------------------------- MODULE MCConnectionPool --------------------------
(* Instances of ConnectionPool for TLC.                                     *)
EXTENDS ConnectionPool, TLC

\* Clients are interchangeable, and so are the addresses of connections.
Symmetry == Permutations(Clients) \cup Permutations(Conns)
=============================================================================
