----------------------------- MODULE MCPrograms -----------------------------
(* An instance of Programs for TLC.                                         *)
EXTENDS Programs

MCFds == 4..6
MCLabels == {<<98>>, <<99, 100>>}
MCAddresses == {<<10, 0, 0, 192>>}
MCImages == {<<>>, <<1, 2>>, <<2, 1>>, <<1, 2, 3>>, <<1, 2, 3, 4>>}

\* Keys that share a bit, that share a byte, and one whose hashes are equal.
MCPosition == [a |-> <<0, 9, 18>>, b |-> <<9, 10, 1>>, c |-> <<17, 17, 17>>]
=============================================================================
