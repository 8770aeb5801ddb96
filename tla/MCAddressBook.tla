--------------------------- MODULE MCAddressBook ----------------------------
(* Instances of AddressBook for TLC.                                        *)
EXTENDS AddressBook

\* Free nodes are alike, so which one CHOOSE takes does not matter, and the
\* addresses may be permuted.
Symmetry == Permutations(Nodes)
=============================================================================
