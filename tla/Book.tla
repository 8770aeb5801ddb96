-------------------------------- MODULE Book --------------------------------
(***************************************************************************)
(* What an address book promises, without list, nodes or menu: a bag of    *)
(* names, and the bag that was written to its file.                        *)
(***************************************************************************)
EXTENDS Integers

CONSTANT Names

VARIABLES entries,  \* entries[x]: how many persons named x the book has
          stored    \* the same for the file

bookVars == <<entries, stored>>

None == [x \in Names |-> 0]

BookInit == entries = None /\ stored = None

Add(x) == entries' = [entries EXCEPT ![x] = @ + 1] /\ UNCHANGED stored

Remove(x) ==
  /\ entries[x] > 0
  /\ entries' = [entries EXCEPT ![x] = @ - 1]
  /\ UNCHANGED stored

\* What a save leaves in the file: all entries, or those that the disk had room for.
Written ==
  /\ DOMAIN stored' = Names
  /\ \A x \in Names : stored'[x] \in 0..entries[x]

Save == Written /\ UNCHANGED entries

Load == entries' = [x \in Names |-> entries[x] + stored[x]] /\ UNCHANGED stored

\* The process ends; what it had not saved is gone.
End == entries' = None /\ UNCHANGED stored

\* The process ends during a save.
EndInSave == Written /\ entries' = None

BookNext ==
  \/ \E x \in Names : Add(x) \/ Remove(x)
  \/ Save \/ Load \/ End \/ EndInSave

BookSpec == BookInit /\ [][BookNext]_bookVars
=============================================================================
