---------------------------- MODULE AddressBook ----------------------------
(***************************************************************************)
(* The address book of address-book.c: a doubly linked list of persons     *)
(* sorted by name, built from malloc'ed nodes, the menu loop of main, and  *)
(* the file the list is saved to and loaded from.  One step is one round   *)
(* of the menu loop.                                                       *)
(*                                                                         *)
(* Names are numbers in strcmp's order, short enough for their buffers;    *)
(* the phone number travels with the name and is left out.                 *)
(***************************************************************************)
EXTENDS Integers, Sequences, FiniteSets, SequencesExt

CONSTANTS
  Nodes,      \* what malloc may return for a node
  Names,      \* names a person may have
  Q,          \* the name "q"
  Null, Raw,  \* the null pointer; the value of a pointer never assigned
  Fresh       \* what a link of a malloc'ed node may hold

ASSUME NodesAssumption == IsFiniteSet(Nodes) /\ {Null, Raw} \cap Nodes = {} /\ Null # Raw
ASSUME NamesAssumption == Names \subseteq Int /\ Q \in Names
ASSUME FreshAssumption == Fresh \subseteq {Null, Raw} /\ Fresh # {}

Commands == {"INSERT", "PRINT", "DELETE", "SEARCH", "SAVE", "LOAD"}

VARIABLES
  running,  \* whether the process is in the menu loop
  select,   \* main's variable: a command, or "none" at the start
  pending,  \* TRUE while a "q" that scanf("%d") refused is left in stdin
  book,     \* the heap: front, prev, next, name, live (nodes not freed) and
            \* wild (an unassigned pointer has been followed)
  size,     \* contacts->size
  file,     \* the names in the file, in order; none if there is no file
  noData    \* TRUE if the last round answered that there is no data

vars == <<running, select, pending, book, size, file, noData>>

EmptyBook == [front |-> Null,
              prev |-> [n \in Nodes |-> Null], next |-> [n \in Nodes |-> Null],
              name |-> [n \in Nodes |-> Q], live |-> {}, wild |-> FALSE]

Init ==
  /\ running = TRUE /\ select = "none" /\ pending = FALSE /\ noData = FALSE
  /\ book = EmptyBook /\ size = 0
  /\ file = <<>>

-----------------------------------------------------------------------------
(* Walking the list.                                                       *)

\* The pointers a loop over the list sees: Walk(b)[i] after i steps.
Walk(b) ==
  LET w[i \in 0..Cardinality(Nodes)] ==
        IF i = 0 THEN b.front
        ELSE IF w[i - 1] \in Nodes THEN b.next[w[i - 1]] ELSE w[i - 1]
  IN w

\* Where a loop stops that looks for one of the nodes S: there, at Null, or at Raw.
Find(b, S) ==
  LET w == Walk(b)
  IN w[Min({i \in DOMAIN w : w[i] \in S \/ w[i] \notin Nodes})]

Named(b, x) == {k \in Nodes : b.name[k] = x}

Listed(b) == Range(Walk(b)) \cap Nodes
LastNode(b) == CHOOSE n \in Listed(b) : b.next[n] = Null
NamesOf(b) == LET w == Walk(b)
              IN [i \in 1..Cardinality(Range(w) \cap Nodes) |-> b.name[w[i - 1]]]

\* A loop over the whole list reaches an unassigned link.
WalksWild(b) == Find(b, {}) = Raw
Touch(b, wild) == [b EXCEPT !.wild = @ \/ wild]

-----------------------------------------------------------------------------
(* list_insert_front, list_delete, person_insert.                          *)

\* Mutation: every node goes to the front.
PushFront(b, n, x, c) ==
  LET m == [b EXCEPT !.name[n] = x, !.live = @ \cup {n}, !.front = n,
                     !.prev[n] = Null, !.next[n] = b.front]
  IN IF b.front = Null THEN m ELSE [m EXCEPT !.prev[b.front] = n]

\* What malloc leaves in the two links of a node: neither depends on the other.
Leftovers == [prev : Fresh, next : Fresh]

\* A first node keeps the links c that malloc left in it.  Any other goes in
\* front of the first node whose name is not smaller, or to the end.
ListInsert(b, n, x, c) ==
  LET m == [b EXCEPT !.name[n] = x, !.live = @ \cup {n}]
      at == Find(b, {k \in Nodes : x <= b.name[k]})
  IN CASE b.front = Null -> [m EXCEPT !.front = n, !.prev[n] = c.prev, !.next[n] = c.next]
       [] at = Raw -> Touch(m, TRUE)
       [] at = Null /\ b.front # Null ->
            [m EXCEPT !.next[LastNode(b)] = n, !.prev[n] = LastNode(b), !.next[n] = Null]
       [] at \in Nodes ->
            LET before == b.prev[at]
                linked == [m EXCEPT !.next[n] = at, !.prev[n] = before, !.prev[at] = n]
            IN CASE before = Raw -> Touch(m, TRUE)
                 [] before = Null -> [linked EXCEPT !.front = n]
                 [] OTHER -> [linked EXCEPT !.next[before] = n]

\* Mutation: the next node keeps its link to the deleted one.
UnlinkForward(b, n) ==
  LET p == b.prev[n]
      q == b.next[n]
  IN [b EXCEPT !.next = [k \in Nodes |-> IF k = n THEN Null ELSE IF k = p THEN q ELSE @[k]],
               !.prev[n] = Null,
               !.front = IF @ = n THEN q ELSE @,
               !.name[n] = Q, !.live = @ \ {n}]

ListDelete(b, n) ==
  LET p == b.prev[n]
      q == b.next[n]
  IN IF Raw \in {p, q}
       THEN Touch(b, TRUE)
       ELSE [b EXCEPT !.next = [k \in Nodes |-> IF k = n THEN Null ELSE IF k = p THEN q ELSE @[k]],
                      !.prev = [k \in Nodes |-> IF k = n THEN Null ELSE IF k = q THEN p ELSE @[k]],
                      !.front = IF @ = n THEN q ELSE @,
                      !.name[n] = Q, !.live = @ \ {n}]

\* Any address will do: nodes differ only in their place in the list.
PersonInsert(b, x, c) == ListInsert(b, CHOOSE n \in Nodes \ b.live : TRUE, x, c)

\* load_entry's loop: the records of `names' are inserted one after the other.
\* If that follows an unassigned link, the book is only said to be wild.
Loaded(b, names, c) ==
  LET loaded[k \in 0..Len(names)] ==
        IF k = 0 THEN b
        ELSE IF loaded[k - 1].wild THEN loaded[k - 1]
        ELSE PersonInsert(loaded[k - 1], names[k], c)
      r == loaded[Len(names)]
  IN IF r.wild THEN Touch(b, TRUE) ELSE r

Room(k) == k <= Cardinality(Nodes \ book.live)

-----------------------------------------------------------------------------
(* The menu loop.  A "q" makes scanf("%d", &select) fail: it stays in      *)
(* stdin, `select' keeps its value, and the switch goes by that.           *)

\* The user types the command's number, or types "q" (or has done so before).
Choose(command, q) ==
  /\ running /\ ~book.wild
  /\ \/ ~q /\ ~pending /\ select' = command
     \/ q /\ select = command /\ UNCHANGED select

\* scanf("%s", name) takes the "q" that is left in stdin, if there is one.
EnterName(x, q) == (q => x = Q) /\ pending' = FALSE
LeaveInput(q) == pending' = q

InsertEntry == \E q \in BOOLEAN, x \in Names, c \in Leftovers :
  /\ Choose("INSERT", q) /\ EnterName(x, q)
  /\ Room(1)
  /\ book' = PersonInsert(book, x, c)
  /\ size' = size + 1
  /\ noData' = FALSE
  /\ UNCHANGED <<running, file>>

PrintEntry == \E q \in BOOLEAN :
  /\ Choose("PRINT", q) /\ LeaveInput(q)
  /\ book' = Touch(book, WalksWild(book))
  /\ noData' = FALSE
  /\ UNCHANGED <<running, size, file>>

\* Mutation: the size is not decremented.
DeleteUncounted == \E q \in BOOLEAN, x \in Names :
  /\ Choose("DELETE", q) /\ size # 0 /\ EnterName(x, q) /\ noData' = FALSE
  /\ LET at == Find(book, Named(book, x))
     IN book' = IF at \in Nodes THEN ListDelete(book, at) ELSE Touch(book, at = Raw)
  /\ UNCHANGED <<running, size, file>>

DeleteEntry == \E q \in BOOLEAN :
  /\ Choose("DELETE", q)
  /\ \/ /\ size = 0
        /\ noData' = TRUE
        /\ LeaveInput(q)
        /\ UNCHANGED <<book, size>>
     \/ /\ size # 0
        /\ noData' = FALSE
        /\ \E x \in Names :
             /\ EnterName(x, q)
             /\ LET at == Find(book, Named(book, x))
                IN IF at \in Nodes
                     THEN book' = ListDelete(book, at) /\ size' = size - 1
                     ELSE book' = Touch(book, at = Raw) /\ UNCHANGED size
  /\ UNCHANGED <<running, file>>

SearchEntry == \E q \in BOOLEAN, x \in Names :
  /\ Choose("SEARCH", q) /\ EnterName(x, q)
  /\ book' = Touch(book, Find(book, Named(book, x)) = Raw)
  /\ noData' = FALSE
  /\ UNCHANGED <<running, size, file>>

\* An empty list is not written, nor is any if fopen fails: the old file stays as
\* it is.  Otherwise the file has the records that fwrite and fclose, which nobody
\* tests, got onto the disk: all of them, or those that fitted.
SaveEntry == \E q \in BOOLEAN :
  /\ Choose("SAVE", q) /\ LeaveInput(q)
  /\ noData' = FALSE
  /\ \/ UNCHANGED <<book, file>>
     \/ /\ book.front # Null
        /\ book' = Touch(book, WalksWild(book))
        /\ \E k \in 0..Len(NamesOf(book)) : file' = SubSeq(NamesOf(book), 1, k)
  /\ UNCHANGED <<running, size>>

\* Mutation: feof is asked before the first read, and the last record is
\* inserted twice.
LoadOnceMore == \E q \in BOOLEAN, c \in Leftovers :
  /\ Choose("LOAD", q) /\ LeaveInput(q)
  /\ file # <<>> /\ Room(Len(file) + 1)
  /\ book' = Loaded(book, Append(file, file[Len(file)]), c)
  /\ noData' = FALSE
  /\ UNCHANGED <<running, size, file>>

\* The records of the file are added to the list, unless fopen fails;
\* contacts->size is not touched.
LoadEntry == \E q \in BOOLEAN :
  /\ Choose("LOAD", q) /\ LeaveInput(q)
  /\ \/ UNCHANGED book
     \/ Room(Len(file)) /\ \E c \in Leftovers : book' = Loaded(book, file, c)
  /\ noData' = FALSE
  /\ UNCHANGED <<running, size, file>>

\* Another number leaves the loop; so does a "q" before the first command.
Leave ==
  /\ running /\ ~book.wild
  /\ ~pending
  /\ running' = FALSE
  /\ UNCHANGED <<select, pending, book, size, file, noData>>

Restarted ==
  /\ running' = TRUE /\ select' = "none" /\ pending' = FALSE /\ noData' = FALSE
  /\ book' = EmptyBook /\ size' = 0

Restart == ~running /\ Restarted /\ UNCHANGED file

\* The process is killed between fopen and fclose: the records whose bytes were
\* flushed are in the file, and a record that was cut is not read again.
KilledInSave ==
  /\ running /\ ~book.wild /\ (~pending \/ select = "SAVE")
  /\ book.front # Null /\ ~WalksWild(book)
  /\ \E k \in 0..Len(NamesOf(book)) : file' = SubSeq(NamesOf(book), 1, k)
  /\ Restarted

\* malloc returns a null pointer, which nobody tests for: the process dies.
OutOfMemory == \E q \in BOOLEAN :
  /\ running /\ ~book.wild /\ (~q => ~pending)
  /\ \/ (q => select = "INSERT") /\ ~Room(1)
     \/ (q => select = "LOAD") /\ ~Room(Len(file))
  /\ Restarted
  /\ UNCHANGED file

Next ==
  \/ InsertEntry \/ PrintEntry \/ DeleteEntry \/ SearchEntry \/ SaveEntry \/ LoadEntry
  \/ Leave \/ Restart \/ KilledInSave \/ OutOfMemory
  \/ book.wild /\ UNCHANGED vars

Spec == Init /\ [][Next]_vars

-----------------------------------------------------------------------------
(* Invariants.                                                             *)

\* list_insert_front and list_delete: the nodes that are not freed are the
\* nodes of the list, and prev leads back along the way next leads.  What malloc
\* left in a first node's links stays at an end of the list: no other node lacks
\* its prev, and only a node that is alone lacks both links.
Linked == ~book.wild =>
  /\ Listed(book) = book.live
  /\ LET w == Walk(book)
     IN /\ \A i \in DOMAIN w :
             w[i] \in Nodes =>
               IF i = 0 THEN book.prev[w[i]] \in {Null, Raw} ELSE book.prev[w[i]] = w[i - 1]
        /\ w[0] \in Nodes /\ book.prev[w[0]] = Raw /\ WalksWild(book) => book.live = {w[0]}

\* The list is sorted by name, whatever was inserted, deleted and loaded before,
\* and so is the file.
Sorted ==
  \A s \in {NamesOf(book), file} : \A i \in 1..Len(s) - 1 : s[i] <= s[i + 1]

\* contacts->size is not the length of the list, but never exceeds it: a delete
\* that passes the test against zero always has a node to delete.  Nor is it ever
\* negative, although what is deleted may have been loaded and not counted.
SizeCovered == size \in 0..Cardinality(book.live)

-----------------------------------------------------------------------------
(* What a message of the program says.                                     *)

\* address-book.c:184: the answer that there is no data is given for an empty book.
NoDataMeansEmpty == noData => book.live = {}

-----------------------------------------------------------------------------
(* The list and the file implement two bags of names.                      *)

CountIn(s, x) == Cardinality({i \in DOMAIN s : s[i] = x})

Abstract == INSTANCE Book
              WITH entries <- [x \in Names |-> CountIn(NamesOf(book), x)],
                   stored <- [x \in Names |-> CountIn(file, x)]

BookSpec == Abstract!BookSpec
=============================================================================
