----------------------------- MODULE ImageStore -----------------------------
(***************************************************************************)
(* The image store of mysql.c, in its two builds.  WRITE inserts a row     *)
(* with one image; READ selects the rows of one user and saves an image    *)
(* from them.  Processes of both builds run at any time, READ one at a     *)
(* time.  Only the y_img column of that user's rows is modelled.           *)
(***************************************************************************)
EXTENDS Integers, Sequences, SequencesExt

CONSTANTS
  Images,        \* images, sequences of bytes
  NULL,          \* y_img of a row that was inserted without one
  BufferLength,  \* BUFFER_LENGTH
  MaxRows        \* bound: the rows of the user

Assumption ==
  /\ \A img \in Images : img \in Seq(0..255)
  /\ NULL \notin Images /\ BufferLength \in Nat /\ MaxRows \in Nat

VARIABLES
  table,   \* y_img of the user's rows
  step,    \* "select", "fetch", "save", "saved", "failed" or "undefined"
  result,  \* the rows that mysql_stmt_store_result has copied
  column,  \* how many of them have been fetched, and the column to fetch next
  total,   \* totalLength
  buffer,  \* the bytes of `buffer' that have been written
  copy     \* assets/copy.png

vars == <<table, step, result, column, total, buffer, copy>>

Init ==
  /\ table \in BoundedSeq(Images \cup {NULL}, MaxRows)
  /\ step = "select" /\ result = <<>> /\ column = 0 /\ total = 0
  /\ buffer = <<>> /\ copy = <<>>

\* The WRITE build: the file fits the buffer, and the statement succeeds.  If a call fails before
\* the server has executed the insert nothing happens; if the answer gets lost
\* after it, the row is there, and somebody may run the program again.
Write ==
  /\ Len(table) < MaxRows
  /\ \E img \in Images : Len(img) \in 1..BufferLength /\ table' = Append(table, img)
  /\ UNCHANGED <<step, result, column, total, buffer, copy>>

\* The READ build, up to mysql_stmt_store_result.
Select ==
  /\ step = "select"
  /\ result' = table /\ column' = 0 /\ total' = 0 /\ buffer' = <<>>
  /\ step' = "fetch"
  /\ UNCHANGED <<table, copy>>

SelectFails ==
  /\ step = "select" /\ step' = "failed"
  /\ UNCHANGED <<table, result, column, total, buffer, copy>>

\* Mutation: the offset is left at 0.
FetchedAgain(img) == [start \in DOMAIN img |-> img[1]]

\* mysql_stmt_fetch_column, a byte at a time.
Fetched(img) == [start \in DOMAIN img |-> img[start]]

\* mysql_stmt_fetch stores the row's length, and nothing for a NULL.  The
\* statement has one column, number 0: for later rows the inner loop fetches
\* nothing and counts up to the new length.
Fetch ==
  /\ step = "fetch" /\ column < Len(result)
  /\ LET img == result[column + 1]
     IN /\ total' = IF img = NULL THEN total ELSE Len(img)
        /\ buffer' = IF column = 0 /\ img # NULL THEN Fetched(img) ELSE buffer
  /\ column' = column + 1
  /\ step' = IF Len(buffer') > BufferLength THEN "undefined" ELSE "fetch"
  /\ UNCHANGED <<table, result, copy>>

FetchEnds ==
  /\ step = "fetch" /\ column = Len(result)
  /\ step' = "save"
  /\ UNCHANGED <<table, result, column, total, buffer, copy>>

\* What imgWrite finds: past the bytes that were written the buffer was never
\* initialised, and past its end anything may happen.
Garbage == -1
Found == [b \in 1..total |-> IF b <= Len(buffer) THEN buffer[b] ELSE Garbage]

\* imgWrite does not close the file: "saved" is the end of the process, when what
\* was written has been flushed.
Save ==
  /\ step = "save" /\ total \in 1..BufferLength
  /\ copy' = Found /\ step' = "saved"
  /\ UNCHANGED <<table, result, column, total, buffer>>

\* There is nothing to save, fopen fails, the disk is full, or the process is killed
\* before everything has been flushed.
SaveFails ==
  /\ step = "save" /\ total <= BufferLength
  /\ \/ UNCHANGED copy
     \/ \E n \in 0..total - 1 : copy' = SubSeq(Found, 1, n)
  /\ step' = "failed"
  /\ UNCHANGED <<table, result, column, total, buffer>>

SaveAstray ==
  /\ step = "save" /\ total > BufferLength
  /\ step' = "undefined"
  /\ UNCHANGED <<table, result, column, total, buffer, copy>>

\* The program is run again.
Restart ==
  /\ step \in {"saved", "failed"} /\ step' = "select"
  /\ UNCHANGED <<table, result, column, total, buffer, copy>>

Next ==
  \/ Write \/ Select \/ SelectFails \/ Fetch \/ FetchEnds
  \/ Save \/ SaveFails \/ SaveAstray \/ Restart
  \/ step = "undefined" /\ UNCHANGED vars

-----------------------------------------------------------------------------

\* 150-171: if the rows that were selected hold one and the same image, because an
\* insert whose answer got lost was repeated, say, then what is saved is that
\* image, whatever is inserted meanwhile.
CopyIsStored ==
  step = "saved" => \A img \in Images : ToSet(result) = {img} => copy = img
=============================================================================
