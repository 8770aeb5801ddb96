----------------------------- MODULE HttpClient -----------------------------
(***************************************************************************)
(* The HTTP client of http-connect.c: resolve, connect, send the request,  *)
(* collect the answer in a select/recv loop, save what follows the header. *)
(* The server sends, closes or resets between any two system calls, and    *)
(* may never come to an end.                                               *)
(*                                                                         *)
(* A response is a sequence of "a" and "b" (characters), "s" (the blank    *)
(* line that ends the header) and "0" (a zero byte).  Of a longer one only *)
(* the first MaxLength are recorded, also in `result' and in the file; the *)
(* rest, however long, is plain text.                                      *)
(***************************************************************************)
EXTENDS Integers, Sequences, SequencesExt

CONSTANTS
  MaxLength,  \* bound: how much of a response is recorded
  Chunk,      \* 1024: how much one recv takes
  Budget      \* 5 seconds: what select may wait, in ticks

Assumption == MaxLength \in Nat /\ Chunk \in Nat \ {0} /\ Budget \in Nat

VARIABLES
  step,      \* "resolve", "connect", "select", "recv", "save", "done" or "undefined"
  response,  \* what the server sends, as far as it gets
  sent,      \* how much of it has arrived
  beyond,    \* more than MaxLength has arrived: "none", "unread" or "read"
  peer,      \* "open", "closed" or "reset"
  received,  \* how much of it recv has returned
  result,    \* the string `result'
  tv,        \* what is left of the timeout: Linux takes off what select waited
  ended,     \* why the loop ended: "" (not yet), "close", "timeout" or "error"
  file       \* what fputs has written

serverVars == <<response, sent, beyond, peer>>
vars == <<step, serverVars, received, result, tv, ended, file>>

Init ==
  /\ step = "resolve"
  /\ response \in BoundedSeq({"a", "b", "s", "0"}, MaxLength)
  /\ sent = 0 /\ beyond = "none" /\ peer = "open" /\ received = 0 /\ result = <<>>
  /\ tv = Budget /\ ended = "" /\ file = <<>>

-----------------------------------------------------------------------------

Transmit ==
  /\ step \notin {"resolve", "connect"} /\ peer = "open" /\ sent < Len(response)
  /\ sent' = sent + 1
  /\ UNCHANGED <<step, response, beyond, peer, received, result, tv, ended, file>>

\* The server goes on, and may do so forever.
TransmitMore ==
  /\ step \notin {"resolve", "connect"} /\ peer = "open" /\ sent = MaxLength
  /\ beyond' = "unread"
  /\ UNCHANGED <<step, response, sent, peer, received, result, tv, ended, file>>

HangUp ==
  /\ step \notin {"resolve", "connect"} /\ peer = "open"
  /\ peer' \in {"closed", "reset"}
  /\ UNCHANGED <<step, response, sent, beyond, received, result, tv, ended, file>>

-----------------------------------------------------------------------------
(* Nobody looks at the results of gethostbyname and httpCreateSocket: a     *)
(* null pointer is followed, or -2 goes into an fd_set.                     *)

Resolve ==
  /\ step = "resolve" /\ step' \in {"connect", "undefined"}
  /\ UNCHANGED <<serverVars, received, result, tv, ended, file>>

Connect ==
  /\ step = "connect" /\ step' \in {"select", "undefined"}
  /\ UNCHANGED <<serverVars, received, result, tv, ended, file>>

-----------------------------------------------------------------------------
(* The loop.                                                               *)

Readable == received < sent \/ beyond = "unread" \/ peer # "open"

BeginRecv ==
  /\ step = "select" /\ Readable
  /\ step' = "recv"
  /\ UNCHANGED <<serverVars, received, result, ended, file>>

\* Mutation: the timeout is set in every round.
SelectAnew == BeginRecv /\ tv' = Budget

SelectReady == BeginRecv /\ UNCHANGED tv

\* Time passes in select; `tv' is not set again before the next one.
SelectWaits ==
  /\ step = "select" /\ ~Readable /\ tv > 0
  /\ tv' = tv - 1
  /\ UNCHANGED <<step, serverVars, received, result, ended, file>>

SelectTimesOut ==
  /\ step = "select" /\ ~Readable /\ tv = 0
  /\ step' = "save" /\ ended' = "timeout"
  /\ UNCHANGED <<serverVars, received, result, tv, file>>

\* strncat stops at a zero byte.
UpToNul(s) == LET z == SelectInSeq(s, LAMBDA x : x = "0")
              IN IF z = 0 THEN s ELSE SubSeq(s, 1, z - 1)

Arrived(n) == SubSeq(response, received + 1, received + n)
Taken == Min({Chunk, sent - received})

Collect ==
  /\ step = "recv" /\ received < sent
  /\ received' = received + Taken
  /\ result' = result \o UpToNul(Arrived(Taken))
  /\ UNCHANGED <<serverVars, tv, file>>

\* Mutation: a chunk shorter than the buffer is taken for the last one.
RecvUntilShort ==
  /\ Collect
  /\ IF Taken < Chunk THEN step' = "save" /\ ended' = "close"
                      ELSE step' = "select" /\ UNCHANGED ended

Recv == Collect /\ step' = "select" /\ UNCHANGED ended

RecvMore ==
  /\ step = "recv" /\ received = sent /\ beyond = "unread"
  /\ step' = "select" /\ beyond' = "read"
  /\ UNCHANGED <<response, sent, peer, received, result, tv, ended, file>>

AllRead == received = sent /\ beyond # "unread"

\* recv returns 0.
RecvClose ==
  /\ step = "recv" /\ AllRead /\ peer = "closed"
  /\ ended' = IF ended = "" THEN "close" ELSE ended
  /\ step' = "save"
  /\ UNCHANGED <<serverVars, received, result, tv, file>>

\* recv returns -1, and strlen(result) bytes are left for `result': none, which
\* frees it, or one too few, after which strncat looks for the end of the string
\* past the end of the block.  The buffer it appends has been cleared.  The error
\* is reported once; the next recv returns 0.
RecvFails ==
  /\ step = "recv" /\ AllRead /\ peer = "reset"
  /\ peer' = "closed" /\ ended' = "error"
  /\ step' \in {"undefined"} \cup (IF result = <<>> /\ beyond = "none" THEN {} ELSE {"select"})
  /\ UNCHANGED <<response, sent, beyond, received, result, tv, file>>

-----------------------------------------------------------------------------
(* saveHttp.                                                               *)

HeaderEnd(s) == SelectInSeq(s, LAMBDA x : x = "s")
AfterHeader(s) == SubSeq(s, HeaderEnd(s) + 1, Len(s))

\* The copy of the body is not terminated: fputs may write what lies behind it.
Save ==
  /\ step = "save" /\ HeaderEnd(result) > 0
  /\ \/ step' = "done"
        /\ file' \in {AfterHeader(result), Append(AfterHeader(result), "?")}
     \/ step' = "undefined" /\ UNCHANGED file   \* fopen fails
  /\ UNCHANGED <<serverVars, received, result, tv, ended>>

\* strstr finds no blank line.
SaveNothing ==
  /\ step = "save" /\ HeaderEnd(result) = 0
  /\ step' = "undefined"
  /\ UNCHANGED <<serverVars, received, result, tv, ended, file>>

Loop == SelectReady \/ SelectWaits \/ SelectTimesOut \/ Recv \/ RecvMore \/ RecvClose \/ RecvFails
ProgramStep == Resolve \/ Connect \/ Loop \/ Save \/ SaveNothing
Stopped == step \in {"done", "undefined"}

Next ==
  \/ Transmit \/ TransmitMore \/ HangUp \/ ProgramStep
  \/ Stopped /\ UNCHANGED vars

-----------------------------------------------------------------------------

Text == ~Contains(response, "0")

\* 101-127: however the response is cut into chunks, result is a prefix of what
\* the server sent, and all of it if the loop ended because the server closed the
\* connection; the file holds the part of it after the header.
SavedIsReceived ==
  Text => /\ IsPrefix(result, SubSeq(response, 1, sent))
          /\ ended = "close" => result = SubSeq(response, 1, sent)
          /\ step = "done" => IsPrefix(AfterHeader(result), file)
=============================================================================
