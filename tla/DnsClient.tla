------------------------------ MODULE DnsClient ------------------------------
(***************************************************************************)
(* The DNS client of dns.c: encode one query, send it in one datagram,     *)
(* decode the one that comes back, free the answer.  Messages are          *)
(* sequences of bytes; positions in them are C's offsets, from 0.          *)
(*                                                                         *)
(* The server is a correct one whose messages are shorter than 256 bytes;  *)
(* it compresses names or not, as it likes.                                *)
(***************************************************************************)
EXTENDS Integers, Sequences, SequencesExt

CONSTANTS
  Letter,      \* bytes of host names, other than the dot
  MaxHost,     \* bound: the length of a host name
  Labels,      \* labels the server's names start with
  Addresses,   \* host addresses
  MaxAnswers   \* bound: records in an answer

Dot == 46
A == 1
CNAME == 5
TEXT == 16   \* stands for any type that dnsResponseParse does not handle

MaxMessage == 256   \* bound: messages are shorter
MaxName == 128      \* what malloc has room for

Assumption ==
  /\ Letter \subseteq 1..255 \ {Dot} /\ MaxHost \in 0..MaxMessage - 19 /\ MaxAnswers \in Nat
  /\ \A l \in Labels : l \in Seq(1..255 \ {Dot}) /\ Len(l) \in 1..63
  /\ \A x \in Addresses : x \in Seq(0..255) /\ Len(x) = 4

VARIABLES
  step,      \* "send", "recv", "parse", "free", "done" or "undefined"
  hostname,
  request,   \* the bytes that are sent
  net,       \* "idle", "query", "answer" or "lost": the datagram under way
  response,  \* the bytes the server has put together
  names,     \* the names in the response, and where they start
  truth,     \* the records the server has encoded
  ptr,       \* the offset dnsResponseParse has come to
  list       \* dnsAnswer->body, first record first

serverVars == <<response, names, truth>>
vars == <<step, hostname, request, net, serverVars, ptr, list>>

Init ==
  /\ step = "send" /\ request = <<>> /\ net = "idle"
  /\ hostname \in BoundedSeq(Letter \cup {Dot}, MaxHost)
  /\ response = <<>> /\ names = {} /\ truth = <<>>
  /\ ptr = 0 /\ list = <<>>

Byte(m, o) == m[o + 1]
Short(m, o) == 256 * Byte(m, o) + Byte(m, o + 1)
Bytes(n) == <<n \div 256, n % 256>>

-----------------------------------------------------------------------------
(* The query.                                                              *)

\* strtok and strcpy: a label is written behind its length, and an empty one is not.
Put(l) == IF l.label = <<>> THEN l.written ELSE l.written \o <<Len(l.label)>> \o l.label

Read(c, l) == IF c = Dot THEN [written |-> Put(l), label |-> <<>>]
              ELSE [written |-> l.written, label |-> Append(l.label, c)]

\* What has been written, and the label that has begun, after each character.
LabelsOf(h) ==
  LET labels[k \in 0..Len(h)] ==
        IF k = 0 THEN [written |-> <<>>, label |-> <<>>] ELSE Read(h[k], labels[k - 1])
  IN labels

\* Mutation: no room for the first length byte.
BodyLengthShort(h) == Len(h) + 1

BodyLength(h) == Len(h) + 2

\* dnsCreateBody: what the labels do not fill of malloc's bytes keeps `rest'.
QName(h, rest) ==
  LET labels == Put(LabelsOf(h)[Len(h)])
      written == IF labels = <<>> THEN <<>> ELSE labels \o <<0>>
  IN [i \in 1..BodyLength(h) |-> IF i <= Len(written) THEN written[i] ELSE rest]

\* The random transaction number, which nobody looks at again, is 1.
Header(flags, answers) == Bytes(1) \o Bytes(flags) \o Bytes(1) \o Bytes(answers) \o Bytes(0) \o Bytes(0)
Recursive == 256

Send ==
  /\ step = "send"
  /\ \E rest \in {0, 255} :
       request' = Header(Recursive, 0) \o QName(hostname, rest) \o Bytes(A) \o Bytes(1)
  /\ step' = "recv" /\ net' = "query"
  /\ UNCHANGED <<hostname, serverVars, ptr, list>>

\* socket, sendto or recvfrom fails: main frees an answer that nobody has initialised.
CallFails ==
  /\ step = "send" \/ (step = "recv" /\ net \in {"query", "lost"})
  /\ step' = "undefined"
  /\ UNCHANGED <<hostname, request, net, serverVars, ptr, list>>

-----------------------------------------------------------------------------
(* The server and the network.                                             *)

MaxLabel == 63
Proper(h) == /\ h # <<>> /\ h[1] # Dot /\ h[Len(h)] # Dot
             /\ \A i \in 1..Len(h) - 1 : h[i] # Dot \/ h[i + 1] # Dot
             /\ \A i \in 0..Len(h) - MaxLabel - 1 : \E j \in 1..MaxLabel + 1 : h[i + j] = Dot

Question == SubSeq(request, 13, Len(request))
Answers == Short(response, 6)

\* The names in the question: the host name, and what follows each of its dots.
SuffixNames(h) == {[at |-> 11 + i, name |-> SubSeq(h, i, Len(h))] :
                     i \in {k \in 1..Len(h) : k = 1 \/ h[k - 1] = Dot}}

Reply == 33152   \* flags of an answer, to which the error code is added

\* A name that is not proper is malformed, and refused; any other may be unknown.
Begin ==
  /\ net = "query"
  /\ \E rcode \in {0, 1, 3}, n \in 0..MaxAnswers :
       /\ rcode = 0 => Proper(hostname)
       /\ rcode # 0 => n = 0
       /\ response' = Header(Reply + rcode, n) \o Question
  /\ names' = SuffixNames(hostname)
  /\ net' = "answer"
  /\ UNCHANGED <<step, hostname, request, truth, ptr, list>>

\* The ways to write a name: a pointer to one that is there, labels, or both.
Pointers == {[bytes |-> <<192, n.at>>, name |-> n.name] : n \in names}
Spelled == {[bytes |-> <<Len(l)>> \o l \o <<0>>, name |-> l] : l \in Labels}
           \cup {[bytes |-> <<Len(l)>> \o l \o p.bytes, name |-> l \o <<Dot>> \o p.name] :
                   l \in Labels, p \in Pointers}
Contents ==
  {[qType |-> A, bytes |-> x, data |-> x] : x \in Addresses}
  \cup {[qType |-> CNAME, bytes |-> n.bytes, data |-> n.name] : n \in Pointers \cup Spelled}
  \cup {[qType |-> TEXT, bytes |-> <<7>>, data |-> <<>>]}

AddRecord ==
  /\ net = "answer" /\ Len(truth) < Answers
  /\ \E owner \in Pointers \cup Spelled, c \in Contents :
       LET fixed == Bytes(c.qType) \o Bytes(1) \o <<0, 0, 1, 44>> \o Bytes(Len(c.bytes))
       IN /\ response' = response \o owner.bytes \o fixed \o c.bytes
          /\ Len(response') < MaxMessage
          /\ truth' = Append(truth, [name |-> owner.name, qType |-> c.qType, data |-> c.data])
          /\ names' = IF c.qType # CNAME THEN names
                      ELSE names \cup {[at |-> Len(response \o owner.bytes \o fixed), name |-> c.data]}
  /\ UNCHANGED <<step, hostname, request, net, ptr, list>>

\* recvfrom then waits forever: nothing is sent again.
Lose ==
  /\ net \in {"query", "answer"} /\ step = "recv"
  /\ net' = "lost"
  /\ UNCHANGED <<step, hostname, request, serverVars, ptr, list>>

-----------------------------------------------------------------------------
(* dnsResponseParse and freeDnsAnswer.                                     *)

IsPointer(b) == b >= 192   \* (b & 0xC0) == 0xC0

\* Mutation: a dot only if a label follows.
SeparatorBeforeLabel(b) == IF b = 0 \/ IsPointer(b) THEN <<>> ELSE <<Dot>>

Separator(b) == IF b = 0 THEN <<>> ELSE <<Dot>>

\* One round of dnsParseName at every offset, from the names that the rounds after it
\* read.  Of a pointer only the lower byte is used.
ReadName(m, rest) ==
  [p \in 0..Len(m) - 1 |->
     IF Byte(m, p) = 0 THEN <<>>
     ELSE IF IsPointer(Byte(m, p)) THEN rest[Byte(m, p + 1)]
     ELSE LET next == p + 1 + Byte(m, p)
          IN SubSeq(m, p + 2, next) \o Separator(Byte(m, next)) \o rest[next]]

\* The names of at most d labels and pointers.
NamesIn(m) ==
  LET name[d \in 0..Len(m)] ==
        IF d = 0 THEN [p \in 0..Len(m) - 1 |-> <<>>] ELSE ReadName(m, name[d - 1])
  IN name

\* No name of a correct message has more parts than the message has bytes.
NameAt(m, o) == NamesIn(m)[Len(m)][o]

\* One round of the loop that skips the question's name.
Skip(m, rest) == [p \in 0..Len(m) - 1 |-> IF Byte(m, p) = 0 THEN p + 1 ELSE rest[p + 1 + Byte(m, p)]]

\* Where a name of at most d labels ends.
EndsIn(m) ==
  LET end[d \in 0..Len(m)] ==
        IF d = 0 THEN [p \in 0..Len(m) - 1 |-> p + 1] ELSE Skip(m, end[d - 1])
  IN end

SkipName(m, o) == EndsIn(m)[Len(m)][o]

\* After an error main frees what was never initialised.
Receive ==
  /\ step = "recv" /\ net = "answer" /\ Len(truth) = Answers
  /\ net' = "idle"
  /\ IF Short(response, 2) % 16 # 0
       THEN step' = "undefined" /\ UNCHANGED ptr
       ELSE step' = "parse" /\ ptr' = SkipName(response, 12) + 4
  /\ UNCHANGED <<hostname, request, serverVars, list>>

\* From the type on: type, class, ttl (of which the upper half is kept), dataLen.
RecordEnd(o) == o + 10 + Short(response, o + 8)

\* dnsParseName ends no string, and its length is dropped: what malloc left in the
\* block, up to the first zero byte, follows the name.  255 stands for any of it.
Leftovers == {<<>>, <<255>>}

Named(o) == {NameAt(response, o) \o rest : rest \in Leftovers}

\* An address stands for the text inet_ntop makes of it, in place, in a block of
\* malloc(4), which in the C library's allocator holds 24 bytes.
Data(o) ==
  LET t == Short(response, o)
  IN CASE t = CNAME -> Named(o + 10)
       [] t = A /\ Short(response, o + 8) = 4 -> {SubSeq(response, o + 11, o + 14)}
       [] OTHER -> {<<>>}   \* left unassigned

Readable == IsPointer(Byte(response, ptr)) /\ Len(NameAt(response, ptr)) <= MaxName

\* Two bytes are skipped for the name, as if it were always a pointer.
ParseRecord ==
  /\ step = "parse" /\ Len(list) < Answers /\ Readable
  /\ \E name \in Named(ptr), data \in Data(ptr + 2) :
       list' = <<[name |-> name, qType |-> Short(response, ptr + 2), data |-> data]>> \o list
  /\ ptr' = RecordEnd(ptr + 2)
  /\ UNCHANGED <<step, hostname, request, net, serverVars>>

\* The parse goes on in the middle of the name and may leave the message, or the
\* name is written past the end of its block.
ParseAstray ==
  /\ step = "parse" /\ Len(list) < Answers /\ ~Readable
  /\ step' = "undefined"
  /\ UNCHANGED <<hostname, request, net, serverVars, ptr, list>>

ParseEnds ==
  /\ step = "parse" /\ Len(list) = Answers
  /\ step' = "free"
  /\ UNCHANGED <<hostname, request, net, serverVars, ptr, list>>

\* The loop goes on with ++i, which is not the next element.
FreeAnswer ==
  /\ step = "free"
  /\ step' = IF list = <<>> THEN "done" ELSE "undefined"
  /\ UNCHANGED <<hostname, request, net, serverVars, ptr, list>>

Stopped == step \in {"done", "undefined"} \/ (step = "recv" /\ net = "lost")

Next ==
  \/ Send \/ CallFails \/ Begin \/ AddRecord \/ Lose
  \/ Receive \/ ParseRecord \/ ParseAstray \/ ParseEnds \/ FreeAnswer
  \/ Stopped /\ UNCHANGED vars

-----------------------------------------------------------------------------

\* dnsCreateBody, 96-113, and dnsMergeRequest: the length byte of each label takes
\* the place of the dot before it, so the question fills what was allocated for
\* it, and type and class follow where the server looks for them.
QueryIsEncoded ==
  net = "query" /\ Proper(hostname) =>
    LET n == Len(hostname)
        starts == {0} \cup {i \in 1..n : hostname[i] = Dot}
        After(i) == CHOOSE j \in i + 1..n + 1 :
                      /\ j = n + 1 \/ hostname[j] = Dot
                      /\ \A k \in i + 1..j - 1 : hostname[k] # Dot
    IN /\ \A i \in 0..n : Question[i + 1] = IF i \in starts THEN After(i) - i - 1 ELSE hostname[i]
       /\ SubSeq(Question, n + 2, Len(Question)) = <<0>> \o Bytes(A) \o Bytes(1)

\* A parsed record begins with the names of an encoded one, and has its address.
IsParsed(r, t) ==
  /\ r.qType = t.qType /\ IsPrefix(t.name, r.name)
  /\ IF t.qType = CNAME THEN IsPrefix(t.data, r.data) ELSE r.data = t.data

\* dnsResponseParse, 302-341: whatever mixture of labels and pointers the server
\* uses inside the records, each is decoded to what was encoded, in reverse order,
\* and the next one begins where the parser expects it.  Only where a decoded name
\* ends is lost.
ListIsAnswer ==
  step \in {"parse", "free"} =>
    /\ \A k \in 1..Len(list) : IsParsed(list[k], truth[Len(list) - k + 1])
    /\ Len(list) = Answers => ptr = Len(response)
=============================================================================
