------------------------------ MODULE Programs ------------------------------
(***************************************************************************)
(* The repository's small programs, which have nothing to do with each     *)
(* other, side by side: each behaviour is one of one program.  Constants   *)
(* and variables are those of the programs' modules; a name that several   *)
(* of them have is declared once.  The variables of the other programs     *)
(* stay at 0.                                                              *)
(***************************************************************************)
EXTENDS Integers, Sequences

CONSTANTS
  Threads, Rounds,                                     \* LockCounter
  Fds, Cap, Round, MaxPort, MaxInbox,                  \* EpollClient
  MaxLength, Chunk, Budget,                            \* HttpClient
  Letter, MaxHost, Labels, Addresses, MaxAnswers,      \* DnsClient
  Images, NULL, BufferLength, MaxRows,                 \* ImageStore
  N, Key, Position                                     \* BloomFilter

VARIABLES
  program,
  running, count, old, i, pc,                                         \* LockCounter
  index, sockfd, connections, events, open, inbox, gone, full,        \* EpollClient
  sent, beyond, peer, received, tv, ended, file,                      \* HttpClient
  hostname, request, net, names, truth, ptr, list,                    \* DnsClient
  table, column, total, buffer, copy,                                 \* ImageStore
  bitArr, added,                                                      \* BloomFilter
  step, response, result                                              \* of several

counterVars == <<running, count, old, i, pc>>
generatorVars == <<index, sockfd, connections, events, open, inbox, gone, full>>
httpVars == <<sent, beyond, peer, received, tv, ended, file>>
dnsVars == <<hostname, request, net, names, truth, ptr, list>>
imageVars == <<table, column, total, buffer, copy>>
bloomVars == <<bitArr, added>>
vars == <<program, counterVars, generatorVars, httpVars, dnsVars, imageVars,
          bloomVars, step, response, result>>

Counter == INSTANCE LockCounter
Generator == INSTANCE EpollClient
Http == INSTANCE HttpClient
Dns == INSTANCE DnsClient
Store == INSTANCE ImageStore
Bloom == INSTANCE BloomFilter

ASSUME ProgramsAssumption ==
  /\ Counter!Assumption /\ Generator!Assumption /\ Http!Assumption
  /\ Dns!Assumption /\ Store!Assumption /\ Bloom!Assumption

NoCounter == running = 0 /\ count = 0 /\ old = 0 /\ i = 0 /\ pc = 0
NoGenerator ==
  /\ index = 0 /\ sockfd = 0 /\ connections = 0 /\ events = 0
  /\ open = 0 /\ inbox = 0 /\ gone = 0 /\ full = 0
NoHttp == sent = 0 /\ beyond = 0 /\ peer = 0 /\ received = 0 /\ tv = 0 /\ ended = 0 /\ file = 0
NoDns ==
  /\ hostname = 0 /\ request = 0 /\ net = 0 /\ names = 0
  /\ truth = 0 /\ ptr = 0 /\ list = 0
NoImages == table = 0 /\ column = 0 /\ total = 0 /\ buffer = 0 /\ copy = 0
NoBloom == bitArr = 0 /\ added = 0

Init ==
  \/ /\ program = "counter" /\ Counter!Init
     /\ NoGenerator /\ NoHttp /\ NoDns /\ NoImages /\ NoBloom
     /\ step = 0 /\ response = 0 /\ result = 0
  \/ /\ program = "generator" /\ Generator!Init
     /\ NoCounter /\ NoHttp /\ NoDns /\ NoImages /\ NoBloom
     /\ response = 0 /\ result = 0
  \/ /\ program = "http" /\ Http!Init
     /\ NoCounter /\ NoGenerator /\ NoDns /\ NoImages /\ NoBloom
  \/ /\ program = "dns" /\ Dns!Init
     /\ NoCounter /\ NoGenerator /\ NoHttp /\ NoImages /\ NoBloom
     /\ result = 0
  \/ /\ program = "images" /\ Store!Init
     /\ NoCounter /\ NoGenerator /\ NoHttp /\ NoDns /\ NoBloom
     /\ response = 0
  \/ /\ program = "bloom" /\ Bloom!Init
     /\ NoCounter /\ NoGenerator /\ NoHttp /\ NoDns /\ NoImages
     /\ step = 0 /\ response = 0 /\ result = 0

\* What the steps of each program leave alone.
CounterOnly == /\ program = "counter" /\ UNCHANGED program
               /\ UNCHANGED <<generatorVars, httpVars, dnsVars, imageVars, bloomVars>>
               /\ UNCHANGED <<step, response, result>>
GeneratorOnly == /\ program = "generator" /\ UNCHANGED program
                 /\ UNCHANGED <<counterVars, httpVars, dnsVars, imageVars, bloomVars>>
                 /\ UNCHANGED <<response, result>>
HttpOnly == /\ program = "http" /\ UNCHANGED program
            /\ UNCHANGED <<counterVars, generatorVars, dnsVars, imageVars, bloomVars>>
DnsOnly == /\ program = "dns" /\ UNCHANGED program
           /\ UNCHANGED <<counterVars, generatorVars, httpVars, imageVars, bloomVars>>
           /\ UNCHANGED result
ImagesOnly == /\ program = "images" /\ UNCHANGED program
              /\ UNCHANGED <<counterVars, generatorVars, httpVars, dnsVars, bloomVars>>
              /\ UNCHANGED response
BloomOnly == /\ program = "bloom" /\ UNCHANGED program
             /\ UNCHANGED <<counterVars, generatorVars, httpVars, dnsVars, imageVars>>
             /\ UNCHANGED <<step, response, result>>

Next ==
  \/ CounterOnly /\ Counter!Next
  \/ GeneratorOnly /\ Generator!Next
  \/ HttpOnly /\ Http!Next
  \/ DnsOnly /\ Dns!Next
  \/ ImagesOnly /\ Store!Next
  \/ BloomOnly /\ Bloom!Next

\* The scheduler runs every thread of the counter.  The HTTP client runs and time
\* passes; its server need not do anything.
Spec ==
  /\ Init /\ [][Next]_vars
  /\ \A t \in Threads : WF_vars(CounterOnly /\ Counter!ThreadStep(t))
  /\ WF_vars(HttpOnly /\ Http!ProgramStep)

-----------------------------------------------------------------------------
(* The properties, each of its own program; the modules say what they mean. *)

\* lock.c: no update is counted twice.
NeverAhead == program = "counter" => Counter!NeverAhead

\* lock.c: at least two updates survive.
TwoSurvive == program = "counter" => Counter!TwoSurvive

\* lock.c, 46: no thread fails its comparison forever: somebody's rounds run out,
\* so that the loops of all threads end, unless main's return ends the process first.
Finishes == <>(program = "counter" => Counter!AllDone \/ ~running)

\* tcp-connect.c: the count is off only upwards, and within the cap.
OpenAreCounted == program = "generator" => Generator!OpenAreCounted

\* tcp-connect.c: what a batch closes does not invalidate the rest of it.
EventsAreOpen == program = "generator" => Generator!EventsAreOpen

\* http-connect.c: what is collected and saved is what was sent.
SavedIsReceived == program = "http" => Http!SavedIsReceived

\* The server does not always have more to read before select can wait for it.
ServerPauses == SF_vars(HttpOnly /\ (Http!SelectWaits \/ Http!SelectTimesOut))

\* http-connect.c, 107-131: the timeout is one for all rounds, so the loop ends even
\* if the server keeps the connection open and sends a little now and then, forever.
Ends == ServerPauses => <>(program = "http" => Http!Stopped)

\* dns.c: the query holds the host name as the server reads it.
QueryIsEncoded == program = "dns" => Dns!QueryIsEncoded

\* dns.c: the list holds what the server has encoded.
ListIsAnswer == program = "dns" => Dns!ListIsAnswer

\* mysql.c: a saved image is the stored one.
CopyIsStored == program = "images" => Store!CopyIsStored

\* bloomfilter.h: test never denies what was put in.
NoFalseNegatives == program = "bloom" => Bloom!NoFalseNegatives
=============================================================================
