----------------------------- MODULE TcpServer ------------------------------
(***************************************************************************)
(* The epoll server of tcp-server.c and, as its environment, the kernel's  *)
(* sockets and the peers.  Listening sockets are level-triggered; accepted *)
(* sockets are non-blocking and edge-triggered, so the server has to read  *)
(* each of them dry.  Peers act between any two system calls.              *)
(*                                                                         *)
(* Data is counted in chunks, one for each recv that returns a positive    *)
(* length.                                                                 *)
(***************************************************************************)
EXTENDS Integers, Sequences, FiniteSets, SequencesExt

CONSTANTS
  Ports,     \* the ports to listen on
  Peers,     \* peers; each of them connects once
  Binary,    \* the peers whose data may hold zero bytes
  Backlog,   \* connections a listening socket queues
  MaxEvents, \* 1024: the size of epollEvent
  MaxSends   \* bound: chunks a peer sends

ASSUME PortsAssumption == IsFiniteSet(Ports) /\ IsFiniteSet(Peers) /\ Ports \cap Peers = {}
ASSUME BoundsAssumption ==
  Backlog \in Nat \ {0} /\ MaxEvents \in Nat \ {0} /\ MaxSends \in Nat

VARIABLES
  server,    \* "setup", "wait" (in epoll_wait), "events", "recv" or "exited"
  listening, \* ports whose socket listens and is watched
  events,    \* epollEvent[i..nready-1]: what is left of the batch
  message,   \* chunks in `message'
  queued,    \* queued[q]: the peers in the accept queue of port q
  socket,    \* socket[p], at the server: "none", "queued", "open" (and watched),
             \* "unwatched" or "closed"
  inbox,     \* inbox[p]: chunks in the receive buffer
  sent,      \* sent[p]: chunks p has sent
  printed,   \* printed[p]: chunks of p that have been printed
  gone,      \* peers that have closed or reset their side
  ready      \* accepted sockets on epoll's ready list

serverVars == <<server, listening, events, message, printed>>
vars == <<server, listening, events, message, queued, socket, inbox,
          sent, printed, gone, ready>>

Init ==
  /\ server = "setup" /\ listening = {}
  /\ events = <<>> /\ message = 0
  /\ queued = [q \in Ports |-> <<>>]
  /\ socket = [p \in Peers |-> "none"] /\ gone = {}
  /\ inbox = [p \in Peers |-> 0] /\ sent = [p \in Peers |-> 0]
  /\ printed = [p \in Peers |-> 0]
  /\ ready = {}

-----------------------------------------------------------------------------
(* The kernel and the peers.                                               *)

Connected(p) == socket[p] \in {"queued", "open", "unwatched"}

\* Whatever arrives on a watched socket puts it on the ready list.
Notify(p) == ready' = IF socket[p] = "open" THEN ready \cup {p} ELSE ready

Connect(p, q) ==
  /\ server # "exited" /\ q \in listening
  /\ socket[p] = "none"
  /\ Len(queued[q]) < Backlog
  /\ queued' = [queued EXCEPT ![q] = Append(@, p)]
  /\ socket' = [socket EXCEPT ![p] = "queued"]
  /\ UNCHANGED <<serverVars, inbox, sent, gone, ready>>

Send(p) ==
  /\ Connected(p) /\ p \notin gone
  /\ sent[p] < MaxSends
  /\ sent' = [sent EXCEPT ![p] = @ + 1]
  /\ inbox' = [inbox EXCEPT ![p] = @ + 1]
  /\ Notify(p)
  /\ UNCHANGED <<serverVars, queued, socket, gone>>

\* The peer closes its socket or resets the connection.  Linux hands out what is
\* in the receive buffer first in both cases; then recv returns 0 or ECONNRESET.
Disconnect(p) ==
  /\ Connected(p) /\ p \notin gone
  /\ gone' = gone \cup {p}
  /\ Notify(p)
  /\ UNCHANGED <<serverVars, queued, socket, inbox, sent>>

PeerStep(p) == (\E q \in Ports : Connect(p, q)) \/ Send(p) \/ Disconnect(p)

-----------------------------------------------------------------------------
(* tcpCreateServer up to the loop.                                         *)

\* socket, bind, listen and epoll_ctl for the next port.
Listen ==
  /\ server = "setup"
  /\ \E q \in Ports \ listening : listening' = listening \cup {q}
  /\ server' = IF listening' = Ports THEN "wait" ELSE "setup"
  /\ UNCHANGED <<events, message, queued, socket, inbox, sent, printed, gone, ready>>

\* socket, bind or listen fails: the function returns -2, -3 or -4.
SetupFails ==
  /\ server = "setup"
  /\ server' = "exited"
  /\ UNCHANGED <<listening, events, message, queued, socket, inbox, sent,
                 printed, gone, ready>>

-----------------------------------------------------------------------------
(* The loop.                                                               *)

Pending == {q \in listening : queued[q] # <<>>} \cup ready

\* What does not fit into epollEvent is reported next time.  Reporting takes an
\* edge-triggered socket off the ready list; without events the call times out.
EpollWait ==
  /\ server = "wait"
  /\ Pending # {}
  /\ LET n == Min({MaxEvents, Cardinality(Pending)})
     IN \E batch \in kSubset(n, Pending) : /\ events' \in SetToSeqs(batch)
                                           /\ ready' = ready \ batch
  /\ server' = "events"
  /\ UNCHANGED <<listening, message, queued, socket, inbox, sent, printed, gone>>

NextEvent == /\ events' = Tail(events)
             /\ server' = IF Tail(events) = <<>> THEN "wait" ELSE "events"

\* accept and fcntl.  EPOLL_CTL_ADD reports what has arrived before.
TakeConnection(state) ==
  /\ server = "events" /\ Head(events) \in Ports
  /\ LET q == Head(events)
         p == Head(queued[q])
     IN /\ queued' = [queued EXCEPT ![q] = Tail(@)]
        /\ socket' = [socket EXCEPT ![p] = state]
        /\ ready' = ready \cup {r \in {p} : state = "open" /\ (inbox[p] > 0 \/ p \in gone)}
  /\ UNCHANGED <<listening, message, inbox, sent, printed, gone>>

\* Mutation: accept is called once more for the same event.
AcceptAgain == TakeConnection("open") /\ UNCHANGED <<server, events>>

Accept == TakeConnection("open") /\ NextEvent

\* EPOLL_CTL_ADD fails, which nobody tests: no event will ever be about the socket.
AcceptUnwatched == TakeConnection("unwatched") /\ NextEvent

\* accept fails (no descriptor is left): the function returns -5.
AcceptFails ==
  /\ server = "events" /\ Head(events) \in Ports
  /\ server' = "exited"
  /\ UNCHANGED <<listening, events, message, queued, socket, inbox, sent,
                 printed, gone, ready>>

BeginRecv ==
  /\ server = "events" /\ Head(events) \in Peers
  /\ server' = "recv" /\ message' = 0
  /\ UNCHANGED <<listening, events, queued, socket, inbox, sent, printed, gone, ready>>

Reading == Head(events)

TakeChunk ==
  /\ server = "recv" /\ inbox[Reading] > 0
  /\ inbox' = [inbox EXCEPT ![Reading] = @ - 1]
  /\ UNCHANGED <<listening, queued, socket, sent, gone, ready>>

\* Mutation: one recv for each event, and its chunk is printed.
RecvOnce == /\ TakeChunk /\ NextEvent /\ UNCHANGED message
            /\ printed' = [printed EXCEPT ![Reading] = @ + 1]

\* Mutation: message is overwritten, not extended.
RecvOver == TakeChunk /\ message' = 1 /\ UNCHANGED <<server, events, printed>>

\* strncat drops what follows a zero byte, and with it a chunk or a part of one.
Recv == /\ TakeChunk /\ UNCHANGED <<server, events, printed>>
        /\ message' \in {message + 1} \cup IF Reading \in Binary THEN {message} ELSE {}

PrintMessage ==
  /\ server = "recv" /\ inbox[Reading] = 0
  /\ printed' = [printed EXCEPT ![Reading] = @ + message]
  /\ NextEvent
  /\ UNCHANGED <<listening, message, queued, socket, inbox, sent, gone, ready>>

\* recv returns -1 with EAGAIN.
Report == PrintMessage /\ Reading \notin gone

\* Mutation: an end of file is taken for an empty read.
ReportEnd == PrintMessage /\ Reading \in gone

CloseReading ==
  /\ server = "recv" /\ inbox[Reading] = 0
  /\ socket' = [socket EXCEPT ![Reading] = "closed"]
  /\ ready' = ready \ {Reading}
  /\ NextEvent
  /\ UNCHANGED <<listening, message, queued, inbox, sent, printed, gone>>

\* Mutation: errno is not looked at, so that an empty read ends the connection.
CloseOnEmpty == CloseReading

\* recv returns 0, or -1 with another error: message is freed unprinted.
Close == CloseReading /\ Reading \in gone

ServerStep ==
  Listen \/ EpollWait \/ Accept \/ BeginRecv \/ Recv \/ Report \/ Close

\* epoll_wait times out again and again, or the process has ended.
Idle ==
  /\ server = "exited" \/ (server = "wait" /\ Pending = {})
  /\ UNCHANGED vars

Next ==
  \/ ServerStep \/ SetupFails \/ AcceptFails \/ AcceptUnwatched \/ Idle
  \/ \E p \in Peers : PeerStep(p)

Spec == Init /\ [][Next]_vars

\* The server's thread runs; nothing makes a peer act.
FairSpec == Spec /\ WF_vars(ServerStep)

-----------------------------------------------------------------------------
(* Invariants.                                                             *)

\* Every variable stays in its range.
TypeOK ==
  /\ server \in {"setup", "wait", "events", "recv", "exited"}
  /\ listening \in SUBSET Ports
  /\ events \in Seq(Ports \cup Peers)
  /\ server \in {"events", "recv"} => events # <<>>
  /\ message \in Nat
  /\ queued \in [Ports -> Seq(Peers)]
  /\ socket \in [Peers -> {"none", "queued", "open", "unwatched", "closed"}]
  /\ inbox \in [Peers -> 0..MaxSends] /\ sent \in [Peers -> 0..MaxSends]
  /\ printed \in [Peers -> 0..MaxSends]
  /\ gone \in SUBSET Peers /\ ready \in SUBSET Peers

\* Edge triggering, 137-142: when the server goes to sleep in epoll_wait, no
\* watched socket has anything left to read, data or gone, that the ready list
\* does not know of.  Otherwise nothing would ever make the server read it.
NothingStranded ==
  server = "wait" =>
    \A p \in Peers : socket[p] = "open" /\ (inbox[p] > 0 \/ p \in gone) => p \in ready

\* 100-158: an event of the batch is still about an open socket when its turn
\* comes, whatever was accepted and closed earlier in the batch, and a listening
\* socket still has a connection to accept.
EventsAreCurrent ==
  \A k \in 1..Len(events) : IF events[k] \in Ports THEN queued[events[k]] # <<>>
                                                    ELSE socket[events[k]] = "open"

\* 137-156: until the server closes a socket, each chunk its peer has sent is in
\* the receive buffer, in `message' or printed, and in one of them only.  Where
\* the data may hold zero bytes, some is lost, but nothing is printed twice.
Kept(p) == inbox[p] + printed[p] + (IF server = "recv" /\ Reading = p THEN message ELSE 0)

NothingLost ==
  \A p \in Peers :
    socket[p] # "closed" => IF p \in Binary THEN Kept(p) <= sent[p] ELSE Kept(p) = sent[p]

-----------------------------------------------------------------------------
(* Liveness.                                                               *)

\* The socket of a peer that has gone is closed, if it could be watched: no other
\* descriptor is leaked.
GoneIsClosed ==
  \A p \in Peers : p \in gone ~> (socket[p] \in {"closed", "unwatched"} \/ server = "exited")
=============================================================================
