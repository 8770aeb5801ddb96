----------------------------- MODULE TcpSystem ------------------------------
(***************************************************************************)
(* The generator of tcp-connect.c talking to the server of tcp-server.c:   *)
(* EpollClient and TcpServer side by side.  What each of them leaves to    *)
(* its environment is what the other one does, a message or an end of file *)
(* later.  Sockets are named by the generator's descriptors.               *)
(***************************************************************************)
EXTENDS Integers, Sequences, FiniteSets

CONSTANTS Fds, Cap, Round, MaxPort,  \* as in EpollClient
          Backlog, MaxEvents,        \* as in TcpServer
          SendBuffer                 \* messages a send buffer has room for

ASSUME SystemAssumption == SendBuffer \in Nat \ {0} /\ Fds \cap 0..MaxPort = {}

VARIABLES
  step, index, sockfd, connections, clientEvents, open,      \* the generator
  answers, hungUp, full,                                     \* its kernel
  server, listening, serverEvents, message,                  \* the server
  queued, socket, inbox, sent, printed, left, ready,         \* its kernel
  wire                        \* wire[f]: messages on their way to the server

clientVars == <<step, index, sockfd, connections, clientEvents, open,
                answers, hungUp, full>>
serverVars == <<server, listening, serverEvents, message, queued, socket,
                inbox, sent, printed, left, ready>>
vars == <<clientVars, serverVars, wire>>

C == INSTANCE EpollClient
       WITH events <- clientEvents, inbox <- answers, gone <- hungUp, MaxInbox <- 0
S == INSTANCE TcpServer
       WITH Ports <- 0..MaxPort - 1, Peers <- Fds, Binary <- {}, MaxSends <- Cap + 1,
            events <- serverEvents, gone <- left

Init == C!Init /\ S!Init /\ wire = [f \in Fds |-> 0]

-----------------------------------------------------------------------------
(* The generator.                                                          *)

\* connect returns when the connection is in the accept queue; the first
\* message is sent at once.
Connect ==
  \E f \in Fds, q \in 0..MaxPort - 1 :
    /\ S!Connect(f, q)
    /\ C!Open /\ sockfd' = f /\ index' = q
    /\ wire' = [wire EXCEPT ![f] = 1]
    /\ full' = IF SendBuffer = 1 THEN full \cup {f} ELSE full

\* What sockfd has no room for is lost: nobody looks at what send returns.
Writable == sockfd \in open \ (full \cup hungUp)
Send ==
  /\ C!Send /\ UNCHANGED serverVars
  /\ wire' = IF Writable THEN [wire EXCEPT ![sockfd] = @ + 1] ELSE wire
  /\ full' = full \cup {f \in {sockfd} : Writable /\ wire[f] + 1 = SendBuffer}

\* The steps that put nothing on the wire.  The server sends no answers, so
\* the generator's recv never returns data.
ClientAlone ==
  /\ C!OpenNothing \/ C!EpollWait \/ C!Disconnect \/ C!Error
  /\ UNCHANGED <<serverVars, wire>>

ConnectFails == C!OpenFails /\ UNCHANGED <<serverVars, wire>>

\* Nobody listens on the port of the round.
Refused == ConnectFails /\ C!NextIndex \notin listening

ClientStep == Connect \/ Refused \/ Send \/ ClientAlone

-----------------------------------------------------------------------------
(* The network and the server.                                             *)

Deliver(f) ==
  /\ wire[f] > 0
  /\ wire' = [wire EXCEPT ![f] = @ - 1]
  /\ S!Send(f)
  /\ IF f \in full THEN C!PeerRead(f) ELSE UNCHANGED clientVars

\* The generator has closed f, or has ended: the end of file follows the data.
Finish(f) ==
  /\ wire[f] = 0
  /\ f \notin open \/ step = "ended"
  /\ S!Disconnect(f)
  /\ UNCHANGED <<clientVars, wire>>

\* The generator's kernel hears that the server has closed f.
HangUp(f) ==
  /\ socket[f] = "closed"
  /\ C!PeerGone(f)
  /\ UNCHANGED <<serverVars, wire>>

Network == \E f \in Fds : Deliver(f) \/ Finish(f) \/ HangUp(f)

ServerStep == S!ServerStep /\ UNCHANGED <<clientVars, wire>>

ServerFails ==
  (S!SetupFails \/ S!AcceptFails \/ S!AcceptUnwatched) /\ UNCHANGED <<clientVars, wire>>

\* What the generator does once the server has ended is EpollClient's business.
Next ==
  \/ /\ server # "exited"
     /\ ClientStep \/ ConnectFails \/ Network \/ ServerStep \/ ServerFails
  \/ S!Idle /\ UNCHANGED vars

\* Both programs run and the network delivers; nothing has to fail.
Spec ==
  /\ Init /\ [][Next]_vars
  /\ WF_vars(server # "exited" /\ ClientStep) /\ WF_vars(ServerStep)
  /\ \A f \in Fds : WF_vars(server # "exited" /\ (Deliver(f) \/ Finish(f)))

-----------------------------------------------------------------------------

\* tcp-connect.c:137-173 closes a socket because of what recv says of another one.
\* Against tcp-server.c, which sends nothing and closes a socket only after its
\* peer has, it never comes to that: as long as the server lives, the generator's
\* count is exact.
CountIsExact == server # "exited" => connections = Cardinality(open)

\* Both programs go through the same ports, and the server's backlog, its edge-
\* triggered reads and the generator's batches never leave each other waiting: the
\* generator gets to its cap, unless it starts before the server listens or a call
\* fails that could have succeeded; it never ends at a port nobody listens on.
CapIsReached ==
  <>( \/ connections = Cap \/ server = "exited"
      \/ step = "ended" /\ (server = "setup" \/ index \in listening) )

\* Every message the generator has sent, before its connection was accepted or
\* after, is printed by the server, unless the connection could not be watched.
AllPrinted ==
  \A f \in Fds :
    sent[f] + wire[f] > 0 ~> ( \/ sent[f] + wire[f] = printed[f]
                               \/ socket[f] = "unwatched"
                               \/ step = "ended" \/ server = "exited" )
=============================================================================
