---------------------------- MODULE EpollClient -----------------------------
(***************************************************************************)
(* The connection generator of tcp-connect.c: a loop that opens one more   *)
(* connection per round, up to Cap, and polls all of them level-triggered  *)
(* once every Round connections.  Its sockets' peers and the kernel's      *)
(* buffers are the environment and act between any two system calls.       *)
(*                                                                         *)
(* send and recv in the event loop take `sockfd', the socket of the        *)
(* current round, and not the socket the event is about.                   *)
(*                                                                         *)
(* isContinue is left out (it is 0 and only ever set to 0), and so are the *)
(* branch for EINTR (no signal is handled) and the one for events with     *)
(* neither EPOLLIN nor EPOLLOUT (Linux reports both with a TCP error).     *)
(***************************************************************************)
EXTENDS Integers, Sequences, FiniteSets, SequencesExt

CONSTANTS
  Fds,      \* descriptors that socket may return
  Cap,      \* 340000: the number of connections to reach
  Round,    \* 1000: poll whenever this many more have been opened
  MaxPort,  \* MAX_PORT: the number of ports to go through
  MaxInbox  \* bound: unread messages a socket's peer sends

Assumption ==
  /\ IsFiniteSet(Fds) /\ 0 \notin Fds
  /\ Cap \in Nat \ {0} /\ Round \in Nat \ {0, 1}
  /\ MaxPort \in Nat \ {0} /\ MaxInbox \in Nat

VARIABLES
  step,         \* "open", "poll", "events" or "ended"
  index,        \* the port of this round, relative to the first
  sockfd,       \* the socket of this round, or 0
  connections,  \* the number of connections, as the program counts
  events,       \* events[i..nfds-1], each a socket and "out" or "in"
  open,         \* sockets that are open and watched
  inbox,        \* inbox[f]: unread messages at f
  gone,         \* sockets whose peer has closed or reset the connection
  full          \* sockets whose send buffer has no room

kernelVars == <<inbox, gone, full>>
vars == <<step, index, sockfd, connections, events, open, kernelVars>>

Init ==
  /\ step = "open" /\ index = 0 /\ sockfd = 0 /\ connections = 0
  /\ events = <<>> /\ open = {}
  /\ inbox = [f \in Fds |-> 0] /\ gone = {} /\ full = {}

-----------------------------------------------------------------------------
(* The kernel and the peers.                                               *)

PeerSend(f) ==
  /\ f \in open \ gone /\ inbox[f] < MaxInbox
  /\ inbox' = [inbox EXCEPT ![f] = @ + 1]
  /\ UNCHANGED <<step, index, sockfd, connections, events, open, gone, full>>

PeerRead(f) ==
  /\ f \in full
  /\ full' = full \ {f}
  /\ UNCHANGED <<step, index, sockfd, connections, events, open, inbox, gone>>

\* A close leaves the send buffer as it is, a reset empties it.
PeerGone(f) ==
  /\ f \in open \ gone
  /\ gone' = gone \cup {f}
  /\ full' \in {full, full \ {f}}
  /\ UNCHANGED <<step, index, sockfd, connections, events, open, inbox>>

PeerStep(f) == PeerSend(f) \/ PeerRead(f) \/ PeerGone(f)

Readable(f) == inbox[f] > 0 \/ f \in gone
ReadyEvents ==
  {[fd |-> f, is |-> IF f \in full THEN "in" ELSE "out"] :
     f \in {g \in open : g \notin full \/ Readable(g)}}

-----------------------------------------------------------------------------
(* A round.                                                                *)

\* Mutation: the test is > instead of >=.
NextIndexPast == IF index + 1 > MaxPort THEN 0 ELSE index + 1

NextIndex == IF index + 1 >= MaxPort THEN 0 ELSE index + 1

Polls(n) == n % Round = Round - 1 \/ n >= Cap

\* socket, connect, send and EPOLL_CTL_ADD succeed.
Open ==
  /\ step = "open" /\ connections < Cap
  /\ index' = NextIndex
  /\ \E f \in Fds \ open : /\ sockfd' = f /\ open' = open \cup {f}
                           /\ full' \in {full, full \cup {f}}
  /\ connections' = connections + 1
  /\ step' = IF Polls(connections + 1) THEN "poll" ELSE "open"
  /\ UNCHANGED <<events, inbox, gone>>

\* socket or connect fails: the program ends.
OpenFails ==
  /\ step = "open" /\ connections < Cap
  /\ index' = NextIndex
  /\ step' = "ended"
  /\ UNCHANGED <<sockfd, connections, events, open, kernelVars>>

OpenNothing ==
  /\ step = "open" /\ connections >= Cap
  /\ index' = NextIndex /\ sockfd' = 0
  /\ step' = "poll"
  /\ UNCHANGED <<connections, events, open, kernelVars>>

\* `connections' is also the number of events epoll_wait may return; without an
\* event in 100 ms the round ends.
EpollWait ==
  /\ step = "poll"
  /\ LET n == Min({connections, Cardinality(ReadyEvents)})
     IN \E batch \in kSubset(n, ReadyEvents) : events' \in SetToSeqs(batch)
  /\ step' = IF events' = <<>> THEN "open" ELSE "events"
  /\ UNCHANGED <<index, sockfd, connections, open, kernelVars>>

clientfd == Head(events).fd
NextEvent == /\ events' = Tail(events)
             /\ step' = IF Tail(events) = <<>> THEN "open" ELSE "events"

\* send(sockfd) is refused if sockfd is 0 or closed; if its peer has gone, SIGPIPE
\* may end the process.
Send ==
  /\ step = "events" /\ Head(events).is = "out"
  /\ \/ NextEvent /\ full' \in {full, full \cup ({sockfd} \cap (open \ gone))}
     \/ /\ sockfd \in open \cap gone
        /\ step' = "ended" /\ UNCHANGED <<events, full>>
  /\ UNCHANGED <<index, sockfd, connections, open, inbox, gone>>

Receiving == step = "events" /\ Head(events).is = "in"

\* recv(sockfd) > 0.
Recv ==
  /\ Receiving
  /\ sockfd \in open /\ inbox[sockfd] > 0
  /\ inbox' = [inbox EXCEPT ![sockfd] = @ - 1]
  /\ NextEvent
  /\ UNCHANGED <<index, sockfd, connections, open, gone, full>>

Close(f) == /\ open' = open \ {f} /\ gone' = gone \ {f} /\ full' = full \ {f}
            /\ inbox' = [inbox EXCEPT ![f] = 0]

CountOff ==
  /\ Receiving
  /\ sockfd \in open \cap gone /\ inbox[sockfd] = 0
  /\ connections' = connections - 1
  /\ NextEvent
  /\ UNCHANGED <<index, sockfd>>

\* Mutation: the connection is counted off and not closed.
DisconnectUnclosed == CountOff /\ UNCHANGED <<open, kernelVars>>

\* Mutation: sockfd is closed.
DisconnectSockfd == CountOff /\ Close(sockfd)

\* recv(sockfd) = 0.
Disconnect == CountOff /\ Close(clientfd)

\* recv(sockfd) = -1: sockfd is 0 or closed, has nothing to read, or was reset.
Error ==
  /\ Receiving
  /\ sockfd \in open => inbox[sockfd] = 0
  /\ Close(clientfd)
  /\ NextEvent
  /\ UNCHANGED <<index, sockfd, connections>>

ClientStep ==
  Open \/ OpenNothing \/ EpollWait \/ Send \/ Recv \/ Disconnect \/ Error

Next ==
  \/ ClientStep \/ OpenFails
  \/ step # "ended" /\ \E f \in Fds : PeerStep(f)
  \/ step = "ended" /\ UNCHANGED vars

-----------------------------------------------------------------------------

\* Every variable stays in its range.
TypeOK ==
  /\ step \in {"open", "poll", "events", "ended"}
  /\ index \in 0..MaxPort - 1
  /\ sockfd \in Fds \cup {0}
  /\ connections \in Int
  /\ events \in Seq([fd : Fds, is : {"in", "out"}])
  /\ step = "events" => events # <<>>
  /\ open \in SUBSET Fds /\ gone \in SUBSET open /\ full \in SUBSET open
  /\ inbox \in [Fds -> 0..MaxInbox]

\* 79 and 127: the counter that limits the loop and a batch of events is off, but
\* never below the number of open sockets, so that no batch leaves a socket out;
\* and it never exceeds the cap, which is below the size of the events array.
OpenAreCounted == Cardinality(open) <= connections /\ connections <= Cap

\* 128-173: whatever is closed in a batch, the rest of the batch is about sockets
\* that are open, each of them once.
EventsAreOpen ==
  \A i, j \in 1..Len(events) :
    events[i].fd \in open /\ (events[i].fd = events[j].fd => i = j)

=============================================================================
