-------------------------- MODULE TcpSystemProofs --------------------------
(***************************************************************************)
(* Against the repository's own server the generator's count stays exact,  *)
(* for any number of descriptors, any cap, round, backlog and buffer.      *)
(***************************************************************************)
EXTENDS TcpSystem, SequenceElements

\* The variables that the argument is about.
Ranges ==
  /\ open \in SUBSET Fds /\ IsFiniteSet(open)
  /\ clientEvents \in Seq([fd : Fds, is : {"in", "out"}])
  /\ step = "events" => clientEvents # <<>>
  /\ answers = [f \in Fds |-> 0]
  /\ socket \in [Fds -> {"none", "queued", "open", "unwatched", "closed"}]
  /\ left \in SUBSET Fds

\* The generator is told only that it may write: its kernel hears nothing of the
\* server while it lives.
OnlyWrites ==
  /\ \A k \in 1..Len(clientEvents) : clientEvents[k].is = "out"
  /\ hungUp # {} => step = "ended"

\* The server closes a socket only after its peer has closed it.
ServerWaits ==
  /\ \A f \in left : socket[f] # "none" /\ (f \in open => step = "ended")
  /\ \A f \in Fds : socket[f] = "closed" => f \in left

SystemInv == Ranges /\ OnlyWrites /\ ServerWaits /\ connections = Cardinality(open)

LEMMA InitSystemInv == Init => SystemInv
<1> SUFFICES ASSUME Init PROVE SystemInv
  OBVIOUS
<1>1. Ranges
  BY FS_EmptySet DEF Init, C!Init, S!Init, Ranges
<1>2. OnlyWrites /\ ServerWaits
  BY DEF Init, C!Init, S!Init, OnlyWrites, ServerWaits
<1>3. connections = Cardinality(open)
  BY FS_EmptySet DEF Init, C!Init
<1> QED BY <1>1, <1>2, <1>3 DEF SystemInv

LEMMA ConnectKeeps ==
  ASSUME SystemInv, Connect
  PROVE  SystemInv'
<1> USE DEF SystemInv
<1>1. PICK f \in Fds, q \in 0..MaxPort - 1 :
        S!Connect(f, q) /\ C!Open /\ sockfd' = f
  BY DEF Connect
<1>2. /\ socket[f] = "none" /\ socket' = [socket EXCEPT ![f] = "queued"]
      /\ UNCHANGED left
  BY <1>1 DEF S!Connect
<1>3. /\ step = "open" /\ f \notin open /\ open' = open \cup {f}
      /\ connections' = connections + 1 /\ step' \in {"poll", "open"}
      /\ UNCHANGED <<clientEvents, answers, hungUp>>
  BY <1>1 DEF C!Open
<1>4. IsFiniteSet(open') /\ connections' = Cardinality(open')
  BY <1>3, FS_AddElement DEF Ranges
<1>5. Ranges'
  BY <1>2, <1>3, <1>4 DEF Ranges
<1>6. OnlyWrites'
  BY <1>3 DEF OnlyWrites
<1>7. ServerWaits'
  BY <1>2, <1>3 DEF ServerWaits, Ranges
<1> QED BY <1>4, <1>5, <1>6, <1>7

\* The event at the head of the batch is done.
LEMMA NextEventKeeps ==
  ASSUME Ranges, OnlyWrites, step = "events", clientEvents' = Tail(clientEvents)
  PROVE  /\ clientEvents' \in Seq([fd : Fds, is : {"in", "out"}])
         /\ \A k \in 1..Len(clientEvents') : clientEvents'[k].is = "out"
<1>1. /\ clientEvents \in Seq([fd : Fds, is : {"in", "out"}])
      /\ clientEvents # <<>>
  BY DEF Ranges
<1>2. /\ clientEvents' \in Seq([fd : Fds, is : {"in", "out"}])
      /\ \A k \in 1..Len(clientEvents') :
           clientEvents'[k] = clientEvents[k + 1] /\ k + 1 \in 1..Len(clientEvents)
  BY <1>1, ElemsTail
<1> QED BY <1>2 DEF OnlyWrites

LEMMA SendKeeps ==
  ASSUME SystemInv, Send
  PROVE  SystemInv'
<1> USE DEF SystemInv
<1>1. /\ step = "events"
      /\ UNCHANGED <<connections, open, answers, hungUp, socket, left>>
      /\ \/ C!NextEvent
         \/ step' = "ended" /\ UNCHANGED clientEvents
  BY DEF Send, C!Send, serverVars
<1>2. CASE C!NextEvent
  <2>1. /\ clientEvents' = Tail(clientEvents)
        /\ step' = "events" => clientEvents' # <<>>
        /\ step' # "ended"
    BY <1>2 DEF C!NextEvent
  <2>2. Ranges' /\ OnlyWrites'
    BY <1>1, <2>1, NextEventKeeps DEF Ranges, OnlyWrites
  <2> QED BY <1>1, <2>2 DEF ServerWaits
<1>3. CASE step' = "ended" /\ UNCHANGED clientEvents
  BY <1>1, <1>3 DEF Ranges, OnlyWrites, ServerWaits
<1> QED BY <1>1, <1>2, <1>3

\* Nothing ever arrives: the branches for a readable socket are not taken.
LEMMA ClientAloneKeeps ==
  ASSUME SystemInv, ClientAlone
  PROVE  SystemInv'
<1> USE DEF SystemInv
<1>1. UNCHANGED <<socket, left>>
  BY DEF ClientAlone, serverVars
<1>2. CASE C!OpenNothing
  BY <1>1, <1>2 DEF C!OpenNothing, C!kernelVars, Ranges, OnlyWrites, ServerWaits
<1>3. CASE C!EpollWait
  <2>1. /\ step = "poll" /\ step' = IF clientEvents' = <<>> THEN "open" ELSE "events"
        /\ UNCHANGED <<connections, open, answers, hungUp>>
    BY <1>3 DEF C!EpollWait, C!kernelVars
  <2>2. PICK batch \in SUBSET C!ReadyEvents : clientEvents' \in C!SetToSeqs(batch)
    BY <1>3 DEF C!EpollWait, C!kSubset
  <2>3. \A e \in C!ReadyEvents : e \in [fd : Fds, is : {"in", "out"}] /\ e.is = "out"
    BY <2>1 DEF C!ReadyEvents, C!Readable, Ranges, OnlyWrites
  <2>4. IsFiniteSet(batch)
    <3> DEFINE Fd == [e \in batch |-> e.fd]
    <3>1. Fd \in Injection(batch, open)
      BY DEF C!ReadyEvents, Injection, IsInjective
    <3> QED BY <3>1, FS_Injection DEF Ranges
  <2>5. clientEvents' \in Seq(batch) /\ Elems(clientEvents') = batch
    <3>1. C!SetToSeqs(batch) = SetToSeqs(batch)
      BY DEF C!SetToSeqs, SetToSeqs, C!Cardinality, Cardinality
    <3> QED BY <2>2, <2>4, <3>1, BatchElems
  <2>6. /\ clientEvents' \in Seq([fd : Fds, is : {"in", "out"}])
        /\ \A k \in 1..Len(clientEvents') : clientEvents'[k].is = "out"
    <3>1. batch \subseteq [fd : Fds, is : {"in", "out"}] /\ \A e \in batch : e.is = "out"
      BY <2>3
    <3>2. \A k \in 1..Len(clientEvents') : clientEvents'[k] \in batch
      BY <2>5 DEF Elems
    <3>3. clientEvents' \in Seq([fd : Fds, is : {"in", "out"}])
      <4> DEFINE R == [fd : Fds, is : {"in", "out"}]
      <4>1. batch \subseteq R /\ clientEvents' \in Seq(batch)
        BY <2>5, <3>1
      <4> HIDE DEF R
      <4>2. clientEvents' \in Seq(R)
        BY <4>1
      <4> QED BY <4>2 DEF R
    <3> QED BY <3>1, <3>2, <3>3
  <2> QED BY <1>1, <2>1, <2>6 DEF Ranges, OnlyWrites, ServerWaits
<1>4. ~C!Disconnect /\ ~C!Error
  <2>1. step = "events" => Head(clientEvents).is = "out"
    BY HeadTailProperties DEF Ranges, OnlyWrites
  <2> QED BY <2>1 DEF C!Disconnect, C!CountOff, C!Error, C!Receiving
<1> QED BY <1>2, <1>3, <1>4 DEF ClientAlone

LEMMA NetworkKeeps ==
  ASSUME SystemInv, NEW f \in Fds, Deliver(f) \/ Finish(f) \/ HangUp(f)
  PROVE  SystemInv'
<1> USE DEF SystemInv
<1>1. CASE Deliver(f)
  BY <1>1 DEF Deliver, S!Send, S!Connected, C!PeerRead, clientVars, Ranges, OnlyWrites, ServerWaits
<1>2. CASE Finish(f)
  <2>1. /\ UNCHANGED <<step, connections, clientEvents, open, answers, hungUp, socket>>
        /\ f \notin open \/ step = "ended"
        /\ socket[f] \notin {"none", "closed"} /\ left' = left \cup {f}
    BY <1>2 DEF Finish, S!Disconnect, S!Connected, clientVars
  <2> QED BY <2>1 DEF Ranges, OnlyWrites, ServerWaits
<1>3. CASE HangUp(f)
  <2>1. /\ f \in open /\ socket[f] = "closed"
        /\ UNCHANGED <<step, connections, clientEvents, open, answers, socket, left>>
    BY <1>3 DEF HangUp, C!PeerGone, serverVars
  <2>2. step = "ended"
    BY <2>1 DEF ServerWaits
  <2> QED BY <2>1, <2>2 DEF Ranges, OnlyWrites, ServerWaits
<1> QED BY <1>1, <1>2, <1>3

LEMMA ServerKeeps ==
  ASSUME SystemInv, ServerStep \/ ServerFails
  PROVE  SystemInv'
<1> USE DEF SystemInv
<1>1. UNCHANGED <<step, connections, clientEvents, open, answers, hungUp, left>>
  BY DEF ServerStep, ServerFails, clientVars, S!ServerStep, S!SetupFails, S!AcceptFails,
     S!AcceptUnwatched, S!Listen, S!EpollWait, S!Accept, S!TakeConnection, S!BeginRecv, S!Recv, S!TakeChunk,
     S!Report, S!PrintMessage, S!Close, S!CloseReading
<1>2. \/ UNCHANGED socket
      \/ \E p, state : state \in {"open", "unwatched"} /\ socket' = [socket EXCEPT ![p] = state]
      \/ \E p \in left : socket' = [socket EXCEPT ![p] = "closed"]
  BY DEF ServerStep, ServerFails, S!ServerStep, S!SetupFails, S!AcceptFails, S!AcceptUnwatched, S!Listen,
     S!EpollWait, S!Accept, S!TakeConnection, S!BeginRecv, S!Recv, S!TakeChunk, S!Report,
     S!PrintMessage, S!Close, S!CloseReading
<1>3. /\ socket' \in [Fds -> {"none", "queued", "open", "unwatched", "closed"}]
      /\ \A f \in Fds : /\ socket'[f] = "none" => socket[f] = "none"
                        /\ socket'[f] = "closed" => socket[f] = "closed" \/ f \in left
  BY <1>2 DEF Ranges
<1> QED BY <1>1, <1>3 DEF Ranges, OnlyWrites, ServerWaits

LEMMA NextSystemInv == SystemInv /\ [Next]_vars => SystemInv'
<1> SUFFICES ASSUME SystemInv, [Next]_vars PROVE SystemInv'
  OBVIOUS
<1>1. CASE Connect \/ Send \/ ClientAlone
  BY <1>1, ConnectKeeps, SendKeeps, ClientAloneKeeps
<1>2. CASE ConnectFails
  BY <1>2 DEF ConnectFails, C!OpenFails, C!kernelVars, serverVars,
     SystemInv, Ranges, OnlyWrites, ServerWaits
<1>3. CASE Network
  BY <1>3, NetworkKeeps DEF Network
<1>4. CASE ServerStep \/ ServerFails
  BY <1>4, ServerKeeps
<1>5. CASE UNCHANGED vars
  BY <1>5 DEF vars, clientVars, serverVars, SystemInv, Ranges, OnlyWrites, ServerWaits
<1> QED BY <1>1, <1>2, <1>3, <1>4, <1>5 DEF Next, ClientStep, Refused

\* tcp-connect.c:137-173: the generator counts off a connection it has not lost, and
\* closes one it has not counted off, only when something arrives; nothing does.
THEOREM CountStaysExact == Spec => []CountIsExact
<1>1. SystemInv => CountIsExact
  BY DEF SystemInv, CountIsExact
<1>2. Spec => []SystemInv
  BY InitSystemInv, NextSystemInv, PTL DEF Spec
<1> QED BY <1>1, <1>2, PTL
=============================================================================
