-------------------------- MODULE TcpServerProofs ---------------------------
(***************************************************************************)
(* The server's bookkeeping for any number of ports, peers and messages:   *)
(* batches of events stay true while they are handled, nothing is lost     *)
(* before the server closes, and edge triggering leaves nothing behind.    *)
(***************************************************************************)
EXTENDS TcpServer, SequenceElements

\* The accept queues hold each waiting peer once.
QueuesAreApart ==
  /\ \A q \in Ports : /\ Distinct(queued[q])
                      /\ \A p \in Elems(queued[q]) : socket[p] = "queued"
  /\ \A q, r \in Ports : q # r => Elems(queued[q]) \cap Elems(queued[r]) = {}

\* What is left of the batch has each event once, and is true.
BatchIsCurrent ==
  /\ Distinct(events)
  /\ server \in {"setup", "wait"} => events = <<>>
  /\ \A e \in Elems(events) : IF e \in Ports THEN queued[e] # <<>> ELSE socket[e] = "open"

\* An accepted socket with something to read is on the ready list or still to
\* come in the batch; the one being read is at its head.
AllReported ==
  /\ \A p \in ready : socket[p] = "open"
  /\ \A p \in Peers : socket[p] = "open" /\ (inbox[p] > 0 \/ p \in gone)
                         => p \in ready \cup Elems(events)

ServerInv == TypeOK /\ NothingLost /\ QueuesAreApart /\ BatchIsCurrent /\ AllReported

\* An event is over: the others are as they were.
LEMMA NextEventFacts ==
  ASSUME TypeOK, Distinct(events), events # <<>>, NextEvent
  PROVE  /\ events' \in Seq(Ports \cup Peers)
         /\ Distinct(events')
         /\ Reading \in Ports \cup Peers /\ Reading \in Elems(events)
         /\ Elems(events) = Elems(events') \cup {Reading}
         /\ Reading \notin Elems(events')
         /\ server' \in {"wait", "events"}
         /\ server' = "wait" <=> events' = <<>>
<1>1. events \in Seq(Ports \cup Peers)
  BY DEF TypeOK
<1>2. events' = Tail(events)
  BY DEF NextEvent
<1>3. /\ events' \in Seq(Ports \cup Peers) /\ Head(events) \in Ports \cup Peers
      /\ Elems(events) = Elems(events') \cup {Head(events)}
      /\ Distinct(events') /\ Head(events) \notin Elems(events')
  BY <1>1, <1>2, ElemsTail
<1> QED BY <1>3 DEF Reading, NextEvent

LEMMA InitServerInv == Init => ServerInv
<1> SUFFICES ASSUME Init PROVE ServerInv
  OBVIOUS
<1>1. Elems(<<>>) = {} /\ Distinct(<<>>)
  BY EmptySeq DEF Elems, Distinct
<1>2. TypeOK
  BY BoundsAssumption DEF Init, TypeOK
<1>3. NothingLost
  BY BoundsAssumption DEF Init, NothingLost, Kept
<1>4. QueuesAreApart
  BY <1>1 DEF Init, QueuesAreApart
<1>5. BatchIsCurrent /\ AllReported
  BY <1>1 DEF Init, BatchIsCurrent, AllReported
<1> QED BY <1>2, <1>3, <1>4, <1>5 DEF ServerInv

\* Only peers wait in accept queues.
LEMMA QueueElems ==
  ASSUME TypeOK
  PROVE  \A r \in Ports : \A s \in Elems(queued[r]) : s \in Peers
BY DEF TypeOK, Elems

-----------------------------------------------------------------------------
(* The peers.                                                              *)

LEMMA KeptIsNat ==
  ASSUME TypeOK, NEW p \in Peers
  PROVE  Kept(p) \in Nat
BY DEF TypeOK, Kept

\* Nothing more is kept than was sent.
LEMMA KeptBound ==
  ASSUME TypeOK, NothingLost, NEW p \in Peers, socket[p] # "closed"
  PROVE  /\ Kept(p) <= sent[p] /\ inbox[p] + printed[p] <= sent[p]
         /\ (server = "recv" /\ Reading = p) => inbox[p] + printed[p] + message <= sent[p]
<1>1. /\ Kept(p) \in Nat /\ sent[p] \in Nat /\ inbox[p] \in Nat /\ printed[p] \in Nat
      /\ message \in Nat
  BY KeptIsNat DEF TypeOK
<1>2. Kept(p) <= sent[p]
  BY <1>1 DEF NothingLost
<1>3. CASE server = "recv" /\ Reading = p
  <2>1. Kept(p) = inbox[p] + printed[p] + message
    BY <1>3 DEF Kept
  <2> QED BY <1>1, <1>2, <1>3, <2>1
<1>4. CASE ~(server = "recv" /\ Reading = p)
  <2>1. Kept(p) = inbox[p] + printed[p] + 0
    BY <1>4 DEF Kept
  <2> QED BY <1>1, <1>2, <1>4, <2>1
<1> QED BY <1>3, <1>4

LEMMA PeersKeep ==
  ASSUME ServerInv, NEW p \in Peers, PeerStep(p)
  PROVE  ServerInv'
<1> USE PortsAssumption, BoundsAssumption DEF ServerInv
<1>1. ASSUME NEW q \in Ports, Connect(p, q) PROVE ServerInv'
  <2>1. /\ queued' = [queued EXCEPT ![q] = Append(@, p)]
        /\ socket' = [socket EXCEPT ![p] = "queued"] /\ socket[p] = "none"
        /\ UNCHANGED <<serverVars, inbox, sent, gone, ready>>
    BY <1>1 DEF Connect
  <2>2. /\ queued'[q] = Append(queued[q], p)
        /\ \A r \in Ports : r # q => queued'[r] = queued[r]
        /\ socket'[p] = "queued"
        /\ \A s \in Peers : s # p => socket'[s] = socket[s]
    BY <2>1 DEF TypeOK
  <2>3. /\ queued'[q] \in Seq(Peers) /\ queued'[q] # <<>>
        /\ Elems(queued'[q]) = Elems(queued[q]) \cup {p}
        /\ p \notin Elems(queued[q]) => Distinct(queued'[q])
    <3>1. queued[q] \in Seq(Peers)
      BY DEF TypeOK
    <3> QED BY <2>2, <3>1, ElemsAppend, EmptySeq, AppendProperties DEF QueuesAreApart
  <2>4. \A r \in Ports : p \notin Elems(queued[r])
    BY <2>1 DEF QueuesAreApart
  <2>5. TypeOK'
    BY <2>1, <2>2, <2>3 DEF TypeOK, serverVars
  <2>6. NothingLost'
    BY <2>1, <2>2 DEF NothingLost, Kept, serverVars, Reading
  <2>7. QueuesAreApart'
    <3>1. \A r \in Ports : Distinct(queued'[r])
      BY <2>2, <2>3, <2>4 DEF QueuesAreApart
    <3>2. \A r \in Ports : \A s \in Elems(queued'[r]) : socket'[s] = "queued"
      BY <2>2, <2>3, QueueElems DEF QueuesAreApart
    <3>3. \A r, v \in Ports : r # v => Elems(queued'[r]) \cap Elems(queued'[v]) = {}
      <4>1. \A r \in Ports : Elems(queued'[r]) = Elems(queued[r]) \cup (IF r = q THEN {p} ELSE {})
        BY <2>2, <2>3
      <4>2. \A r, v \in Ports : r # v => Elems(queued[r]) \cap Elems(queued[v]) = {}
        BY DEF QueuesAreApart
      <4> QED BY <4>1, <4>2, <2>4
    <3> QED BY <3>1, <3>2, <3>3 DEF QueuesAreApart
  <2>8. BatchIsCurrent'
    <3>1. \A e \in Elems(events) : e \in Ports \cup Peers
      BY DEF TypeOK, Elems
    <3>2. p \notin Elems(events)
      BY <2>1 DEF BatchIsCurrent
    <3> QED BY <2>1, <2>2, <2>3, <3>1, <3>2 DEF BatchIsCurrent, serverVars
  <2>9. AllReported'
    BY <2>1, <2>2 DEF AllReported, serverVars, TypeOK
  <2> QED BY <2>5, <2>6, <2>7, <2>8, <2>9
<1>2. ASSUME Send(p) PROVE ServerInv'
  <2>1. /\ sent' = [sent EXCEPT ![p] = @ + 1] /\ inbox' = [inbox EXCEPT ![p] = @ + 1]
        /\ ready' = IF socket[p] = "open" THEN ready \cup {p} ELSE ready
        /\ socket[p] # "closed" /\ sent[p] < MaxSends
        /\ UNCHANGED <<serverVars, queued, socket, gone>>
    BY <1>2 DEF Send, Notify, Connected
  <2>2. inbox[p] <= sent[p]
    <3>1. inbox[p] + printed[p] <= sent[p]
      BY <2>1, KeptBound
    <3>2. inbox[p] \in Nat /\ printed[p] \in Nat /\ sent[p] \in Nat
      BY DEF TypeOK
    <3> QED BY <3>1, <3>2
  <2>3. TypeOK'
    BY <2>1, <2>2 DEF TypeOK, serverVars
  <2>4. NothingLost'
    <3>1. /\ sent'[p] = sent[p] + 1 /\ inbox'[p] = inbox[p] + 1
          /\ \A s \in Peers : s # p => sent'[s] = sent[s] /\ inbox'[s] = inbox[s]
          /\ sent[p] \in Nat /\ inbox[p] \in Nat /\ printed[p] \in Nat /\ message \in Nat
      BY <2>1 DEF TypeOK
    <3>2. Reading' = Reading /\ UNCHANGED <<server, message, printed, socket>>
      BY <2>1 DEF serverVars, Reading
    <3>3. Kept(p)' = Kept(p) + 1
      BY <3>1, <3>2 DEF Kept
    <3>4. \A s \in Peers : s # p => Kept(s)' = Kept(s)
      BY <3>1, <3>2 DEF Kept
    <3>5. Kept(p) \in Nat
      BY KeptIsNat
    <3>6. IF p \in Binary THEN Kept(p)' <= sent'[p] ELSE Kept(p)' = sent'[p]
      <4>1. IF p \in Binary THEN Kept(p) <= sent[p] ELSE Kept(p) = sent[p]
        BY <2>1 DEF NothingLost
      <4> QED BY <3>1, <3>3, <3>5, <4>1
    <3> QED BY <3>1, <3>2, <3>4, <3>6 DEF NothingLost
  <2>5. QueuesAreApart' /\ BatchIsCurrent'
    BY <2>1 DEF QueuesAreApart, BatchIsCurrent, serverVars
  <2>6. AllReported'
    BY <2>1 DEF AllReported, TypeOK, serverVars
  <2> QED BY <2>3, <2>4, <2>5, <2>6
<1>3. ASSUME Disconnect(p) PROVE ServerInv'
  <2>1. /\ gone' = gone \cup {p}
        /\ ready' = IF socket[p] = "open" THEN ready \cup {p} ELSE ready
        /\ UNCHANGED <<serverVars, queued, socket, inbox, sent>>
    BY <1>3 DEF Disconnect, Notify, Connected
  <2>2. TypeOK' /\ NothingLost'
    BY <2>1 DEF TypeOK, NothingLost, Kept, serverVars, Reading
  <2>3. QueuesAreApart' /\ BatchIsCurrent' /\ AllReported'
    BY <2>1 DEF QueuesAreApart, BatchIsCurrent, AllReported, serverVars
  <2> QED BY <2>2, <2>3
<1> QED BY <1>1, <1>2, <1>3 DEF PeerStep

-----------------------------------------------------------------------------
(* The server.                                                             *)

\* listen and its failures, the failing accept, and the start of a read move no
\* data and no connection.
LEMMA QuietStepsKeep ==
  ASSUME ServerInv, Listen \/ SetupFails \/ AcceptFails \/ BeginRecv \/ UNCHANGED vars
  PROVE  ServerInv'
<1> USE DEF ServerInv
<1>1. /\ UNCHANGED <<events, queued, socket, inbox, sent, printed, gone, ready>>
      /\ server' \in {"setup", "wait", "events", "recv", "exited"}
      /\ server' \in {"setup", "wait"} => server \in {"setup", "wait"}
      /\ server' \in {"events", "recv"} => server \in {"events", "recv"}
      /\ listening' \in SUBSET Ports /\ message' \in Nat
      /\ server' = "recv" => message' = IF server = "recv" THEN message ELSE 0
      /\ server = "recv" => server' = "recv"
  BY DEF TypeOK, Listen, SetupFails, AcceptFails, BeginRecv, vars
<1>2. TypeOK'
  BY <1>1 DEF TypeOK
<1>3. NothingLost'
  BY <1>1 DEF NothingLost, Kept, Reading, TypeOK
<1>4. QueuesAreApart' /\ BatchIsCurrent' /\ AllReported'
  BY <1>1 DEF QueuesAreApart, BatchIsCurrent, AllReported
<1> QED BY <1>2, <1>3, <1>4

LEMMA EpollWaitKeeps ==
  ASSUME ServerInv, EpollWait
  PROVE  ServerInv'
<1> USE PortsAssumption DEF ServerInv
<1>1. /\ Pending # {} /\ server = "wait" /\ server' = "events"
      /\ UNCHANGED <<listening, message, queued, socket, inbox, sent, printed, gone>>
  BY DEF EpollWait
<1>2. Pending \subseteq Ports \cup Peers /\ IsFiniteSet(Pending)
  <2>1. Pending \subseteq Ports \cup Peers
    BY DEF Pending, TypeOK
  <2>2. IsFiniteSet(Ports \cup Peers)
    BY FS_Union
  <2> QED BY <2>1, <2>2, FS_Subset
<1> DEFINE n == Min({MaxEvents, Cardinality(Pending)})
<1>9. PICK batch \in kSubset(n, Pending) :
        events' \in SetToSeqs(batch) /\ ready' = ready \ batch
  BY DEF EpollWait
<1>10. batch \subseteq Pending /\ Cardinality(batch) = n
  BY DEF kSubset
<1>11. n # 0
  <2>1. Cardinality(Pending) \in Nat \ {0}
    BY <1>1, <1>2, FS_CardinalityType, FS_EmptySet
  <2> QED BY <2>1, BoundsAssumption DEF Min
<1> HIDE DEF n
<1>12. IsFiniteSet(batch) /\ batch # {}
  BY <1>2, <1>10, <1>11, FS_Subset, FS_EmptySet
<1>3. events' \in Seq(batch) /\ Distinct(events') /\ Elems(events') = batch
  BY <1>9, <1>12, BatchElems
<1>4. events' # <<>>
  BY <1>3, <1>12, EmptySeq DEF Elems
<1>5. TypeOK'
  <2>1. events' \in Seq(Ports \cup Peers)
    BY <1>2, <1>3, <1>10
  <2> QED BY <1>1, <1>4, <1>9, <2>1 DEF TypeOK
<1>6. NothingLost' /\ QueuesAreApart'
  BY <1>1 DEF NothingLost, Kept, QueuesAreApart
<1>7. BatchIsCurrent'
  BY <1>1, <1>3, <1>10 DEF BatchIsCurrent, Pending, AllReported, TypeOK
<1>8. AllReported'
  <2>1. events = <<>>
    BY <1>1 DEF BatchIsCurrent
  <2>2. Elems(events) = {}
    BY <2>1, EmptySeq DEF Elems
  <2>3. ready \subseteq ready' \cup Elems(events')
    BY <1>3, <1>9
  <2> QED BY <1>1, <1>9, <2>2, <2>3 DEF AllReported
<1> QED BY <1>5, <1>6, <1>7, <1>8

LEMMA AcceptKeeps ==
  ASSUME ServerInv, NEW state \in {"open", "unwatched"}, TakeConnection(state), NextEvent
  PROVE  ServerInv'
<1> USE PortsAssumption DEF ServerInv
<1> DEFINE q == Head(events)
           p == Head(queued[q])
<1>1. /\ server = "events" /\ q \in Ports /\ NextEvent
      /\ queued' = [queued EXCEPT ![q] = Tail(@)]
      /\ socket' = [socket EXCEPT ![p] = state]
      /\ ready' = ready \cup {r \in {p} : state = "open" /\ (inbox[p] > 0 \/ p \in gone)}
      /\ UNCHANGED <<listening, message, inbox, sent, printed, gone>>
  BY DEF TakeConnection
<1>2. /\ events # <<>> /\ events' \in Seq(Ports \cup Peers) /\ Distinct(events')
      /\ q \in Elems(events) /\ Elems(events) = Elems(events') \cup {q}
      /\ q \notin Elems(events')
      /\ server' \in {"wait", "events"} /\ (server' = "wait" <=> events' = <<>>)
  <2>1. events # <<>>
    BY <1>1 DEF TypeOK
  <2>2. Distinct(events)
    BY DEF BatchIsCurrent
  <2> QED BY <1>1, <2>1, <2>2, NextEventFacts DEF Reading
<1>3. /\ queued[q] \in Seq(Peers) /\ queued[q] # <<>>
  BY <1>1, <1>2 DEF TypeOK, BatchIsCurrent
<1>4. /\ queued'[q] \in Seq(Peers) /\ p \in Peers
      /\ Elems(queued[q]) = Elems(queued'[q]) \cup {p}
      /\ Distinct(queued'[q]) /\ p \notin Elems(queued'[q])
  <2>1. queued'[q] = Tail(queued[q])
    BY <1>1 DEF TypeOK
  <2>2. Distinct(queued[q])
    BY <1>1 DEF QueuesAreApart
  <2> QED BY <1>3, <2>1, <2>2, ElemsTail
<1>5. /\ \A r \in Ports : r # q => queued'[r] = queued[r]
      /\ socket'[p] = state /\ socket[p] = "queued"
      /\ \A s \in Peers : s # p => socket'[s] = socket[s]
      /\ \A r \in Ports : r # q => p \notin Elems(queued[r])
  BY <1>1, <1>4 DEF TypeOK, QueuesAreApart
<1> HIDE DEF q, p
<1>6. TypeOK'
  BY <1>1, <1>2, <1>4, <1>5 DEF TypeOK
<1>7. NothingLost'
  BY <1>1, <1>2, <1>5 DEF NothingLost, Kept
<1>8. QueuesAreApart'
  <2>1. \A r \in Ports : Distinct(queued'[r])
    BY <1>4, <1>5 DEF QueuesAreApart
  <2>2. \A r \in Ports : Elems(queued'[r]) \subseteq Elems(queued[r]) \ {p}
    BY <1>4, <1>5
  <2>3. \A r \in Ports : \A s \in Elems(queued'[r]) : socket'[s] = "queued"
    BY <1>5, <2>2, QueueElems DEF QueuesAreApart
  <2>4. \A r, v \in Ports : r # v => Elems(queued'[r]) \cap Elems(queued'[v]) = {}
    BY <2>2 DEF QueuesAreApart
  <2> QED BY <2>1, <2>3, <2>4 DEF QueuesAreApart
<1>9. BatchIsCurrent'
  <2>1. \A e \in Elems(events') : e \in Ports \cup Peers
    BY <1>2 DEF Elems
  <2> QED BY <1>1, <1>2, <1>5, <2>1 DEF BatchIsCurrent
<1>10. AllReported'
  BY <1>1, <1>2, <1>5 DEF AllReported, TypeOK
<1> QED BY <1>6, <1>7, <1>8, <1>9, <1>10

LEMMA RecvKeeps ==
  ASSUME ServerInv, Recv, Reading \in Peers
  PROVE  ServerInv'
<1> USE PortsAssumption DEF ServerInv
<1>1. /\ server = "recv" /\ inbox[Reading] > 0
      /\ inbox' = [inbox EXCEPT ![Reading] = @ - 1]
      /\ message' = message + 1 \/ (Reading \in Binary /\ message' = message)
      /\ UNCHANGED <<server, events, printed, listening, queued, socket, sent, gone, ready>>
  BY DEF Recv, TakeChunk
<1>2. TypeOK'
  <2>1. inbox[Reading] - 1 \in 0..MaxSends /\ message' \in Nat
    BY <1>1, BoundsAssumption DEF TypeOK
  <2>2. inbox' \in [Peers -> 0..MaxSends]
    BY <1>1, <2>1 DEF TypeOK
  <2> QED BY <1>1, <2>1, <2>2 DEF TypeOK
<1>3. NothingLost'
  <2>1. /\ inbox'[Reading] = inbox[Reading] - 1
        /\ \A s \in Peers : s # Reading => inbox'[s] = inbox[s]
        /\ inbox[Reading] \in Nat /\ printed[Reading] \in Nat /\ message \in Nat
    BY <1>1 DEF TypeOK
  <2>2. Reading' = Reading
    BY <1>1 DEF Reading
  <2>3. /\ Kept(Reading)' = Kept(Reading)
           \/ (Reading \in Binary /\ Kept(Reading)' = Kept(Reading) - 1)
        /\ \A s \in Peers : s # Reading => Kept(s)' = Kept(s)
    BY <1>1, <2>1, <2>2 DEF Kept
  <2> QED BY <1>1, <2>2, <2>3, KeptIsNat DEF NothingLost, TypeOK
<1>4. QueuesAreApart' /\ BatchIsCurrent'
  BY <1>1 DEF QueuesAreApart, BatchIsCurrent
<1>5. AllReported'
  BY <1>1 DEF AllReported, TypeOK
<1> QED BY <1>2, <1>3, <1>4, <1>5

\* A read that ends: the message is printed, or the socket is closed.
LEMMA ReadEndKeeps ==
  ASSUME ServerInv, Report \/ Close, Reading \in Peers
  PROVE  ServerInv'
<1> USE PortsAssumption DEF ServerInv
<1>1. /\ server = "recv" /\ inbox[Reading] = 0 /\ NextEvent
      /\ UNCHANGED <<listening, message, queued, inbox, sent, gone>>
  BY DEF Report, Close, PrintMessage, CloseReading
<1>2. /\ events # <<>> /\ events' \in Seq(Ports \cup Peers) /\ Distinct(events')
      /\ Reading \in Elems(events) /\ Elems(events) = Elems(events') \cup {Reading}
      /\ Reading \notin Elems(events')
      /\ server' \in {"wait", "events"} /\ (server' = "wait" <=> events' = <<>>)
  <2>1. events # <<>>
    BY <1>1 DEF TypeOK
  <2>2. Distinct(events)
    BY DEF BatchIsCurrent
  <2> QED BY <1>1, <2>1, <2>2, NextEventFacts
<1>3. socket[Reading] = "open"
  BY <1>2 DEF BatchIsCurrent
<1>4. \A e \in Elems(events') : e \in Ports \cup Peers
  BY <1>2 DEF Elems
<1>5. CASE Report
  <2>1. /\ printed' = [printed EXCEPT ![Reading] = @ + message] /\ Reading \notin gone
        /\ UNCHANGED <<socket, ready>>
    BY <1>5 DEF Report, PrintMessage
  <2>2. printed[Reading] + message \in 0..MaxSends
    <3>1. inbox[Reading] + printed[Reading] + message <= sent[Reading]
      BY <1>1, <1>3, KeptBound
    <3>2. /\ printed[Reading] \in Nat /\ message \in Nat
          /\ sent[Reading] \in Nat /\ sent[Reading] <= MaxSends /\ MaxSends \in Nat
      BY BoundsAssumption DEF TypeOK
    <3> QED BY <1>1, <3>1, <3>2
  <2>3. TypeOK'
    <3>1. printed' \in [Peers -> 0..MaxSends]
      BY <2>1, <2>2 DEF TypeOK
    <3> QED BY <1>1, <1>2, <2>1, <3>1 DEF TypeOK
  <2>4. NothingLost'
    <3>1. \A s \in Peers : (socket[s] = "open" /\ s = Reading) \/ s # Reading => Kept(s)' = Kept(s)
      BY <1>1, <1>2, <2>1 DEF Kept, TypeOK
    <3> QED BY <1>1, <1>3, <2>1, <3>1 DEF NothingLost
  <2>5. QueuesAreApart' /\ BatchIsCurrent' /\ AllReported'
    BY <1>1, <1>2, <2>1 DEF QueuesAreApart, BatchIsCurrent, AllReported
  <2> QED BY <2>3, <2>4, <2>5
<1>6. CASE Close
  <2>1. /\ socket' = [socket EXCEPT ![Reading] = "closed"] /\ ready' = ready \ {Reading}
        /\ UNCHANGED printed
    BY <1>6 DEF Close, CloseReading
  <2>2. /\ socket'[Reading] = "closed"
        /\ \A s \in Peers : s # Reading => socket'[s] = socket[s]
    BY <2>1 DEF TypeOK
  <2>3. TypeOK'
    BY <1>1, <1>2, <2>1 DEF TypeOK
  <2>4. NothingLost'
    <3>1. \A s \in Peers : s # Reading => Kept(s)' = Kept(s)
      BY <1>1, <1>2, <2>1 DEF Kept
    <3> QED BY <1>1, <2>1, <2>2, <3>1 DEF NothingLost
  <2>5. QueuesAreApart'
    <3>1. \A r \in Ports : \A s \in Elems(queued[r]) : s \in Peers /\ s # Reading
      BY <1>3, QueueElems DEF QueuesAreApart
    <3> QED BY <1>1, <2>2, <3>1 DEF QueuesAreApart
  <2>6. BatchIsCurrent'
    BY <1>1, <1>2, <1>4, <2>2 DEF BatchIsCurrent
  <2>7. AllReported'
    BY <1>1, <1>2, <2>1, <2>2 DEF AllReported, TypeOK
  <2> QED BY <2>3, <2>4, <2>5, <2>6, <2>7
<1> QED BY <1>5, <1>6

-----------------------------------------------------------------------------
(* The theorems.                                                           *)

\* A socket is read only for an event about it.
ReadsSocket == server = "recv" => Reading \in Peers

LEMMA NextServerInv ==
  ServerInv /\ ReadsSocket /\ [Next]_vars => ServerInv' /\ ReadsSocket'
<1> SUFFICES ASSUME ServerInv, ReadsSocket, [Next]_vars PROVE ServerInv' /\ ReadsSocket'
  OBVIOUS
<1>1. ServerInv'
  <2>1. CASE Listen \/ SetupFails \/ AcceptFails \/ BeginRecv \/ Idle \/ UNCHANGED vars
    BY <2>1, QuietStepsKeep DEF Idle
  <2>2. CASE EpollWait
    BY <2>2, EpollWaitKeeps
  <2>3. CASE Accept \/ AcceptUnwatched
    BY <2>3, AcceptKeeps DEF Accept, AcceptUnwatched
  <2>4. CASE Recv
    <3>1. Reading \in Peers
      BY <2>4 DEF Recv, TakeChunk, ReadsSocket
    <3> QED BY <2>4, <3>1, RecvKeeps
  <2>5. CASE Report \/ Close
    <3>1. Reading \in Peers
      BY <2>5 DEF Report, Close, PrintMessage, CloseReading, ReadsSocket
    <3> QED BY <2>5, <3>1, ReadEndKeeps
  <2>6. CASE \E p \in Peers : PeerStep(p)
    BY <2>6, PeersKeep
  <2> QED BY <2>1, <2>2, <2>3, <2>4, <2>5, <2>6 DEF Next, ServerStep
<1>2. ASSUME server' = "recv" PROVE Reading' \in Peers
  <2>1. BeginRecv \/ (server = "recv" /\ UNCHANGED events)
    BY <1>2 DEF Next, ServerStep, Idle, PeerStep, Listen, SetupFails, AcceptFails, EpollWait,
       Accept, AcceptUnwatched, TakeConnection, Recv, TakeChunk, Report, Close, PrintMessage, CloseReading,
       NextEvent, Connect, Send, Disconnect, serverVars, vars
  <2> QED BY <2>1 DEF BeginRecv, Reading, ReadsSocket
<1> QED BY <1>1, <1>2 DEF ReadsSocket

\* The strengthening holds for all ports, peers, backlogs and messages.
THEOREM ServerInvariant == Spec => [](ServerInv /\ ReadsSocket)
<1>1. Init => ServerInv /\ ReadsSocket
  BY InitServerInv DEF Init, ReadsSocket
<1> QED BY <1>1, NextServerInv, PTL DEF Spec

\* 100-158: events stay true until their turn comes.
THEOREM EventsStayCurrent == Spec => []EventsAreCurrent
<1>1. ServerInv => EventsAreCurrent
  BY DEF ServerInv, BatchIsCurrent, EventsAreCurrent, Elems
<1> QED BY <1>1, ServerInvariant, PTL

\* 137-156: up to its close, no text that a peer has sent is lost, and nothing is
\* printed twice, be it text or not.
THEOREM NothingIsLost == Spec => []NothingLost
<1>1. ServerInv => NothingLost
  BY DEF ServerInv
<1> QED BY <1>1, ServerInvariant, PTL

\* 137-142: the server never goes to sleep on something that epoll has forgotten.
THEOREM NothingIsStranded == Spec => []NothingStranded
<1>1. ServerInv => NothingStranded
  <2> SUFFICES ASSUME ServerInv, server = "wait" PROVE NothingStranded
    BY DEF NothingStranded
  <2>1. Elems(events) = {}
    BY EmptySeq DEF ServerInv, BatchIsCurrent, Elems
  <2> QED BY <2>1 DEF ServerInv, AllReported, NothingStranded
<1> QED BY <1>1, ServerInvariant, PTL
=============================================================================
