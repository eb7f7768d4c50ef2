------------------------- MODULE MqttPublisherProofs -------------------------
(***************************************************************************)
(* Proofs about the MqttPublisher for any number of sockets, addresses and *)
(* faults, any set of messages and any buffer size.                        *)
(*                                                                         *)
(* ControlInv says which descriptors are held at which point of the code;  *)
(* AckInv says that a socket that publish() may write to belongs to an     *)
(* accepted session, and stays so whatever the broker does.                *)
(***************************************************************************)
EXTENDS MqttPublisher, TLAPS

\* Where the code holds a descriptor, and which one.
ControlInv ==
  /\ pc = "connecting" <=> fd # NoFd
  /\ pc \in {"resolve", "dial", "connecting"} => fd_ = NoFd
  /\ pc \in Sending \cup {"recvAck", "close"} => fd_ # NoFd

\* An answered CONNECT is not answered again, and PUBLISH is only written to
\* a connection whose CONNECT was accepted.
AckInv ==
  /\ \A s \in Sockets : sock[s].ack # "none" => sock[s].stage \notin {"fresh", "deciding"}
  /\ pc = "sendPublish" => sock[fd_].ack = "accept"

TC   == TypeOK /\ ControlInv
IInv == TC /\ NoFdLeak /\ AckInv /\ VerdictMatchesSession

-----------------------------------------------------------------------------
\* -1 is not a descriptor.
LEMMA NoFdIsNone == NoFd \notin Sockets
BY MqttAssumption DEF NoFd

\* The constructor's state, before any socket exists, satisfies IInv.
LEMMA InitIInv == Init => IInv
<1> SUFFICES ASSUME Init PROVE IInv
  OBVIOUS
<1>1. Unused \in Socket
  BY DEF Unused, Socket, AckLen, NoPacket, Segment
<1>2. TypeOK
  <2>1. sock \in [Sockets -> Socket]
    BY <1>1 DEF Init
  <2>2. ai \in 1..NAddr /\ off \in 0..2 /\ got \in 0..AckLen /\ faults \in 0..MaxFaults
    BY MqttAssumption DEF Init, AckLen
  <2>3. stalled \in BOOLEAN
    BY DEF Init
  <2> QED BY <2>1, <2>2, <2>3 DEF Init, TypeOK, PCs
<1>3. ControlInv
  BY DEF Init, ControlInv, Sending
<1>4. \A s \in Sockets : sock[s] = Unused
  BY DEF Init
<1>5. NoFdLeak
  BY <1>4 DEF Init, NoFdLeak, Unused
<1>6. AckInv
  BY <1>4 DEF Init, AckInv, Unused
<1>7. VerdictMatchesSession
  BY DEF Init, VerdictMatchesSession
<1> QED BY <1>2, <1>3, <1>5, <1>6, <1>7 DEF IInv, TC

-----------------------------------------------------------------------------
(* Types and control *)

\* What the code puts on the wire is a packet of one or two segments.
LEMMA OutgoingType ==
  ASSUME TypeOK PROVE Outgoing \in Packet /\ Size(Outgoing) \in 1..2
BY DEF TypeOK, Outgoing, Packet, Size

\* The values the actions store in a socket are sockets.
LEMMA SocketTypes ==
  ASSUME TypeOK, NEW s \in Sockets
  PROVE  /\ sock[s] \in Socket /\ Unused \in Socket
         /\ Closed(s) \in Socket /\ Dropped(s) \in Socket
<1>1. Unused \in Socket
  BY DEF Unused, Socket, AckLen, NoPacket, Segment
<1>2. sock[s] \in Socket
  BY DEF TypeOK
<1>3. ASSUME NEW x \in Socket
      PROVE  [x EXCEPT !.open = FALSE] \in Socket /\ [x EXCEPT !.link = "half"] \in Socket
  BY DEF Socket
<1>4. Closed(s) \in Socket
  BY <1>1, <1>2, <1>3 DEF Closed
<1>5. Dropped(s) \in Socket
  BY <1>1, <1>2, <1>3 DEF Dropped
<1> QED BY <1>1, <1>2, <1>4, <1>5

\* Storing a socket in the table keeps the table's type.
LEMMA StoreType ==
  ASSUME TypeOK, NEW s, NEW x \in Socket
  PROVE  [sock EXCEPT ![s] = x] \in [Sockets -> Socket]
BY DEF TypeOK

\* The variables other than sock have their types.
Scalars ==
  /\ pc \in PCs
  /\ op \in {"connect", "publish", "disconnect"}
  /\ cont \in {"resolve", "fail", "void"}
  /\ fd_ \in Sockets \cup {NoFd} /\ fd \in Sockets \cup {NoFd}
  /\ ai \in 1..NAddr /\ off \in 0..2 /\ got \in 0..AckLen
  /\ msg \in Messages \cup {NoMsg}
  /\ res \in {"ok", "fail", "void"}
  /\ stalled \in BOOLEAN /\ faults \in 0..MaxFaults

\* The entry of a call preserves the types and the control invariant.
LEMMA CallTC == ASSUME TC, Call PROVE TC'
<1> USE DEF TC
<1>1. CASE Connect
  BY <1>1 DEF Connect, EnterDisconnect, TypeOK, ControlInv, PCs, Sending, network
<1>2. CASE Disconnect
  BY <1>2 DEF Disconnect, EnterDisconnect, TypeOK, ControlInv, PCs, Sending, network
<1>3. ASSUME NEW m \in Messages, Publish(m) PROVE TC'
  BY <1>3 DEF Publish, TypeOK, ControlInv, PCs, Sending, network
<1> QED BY <1>1, <1>2, <1>3 DEF Call

\* So does every system call of the client.
LEMMA StepTC == ASSUME TC, Step PROVE TC'
<1>1. TypeOK /\ Scalars /\ ControlInv
  BY DEF TC, TypeOK, Scalars
<1> SUFFICES sock' \in [Sockets -> Socket] /\ Scalars' /\ ControlInv'
  BY DEF TC, TypeOK, Scalars
<1> USE DEF callVars
<1>2. sock \in [Sockets -> Socket]
  BY <1>1 DEF TypeOK
<1>3. CASE Resolve
  BY <1>1, <1>2, <1>3, MqttAssumption DEF Resolve, Fault, Scalars, ControlInv, PCs, Sending
<1>4. ASSUME NEW s \in Sockets, OpenSocket(s)
      PROVE  sock' \in [Sockets -> Socket] /\ Scalars' /\ ControlInv'
  <2>1. [sock[s] EXCEPT !.open = TRUE] \in Socket
    BY <1>2 DEF Socket
  <2>2. sock' \in [Sockets -> Socket]
    BY <1>1, <1>2, <1>4, <2>1, StoreType DEF OpenSocket
  <2>3. Scalars' /\ ControlInv'
    BY <1>1, <1>4, NoFdIsNone DEF OpenSocket, Scalars, ControlInv, PCs, Sending
  <2> QED BY <2>2, <2>3
<1>5. CASE SocketFails
  BY <1>1, <1>2, <1>5, MqttAssumption
  DEF SocketFails, NextAddress, Fault, Scalars, ControlInv, PCs, Sending
<1>6. CASE DialOk
  <2>1. fd \in Sockets /\ [sock[fd] EXCEPT !.link = "up"] \in Socket
    BY <1>1, <1>2, <1>6 DEF DialOk, ControlInv, Scalars, Socket
  <2>2. sock' \in [Sockets -> Socket]
    BY <1>1, <1>2, <1>6, <2>1, StoreType DEF DialOk
  <2>3. Scalars' /\ ControlInv'
    BY <1>1, <1>6 DEF DialOk, Scalars, ControlInv, PCs, Sending
  <2> QED BY <2>2, <2>3
<1>7. CASE DialFails
  <2>1. sock' \in [Sockets -> Socket]
    <3>1. fd \in Sockets
      BY <1>1, <1>7 DEF DialFails, Hangup, ControlInv, Scalars
    <3> QED BY <1>1, <1>7, <3>1, SocketTypes, StoreType DEF DialFails, Hangup
  <2>2. Scalars' /\ ControlInv'
    BY <1>1, <1>7, MqttAssumption
    DEF DialFails, Hangup, NextAddress, Fault, Scalars, ControlInv, PCs, Sending
  <2> QED BY <2>1, <2>2
<1>8. CASE SendFails
  BY <1>1, <1>2, <1>8 DEF SendFails, GiveUp, EnterDisconnect, Scalars, ControlInv, PCs, Sending, network
<1>9. CASE Recv
  <2>1. fd_ \in Sockets /\ sock[fd_] \in Socket /\ sock[fd_].acked \in 0..AckLen
    BY <1>1, <1>2, <1>9 DEF Recv, ControlInv, Scalars, Socket
  <2> QED BY <1>1, <1>2, <1>9, <2>1
          DEF Recv, Acknowledged, GiveUp, EnterDisconnect, Scalars, ControlInv, PCs, Sending, network
<1>10. CASE RecvFails
  BY <1>1, <1>2, <1>10, MqttAssumption
  DEF RecvFails, GiveUp, Fault, EnterDisconnect, Scalars, ControlInv, PCs, Sending
<1>11. CASE Close
  <2>1. sock' \in [Sockets -> Socket]
    <3>1. fd_ \in Sockets
      BY <1>1, <1>11 DEF Close, ControlInv, Scalars
    <3> QED BY <1>1, <1>11, <3>1, SocketTypes, StoreType DEF Close
  <2>2. Scalars' /\ ControlInv'
    BY <1>1, <1>11 DEF Close, Scalars, ControlInv, PCs, Sending
  <2> QED BY <2>1, <2>2
<1>12. ASSUME NEW k \in 1..2, Send(k)
       PROVE  sock' \in [Sockets -> Socket] /\ Scalars' /\ ControlInv'
  <2>1. fd_ \in Sockets /\ Outgoing \in Packet /\ Size(Outgoing) \in 1..2
    BY <1>1, <1>12, OutgoingType DEF Send, AllSent, ControlInv, Scalars
  <2>2. off \in 0..2 /\ k \in 1..(Size(Outgoing) - off)
    BY <1>1, <1>12 DEF Send, AllSent, Scalars
  <2>3. sock' \in [Sockets -> Socket]
    <3> DEFINE sent == [i \in 1..k |-> [pkt |-> Outgoing, part |-> off + i]]
    <3>1. sent \in Seq(Segment)
      <4>1. \A i \in 1..k : off + i \in 1..2
        BY <2>1, <2>2
      <4>2. \A i \in 1..k : [pkt |-> Outgoing, part |-> off + i] \in Segment
        BY <4>1, <2>1 DEF Segment
      <4> QED BY <4>2
    <3>2. sock[fd_].out \o sent \in Seq(Segment)
      BY <3>1, <2>1, <1>2 DEF Socket
    <3> HIDE DEF sent
    <3>3. [sock[fd_] EXCEPT !.out = sock[fd_].out \o sent] \in Socket
      BY <3>2, <2>1, <1>2 DEF Socket
    <3>4. sock' = [sock EXCEPT ![fd_] = [sock[fd_] EXCEPT !.out = sock[fd_].out \o sent]]
      BY <1>12, <1>2, <2>1 DEF Send, AllSent, Queue, sent
    <3> QED BY <3>3, <3>4, <1>1, StoreType
  <2>4. off' \in 0..2
    BY <1>12, <2>1, <2>2 DEF Send, AllSent
  <2>5. Scalars' /\ ControlInv'
    BY <1>1, <1>12, <2>4 DEF Send, AllSent, Sent, Scalars, ControlInv, PCs, Sending, AckLen
  <2> QED BY <2>3, <2>5
<1> QED BY <1>3, <1>4, <1>5, <1>6, <1>7, <1>8, <1>9, <1>10, <1>11, <1>12 DEF Step

-----------------------------------------------------------------------------
(* What the network and the broker may do to a socket *)

Answered(s) == sock[s].ack # "none" => sock[s].stage \notin {"fresh", "deciding"}

\* A socket the network has touched: still a socket, still open or not as the
\* client left it, answered at most once, and an accepted CONNECT stays
\* accepted for as long as the client holds the socket.
Touched(s) ==
  /\ sock'[s] \in Socket
  /\ sock'[s].open = sock[s].open
  /\ Answered(s) => Answered(s)'
  /\ Answered(s) /\ sock[s].open /\ sock[s].ack = "accept" => sock'[s].ack = "accept"

\* Leaving a socket alone, or dropping it, is such a touch.
LEMMA LeftOrDropped ==
  ASSUME TypeOK, NEW s \in Sockets, sock'[s] = sock[s] \/ sock'[s] = Dropped(s)
  PROVE  Touched(s)
<1>1. sock[s] \in Socket /\ Dropped(s) \in Socket
  BY SocketTypes
<1>2. CASE sock'[s] = sock[s]
  BY <1>1, <1>2 DEF Touched, Answered
<1>3. CASE sock'[s] = Dropped(s) /\ sock[s].open
  BY <1>1, <1>3 DEF Touched, Answered, Dropped, Socket
<1>4. CASE sock'[s] = Dropped(s) /\ ~sock[s].open
  BY <1>1, <1>4 DEF Touched, Answered, Dropped, Unused, Socket
<1> QED BY <1>2, <1>3, <1>4

\* Every step of the network and the broker leaves the client alone and
\* touches sockets in these ways only.
LEMMA NetworkTouches ==
  ASSUME TypeOK, Network
  PROVE  /\ UNCHANGED client
         /\ sock' \in [Sockets -> Socket]
         /\ stalled' \in BOOLEAN /\ faults' \in 0..MaxFaults
         /\ \A s \in Sockets : Touched(s)
<1>1. /\ sock \in [Sockets -> Socket] /\ stalled \in BOOLEAN /\ faults \in 0..MaxFaults
      /\ \A s \in Sockets : sock[s] \in Socket /\ Dropped(s) \in Socket
  BY SocketTypes DEF TypeOK
<1> DEFINE Goal == /\ UNCHANGED client
                   /\ sock' \in [Sockets -> Socket]
                   /\ stalled' \in BOOLEAN /\ faults' \in 0..MaxFaults
                   /\ \A s \in Sockets : Touched(s)
<1>2. ASSUME Fault PROVE faults' \in 0..MaxFaults
  BY <1>1, <1>2, MqttAssumption DEF Fault
<1>3. CASE Stall
  <2>1. UNCHANGED client /\ sock' = sock /\ stalled' \in BOOLEAN /\ faults' \in 0..MaxFaults
    BY <1>2, <1>3 DEF Stall
  <2> QED BY <2>1, <1>1, LeftOrDropped
<1>4. CASE Unstall
  <2>1. UNCHANGED client /\ sock' = sock /\ stalled' \in BOOLEAN /\ faults' = faults
    BY <1>4 DEF Unstall
  <2> QED BY <2>1, <1>1, LeftOrDropped
<1>5. ASSUME NEW t \in Sockets, LinkDown(t) PROVE Goal
  <2>1. /\ UNCHANGED client /\ sock' = [sock EXCEPT ![t] = Dropped(t)]
        /\ stalled' = stalled /\ faults' \in 0..MaxFaults
    BY <1>2, <1>5 DEF LinkDown
  <2>2. \A s \in Sockets : sock'[s] = sock[s] \/ sock'[s] = Dropped(s)
    BY <2>1, <1>1
  <2> QED BY <2>1, <2>2, <1>1, LeftOrDropped
<1>6. ASSUME NEW t \in Sockets, BrokerClose(t) PROVE Goal
  <2>1. /\ UNCHANGED client /\ sock' = [sock EXCEPT ![t] = Dropped(t)]
        /\ stalled' = stalled /\ faults' = faults
    BY <1>6 DEF BrokerClose
  <2>2. \A s \in Sockets : sock'[s] = sock[s] \/ sock'[s] = Dropped(s)
    BY <2>1, <1>1
  <2> QED BY <2>1, <2>2, <1>1, LeftOrDropped
<1>7. ASSUME NEW t \in Sockets, NEW x \in Socket, sock' = [sock EXCEPT ![t] = x],
             x.open = sock[t].open, x.ack = sock[t].ack,
             sock[t].stage \notin {"fresh", "deciding"} => x.stage \notin {"fresh", "deciding"}
      PROVE  sock' \in [Sockets -> Socket] /\ \A s \in Sockets : Touched(s)
  <2>1. sock' \in [Sockets -> Socket] /\ sock'[t] = x
    BY <1>1, <1>7
  <2>2. Touched(t)
    BY <1>7, <2>1 DEF Touched, Answered
  <2>3. \A s \in Sockets : s # t => sock'[s] = sock[s]
    BY <1>1, <1>7
  <2> QED BY <2>1, <2>2, <2>3, LeftOrDropped
<1>8. ASSUME NEW t \in Sockets, LinkReset(t) \/ KernelGivesUp(t) PROVE Goal
  <2> DEFINE x == [sock[t] EXCEPT !.link = "dead"]
  <2>1. /\ UNCHANGED client /\ sock' = [sock EXCEPT ![t] = x]
        /\ stalled' = stalled /\ faults' \in 0..MaxFaults
    BY <1>1, <1>2, <1>8 DEF LinkReset, KernelGivesUp
  <2>2. x \in Socket /\ x.open = sock[t].open /\ x.ack = sock[t].ack /\ x.stage = sock[t].stage
    BY <1>1 DEF Socket
  <2> QED BY <2>1, <2>2, <1>1, <1>7
<1>9. ASSUME NEW t \in Sockets, AckRest(t) PROVE Goal
  <2> DEFINE x == [sock[t] EXCEPT !.acked = AckLen]
  <2>1. /\ UNCHANGED client /\ sock' = [sock EXCEPT ![t] = x]
        /\ stalled' = stalled /\ faults' = faults
    BY <1>1, <1>9 DEF AckRest
  <2>2. x \in Socket /\ x.open = sock[t].open /\ x.ack = sock[t].ack /\ x.stage = sock[t].stage
    <3>1. AckLen \in 0..AckLen
      BY DEF AckLen
    <3> QED BY <1>1, <3>1 DEF Socket
  <2> QED BY <2>1, <2>2, <1>1, <1>7
<1>10. ASSUME NEW t \in Sockets, BrokerRead(t) PROVE Goal
  <2> DEFINE pkt  == Head(sock[t].out).pkt
             part == IF Begins(t) THEN pkt ELSE NoPacket
             next == IF Begins(t) THEN sock[t].stage
                     ELSE IF Completes(t) THEN StageAfter(sock[t].stage, pkt.kind)
                     ELSE "broken"
             x    == [sock[t] EXCEPT !.out = Tail(sock[t].out), !.partial = part,
                                     !.stage = next]
  <2>1. /\ UNCHANGED client /\ sock' = [sock EXCEPT ![t] = x]
        /\ stalled' = stalled /\ faults' = faults /\ sock[t].out # << >>
    BY <1>1, <1>10 DEF BrokerRead
  <2>2. sock[t].out \in Seq(Segment) /\ sock[t].stage \in {"fresh", "deciding", "session", "rejected", "ended", "broken"}
    BY <1>1 DEF Socket
  <2>3. Head(sock[t].out) \in Segment /\ Tail(sock[t].out) \in Seq(Segment)
    BY <2>1, <2>2
  <2>4. part \in Packet \cup {NoPacket}
    BY <2>3 DEF Segment
  <2>5. /\ next \in {"fresh", "deciding", "session", "rejected", "ended", "broken"}
        /\ sock[t].stage \notin {"fresh", "deciding"} => next \notin {"fresh", "deciding"}
    BY <2>2 DEF StageAfter
  <2> HIDE DEF pkt, part, next
  <2>6. x \in Socket /\ x.open = sock[t].open /\ x.ack = sock[t].ack /\ x.stage = next
    BY <1>1, <2>3, <2>4, <2>5 DEF Socket
  <2> QED BY <2>1, <2>5, <2>6, <1>1, <1>7
<1>11. ASSUME NEW t \in Sockets, NEW v \in {"accept", "reject"}, NEW n \in 1..AckLen,
              BrokerConnack(t, v, n)
       PROVE  Goal
  <2> DEFINE to == IF v = "accept" THEN "session" ELSE "rejected"
             x  == [sock[t] EXCEPT !.ack = v, !.acked = n, !.stage = to]
  <2>1. /\ UNCHANGED client /\ stalled' = stalled /\ faults' \in 0..MaxFaults
    BY <1>1, <1>2, <1>11 DEF BrokerConnack
  <2>2. x \in Socket /\ x.open = sock[t].open /\ x.ack = v /\ x.stage \notin {"fresh", "deciding"}
    <3>1. n \in 0..AckLen /\ to \in {"session", "rejected"}
      BY DEF AckLen
    <3> HIDE DEF to
    <3> QED BY <1>1, <3>1 DEF Socket
  <2>3. sock[t].stage = "deciding" /\ sock'[t] = x
    BY <1>11 DEF BrokerConnack
  <2>4. \A s \in Sockets : s # t => sock'[s] = sock[s] \/ sock'[s] = Dropped(s)
    BY <1>11 DEF BrokerConnack
  <2>5. DOMAIN sock' = Sockets /\ sock' = [s \in Sockets |-> sock'[s]]
    BY <1>11 DEF BrokerConnack
  <2> HIDE DEF x
  <2>6. sock' \in [Sockets -> Socket]
    BY <2>2, <2>3, <2>4, <2>5, <1>1
  <2>7. Touched(t)
    BY <2>2, <2>3 DEF Touched, Answered
  <2> QED BY <2>1, <2>4, <2>6, <2>7, <1>1, LeftOrDropped
<1> HIDE DEF Goal
<1>12. Goal
  BY <1>3, <1>4, <1>5, <1>6, <1>8, <1>9, <1>10, <1>11 DEF Network, NetFault, NetStep, Goal
<1> QED BY <1>12 DEF Goal

-----------------------------------------------------------------------------
(* The invariant *)

\* Types and control are preserved by every step.
LEMMA NextTC == ASSUME TC, [Next]_vars PROVE TC'
<1>1. CASE UNCHANGED vars
  BY <1>1 DEF vars, client, network, TC, TypeOK, ControlInv
<1>2. CASE Network
  <2>1. /\ UNCHANGED client /\ sock' \in [Sockets -> Socket]
        /\ stalled' \in BOOLEAN /\ faults' \in 0..MaxFaults
    BY <1>2, NetworkTouches DEF TC
  <2> QED BY <2>1 DEF client, TC, TypeOK, ControlInv
<1> QED BY <1>1, <1>2, CallTC, StepTC DEF Next

\* NoFdLeak, socket by socket.
LEMMA OpenPointwise ==
  ASSUME TypeOK
  PROVE  NoFdLeak <=> \A s \in Sockets : sock[s].open <=> (s = fd_ \/ s = fd)
<1>1. \A s \in Sockets : s # NoFd
  BY NoFdIsNone
<1>2. fd_ \in Sockets \cup {NoFd} /\ fd \in Sockets \cup {NoFd}
  BY DEF TypeOK
<1>3. ASSUME NoFdLeak, NEW s \in Sockets PROVE sock[s].open <=> (s = fd_ \/ s = fd)
  BY <1>1, <1>3, Zenon DEF NoFdLeak
<1>4. ASSUME \A s \in Sockets : sock[s].open <=> (s = fd_ \/ s = fd) PROVE NoFdLeak
  BY <1>1, <1>2, <1>4, Zenon DEF NoFdLeak
<1> QED BY <1>3, <1>4

\* Every path through connect(), publish() and disconnect() closes what it
\* does not keep.
LEMMA ClientNoFdLeak == ASSUME TC, NoFdLeak, Call \/ Step PROVE NoFdLeak'
<1> DEFINE Held(s) == s = fd_ \/ s = fd
<1>1. TypeOK /\ TypeOK' /\ ControlInv
  BY NextTC DEF TC, Next
<1>2. \A s \in Sockets : sock[s].open <=> Held(s)
  BY <1>1, OpenPointwise
<1>3. (NoFdLeak <=> \A s \in Sockets : sock[s].open <=> Held(s))'
  BY <1>1, OpenPointwise, PTL
<1> SUFFICES ASSUME NEW s \in Sockets PROVE sock'[s].open <=> Held(s)'
  BY <1>3
<1>4. s # NoFd /\ sock \in [Sockets -> Socket] /\ sock[s] \in Socket
  BY <1>1, NoFdIsNone DEF TypeOK
<1>5. CASE UNCHANGED <<sock, fd_, fd>>
  BY <1>2, <1>5
<1>6. ASSUME NEW t \in Sockets, OpenSocket(t) PROVE sock'[s].open <=> Held(s)'
  <2>1. fd_' = fd_ /\ fd' = t /\ fd_ = NoFd /\ fd = NoFd
    BY <1>1, <1>6 DEF OpenSocket, ControlInv
  <2>2. sock'[t].open /\ (s # t => sock'[s] = sock[s])
    BY <1>4, <1>6 DEF OpenSocket, Socket, TypeOK
  <2> QED BY <2>1, <2>2, <1>2, <1>4
<1>7. CASE DialOk
  <2>1. fd_' = fd /\ fd' = NoFd /\ fd_ = NoFd /\ sock'[s].open = sock[s].open
    BY <1>1, <1>4, <1>7 DEF DialOk, ControlInv, Socket
  <2> QED BY <2>1, <1>2, <1>4
<1>8. CASE DialFails
  <2>1. fd_' = fd_ /\ fd' = NoFd /\ fd_ = NoFd
    BY <1>1, <1>8 DEF DialFails, Hangup, ControlInv
  <2>2. (s = fd => ~sock'[s].open) /\ (s # fd => sock'[s] = sock[s])
    BY <1>4, <1>8 DEF DialFails, Hangup, Unused
  <2> QED BY <2>1, <2>2, <1>2, <1>4
<1>9. CASE Close
  <2>1. fd_' = NoFd /\ fd' = fd /\ fd = NoFd
    BY <1>1, <1>9 DEF Close, ControlInv
  <2>2. (s = fd_ => ~sock'[s].open) /\ (s # fd_ => sock'[s] = sock[s])
    BY <1>4, <1>9 DEF Close, Closed, Unused, Socket
  <2> QED BY <2>1, <2>2, <1>2, <1>4
<1>10. ASSUME NEW k \in 1..2, Send(k) PROVE sock'[s].open <=> Held(s)'
  <2>1. fd_' = fd_ /\ fd' = fd /\ sock'[s].open = sock[s].open
    BY <1>4, <1>10 DEF Send, AllSent, Queue, Socket
  <2> QED BY <2>1, <1>2
<1>11. CASE Call
  <2>1. UNCHANGED <<sock, fd_, fd>>
    BY <1>11 DEF Call, Connect, Disconnect, Publish, network
  <2> QED BY <2>1, <1>5
<1>12. CASE Resolve \/ SocketFails \/ SendFails \/ Recv \/ RecvFails
  <2>1. UNCHANGED <<sock, fd_, fd>>
    BY <1>12 DEF Resolve, SocketFails, SendFails, Recv, RecvFails, GiveUp, network
  <2> QED BY <2>1, <1>5
<1> QED BY <1>6, <1>7, <1>8, <1>9, <1>10, <1>11, <1>12 DEF Step

\* No step answers a CONNECT twice or lets publish() write without a session,
\* and each call leaves fd_ as its result says.
LEMMA ClientAck ==
  ASSUME IInv, Call \/ Step PROVE AckInv' /\ VerdictMatchesSession'
<1> DEFINE Session == fd_ # NoFd /\ sock[fd_].open /\ sock[fd_].ack = "accept"
           Verdict == pc = "idle" => IF res = "ok" THEN Session ELSE fd_ = NoFd
           Ready   == pc = "sendPublish" => sock[fd_].ack = "accept"
           All     == \A s \in Sockets : Answered(s)
<1>1. TypeOK /\ ControlInv /\ NoFdLeak /\ AckInv /\ VerdictMatchesSession
  BY DEF IInv, TC
<1>2. /\ sock \in [Sockets -> Socket] /\ fd_ \in Sockets \cup {NoFd}
      /\ fd \in Sockets \cup {NoFd} /\ NoFd \notin Sockets
      /\ op \in {"connect", "publish", "disconnect"}
  BY <1>1, NoFdIsNone DEF TypeOK
<1>3. All /\ Ready /\ Verdict
  BY <1>1 DEF AckInv, Answered, VerdictMatchesSession
<1>4. \A s \in Sockets : sock[s].open <=> (s = fd_ \/ s = fd)
  BY <1>1, OpenPointwise
<1> SUFFICES All' /\ Ready' /\ Verdict'
  BY DEF AckInv, Answered, VerdictMatchesSession
<1>5. ASSUME UNCHANGED sock PROVE All'
  BY <1>3, <1>5 DEF Answered
<1>6. CASE Connect
  BY <1>3, <1>5, <1>6 DEF Connect, EnterDisconnect, network
<1>7. CASE Disconnect
  BY <1>3, <1>5, <1>7 DEF Disconnect, EnterDisconnect, network
<1>8. ASSUME NEW m \in Messages, Publish(m) PROVE All' /\ Ready' /\ Verdict'
  BY <1>3, <1>5, <1>8 DEF Publish, network
<1>9. CASE Resolve
  BY <1>1, <1>3, <1>5, <1>9 DEF Resolve, ControlInv
<1>10. CASE SocketFails
  BY <1>1, <1>3, <1>5, <1>10 DEF SocketFails, NextAddress, ControlInv
<1>11. CASE SendFails
  BY <1>3, <1>5, <1>11 DEF SendFails, GiveUp, EnterDisconnect, network, Sending
<1>12. CASE RecvFails
  BY <1>3, <1>5, <1>12 DEF RecvFails, GiveUp, EnterDisconnect
<1>13. CASE Recv
  <2>1. fd_ \in Sockets /\ sock[fd_].open /\ UNCHANGED <<sock, fd_>> /\ pc = "recvAck"
    BY <1>1, <1>2, <1>4, <1>13 DEF Recv, ControlInv, network
  <2>2. Ready'
    BY <1>13, <2>1 DEF Recv, Acknowledged, GiveUp, EnterDisconnect
  <2>3. Verdict'
    BY <1>2, <1>13, <2>1 DEF Recv, Acknowledged, GiveUp, EnterDisconnect
  <2> QED BY <2>1, <2>2, <2>3, <1>5
<1>14. ASSUME NEW t \in Sockets, NEW x, sock' = [sock EXCEPT ![t] = x],
              x = Unused \/ (x.ack = sock[t].ack /\ x.stage = sock[t].stage)
       PROVE  All'
  BY <1>2, <1>3, <1>14 DEF Answered, Unused
<1>15. ASSUME NEW t \in Sockets, OpenSocket(t) PROVE All' /\ Ready' /\ Verdict'
  <2> DEFINE x == [sock[t] EXCEPT !.open = TRUE]
  <2>1. x.ack = sock[t].ack /\ x.stage = sock[t].stage /\ sock' = [sock EXCEPT ![t] = x]
    BY <1>2, <1>15 DEF OpenSocket, Socket
  <2>2. pc' = "connecting"
    BY <1>15 DEF OpenSocket
  <2> QED BY <2>1, <2>2, <1>14
<1>16. CASE DialOk
  <2> DEFINE x == [sock[fd] EXCEPT !.link = "up"]
  <2>1. fd \in Sockets
    BY <1>1, <1>2, <1>16 DEF DialOk, ControlInv
  <2>2. x.ack = sock[fd].ack /\ x.stage = sock[fd].stage /\ sock' = [sock EXCEPT ![fd] = x]
    BY <2>1, <1>2, <1>16 DEF DialOk, Socket
  <2>3. pc' = "sendConnect"
    BY <1>16 DEF DialOk
  <2> QED BY <2>1, <2>2, <2>3, <1>14
<1>17. CASE DialFails
  <2>1. fd \in Sockets /\ fd_ = NoFd
    BY <1>1, <1>2, <1>17 DEF DialFails, Hangup, ControlInv
  <2>2. All'
    BY <2>1, <1>14, <1>17 DEF DialFails, Hangup
  <2>3. Ready' /\ Verdict'
    BY <2>1, <1>17 DEF DialFails, Hangup, NextAddress
  <2> QED BY <2>2, <2>3
<1>18. CASE Close
  <2>1. fd_ \in Sockets
    BY <1>1, <1>2, <1>18 DEF Close, ControlInv
  <2>2. Closed(fd_) = Unused \/ (Closed(fd_).ack = sock[fd_].ack /\ Closed(fd_).stage = sock[fd_].stage)
    BY <2>1, <1>2 DEF Closed, Socket
  <2>3. All'
    BY <2>1, <2>2, <1>14, <1>18 DEF Close
  <2>4. Ready' /\ Verdict'
    BY <1>18 DEF Close
  <2> QED BY <2>3, <2>4
<1>19. ASSUME NEW k \in 1..2, Send(k) PROVE All' /\ Ready' /\ Verdict'
  <2>1. fd_ \in Sockets /\ sock[fd_].open /\ fd_' = fd_ /\ pc \in Sending
    BY <1>1, <1>2, <1>4, <1>19 DEF Send, AllSent, ControlInv
  <2>2. PICK q : sock' = [sock EXCEPT ![fd_] = [sock[fd_] EXCEPT !.out = q]]
    BY <2>1, <1>2, <1>19 DEF Send, AllSent, Queue
  <2> DEFINE x == [sock[fd_] EXCEPT !.out = q]
  <2>3. x.ack = sock[fd_].ack /\ x.stage = sock[fd_].stage /\ x.open = sock[fd_].open
    BY <2>1, <1>2 DEF Socket
  <2>4. All'
    BY <2>1, <2>2, <2>3, <1>14
  <2>5. sock'[fd_].ack = sock[fd_].ack /\ sock'[fd_].open
    BY <2>1, <2>2, <2>3, <1>2
  <2>6. Ready' /\ Verdict'
    BY <2>1, <2>5, <1>2, <1>3, <1>19 DEF Send, AllSent, Sent, Sending
  <2> QED BY <2>4, <2>6
<1> QED BY <1>6, <1>7, <1>8, <1>9, <1>10, <1>11, <1>12, <1>13, <1>15, <1>16,
           <1>17, <1>18, <1>19 DEF Call, Step

\* Touching the sockets disturbs nothing the client relies on.
LEMMA TouchedIInv ==
  ASSUME IInv, UNCHANGED client, sock' \in [Sockets -> Socket],
         stalled' \in BOOLEAN, faults' \in 0..MaxFaults, \A s \in Sockets : Touched(s)
  PROVE  IInv'
<1>1. TypeOK /\ ControlInv /\ NoFdLeak /\ AckInv /\ VerdictMatchesSession
  BY DEF IInv, TC
<1>2. TypeOK' /\ ControlInv'
  BY <1>1 DEF client, TypeOK, ControlInv
<1>3. fd_ \in Sockets \cup {NoFd} /\ fd_' = fd_ /\ fd' = fd
  BY <1>1 DEF TypeOK, client
<1>4. \A s \in Sockets : sock[s].open <=> (s = fd_ \/ s = fd)
  BY <1>1, OpenPointwise
<1>5. NoFdLeak'
  <2>1. (NoFdLeak <=> \A s \in Sockets : sock[s].open <=> (s = fd_ \/ s = fd))'
    BY <1>2, OpenPointwise, PTL
  <2>2. \A s \in Sockets : sock'[s].open <=> (s = fd_' \/ s = fd')
    BY <1>3, <1>4 DEF Touched
  <2> QED BY <2>1, <2>2
<1>6. \A s \in Sockets : Answered(s)
  BY <1>1 DEF AckInv, Answered
<1>7. \A s \in Sockets : Answered(s)'
  BY <1>6 DEF Touched
<1>8. AckInv'
  <2>1. pc = "sendPublish" => fd_ \in Sockets /\ sock[fd_].open /\ sock[fd_].ack = "accept"
    BY <1>1, <1>3, <1>4 DEF ControlInv, AckInv, Sending
  <2>2. pc = "sendPublish" => sock'[fd_].ack = "accept"
    BY <1>6, <2>1 DEF Touched
  <2> QED BY <1>7, <2>2 DEF AckInv, Answered, client
<1>9. VerdictMatchesSession'
  BY <1>1, <1>3, <1>6 DEF VerdictMatchesSession, Touched, client
<1> QED BY <1>2, <1>5, <1>8, <1>9 DEF IInv, TC

\* IInv is inductive.
LEMMA NextIInv == IInv /\ [Next]_vars => IInv'
<1> SUFFICES ASSUME IInv, [Next]_vars PROVE IInv'
  OBVIOUS
<1>1. CASE UNCHANGED vars
  BY <1>1 DEF vars, client, network, IInv, TC, TypeOK, ControlInv, NoFdLeak, AckInv, VerdictMatchesSession
<1>2. CASE Call \/ Step
  <2>1. TC' /\ NoFdLeak'
    BY <1>2, NextTC, ClientNoFdLeak DEF IInv
  <2> QED BY <1>2, <2>1, ClientAck DEF IInv
<1>3. CASE Network
  <2>1. TypeOK
    BY DEF IInv, TC
  <2> QED BY <1>3, <2>1, NetworkTouches, TouchedIInv
<1> QED BY <1>1, <1>2, <1>3 DEF Next

\* IInv holds in every state of every behaviour.
LEMMA Invariance == Spec => []IInv
BY InitIInv, NextIInv, PTL DEF Spec

-----------------------------------------------------------------------------
\* Type correctness of the client, the sockets and the broker.
THEOREM TypeCorrect == Spec => []TypeOK
<1>1. IInv => TypeOK
  BY DEF IInv, TC
<1> QED BY <1>1, Invariance, PTL

\* connect() and disconnect() never leak a descriptor, over any sequence of
\* calls, refused addresses, failures and reconnections.
THEOREM NoLeak == Spec => []NoFdLeak
<1>1. IInv => NoFdLeak
  BY DEF IInv
<1> QED BY <1>1, Invariance, PTL

\* A call that returned true has left fd_ on a session the broker accepted;
\* a call that returned false has left fd_ = -1.
THEOREM VerdictSound == Spec => []VerdictMatchesSession
<1>1. IInv => VerdictMatchesSession
  BY DEF IInv
<1> QED BY <1>1, Invariance, PTL
-----------------------------------------------------------------------------
(***************************************************************************)
(* What a broker reads on a connection is a legal MQTT session.            *)
(*                                                                         *)
(* Legal describes the stream from the broker's end: what it has read of a *)
(* packet and what is still queued fit together and fit its session.       *)
(* WriterInv describes it from the client's end: where sendAll stands in   *)
(* the packet it is writing, and what it may write next. DialInv says that *)
(* a connection starts with nothing on it, OneSession that a broker keeps  *)
(* one session of the client, CallInv which call is in progress.           *)
(***************************************************************************)

\* The segment a ends its packet.
Whole(a) == a.part = Size(a.pkt)

Follows(b, a) == IF Whole(a) THEN b.part = 1 ELSE b.pkt = a.pkt /\ b.part = 2

\* Packets are whole, from the one the broker is reading to the end of the
\* queue, where the last one may be unfinished.
Framed(x) ==
  /\ \A i \in 1..Len(x.out) : x.out[i].part <= Size(x.out[i].pkt)
  /\ \A i \in 1..(Len(x.out) - 1) : Follows(x.out[i + 1], x.out[i])
  /\ x.out # << >> => IF x.partial = NoPacket THEN x.out[1].part = 1
                      ELSE x.out[1].pkt = x.partial /\ x.out[1].part = 2

\* CONNECT comes first and once, PUBLISH is queued only in a session, and
\* nothing follows DISCONNECT.
Ordered(x) ==
  /\ x.stage = "fresh" /\ x.out # << >> => x.out[1].pkt.kind = "CONNECT"
  /\ \A i \in 1..Len(x.out) :
       /\ x.out[i].pkt.kind = "CONNECT" => x.stage = "fresh" /\ i <= x.out[i].part
       /\ x.out[i].pkt.kind = "PUBLISH" => x.stage = "session"
       /\ x.out[i].pkt.kind = "DISCONNECT" => i = Len(x.out)
  /\ x.stage = "ended" => x.out = << >>

Legal(x) == x.stage # "broken" /\ Framed(x) /\ Ordered(x)

StreamInv ==
  \A s \in Sockets : sock[s].stage # "broken" /\ (sock[s].link = "up" => Legal(sock[s]))

\* Everything written so far is whole packets.
AtBoundary(x) == IF x.out = << >> THEN x.partial = NoPacket ELSE Whole(x.out[Len(x.out)])

\* The first segment of p has been written last.
AfterFirst(x, p) ==
  IF x.out = << >> THEN x.partial = p ELSE x.out[Len(x.out)] = [pkt |-> p, part |-> 1]

\* The client's end of the connection x.
Writer(x) ==
  /\ pc \in Sending => off < Size(Outgoing)
  /\ IF pc \in Sending /\ off = 1 THEN AfterFirst(x, Outgoing) ELSE AtBoundary(x)
  /\ pc # "close" => /\ \A i \in 1..Len(x.out) : x.out[i].pkt.kind # "DISCONNECT"
                     /\ x.stage # "ended"
                     /\ x.ack = "accept" => x.stage = "session"
  /\ pc = "sendConnect" => x.stage = "fresh" /\ (off = 0 => x.out = << >>)
  /\ pc \in {"recvAck", "sendDisconnect"} /\ x.stage = "fresh" => x.out # << >>

WriterInv == fd_ # NoFd /\ sock[fd_].link = "up" => Writer(sock[fd_])

DialInv == pc = "connecting" => sock[fd] = [Unused EXCEPT !.open = TRUE]

Live(s) == sock[s].link = "up" /\ sock[s].stage = "session"

OneSession == \A s, t \in Sockets : Live(s) /\ Live(t) => s = t

CallInv ==
  /\ pc = "sendPublish" => op = "publish"
  /\ pc \in {"sendDisconnect", "close"} /\ cont = "resolve" => op = "connect"

SInv == IInv /\ StreamInv /\ WriterInv /\ DialInv /\ OneSession /\ CallInv

-----------------------------------------------------------------------------
(* The broker's end *)

\* y is x after the broker has read a segment that fits.
ReadFrom(x, y) ==
  /\ y.out = Tail(x.out) /\ y.ack = x.ack
  /\ y.partial = IF Whole(x.out[1]) THEN NoPacket ELSE x.out[1].pkt
  /\ y.stage = IF Whole(x.out[1]) THEN StageAfter(x.stage, x.out[1].pkt.kind) ELSE x.stage

\* What a queue of segments is made of.
LEMMA QueueFacts ==
  ASSUME NEW x \in Socket
  PROVE  /\ x.out \in Seq(Segment) /\ Len(x.out) \in Nat
         /\ \A i \in 1..Len(x.out) :
              /\ x.out[i] \in Segment /\ x.out[i].pkt \in Packet /\ x.out[i].part \in 1..2
              /\ Size(x.out[i].pkt) \in 1..2 /\ x.out[i].pkt # NoPacket
              /\ x.out[i].pkt.kind \in {"CONNECT", "PUBLISH", "DISCONNECT"}
         /\ x.out # << >> => 1 \in 1..Len(x.out) /\ Len(x.out) \in 1..Len(x.out)
<1>1. x.out \in Seq(Segment)
  BY DEF Socket
<1>2. \A p \in Packet : Size(p) \in 1..2 /\ p # NoPacket /\ p.kind \in {"CONNECT", "PUBLISH", "DISCONNECT"}
  BY DEF Packet, Size, NoPacket
<1>3. \A i \in 1..Len(x.out) : x.out[i] \in Segment
  BY <1>1
<1> QED BY <1>1, <1>2, <1>3 DEF Segment

\* The next segment of a legal stream either opens a packet of two or ends
\* the packet the broker is reading.
LEMMA NextFits ==
  ASSUME NEW s \in Sockets, sock[s] \in Socket, Legal(sock[s]), sock[s].out # << >>
  PROVE  /\ Begins(s) <=> ~Whole(sock[s].out[1])
         /\ Completes(s) <=> Whole(sock[s].out[1])
         /\ Head(sock[s].out) = sock[s].out[1]
<1> DEFINE h == sock[s].out[1]
<1>1. /\ h.part \in 1..2 /\ Size(h.pkt) \in 1..2 /\ h.pkt # NoPacket
      /\ h.part <= Size(h.pkt)
      /\ IF sock[s].partial = NoPacket THEN h.part = 1
         ELSE h.pkt = sock[s].partial /\ h.part = 2
  BY QueueFacts DEF Legal, Framed
<1>2. Head(sock[s].out) = h
  BY QueueFacts
<1> HIDE DEF h
<1> QED BY <1>1, <1>2 DEF Begins, Completes, Whole, h

\* Reading keeps a stream legal.
LEMMA ReadKeepsLegal ==
  ASSUME NEW x \in Socket, NEW y \in Socket, Legal(x), x.out # << >>, ReadFrom(x, y)
  PROVE  Legal(y)
<1> DEFINE q == x.out
           r == y.out
<1>1. /\ q \in Seq(Segment) /\ Len(q) \in Nat /\ Len(q) >= 1 /\ 1 \in 1..Len(q)
      /\ \A i \in 1..Len(q) :
           /\ q[i].part \in 1..2 /\ Size(q[i].pkt) \in 1..2 /\ q[i].pkt # NoPacket
           /\ q[i].pkt.kind \in {"CONNECT", "PUBLISH", "DISCONNECT"}
  BY QueueFacts
<1>2. Len(r) = Len(q) - 1 /\ \A i \in 1..Len(r) : i + 1 \in 1..Len(q) /\ r[i] = q[i + 1]
  BY <1>1 DEF ReadFrom
<1>3. /\ \A i \in 1..Len(q) : q[i].part <= Size(q[i].pkt)
      /\ \A i \in 1..(Len(q) - 1) : Follows(q[i + 1], q[i])
      /\ x.stage \in {"fresh", "deciding", "session", "rejected"}
  <2>1. x.stage \in {"fresh", "deciding", "session", "rejected", "ended"} /\ x.stage # "ended"
    BY DEF Legal, Ordered, Socket
  <2> QED BY <2>1 DEF Legal, Framed
<1>4. r # << >> => 1 \in 1..Len(r) /\ r[1] = q[2] /\ Follows(q[2], q[1])
  <2> SUFFICES ASSUME r # << >> PROVE 1 \in 1..Len(r) /\ r[1] = q[2] /\ Follows(q[2], q[1])
    OBVIOUS
  <2>1. Len(r) \in Nat /\ Len(r) # 0
    BY QueueFacts
  <2>2. 1 \in 1..(Len(q) - 1)
    BY <1>1, <1>2, <2>1
  <2> QED BY <1>2, <1>3, <2>1, <2>2
<1> HIDE DEF q, r
<1>5. Framed(y)
  <2>1. \A i \in 1..Len(r) : r[i].part <= Size(r[i].pkt)
    BY <1>2, <1>3
  <2>2. ASSUME NEW i \in 1..(Len(r) - 1) PROVE Follows(r[i + 1], r[i])
    <3>1. i \in 1..Len(r) /\ i + 1 \in 1..Len(r) /\ i + 1 \in 1..(Len(q) - 1)
      BY <1>1, <1>2
    <3> QED BY <1>2, <1>3, <3>1
  <2>3. r # << >> => IF y.partial = NoPacket THEN r[1].part = 1
                     ELSE r[1].pkt = y.partial /\ r[1].part = 2
    BY <1>1, <1>4 DEF ReadFrom, Follows, q
  <2> QED BY <2>1, <2>2, <2>3 DEF Framed, r
<1>6. /\ (x.stage = "fresh" => q[1].pkt.kind = "CONNECT")
      /\ \A i \in 1..Len(q) :
           /\ q[i].pkt.kind = "CONNECT" => x.stage = "fresh" /\ i <= q[i].part
           /\ q[i].pkt.kind = "PUBLISH" => x.stage = "session"
           /\ q[i].pkt.kind = "DISCONNECT" => i = Len(q)
  BY DEF Legal, Ordered, q
<1>7. CASE ~Whole(q[1])
  <2>1. y.stage = x.stage /\ (r # << >> => r[1].pkt = q[1].pkt)
    BY <1>4, <1>7 DEF ReadFrom, Follows, q
  <2>2. \A i \in 1..Len(r) :
           /\ r[i].pkt.kind = "CONNECT" => x.stage = "fresh" /\ i <= r[i].part
           /\ r[i].pkt.kind = "PUBLISH" => x.stage = "session"
           /\ r[i].pkt.kind = "DISCONNECT" => i = Len(r)
    <3> SUFFICES ASSUME NEW i \in 1..Len(r)
                 PROVE  /\ r[i].pkt.kind = "CONNECT" => x.stage = "fresh" /\ i <= r[i].part
                        /\ r[i].pkt.kind = "PUBLISH" => x.stage = "session"
                        /\ r[i].pkt.kind = "DISCONNECT" => i = Len(r)
      OBVIOUS
    <3>1. i + 1 \in 1..Len(q) /\ r[i] = q[i + 1]
      BY <1>2
    <3>2. i \in Nat /\ Len(q) = Len(r) + 1 /\ Len(r) \in Nat
      BY <1>1, <1>2
    <3>3. q[i + 1].part \in 1..2
      BY <1>1, <3>1
    <3>4. /\ r[i].pkt.kind = "CONNECT" => x.stage = "fresh" /\ i + 1 <= q[i + 1].part
          /\ r[i].pkt.kind = "PUBLISH" => x.stage = "session"
          /\ r[i].pkt.kind = "DISCONNECT" => i + 1 = Len(q)
      BY <1>6, <3>1
    <3>5. i + 1 <= q[i + 1].part => i <= q[i + 1].part
      BY <3>2, <3>3
    <3>6. i + 1 = Len(q) => i = Len(r)
      BY <3>2
    <3> QED BY <3>1, <3>4, <3>5, <3>6
  <2>3. Ordered(y)
    BY <1>3, <1>6, <2>1, <2>2 DEF Ordered, r
  <2> QED BY <1>3, <1>5, <2>1, <2>3 DEF Legal
<1>8. CASE Whole(q[1])
  <2>1. y.stage = StageAfter(x.stage, q[1].pkt.kind)
    BY <1>8 DEF ReadFrom, q
  <2>2. y.stage \notin {"broken", "fresh"}
    BY <1>1, <1>3, <1>6, <2>1 DEF StageAfter
  <2>3. \A i \in 1..Len(r) : r[i].pkt.kind # "CONNECT"
    <3> SUFFICES ASSUME NEW i \in 1..Len(r), r[i].pkt.kind = "CONNECT" PROVE FALSE
      OBVIOUS
    <3>1. i + 1 \in 1..Len(q) /\ q[i + 1].pkt.kind = "CONNECT" /\ i \in Nat /\ i >= 1
      BY <1>1, <1>2
    <3>2. i + 1 <= q[i + 1].part /\ q[i + 1].part \in 1..2
      BY <1>1, <1>6, <3>1
    <3>3. i = 1 /\ q[2].part = 2
      BY <3>1, <3>2
    <3>4. r # << >>
      BY <1>2, <3>1 DEF r
    <3> QED BY <1>4, <1>8, <3>3, <3>4 DEF Follows
  <2>4. \A i \in 1..Len(r) : r[i].pkt.kind = "PUBLISH" => y.stage = "session"
    <3> SUFFICES ASSUME NEW i \in 1..Len(r), r[i].pkt.kind = "PUBLISH" PROVE y.stage = "session"
      OBVIOUS
    <3>1. i + 1 \in 1..Len(q) /\ x.stage = "session"
      BY <1>2, <1>6
    <3>2. q[1].pkt.kind = "PUBLISH"
      BY <1>1, <1>2, <1>6, <3>1
    <3> QED BY <2>1, <3>1, <3>2 DEF StageAfter
  <2>5. \A i \in 1..Len(r) : r[i].pkt.kind = "DISCONNECT" => i = Len(r)
    <3> SUFFICES ASSUME NEW i \in 1..Len(r), r[i].pkt.kind = "DISCONNECT" PROVE i = Len(r)
      OBVIOUS
    <3>1. i + 1 = Len(q)
      BY <1>2, <1>6
    <3>2. i \in Nat /\ Len(q) = Len(r) + 1 /\ Len(r) \in Nat
      BY <1>1, <1>2
    <3> QED BY <3>1, <3>2
  <2>6. y.stage = "ended" => r = << >>
    <3> SUFFICES ASSUME y.stage = "ended" PROVE r = << >>
      OBVIOUS
    <3>1. q[1].pkt.kind = "DISCONNECT"
      BY <1>1, <1>3, <1>6, <2>1 DEF StageAfter
    <3>2. 1 = Len(q)
      BY <1>1, <1>6, <3>1
    <3>3. Len(r) = 0
      <4>1. Len(r) = Len(q) - 1
        BY <1>2
      <4> QED BY <3>2, <4>1
    <3> QED BY <3>3, QueueFacts DEF r
  <2> QED BY <1>5, <2>2, <2>3, <2>4, <2>5, <2>6 DEF Legal, Ordered, r
<1> QED BY <1>7, <1>8

\* Reading leaves the client's end as it is: what the client has written
\* last is now the last thing queued or the packet being read.
LEMMA ReadKeepsWriter ==
  ASSUME TypeOK, ControlInv, NEW x \in Socket, NEW y \in Socket, Legal(x), x.out # << >>, ReadFrom(x, y),
         Writer(x)
  PROVE  Writer(y)
<1> DEFINE q == x.out
           r == y.out
           n == Len(q)
<1>1. /\ q \in Seq(Segment) /\ n \in Nat /\ n >= 1 /\ 1 \in 1..n /\ n \in 1..n
      /\ \A i \in 1..n :
           /\ q[i].part \in 1..2 /\ Size(q[i].pkt) \in 1..2 /\ q[i].pkt # NoPacket
           /\ q[i].pkt.kind \in {"CONNECT", "PUBLISH", "DISCONNECT"}
  BY QueueFacts
<1>2. /\ Len(r) = n - 1 /\ \A i \in 1..Len(r) : i + 1 \in 1..n /\ r[i] = q[i + 1]
      /\ r = << >> <=> n = 1
      /\ r # << >> => Len(r) \in 1..Len(r) /\ r[Len(r)] = q[n]
  <2>1. Len(r) = n - 1 /\ \A i \in 1..Len(r) : i + 1 \in 1..n /\ r[i] = q[i + 1]
    BY <1>1 DEF ReadFrom
  <2>2. r \in Seq(Segment) /\ Len(r) \in Nat /\ (r # << >> => Len(r) \in 1..Len(r))
    BY QueueFacts
  <2>3. r = << >> <=> Len(r) = 0
    BY <2>2
  <2> HIDE DEF q, r, n
  <2>4. ASSUME r # << >> PROVE r[Len(r)] = q[n]
    <3>1. Len(r) \in 1..Len(r) /\ Len(r) + 1 = n
      BY <1>1, <2>1, <2>2, <2>4
    <3> QED BY <2>1, <3>1
  <2> QED BY <1>1, <2>1, <2>2, <2>3, <2>4
<1>3. Outgoing \in Packet /\ Size(Outgoing) \in 1..2
  BY OutgoingType
<1>4. /\ q # << >>
      /\ y.partial = (IF Whole(q[1]) THEN NoPacket ELSE q[1].pkt) /\ y.ack = x.ack
      /\ y.stage = (IF Whole(q[1]) THEN StageAfter(x.stage, q[1].pkt.kind) ELSE x.stage)
  BY DEF ReadFrom
<1>5. /\ pc \in Sending => off < Size(Outgoing)
      /\ IF pc \in Sending /\ off = 1 THEN q[n] = [pkt |-> Outgoing, part |-> 1] ELSE Whole(q[n])
      /\ pc # "close" => /\ \A i \in 1..n : q[i].pkt.kind # "DISCONNECT"
                         /\ x.stage # "ended"
                         /\ x.ack = "accept" => x.stage = "session"
      /\ pc = "sendConnect" => x.stage = "fresh" /\ off # 0
  BY DEF Writer, AtBoundary, AfterFirst
<1>6. /\ (x.stage = "fresh" => q[1].pkt.kind = "CONNECT")
      /\ \A i \in 1..n :
           /\ q[i].pkt.kind = "CONNECT" => x.stage = "fresh" /\ i <= q[i].part
           /\ q[i].pkt.kind = "PUBLISH" => x.stage = "session"
  BY <1>4 DEF Legal, Ordered
<1> HIDE DEF q, r, n
<1>7. IF pc \in Sending /\ off = 1 THEN AfterFirst(y, Outgoing) ELSE AtBoundary(y)
  <2>1. CASE r # << >>
    BY <1>2, <1>5, <2>1 DEF AfterFirst, AtBoundary, r
  <2>2. CASE r = << >> /\ pc \in Sending /\ off = 1
    <3>1. q[1] = [pkt |-> Outgoing, part |-> 1] /\ Size(Outgoing) = 2
      BY <1>2, <1>3, <1>5, <2>2
    <3>2. y.partial = Outgoing
      BY <1>4, <3>1 DEF Whole
    <3> QED BY <2>2, <3>2 DEF AfterFirst, r
  <2>3. CASE r = << >> /\ ~(pc \in Sending /\ off = 1)
    BY <1>2, <1>4, <1>5, <2>3 DEF AtBoundary, r
  <2> QED BY <2>1, <2>2, <2>3
<1>8. pc # "close" => /\ \A i \in 1..Len(r) : r[i].pkt.kind # "DISCONNECT"
                      /\ y.stage # "ended"
                      /\ y.ack = "accept" => y.stage = "session"
  <2>1. ASSUME pc # "close", y.ack = "accept" PROVE y.stage = "session"
    <3>1. x.stage = "session" /\ q[1].pkt.kind = "PUBLISH"
      BY <1>1, <1>4, <1>5, <1>6, <2>1
    <3> QED BY <1>4, <3>1 DEF StageAfter
  <2>2. pc # "close" => y.stage # "ended"
    BY <1>1, <1>4, <1>5 DEF StageAfter
  <2> QED BY <1>2, <1>5, <2>1, <2>2
<1>9. pc = "sendConnect" => y.stage = "fresh" /\ off # 0
  <2> SUFFICES ASSUME pc = "sendConnect" PROVE y.stage = "fresh" /\ off # 0
    OBVIOUS
  <2>1. off = 1 /\ x.stage = "fresh" /\ pc \in Sending
    BY <1>3, <1>5 DEF Sending, TypeOK
  <2>2. q[n] = [pkt |-> Outgoing, part |-> 1] /\ Size(Outgoing) = 2 /\ Outgoing.kind = "CONNECT"
    BY <1>3, <1>5, <2>1 DEF Outgoing
  <2>3. n <= q[n].part
    BY <1>1, <1>6, <2>2
  <2>4. n = 1
    BY <1>1, <2>2, <2>3
  <2>5. ~Whole(q[1])
    BY <2>2, <2>4 DEF Whole
  <2> QED BY <1>4, <2>1, <2>5
<1>10. pc \in {"recvAck", "sendDisconnect"} /\ y.stage = "fresh" => r # << >>
  <2> SUFFICES ASSUME pc \in {"recvAck", "sendDisconnect"}, y.stage = "fresh", r = << >> PROVE FALSE
    OBVIOUS
  <2>1. n = 1 /\ ~Whole(q[1])
    <3>1. n = 1
      BY <1>2
    <3>2. Whole(q[1]) => y.stage # "fresh"
      BY <1>4 DEF StageAfter
    <3> QED BY <3>1, <3>2
  <2>2. ~(pc \in Sending /\ off = 1)
    BY <1>5 DEF Sending, Outgoing, Size
  <2> QED BY <1>5, <2>1, <2>2
<1> QED BY <1>5, <1>7, <1>8, <1>9, <1>10 DEF Writer, r

\* What the network and the broker may make of a socket x.
Net(x, y) ==
  \/ y = x
  \/ x.link # "none" /\ y.link # "up" /\ y.stage \in {x.stage, "fresh"}
  \/ x.link = "up" /\ y.link = "up" /\ x.out # << >> /\ ReadFrom(x, y)
  \/ /\ x.link = "up" /\ y.link = "up"
     /\ y.out = x.out /\ y.partial = x.partial /\ y.ack = x.ack /\ y.stage = x.stage
  \/ /\ x.link = "up" /\ y.link = "up" /\ x.stage = "deciding"
     /\ y.out = x.out /\ y.partial = x.partial /\ y.ack \in {"accept", "reject"}
     /\ y.stage = IF y.ack = "accept" THEN "session" ELSE "rejected"

\* Dropping a live socket is one of these changes.
LEMMA DropIsNet ==
  ASSUME TypeOK, NEW s \in Sockets, sock[s].link = "up" PROVE Net(sock[s], Dropped(s))
<1>1. sock[s] \in Socket
  BY DEF TypeOK
<1> QED BY <1>1 DEF Net, Dropped, Unused, Socket

\* Every step of the network and the broker changes each socket in one of
\* these ways.
LEMMA NetworkIsNet ==
  ASSUME TypeOK, StreamInv, Network PROVE \A s \in Sockets : Net(sock[s], sock'[s])
<1>1. sock \in [Sockets -> Socket]
  BY DEF TypeOK
<1> DEFINE Goal == \A s \in Sockets : Net(sock[s], sock'[s])
<1>2. ASSUME NEW t \in Sockets, NEW y, sock' = [sock EXCEPT ![t] = y], Net(sock[t], y) PROVE Goal
  BY <1>1, <1>2 DEF Net
<1>3. ASSUME Stall \/ Unstall PROVE Goal
  BY <1>3 DEF Stall, Unstall, Net
<1>4. ASSUME NEW t \in Sockets, LinkDown(t) \/ BrokerClose(t) PROVE Goal
  BY <1>2, <1>4, DropIsNet DEF LinkDown, BrokerClose
<1>5. ASSUME NEW t \in Sockets, LinkReset(t) \/ KernelGivesUp(t) PROVE Goal
  <2>1. /\ sock' = [sock EXCEPT ![t] = [sock[t] EXCEPT !.link = "dead"]]
        /\ sock[t].link # "none" /\ sock[t] \in Socket
    BY <1>1, <1>5 DEF LinkReset, KernelGivesUp
  <2>2. Net(sock[t], [sock[t] EXCEPT !.link = "dead"])
    BY <2>1 DEF Net, Socket
  <2> QED BY <1>2, <2>1, <2>2
<1>6. ASSUME NEW t \in Sockets, AckRest(t) PROVE Goal
  <2>1. /\ sock' = [sock EXCEPT ![t] = [sock[t] EXCEPT !.acked = AckLen]]
        /\ sock[t].link = "up" /\ sock[t] \in Socket
    BY <1>1, <1>6 DEF AckRest
  <2>2. Net(sock[t], [sock[t] EXCEPT !.acked = AckLen])
    BY <2>1 DEF Net, Socket
  <2> QED BY <1>2, <2>1, <2>2
<1>7. ASSUME NEW t \in Sockets, BrokerRead(t) PROVE Goal
  <2> DEFINE h == sock[t].out[1]
             y == [sock[t] EXCEPT !.out = Tail(sock[t].out),
                                  !.partial = IF Whole(h) THEN NoPacket ELSE h.pkt,
                                  !.stage = IF Whole(h) THEN StageAfter(sock[t].stage, h.pkt.kind)
                                            ELSE sock[t].stage]
  <2>1. sock[t].link = "up" /\ sock[t].out # << >> /\ Legal(sock[t]) /\ sock[t] \in Socket
    BY <1>1, <1>7 DEF BrokerRead, StreamInv
  <2>2. (Begins(t) <=> ~Whole(h)) /\ (Completes(t) <=> Whole(h)) /\ Head(sock[t].out) = h
    BY <2>1, NextFits
  <2>3. sock' = [sock EXCEPT ![t] = y]
    BY <1>1, <1>7, <2>2 DEF BrokerRead
  <2>4. Net(sock[t], y)
    <3> HIDE DEF h
    <3> QED BY <2>1 DEF Net, ReadFrom, Socket, h
  <2> HIDE DEF y
  <2> QED BY <1>2, <2>3, <2>4
<1>8. ASSUME NEW t \in Sockets, NEW v \in {"accept", "reject"}, NEW n \in 1..AckLen,
             BrokerConnack(t, v, n)
      PROVE  Goal
  <2> DEFINE to == IF v = "accept" THEN "session" ELSE "rejected"
             y  == [sock[t] EXCEPT !.ack = v, !.acked = n, !.stage = to]
  <2>1. /\ sock[t].link = "up" /\ sock[t].stage = "deciding" /\ sock'[t] = y /\ sock[t] \in Socket
        /\ \A s \in Sockets : s # t => \/ sock'[s] = sock[s]
                                       \/ sock[s].link = "up" /\ sock'[s] = Dropped(s)
    BY <1>1, <1>8 DEF BrokerConnack
  <2>2. Net(sock[t], y)
    BY <2>1 DEF Net, Socket
  <2> HIDE DEF y
  <2>3. \A s \in Sockets : s # t => Net(sock[s], sock'[s])
    <3>1. \A s \in Sockets : Net(sock[s], sock[s])
      BY DEF Net
    <3> QED BY <2>1, <3>1, DropIsNet
  <2> QED BY <2>1, <2>2, <2>3
<1> HIDE DEF Goal
<1>9. ASSUME NEW t \in Sockets, NetStep(t) PROVE Goal
  BY <1>4, <1>5, <1>6, <1>7, <1>8, <1>9 DEF NetStep
<1>10. ASSUME NetFault PROVE Goal
  BY <1>3, <1>4, <1>5, <1>8, <1>10 DEF NetFault
<1>11. Goal
  BY <1>3, <1>9, <1>10 DEF Network
<1> QED BY <1>11 DEF Goal

\* Such a change keeps a stream legal and the client's end of it as it is.
LEMMA NetKeeps ==
  ASSUME TypeOK, ControlInv, NEW x \in Socket, NEW y \in Socket, Net(x, y), y.link = "up",
         x.link = "up" => Legal(x)
  PROVE  Legal(y) /\ (Writer(x) => Writer(y))
<1>1. CASE y = x
  BY <1>1
<1>2. CASE x.link = "up" /\ x.out # << >> /\ ReadFrom(x, y)
  BY <1>2, ReadKeepsLegal, ReadKeepsWriter
<1>3. CASE /\ x.link = "up"
           /\ y.out = x.out /\ y.partial = x.partial /\ y.ack = x.ack /\ y.stage = x.stage
  BY <1>3 DEF Legal, Framed, Ordered, Writer, AtBoundary, AfterFirst
<1>4. CASE /\ x.link = "up" /\ x.stage = "deciding"
           /\ y.out = x.out /\ y.partial = x.partial /\ y.ack \in {"accept", "reject"}
           /\ y.stage = IF y.ack = "accept" THEN "session" ELSE "rejected"
  <2>1. y.stage \in {"session", "rejected"} /\ (y.ack = "accept" => y.stage = "session")
    BY <1>4
  <2>2. Framed(y)
    BY <1>4 DEF Legal, Framed
  <2>3. Ordered(y)
    BY <1>4, <2>1 DEF Legal, Ordered
  <2>4. Writer(x) => Writer(y)
    BY <1>4, <2>1 DEF Writer, AtBoundary, AfterFirst
  <2> QED BY <2>1, <2>2, <2>3, <2>4 DEF Legal
<1> QED BY <1>1, <1>2, <1>3, <1>4 DEF Net

-----------------------------------------------------------------------------
(* The client's end *)

\* The k segments one ::send takes.
Taken(k) == [i \in 1..k |-> [pkt |-> Outgoing, part |-> off + i]]

\* r is the queue q with k more segments of the current packet.
Appended(q, r, k) ==
  /\ Len(r) = Len(q) + k /\ r # << >>
  /\ \A i \in 1..Len(q) : r[i] = q[i]
  /\ \A i \in 1..k : r[Len(q) + i] = [pkt |-> Outgoing, part |-> off + i]
  /\ \A j \in 1..Len(r) : j \in 1..Len(q) \/ \E i \in 1..k : j = Len(q) + i

\* The queue after one ::send.
LEMMA SendQueue ==
  ASSUME TypeOK, NEW x \in Socket, NEW k \in 1..(Size(Outgoing) - off)
  PROVE  Appended(x.out, x.out \o Taken(k), k)
<1> DEFINE q == x.out
           t == Taken(k)
<1>1. q \in Seq(Segment) /\ Len(q) \in Nat
  BY QueueFacts
<1>2. Size(Outgoing) \in 1..2 /\ off \in 0..2 /\ k \in Nat /\ k >= 1 /\ Outgoing \in Packet
  BY OutgoingType DEF TypeOK
<1>3. t \in Seq(Segment) /\ Len(t) = k /\ \A i \in 1..k : t[i] = [pkt |-> Outgoing, part |-> off + i]
  <2>1. \A i \in 1..k : off + i \in 1..2
    BY <1>2
  <2>2. \A i \in 1..k : [pkt |-> Outgoing, part |-> off + i] \in Segment
    BY <1>2, <2>1 DEF Segment
  <2> QED BY <1>2, <2>2 DEF Taken
<1> HIDE DEF q, t
<1>4. Len(q \o t) = Len(q) + k /\ q \o t # << >>
  BY <1>1, <1>2, <1>3
<1>5. \A i \in 1..Len(q) : (q \o t)[i] = q[i]
  BY <1>1, <1>3
<1>6. \A i \in 1..k : (q \o t)[Len(q) + i] = t[i]
  BY <1>1, <1>2, <1>3
<1>7. ASSUME NEW j \in 1..(Len(q) + k), j \notin 1..Len(q) PROVE \E i \in 1..k : j = Len(q) + i
  <2>1. j - Len(q) \in 1..k /\ j = Len(q) + (j - Len(q))
    BY <1>1, <1>2, <1>7
  <2> QED BY <2>1
<1> QED BY <1>3, <1>4, <1>5, <1>6, <1>7 DEF Appended, q, t

\* What sendAll queues continues the stream: the rest of the packet it is
\* writing, or a packet that may come next.
LEMMA SendKeepsLegal ==
  ASSUME TypeOK, NEW x \in Socket, NEW y \in Socket, NEW k \in 1..(Size(Outgoing) - off),
         pc \in Sending, Legal(x), Writer(x), pc = "sendPublish" => x.ack = "accept",
         y.out = x.out \o Taken(k), y.partial = x.partial, y.stage = x.stage
  PROVE  Legal(y)
<1> DEFINE q == x.out
           r == y.out
           n == Len(q)
           p == Outgoing
<1>1. /\ q \in Seq(Segment) /\ n \in Nat /\ (q = << >> <=> n = 0)
      /\ \A i \in 1..n : q[i].part \in 1..2 /\ Size(q[i].pkt) \in 1..2
  BY QueueFacts
<1>2. p \in Packet /\ Size(p) \in 1..2 /\ p # NoPacket /\ off \in 0..1 /\ off < Size(p) /\ k \in 1..2
      /\ off + k <= Size(p)
  <2>1. p \in Packet /\ Size(p) \in 1..2 /\ off \in 0..2 /\ off < Size(p)
    BY OutgoingType DEF TypeOK, Writer
  <2>2. p # NoPacket
    BY <2>1 DEF Packet, NoPacket
  <2> HIDE DEF p
  <2>3. k \in 1..(Size(p) - off)
    BY DEF p
  <2> QED BY <2>1, <2>2, <2>3
<1>3. /\ Len(r) = n + k /\ r # << >>
      /\ \A i \in 1..n : r[i] = q[i]
      /\ \A i \in 1..k : r[n + i] = [pkt |-> p, part |-> off + i]
      /\ \A j \in 1..Len(r) : j \in 1..n \/ \E i \in 1..k : j = n + i
  <2>1. Appended(x.out, y.out, k)
    BY SendQueue
  <2> QED BY <2>1 DEF Appended
<1>4. IF off = 1 THEN (IF n = 0 THEN x.partial = p ELSE q[n] = [pkt |-> p, part |-> 1])
      ELSE (IF n = 0 THEN x.partial = NoPacket ELSE Whole(q[n]))
  BY <1>1 DEF Writer, AfterFirst, AtBoundary
<1>5. /\ \A i \in 1..n : q[i].part <= Size(q[i].pkt)
      /\ \A i \in 1..(n - 1) : Follows(q[i + 1], q[i])
      /\ n # 0 => IF x.partial = NoPacket THEN q[1].part = 1
                  ELSE q[1].pkt = x.partial /\ q[1].part = 2
  BY <1>1 DEF Legal, Framed
<1>6. /\ x.stage = "fresh" /\ n # 0 => q[1].pkt.kind = "CONNECT"
      /\ \A i \in 1..n :
           /\ q[i].pkt.kind = "CONNECT" => x.stage = "fresh" /\ i <= q[i].part
           /\ q[i].pkt.kind = "PUBLISH" => x.stage = "session"
           /\ q[i].pkt.kind # "DISCONNECT"
  BY <1>1 DEF Legal, Ordered, Writer, Sending
<1>7. /\ x.stage # "ended"
      /\ p.kind = "CONNECT" => x.stage = "fresh" /\ (off = 0 => n = 0)
      /\ p.kind = "PUBLISH" => x.stage = "session"
      /\ p.kind = "DISCONNECT" => Size(p) = 1 /\ (x.stage = "fresh" => n # 0)
      /\ p.kind \in {"CONNECT", "PUBLISH", "DISCONNECT"}
  BY <1>1 DEF Writer, Sending, Outgoing, Size
<1>8. r[n + 1] = [pkt |-> p, part |-> off + 1] /\ n + 1 \in 1..Len(r)
  BY <1>1, <1>2, <1>3
<1> HIDE DEF q, r, n, p
<1>9. Framed(y)
  <2>1. \A j \in 1..Len(r) : r[j].part <= Size(r[j].pkt)
    <3> SUFFICES ASSUME NEW j \in 1..Len(r) PROVE r[j].part <= Size(r[j].pkt)
      OBVIOUS
    <3>1. CASE j \in 1..n
      BY <1>3, <1>5, <3>1
    <3>2. ASSUME NEW i \in 1..k, j = n + i PROVE r[j].part <= Size(r[j].pkt)
      <4> r[j] = [pkt |-> p, part |-> off + i]
        BY <1>3, <3>2
      <4>1. r[j].pkt = p /\ r[j].part = off + i
        OBVIOUS
      <4>2. off + i <= Size(p)
        BY <1>2
      <4> QED BY <4>1, <4>2
    <3> QED BY <1>3, <3>1, <3>2
  <2>2. ASSUME NEW j \in 1..(Len(r) - 1) PROVE Follows(r[j + 1], r[j])
    <3>1. CASE j \in 1..(n - 1)
      <4>1. j \in 1..n /\ j + 1 \in 1..n
        BY <1>1, <3>1
      <4> QED BY <1>3, <1>5, <3>1, <4>1
    <3>2. CASE j = n
      <4>1. n \in 1..n /\ n # 0 /\ r[n] = q[n]
        BY <1>1, <1>3, <3>2
      <4>2. CASE off = 1
        BY <1>2, <1>4, <1>8, <3>2, <4>1, <4>2 DEF Follows, Whole
      <4>3. CASE off = 0
        BY <1>2, <1>4, <1>8, <3>2, <4>1, <4>3 DEF Follows
      <4> QED BY <1>2, <4>2, <4>3
    <3>3. CASE j \notin 1..n
      <4>1. j = n + 1 /\ k = 2 /\ off = 0 /\ Size(p) = 2
        BY <1>1, <1>2, <1>3, <3>3
      <4>2. r[n + 2] = [pkt |-> p, part |-> 2] /\ r[n + 1] = [pkt |-> p, part |-> 1]
        BY <1>3, <4>1
      <4>3. j + 1 = n + 2
        BY <1>1, <4>1
      <4> QED BY <4>1, <4>2, <4>3 DEF Follows, Whole
    <3> QED BY <1>1, <3>1, <3>2, <3>3
  <2>3. IF y.partial = NoPacket THEN r[1].part = 1 ELSE r[1].pkt = y.partial /\ r[1].part = 2
    <3>1. CASE n = 0
      BY <1>2, <1>4, <1>8, <3>1
    <3>2. CASE n # 0
      <4>1. 1 \in 1..n
        BY <1>1, <3>2
      <4> QED BY <1>3, <1>5, <3>2, <4>1
    <3> QED BY <3>1, <3>2
  <2> QED BY <2>1, <2>2, <2>3 DEF Framed, r
<1>10. Ordered(y)
  <2>1. x.stage = "fresh" => r[1].pkt.kind = "CONNECT"
    <3>1. CASE n = 0
      BY <1>7, <1>8, <3>1
    <3>2. CASE n # 0
      <4>1. 1 \in 1..n
        BY <1>1, <3>2
      <4> QED BY <1>3, <1>6, <3>2, <4>1
    <3> QED BY <3>1, <3>2
  <2>2. ASSUME NEW j \in 1..Len(r)
        PROVE  /\ r[j].pkt.kind = "CONNECT" => x.stage = "fresh" /\ j <= r[j].part
               /\ r[j].pkt.kind = "PUBLISH" => x.stage = "session"
               /\ r[j].pkt.kind = "DISCONNECT" => j = Len(r)
    <3>1. CASE j \in 1..n
      BY <1>3, <1>6, <3>1
    <3>2. ASSUME NEW i \in 1..k, j = n + i
          PROVE  /\ r[j].pkt.kind = "CONNECT" => x.stage = "fresh" /\ j <= r[j].part
                 /\ r[j].pkt.kind = "PUBLISH" => x.stage = "session"
                 /\ r[j].pkt.kind = "DISCONNECT" => j = Len(r)
      <4> r[j] = [pkt |-> p, part |-> off + i]
        BY <1>3, <3>2
      <4>1. r[j].pkt = p /\ r[j].part = off + i
        OBVIOUS
      <4>2. p.kind = "DISCONNECT" => j = Len(r)
        BY <1>1, <1>2, <1>3, <1>7, <3>2
      <4>3. p.kind = "CONNECT" => n <= off
        <5>1. CASE off = 0
          BY <1>7, <5>1
        <5>2. CASE off = 1 /\ n # 0 /\ p.kind = "CONNECT"
          <6>1. n \in 1..n /\ q[n].pkt = p /\ q[n].part = 1
            BY <1>1, <1>4, <5>2
          <6> QED BY <1>6, <5>2, <6>1
        <5> QED BY <1>1, <1>2, <5>1, <5>2
      <4> QED BY <1>1, <1>2, <1>7, <3>2, <4>1, <4>2, <4>3
    <3> QED BY <1>3, <3>1, <3>2
  <2> QED BY <1>7, <2>1, <2>2 DEF Ordered, r
<1> QED BY <1>9, <1>10 DEF Legal

\* After ::send has taken k segments, sendAll stands where they end.
LEMMA SendKeepsWriter ==
  ASSUME TypeOK, NEW x \in Socket, NEW y \in Socket, NEW k \in 1..2, Send(k), Writer(x),
         y.out = x.out \o Taken(k), y.stage = x.stage, y.ack = x.ack
  PROVE  Writer(y)'
<1> PICK q : q = y.out
  OBVIOUS
<1> PICK n : n = Len(q)
  OBVIOUS
<1> PICK p : p = Outgoing
  OBVIOUS
<1>1. /\ pc \in Sending /\ off' = off + k
      /\ \/ off' # Size(p) /\ pc' = pc
         \/ off' = Size(p) /\ Sent
      /\ k \in 1..(Size(p) - off) /\ p' = p /\ msg' = msg
  BY DEF Send, AllSent, callVars
<1>2. p \in Packet /\ Size(p) \in 1..2 /\ off \in 0..2 /\ off < Size(p) /\ off' <= Size(p)
  <2>1. p \in Packet /\ Size(p) \in 1..2 /\ off \in 0..2 /\ off < Size(p)
    BY <1>1, OutgoingType DEF TypeOK, Writer
  <2> QED BY <1>1, <2>1
<1>3. /\ n = Len(x.out) + k /\ q # << >> /\ n \in 1..n /\ Len(x.out) \in Nat
      /\ \A i \in 1..Len(x.out) : q[i] = x.out[i]
      /\ \A i \in 1..k : q[Len(x.out) + i] = [pkt |-> p, part |-> off + i]
      /\ \A j \in 1..n : j \in 1..Len(x.out) \/ \E i \in 1..k : j = Len(x.out) + i
  <2>1. k \in 1..(Size(Outgoing) - off) /\ Len(x.out) \in Nat
    BY <1>1, QueueFacts
  <2>2. /\ n = Len(x.out) + k /\ q # << >>
        /\ \A i \in 1..Len(x.out) : q[i] = x.out[i]
        /\ \A i \in 1..k : q[Len(x.out) + i] = [pkt |-> p, part |-> off + i]
        /\ \A j \in 1..n : j \in 1..Len(x.out) \/ \E i \in 1..k : j = Len(x.out) + i
    <3>1. Appended(x.out, q, k)
      BY <2>1, SendQueue
    <3> QED BY <3>1 DEF Appended
  <2>3. n \in 1..n
    BY <2>1, <2>2
  <2> QED BY <2>1, <2>2, <2>3
<1>4. q[n] = [pkt |-> p, part |-> off']
  <2>1. k \in 1..k
    OBVIOUS
  <2> QED BY <1>1, <1>3, <2>1
<1>5. /\ pc = "sendConnect" => p.kind = "CONNECT" /\ x.stage = "fresh" /\ Size(p) = 2
      /\ pc = "sendPublish" => p.kind = "PUBLISH" /\ Size(p) = 2
      /\ pc = "sendDisconnect" => p.kind = "DISCONNECT" /\ Size(p) = 1
      /\ x.stage # "ended"
      /\ x.ack = "accept" => x.stage = "session"
      /\ \A i \in 1..Len(x.out) : x.out[i].pkt.kind # "DISCONNECT"
  BY <1>1 DEF Outgoing, Size, Writer, Sending
<1>6. p.kind # "DISCONNECT" => \A j \in 1..n : q[j].pkt.kind # "DISCONNECT"
  <2> SUFFICES ASSUME p.kind # "DISCONNECT", NEW j \in 1..n PROVE q[j].pkt.kind # "DISCONNECT"
    OBVIOUS
  <2>1. CASE j \in 1..Len(x.out)
    BY <1>3, <1>5, <2>1
  <2>2. ASSUME NEW i \in 1..k, j = Len(x.out) + i PROVE q[j].pkt.kind # "DISCONNECT"
    <3>1. q[j] = [pkt |-> p, part |-> off + i]
      BY <1>3, <2>2
    <3> QED BY <3>1
  <2> QED BY <1>3, <2>1, <2>2
<1>7. CASE off' # Size(p) /\ pc' = pc
  <2>1. off = 0 /\ k = 1 /\ off' = 1 /\ Size(p) = 2 /\ p.kind # "DISCONNECT"
    BY <1>1, <1>2, <1>5, <1>7 DEF Sending
  <2>2. Outgoing' = p
    BY <1>1, <1>7 DEF Outgoing
  <2>3. AfterFirst(y, p)
    BY <1>3, <1>4, <2>1 DEF AfterFirst
  <2>4. pc' \in Sending /\ pc' \notin {"close", "recvAck", "sendDisconnect"}
    BY <1>1, <1>5, <1>7, <2>1 DEF Sending
  <2>5. AfterFirst(y, p)'
    BY <2>3 DEF AfterFirst
  <2>6. pc' \in Sending => off' < Size(Outgoing)'
    BY <2>1, <2>2 DEF Size
  <2>7. pc' = "sendConnect" => y.stage = "fresh" /\ off' # 0
    BY <1>5, <1>7, <2>1
  <2> QED BY <1>5, <1>6, <2>1, <2>2, <2>4, <2>5, <2>6, <2>7 DEF Writer
<1>8. CASE off' = Size(p) /\ Sent
  <2>1. AtBoundary(y)
    BY <1>3, <1>4, <1>8 DEF AtBoundary, Whole
  <2>2. pc' \in {"recvAck", "idle", "close"} /\ pc' \notin Sending /\ (pc' # "close" => p.kind # "DISCONNECT")
    BY <1>5, <1>8 DEF Sent, Sending
  <2> QED BY <1>3, <1>5, <1>6, <2>1, <2>2 DEF Writer, AtBoundary
<1> QED BY <1>1, <1>7, <1>8

\* Between two packets the client may turn to any other packet, given that
\* it disconnects only after a CONNECT.
LEMMA TurnKeepsWriter ==
  ASSUME NEW x, Writer(x), pc \in {"idle", "recvAck"},
         \/ pc' \in {"idle", "recvAck"}
         \/ pc' \in {"sendPublish", "sendDisconnect"} /\ off' = 0,
         pc' \in {"recvAck", "sendDisconnect"} => pc = "recvAck" \/ x.stage # "fresh"
  PROVE  Writer(x)'
<1>1. AtBoundary(x) /\ AtBoundary(x)'
  BY DEF Writer, Sending, AtBoundary
<1>2. pc' \in Sending => off' < Size(Outgoing)' /\ off' # 1
  BY DEF Sending, Size, Outgoing
<1> QED BY <1>1, <1>2 DEF Writer

-----------------------------------------------------------------------------
(* The invariant *)

\* Before any socket exists there is no stream.
LEMMA InitStream == Init => StreamInv /\ WriterInv /\ DialInv /\ OneSession /\ CallInv
BY DEF Init, StreamInv, WriterInv, DialInv, OneSession, CallInv, Live, Unused

\* The rest of the streams, when a step changes one socket only.
LEMMA OneSocket ==
  ASSUME TypeOK, StreamInv, NEW t \in Sockets, NEW y \in Socket, sock' = [sock EXCEPT ![t] = y],
         y.stage # "broken", y.link = "up" => Legal(y)
  PROVE  StreamInv'
<1>1. sock'[t] = y /\ \A s \in Sockets : s # t => sock'[s] = sock[s]
  BY DEF TypeOK
<1>2. ASSUME NEW s \in Sockets PROVE sock'[s].stage # "broken" /\ (sock'[s].link = "up" => Legal(sock'[s]))
  <2>1. CASE s = t
    BY <1>1, <2>1
  <2>2. CASE s # t
    BY <1>1, <2>2 DEF StreamInv
  <2> QED BY <2>1, <2>2
<1> QED BY <1>2 DEF StreamInv

\* What the network and the broker may do to the sockets preserves the
\* invariant.
LEMMA NetStream ==
  ASSUME SInv, UNCHANGED client,
         \A s \in Sockets : sock'[s] \in Socket /\ Net(sock[s], sock'[s])
  PROVE  StreamInv' /\ WriterInv' /\ DialInv'
<1>1. TypeOK /\ ControlInv /\ StreamInv /\ WriterInv /\ DialInv
  BY DEF SInv, IInv, TC
<1>2. /\ fd_ \in Sockets \cup {NoFd} /\ fd \in Sockets \cup {NoFd} /\ NoFd \notin Sockets
      /\ \A s \in Sockets : sock[s] \in Socket
  BY <1>1, NoFdIsNone DEF TypeOK
<1>3. ASSUME NEW s \in Sockets
      PROVE  /\ sock'[s].stage # "broken"
             /\ sock'[s].link = "up" => Legal(sock'[s]) /\ (Writer(sock[s]) => Writer(sock'[s]))
  <2> PICK x : x = sock[s]
    OBVIOUS
  <2> PICK y : y = sock'[s]
    OBVIOUS
  <2>1. x \in Socket /\ y \in Socket /\ Net(x, y) /\ x.stage # "broken" /\ (x.link = "up" => Legal(x))
    BY <1>1, <1>2 DEF StreamInv
  <2>2. y.link = "up" => Legal(y) /\ (Writer(x) => Writer(y))
    BY <1>1, <2>1, NetKeeps
  <2>3. y.stage # "broken"
    <3>1. CASE y.link = "up"
      BY <2>2, <3>1 DEF Legal
    <3>2. CASE y.link # "up"
      BY <2>1, <3>2 DEF Net
    <3> QED BY <3>1, <3>2
  <2> QED BY <2>2, <2>3
<1>4. StreamInv'
  BY <1>3 DEF StreamInv
<1>5. WriterInv'
  <2> SUFFICES ASSUME fd_' # NoFd, sock'[fd_'].link = "up" PROVE Writer(sock[fd_])'
    BY DEF WriterInv
  <2>1. fd_' = fd_ /\ fd_ \in Sockets /\ UNCHANGED <<pc, off, msg>>
    BY <1>2 DEF client
  <2>2. sock[fd_].link = "up"
    BY <2>1 DEF Net
  <2> PICK y : y = sock'[fd_]
    OBVIOUS
  <2>3. Writer(y)
    BY <1>1, <1>3, <2>1, <2>2 DEF WriterInv
  <2>4. Writer(y)'
    BY <2>1, <2>3 DEF Writer, AfterFirst, AtBoundary, Outgoing
  <2> QED BY <2>1, <2>4
<1>6. DialInv'
  <2> SUFFICES ASSUME pc = "connecting" PROVE sock'[fd] = [Unused EXCEPT !.open = TRUE]
    BY DEF client, DialInv
  <2>1. fd \in Sockets /\ sock[fd] = [Unused EXCEPT !.open = TRUE]
    BY <1>1, <1>2 DEF ControlInv, DialInv
  <2>2. sock[fd].link = "none"
    BY <2>1 DEF Unused
  <2> QED BY <2>1, <2>2 DEF Net
<1> QED BY <1>4, <1>5, <1>6

\* Every step of the client, the network and the broker preserves the
\* invariant.
LEMMA NextStream ==
  ASSUME SInv, [Next]_vars PROVE StreamInv' /\ WriterInv' /\ DialInv'
<1>1. TypeOK /\ ControlInv /\ AckInv /\ VerdictMatchesSession /\ StreamInv /\ WriterInv /\ DialInv
  BY DEF SInv, IInv, TC
<1>2. /\ sock \in [Sockets -> Socket] /\ fd_ \in Sockets \cup {NoFd}
      /\ fd \in Sockets \cup {NoFd} /\ NoFd \notin Sockets /\ \A s \in Sockets : sock[s] \in Socket
  BY <1>1, NoFdIsNone DEF TypeOK
<1>3. TypeOK' /\ ControlInv'
  BY NextTC DEF SInv, IInv, TC
<1>4. ASSUME UNCHANGED sock PROVE StreamInv'
  BY <1>1, <1>4 DEF StreamInv
<1>5. ASSUME pc' # "connecting" PROVE DialInv'
  BY <1>5 DEF DialInv
<1>6. ASSUME fd_' = NoFd PROVE WriterInv'
  BY <1>6 DEF WriterInv
<1>7. CASE UNCHANGED vars
  BY <1>1, <1>7
  DEF vars, client, network, StreamInv, WriterInv, DialInv, Writer, AfterFirst, AtBoundary, Outgoing
<1>8. CASE Network
  <2>1. UNCHANGED client /\ \A s \in Sockets : sock'[s] \in Socket
    BY <1>1, <1>8, NetworkTouches DEF Touched
  <2>2. \A s \in Sockets : Net(sock[s], sock'[s])
    BY <1>1, <1>8, NetworkIsNet
  <2> QED BY <2>1, <2>2, NetStream
<1>9. ASSUME UNCHANGED <<sock, fd_>>, pc \in {"idle", "recvAck"},
             \/ pc' \in {"idle", "recvAck"}
             \/ pc' \in {"sendPublish", "sendDisconnect"} /\ off' = 0,
             fd_ # NoFd /\ pc' \in {"recvAck", "sendDisconnect"} => pc = "recvAck" \/ sock[fd_].ack = "accept"
      PROVE  StreamInv' /\ WriterInv' /\ DialInv'
  <2>1. StreamInv' /\ DialInv'
    BY <1>4, <1>5, <1>9
  <2>2. WriterInv'
    <3> SUFFICES ASSUME fd_ # NoFd, sock[fd_].link = "up" PROVE Writer(sock[fd_])'
      BY <1>9 DEF WriterInv
    <3> PICK x : x = sock[fd_]
      OBVIOUS
    <3>1. Writer(x)
      BY <1>1 DEF WriterInv
    <3>2. x.ack = "accept" => x.stage # "fresh"
      BY <1>9, <3>1 DEF Writer
    <3>3. Writer(x)'
      BY <1>9, <3>1, <3>2, TurnKeepsWriter
    <3> QED BY <1>9, <3>3
  <2> QED BY <2>1, <2>2
<1>10. Unused \in Socket /\ Unused.stage # "broken" /\ Unused.link # "up"
  BY DEF Unused, Socket, Segment, NoPacket, AckLen
<1>11. CASE Call
  <2>1. fd_ # NoFd /\ pc = "idle" => sock[fd_].ack = "accept"
    BY <1>1 DEF VerdictMatchesSession
  <2>2. CASE fd_ = NoFd
    <3>1. UNCHANGED <<sock, fd_>> /\ pc' # "connecting"
      BY <1>11, <2>2 DEF Call, Connect, Disconnect, Publish, network
    <3> QED BY <1>4, <1>5, <1>6, <2>2, <3>1
  <2>3. CASE fd_ # NoFd
    <3>1. UNCHANGED <<sock, fd_>> /\ pc = "idle" /\ pc' \in {"sendPublish", "sendDisconnect"} /\ off' = 0
      BY <1>11, <2>3 DEF Call, Connect, Disconnect, Publish, EnterDisconnect, network
    <3> QED BY <1>9, <2>1, <3>1
  <2> QED BY <2>2, <2>3
<1>12. CASE Resolve \/ SocketFails
  <2>1. UNCHANGED <<sock, fd_>> /\ fd_ = NoFd /\ pc' # "connecting"
    BY <1>1, <1>12 DEF Resolve, SocketFails, NextAddress, ControlInv
  <2> QED BY <1>4, <1>5, <1>6, <2>1
<1>13. ASSUME NEW t \in Sockets, OpenSocket(t) PROVE StreamInv' /\ WriterInv' /\ DialInv'
  <2> DEFINE y == [Unused EXCEPT !.open = TRUE]
  <2>1. y \in Socket /\ y.stage # "broken" /\ y.link # "up" /\ fd_ = NoFd /\ fd_' = fd_
    <3>1. y \in Socket
      BY <1>10 DEF Socket
    <3> QED BY <1>1, <1>13, <3>1 DEF OpenSocket, ControlInv, Unused
  <2>2. sock' = [sock EXCEPT ![t] = y] /\ fd' = t
    BY <1>2, <1>13 DEF OpenSocket
  <2>3. sock'[fd'] = y
    BY <1>2, <2>2
  <2> HIDE DEF y
  <2>4. StreamInv'
    BY <1>1, <2>1, <2>2, OneSocket
  <2> QED BY <1>6, <2>1, <2>3, <2>4 DEF DialInv, y
<1>14. CASE DialOk
  <2> DEFINE y == [[Unused EXCEPT !.open = TRUE] EXCEPT !.link = "up"]
  <2>1. fd \in Sockets /\ sock[fd] = [Unused EXCEPT !.open = TRUE]
    BY <1>1, <1>2, <1>14 DEF DialOk, ControlInv, DialInv
  <2>2. y \in Socket
    BY <1>10 DEF Socket
  <2>3. y.stage = "fresh" /\ y.out = << >> /\ y.partial = NoPacket /\ y.ack = "none"
    BY DEF Unused
  <2>4. sock' = [sock EXCEPT ![fd] = y] /\ fd_' = fd /\ pc' = "sendConnect" /\ off' = 0
    BY <1>2, <1>14, <2>1 DEF DialOk
  <2>5. sock'[fd] = y
    BY <1>2, <2>1, <2>4
  <2> HIDE DEF y
  <2>6. Len(y.out) = 0
    BY <2>3
  <2>7. Legal(y)
    BY <2>3, <2>6 DEF Legal, Framed, Ordered
  <2>8. StreamInv'
    BY <1>1, <2>1, <2>2, <2>3, <2>4, <2>7, OneSocket
  <2>9. Writer(y)'
    <3>1. Size(Outgoing)' = 2
      BY <2>4 DEF Size, Outgoing
    <3> QED BY <2>3, <2>4, <2>6, <3>1 DEF Writer, AtBoundary, y
  <2>10. WriterInv'
    BY <2>4, <2>5, <2>9 DEF WriterInv
  <2> QED BY <1>5, <2>4, <2>8, <2>10
<1>15. CASE DialFails
  <2>1. /\ fd \in Sockets /\ sock' = [sock EXCEPT ![fd] = Unused] /\ fd_' = NoFd
        /\ pc' # "connecting"
    BY <1>1, <1>2, <1>15 DEF DialFails, Hangup, NextAddress, ControlInv
  <2>2. StreamInv'
    BY <1>1, <1>10, <2>1, OneSocket
  <2> QED BY <1>5, <1>6, <2>1, <2>2
<1>16. CASE SendFails
  <2>1. UNCHANGED <<sock, fd_>> /\ sock[fd_].link # "up" /\ pc' # "connecting"
    BY <1>16 DEF SendFails, GiveUp, EnterDisconnect, network
  <2> QED BY <1>4, <1>5, <2>1 DEF WriterInv
<1>17. CASE Recv
  <2>1. /\ UNCHANGED <<sock, fd_>> /\ pc = "recvAck"
        /\ \/ pc' \in {"idle", "recvAck"}
           \/ pc' \in {"sendPublish", "sendDisconnect"} /\ off' = 0
    BY <1>17 DEF Recv, Acknowledged, GiveUp, EnterDisconnect, network
  <2> QED BY <1>9, <2>1
<1>18. CASE RecvFails
  <2>1. UNCHANGED <<sock, fd_>> /\ pc = "recvAck" /\ pc' = "sendDisconnect" /\ off' = 0
    BY <1>18 DEF RecvFails, GiveUp, EnterDisconnect
  <2> QED BY <1>9, <2>1
<1>19. CASE Close
  <2>1. /\ fd_ \in Sockets /\ sock' = [sock EXCEPT ![fd_] = Closed(fd_)] /\ fd_' = NoFd
        /\ pc' # "connecting"
    BY <1>1, <1>2, <1>19 DEF Close, ControlInv
  <2> PICK x : x = sock[fd_]
    OBVIOUS
  <2>2. PICK y : y = Closed(fd_)
    OBVIOUS
  <2>3. x \in Socket /\ y \in Socket /\ x.stage # "broken" /\ (x.link = "up" => Legal(x))
    BY <1>1, <1>2, <2>1, <2>2, SocketTypes DEF StreamInv
  <2>4. \/ y = Unused
        \/ x.link = "up" /\ y.out = x.out /\ y.stage = x.stage /\ y.partial = x.partial
    BY <2>2, <2>3 DEF Closed, Socket
  <2>5. y.stage # "broken" /\ (y.link = "up" => Legal(y))
    BY <1>10, <2>3, <2>4 DEF Legal, Framed, Ordered
  <2>6. StreamInv'
    BY <1>1, <2>1, <2>2, <2>3, <2>5, OneSocket
  <2> QED BY <1>5, <1>6, <2>1, <2>6
<1>20. ASSUME NEW k \in 1..2, Send(k) PROVE StreamInv' /\ WriterInv' /\ DialInv'
  <2>1. /\ fd_ \in Sockets /\ fd_' = fd_ /\ pc \in Sending /\ k \in 1..(Size(Outgoing) - off)
        /\ pc' # "connecting"
    BY <1>1, <1>2, <1>20 DEF Send, Sent, ControlInv, Sending
  <2> PICK x : x = sock[fd_]
    OBVIOUS
  <2>2. PICK y : y = [x EXCEPT !.out = x.out \o Taken(k)]
    OBVIOUS
  <2>3. sock' = [sock EXCEPT ![fd_] = y]
    BY <1>2, <1>20, <2>1, <2>2 DEF Send, Queue, Taken
  <2>4. sock'[fd_] = y /\ x \in Socket
    BY <1>2, <2>1, <2>3
  <2>5. y \in Socket
    BY <1>3, <2>1, <2>4 DEF TypeOK
  <2>6. /\ y.out = x.out \o Taken(k) /\ y.partial = x.partial /\ y.stage = x.stage
        /\ y.ack = x.ack /\ y.link = x.link
    BY <2>2, <2>4 DEF Socket
  <2>7. /\ x.stage # "broken" /\ (pc = "sendPublish" => x.ack = "accept")
        /\ x.link = "up" => Legal(x) /\ Writer(x)
    BY <1>1, <1>2, <2>1 DEF StreamInv, WriterInv, AckInv
  <2>8. y.link = "up" => Legal(y)
    BY <1>1, <2>1, <2>4, <2>5, <2>6, <2>7, SendKeepsLegal
  <2>9. StreamInv'
    BY <1>1, <2>1, <2>3, <2>5, <2>6, <2>7, <2>8, OneSocket
  <2>10. ASSUME y.link = "up" PROVE Writer(y)'
    BY <1>1, <1>20, <2>4, <2>5, <2>6, <2>7, <2>10, SendKeepsWriter
  <2>11. WriterInv'
    BY <2>1, <2>4, <2>10 DEF WriterInv
  <2> QED BY <1>5, <2>1, <2>9, <2>11
<1> QED BY <1>7, <1>8, <1>11, <1>12, <1>13, <1>14, <1>15, <1>16, <1>17, <1>18, <1>19, <1>20
        DEF Next, Step

\* No session begins.
LEMMA NoNewSession ==
  ASSUME OneSession, \A s \in Sockets : Live(s)' => Live(s) PROVE OneSession'
BY DEF OneSession

\* A session begins when the broker accepts a CONNECT, which ends the others.
LEMMA NetworkSessions == ASSUME TypeOK, OneSession, Network PROVE OneSession'
<1>1. sock \in [Sockets -> Socket]
  BY DEF TypeOK
<1> DEFINE Fewer == \A s \in Sockets : Live(s)' => Live(s)
<1>2. ASSUME NEW t \in Sockets, NEW y, sock' = [sock EXCEPT ![t] = y],
             y.link = "up" /\ y.stage = "session" => Live(t)
      PROVE  Fewer
  BY <1>1, <1>2 DEF Live
<1>3. ASSUME Stall \/ Unstall PROVE Fewer
  BY <1>3 DEF Stall, Unstall, Live
<1>4. ASSUME NEW t \in Sockets, LinkDown(t) \/ BrokerClose(t) PROVE Fewer
  <2>1. sock' = [sock EXCEPT ![t] = Dropped(t)]
    BY <1>4 DEF LinkDown, BrokerClose
  <2>2. Dropped(t).link # "up"
    BY <1>1 DEF Dropped, Unused, Socket
  <2> QED BY <1>2, <2>1, <2>2
<1>5. ASSUME NEW t \in Sockets, LinkReset(t) \/ KernelGivesUp(t) PROVE Fewer
  <2>1. sock' = [sock EXCEPT ![t] = [sock[t] EXCEPT !.link = "dead"]]
    BY <1>1, <1>5 DEF LinkReset, KernelGivesUp
  <2>2. [sock[t] EXCEPT !.link = "dead"].link # "up"
    BY <1>1 DEF Socket
  <2> QED BY <1>2, <2>1, <2>2
<1>6. ASSUME NEW t \in Sockets, AckRest(t) PROVE Fewer
  <2> DEFINE y == [sock[t] EXCEPT !.acked = AckLen]
  <2>1. sock' = [sock EXCEPT ![t] = y]
    BY <1>1, <1>6 DEF AckRest
  <2>2. y.link = sock[t].link /\ y.stage = sock[t].stage
    BY <1>1 DEF Socket
  <2> QED BY <1>2, <2>1, <2>2 DEF Live
<1>7. ASSUME NEW t \in Sockets, BrokerRead(t) PROVE Fewer
  <2> DEFINE pkt  == Head(sock[t].out).pkt
             next == IF Begins(t) THEN sock[t].stage
                     ELSE IF Completes(t) THEN StageAfter(sock[t].stage, pkt.kind)
                     ELSE "broken"
             y    == [sock[t] EXCEPT !.out = Tail(sock[t].out),
                                     !.partial = IF Begins(t) THEN pkt ELSE NoPacket,
                                     !.stage = next]
  <2>1. sock' = [sock EXCEPT ![t] = y] /\ sock[t].link = "up"
    BY <1>1, <1>7 DEF BrokerRead
  <2>2. next = "session" => sock[t].stage = "session"
    BY DEF StageAfter
  <2>3. y.stage = next
    BY <1>1 DEF Socket
  <2> QED BY <1>2, <2>1, <2>2, <2>3 DEF Live
<1>8. ASSUME NEW t \in Sockets, NEW n \in 1..AckLen, BrokerConnack(t, "reject", n) PROVE Fewer
  <2>1. /\ sock'[t] = [sock[t] EXCEPT !.ack = "reject", !.acked = n, !.stage = "rejected"]
        /\ \A s \in Sockets : s # t => sock'[s] = sock[s]
    BY <1>8 DEF BrokerConnack
  <2>2. sock'[t].stage = "rejected"
    BY <1>1, <2>1 DEF Socket
  <2> QED BY <2>1, <2>2 DEF Live
<1>9. ASSUME NEW t \in Sockets, NEW n \in 1..AckLen, BrokerConnack(t, "accept", n) PROVE OneSession'
  <2>1. ASSUME NEW s \in Sockets, s # t PROVE ~Live(s)'
    <3>1. sock'[s] = IF Live(s) THEN Dropped(s) ELSE sock[s]
      BY <1>9, <2>1 DEF BrokerConnack, Live
    <3>2. Dropped(s).link # "up"
      BY <1>1 DEF Dropped, Unused, Socket
    <3> QED BY <3>1, <3>2 DEF Live
  <2> QED BY <2>1 DEF OneSession
<1> HIDE DEF Fewer
<1>10. ASSUME NEW t \in Sockets, NetStep(t) PROVE Fewer \/ OneSession'
  BY <1>4, <1>5, <1>6, <1>7, <1>9, <1>10 DEF NetStep
<1>11. ASSUME NetFault PROVE Fewer
  BY <1>3, <1>4, <1>5, <1>8, <1>11 DEF NetFault
<1>12. Fewer \/ OneSession'
  BY <1>3, <1>10, <1>11 DEF Network
<1> QED BY <1>12, NoNewSession DEF Fewer

\* The client opens and closes connections; it cannot begin a session.
LEMMA ClientSessions == ASSUME TypeOK, ControlInv, DialInv, OneSession, Call \/ Step PROVE OneSession'
<1>1. /\ sock \in [Sockets -> Socket] /\ fd_ \in Sockets \cup {NoFd}
      /\ fd \in Sockets \cup {NoFd} /\ NoFd \notin Sockets
  BY NoFdIsNone DEF TypeOK
<1> DEFINE Fewer == \A s \in Sockets : Live(s)' => Live(s)
<1>2. ASSUME NEW t \in Sockets, NEW y, sock' = [sock EXCEPT ![t] = y],
             y.link = "up" /\ y.stage = "session" => Live(t)
      PROVE  Fewer
  BY <1>1, <1>2 DEF Live
<1>3. ASSUME UNCHANGED sock PROVE Fewer
  BY <1>3 DEF Live
<1>4. ASSUME Call PROVE Fewer
  BY <1>3, <1>4 DEF Call, Connect, Disconnect, Publish, network
<1>5. ASSUME Resolve \/ SocketFails \/ SendFails \/ Recv \/ RecvFails PROVE Fewer
  BY <1>3, <1>5 DEF Resolve, SocketFails, SendFails, Recv, RecvFails, network
<1>6. ASSUME NEW t \in Sockets, OpenSocket(t) PROVE Fewer
  <2>1. sock' = [sock EXCEPT ![t] = [sock[t] EXCEPT !.open = TRUE]] /\ sock[t] = Unused
    BY <1>1, <1>6 DEF OpenSocket
  <2>2. [sock[t] EXCEPT !.open = TRUE].link # "up"
    BY <2>1 DEF Unused
  <2> QED BY <1>2, <2>1, <2>2
<1>7. ASSUME DialOk PROVE Fewer
  <2>1. fd \in Sockets /\ sock[fd] = [Unused EXCEPT !.open = TRUE]
    BY <1>1, <1>7 DEF DialOk, ControlInv, DialInv
  <2>2. sock' = [sock EXCEPT ![fd] = [sock[fd] EXCEPT !.link = "up"]]
    BY <1>1, <1>7, <2>1 DEF DialOk
  <2>3. [sock[fd] EXCEPT !.link = "up"].stage # "session"
    BY <2>1 DEF Unused
  <2> QED BY <1>2, <2>1, <2>2, <2>3
<1>8. ASSUME DialFails PROVE Fewer
  BY <1>1, <1>2, <1>8 DEF DialFails, Hangup, ControlInv, Unused
<1>9. ASSUME Close PROVE Fewer
  <2>1. fd_ \in Sockets /\ sock' = [sock EXCEPT ![fd_] = Closed(fd_)]
    BY <1>1, <1>9 DEF Close, ControlInv
  <2>2. Closed(fd_).link = "up" /\ Closed(fd_).stage = "session" => Live(fd_)
    BY <1>1, <2>1 DEF Closed, Unused, Live, Socket
  <2> QED BY <1>2, <2>1, <2>2
<1>10. ASSUME NEW k \in 1..2, Send(k) PROVE Fewer
  <2>1. fd_ \in Sockets
    BY <1>1, <1>10 DEF Send, ControlInv
  <2>2. PICK q : sock' = [sock EXCEPT ![fd_] = [sock[fd_] EXCEPT !.out = q]]
    BY <1>1, <1>10, <2>1 DEF Send, Queue
  <2> DEFINE y == [sock[fd_] EXCEPT !.out = q]
  <2>3. y.link = sock[fd_].link /\ y.stage = sock[fd_].stage
    BY <1>1, <2>1 DEF Socket
  <2> QED BY <1>2, <2>1, <2>2, <2>3 DEF Live
<1> HIDE DEF Fewer
<1>11. Fewer
  BY <1>4, <1>5, <1>6, <1>7, <1>8, <1>9, <1>10 DEF Step
<1> QED BY <1>11, NoNewSession DEF Fewer

\* Each position of the code belongs to the calls that reach it.
LEMMA NextCall == ASSUME CallInv, Call \/ Step PROVE CallInv'
<1>1. CASE Call
  BY <1>1 DEF Call, Connect, Disconnect, Publish, EnterDisconnect, CallInv
<1>2. ASSUME NEW s \in Sockets, OpenSocket(s) PROVE CallInv'
  BY <1>2 DEF OpenSocket, CallInv
<1>3. ASSUME NEW k \in 1..2, Send(k) PROVE CallInv'
  BY <1>3 DEF Send, Sent, CallInv, callVars
<1>4. CASE Resolve \/ SocketFails \/ DialOk \/ DialFails \/ SendFails \/ Recv \/ RecvFails \/ Close
  BY <1>4
  DEF Resolve, SocketFails, DialOk, DialFails, SendFails, Recv, RecvFails, Close, NextAddress, GiveUp,
      EnterDisconnect, Acknowledged, CallInv, callVars, Sending
<1> QED BY <1>1, <1>2, <1>3, <1>4 DEF Step

\* SInv is inductive.
LEMMA NextSInv == SInv /\ [Next]_vars => SInv'
<1> SUFFICES ASSUME SInv, [Next]_vars PROVE SInv'
  OBVIOUS
<1>1. IInv' /\ StreamInv' /\ WriterInv' /\ DialInv'
  BY NextIInv, NextStream DEF SInv
<1>2. TypeOK /\ ControlInv
  BY DEF SInv, IInv, TC
<1>3. OneSession' /\ CallInv'
  <2>1. CASE UNCHANGED vars
    BY <2>1 DEF SInv, OneSession, CallInv, Live, vars, client, network
  <2>2. CASE Call \/ Step
    BY <1>2, <2>2, ClientSessions, NextCall DEF SInv
  <2>3. CASE Network
    <3>1. UNCHANGED client
      BY <1>2, <2>3, NetworkTouches
    <3>2. CallInv'
      BY <3>1 DEF SInv, CallInv, client
    <3> QED BY <1>2, <2>3, <3>2, NetworkSessions DEF SInv
  <2> QED BY <2>1, <2>2, <2>3 DEF Next
<1> QED BY <1>1, <1>3 DEF SInv

\* SInv holds in every state of every behaviour.
LEMMA StreamInvariance == Spec => []SInv
<1>1. Init => SInv
  BY InitIInv, InitStream DEF SInv
<1> QED BY <1>1, NextSInv, PTL DEF Spec

\* The broker may also drop a session that has been silent for too long.
LEMMA DropSInv ==
  ASSUME SInv, NEW s \in Sockets, sock[s].link = "up",
         sock' = [sock EXCEPT ![s] = Dropped(s)], UNCHANGED <<client, stalled, faults>>
  PROVE  SInv'
<1>1. TypeOK
  BY DEF SInv, IInv, TC
<1>2. /\ sock \in [Sockets -> Socket] /\ sock' \in [Sockets -> Socket]
      /\ stalled' \in BOOLEAN /\ faults' \in 0..MaxFaults
  BY <1>1, SocketTypes, StoreType DEF TypeOK
<1>3. \A t \in Sockets : sock'[t] = IF t = s THEN Dropped(s) ELSE sock[t]
  BY <1>2
<1>4. \A t \in Sockets : Touched(t)
  BY <1>1, <1>3, LeftOrDropped
<1>5. \A t \in Sockets : Net(sock[t], sock'[t])
  <2>1. \A t \in Sockets : Net(sock[t], sock[t])
    BY DEF Net
  <2> QED BY <1>1, <1>3, <2>1, DropIsNet
<1>6. IInv'
  BY <1>2, <1>4, TouchedIInv DEF SInv
<1>7. OneSession'
  <2>1. Dropped(s).link # "up"
    BY <1>2 DEF Dropped, Unused, Socket
  <2> QED BY <1>3, <2>1, NoNewSession DEF SInv, Live
<1>8. CallInv'
  BY DEF SInv, CallInv, client
<1> QED BY <1>2, <1>5, <1>6, <1>7, <1>8, NetStream DEF SInv

\* The process may die at any point: the kernel closes its sockets, and the
\* next process starts with a new MqttPublisher.
LEMMA DeathSInv ==
  ASSUME SInv, UNCHANGED <<stalled, faults>>,
         pc' = "idle" /\ op' = "disconnect" /\ cont' = "void",
         fd_' = NoFd /\ fd' = NoFd /\ ai' = 1 /\ off' = 0 /\ got' = 0,
         msg' = NoMsg /\ res' = "void",
         sock' = [s \in Sockets |-> IF sock[s].open THEN Closed(s) ELSE sock[s]]
  PROVE  SInv'
<1>1. TypeOK /\ AckInv /\ StreamInv
  BY DEF SInv, IInv, TC
<1>2. /\ sock' \in [Sockets -> Socket]
      /\ \A s \in Sockets : sock[s] \in Socket
      /\ \A s \in Sockets : sock'[s] = IF sock[s].open THEN Closed(s) ELSE sock[s]
  BY <1>1, SocketTypes
<1>3. TypeOK'
  BY <1>1, <1>2, MqttAssumption DEF TypeOK, PCs, AckLen
<1>4. ASSUME NEW s \in Sockets
      PROVE  /\ ~sock'[s].open
             /\ \/ sock'[s] = Unused
                \/ /\ sock'[s].link = sock[s].link /\ sock'[s].ack = sock[s].ack
                   /\ sock'[s].stage = sock[s].stage /\ sock'[s].out = sock[s].out
                   /\ sock'[s].partial = sock[s].partial
  BY <1>2 DEF Closed, Unused, Socket
<1>5. NoFdLeak'
  BY <1>4 DEF NoFdLeak
<1>6. ControlInv' /\ VerdictMatchesSession' /\ WriterInv' /\ DialInv' /\ CallInv'
  BY DEF ControlInv, VerdictMatchesSession, WriterInv, DialInv, CallInv, Sending
<1>7. AckInv'
  BY <1>1, <1>4 DEF AckInv, Unused
<1>8. StreamInv'
  <2> SUFFICES ASSUME NEW s \in Sockets
               PROVE  sock'[s].stage # "broken" /\ (sock'[s].link = "up" => Legal(sock'[s]))
    BY DEF StreamInv
  <2>1. CASE sock'[s] = Unused
    BY <2>1 DEF Unused
  <2>2. CASE sock'[s] # Unused
    BY <1>1, <1>4, <2>2 DEF StreamInv, Legal, Framed, Ordered
  <2> QED BY <2>1, <2>2
<1>9. OneSession'
  BY <1>4, NoNewSession DEF SInv, Live, Unused
<1> QED BY <1>3, <1>5, <1>6, <1>7, <1>8, <1>9 DEF SInv, IInv, TC

-----------------------------------------------------------------------------
(* Messages on their way *)

\* The i-th segment queued on s ends a PUBLISH that the broker has yet to read.
Due(s, i) ==
  /\ sock[s].link = "up" /\ i \in 1..Len(sock[s].out)
  /\ sock[s].out[i].pkt.kind = "PUBLISH" /\ sock[s].out[i].part = 2

MsgAt(s, i) == sock[s].out[i].pkt.msg

\* publish() has been called and has not yet written the whole message.
Pending ==
  op = "publish" /\ pc \in {"resolve", "dial", "connecting", "sendConnect", "recvAck", "sendPublish"}

\* A step brings s no new message: the first segment may go, the connection
\* may go, or a connection with nothing on it may come.
Kept(s) ==
  \/ sock'[s].link # "up" \/ sock'[s].out = << >>
  \/ /\ sock[s].link = "up"
     /\ \/ sock'[s].out = sock[s].out
        \/ sock[s].out # << >> /\ sock'[s].out = Tail(sock[s].out)

\* A step after which no more messages are on their way than before.
NoMoreDue == (\A s \in Sockets : Kept(s)) /\ (Pending' => Pending /\ msg' = msg)

\* Messages on their way are on a connection in session.
LEMMA DueIsLive == ASSUME SInv, NEW s \in Sockets, NEW i, Due(s, i) PROVE Live(s)
BY DEF SInv, StreamInv, Legal, Ordered, Due, Live

\* Where the messages of s were before the step.
LEMMA KeptDue ==
  ASSUME TypeOK, TypeOK', NEW s \in Sockets, Kept(s)
  PROVE  \E d \in {0, 1} : \A i \in Nat : Due(s, i)' => Due(s, i + d) /\ MsgAt(s, i)' = MsgAt(s, i + d)
<1>1. sock[s] \in Socket /\ sock'[s] \in Socket
  BY DEF TypeOK
<1>2. CASE sock'[s].link # "up" \/ sock'[s].out = << >>
  <2>1. \A i : ~Due(s, i)'
    BY <1>2 DEF Due
  <2> QED BY <2>1
<1>3. CASE sock[s].link = "up" /\ sock'[s].out = sock[s].out
  <2>1. \A i \in Nat : Due(s, i)' => Due(s, i + 0) /\ MsgAt(s, i)' = MsgAt(s, i + 0)
    BY <1>3 DEF Due, MsgAt
  <2> QED BY <2>1
<1>4. CASE sock[s].link = "up" /\ sock[s].out # << >> /\ sock'[s].out = Tail(sock[s].out)
  <2> PICK q : q = sock[s].out
    OBVIOUS
  <2> PICK r : r = sock'[s].out
    OBVIOUS
  <2>1. q \in Seq(Segment) /\ q # << >> /\ r = Tail(q)
    BY <1>1, <1>4 DEF Socket
  <2>2. \A i \in 1..Len(r) : i + 1 \in 1..Len(q) /\ r[i] = q[i + 1]
    BY <2>1
  <2>3. \A i \in Nat : Due(s, i)' => Due(s, i + 1) /\ MsgAt(s, i)' = MsgAt(s, i + 1)
    BY <1>4, <2>2 DEF Due, MsgAt
  <2> QED BY <2>3
<1> QED BY <1>2, <1>3, <1>4 DEF Kept

\* The network and the broker bring no message.
LEMMA NetworkNoMoreDue == ASSUME SInv, Network PROVE NoMoreDue
<1>1. TypeOK /\ StreamInv
  BY DEF SInv, IInv, TC
<1>2. UNCHANGED client /\ \A s \in Sockets : Net(sock[s], sock'[s])
  BY <1>1, NetworkTouches, NetworkIsNet
<1>3. \A s \in Sockets : Kept(s)
  BY <1>2 DEF Net, ReadFrom, Kept
<1> QED BY <1>2, <1>3 DEF NoMoreDue, Pending, client

\* Neither do the client's system calls, other than ::send.
LEMMA StepNoMoreDue == ASSUME SInv, Step, \A k \in 1..2 : ~Send(k) PROVE NoMoreDue
<1>1. TypeOK /\ ControlInv /\ DialInv /\ CallInv
  BY DEF SInv, IInv, TC
<1>2. /\ sock \in [Sockets -> Socket] /\ fd_ \in Sockets \cup {NoFd}
      /\ fd \in Sockets \cup {NoFd} /\ NoFd \notin Sockets
  BY <1>1, NoFdIsNone DEF TypeOK
<1>3. ASSUME UNCHANGED sock PROVE \A s \in Sockets : Kept(s)
  BY <1>3 DEF Kept
<1>4. ASSUME NEW t \in Sockets, NEW y, sock' = [sock EXCEPT ![t] = y],
             y.link # "up" \/ y.out = << >> \/ (sock[t].link = "up" /\ y.out = sock[t].out)
      PROVE  \A s \in Sockets : Kept(s)
  BY <1>2, <1>4 DEF Kept
<1>5. CASE Resolve \/ SocketFails \/ SendFails \/ RecvFails
  <2>1. Pending' => Pending /\ msg' = msg
    BY <1>5
    DEF Resolve, SocketFails, SendFails, RecvFails, NextAddress, GiveUp, EnterDisconnect, callVars, Pending
  <2>2. UNCHANGED sock
    BY <1>5 DEF Resolve, SocketFails, SendFails, RecvFails, network
  <2> QED BY <1>3, <2>1, <2>2 DEF NoMoreDue
<1>6. CASE Recv
  <2>1. pc = "recvAck" /\ UNCHANGED <<op, msg, sock>>
    BY <1>6 DEF Recv, callVars, network
  <2> QED BY <1>3, <2>1 DEF NoMoreDue, Pending
<1>7. ASSUME NEW t \in Sockets, OpenSocket(t) PROVE NoMoreDue
  <2>1. sock' = [sock EXCEPT ![t] = [Unused EXCEPT !.open = TRUE]]
    BY <1>2, <1>7 DEF OpenSocket
  <2>2. [Unused EXCEPT !.open = TRUE].link # "up"
    BY DEF Unused
  <2>3. pc = "dial" /\ UNCHANGED <<op, msg>>
    BY <1>7 DEF OpenSocket, callVars
  <2> QED BY <1>4, <2>1, <2>2, <2>3 DEF NoMoreDue, Pending
<1>8. CASE DialOk
  <2> DEFINE y == [[Unused EXCEPT !.open = TRUE] EXCEPT !.link = "up"]
  <2>1. fd \in Sockets /\ sock' = [sock EXCEPT ![fd] = y]
    BY <1>1, <1>2, <1>8 DEF DialOk, ControlInv, DialInv
  <2>2. y.out = << >>
    BY DEF Unused
  <2>3. pc = "connecting" /\ UNCHANGED <<op, msg>>
    BY <1>8 DEF DialOk, callVars
  <2> QED BY <1>4, <2>1, <2>2, <2>3 DEF NoMoreDue, Pending
<1>9. CASE DialFails
  <2>1. fd \in Sockets /\ sock' = [sock EXCEPT ![fd] = Unused] /\ Unused.out = << >>
    BY <1>1, <1>2, <1>9 DEF DialFails, Hangup, ControlInv, Unused
  <2>2. pc = "connecting" /\ UNCHANGED <<op, msg>>
    BY <1>9 DEF DialFails, callVars
  <2> QED BY <1>4, <2>1, <2>2 DEF NoMoreDue, Pending
<1>10. CASE Close
  <2>1. fd_ \in Sockets /\ sock' = [sock EXCEPT ![fd_] = Closed(fd_)]
    BY <1>1, <1>2, <1>10 DEF Close, ControlInv
  <2>2. Closed(fd_).out = << >> \/ (sock[fd_].link = "up" /\ Closed(fd_).out = sock[fd_].out)
    BY <1>2, <2>1 DEF Closed, Unused, Socket
  <2>3. ~Pending'
    BY <1>1, <1>10 DEF Close, CallInv, callVars, Pending
  <2> QED BY <1>4, <2>1, <2>2, <2>3 DEF NoMoreDue
<1> QED BY <1>5, <1>6, <1>7, <1>8, <1>9, <1>10 DEF Step

\* ::send brings at most the message being written, and only when all of it
\* has been written.
LEMMA SendDue ==
  ASSUME SInv, SInv', NEW k \in 1..2, Send(k)
  PROVE  /\ Pending' => Pending /\ msg' = msg
         /\ \A s \in Sockets, i \in Nat : Due(s, i)' =>
              \/ Due(s, i) /\ MsgAt(s, i)' = MsgAt(s, i)
              \/ /\ s = fd_ /\ i = Len(sock'[s].out) /\ MsgAt(s, i)' = msg
                 /\ Pending /\ ~Pending'
<1>1. TypeOK /\ ControlInv /\ WriterInv /\ CallInv /\ sock \in [Sockets -> Socket]
  BY DEF SInv, IInv, TC, TypeOK
<1>2. /\ fd_ \in Sockets /\ pc \in Sending /\ k \in 1..(Size(Outgoing) - off) /\ off \in 0..2
      /\ Outgoing \in Packet /\ Size(Outgoing) \in 1..2 /\ UNCHANGED <<op, msg>>
  BY <1>1, OutgoingType DEF Send, ControlInv, TypeOK, callVars
<1>3. Pending' => Pending /\ msg' = msg
  BY <1>2 DEF Send, Sent, Pending, Sending
<1> PICK x : x = sock[fd_]
  OBVIOUS
<1>4. PICK y : y = [x EXCEPT !.out = x.out \o Taken(k)]
  OBVIOUS
<1>5. x \in Socket /\ y.link = x.link /\ y.out = x.out \o Taken(k)
  BY <1>1, <1>2, <1>4 DEF Socket
<1>6. sock'[fd_] = y /\ \A s \in Sockets : s # fd_ => sock'[s] = sock[s]
  BY <1>1, <1>2, <1>4 DEF Send, Queue, Taken
<1>7. Appended(x.out, y.out, k) /\ Len(x.out) \in Nat
  BY <1>1, <1>2, <1>5, SendQueue, QueueFacts
<1>8. ASSUME NEW s \in Sockets, NEW i \in Nat, Due(s, i)'
      PROVE  \/ Due(s, i) /\ MsgAt(s, i)' = MsgAt(s, i)
             \/ /\ s = fd_ /\ i = Len(sock'[s].out) /\ MsgAt(s, i)' = msg
                /\ Pending /\ ~Pending'
  <2>1. CASE s # fd_
    BY <1>6, <1>8, <2>1 DEF Due, MsgAt
  <2>2. CASE s = fd_
    <3>1. y.link = "up" /\ i \in 1..Len(y.out) /\ y.out[i].pkt.kind = "PUBLISH" /\ y.out[i].part = 2
      BY <1>6, <1>8, <2>2 DEF Due
    <3>2. CASE i \in 1..Len(x.out)
      <4>1. y.out[i] = x.out[i]
        BY <1>7, <3>2 DEF Appended
      <4>2. Due(s, i)
        BY <1>5, <2>2, <3>1, <3>2, <4>1 DEF Due
      <4> QED BY <1>6, <2>2, <4>1, <4>2 DEF MsgAt
    <3>3. ASSUME NEW j \in 1..k, i = Len(x.out) + j
          PROVE  /\ i = Len(y.out) /\ y.out[i].pkt.msg = msg /\ Pending /\ ~Pending'
      <4>1. y.out[i] = [pkt |-> Outgoing, part |-> off + j] /\ Len(y.out) = Len(x.out) + k
        BY <1>7, <3>3 DEF Appended
      <4>2. Outgoing.kind = "PUBLISH" /\ off + j = 2
        BY <3>1, <4>1
      <4>3. pc = "sendPublish" /\ Outgoing.msg = msg /\ Size(Outgoing) = 2
        BY <4>2 DEF Outgoing, Size
      <4>4. j = k /\ off + k = 2
        BY <1>2, <4>2, <4>3
      <4>5. pc' = "idle"
        BY <4>3, <4>4 DEF Send, AllSent, Sent
      <4> QED BY <1>1, <3>3, <4>1, <4>3, <4>4, <4>5 DEF CallInv, Pending
    <3>4. i \in 1..Len(x.out) \/ \E j \in 1..k : i = Len(x.out) + j
      BY <1>7, <3>1 DEF Appended
    <3>5. CASE i \notin 1..Len(x.out)
      BY <1>6, <2>2, <3>3, <3>4, <3>5 DEF MsgAt
    <3> QED BY <3>2, <3>5
  <2> QED BY <2>1, <2>2
<1> QED BY <1>3, <1>8

\* Reading completes a PUBLISH exactly when its last segment was first in
\* the queue; the other messages of the connection move up.
LEMMA ReadDue ==
  ASSUME SInv, NEW s \in Sockets, BrokerRead(s)
  PROVE  /\ \A i \in Nat : Due(s, i)' => Due(s, i + 1) /\ MsgAt(s, i)' = MsgAt(s, i + 1)
         /\ \A t \in Sockets : t # s => sock'[t] = sock[t]
         /\ Head(sock[s].out).pkt.msg = MsgAt(s, 1)
         /\ Due(s, 1) <=> Completes(s) /\ Head(sock[s].out).pkt.kind = "PUBLISH" /\ sock[s].stage = "session"
<1>1. sock \in [Sockets -> Socket] /\ sock[s] \in Socket /\ StreamInv
  BY DEF SInv, IInv, TC, TypeOK
<1>2. sock[s].link = "up" /\ sock[s].out # << >> /\ Legal(sock[s])
  BY <1>1 DEF BrokerRead, StreamInv
<1>3. (Completes(s) <=> Whole(sock[s].out[1])) /\ Head(sock[s].out) = sock[s].out[1]
  BY <1>1, <1>2, NextFits
<1>4. \A t \in Sockets : t # s => sock'[t] = sock[t]
  BY <1>1 DEF BrokerRead
<1>5. sock'[s].out = Tail(sock[s].out)
  BY <1>1 DEF BrokerRead, Socket
<1>6. 1 \in 1..Len(sock[s].out)
  BY <1>1, <1>2, QueueFacts
<1>7. Due(s, 1) <=> Completes(s) /\ Head(sock[s].out).pkt.kind = "PUBLISH" /\ sock[s].stage = "session"
  BY <1>2, <1>3, <1>6 DEF Due, Whole, Size, Legal, Ordered
<1>8. \A i \in Nat : Due(s, i)' => Due(s, i + 1) /\ MsgAt(s, i)' = MsgAt(s, i + 1)
  <2> PICK q : q = sock[s].out
    OBVIOUS
  <2> PICK r : r = sock'[s].out
    OBVIOUS
  <2>1. q \in Seq(Segment) /\ q # << >> /\ r = Tail(q)
    BY <1>1, <1>2, <1>5 DEF Socket
  <2>2. \A i \in 1..Len(r) : i + 1 \in 1..Len(q) /\ r[i] = q[i + 1]
    BY <2>1
  <2> QED BY <1>2, <2>2 DEF Due, MsgAt
<1> QED BY <1>3, <1>4, <1>7, <1>8 DEF MsgAt

-----------------------------------------------------------------------------
\* Over any short writes, rejected sessions, takeovers and reconnections, no
\* broker ever reads a packet started before the one in front of it is
\* complete, a PUBLISH outside a session it has accepted, or anything after a
\* DISCONNECT.
THEOREM StreamLegal == Spec => []StreamWellFormed
<1>1. SInv => StreamWellFormed
  BY DEF SInv, StreamInv, StreamWellFormed
<1> QED BY <1>1, StreamInvariance, PTL
=============================================================================
