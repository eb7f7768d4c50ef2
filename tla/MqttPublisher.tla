---------------------------- MODULE MqttPublisher ----------------------------
(***************************************************************************)
(* class MqttPublisher (src/mqtt_publisher.cpp) at the granularity of its  *)
(* system calls, with the kernel's sockets and the broker it talks to.     *)
(*                                                                         *)
(* The client is one thread: pc is where the current call of connect(),    *)
(* publish() or disconnect() stands, and a blocking system call is an      *)
(* action that is not enabled yet. A packet is cut into segments, so that  *)
(* a short write is a step; its bytes are abstracted to its kind and       *)
(* message. A call interrupted by a signal (EINTR) is retried by the code  *)
(* with nothing changed, that is, it stutters.                             *)
(*                                                                         *)
(* External, modelled from how the code uses it: the resolver, the TCP     *)
(* stack and the broker. Each misbehaviour of theirs that is not forced by *)
(* an earlier one costs one unit of the budget `faults`.                   *)
(***************************************************************************)
EXTENDS Integers, Sequences, FiniteSets

CONSTANTS
  Sockets,      \* descriptors ::socket can return
  Messages,     \* what publish() can be asked to send
  NoMsg,        \* placeholder in packets that carry no message
  NAddr,        \* number of addresses the broker's name resolves to
  SndBuf,       \* bound: segments a connection holds before send() blocks
  MaxFaults     \* bound: misbehaviours of the network and the broker

NoFd == -1

ASSUME MqttAssumption ==
  /\ Sockets \subseteq Nat
  /\ NoMsg \notin Messages
  /\ NAddr \in Nat \ {0}
  /\ SndBuf \in Nat \ {0}
  /\ MaxFaults \in Nat

VARIABLES
  pc,           \* position in the current call
  op,           \* the call: "connect", "publish" or "disconnect"
  cont,         \* what follows the disconnect() in progress
  fd_,          \* the member fd_
  fd,           \* connect()'s local fd, NoFd when no dial is in progress
  ai,           \* position in the addrinfo list
  off,          \* sendAll's off, in segments
  got,          \* recvExact's off, in segments
  msg,          \* publish()'s argument
  res,          \* result of the last call
  sock,         \* the kernel's and the broker's view of every socket
  stalled,      \* the broker has stopped reading and answering
  faults        \* misbehaviours so far

callVars == <<op, msg>>
client   == <<pc, op, cont, fd_, fd, ai, off, got, msg, res>>
network  == <<sock, stalled, faults>>
vars     == <<client, network>>

Sending == {"sendConnect", "sendPublish", "sendDisconnect"}
PCs     == {"idle", "resolve", "dial", "connecting", "recvAck", "close"} \cup Sending

-----------------------------------------------------------------------------
(* Packets, segments and sockets *)

Packet  == [kind : {"CONNECT", "PUBLISH", "DISCONNECT"}, msg : Messages \cup {NoMsg}]
Size(p) == IF p.kind = "DISCONNECT" THEN 1 ELSE 2
NoPacket == [kind |-> "none", msg |-> NoMsg]
Segment == [pkt : Packet, part : 1..2]
AckLen  == 2      \* the four CONNACK bytes arrive in at most two pieces

\* link:  none  the slot is unused
\*        up    both ends are alive
\*        half  the broker is gone and the client's kernel does not know
\*        dead  the client's kernel knows: send() fails
\* stage: the broker's reading of the stream; "rejected" is a session it has
\*        refused, "ended" one the client has ended, "broken" a byte sequence
\*        that is not a legal MQTT session.
Socket == [open : BOOLEAN, link : {"none", "up", "half", "dead"},
           out : Seq(Segment),
           stage : {"fresh", "deciding", "session", "rejected", "ended", "broken"},
           partial : Packet \cup {NoPacket},
           ack : {"none", "accept", "reject"}, acked : 0..AckLen]

Unused == [open |-> FALSE, link |-> "none", out |-> << >>, stage |-> "fresh",
           partial |-> NoPacket, ack |-> "none", acked |-> 0]

Fault == faults < MaxFaults /\ faults' = faults + 1

Init ==
  /\ pc = "idle" /\ op = "disconnect" /\ cont = "void"
  /\ fd_ = NoFd /\ fd = NoFd /\ ai = 1 /\ off = 0 /\ got = 0
  /\ msg = NoMsg /\ res = "void"
  /\ sock = [s \in Sockets |-> Unused]
  /\ stalled = FALSE /\ faults = 0

-----------------------------------------------------------------------------
(* disconnect(): best-effort DISCONNECT, then close *)

\* Enter disconnect() with fd_ open; k says what its caller does afterwards.
EnterDisconnect(k) ==
  /\ pc' = "sendDisconnect"
  /\ off' = 0
  /\ cont' = k

\* Mutant of GiveUp: the descriptor is kept.
GiveUpKeepsFd == pc' = "idle" /\ res' = "fail" /\ UNCHANGED <<off, cont>>

\* `disconnect(); return false'
GiveUp == EnterDisconnect("fail") /\ UNCHANGED res

\* ::close: what is queued on a live link still reaches the broker.
Closed(s) == IF sock[s].link = "up" THEN [sock[s] EXCEPT !.open = FALSE] ELSE Unused

Close ==
  /\ pc = "close"
  /\ sock' = [sock EXCEPT ![fd_] = Closed(fd_)]
  /\ fd_' = NoFd
  /\ \/ cont = "resolve" /\ pc' = "resolve" /\ UNCHANGED res
     \/ cont \in {"fail", "void"} /\ pc' = "idle" /\ res' = cont
  /\ UNCHANGED <<callVars, cont, fd, ai, off, got, stalled, faults>>

-----------------------------------------------------------------------------
(* The calls *)

\* connect() begins with disconnect().
Connect ==
  /\ pc = "idle"
  /\ op' = "connect"
  /\ \/ fd_ # NoFd /\ EnterDisconnect("resolve")
     \/ fd_ = NoFd /\ pc' = "resolve" /\ UNCHANGED <<off, cont>>
  /\ UNCHANGED <<fd_, fd, ai, got, msg, res, network>>

\* publish(): ensureConnected() takes an open fd_ for a session.
Publish(m) ==
  /\ pc = "idle"
  /\ op' = "publish"
  /\ msg' = m
  /\ \/ fd_ # NoFd /\ pc' = "sendPublish"
     \/ fd_ = NoFd /\ pc' = "resolve"
  /\ off' = 0
  /\ UNCHANGED <<cont, fd_, fd, ai, got, res, network>>

Disconnect ==
  /\ pc = "idle"
  /\ op' = "disconnect"
  /\ \/ fd_ # NoFd /\ EnterDisconnect("void") /\ UNCHANGED res
     \/ fd_ = NoFd /\ res' = "void" /\ UNCHANGED <<pc, off, cont>>
  /\ UNCHANGED <<fd_, fd, ai, got, msg, network>>

-----------------------------------------------------------------------------
(* connect(): resolve, dial, CONNECT, CONNACK *)

Resolve ==
  /\ pc = "resolve"
  /\ \/ pc' = "dial" /\ ai' = 1 /\ UNCHANGED <<res, faults>>
     \/ Fault /\ pc' = "idle" /\ res' = "fail" /\ UNCHANGED ai
  /\ UNCHANGED <<callVars, cont, fd_, fd, off, got, sock, stalled>>

OpenSocket(s) ==
  /\ pc = "dial"
  /\ sock[s] = Unused
  /\ sock' = [sock EXCEPT ![s].open = TRUE]
  /\ fd' = s
  /\ pc' = "connecting"
  /\ UNCHANGED <<callVars, cont, fd_, ai, off, got, res, stalled, faults>>

\* Mutant of NextAddress: the loop runs past the end of the list.
NextAddressPastEnd ==
  \/ ai <= NAddr /\ pc' = "dial" /\ ai' = ai + 1 /\ UNCHANGED res
  \/ ai > NAddr /\ pc' = "idle" /\ res' = "fail" /\ UNCHANGED ai

\* The loop over the addrinfo list, or `if (fd < 0) return false`.
NextAddress ==
  \/ ai < NAddr /\ pc' = "dial" /\ ai' = ai + 1 /\ UNCHANGED res
  \/ ai = NAddr /\ pc' = "idle" /\ res' = "fail" /\ UNCHANGED ai

SocketFails ==
  /\ pc = "dial"
  /\ Fault
  /\ NextAddress
  /\ UNCHANGED <<callVars, cont, fd_, fd, off, got, sock, stalled>>

DialOk ==
  /\ pc = "connecting"
  /\ sock' = [sock EXCEPT ![fd].link = "up"]
  /\ fd_' = fd
  /\ fd' = NoFd
  /\ pc' = "sendConnect"
  /\ off' = 0
  /\ UNCHANGED <<callVars, cont, ai, got, res, stalled, faults>>

\* Mutant of Hangup: the failed socket is not closed.
HangupLeaks == sock

Hangup == [sock EXCEPT ![fd] = Unused]

\* Refused, unreachable, or the kernel gave up on the SYN.
DialFails ==
  /\ pc = "connecting"
  /\ Fault
  /\ sock' = Hangup
  /\ fd' = NoFd
  /\ NextAddress
  /\ UNCHANGED <<callVars, cont, fd_, off, got, stalled>>

-----------------------------------------------------------------------------
(* sendAll and recvExact *)

Outgoing ==
  CASE pc = "sendConnect" -> [kind |-> "CONNECT", msg |-> NoMsg]
    [] pc = "sendPublish" -> [kind |-> "PUBLISH", msg |-> msg]
    [] OTHER              -> [kind |-> "DISCONNECT", msg |-> NoMsg]

\* k segments of the current packet enter the socket buffer.
Queue(k) ==
  sock' = [sock EXCEPT ![fd_].out =
             @ \o [i \in 1..k |-> [pkt |-> Outgoing, part |-> off + i]]]

\* What the caller of sendAll does when it returns true.
Sent ==
  \/ /\ pc = "sendConnect" /\ pc' = "recvAck" /\ got' = 0
     /\ UNCHANGED res
  \/ /\ pc = "sendPublish" /\ pc' = "idle" /\ res' = "ok"
     /\ UNCHANGED got
  \/ /\ pc = "sendDisconnect" /\ pc' = "close"
     /\ UNCHANGED <<got, res>>

\* Mutant of AllSent: one ::send is taken to have sent everything.
AllSentAtOnce(n) == TRUE

AllSent(n) == n = Size(Outgoing)

\* One ::send that takes k segments; with a full buffer it blocks.
Send(k) ==
  /\ pc \in Sending
  /\ sock[fd_].link \in {"up", "half"}
  /\ k \in 1..(Size(Outgoing) - off)
  /\ Len(sock[fd_].out) + k <= SndBuf
  /\ Queue(k)
  /\ off' = off + k
  /\ \/ ~AllSent(off + k) /\ UNCHANGED <<pc, got, res>>
     \/ AllSent(off + k) /\ Sent
  /\ UNCHANGED <<callVars, cont, fd_, fd, ai, stalled, faults>>

\* Mutant of SendFails: every error is retried like EINTR.
SendFailsRetries ==
  /\ pc \in Sending
  /\ sock[fd_].link = "dead"
  /\ UNCHANGED vars

\* ::send returns -1: connect() and publish() disconnect and return false,
\* disconnect() goes on to close.
SendFails ==
  /\ pc \in Sending
  /\ sock[fd_].link = "dead"
  /\ \/ pc # "sendDisconnect" /\ GiveUp
     \/ pc = "sendDisconnect" /\ pc' = "close" /\ UNCHANGED <<off, cont, res>>
  /\ UNCHANGED <<callVars, fd_, fd, ai, got, network>>

\* The whole CONNACK has been read: test it.
Acknowledged ==
  \/ /\ sock[fd_].ack = "accept" /\ op = "connect"
     /\ pc' = "idle" /\ res' = "ok" /\ UNCHANGED <<off, cont>>
  \/ /\ sock[fd_].ack = "accept" /\ op = "publish"
     /\ pc' = "sendPublish" /\ off' = 0 /\ UNCHANGED <<cont, res>>
  \/ /\ sock[fd_].ack = "reject"
     /\ GiveUp

\* One ::recv that returns what has arrived.
Recv ==
  /\ pc = "recvAck"
  /\ got < sock[fd_].acked
  /\ got' = sock[fd_].acked
  /\ \/ got' < AckLen /\ UNCHANGED <<pc, off, cont, res>>
     \/ got' = AckLen /\ Acknowledged
  /\ UNCHANGED <<callVars, fd_, fd, ai, network>>

\* Mutant of RecvFails: a timeout is retried like EINTR.
RecvFailsRetries ==
  /\ pc = "recvAck"
  /\ got = sock[fd_].acked
  /\ UNCHANGED vars

\* Timeout or connection closed: nothing more arrives in time.
RecvFails ==
  /\ pc = "recvAck"
  /\ got = sock[fd_].acked
  /\ \/ (stalled \/ sock[fd_].link # "up") /\ UNCHANGED faults
     \/ ~(stalled \/ sock[fd_].link # "up") /\ Fault
  /\ GiveUp
  /\ UNCHANGED <<callVars, fd_, fd, ai, got, sock, stalled>>

-----------------------------------------------------------------------------
(* The broker and the network (external) *)

\* The packet the broker completes by reading the next segment of s.
Completes(s) ==
  LET seg == Head(sock[s].out) IN
  /\ sock[s].partial = (IF seg.part = 1 THEN NoPacket ELSE seg.pkt)
  /\ seg.part = Size(seg.pkt)

\* Reading it leaves a packet unfinished.
Begins(s) ==
  LET seg == Head(sock[s].out) IN
  sock[s].partial = NoPacket /\ seg.part = 1 /\ Size(seg.pkt) = 2

\* The broker's session after a complete packet: a client may disconnect at
\* any time after CONNECT, and sends nothing after that.
StageAfter(stage, kind) ==
  CASE stage = "fresh" /\ kind = "CONNECT"   -> "deciding"
    [] stage = "session" /\ kind = "PUBLISH" -> "session"
    [] /\ stage \in {"deciding", "session", "rejected"}
       /\ kind = "DISCONNECT"                -> "ended"
    [] OTHER                                 -> "broken"

BrokerRead(s) ==
  LET pkt == Head(sock[s].out).pkt IN
  /\ ~stalled
  /\ sock[s].link = "up" /\ sock[s].out # << >>
  /\ sock' = [sock EXCEPT
       ![s].out = Tail(@),
       ![s].partial = IF Begins(s) THEN pkt ELSE NoPacket,
       ![s].stage = IF Begins(s) THEN @
                    ELSE IF Completes(s) THEN StageAfter(@, pkt.kind)
                    ELSE "broken"]
  /\ UNCHANGED <<client, stalled, faults>>

\* The broker's end of s is gone.
Dropped(s) == IF sock[s].open THEN [sock[s] EXCEPT !.link = "half"] ELSE Unused

\* The broker answers CONNECT; accepting it takes over the client id's other
\* sessions. The answer arrives in one or two pieces.
BrokerConnack(s, v, n) ==
  /\ ~stalled
  /\ sock[s].link = "up" /\ sock[s].stage = "deciding"
  /\ \/ v = "accept" /\ UNCHANGED faults
     \/ v = "reject" /\ Fault
  /\ sock' = [t \in Sockets |->
       IF t = s THEN [sock[s] EXCEPT !.ack = v, !.acked = n,
                        !.stage = IF v = "accept" THEN "session" ELSE "rejected"]
       ELSE IF v = "accept" /\ sock[t].link = "up" /\ sock[t].stage = "session"
            THEN Dropped(t)
       ELSE sock[t]]
  /\ UNCHANGED <<client, stalled>>

AckRest(s) ==
  /\ sock[s].link = "up" /\ sock[s].acked = 1
  /\ sock' = [sock EXCEPT ![s].acked = AckLen]
  /\ UNCHANGED <<client, stalled, faults>>

\* The broker closes a session it has refused or the client has ended, or
\* meets the end of a stream the client has closed. A stream closed while the
\* broker hangs is given up by the kernel.
BrokerClose(s) ==
  /\ sock[s].link = "up"
  /\ \/ sock[s].stage \in {"rejected", "ended"} /\ sock[s].acked # 1
     \/ ~sock[s].open /\ (sock[s].out = << >> \/ stalled)
  /\ sock' = [sock EXCEPT ![s] = Dropped(s)]
  /\ UNCHANGED <<client, stalled, faults>>

\* Data sent to a broker that is gone comes back as a reset or times out.
KernelGivesUp(s) ==
  /\ sock[s].link = "half" /\ sock[s].out # << >>
  /\ sock' = [sock EXCEPT ![s].link = "dead"]
  /\ UNCHANGED <<client, stalled, faults>>

LinkDown(s) ==
  /\ sock[s].link = "up"
  /\ Fault
  /\ sock' = [sock EXCEPT ![s] = Dropped(s)]
  /\ UNCHANGED <<client, stalled>>

LinkReset(s) ==
  /\ sock[s].link = "up" /\ sock[s].open
  /\ Fault
  /\ sock' = [sock EXCEPT ![s].link = "dead"]
  /\ UNCHANGED <<client, stalled>>

Stall ==
  /\ ~stalled /\ Fault
  /\ stalled' = TRUE
  /\ UNCHANGED <<client, sock>>

Unstall ==
  /\ stalled
  /\ stalled' = FALSE
  /\ UNCHANGED <<client, sock, faults>>

-----------------------------------------------------------------------------
Call == Connect \/ Disconnect \/ \E m \in Messages : Publish(m)

\* A step of the call in progress.
Step ==
  \/ Resolve \/ SocketFails \/ DialOk \/ DialFails \/ SendFails
  \/ Recv \/ RecvFails \/ Close
  \/ \E s \in Sockets : OpenSocket(s)
  \/ \E k \in 1..2 : Send(k)

NetStep(s) ==
  \/ BrokerRead(s) \/ AckRest(s) \/ BrokerClose(s) \/ KernelGivesUp(s)
  \/ \E n \in 1..AckLen : BrokerConnack(s, "accept", n)

NetFault ==
  \/ Stall
  \/ \E s \in Sockets :
       \/ LinkDown(s) \/ LinkReset(s)
       \/ \E n \in 1..AckLen : BrokerConnack(s, "reject", n)

Network == Unstall \/ NetFault \/ \E s \in Sockets : NetStep(s)

Next == Call \/ Step \/ Network

Spec == Init /\ [][Next]_vars

\* The client thread runs, a broker that is up answers, a broker that hangs
\* is restarted, and the service calls publish() again and again.
Fairness ==
  /\ WF_vars(Step)
  /\ WF_vars(\E m \in Messages : Publish(m))
  /\ WF_vars(Unstall)
  /\ \A s \in Sockets :
       /\ WF_vars(BrokerRead(s))
       /\ WF_vars(\E n \in 1..AckLen : BrokerConnack(s, "accept", n))
       /\ WF_vars(AckRest(s))
       /\ WF_vars(BrokerClose(s))
       /\ WF_vars(KernelGivesUp(s))

FairSpec == Spec /\ Fairness

-----------------------------------------------------------------------------
\* The members of MqttPublisher, the locals of its functions and the sockets
\* stay within their ranges; in particular fd_ and fd name real sockets.
TypeOK ==
  /\ pc \in PCs
  /\ op \in {"connect", "publish", "disconnect"}
  /\ cont \in {"resolve", "fail", "void"}
  /\ fd_ \in Sockets \cup {NoFd} /\ fd \in Sockets \cup {NoFd}
  /\ ai \in 1..NAddr /\ off \in 0..2 /\ got \in 0..AckLen
  /\ msg \in Messages \cup {NoMsg}
  /\ res \in {"ok", "fail", "void"}
  /\ sock \in [Sockets -> Socket]
  /\ stalled \in BOOLEAN /\ faults \in 0..MaxFaults

\* Whatever short writes, rejected sessions and reconnections happen, what a
\* broker reads on a connection is a legal session: CONNECT, PUBLISHes once
\* the broker has accepted it, DISCONNECT and nothing after that, each packet
\* whole and none started before the one in front of it is complete.
StreamWellFormed == \A s \in Sockets : sock[s].stage # "broken"

\* connect() and disconnect() close every descriptor they do not keep: over
\* any number of reconnections only fd_ and the socket being dialled are open.
NoFdLeak == {s \in Sockets : sock[s].open} = {fd_, fd} \ {NoFd}

\* What a call returned agrees with fd_ until the next call: true leaves an
\* open descriptor whose CONNECT the broker accepted, false leaves fd_ = -1,
\* so that the next publish() dials again instead of writing to a connection
\* that has failed.
VerdictMatchesSession ==
  pc = "idle" =>
    IF res = "ok" THEN fd_ # NoFd /\ sock[fd_].open /\ sock[fd_].ack = "accept"
    ELSE fd_ = NoFd

\* Every call returns: no failure leaves connect(), publish() or disconnect()
\* waiting for ever, provided a broker that hangs is eventually restarted.
CallReturns == pc # "idle" ~> pc = "idle"

\* "Reconnects transparently if the link dropped": once the faults are over,
\* publish() gets through on a live link and keeps doing so.
Recovery ==
  <>[](pc = "idle" => res # "fail" /\ (fd_ # NoFd => sock[fd_].link = "up"))
=============================================================================
