--------------------------- MODULE HidsServiceProofs ---------------------------
(***************************************************************************)
(* Proofs about the whole process: any configuration, any number of        *)
(* windows, of restarts and of faults.                                     *)
(*                                                                         *)
(* The service owns a Debouncer and an MqttPublisher, and what is proved   *)
(* of each alone carries over: a step of the service is a step of each, or *)
(* leaves it alone, or is a crash or a keepalive expiry, which the         *)
(* publisher's invariant also survives. DP and MP are the two components   *)
(* with their proofs.                                                      *)
(***************************************************************************)
EXTENDS HidsService, TLAPS

DP == INSTANCE DebouncerProofs
MP == INSTANCE MqttPublisherProofs WITH Messages <- Message

-----------------------------------------------------------------------------
(* The components of HidsService are the ones proved about *)

\* Their assumptions are those of the service.
LEMMA Assumptions == DP!DebouncerAssumption /\ MP!MqttAssumption
BY ComponentAssumption
DEF D!DebouncerAssumption, DP!DebouncerAssumption, M!MqttAssumption, MP!MqttAssumption

\* The Debouncer.
LEMMA SameDebouncer ==
  /\ D!Init => DP!Init
  /\ D!Restart => DP!Restart
  /\ \A cls \in Classes, conf \in Confidences : D!Update(cls, conf) => DP!Update(cls, conf)
  /\ D!TypeOK <=> DP!TypeOK
  /\ \A s, n : A!ConfirmsAt(s, n) <=> DP!Alerts!ConfirmsAt(s, n)
<1>1. D!Init => DP!Init
  BY DEF D!Init, DP!Init, D!NoClass, DP!NoClass
<1>2. D!Restart => DP!Restart
  BY DEF D!Restart, DP!Restart, D!NoClass, DP!NoClass
<1>3. ASSUME NEW cls, NEW conf, D!Update(cls, conf) PROVE DP!Update(cls, conf)
  BY <1>3
  DEF D!Update, DP!Update, D!Quiet, DP!Quiet, D!Suspect, DP!Suspect, D!IsQuiet, DP!IsQuiet,
      D!Return, DP!Return, D!Streak, DP!Streak, D!Armed, DP!Armed, D!Enough, DP!Enough,
      D!required_, DP!required_
<1>4. D!TypeOK <=> DP!TypeOK
  BY DEF D!TypeOK, DP!TypeOK, D!Window, DP!Window, D!Alerts!Window, DP!Alerts!Window,
         D!NoClass, DP!NoClass
<1>5. ASSUME NEW s, NEW n PROVE A!ConfirmsAt(s, n) <=> DP!Alerts!ConfirmsAt(s, n)
  BY DEF A!ConfirmsAt, DP!Alerts!ConfirmsAt, A!IsRun, DP!Alerts!IsRun,
         A!Qualifies, DP!Alerts!Qualifies, D!required_, DP!required_
<1> QED BY <1>1, <1>2, <1>3, <1>4, <1>5

\* The system calls of the MqttPublisher.
LEMMA SameStep == ASSUME M!Step PROVE MP!Step
BY DEF M!Step, MP!Step, M!Resolve, MP!Resolve, M!SocketFails, MP!SocketFails, M!DialOk, MP!DialOk,
       M!DialFails, MP!DialFails, M!SendFails, MP!SendFails, M!Recv, MP!Recv, M!RecvFails,
       MP!RecvFails, M!Close, MP!Close, M!OpenSocket, MP!OpenSocket, M!Send, MP!Send, M!Fault,
       MP!Fault, M!GiveUp, MP!GiveUp, M!EnterDisconnect, MP!EnterDisconnect, M!Closed, MP!Closed,
       M!NextAddress, MP!NextAddress, M!Hangup, MP!Hangup, M!Outgoing, MP!Outgoing, M!Queue,
       MP!Queue, M!Sent, MP!Sent, M!AllSent, MP!AllSent, M!Acknowledged, MP!Acknowledged,
       M!callVars, MP!callVars, M!network, MP!network, M!Unused, MP!Unused, M!NoFd, MP!NoFd,
       M!Sending, MP!Sending, M!Size, MP!Size, M!AckLen, MP!AckLen, M!NoPacket, MP!NoPacket

\* Its calls.
LEMMA SameCall ==
  ASSUME M!Connect \/ M!Disconnect \/ \E m \in Message : M!Publish(m) PROVE MP!Call
BY DEF MP!Call, M!Connect, MP!Connect, M!Disconnect, MP!Disconnect, M!Publish, MP!Publish,
       M!EnterDisconnect, MP!EnterDisconnect, M!NoFd, MP!NoFd, M!network, MP!network

\* The network and the broker.
LEMMA SameNetwork ==
  ASSUME \/ M!Unstall \/ M!NetFault
         \/ \E s \in Sockets : \/ M!AckRest(s) \/ M!BrokerClose(s) \/ M!KernelGivesUp(s)
                               \/ \E n \in 1..M!AckLen : M!BrokerConnack(s, "accept", n)
  PROVE  MP!Network
BY DEF MP!Network, MP!NetStep, MP!NetFault, M!NetFault, M!Stall, MP!Stall, M!Unstall, MP!Unstall,
       M!LinkDown, MP!LinkDown, M!LinkReset, MP!LinkReset, M!BrokerConnack, MP!BrokerConnack,
       M!AckRest, MP!AckRest, M!BrokerClose, MP!BrokerClose, M!KernelGivesUp, MP!KernelGivesUp,
       M!Dropped, MP!Dropped, M!Unused, MP!Unused, M!NoPacket, MP!NoPacket, M!AckLen, MP!AckLen,
       M!Fault, MP!Fault, M!client, MP!client

\* The broker's reading of a stream.
LEMMA SameRead ==
  ASSUME NEW s \in Sockets
  PROVE  (M!BrokerRead(s) => MP!BrokerRead(s)) /\ (M!Completes(s) <=> MP!Completes(s))
BY DEF M!BrokerRead, MP!BrokerRead, M!Begins, MP!Begins, M!Completes, MP!Completes, M!Size, MP!Size,
       M!NoPacket, MP!NoPacket, M!StageAfter, MP!StageAfter, M!client, MP!client

\* Its state.
LEMMA SameState ==
  /\ M!Init => MP!Init
  /\ M!TypeOK <=> MP!TypeOK
  /\ M!NoFd = MP!NoFd
  /\ \A s \in Sockets : M!Closed(s) = MP!Closed(s) /\ M!Dropped(s) = MP!Dropped(s)
<1>1. M!Init => MP!Init
  BY DEF M!Init, MP!Init, M!NoFd, MP!NoFd, M!Unused, MP!Unused, M!NoPacket, MP!NoPacket
<1>2. M!TypeOK <=> MP!TypeOK
  BY DEF M!TypeOK, MP!TypeOK, M!PCs, MP!PCs, M!Sending, MP!Sending, M!NoFd, MP!NoFd, M!AckLen,
         MP!AckLen, M!Socket, MP!Socket, M!Segment, MP!Segment, M!Packet, MP!Packet, M!NoPacket,
         MP!NoPacket
<1>3. \A s \in Sockets : M!Closed(s) = MP!Closed(s) /\ M!Dropped(s) = MP!Dropped(s)
  BY DEF M!Closed, MP!Closed, M!Dropped, MP!Dropped, M!Unused, MP!Unused, M!NoPacket, MP!NoPacket
<1> QED BY <1>1, <1>2, <1>3 DEF M!NoFd, MP!NoFd

-----------------------------------------------------------------------------
(* Detection *)

\* Whatever else happens, the service updates the Debouncer, builds a new one
\* or leaves it alone.
LEMMA DetectionStep == ASSUME [Next]_vars PROVE [DP!Next]_(DP!vars)
<1>1. CASE UNCHANGED debouncer
  BY <1>1 DEF debouncer, DP!vars
<1>2. CASE D!Restart
  BY <1>2, SameDebouncer DEF DP!Next
<1>3. ASSUME NEW cls \in Classes, NEW conf \in Confidences, D!Update(cls, conf)
      PROVE  [DP!Next]_(DP!vars)
  BY <1>3, SameDebouncer DEF DP!Next
<1>4. CASE UNCHANGED vars
  BY <1>1, <1>4 DEF vars
<1>5. CASE ServiceStep
  BY <1>1, <1>2, <1>3, <1>5
  DEF ServiceStep, Setup, RunConnect, Prime, PrimeSleep, LoopTest, Sample, PublishEvent,
      PublishAlert, Sleep, Shutdown, Exit
<1>6. CASE SetupFails \/ Signal \/ Kill \/ Start
  BY <1>1, <1>2, <1>6 DEF SetupFails, Signal, Kill, Start
<1>7. CASE ClientStep \/ NetworkStep
  BY <1>1, <1>7 DEF ClientStep, NetworkStep
<1>8. ASSUME NEW s \in Sockets, BrokerReads(s) \/ BrokerExpires(s) PROVE [DP!Next]_(DP!vars)
  BY <1>1, <1>8 DEF BrokerReads, BrokerExpires
<1> QED BY <1>4, <1>5, <1>6, <1>7, <1>8 DEF Next

\* The Debouncer's invariant holds in the service.
LEMMA Detection == Spec => []DP!IInv
<1>1. Init => DP!IInv
  BY Assumptions, SameDebouncer, DP!InitIInv DEF Init
<1>2. ASSUME DP!IInv, [Next]_vars PROVE DP!IInv'
  BY <1>2, Assumptions, DetectionStep, DP!NextIInv
<1> QED BY <1>1, <1>2, PTL DEF Spec

-----------------------------------------------------------------------------
(* Time *)

Positions ==
  {"setup", "connect", "prime", "primeSleep", "loop", "sample", "events", "alerts", "sleep",
   "disconnect", "stopping", "exited", "down"}

\* The part of TypeOK that belongs to neither component.
ServiceTypes ==
  /\ spc \in Positions
  /\ g_stop \in BOOLEAN /\ life \in 1..MaxLives
  /\ elapsed \in 0..(WindowSec + 1) /\ span \in 0..(WindowSec + 1)
  /\ idle \in [Sockets -> 0..Expired]

\* The windows of this process.
LogInv ==
  /\ Len(log) \in 0..MaxWindows
  /\ spc = "setup" => log = << >>
  /\ spc \in {"events", "alerts"} => Len(log) >= 1

\* The loop condition is only reached, and a sample only taken, when a window
\* has passed since the last one, unless the service is stopping.
SpanInv ==
  /\ SpanAtLeastWindow
  /\ spc = "sample" => elapsed >= WindowSec
  /\ spc = "loop" /\ ~g_stop => elapsed >= WindowSec

ServiceInv == ServiceTypes /\ LogInv /\ SpanInv

\* A keepalive period is a number of seconds.
LEMMA ExpiredType == Expired \in Nat
<1>1. PICK k : k = Keepalive
  OBVIOUS
<1>2. k \in Nat
  BY <1>1, ServiceAssumption
<1>3. PICK f : f = k % 65536
  OBVIOUS
<1>4. f \in Nat
  BY <1>2, <1>3
<1>5. (3 * f) \div 2 + 1 \in Nat
  BY <1>4
<1>6. KeepaliveField = f
  BY <1>1, <1>3 DEF KeepaliveField
<1>7. Expired = (3 * f) \div 2 + 1
  BY <1>6, Zenon DEF Expired
<1> QED BY <1>5, <1>7, Zenon

\* Time passes, and never back.
LEMMA PassTypes ==
  ASSUME ServiceTypes, NEW d \in Nat, Pass(d)
  PROVE  /\ elapsed' \in 0..(WindowSec + 1) /\ idle' \in [Sockets -> 0..Expired]
         /\ elapsed >= WindowSec \/ elapsed + d >= WindowSec => elapsed' >= WindowSec
<1>1. WindowSec \in Nat /\ elapsed \in 0..(WindowSec + 1)
  BY ServiceAssumption DEF ServiceTypes
<1>2. elapsed' \in 0..(WindowSec + 1) /\ (elapsed >= WindowSec \/ elapsed + d >= WindowSec => elapsed' >= WindowSec)
  BY <1>1 DEF Pass
<1>3. idle' \in [Sockets -> 0..Expired]
  <2>1. \A s \in Sockets : idle[s] \in 0..Expired
    BY DEF ServiceTypes
  <2>2. \A s \in Sockets : (IF sock'[s].link # "up" THEN 0
                            ELSE IF idle[s] + d < Expired THEN idle[s] + d ELSE Expired) \in 0..Expired
    BY <2>1, ExpiredType
  <2> QED BY <2>2 DEF Pass
<1> QED BY <1>2, <1>3

\* The constructor's state.
LEMMA InitService == Init => ServiceInv
<1> SUFFICES ASSUME Init PROVE ServiceInv
  OBVIOUS
<1>1. ServiceTypes
  <2>1. idle \in [Sockets -> 0..Expired]
    BY ExpiredType DEF Init
  <2>2. g_stop \in BOOLEAN
    BY DEF Init
  <2> QED BY <2>1, <2>2, ServiceAssumption DEF Init, ServiceTypes, Positions
<1>2. log = << >> /\ spc = "setup" /\ span = WindowSec
  BY DEF Init, D!Init
<1> QED BY <1>1, <1>2, ServiceAssumption DEF ServiceInv, LogInv, SpanInv, SpanAtLeastWindow

\* Every step preserves the positions, the clocks and the length of the log.
LEMMA NextService == ASSUME DP!IInv, ServiceInv, [Next]_vars PROVE ServiceInv'
<1>1. /\ ServiceTypes /\ LogInv /\ SpanInv /\ log \in Seq(DP!Window)
      /\ WindowSec \in Nat \ {0} /\ MaxWindows \in Nat /\ MaxLives \in Nat
  BY ServiceAssumption DEF ServiceInv, DP!IInv, DP!TypeOK
<1> USE DEF SpanAtLeastWindow
<1>2. ASSUME UNCHANGED <<log, g_stop, life, clock>>, spc' \in Positions,
             spc' # spc => spc' \notin {"setup", "events", "loop", "sample"}
                           /\ (spc' = "alerts" => spc = "events")
      PROVE  ServiceInv'
  BY <1>1, <1>2 DEF ServiceInv, ServiceTypes, LogInv, SpanInv, clock
<1>3. ASSUME UNCHANGED <<log, spc, g_stop, life, span>>, NEW d \in Nat, Pass(d)
      PROVE  ServiceInv'
  <2>1. /\ elapsed' \in 0..(WindowSec + 1) /\ idle' \in [Sockets -> 0..Expired]
        /\ elapsed >= WindowSec => elapsed' >= WindowSec
    BY <1>1, <1>3, PassTypes
  <2> QED BY <1>1, <1>3, <2>1 DEF ServiceInv, ServiceTypes, LogInv, SpanInv
<1>4. CASE UNCHANGED vars
  BY <1>1, <1>2, <1>4 DEF vars, debouncer, ServiceTypes
<1>5. CASE Setup
  <2>1. log' = << >> /\ spc' = "connect"
    BY <1>5 DEF Setup, D!Restart
  <2> QED BY <1>1, <1>5, <2>1 DEF Setup, ServiceInv, ServiceTypes, LogInv, SpanInv, clock, Positions
<1>6. CASE SetupFails \/ RunConnect \/ PublishEvent \/ PublishAlert \/ Shutdown \/ Exit
  <2>1. UNCHANGED <<log, g_stop, life, clock>>
    BY <1>6 DEF SetupFails, RunConnect, PublishEvent, PublishAlert, Shutdown, Exit, debouncer
  <2>2. \/ spc' \in {"down", "prime", "sleep", "stopping", "exited"}
        \/ spc = "events" /\ spc' = "alerts"
    BY <1>6 DEF SetupFails, RunConnect, PublishEvent, PublishAlert, Shutdown, Exit
  <2> QED BY <1>2, <2>1, <2>2 DEF Positions
<1>7. CASE Prime
  BY <1>1, <1>7 DEF Prime, ServiceInv, ServiceTypes, LogInv, SpanInv, debouncer, Positions
<1>8. ASSUME NEW d \in Nat, Pass(d), spc' = "loop", UNCHANGED <<debouncer, g_stop, life, span>>,
             g_stop \/ elapsed + d >= WindowSec \/ elapsed >= WindowSec
      PROVE  ServiceInv'
  <2>1. /\ elapsed' \in 0..(WindowSec + 1) /\ idle' \in [Sockets -> 0..Expired]
        /\ g_stop \/ elapsed' >= WindowSec
    BY <1>1, <1>8, PassTypes
  <2> QED BY <1>1, <1>8, <2>1 DEF ServiceInv, ServiceTypes, LogInv, SpanInv, debouncer, Positions
<1>9. CASE PrimeSleep
  <2>1. elapsed + WindowSec >= WindowSec
    BY <1>1 DEF ServiceTypes
  <2> QED BY <1>1, <1>8, <1>9, <2>1 DEF PrimeSleep, PrimeSec
<1>10. CASE Sleep
  <2>1. elapsed \in Nat
    BY <1>1 DEF ServiceTypes
  <2>2. CASE g_stop /\ Pass(0)
    BY <1>8, <1>10, <2>2 DEF Sleep
  <2>3. CASE ~g_stop /\ Pass(IF elapsed < WindowSec THEN WindowSec - elapsed ELSE 0)
    <3> PICK d : d = IF elapsed < WindowSec THEN WindowSec - elapsed ELSE 0
      OBVIOUS
    <3>1. d \in Nat /\ elapsed + d >= WindowSec
      BY <1>1, <2>1
    <3> QED BY <1>8, <1>10, <2>3, <3>1 DEF Sleep
  <2> QED BY <1>10, <2>2, <2>3 DEF Sleep
<1>11. CASE LoopTest
  BY <1>1, <1>11 DEF LoopTest, Stopping, ServiceInv, ServiceTypes, LogInv, SpanInv, clock, debouncer, Positions
<1>12. ASSUME NEW cls \in Classes, NEW conf \in Confidences, Sample(cls, conf) PROVE ServiceInv'
  <2>1. PICK w : log' = Append(log, w) /\ Len(log) < MaxWindows
    BY <1>12 DEF Sample, D!Update, D!Quiet, D!Suspect, D!Return
  <2>2. Len(log') = Len(log) + 1 /\ Len(log) \in Nat
    BY <1>1, <2>1
  <2>3. LogInv'
    BY <1>1, <1>12, <2>1, <2>2 DEF Sample, LogInv
  <2>4. ServiceTypes' /\ SpanInv'
    BY <1>1, <1>12 DEF Sample, ServiceTypes, SpanInv, Positions
  <2> QED BY <2>3, <2>4 DEF ServiceInv
<1>13. CASE Signal
  BY <1>1, <1>13 DEF Signal, ServiceInv, ServiceTypes, LogInv, SpanInv, clock, debouncer, Positions
<1>14. CASE Kill
  BY <1>2, <1>14 DEF Kill, debouncer, Positions
<1>15. CASE Start
  <2>1. log' = << >> /\ spc' = "setup" /\ life' \in 1..MaxLives
    BY <1>1, <1>15 DEF Start, D!Restart, ServiceTypes
  <2>2. LogInv' /\ SpanInv'
    BY <1>1, <1>15, <2>1 DEF Start, LogInv, SpanInv
  <2>3. g_stop' \in BOOLEAN
    BY <1>15 DEF Start
  <2>4. span' \in 0..(WindowSec + 1) /\ elapsed' \in 0..(WindowSec + 1)
    BY <1>1, <1>15 DEF Start
  <2>5. ServiceTypes'
    BY <1>1, <1>15, <2>1, <2>3, <2>4 DEF Start, ServiceTypes, Positions
  <2> QED BY <2>2, <2>5 DEF ServiceInv
<1>16. CASE ClientStep
  <2>1. PICK d \in Durations : Pass(d)
    BY <1>16 DEF ClientStep
  <2>2. d \in Nat
    BY ServiceAssumption DEF Durations
  <2> QED BY <1>3, <1>16, <2>1, <2>2 DEF ClientStep, debouncer
<1>17. CASE NetworkStep
  BY <1>1, <1>2, <1>17 DEF NetworkStep, debouncer, ServiceTypes
<1>18. ASSUME NEW s \in Sockets, BrokerReads(s) PROVE ServiceInv'
  <2>1. idle' \in [Sockets -> 0..Expired]
    BY <1>1, <1>18, ExpiredType DEF BrokerReads, ServiceTypes
  <2> QED BY <1>1, <1>18, <2>1 DEF BrokerReads, ServiceInv, ServiceTypes, LogInv, SpanInv, debouncer
<1>19. ASSUME NEW s \in Sockets, BrokerExpires(s) PROVE ServiceInv'
  BY <1>1, <1>2, <1>19 DEF BrokerExpires, debouncer, ServiceTypes
<1> QED BY <1>4, <1>5, <1>6, <1>7, <1>9, <1>10, <1>11, <1>12, <1>13, <1>14, <1>15, <1>16, <1>17,
           <1>18, <1>19 DEF Next, ServiceStep

-----------------------------------------------------------------------------
(* The publisher inside the service *)

\* The messages run() publishes.
LEMMA AboutType ==
  ASSUME ServiceInv, spc \in {"events", "alerts"}, NEW topic \in {"events", "alerts"}
  PROVE  About(topic) \in Message
<1>1. Len(log) \in 1..MaxWindows /\ life \in 1..MaxLives
  BY ServiceAssumption DEF ServiceInv, LogInv, ServiceTypes
<1> QED BY <1>1 DEF About, Message

\* What a step of the service is to the publisher: nothing, a call, a system
\* call, a step of the network, an expiry or a crash.
LEMMA PublisherStep ==
  ASSUME ServiceInv, [Next]_vars
  PROVE  \/ UNCHANGED <<client, network>>
         \/ MP!Call
         \/ MP!Step
         \/ MP!Network
         \/ \E s \in Sockets : BrokerExpires(s)
         \/ Kill
<1>1. CASE UNCHANGED vars
  BY <1>1 DEF vars
<1>2. CASE Setup \/ Prime \/ PrimeSleep \/ LoopTest \/ Sleep \/ Exit \/ SetupFails \/ Signal \/ Start
  BY <1>2 DEF Setup, Prime, PrimeSleep, LoopTest, Sleep, Exit, SetupFails, Signal, Start
<1>3. ASSUME NEW cls \in Classes, NEW conf \in Confidences, Sample(cls, conf)
      PROVE  UNCHANGED <<client, network>>
  BY <1>3 DEF Sample
<1>4. CASE RunConnect \/ Shutdown
  BY <1>4, SameCall DEF RunConnect, Shutdown
<1>5. CASE PublishEvent
  BY <1>5, AboutType, SameCall DEF PublishEvent, PublishIf
<1>6. CASE PublishAlert
  BY <1>6, AboutType, SameCall DEF PublishAlert, PublishIf
<1>7. CASE ClientStep
  BY <1>7, SameStep DEF ClientStep
<1>8. CASE NetworkStep
  BY <1>8, SameNetwork DEF NetworkStep
<1>9. ASSUME NEW s \in Sockets, BrokerReads(s) PROVE MP!Network
  BY <1>9, SameRead DEF BrokerReads, MP!Network, MP!NetStep
<1> QED BY <1>1, <1>2, <1>3, <1>4, <1>5, <1>6, <1>7, <1>8, <1>9 DEF Next, ServiceStep

\* The publisher's invariant holds inside the service.
LEMMA NextPublisher == ASSUME ServiceInv, MP!SInv, [Next]_vars PROVE MP!SInv'
<1>1. CASE UNCHANGED <<client, network>> \/ MP!Call \/ MP!Step \/ MP!Network
  <2>1. [MP!Next]_(MP!vars)
    BY <1>1 DEF MP!Next, MP!vars, MP!client, MP!network, client, network
  <2> QED BY <2>1, Assumptions, MP!NextSInv
<1>2. ASSUME NEW s \in Sockets, BrokerExpires(s) PROVE MP!SInv'
  <2>1. /\ sock[s].link = "up" /\ sock' = [sock EXCEPT ![s] = MP!Dropped(s)]
        /\ UNCHANGED <<MP!client, stalled, faults>>
    BY <1>2, SameState DEF BrokerExpires, client, MP!client
  <2> QED BY <2>1, Assumptions, MP!DropSInv
<1>3. CASE Kill
  <2>1. /\ pc' = "idle" /\ op' = "disconnect" /\ cont' = "void"
        /\ fd_' = MP!NoFd /\ fd' = MP!NoFd /\ ai' = 1 /\ off' = 0 /\ got' = 0
        /\ msg' = NoMsg /\ res' = "void" /\ UNCHANGED <<stalled, faults>>
    BY <1>3, SameState DEF Kill
  <2>2. sock' = [s \in Sockets |-> IF sock[s].open THEN MP!Closed(s) ELSE sock[s]]
    BY <1>3, SameState DEF Kill
  <2> QED BY <2>1, <2>2, Assumptions, MP!DeathSInv
<1> QED BY <1>1, <1>2, <1>3, PublisherStep

-----------------------------------------------------------------------------
(* What subscribers see *)

\* run() has come as far as publishing m: m is not about a later process, a
\* later window or a later topic.
Reached(m) ==
  \/ m.life < life
  \/ /\ m.life = life
     /\ \/ m.win < Len(log)
        \/ m.win = Len(log) /\ spc # "events" /\ (spc = "alerts" => m.topic = "events")

\* An alert of this process is about a window that raised it.
Raised(m) ==
  m.topic = "alerts" /\ m.life = life => m.win \in 1..Len(log) /\ log[m.win].alert

Good(m) == m \in Message /\ Reached(m) /\ Raised(m)

\* Every message delivered, queued or being written.
GoodInv ==
  /\ delivered \in Seq(Message)
  /\ \A i \in 1..Len(delivered) : Good(delivered[i])
  /\ \A s \in Sockets, i \in Nat : MP!Due(s, i) => Good(MP!MsgAt(s, i))
  /\ MP!Pending => Good(msg)

\* m is newer than everything delivered.
Newest(m) == \A i \in 1..Len(delivered) : Before(delivered[i], m)

\* What is queued is in order and newer than what has been delivered; what is
\* being written is newer than both.
OrderInv ==
  /\ DeliveredInOrder
  /\ \A s \in Sockets, j \in Nat : MP!Due(s, j) =>
       /\ Newest(MP!MsgAt(s, j))
       /\ \A i \in Nat : i < j /\ MP!Due(s, i) => Before(MP!MsgAt(s, i), MP!MsgAt(s, j))
       /\ MP!Pending => Before(MP!MsgAt(s, j), msg)
  /\ MP!Pending => Newest(msg)

HInv == DP!IInv /\ ServiceInv /\ MP!SInv /\ GoodInv /\ OrderInv

\* The service moves on: what it had reached stays reached, and what had
\* raised an alert still has.
LEMMA GoodKept == ASSUME DP!IInv, ServiceInv, [Next]_vars, NEW m, Good(m) PROVE Good(m)'
<1>1. /\ m \in Message /\ Reached(m) /\ Raised(m) /\ log \in Seq(DP!Window) /\ Len(log) \in Nat
      /\ life \in 1..MaxLives /\ m.life \in 1..MaxLives /\ m.win \in 1..MaxWindows
      /\ MaxLives \in Nat /\ MaxWindows \in Nat
  BY ServiceAssumption
  DEF ServiceInv, ServiceTypes, DP!IInv, DP!TypeOK, Good, Message
<1>2. ASSUME UNCHANGED <<log, life>>,
             spc' # spc => spc' # "events" /\ (spc' = "alerts" => spc = "events")
      PROVE  Good(m)'
  BY <1>1, <1>2 DEF Good, Reached, Raised
<1>3. CASE UNCHANGED vars
  BY <1>2, <1>3 DEF vars, debouncer
<1>4. CASE Setup
  <2>1. log = << >> /\ log' = << >> /\ spc' = "connect" /\ life' = life
    BY <1>4 DEF Setup, D!Restart, ServiceInv, LogInv
  <2> QED BY <1>2, <2>1
<1>5. CASE SetupFails \/ RunConnect \/ Prime \/ PrimeSleep \/ LoopTest \/ PublishEvent \/ PublishAlert
           \/ Sleep \/ Shutdown \/ Exit \/ Signal \/ Kill
  BY <1>2, <1>5
  DEF SetupFails, RunConnect, Prime, PrimeSleep, LoopTest, PublishEvent, PublishAlert, Sleep, Shutdown,
      Exit, Signal, Kill, debouncer
<1>6. CASE ClientStep \/ NetworkStep
  BY <1>2, <1>6 DEF ClientStep, NetworkStep, debouncer
<1>7. ASSUME NEW s \in Sockets, BrokerReads(s) \/ BrokerExpires(s) PROVE Good(m)'
  BY <1>2, <1>7 DEF BrokerReads, BrokerExpires, debouncer
<1>8. ASSUME NEW cls \in Classes, NEW conf \in Confidences, Sample(cls, conf) PROVE Good(m)'
  <2>1. PICK w : log' = Append(log, w)
    BY <1>8 DEF Sample, D!Update, D!Quiet, D!Suspect, D!Return
  <2>2. Len(log') = Len(log) + 1 /\ \A i \in 1..Len(log) : log'[i] = log[i]
    BY <1>1, <2>1
  <2>3. life' = life /\ spc' = "events" /\ spc = "sample"
    BY <1>8 DEF Sample
  <2>4. Reached(m)'
    BY <1>1, <2>2, <2>3 DEF Reached
  <2>5. Raised(m)'
    BY <1>1, <2>2, <2>3 DEF Raised
  <2> QED BY <1>1, <2>4, <2>5 DEF Good
<1>9. CASE Start
  <2>1. life' = life + 1
    BY <1>9 DEF Start
  <2>2. m.life <= life
    BY <1>1 DEF Reached
  <2>3. Reached(m)' /\ Raised(m)'
    BY <1>1, <2>1, <2>2 DEF Reached, Raised
  <2> QED BY <1>1, <2>3 DEF Good
<1> QED BY <1>3, <1>4, <1>5, <1>6, <1>7, <1>8, <1>9 DEF Next, ServiceStep

\* run() publishes the message about its last window on the topic it has come
\* to.
Asks(topic) ==
  /\ spc = topic /\ (topic = "alerts" => AlertDue)
  /\ spc' = IF topic = "events" THEN "alerts" ELSE "sleep"
  /\ msg' = About(topic)
  /\ UNCHANGED <<debouncer, life, sock, delivered>>

\* What a step of the service does to the messages on their way: it brings
\* none, asks for one, writes or delivers.
LEMMA MessageStep ==
  ASSUME ServiceInv, MP!SInv, [Next]_vars
  PROVE  \/ MP!NoMoreDue /\ delivered' = delivered
         \/ \E topic \in {"events", "alerts"} : Asks(topic)
         \/ (\E k \in 1..2 : MP!Send(k)) /\ delivered' = delivered
         \/ \E s \in Sockets : BrokerReads(s)
<1>1. ASSUME UNCHANGED <<client, network>> PROVE MP!NoMoreDue
  BY <1>1 DEF client, network, MP!NoMoreDue, MP!Kept, MP!Pending
<1>2. ASSUME UNCHANGED sock, op' # "publish" PROVE MP!NoMoreDue
  BY <1>2 DEF MP!NoMoreDue, MP!Kept, MP!Pending
<1>3. CASE UNCHANGED vars
  BY <1>1, <1>3 DEF vars
<1>4. CASE Setup \/ Prime \/ PrimeSleep \/ LoopTest \/ Sleep \/ Exit \/ SetupFails \/ Signal \/ Start
  BY <1>1, <1>4 DEF Setup, Prime, PrimeSleep, LoopTest, Sleep, Exit, SetupFails, Signal, Start
<1>5. ASSUME NEW cls \in Classes, NEW conf \in Confidences, Sample(cls, conf)
      PROVE  MP!NoMoreDue /\ delivered' = delivered
  BY <1>1, <1>5 DEF Sample
<1>6. CASE RunConnect
  BY <1>2, <1>6 DEF RunConnect, M!Connect, M!network
<1>7. CASE Shutdown
  BY <1>2, <1>7 DEF Shutdown, M!Disconnect, M!network
<1>8. CASE PublishEvent
  <2>1. CASE UNCHANGED <<client, network>>
    BY <1>1, <1>8, <2>1 DEF PublishEvent
  <2>2. CASE M!Publish(About("events"))
    BY <1>8, <2>2 DEF PublishEvent, M!Publish, M!network, Asks
  <2> QED BY <1>8, <2>1, <2>2 DEF PublishEvent, PublishIf
<1>9. CASE PublishAlert
  <2>1. CASE UNCHANGED <<client, network>>
    BY <1>1, <1>9, <2>1 DEF PublishAlert
  <2>2. CASE AlertDue /\ M!Publish(About("alerts"))
    BY <1>9, <2>2 DEF PublishAlert, M!Publish, M!network, Asks
  <2> QED BY <1>9, <2>1, <2>2 DEF PublishAlert, PublishIf
<1>10. CASE ClientStep
  <2>1. MP!Step /\ delivered' = delivered
    BY <1>10, SameStep DEF ClientStep
  <2> QED BY <2>1, Assumptions, MP!StepNoMoreDue
<1>11. CASE NetworkStep
  <2>1. MP!Network /\ delivered' = delivered
    BY <1>11, SameNetwork DEF NetworkStep
  <2> QED BY <2>1, Assumptions, MP!NetworkNoMoreDue
<1>12. sock \in [Sockets -> MP!Socket]
  BY DEF MP!SInv, MP!IInv, MP!TC, MP!TypeOK
<1>13. ASSUME NEW s \in Sockets, BrokerExpires(s) PROVE MP!NoMoreDue /\ delivered' = delivered
  <2>1. sock' = [sock EXCEPT ![s] = MP!Dropped(s)] /\ UNCHANGED <<client, delivered>>
    BY <1>13, SameState DEF BrokerExpires
  <2>2. MP!Dropped(s).link # "up"
    BY <1>12 DEF MP!Dropped, MP!Unused, MP!Socket
  <2>3. \A t \in Sockets : MP!Kept(t)
    BY <1>12, <2>1, <2>2 DEF MP!Kept
  <2> QED BY <2>1, <2>3 DEF MP!NoMoreDue, MP!Pending, client
<1>14. CASE Kill
  <2>1. op' = "disconnect" /\ delivered' = delivered
    BY <1>14 DEF Kill
  <2>2. ASSUME NEW t \in Sockets PROVE MP!Kept(t)
    <3>1. sock'[t] = IF sock[t].open THEN MP!Closed(t) ELSE sock[t]
      BY <1>14, SameState DEF Kill
    <3>2. MP!Closed(t).out = << >> \/ (sock[t].link = "up" /\ MP!Closed(t).out = sock[t].out)
      BY <1>12 DEF MP!Closed, MP!Unused, MP!Socket
    <3> QED BY <3>1, <3>2 DEF MP!Kept
  <2> QED BY <2>1, <2>2 DEF MP!NoMoreDue, MP!Pending
<1> QED BY <1>3, <1>4, <1>5, <1>6, <1>7, <1>8, <1>9, <1>10, <1>11, <1>13, <1>14 DEF Next, ServiceStep

\* The message run() asks for is about its last window, and an alert only if
\* that window raised one.
LEMMA AboutGood ==
  ASSUME ServiceInv, NEW topic \in {"events", "alerts"}, Asks(topic), NEW m, m = About(topic)
  PROVE  Good(m)'
<1>1. m \in Message /\ m.topic = topic /\ m.life = life /\ m.win = Len(log)
  BY AboutType DEF About, Asks
<1>2. Len(log) \in 1..MaxWindows /\ (topic = "alerts" => log[Len(log)].alert)
  BY ServiceAssumption DEF ServiceInv, LogInv, Asks, AlertDue
<1>3. log' = log /\ life' = life /\ spc' = IF topic = "events" THEN "alerts" ELSE "sleep"
  BY DEF Asks, debouncer
<1>4. Reached(m)'
  BY <1>1, <1>3 DEF Reached
<1>5. Raised(m)'
  BY <1>1, <1>2, <1>3 DEF Raised
<1> QED BY <1>1, <1>4, <1>5 DEF Good

\* It is newer than everything run() had published before.
LEMMA AboutNewest ==
  ASSUME ServiceInv, NEW topic \in {"events", "alerts"}, Asks(topic), NEW n, Good(n)
  PROVE  Before(n, About(topic))
<1>1. n \in Message /\ Reached(n) /\ spc = topic
  BY DEF Good, Asks
<1>2. About(topic).topic = topic /\ About(topic).life = life /\ About(topic).win = Len(log)
  BY DEF About
<1> QED BY <1>1, <1>2 DEF Reached, Before, Rank, Message

\* What the broker's reading does to the messages on their way.
LEMMA ReadStep ==
  ASSUME MP!SInv, NEW s \in Sockets, BrokerReads(s)
  PROVE  /\ \A i \in Nat : MP!Due(s, i)' => MP!Due(s, i + 1) /\ MP!MsgAt(s, i)' = MP!MsgAt(s, i + 1)
         /\ \A t \in Sockets : t # s => sock'[t] = sock[t]
         /\ delivered' = IF MP!Due(s, 1) THEN Append(delivered, MP!MsgAt(s, 1)) ELSE delivered
         /\ UNCHANGED client
<1>1. MP!BrokerRead(s) /\ (M!Completes(s) <=> MP!Completes(s))
  BY SameRead DEF BrokerReads
<1>2. UNCHANGED client
  BY DEF BrokerReads, M!BrokerRead, M!client, client
<1> QED BY <1>1, <1>2, Assumptions, MP!ReadDue DEF BrokerReads

\* Everything on its way after a step was on its way before it, except the
\* message run() has just asked for.
LEMMA NextGood == ASSUME HInv, MP!SInv', [Next]_vars PROVE GoodInv'
<1>1. DP!IInv /\ ServiceInv /\ MP!SInv /\ GoodInv
  BY DEF HInv
<1>2. \A m : Good(m) => Good(m)'
  BY <1>1, GoodKept
<1>3. MP!TypeOK /\ MP!TypeOK'
  BY <1>1 DEF MP!SInv, MP!IInv, MP!TC
<1>4. ASSUME delivered' = delivered
      PROVE  delivered' \in Seq(Message) /\ \A i \in 1..Len(delivered') : Good(delivered[i])'
  BY <1>1, <1>2, <1>4 DEF GoodInv
<1>5. ASSUME MP!NoMoreDue, delivered' = delivered PROVE GoodInv'
  <2>1. ASSUME NEW s \in Sockets, NEW i \in Nat, MP!Due(s, i)' PROVE Good(MP!MsgAt(s, i))'
    <3>1. PICK d \in {0, 1} : MP!Due(s, i + d) /\ MP!MsgAt(s, i)' = MP!MsgAt(s, i + d)
      BY <1>3, <1>5, <2>1, Assumptions, MP!KeptDue DEF MP!NoMoreDue
    <3>2. PICK n : n = MP!MsgAt(s, i)'
      OBVIOUS
    <3>3. Good(n)
      BY <1>1, <3>1, <3>2 DEF GoodInv
    <3>4. Good(n)'
      BY <1>2, <3>3
    <3> QED BY <3>2, <3>4
  <2>2. MP!Pending' => Good(msg)'
    BY <1>1, <1>2, <1>5 DEF GoodInv, MP!NoMoreDue
  <2> QED BY <1>4, <1>5, <2>1, <2>2 DEF GoodInv
<1>6. ASSUME NEW topic \in {"events", "alerts"}, Asks(topic) PROVE GoodInv'
  <2>1. PICK m : m = About(topic)
    OBVIOUS
  <2>2. Good(m)'
    BY <1>1, <1>6, <2>1, AboutGood
  <2>3. msg' = m /\ sock' = sock /\ delivered' = delivered
    BY <1>6, <2>1 DEF Asks
  <2>4. ASSUME NEW s \in Sockets, NEW i \in Nat, MP!Due(s, i)' PROVE Good(MP!MsgAt(s, i))'
    <3>1. MP!Due(s, i) /\ MP!MsgAt(s, i)' = MP!MsgAt(s, i)
      BY <2>3, <2>4 DEF MP!Due, MP!MsgAt
    <3>2. PICK n : n = MP!MsgAt(s, i)'
      OBVIOUS
    <3>3. Good(n)'
      BY <1>1, <1>2, <3>1, <3>2 DEF GoodInv
    <3> QED BY <3>2, <3>3
  <2> QED BY <1>4, <2>2, <2>3, <2>4 DEF GoodInv
<1>7. ASSUME NEW k \in 1..2, MP!Send(k), delivered' = delivered PROVE GoodInv'
  <2>1. MP!Pending' => MP!Pending /\ msg' = msg
    BY <1>1, <1>7, Assumptions, MP!SendDue
  <2>2. ASSUME NEW s \in Sockets, NEW i \in Nat, MP!Due(s, i)' PROVE Good(MP!MsgAt(s, i))'
    <3>1. PICK n : n = MP!MsgAt(s, i)'
      OBVIOUS
    <3>2. \/ MP!Due(s, i) /\ n = MP!MsgAt(s, i)
          \/ n = msg /\ MP!Pending
      BY <1>1, <1>7, <2>2, <3>1, Assumptions, MP!SendDue
    <3>3. Good(n)'
      BY <1>1, <1>2, <3>2 DEF GoodInv
    <3> QED BY <3>1, <3>3
  <2> QED BY <1>1, <1>2, <1>4, <1>7, <2>1, <2>2 DEF GoodInv
<1>8. ASSUME NEW s \in Sockets, BrokerReads(s) PROVE GoodInv'
  <2>1. /\ \A i \in Nat : MP!Due(s, i)' => MP!Due(s, i + 1) /\ MP!MsgAt(s, i)' = MP!MsgAt(s, i + 1)
        /\ \A t \in Sockets : t # s => sock'[t] = sock[t]
        /\ delivered' = IF MP!Due(s, 1) THEN Append(delivered, MP!MsgAt(s, 1)) ELSE delivered
        /\ UNCHANGED client
    BY <1>1, <1>8, ReadStep
  <2>2. ASSUME NEW t \in Sockets, NEW i \in Nat, MP!Due(t, i)' PROVE Good(MP!MsgAt(t, i))'
    <3>1. PICK n : n = MP!MsgAt(t, i)'
      OBVIOUS
    <3>2. \E j \in Nat : MP!Due(t, j) /\ n = MP!MsgAt(t, j)
      <4>1. CASE t = s
        BY <2>1, <2>2, <3>1, <4>1
      <4>2. CASE t # s
        BY <2>1, <2>2, <3>1, <4>2 DEF MP!Due, MP!MsgAt
      <4> QED BY <4>1, <4>2
    <3>3. Good(n)'
      BY <1>1, <1>2, <3>2 DEF GoodInv
    <3> QED BY <3>1, <3>3
  <2>3. MP!Pending' => Good(msg)'
    BY <1>1, <1>2, <2>1 DEF GoodInv, MP!Pending, client
  <2>4. delivered' \in Seq(Message) /\ \A i \in 1..Len(delivered') : Good(delivered[i])'
    <3>1. CASE ~MP!Due(s, 1)
      BY <1>4, <2>1, <3>1
    <3>2. CASE MP!Due(s, 1)
      <4>1. PICK m : m = MP!MsgAt(s, 1)
        OBVIOUS
      <4>2. Good(m) /\ m \in Message /\ delivered \in Seq(Message) /\ delivered' = Append(delivered, m)
        BY <1>1, <2>1, <3>2, <4>1 DEF GoodInv, Good
      <4>3. /\ delivered' \in Seq(Message)
            /\ \A i \in 1..Len(delivered') : delivered'[i] = m \/ \E j \in 1..Len(delivered) : delivered'[i] = delivered[j]
        BY <4>2
      <4>4. ASSUME NEW i \in 1..Len(delivered') PROVE Good(delivered[i])'
        <5>1. PICK n : n = delivered'[i]
          OBVIOUS
        <5>2. Good(n)
          BY <1>1, <4>2, <4>3, <5>1 DEF GoodInv
        <5> QED BY <1>2, <5>1, <5>2
      <4> QED BY <4>3, <4>4
    <3> QED BY <3>1, <3>2
  <2> QED BY <2>2, <2>3, <2>4 DEF GoodInv
<1> QED BY <1>1, <1>5, <1>6, <1>7, <1>8, MessageStep

\* Nothing overtakes anything: messages leave a queue in the order they came
\* to it, only one connection has any, and the one being written is newer
\* than all of them.
LEMMA NextOrder == ASSUME HInv, MP!SInv', [Next]_vars PROVE OrderInv'
<1>1. DP!IInv /\ ServiceInv /\ MP!SInv /\ GoodInv /\ OrderInv
  BY DEF HInv
<1>2. MP!TypeOK /\ MP!TypeOK'
  BY <1>1 DEF MP!SInv, MP!IInv, MP!TC
<1>3. ASSUME delivered' = delivered
      PROVE  DeliveredInOrder' /\ \A m : Newest(m) => Newest(m)'
  BY <1>1, <1>3 DEF OrderInv, DeliveredInOrder, Newest
<1>4. ASSUME MP!NoMoreDue, delivered' = delivered PROVE OrderInv'
  <2>1. ASSUME NEW s \in Sockets, NEW j \in Nat, MP!Due(s, j)'
        PROVE  /\ Newest(MP!MsgAt(s, j))'
               /\ \A i \in Nat : i < j /\ MP!Due(s, i)' => Before(MP!MsgAt(s, i)', MP!MsgAt(s, j)')
               /\ MP!Pending' => Before(MP!MsgAt(s, j)', msg')
    <3>1. PICK d \in {0, 1} : \A i \in Nat : MP!Due(s, i)' => MP!Due(s, i + d) /\ MP!MsgAt(s, i)' = MP!MsgAt(s, i + d)
      BY <1>2, <1>4, Assumptions, MP!KeptDue DEF MP!NoMoreDue
    <3>2. PICK n : n = MP!MsgAt(s, j)'
      OBVIOUS
    <3>3. MP!Due(s, j + d) /\ n = MP!MsgAt(s, j + d)
      BY <2>1, <3>1, <3>2
    <3>4. Newest(n) /\ (MP!Pending => Before(n, msg))
      BY <1>1, <3>3 DEF OrderInv
    <3>5. Newest(n)'
      BY <1>3, <1>4, <3>4
    <3>6. ASSUME NEW i \in Nat, i < j, MP!Due(s, i)' PROVE Before(MP!MsgAt(s, i)', n)
      <4>1. i + d < j + d /\ MP!Due(s, i + d) /\ MP!MsgAt(s, i)' = MP!MsgAt(s, i + d)
        BY <3>1, <3>6
      <4> QED BY <1>1, <3>3, <4>1 DEF OrderInv
    <3> QED BY <1>4, <3>2, <3>4, <3>5, <3>6 DEF MP!NoMoreDue
  <2>2. MP!Pending' => Newest(msg)'
    BY <1>1, <1>3, <1>4 DEF OrderInv, MP!NoMoreDue
  <2> QED BY <1>3, <1>4, <2>1, <2>2 DEF OrderInv
<1>5. ASSUME NEW topic \in {"events", "alerts"}, Asks(topic) PROVE OrderInv'
  <2>1. PICK m : m = About(topic)
    OBVIOUS
  <2>2. msg' = m /\ sock' = sock /\ delivered' = delivered
    BY <1>5, <2>1 DEF Asks
  <2>3. \A n : Good(n) => Before(n, m)
    BY <1>1, <1>5, <2>1, AboutNewest
  <2>4. Newest(m)'
    <3>1. Newest(m)
      BY <1>1, <2>3 DEF Newest, GoodInv
    <3> QED BY <1>3, <2>2, <3>1
  <2>5. ASSUME NEW s \in Sockets, NEW j \in Nat
        PROVE  (MP!Due(s, j)' <=> MP!Due(s, j)) /\ MP!MsgAt(s, j)' = MP!MsgAt(s, j)
    BY <2>2 DEF MP!Due, MP!MsgAt
  <2>6. ASSUME NEW s \in Sockets, NEW j \in Nat, MP!Due(s, j)'
        PROVE  /\ Newest(MP!MsgAt(s, j))'
               /\ \A i \in Nat : i < j /\ MP!Due(s, i)' => Before(MP!MsgAt(s, i)', MP!MsgAt(s, j)')
               /\ Before(MP!MsgAt(s, j)', m)
    <3>1. PICK n : n = MP!MsgAt(s, j)'
      OBVIOUS
    <3>2. MP!Due(s, j) /\ n = MP!MsgAt(s, j) /\ Good(n)
      BY <1>1, <2>5, <2>6, <3>1 DEF GoodInv
    <3>3. Newest(n)
      BY <1>1, <3>2 DEF OrderInv
    <3>4. Newest(n)'
      BY <1>3, <2>2, <3>3
    <3>5. ASSUME NEW i \in Nat, i < j, MP!Due(s, i)' PROVE Before(MP!MsgAt(s, i)', n)
      BY <1>1, <2>5, <3>2, <3>5 DEF OrderInv
    <3> QED BY <2>3, <3>1, <3>2, <3>4, <3>5
  <2> QED BY <1>3, <2>2, <2>4, <2>6 DEF OrderInv
<1>6. ASSUME NEW k \in 1..2, MP!Send(k), delivered' = delivered PROVE OrderInv'
  <2>1. MP!Pending' => MP!Pending /\ msg' = msg
    BY <1>1, <1>6, Assumptions, MP!SendDue
  <2>2. ASSUME NEW s \in Sockets, NEW i \in Nat, MP!Due(s, i)'
        PROVE  \/ MP!Due(s, i) /\ MP!MsgAt(s, i)' = MP!MsgAt(s, i)
               \/ i = Len(sock'[s].out) /\ MP!MsgAt(s, i)' = msg /\ MP!Pending /\ ~MP!Pending'
    BY <1>1, <1>6, <2>2, Assumptions, MP!SendDue
  <2>3. ASSUME NEW s \in Sockets, NEW j \in Nat, MP!Due(s, j)'
        PROVE  /\ Newest(MP!MsgAt(s, j))'
               /\ \A i \in Nat : i < j /\ MP!Due(s, i)' => Before(MP!MsgAt(s, i)', MP!MsgAt(s, j)')
               /\ MP!Pending' => Before(MP!MsgAt(s, j)', msg')
    <3>1. PICK n : n = MP!MsgAt(s, j)'
      OBVIOUS
    <3>2. \/ MP!Due(s, j) /\ n = MP!MsgAt(s, j)
          \/ n = msg /\ MP!Pending /\ ~MP!Pending'
      BY <2>2, <2>3, <3>1
    <3>3. Newest(n) /\ (MP!Pending' => Before(n, msg))
      BY <1>1, <2>1, <3>2 DEF OrderInv
    <3>4. Newest(n)'
      BY <1>3, <1>6, <3>3
    <3>5. ASSUME NEW i \in Nat, i < j, MP!Due(s, i)' PROVE Before(MP!MsgAt(s, i)', n)
      <4>1. j \in 1..Len(sock'[s].out) /\ sock'[s] \in MP!Socket
        BY <1>2, <2>3 DEF MP!Due, MP!TypeOK
      <4>2. Len(sock'[s].out) \in Nat
        BY <4>1 DEF MP!Socket
      <4>3. MP!Due(s, i) /\ MP!MsgAt(s, i)' = MP!MsgAt(s, i)
        BY <2>2, <3>5, <4>1, <4>2
      <4> QED BY <1>1, <3>2, <3>5, <4>3 DEF OrderInv
    <3> QED BY <2>1, <3>1, <3>3, <3>4, <3>5
  <2>4. MP!Pending' => Newest(msg)'
    BY <1>1, <1>3, <1>6, <2>1 DEF OrderInv
  <2> QED BY <1>3, <1>6, <2>3, <2>4 DEF OrderInv
<1>7. ASSUME NEW s \in Sockets, BrokerReads(s) PROVE OrderInv'
  <2>1. MP!NoMoreDue
    <3>1. MP!Network
      BY <1>7, SameRead DEF BrokerReads, MP!Network, MP!NetStep
    <3> QED BY <1>1, <3>1, Assumptions, MP!NetworkNoMoreDue
  <2>2. CASE ~MP!Due(s, 1)
    BY <1>1, <1>4, <1>7, <2>1, <2>2, ReadStep
  <2>3. CASE MP!Due(s, 1)
    <3>1. PICK m : m = MP!MsgAt(s, 1)
      OBVIOUS
    <3>2. m \in Message /\ Newest(m) /\ delivered \in Seq(Message) /\ delivered' = Append(delivered, m)
      BY <1>1, <1>7, <2>3, <3>1, ReadStep DEF GoodInv, Good, OrderInv
    <3>3. /\ Len(delivered') = Len(delivered) + 1 /\ Len(delivered) \in Nat
          /\ delivered'[Len(delivered) + 1] = m /\ \A i \in 1..Len(delivered) : delivered'[i] = delivered[i]
      BY <3>2
    <3>4. ASSUME NEW n, Newest(n), Before(m, n) PROVE Newest(n)'
      BY <3>3, <3>4 DEF Newest
    <3>5. DeliveredInOrder'
      <4>1. ASSUME NEW i \in 1..Len(delivered) PROVE Before(delivered'[i], delivered'[i + 1])
        <5>1. CASE i = Len(delivered)
          BY <3>2, <3>3, <5>1 DEF Newest
        <5>2. CASE i # Len(delivered)
          <6>1. i \in 1..(Len(delivered) - 1) /\ i + 1 \in 1..Len(delivered)
            BY <3>3, <5>2
          <6> QED BY <1>1, <3>3, <6>1 DEF OrderInv, DeliveredInOrder
        <5> QED BY <5>1, <5>2
      <4>2. Len(delivered') - 1 = Len(delivered)
        BY <3>3
      <4> QED BY <4>1, <4>2 DEF DeliveredInOrder
    <3>6. ASSUME NEW t \in Sockets, NEW j \in Nat, MP!Due(t, j)'
          PROVE  t = s /\ j >= 1
      <4>1. j >= 1
        BY <3>6 DEF MP!Due
      <4>2. ASSUME t # s PROVE FALSE
        <5>1. MP!Due(t, j)
          BY <1>1, <1>7, <3>6, <4>2, ReadStep DEF MP!Due
        <5>2. MP!Live(s) /\ MP!Live(t)
          BY <1>1, <2>3, <5>1, Assumptions, MP!DueIsLive
        <5> QED BY <1>1, <4>2, <5>2 DEF MP!SInv, MP!OneSession
      <4> QED BY <4>1, <4>2
    <3>7. ASSUME NEW t \in Sockets, NEW j \in Nat, MP!Due(t, j)'
          PROVE  /\ Newest(MP!MsgAt(t, j))'
                 /\ \A i \in Nat : i < j /\ MP!Due(t, i)' => Before(MP!MsgAt(t, i)', MP!MsgAt(t, j)')
                 /\ MP!Pending' => Before(MP!MsgAt(t, j)', msg')
      <4>1. PICK n : n = MP!MsgAt(s, j)'
        OBVIOUS
      <4>2. t = s /\ j >= 1
        BY <3>6, <3>7
      <4>3. MP!Due(s, j + 1) /\ n = MP!MsgAt(s, j + 1)
        BY <1>1, <1>7, <3>7, <4>1, <4>2, ReadStep
      <4>4. 1 < j + 1 /\ 1 \in Nat /\ j + 1 \in Nat
        BY <4>2
      <4>5. Newest(n) /\ Before(m, n) /\ (MP!Pending => Before(n, msg))
        BY <1>1, <2>3, <3>1, <4>3, <4>4 DEF OrderInv
      <4>6. Newest(n)'
        BY <3>4, <4>5
      <4>7. ASSUME NEW i \in Nat, i < j, MP!Due(s, i)' PROVE Before(MP!MsgAt(s, i)', n)
        <5>1. i + 1 < j + 1 /\ i + 1 \in Nat /\ MP!Due(s, i + 1) /\ MP!MsgAt(s, i)' = MP!MsgAt(s, i + 1)
          BY <1>1, <1>7, <4>7, ReadStep
        <5> QED BY <1>1, <4>3, <4>4, <5>1 DEF OrderInv
      <4> QED BY <2>1, <4>1, <4>2, <4>5, <4>6, <4>7 DEF MP!NoMoreDue
    <3>8. MP!Pending' => Newest(msg)'
      <4>1. ASSUME MP!Pending' PROVE Newest(msg)'
        <5>1. PICK n : n = msg
          OBVIOUS
        <5>2. MP!Pending /\ msg' = n
          BY <2>1, <4>1, <5>1 DEF MP!NoMoreDue
        <5>3. Newest(n) /\ Before(m, n)
          BY <1>1, <2>3, <3>1, <5>1, <5>2 DEF OrderInv
        <5>4. Newest(n)'
          BY <3>4, <5>3
        <5> QED BY <5>2, <5>4
      <4> QED BY <4>1
    <3> QED BY <3>5, <3>7, <3>8 DEF OrderInv
  <2> QED BY <2>2, <2>3
<1> QED BY <1>1, <1>4, <1>5, <1>6, <1>7, MessageStep

\* The initial states: nothing connected, nothing delivered.
LEMMA InitHInv == Init => HInv
<1> SUFFICES ASSUME Init PROVE HInv
  OBVIOUS
<1>1. DP!IInv /\ ServiceInv
  BY InitService, Assumptions, SameDebouncer, DP!InitIInv DEF Init
<1>2. MP!Init
  BY SameState DEF Init
<1>3. MP!SInv
  BY <1>2, Assumptions, MP!InitIInv, MP!InitStream DEF MP!SInv
<1>4. ~MP!Pending /\ \A s \in Sockets, i \in Nat : ~MP!Due(s, i)
  BY <1>2 DEF MP!Init, MP!Pending, MP!Due, MP!Unused
<1>5. delivered = << >>
  BY DEF Init
<1>6. GoodInv
  BY <1>4, <1>5 DEF GoodInv
<1>7. OrderInv
  BY <1>4, <1>5 DEF OrderInv, DeliveredInOrder
<1> QED BY <1>1, <1>3, <1>6, <1>7 DEF HInv

\* HInv is inductive.
LEMMA Invariance == Spec => []HInv
<1>1. ASSUME HInv, [Next]_vars PROVE HInv'
  <2>1. DP!IInv'
    BY <1>1, Assumptions, DetectionStep, DP!NextIInv DEF HInv
  <2>2. ServiceInv' /\ MP!SInv'
    BY <1>1, NextService, NextPublisher DEF HInv
  <2>3. GoodInv' /\ OrderInv'
    BY <1>1, <2>2, NextGood, NextOrder
  <2> QED BY <2>1, <2>2, <2>3 DEF HInv
<1> QED BY <1>1, InitHInv, PTL DEF Spec

-----------------------------------------------------------------------------
\* Type correctness of the whole process: its position, its clocks, both
\* components and the history of deliveries.
THEOREM TypeCorrect == Spec => []TypeOK
<1>1. ASSUME HInv PROVE TypeOK
  <2>1. D!TypeOK /\ M!TypeOK
    BY <1>1, SameDebouncer, SameState DEF HInv, DP!IInv, MP!SInv, MP!IInv, MP!TC
  <2> QED BY <1>1, <2>1 DEF HInv, ServiceInv, ServiceTypes, Positions, GoodInv, TypeOK
<1> QED BY <1>1, Invariance, PTL

\* What subscribers see is in order and without duplicates, for any number of
\* reconnections, takeovers, crashes, restarts and windows: a publish() that
\* was cut off leaves nothing behind that the broker could read later.
THEOREM InOrder == Spec => []DeliveredInOrder
<1>1. HInv => DeliveredInOrder
  BY DEF HInv, OrderInv
<1> QED BY <1>1, Invariance, PTL

\* A subscriber never sees an alert of this process that the debouncer's
\* specification does not call for, however late the broker reads it.
THEOREM Justified == Spec => []AlertsJustified
<1>1. ASSUME HInv PROVE AlertsJustified
  <2>1. /\ delivered \in Seq(Message) /\ log \in Seq(DP!Window)
        /\ \A i \in 1..Len(delivered) : Raised(delivered[i])
    BY <1>1 DEF HInv, GoodInv, Good, DP!IInv, DP!TypeOK
  <2>2. DOMAIN delivered = 1..Len(delivered) /\ DOMAIN log = 1..Len(log)
    BY <2>1
  <2>3. \A i \in DOMAIN log : log[i].alert <=> A!ConfirmsAt(log, i)
    BY <1>1, SameDebouncer DEF HInv, DP!IInv, DP!VerdictsInv
  <2> QED BY <2>1, <2>2, <2>3 DEF AlertsJustified, Raised
<1> QED BY <1>1, Invariance, PTL

\* No sample covers less than a window: not the first one, taken after the
\* baseline's sleep, and not one taken after a slow publish() or a restart,
\* whenever a signal comes.
THEOREM FullWindows == Spec => []SpanAtLeastWindow
<1>1. HInv => SpanAtLeastWindow
  BY DEF HInv, ServiceInv, SpanInv
<1> QED BY <1>1, Invariance, PTL
================================================================================
