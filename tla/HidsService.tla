----------------------------- MODULE HidsService -----------------------------
(***************************************************************************)
(* The process of main.cpp: HidsService::setup() and run(), with the       *)
(* Debouncer and the MqttPublisher it owns, its signals, its crashes and   *)
(* restarts by systemd, and the passing of time.                           *)
(*                                                                         *)
(* There is one thread. spc is the position in main() and run(); a service *)
(* step waits for the publisher's call in progress (pc = "idle").          *)
(* Collectors, aggregation and inference are one nondeterministic          *)
(* prediction per window. A message is named by its topic, the process     *)
(* that sent it and the window it is about. Time is counted in seconds and *)
(* passes in sleeps and in blocking calls.                                 *)
(***************************************************************************)
EXTENDS Integers, Sequences, FiniteSets

CONSTANTS
  Classes, Normal, Confidences, MinConf, Required,  \* of the Debouncer
  Sockets, NAddr, SndBuf, MaxFaults,                \* of the MqttPublisher
  PublishEveryWindow,  \* cfg.publish_every_window
  WindowSec,           \* cfg.window_sec
  Keepalive,           \* cfg.mqtt_keepalive
  DialSec,             \* time the kernel spends on a SYN nobody answers
  AckSec,              \* Options::timeout_ms
  MaxWindows,          \* bound: windows per process
  MaxLives             \* bound: processes

ASSUME ServiceAssumption ==
  /\ PublishEveryWindow \in BOOLEAN
  /\ WindowSec \in Nat \ {0} /\ Keepalive \in Nat
  /\ DialSec \in Nat /\ AckSec \in Nat
  /\ MaxWindows \in Nat /\ MaxLives \in Nat \ {0}

VARIABLES
  cur_, streak_, armed_, log,                               \* Debouncer
  pc, op, cont, fd_, fd, ai, off, got, msg, res,            \* MqttPublisher
  sock, stalled, faults,                                    \* network, broker
  spc,          \* position in main() and run()
  g_stop,       \* set by the signal handler
  life,         \* number of the process
  elapsed,      \* seconds since the last sample
  span,         \* seconds between the last two samples
  idle,         \* seconds since the broker last read from a socket
  delivered     \* history: messages the broker has read, in order

debouncer == <<cur_, streak_, armed_, log>>
client    == <<pc, op, cont, fd_, fd, ai, off, got, msg, res>>
network   == <<sock, stalled, faults>>
clock     == <<elapsed, span, idle>>
vars      == <<debouncer, client, network, spc, g_stop, life, clock, delivered>>

Message == [topic : {"events", "alerts"}, life : 1..MaxLives, win : 1..MaxWindows]
NoMsg   == [topic |-> "none", life |-> 0, win |-> 0]

D == INSTANCE Debouncer
M == INSTANCE MqttPublisher WITH Messages <- Message
A == INSTANCE AlertSpec WITH Req <- D!required_

ASSUME ComponentAssumption == D!DebouncerAssumption /\ M!MqttAssumption

Init ==
  /\ D!Init /\ M!Init
  /\ spc = "setup" /\ g_stop = FALSE /\ life = 1
  /\ elapsed = 0 /\ span = WindowSec /\ idle = [s \in Sockets |-> 0]
  /\ delivered = << >>

-----------------------------------------------------------------------------
(* Time *)

\* The keepalive a broker reads is the low 16 bits of cfg.mqtt_keepalive;
\* zero switches it off. It drops a session after one and a half times that.
KeepaliveField == Keepalive % 65536
Expired == (3 * KeepaliveField) \div 2 + 1

\* Clocks stop where a larger value makes no difference.
Pass(d) ==
  /\ elapsed' = IF elapsed + d <= WindowSec THEN elapsed + d ELSE WindowSec + 1
  /\ idle' = [s \in Sockets |->
       IF sock'[s].link # "up" THEN 0
       ELSE IF idle[s] + d < Expired THEN idle[s] + d ELSE Expired]

\* A broker that is up reads what it is sent well within a window.
Drained == stalled \/ \A s \in Sockets : sock[s].link = "up" => sock[s].out = << >>

-----------------------------------------------------------------------------
(* main() and run() *)

\* setup(): a new Debouncer and a new MqttPublisher; then the handlers.
Setup ==
  /\ spc = "setup"
  /\ spc' = "connect"
  /\ D!Restart
  /\ UNCHANGED <<client, network, g_stop, life, clock, delivered>>

\* setup() throws: main() returns 1 and systemd starts the service again.
SetupFails ==
  /\ spc = "setup" /\ life < MaxLives
  /\ spc' = "down"
  /\ UNCHANGED <<debouncer, client, network, g_stop, life, clock, delivered>>

RunConnect ==
  /\ spc = "connect"
  /\ M!Connect
  /\ spc' = "prime"
  /\ UNCHANGED <<debouncer, g_stop, life, clock, delivered>>

\* The first sample of every collector is discarded.
Prime ==
  /\ spc = "prime" /\ pc = "idle"
  /\ spc' = "primeSleep"
  /\ elapsed' = 0
  /\ UNCHANGED <<debouncer, client, network, g_stop, life, span, idle, delivered>>

\* Mutant of PrimeSec: the first window starts right after the baseline.
PrimeSecNone == 0

PrimeSec == WindowSec

\* sleep_for(window): a signal does not shorten it.
PrimeSleep ==
  /\ spc = "primeSleep" /\ Drained
  /\ spc' = "loop"
  /\ UNCHANGED <<debouncer, client, network, g_stop, life, span, delivered>>
  /\ Pass(PrimeSec)

\* Mutant of Stopping: `while (true)'.
StoppingNever == FALSE

Stopping == g_stop

\* while (!g_stop.load())
LoopTest ==
  /\ spc = "loop"
  /\ \/ Stopping /\ spc' = "disconnect"
     \/ ~Stopping /\ Len(log) < MaxWindows /\ spc' = "sample"
  /\ UNCHANGED <<debouncer, client, network, g_stop, life, clock, delivered>>

\* Collect, assemble, infer, debounce.
Sample(cls, conf) ==
  /\ spc = "sample"
  /\ D!Update(cls, conf)
  /\ spc' = "events"
  /\ span' = elapsed /\ elapsed' = 0
  /\ UNCHANGED <<client, network, g_stop, life, idle, delivered>>

\* Mutant of About: eventsTopic() and alertsTopic() are exchanged.
AboutSwapped(topic) ==
  [topic |-> IF topic = "events" THEN "alerts" ELSE "events", life |-> life, win |-> Len(log)]

About(topic) == [topic |-> topic, life |-> life, win |-> Len(log)]

PublishIf(condition, topic) ==
  \/ condition /\ M!Publish(About(topic))
  \/ ~condition /\ UNCHANGED <<client, network>>

PublishEvent ==
  /\ spc = "events" /\ pc = "idle"
  /\ PublishIf(PublishEveryWindow, "events")
  /\ spc' = "alerts"
  /\ UNCHANGED <<debouncer, g_stop, life, clock, delivered>>

\* Mutant of AlertDue: ev.alert is not looked at.
AlertAlways == TRUE

AlertDue == log[Len(log)].alert

PublishAlert ==
  /\ spc = "alerts" /\ pc = "idle"
  /\ PublishIf(AlertDue, "alerts")
  /\ spc' = "sleep"
  /\ UNCHANGED <<debouncer, g_stop, life, clock, delivered>>

\* Sleep the remainder of the window, waking early if asked to stop. When
\* publishing took longer than the window there is no remainder.
Sleep ==
  /\ spc = "sleep" /\ pc = "idle"
  /\ spc' = "loop"
  /\ UNCHANGED <<debouncer, client, network, g_stop, life, span, delivered>>
  /\ \/ g_stop /\ Pass(0)
     \/ ~g_stop /\ Drained /\ Pass(IF elapsed < WindowSec THEN WindowSec - elapsed ELSE 0)

Shutdown ==
  /\ spc = "disconnect"
  /\ M!Disconnect
  /\ spc' = "stopping"
  /\ UNCHANGED <<debouncer, g_stop, life, clock, delivered>>

Exit ==
  /\ spc = "stopping" /\ pc = "idle"
  /\ spc' = "exited"
  /\ UNCHANGED <<debouncer, client, network, g_stop, life, clock, delivered>>

-----------------------------------------------------------------------------
(* The process from outside *)

\* SIGINT or SIGTERM; until the handlers are installed it ends the process.
Signal ==
  /\ spc \notin {"down", "exited"} /\ ~g_stop
  /\ \/ spc = "setup" /\ spc' = "exited" /\ UNCHANGED g_stop
     \/ spc # "setup" /\ g_stop' = TRUE /\ UNCHANGED spc
  /\ UNCHANGED <<debouncer, client, network, life, clock, delivered>>

\* SIGKILL, the out-of-memory killer, a power cut: memory is lost, the
\* kernel closes the sockets and still sends what they hold.
Kill ==
  /\ spc \notin {"setup", "down", "exited"} /\ life < MaxLives
  /\ spc' = "down"
  /\ pc' = "idle" /\ op' = "disconnect" /\ cont' = "void"
  /\ fd_' = M!NoFd /\ fd' = M!NoFd /\ ai' = 1 /\ off' = 0 /\ got' = 0
  /\ msg' = NoMsg /\ res' = "void"
  /\ sock' = [s \in Sockets |-> IF sock[s].open THEN M!Closed(s) ELSE sock[s]]
  /\ UNCHANGED <<debouncer, stalled, faults, g_stop, life, clock, delivered>>

\* systemd (Restart=on-failure), or an operator after a clean exit.
Start ==
  /\ spc \in {"down", "exited"} /\ life < MaxLives
  /\ spc' = "setup"
  /\ life' = life + 1
  /\ g_stop' = FALSE
  /\ elapsed' = 0 /\ span' = WindowSec
  /\ D!Restart
  /\ UNCHANGED <<client, network, idle, delivered>>

-----------------------------------------------------------------------------
(* The call in progress, the network and the broker *)

\* How long the current system call of the publisher may block.
Durations ==
  CASE pc = "connecting" -> {0, DialSec}
    [] pc = "recvAck"    -> {0, AckSec}
    [] OTHER             -> {0}

ClientStep ==
  /\ M!Step
  /\ \E d \in Durations : Pass(d)
  /\ UNCHANGED <<debouncer, spc, g_stop, life, span, delivered>>

\* Reading the last piece of a PUBLISH delivers it to the subscribers.
BrokerReads(s) ==
  LET pkt == Head(sock[s].out).pkt IN
  /\ M!BrokerRead(s)
  /\ delivered' = IF /\ M!Completes(s) /\ pkt.kind = "PUBLISH"
                     /\ sock[s].stage = "session"
                  THEN Append(delivered, pkt.msg) ELSE delivered
  /\ idle' = [idle EXCEPT ![s] = 0]
  /\ UNCHANGED <<debouncer, spc, g_stop, life, elapsed, span>>

\* MQTT 3.1.1: a session silent for 1.5 keepalives is closed by the broker.
BrokerExpires(s) ==
  /\ KeepaliveField # 0 /\ ~stalled
  /\ sock[s].link = "up" /\ sock[s].stage = "session" /\ idle[s] = Expired
  /\ sock' = [sock EXCEPT ![s] = M!Dropped(s)]
  /\ UNCHANGED <<debouncer, client, stalled, faults, spc, g_stop, life, clock, delivered>>

NetworkStep ==
  /\ \/ M!Unstall \/ M!NetFault
     \/ \E s \in Sockets :
          \/ M!AckRest(s) \/ M!BrokerClose(s) \/ M!KernelGivesUp(s)
          \/ \E n \in 1..M!AckLen : M!BrokerConnack(s, "accept", n)
  /\ UNCHANGED <<debouncer, spc, g_stop, life, clock, delivered>>

ServiceStep ==
  \/ Setup \/ RunConnect \/ Prime \/ PrimeSleep \/ LoopTest
  \/ \E cls \in Classes, conf \in Confidences : Sample(cls, conf)
  \/ PublishEvent \/ PublishAlert \/ Sleep \/ Shutdown \/ Exit

Next ==
  \/ ServiceStep \/ SetupFails \/ Signal \/ Kill \/ Start
  \/ ClientStep \/ NetworkStep
  \/ \E s \in Sockets : BrokerReads(s) \/ BrokerExpires(s)

Spec == Init /\ [][Next]_vars

\* The thread is scheduled, a broker that is up reads and answers, and the
\* kernel gives up on data nobody acknowledges.
Scheduling ==
  /\ WF_vars(ServiceStep)
  /\ WF_vars(ClientStep)
  /\ \A s \in Sockets :
       /\ WF_vars(BrokerReads(s))
       /\ WF_vars(NetworkStep /\ \E n \in 1..M!AckLen : M!BrokerConnack(s, "accept", n))
       /\ WF_vars(NetworkStep /\ M!AckRest(s))
       /\ WF_vars(NetworkStep /\ M!BrokerClose(s))
       /\ WF_vars(NetworkStep /\ M!KernelGivesUp(s))

\* A broker that hangs may stay so.
HungSpec == Spec /\ Scheduling

\* A broker that hangs is restarted in the end.
FairSpec == HungSpec /\ WF_vars(NetworkStep /\ M!Unstall)

-----------------------------------------------------------------------------
\* The state of the service and of its two components stays within its
\* ranges over any interleaving of windows, calls, signals and crashes.
TypeOK ==
  /\ D!TypeOK /\ M!TypeOK
  /\ spc \in {"setup", "connect", "prime", "primeSleep", "loop", "sample", "events",
              "alerts", "sleep", "disconnect", "stopping", "exited", "down"}
  /\ g_stop \in BOOLEAN /\ life \in 1..MaxLives
  /\ elapsed \in 0..(WindowSec + 1) /\ span \in 0..(WindowSec + 1)
  /\ idle \in [Sockets -> 0..Expired]
  /\ delivered \in Seq(Message)

Rank(m) == IF m.topic = "events" THEN 0 ELSE 1

Before(m, n) ==
  \/ m.life < n.life
  \/ m.life = n.life /\ m.win < n.win
  \/ m.life = n.life /\ m.win = n.win /\ Rank(m) < Rank(n)

\* What subscribers see is in order and without duplicates, over failures,
\* reconnections, crashes and restarts: every message is newer than the one
\* before it, a window's event precedes its alert, and no message of a dead
\* process or of an abandoned connection turns up after its successor's.
DeliveredInOrder ==
  \A i \in 1..(Len(delivered) - 1) : Before(delivered[i], delivered[i + 1])

\* Every alert a subscriber has seen from this process is about a window
\* that completed an episode.
AlertsJustified ==
  \A i \in DOMAIN delivered :
    delivered[i].topic = "alerts" /\ delivered[i].life = life
      => delivered[i].win \in DOMAIN log /\ A!ConfirmsAt(log, delivered[i].win)

\* A sample never covers less than a window, the first one included.
SpanAtLeastWindow == span >= WindowSec

\* m has reached the broker, or all of it is queued on a live connection.
Safe(m) ==
  \/ \E i \in DOMAIN delivered : delivered[i] = m
  \/ \E s \in Sockets : sock[s].link = "up" /\ \E k \in DOMAIN sock[s].out :
       sock[s].out[k] = [pkt |-> [kind |-> "PUBLISH", msg |-> m], part |-> 2]

\* run() has finished publishing window i.
Published(i) == i < Len(log) \/ (spc \in {"sleep", "loop", "disconnect"} /\ pc = "idle")

\* "Reconnects transparently if the link dropped. Returns false if the broker
\* is currently unreachable" (mqtt_publisher.hpp:41-42): where the broker is
\* reachable, every confirmed alert run() has published gets there.
AlertDelivered ==
  \A i \in DOMAIN log : log[i].alert /\ Published(i) =>
    Safe([topic |-> "alerts", life |-> life, win |-> i])


\* "telemetry loss must never stop detection": after a
\* prediction run() always comes back to its loop condition.
WindowCompletes == spc = "events" ~> spc \in {"loop", "down"}

\* A stop request ends the process, from whatever point it arrives at.
StopLeadsToExit == g_stop ~> (spc = "exited" \/ ~g_stop)
=============================================================================
