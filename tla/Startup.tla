------------------------------ MODULE Startup ------------------------------
(***************************************************************************)
(* main() from its arguments to the first window: Config::load,            *)
(* Model::load, HidsService::setup, --check, the CONNECT packet, and one   *)
(* turn of run() through collectors, aggregator, model, event and packet.  *)
(*                                                                         *)
(* The files, the kernel's tracepoints and the debouncer's verdict are     *)
(* inputs. What the collectors should measure for the feature at position  *)
(* i is the number i, so that a value in the wrong place shows. A          *)
(* tracepoint the kernel has can be opened. Softmax only bounds the        *)
(* confidence from below, by one over the number of classes.               *)
(***************************************************************************)
EXTENDS Config, Model, FeatureRouting, Wire

CONSTANTS
  ModelFiles,   \* bound: contents model.bin may have; an absent file is empty
  Lacking,      \* bound: sets of features whose tracepoints the kernel lacks
  Confidences   \* bound: confidences, in units of 0.00001

\* Only a feature that is counted by a tracepoint can lack one.
ASSUME StartupAssumption ==
  /\ \A f \in ModelFiles : f.words \in Seq(Int) /\ f.rest \in 0..3
  /\ \A l \in Lacking : l \subseteq {i \in 1..Len(FEATURE_ORDER) :
                                       FEATURE_ORDER[i] \notin ProcKeys \cup ResourceKeys}

ASSUME ConfidenceAssumption == Confidences \subseteq Nat

VARIABLES
  step,         \* position in main()
  status,       \* how the process ended, "none" while it runs
  check,        \* --check was given
  bin,          \* model.bin
  lacking,      \* features whose tracepoints the kernel lacks
  m,            \* engine_.model()
  collectors_, missing_tracepoints_,
  printed,      \* what --check printed as unresolved
  connect,      \* the CONNECT packet
  raw, ev,      \* the window's vector and event
  sent          \* the packets published for the window

inputs  == <<bin, lacking>>
members == <<m, collectors_, missing_tracepoints_>>
window  == <<raw, ev, sent>>
vars    == <<configVars, step, status, check, inputs, members, printed, connect, window>>

None == [words |-> << >>, rest |-> 0]

Init ==
  /\ LoadInit
  /\ step = "args" /\ status = "none" /\ check = FALSE
  /\ bin = None /\ lacking = {}
  /\ m = Rejected /\ collectors_ = << >> /\ missing_tracepoints_ = {}
  /\ printed = {} /\ connect = << >>
  /\ raw = << >> /\ ev = << >> /\ sent = << >>

-----------------------------------------------------------------------------
(* main() *)

End(s) == step' = "ended" /\ status' = s

\* --help, an argument nobody knows, or a combination of the others.
Args ==
  /\ step = "args"
  /\ \/ \E s \in {"0", "2"} : End(s) /\ UNCHANGED check
     \/ step' = "config" /\ check' \in BOOLEAN /\ UNCHANGED status
  /\ UNCHANGED <<configVars, inputs, members, printed, connect, window>>

\* Outside the try block: an exception of load() aborts the process.
LoadConfig ==
  /\ step = "config"
  /\ Load
  /\ \/ phase' = "threw" /\ End("abort")
     \/ phase' = "done" /\ step' = "setup" /\ UNCHANGED status
     \/ phase' = "read" /\ UNCHANGED <<step, status>>
  /\ UNCHANGED <<check, inputs, members, printed, connect, window>>

\* The file loads, and model and metadata agree.
Accepted(mod) == mod.ok /\ mod.n_in = Len(FEATURE_ORDER) /\ mod.n_out = Len(CLASS_NAMES)

\* The tracepoint a feature's name denotes (external).
KernelPoint(n) ==
  IF n.sys = "" THEN <<"syscalls", "sys_enter_", n.event, "">> ELSE <<n.sys, "", n.event, "">>

Features == 1..Len(FEATURE_ORDER)

\* Events of tracepoint p in a window (external): none where it does not exist.
Events(p) ==
  LET here == {i \in Features \ lacking : /\ KernelPoint(FEATURE_ORDER[i]) = p
                                          /\ FEATURE_ORDER[i] \notin ProcKeys \cup ResourceKeys}
  IN  IF here = {} THEN 0 ELSE CHOOSE i \in here : TRUE

\* A collector is built for every kind of route that occurs.
Built(route) ==
  LET one(s) == IF route[s] # {} THEN <<s>> ELSE << >>
  IN  one("perf") \o one("disk") \o one("resource")

\* setup() throws: main() prints "fatal" and returns 1.
SetupFails ==
  /\ step = "setup"
  /\ \E f \in ModelFiles : bin' = f /\ ~Accepted(load(f))
  /\ End("1")
  /\ UNCHANGED <<configVars, check, lacking, members, printed, connect, window>>

Setup ==
  /\ step = "setup"
  /\ \E f \in ModelFiles, l \in Lacking :
       /\ Accepted(load(f))
       /\ bin' = f /\ lacking' = l /\ m' = load(f)
  /\ collectors_' = Built(routeFeatures(FEATURE_ORDER))
  /\ missing_tracepoints_' = {n \in routeFeatures(FEATURE_ORDER)["perf"] :
                                Events(Path(n))' = 0}
  /\ step' = IF check THEN "print" ELSE "connect"
  /\ UNCHANGED <<configVars, status, check, printed, connect, window>>

printRoutes ==
  /\ step = "print"
  /\ printed' = missing_tracepoints_
  /\ End("0")
  /\ UNCHANGED <<configVars, check, inputs, members, connect, window>>

-----------------------------------------------------------------------------
(* run() *)

\* setup()'s MqttPublisher::Options.
Options == [client_id |-> c["mqtt_client_id"], username |-> c["mqtt_username"],
            password |-> c["mqtt_password"], keepalive |-> c["mqtt_keepalive"]]

RunConnect ==
  /\ step = "connect"
  /\ connect' = ConnectPacket(Options)
  /\ step' = "sample"
  /\ UNCHANGED <<configVars, status, check, inputs, members, printed, window>>

PositionOf(n) == CHOOSE i \in Features : FEATURE_ORDER[i] = n

\* What a collector inserts into the map.
Sampled(kind) ==
  CASE kind = "perf"     -> [n \in routeFeatures(FEATURE_ORDER)["perf"] |-> Events(Path(n))]
    [] kind = "disk"     -> [n \in ProcKeys |-> PositionOf(n)]
    [] kind = "resource" -> [n \in ResourceKeys |-> PositionOf(n)]

\* Collectors write one after the other; the last one to write a name wins.
Merged ==
  LET writes(i)  == DOMAIN Sampled(collectors_[i])
      writers(n) == {i \in DOMAIN collectors_ : n \in writes(i)}
  IN  [n \in UNION {writes(i) : i \in DOMAIN collectors_} |->
         Sampled(collectors_[Max(writers(n))])[n]]

ClassName(i) == IF i < Len(CLASS_NAMES) THEN CLASS_NAMES[i + 1] ELSE "?"

Topic(kind) == c["mqtt_topic_prefix"] \o <<"/">> \o c["host"] \o <<kind>>

Packets(e) ==
  LET packet(kind) == PublishPacket(Topic(kind), toJson(e, c["include_features"]))
  IN  (IF c["publish_every_window"] THEN <<packet("/events")>> ELSE << >>)
        \o (IF e.alert THEN <<packet("/alerts")>> ELSE << >>)

Sample ==
  /\ step = "sample"
  /\ raw' = assemble(FEATURE_ORDER, Merged)
  /\ step' = "infer"
  /\ UNCHANGED <<configVars, status, check, inputs, members, printed, connect, ev, sent>>

\* A confidence of one: softmax divides by the sum of n_out terms, its own the largest.
Certain == 100000

Infer(confidence, alert) ==
  LET x == normalize(m, raw)
      cls == predict(m, x)
  IN  /\ step = "infer"
      /\ confidence * m.n_out >= Certain
      /\ ev' = [timestamp |-> <<"now">>, classIdx |-> cls, className |-> <<ClassName(cls)>>,
                confidence |-> confidence, host |-> c["host"], alert |-> alert,
                features |-> x]
      /\ step' = "publish"
      /\ UNCHANGED <<configVars, status, check, inputs, members, printed, connect, raw, sent>>

Publish ==
  /\ step = "publish"
  /\ sent' = Packets(ev)
  /\ step' = "running"
  /\ UNCHANGED <<configVars, status, check, inputs, members, printed, connect, raw, ev>>

Next ==
  \/ Args \/ LoadConfig \/ SetupFails \/ Setup \/ printRoutes \/ RunConnect \/ Sample \/ Publish
  \/ \E confidence \in Confidences, alert \in BOOLEAN : Infer(confidence, alert)

Spec == Init /\ [][Next]_vars

-----------------------------------------------------------------------------
\* The words of a model.bin with this header.
Words(w) == 4 + 2 * w[1] + w[2] * w[1] + w[2] + w[3] * w[2] + w[3] + w[4] * w[3] + w[4]

\* model.bin is whole, as long as its header says, and of the shape that the
\* compiled-in metadata has.
Sound(f) ==
  LET w == f.words IN
  /\ Len(w) >= 4 /\ \A i \in 1..4 : w[i] > 0
  /\ w[1] = Len(FEATURE_ORDER) /\ w[4] = Len(CLASS_NAMES)
  /\ Len(w) = Words(w) /\ f.rest = 0

\* "Throws std::runtime_error on unrecoverable setup errors"
\* (hids_service.hpp:23): the service, and --check, get past setup() exactly
\* with a sound model.bin, whatever the configuration file says; every other
\* file ends the process with status 1, and a number the configuration file
\* gets wrong ends it by abort, with no model loaded.
StartsIffSound ==
  /\ step \in {"print", "connect", "sample", "infer", "publish", "running"} => Sound(bin)
  /\ status = "1" => ~Sound(bin)
  /\ status = "abort" <=> phase = "threw"
  /\ m.ok => phase = "done" /\ Sound(bin)

\* "The collector MUST fill the input vector in exactly this order"
\* (model_meta.hpp:19): every feature of the vector is the reading its name
\* denotes, or 0 where the kernel has no such tracepoint, and --check prints
\* exactly the features that are 0 for this reason.
VectorInPlace ==
  /\ raw # << >> => \A i \in Features : raw[i] = IF i \in lacking THEN 0 ELSE i
  /\ status = "0" /\ m.ok => printed = {FEATURE_ORDER[i] : i \in lacking}

\* A string MQTT's two length bytes can describe.
Fits(s) == Len(s) < Base * Base

\* What a broker reads from a CONNECT body after the protocol name.
ReadsConnect(v, o) ==
  LET id == From(v, 5)
      user == AfterString(id)
      pass == IF Given(o.username) THEN AfterString(user) ELSE user
  IN  /\ v[2] = Fixed(<<Given(o.username), Given(o.password)>>)
      /\ Number(From(v, 3)) = o.keepalive
      /\ HasString(id) /\ StringIn(id) = o.client_id
      /\ Given(o.username) => HasString(user) /\ StringIn(user) = o.username
      /\ IF Given(o.password)
         THEN HasString(pass) /\ StringIn(pass) = o.password /\ AfterString(pass) = << >>
         ELSE pass = << >>

\* "Supports CONNECT with optional username/password" (mqtt_publisher.hpp:5):
\* a broker reads from the packet exactly the client id, the credentials and
\* the keepalive in effect, for every combination of settings, as long as
\* they fit their fields.
ConnectUnderstood ==
  connect # << >> /\ Options.keepalive \in 0..(Base * Base - 1)
    /\ Fits(Options.client_id) /\ Fits(Options.username) /\ Fits(Options.password)
  => /\ WellFramed(connect)
     /\ HasString(Body(connect)) /\ ReadsConnect(AfterString(Body(connect)), Options)

\* What a subscriber reads from the JSON text.
ReadsEvent(u, e) ==
  LET time == Unquote(From(u, 2))
      name == Unquote(From(time.rest, 4))
      host == Unquote(From(name.rest, 6))
  IN  /\ time.text = e.timestamp /\ time.rest[2] = Fixed(e.classIdx)
      /\ name.text = e.className /\ name.rest[4] = Fixed(e.alert)
      /\ name.rest[2][2] * 10 - e.confidence \in -5..5
      /\ host.mode = "past" /\ host.text = e.host
      /\ Text(host.rest) = IF c["include_features"] THEN <<"features">> \o e.features ELSE << >>

Legible(s) == \A i \in 1..Len(s) : s[i] # "control"

\* A subscriber of <prefix>/<host>/events or alerts gets back every field of
\* the event, with quotes, backslashes and tabs anywhere in the host's name, as
\* long as the topic fits its length field and the strings hold none of the
\* control characters that jsonEscape passes through (detection_event.hpp:38).
EventUnderstood ==
  \A i \in 1..Len(sent) :
    LET body == Body(sent[i]) IN
    Fits(Topic("/events")) /\ (\A s \in {ev.timestamp, ev.className, ev.host} : Legible(s)) =>
      /\ WellFramed(sent[i]) /\ HasString(body)
      /\ StringIn(body) \in {Topic("/events"), Topic("/alerts")}
      /\ ReadsEvent(AfterString(body), ev)
=============================================================================
