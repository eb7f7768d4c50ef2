----------------------------- MODULE StartupProofs -----------------------------
(***************************************************************************)
(* Proofs about main() up to the first window: Config::load does what the  *)
(* file says, for any set of lines, any order of them and any length of    *)
(* the file, and setup() accepts exactly the model files that are sound,   *)
(* whatever their dimensions.                                              *)
(*                                                                         *)
(* AsRead: while the file is being read the Config already holds, for      *)
(* every key, what the lines so far say about it. Resolved adds that a key *)
(* that occurs has a last setting, which is what a further line replaces.  *)
(* MainInv: what has been loaded when main() reaches each of its steps.    *)
(* PlaceInv: which collectors setup() has built and which features their   *)
(* tracepoints lack; each feature has one collector that writes its name.  *)
(* ConnectInv: the settings are strings, and the packet is the one they    *)
(* make; EventInv: the event is that of the window, and so are the packets *)
(* sent. With them, and with what the reader of a packet makes of lengths, *)
(* strings and JSON, the broker and a subscriber get back what was meant.  *)
(***************************************************************************)
EXTENDS Startup, Sums, SequenceTheorems

-----------------------------------------------------------------------------
(* Config::load *)

\* What is read are the file's lines, into the Config's keys.
Types ==
  /\ phase \in {"open", "read", "done", "threw"}
  /\ file \in Seq(Lines)
  /\ DOMAIN c = Keys

\* i is the last line that sets k.
IsLast(k, i) == i \in SettingsOf(k) /\ \A j \in SettingsOf(k) : j <= i

\* A key that occurs has a last setting.
Resolved == \A k \in Keys : SettingsOf(k) # {} => \E i \in Nat : IsLast(k, i)

\* The Config holds what the lines so far say.
AsRead == phase \in {"open", "read"} => \A k \in Keys : c[k] = Meant(k)

\* The inductive invariant of Config::load.
LoadInv == Types /\ Resolved /\ AsRead /\ LoadedAsWritten

-----------------------------------------------------------------------------
\* A last setting is what LastSetting finds.
LEMMA LastFound ==
  ASSUME Types, NEW k, NEW i \in Nat, IsLast(k, i)
  PROVE  LastSetting(k) = file[i]
<1>1. \A j : IsLast(k, j) => j = i
  <2> SUFFICES ASSUME NEW j, IsLast(k, j) PROVE j = i
    OBVIOUS
  <2>1. j \in Nat /\ j <= i /\ i <= j
    BY DEF IsLast, SettingsOf, Types
  <2> QED BY <2>1
<1>2. i = CHOOSE n \in SettingsOf(k) : \A j \in SettingsOf(k) : j <= n
  BY <1>1 DEF IsLast
<1> QED BY <1>2 DEF LastSetting

\* What is meant depends on the file alone.
LEMMA SameFile ==
  ASSUME file' = file, NEW k
  PROVE  SettingsOf(k)' = SettingsOf(k) /\ Meant(k)' = Meant(k)
<1>1. SettingsOf(k)' = SettingsOf(k)
  BY DEF SettingsOf
<1>2. LastSetting(k)' = LastSetting(k)
  BY <1>1 DEF LastSetting
<1> QED BY <1>1, <1>2 DEF Meant

\* A line that sets k replaces what was meant by k, any other line keeps it.
LEMMA OneMoreLine ==
  ASSUME Types, Resolved, NEW l \in Lines, file' = Append(file, l), NEW k \in Keys
  PROVE  /\ SettingsOf(k)' # {} => \E i \in Nat : IsLast(k, i)'
         /\ Meant(k)' = IF l.key = k THEN Convert(l) ELSE Meant(k)
<1>0. PICK n \in Nat : n = Len(file) + 1
  BY DEF Types
<1>1. /\ DOMAIN file = 1..(n - 1) /\ DOMAIN file' = 1..n /\ file'[n] = l
      /\ \A i \in 1..(n - 1) : file'[i] = file[i]
      /\ file' \in Seq(Lines)
  BY <1>0 DEF Types
<1>2. SettingsOf(k)' = IF l.key = k THEN SettingsOf(k) \cup {n} ELSE SettingsOf(k)
  BY <1>1 DEF SettingsOf
<1>3. \A i \in SettingsOf(k) : i \in Nat /\ i < n
  BY <1>1 DEF SettingsOf
<1>4. ASSUME NEW i \in Nat, IsLast(k, i)' PROVE LastSetting(k)' = file'[i]
  <2>1. \A j : IsLast(k, j)' => j = i
    <3> SUFFICES ASSUME NEW j, IsLast(k, j)' PROVE j = i
      OBVIOUS
    <3>1. j \in Nat /\ j <= i /\ i <= j
      BY <1>1, <1>4 DEF IsLast, SettingsOf
    <3> QED BY <3>1
  <2>2. i = CHOOSE y \in SettingsOf(k)' : \A j \in SettingsOf(k)' : j <= y
    BY <1>4, <2>1 DEF IsLast
  <2> QED BY <2>2 DEF LastSetting
<1>5. CASE l.key = k
  <2>1. IsLast(k, n)'
    BY <1>1, <1>2, <1>3, <1>5 DEF IsLast
  <2>2. LastSetting(k)' = l /\ SettingsOf(k)' # {}
    BY <1>1, <1>4, <2>1 DEF IsLast
  <2> QED BY <1>1, <1>5, <2>1, <2>2 DEF Meant
<1>6. CASE l.key # k /\ SettingsOf(k) # {}
  <2>1. PICK i \in Nat : IsLast(k, i)
    BY <1>6 DEF Resolved
  <2>2. IsLast(k, i)' /\ i \in 1..(n - 1)
    BY <1>1, <1>2, <1>3, <1>6, <2>1 DEF IsLast, SettingsOf
  <2>3. LastSetting(k)' = LastSetting(k)
    BY <1>1, <1>4, <2>1, <2>2, LastFound
  <2> QED BY <1>2, <1>6, <2>2, <2>3 DEF Meant
<1>7. CASE l.key # k /\ SettingsOf(k) = {}
  BY <1>2, <1>7 DEF Meant
<1> QED BY <1>5, <1>6, <1>7

-----------------------------------------------------------------------------
\* The constructor's defaults are what an empty file means.
LEMMA InitLoad == LoadInit => LoadInv
<1> SUFFICES ASSUME LoadInit PROVE LoadInv
  OBVIOUS
<1>1. Types
  BY DEF LoadInit, Types
<1>2. \A k \in Keys : SettingsOf(k) = {}
  BY DEF LoadInit, SettingsOf
<1> QED BY <1>1, <1>2 DEF LoadInit, LoadInv, Resolved, AsRead, Meant, LoadedAsWritten

\* One turn of the getline loop.
LEMMA ReadLineStep == ASSUME LoadInv, NEW l \in Lines, ReadLine(l) PROVE LoadInv'
<1> USE DEF LoadInv
<1>1. phase = "read" /\ file' = Append(file, l)
  BY DEF ReadLine
<1>2. \A k \in Keys : /\ SettingsOf(k)' # {} => \E i \in Nat : IsLast(k, i)'
                      /\ Meant(k)' = IF l.key = k THEN Convert(l) ELSE Meant(k)
  BY <1>1, OneMoreLine
<1>3. Resolved'
  BY <1>2 DEF Resolved
<1>4. Types'
  BY <1>1 DEF Types, ReadLine
<1>5. LoadedAsWritten'
  BY <1>1 DEF ReadLine, LoadedAsWritten
<1>6. AsRead'
  <2>1. CASE l.key \notin Keys
    BY <1>1, <1>2, <2>1 DEF ReadLine, AsRead
  <2>2. CASE l.key \in Keys /\ Throws(l)
    BY <2>2 DEF ReadLine, AsRead
  <2>3. CASE l.key \in Keys /\ ~Throws(l)
    <3>1. \A k \in Keys : c'[k] = IF l.key = k THEN Convert(l) ELSE c[k]
      BY <2>3 DEF ReadLine, Types
    <3> QED BY <1>1, <1>2, <3>1 DEF AsRead
  <2> QED BY <2>1, <2>2, <2>3
<1> QED BY <1>3, <1>4, <1>5, <1>6

\* The identity defaults, after the last line.
LEMMA FinishStep == ASSUME LoadInv, Finish PROVE LoadInv'
<1> USE DEF LoadInv
<1>1. /\ phase \in {"open", "read"} /\ phase' = "done" /\ file' = file
      /\ c' = [c EXCEPT !["host"] = Host(c), !["mqtt_client_id"] = ClientId(c)]
  BY DEF Finish
<1>2. Types' /\ Resolved' /\ AsRead'
  BY <1>1, SameFile DEF Types, Resolved, AsRead, IsLast
<1>3. \A k \in Keys : Meant(k)' = Meant(k) /\ c[k] = Meant(k)
  BY <1>1, SameFile DEF AsRead
<1>4. "host" \in Keys /\ "mqtt_client_id" \in Keys
  BY DEF Keys, StringKeys
<1>5. /\ c'["host"] = Host(c) /\ c'["mqtt_client_id"] = ClientId(c)
      /\ \A k \in Keys \ {"host", "mqtt_client_id"} : c'[k] = c[k]
  BY <1>1, <1>4 DEF Types
<1>6. LoadedAsWritten'
  BY <1>3, <1>4, <1>5 DEF LoadedAsWritten, Host, ClientId
<1> QED BY <1>2, <1>6

\* LoadInv is preserved by every step of load().
LEMMA LoadStep == ASSUME LoadInv, [Load]_configVars PROVE LoadInv'
<1>1. CASE UNCHANGED configVars
  <2>1. phase' = phase /\ c' = c /\ file' = file
    BY <1>1 DEF configVars
  <2> QED BY <2>1, SameFile DEF LoadInv, Types, Resolved, IsLast, AsRead, LoadedAsWritten
<1>2. CASE Open
  <2>1. phase = "open" /\ phase' = "read" /\ c' = c /\ file' = file
    BY <1>2 DEF Open
  <2> QED BY <2>1, SameFile DEF LoadInv, Types, Resolved, IsLast, AsRead, LoadedAsWritten
<1> QED BY <1>1, <1>2, ReadLineStep, FinishStep DEF Load

\* However long the file and whatever the order of its lines, every setting
\* ends with the value of its last line or its default, and the identity
\* defaults fill exactly what is empty.
THEOREM FileDecides == LoadSpec => []LoadedAsWritten
<1>1. LoadInv => LoadedAsWritten
  BY DEF LoadInv
<1> QED BY <1>1, InitLoad, LoadStep, PTL DEF LoadSpec

-----------------------------------------------------------------------------
(* Model::load *)

\* load() accepts a file exactly when its header is positive and describes
\* all of it.
LEMMA LoadAccepts ==
  ASSUME NEW f, f.words \in Seq(Int), f.rest \in Nat
  PROVE  /\ load(f).ok <=> /\ Len(f.words) >= 4 /\ \A i \in 1..4 : f.words[i] > 0
                           /\ Len(f.words) = Words(f.words) /\ f.rest = 0
         /\ load(f).ok => load(f).n_in = f.words[1] /\ load(f).n_out = f.words[4]
         /\ load(f).ok \in BOOLEAN
<1> PICK w : w = f.words
  OBVIOUS
<1>1. w \in Seq(Int) /\ Len(w) \in Nat
  OBVIOUS
<1>2. CASE Len(w) < 4 \/ \E i \in 1..4 : w[i] <= 0
  <2>1. load(f) = Rejected
    BY <1>2, Zenon DEF load
  <2>2. ~(Len(w) >= 4 /\ \A i \in 1..4 : w[i] > 0)
    BY <1>1, <1>2
  <2> QED BY <2>1, <2>2 DEF Rejected
<1>3. CASE ~(Len(w) < 4 \/ \E i \in 1..4 : w[i] <= 0)
  <2>1. PICK n, h1, h2, k : n = w[1] /\ h1 = w[2] /\ h2 = w[3] /\ k = w[4]
    OBVIOUS
  <2>2. n \in Nat \ {0} /\ h1 \in Nat \ {0} /\ h2 \in Nat \ {0} /\ k \in Nat \ {0} /\ Len(w) >= 4
    BY <1>1, <1>3, <2>1
  <2>3. PICK a, b, d : a = h1 * n /\ b = h2 * h1 /\ d = k * h2
    OBVIOUS
  <2>4. a \in Nat /\ b \in Nat /\ d \in Nat
    BY <2>2, <2>3
  <2>5. PICK end : end = Layout(n, h1, h2, k)
    OBVIOUS
  <2>6. PICK p1, p2, p3, last : /\ p1 = 4 + 2 * n /\ p2 = p1 + a + h1 /\ p3 = p2 + b + h2
                                /\ last = p3 + d + k
    OBVIOUS
  <2>7. end = <<4, 4 + n, p1, p2 - h1, p2, p3 - h2, p3, p3 + d, last>>
    BY <2>3, <2>5, <2>6, Zenon DEF Layout
  <2>8. Words(w) = last
    <3>1. Words(w) = 4 + 2 * n + a + h1 + b + h2 + d + k
      BY <2>1, <2>3, Zenon DEF Words
    <3> QED BY <2>2, <2>4, <2>6, <3>1
  <2>9. /\ last \in Nat /\ end[9] = last
        /\ end[2] <= last /\ end[3] <= last /\ end[4] <= last /\ end[5] <= last
        /\ end[6] <= last /\ end[7] <= last /\ end[8] <= last
    BY <2>2, <2>4, <2>6, <2>7
  <2>10. (\E i \in 1..8 : ShortRead(w, end, i)) <=> last > Len(w)
    <3>1. \A i \in 1..8 : end[i + 1] \in Int /\ end[i + 1] <= last
      <4>1. \A i \in 1..8 : i \in {1, 2, 3, 4, 5, 6, 7, 8}
        OBVIOUS
      <4>2. /\ end[2] \in Int /\ end[3] \in Int /\ end[4] \in Int /\ end[5] \in Int
            /\ end[6] \in Int /\ end[7] \in Int /\ end[8] \in Int /\ end[9] \in Int
        BY <2>2, <2>4, <2>6, <2>7
      <4> QED BY <2>9, <4>1, <4>2
    <3>2. 8 \in 1..8 /\ end[8 + 1] = last
      BY <2>9
    <3>3. ASSUME NEW i \in 1..8, end[i + 1] > Len(w) PROVE last > Len(w)
      <4>1. PICK x, y : x = end[i + 1] /\ y = Len(w)
        OBVIOUS
      <4>2. x \in Int /\ y \in Int /\ last \in Int /\ x <= last /\ x > y
        <5>1. x \in Int /\ x <= last
          BY <3>1, <4>1, Zenon
        <5>2. y \in Int /\ last \in Int
          BY <1>1, <2>9, <4>1
        <5>3. x > y
          BY <3>3, <4>1, Zenon
        <5> QED BY <5>1, <5>2, <5>3
      <4> QED BY <4>1, <4>2
    <3>4. (\E i \in 1..8 : end[i + 1] > Len(w)) <=> last > Len(w)
      BY <3>2, <3>3
    <3> QED BY <3>4, Zenon DEF ShortRead
  <2>11. Trailing(f, end[9]) <=> last < Len(w) \/ f.rest > 0
    BY <2>9 DEF Trailing
  <2>12. CASE last = Len(w) /\ f.rest = 0
    <3>1. ~(\E i \in 1..8 : ShortRead(w, end, i)) /\ ~Trailing(f, end[9])
      BY <1>1, <2>9, <2>10, <2>11, <2>12
    <3>2. load(f).ok = TRUE /\ load(f).n_in = f.words[1] /\ load(f).n_out = f.words[4]
      BY <1>3, <2>1, <2>5, <3>1 DEF load
    <3>3. Len(w) >= 4 /\ \A i \in 1..4 : w[i] > 0
      <4>1. n > 0 /\ h1 > 0 /\ h2 > 0 /\ k > 0
        BY <2>2
      <4>2. \A i \in 1..4 : i \in {1, 2, 3, 4}
        OBVIOUS
      <4> QED BY <2>1, <2>2, <4>1, <4>2
    <3> QED BY <2>8, <2>12, <3>2, <3>3
  <2>13. CASE ~(last = Len(w) /\ f.rest = 0)
    <3>1. (\E i \in 1..8 : ShortRead(w, end, i)) \/ Trailing(f, end[9])
      BY <1>1, <2>9, <2>10, <2>11, <2>13
    <3>2. load(f) = Rejected
      BY <1>3, <2>1, <2>5, <3>1 DEF load
    <3> QED BY <2>8, <2>13, <3>2 DEF Rejected
  <2> QED BY <2>12, <2>13
<1> QED BY <1>2, <1>3

\* setup() accepts exactly the sound files.
LEMMA AcceptsSound == ASSUME NEW f \in ModelFiles PROVE Accepted(load(f)) <=> Sound(f)
<1>1. f.words \in Seq(Int) /\ f.rest \in Nat
  BY StartupAssumption
<1>2. /\ load(f).ok <=> /\ Len(f.words) >= 4 /\ \A i \in 1..4 : f.words[i] > 0
                        /\ Len(f.words) = Words(f.words) /\ f.rest = 0
      /\ load(f).ok => load(f).n_in = f.words[1] /\ load(f).n_out = f.words[4]
  BY <1>1, LoadAccepts
<1> QED BY <1>2, Zenon DEF Accepted, Sound

-----------------------------------------------------------------------------
(* main() *)

\* The steps that setup() has succeeded before.
PastSetup == {"print", "connect", "sample", "infer", "publish", "running"}

\* What main() has done when it reaches each step.
MainInv ==
  /\ step \in {"args", "config", "setup", "ended"} \cup PastSetup
  /\ step = "args" => phase = "open"
  /\ step = "config" => phase \in {"open", "read"}
  /\ step \in {"setup"} \cup PastSetup => phase = "done"
  /\ step # "ended" => status = "none"
  /\ step \in {"args", "config", "setup"} => m = Rejected
  /\ StartsIffSound

\* main() has nothing before its first step.
LEMMA InitMain == Init => MainInv
BY DEF Init, LoadInit, MainInv, StartsIffSound, Rejected, PastSetup

\* Every step of main() keeps to this.
LEMMA NextMain == ASSUME MainInv, [Next]_vars PROVE MainInv'
<1>1. ~Rejected.ok
  BY DEF Rejected
<1>2. ASSUME UNCHANGED <<phase, status, bin, m>>, step \in PastSetup, step' \in PastSetup
      PROVE  MainInv'
  BY <1>2 DEF MainInv, StartsIffSound, Sound, PastSetup
<1>3. CASE UNCHANGED vars
  BY <1>3 DEF vars, configVars, inputs, members, MainInv, StartsIffSound, Sound
<1>4. CASE Args
  BY <1>1, <1>4 DEF Args, End, configVars, inputs, members, MainInv, StartsIffSound, PastSetup
<1>5. CASE LoadConfig
  BY <1>1, <1>5 DEF LoadConfig, End, inputs, members, MainInv, StartsIffSound, PastSetup
<1>6. CASE SetupFails
  <2>1. PICK f \in ModelFiles : bin' = f /\ ~Accepted(load(f))
    BY <1>6 DEF SetupFails
  <2>2. ~Sound(bin')
    BY <2>1, AcceptsSound
  <2>3. step = "setup" /\ step' = "ended" /\ status' = "1" /\ UNCHANGED <<phase, m>>
    BY <1>6 DEF SetupFails, End, configVars, members
  <2> QED BY <1>1, <2>2, <2>3 DEF MainInv, StartsIffSound, Sound, PastSetup
<1>7. CASE Setup
  <2>1. PICK f \in ModelFiles : Accepted(load(f)) /\ bin' = f
    BY <1>7 DEF Setup
  <2>2. Sound(bin')
    BY <2>1, AcceptsSound
  <2>3. step = "setup" /\ step' \in {"print", "connect"} /\ UNCHANGED <<phase, status>>
    BY <1>7 DEF Setup, configVars
  <2> QED BY <2>2, <2>3 DEF MainInv, StartsIffSound, Sound, PastSetup
<1>8. CASE printRoutes
  BY <1>8 DEF printRoutes, End, configVars, inputs, members, MainInv, StartsIffSound, Sound, PastSetup
<1>9. CASE RunConnect \/ Sample \/ Publish
  BY <1>2, <1>9 DEF RunConnect, Sample, Publish, configVars, inputs, members, PastSetup
<1>10. ASSUME NEW confidence, NEW alert, Infer(confidence, alert) PROVE MainInv'
  BY <1>2, <1>10 DEF Infer, configVars, inputs, members, PastSetup
<1> QED BY <1>3, <1>4, <1>5, <1>6, <1>7, <1>8, <1>9, <1>10 DEF Next

\* The service, and --check, get past setup() exactly with a model.bin that is
\* whole, as long as its header says and of the compiled-in shape: for any
\* dimensions and contents of the file, and any configuration.
THEOREM OnlySoundModels == Spec => []StartsIffSound
<1>1. MainInv => StartsIffSound
  BY DEF MainInv
<1> QED BY <1>1, InitMain, NextMain, PTL DEF Spec

\* The configuration main() runs with is the one the file says, to the end.
THEOREM RunsAsWritten == Spec => []LoadedAsWritten
<1>1. Init => LoadInv
  BY InitLoad DEF Init
<1>2. ASSUME LoadInv, [Next]_vars PROVE LoadInv'
  <2>1. [Load]_configVars
    BY <1>2
    DEF Next, Args, LoadConfig, SetupFails, Setup, printRoutes, RunConnect, Sample, Publish, Infer, vars
  <2> QED BY <1>2, <2>1, LoadStep
<1>3. LoadInv => LoadedAsWritten
  BY DEF LoadInv
<1> QED BY <1>1, <1>2, <1>3, PTL DEF Spec

-----------------------------------------------------------------------------
(* The features and their tracepoints *)

\* The events of FEATURE_ORDER.
EventNames ==
  << "madvise", "setgroups32", "statfs64", "seconds", "getsockname", "connect",
   "block_unplug", "ext4_ext_rm_leaf", "socket", "jbd2_handle_extend", "util", "write_kbs",
   "rename", "prlimit64", "write_merge", "dup2", "recv", "ext4_da_update_reserve_space",
   "iowrite", "fchmod", "setitimer", "mkdir", "inotify_add_watch",
   "ext4_ext_remove_space_done", "pipe2", "sb_clear_inode_writeback", "brk", "shutdown",
   "getegid32", "iowritetime", "geteuid32" >>

At(i) ==
  /\ FEATURE_ORDER[i].event = EventNames[i]
  /\ \/ FEATURE_ORDER[i].sys # "" \/ FEATURE_ORDER[i].suffix = ""
     \/ FEATURE_ORDER[i] = Tagged("", "seconds", "_RES_data")
  /\ stripSuffix(FEATURE_ORDER[i]).event = EventNames[i] /\ stripSuffix(FEATURE_ORDER[i]).suffix = ""

\* These are the table's, and a name without a subsystem has a suffix only if it
\* is the resource collector's.
LEMMA Table == Features = 1..31 /\ \A i \in Features : At(i)
<1>1. Features = 1..31
  BY DEF Features, FEATURE_ORDER
<1>2. /\ At(1) /\ At(2) /\ At(3) /\ At(4) /\ At(5) /\ At(6) /\ At(7) /\ At(8)
      /\ At(9) /\ At(10) /\ At(11) /\ At(12) /\ At(13) /\ At(14) /\ At(15) /\ At(16)
      /\ At(17) /\ At(18) /\ At(19) /\ At(20) /\ At(21) /\ At(22) /\ At(23) /\ At(24)
      /\ At(25) /\ At(26) /\ At(27) /\ At(28) /\ At(29) /\ At(30) /\ At(31)
  BY DEF At, FEATURE_ORDER, EventNames, Plain, Point, Tagged, stripSuffix
<1>3. \A i \in 1..31 : At(i)
  BY <1>2
<1> QED BY <1>1, <1>3

\* No two features count the same event.
LEMMA EventsDiffer ==
  ASSUME NEW i \in Features, NEW j \in Features, FEATURE_ORDER[i].event = FEATURE_ORDER[j].event
  PROVE  i = j
<1>1. \A k, l \in 1..31 : EventNames[k] = EventNames[l] => k = l
  BY DEF EventNames
<1>2. FEATURE_ORDER[i].event = EventNames[i] /\ FEATURE_ORDER[j].event = EventNames[j]
  BY Table DEF At
<1>3. i \in 1..31 /\ j \in 1..31 /\ EventNames[i] = EventNames[j]
  BY <1>2, Table
<1> QED BY <1>1, <1>3

\* A feature that PerfCollector counts.
IsPoint(i) == FEATURE_ORDER[i] \notin ProcKeys \cup ResourceKeys

\* The parts of a feature name without and with a system and a suffix.
LEMMA NameFields ==
  /\ \A e : Plain(e).sys = "" /\ Plain(e).event = e /\ Plain(e).suffix = ""
  /\ \A s, e, x : /\ Tagged(s, e, x).sys = s /\ Tagged(s, e, x).event = e
                  /\ Tagged(s, e, x).suffix = x
BY DEF Plain, Tagged

\* The keys the other collectors write are the names routed to them.
LEMMA CollectorKeys ==
  /\ kDisk = ProcKeys /\ kResource = ResourceKeys
  /\ \A n \in ProcKeys \cup ResourceKeys : n.sys = ""
  /\ \A n \in ProcKeys : n \notin ResourceKeys
  /\ \A n \in ResourceKeys : n.suffix = "_RES_data"
<1>1. kDisk = ProcKeys /\ kResource = ResourceKeys
  BY DEF kDisk, ProcKeys, kResource, ResourceKeys
<1>2. \A n \in ProcKeys : \E e : n = Plain(e)
  BY Zenon DEF ProcKeys
<1>3. \A n \in ResourceKeys : n = Tagged("", "seconds", "_RES_data")
  BY Zenon DEF ResourceKeys
<1>4. \A n \in ProcKeys : n.sys = "" /\ n.suffix = ""
  <2>1. TAKE n \in ProcKeys
  <2>2. PICK e : n = Plain(e)
    BY <1>2
  <2>3. n = [sys |-> "", event |-> e, suffix |-> ""]
    BY <2>2 DEF Plain
  <2> QED BY <2>3
<1>5. \A n \in ResourceKeys : n.sys = "" /\ n.suffix = "_RES_data"
  <2>1. TAKE n \in ResourceKeys
  <2>2. n = [sys |-> "", event |-> "seconds", suffix |-> "_RES_data"]
    BY <1>3 DEF Tagged
  <2> QED BY <2>2
<1> QED BY <1>1, <1>4, <1>5

\* What each route holds.
LEMMA Routed ==
  ASSUME NEW i \in Features
  PROVE  /\ FEATURE_ORDER[i] \in routeFeatures(FEATURE_ORDER)["perf"] <=> IsPoint(i)
         /\ FEATURE_ORDER[i] \in routeFeatures(FEATURE_ORDER)["disk"] <=> FEATURE_ORDER[i] \in ProcKeys
         /\ FEATURE_ORDER[i] \in routeFeatures(FEATURE_ORDER)["resource"]
              <=> FEATURE_ORDER[i] \in ResourceKeys
<1>1. PICK n : n = FEATURE_ORDER[i]
  OBVIOUS
<1>2. ASSUME NEW s \in {"perf", "disk", "resource"}
      PROVE  n \in routeFeatures(FEATURE_ORDER)[s] <=> Source(n) = s
  BY <1>1 DEF routeFeatures, Features
<1>3. /\ Source(n) = "disk" <=> n \in ProcKeys
      /\ Source(n) = "resource" <=> n \in ResourceKeys
      /\ Source(n) = "perf" <=> n \notin ProcKeys \cup ResourceKeys
  BY CollectorKeys DEF Source
<1> QED BY <1>1, <1>2, <1>3 DEF IsPoint

\* The features routed to PerfCollector are those no other collector has.
LEMMA PerfRoute ==
  routeFeatures(FEATURE_ORDER)["perf"] = {FEATURE_ORDER[i] : i \in {j \in Features : IsPoint(j)}}
<1>1. ASSUME NEW n \in routeFeatures(FEATURE_ORDER)["perf"] PROVE \E i \in Features : n = FEATURE_ORDER[i]
  BY <1>1 DEF routeFeatures, Features
<1> QED BY <1>1, Routed

ThreeKinds(s) == DOMAIN s = 1..3 /\ s[1] = "perf" /\ s[2] = "disk" /\ s[3] = "resource"

\* A collector of each kind is built.
LEMMA AllBuilt == ThreeKinds(Built(routeFeatures(FEATURE_ORDER)))
<1>1. PICK r : r = routeFeatures(FEATURE_ORDER)
  OBVIOUS
<1>2. 1 \in Features /\ 11 \in Features /\ 4 \in Features
  BY Table
<1>3. FEATURE_ORDER[1] = Plain("madvise") /\ FEATURE_ORDER[11] = Plain("util")
        /\ FEATURE_ORDER[4] = Tagged("", "seconds", "_RES_data")
  BY DEF FEATURE_ORDER
<1>4. FEATURE_ORDER[4] \in ResourceKeys /\ FEATURE_ORDER[11] \in ProcKeys
  BY <1>3 DEF ResourceKeys, ProcKeys
<1>5. IsPoint(1)
  <2>1. \A n \in ProcKeys : \E e \in {"write_merge", "iowrite", "write_kbs", "iowritetime", "util"} : n = Plain(e)
    BY Zenon DEF ProcKeys
  <2>2. \A n \in ProcKeys : n.event # "madvise"
    BY <2>1, NameFields
  <2>3. FEATURE_ORDER[1].event = "madvise" /\ FEATURE_ORDER[1].suffix = ""
    BY <1>3, NameFields
  <2>4. \A n \in ResourceKeys : n.suffix = "_RES_data"
    BY CollectorKeys
  <2> QED BY <2>2, <2>3, <2>4 DEF IsPoint
<1>6. r["perf"] # {} /\ r["disk"] # {} /\ r["resource"] # {}
  BY <1>1, <1>2, <1>4, <1>5, Routed
<1>7. Built(r) = <<"perf">> \o <<"disk">> \o <<"resource">>
  BY <1>6 DEF Built
<1>8. ThreeKinds(<<"perf">> \o <<"disk">> \o <<"resource">>)
  BY DEF ThreeKinds
<1> QED BY <1>1, <1>7, <1>8

\* Events of a tracepoint of a kernel that lacks l.
EventsIn(p, l) ==
  LET here == {i \in Features \ l : /\ KernelPoint(FEATURE_ORDER[i]) = p
                                    /\ FEATURE_ORDER[i] \notin ProcKeys \cup ResourceKeys}
  IN  IF here = {} THEN 0 ELSE CHOOSE i \in here : TRUE

\* The path PerfCollector opens counts the events the feature's name denotes.
LEMMA PathIsPoint ==
  ASSUME NEW i \in Features, IsPoint(i)
  PROVE  Path(FEATURE_ORDER[i]) = KernelPoint(FEATURE_ORDER[i])
<1>1. PICK n : n = FEATURE_ORDER[i]
  OBVIOUS
<1>2. n.sys # "" \/ n.suffix = ""
  <2>1. Tagged("", "seconds", "_RES_data") \in ResourceKeys
    BY DEF ResourceKeys
  <2> QED BY <1>1, <2>1, Table DEF At, IsPoint
<1>3. stripSuffix(n).event = n.event /\ stripSuffix(n).suffix = ""
  BY <1>1, Table DEF At
<1> QED BY <1>1, <1>2, <1>3 DEF Path, KernelPoint, tracefsPath

\* The tracepoint of a feature counts that feature's events and no other's.
LEMMA EventsAt ==
  ASSUME NEW i \in Features, IsPoint(i), NEW l
  PROVE  EventsIn(Path(FEATURE_ORDER[i]), l) = IF i \in l THEN 0 ELSE i
<1>1. PICK p : p = Path(FEATURE_ORDER[i])
  OBVIOUS
<1>2. p = KernelPoint(FEATURE_ORDER[i])
  BY <1>1, PathIsPoint
<1>3. ASSUME NEW j \in Features, KernelPoint(FEATURE_ORDER[j]) = p PROVE j = i
  <2>1. \A n : KernelPoint(n)[3] = n.event
    BY DEF KernelPoint
  <2>2. FEATURE_ORDER[j].event = FEATURE_ORDER[i].event
    BY <1>2, <1>3, <2>1
  <2> QED BY <2>2, EventsDiffer
<1>4. PICK here : here = {j \in Features \ l : /\ KernelPoint(FEATURE_ORDER[j]) = p
                                               /\ FEATURE_ORDER[j] \notin ProcKeys \cup ResourceKeys}
  OBVIOUS
<1>5. EventsIn(p, l) = IF here = {} THEN 0 ELSE CHOOSE j \in here : TRUE
  BY <1>4 DEF EventsIn
<1>6. i \in l => here = {}
  BY <1>3, <1>4
<1>7. i \notin l => here = {i}
  BY <1>2, <1>3, <1>4 DEF IsPoint
<1> QED BY <1>1, <1>5, <1>6, <1>7

\* What collector k inserts.
SampleOf(k) == Sampled(collectors_[k])

\* The collectors that write a name.
Writers(n) == {k \in DOMAIN collectors_ : n \in DOMAIN SampleOf(k)}

\* What the three collectors write, and how run() merges it.
LEMMA SamplesAre ==
  ASSUME ThreeKinds(collectors_)
  PROVE  /\ SampleOf(1) = [n \in routeFeatures(FEATURE_ORDER)["perf"] |-> EventsIn(Path(n), lacking)]
         /\ SampleOf(2) = [n \in ProcKeys |-> PositionOf(n)]
         /\ SampleOf(3) = [n \in ResourceKeys |-> PositionOf(n)]
         /\ Merged = [n \in UNION {DOMAIN SampleOf(k) : k \in DOMAIN collectors_} |->
                        SampleOf(Max(Writers(n)))[n]]
<1>1. \A p : Events(p) = EventsIn(p, lacking)
  BY DEF Events, EventsIn
<1>2. [n \in routeFeatures(FEATURE_ORDER)["perf"] |-> Events(Path(n))]
        = [n \in routeFeatures(FEATURE_ORDER)["perf"] |-> EventsIn(Path(n), lacking)]
  BY <1>1
<1>3. /\ Sampled("perf") = [n \in routeFeatures(FEATURE_ORDER)["perf"] |-> Events(Path(n))]
      /\ Sampled("disk") = [n \in ProcKeys |-> PositionOf(n)]
      /\ Sampled("resource") = [n \in ResourceKeys |-> PositionOf(n)]
  BY DEF Sampled
<1>4. Merged = [n \in UNION {DOMAIN SampleOf(k) : k \in DOMAIN collectors_} |->
                  SampleOf(Max(Writers(n)))[n]]
  BY Zenon DEF Merged, SampleOf, Writers
<1> QED BY <1>2, <1>3, <1>4, Zenon DEF SampleOf, ThreeKinds

\* The map has, for every feature, what it should measure.
LEMMA MergedInPlace ==
  ASSUME ThreeKinds(collectors_), \A i \in lacking : i \in Features /\ IsPoint(i), NEW i \in Features
  PROVE  /\ FEATURE_ORDER[i] \in DOMAIN Merged
         /\ Merged[FEATURE_ORDER[i]] = IF i \in lacking THEN 0 ELSE i
<1>1. PICK n, v : n = FEATURE_ORDER[i] /\ v = IF i \in lacking THEN 0 ELSE i
  OBVIOUS
<1>2. PICK r : r = routeFeatures(FEATURE_ORDER)["perf"]
  OBVIOUS
<1>3. /\ SampleOf(1) = [k \in r |-> EventsIn(Path(k), lacking)]
      /\ SampleOf(2) = [k \in ProcKeys |-> PositionOf(k)]
      /\ SampleOf(3) = [k \in ResourceKeys |-> PositionOf(k)]
      /\ Merged = [z \in UNION {DOMAIN SampleOf(k) : k \in DOMAIN collectors_} |->
                     SampleOf(Max(Writers(z)))[z]]
  BY <1>2, SamplesAre
<1>4. DOMAIN SampleOf(1) = r /\ DOMAIN SampleOf(2) = ProcKeys /\ DOMAIN SampleOf(3) = ResourceKeys
  BY <1>3
<1>5. DOMAIN collectors_ = {1, 2, 3}
  BY DEF ThreeKinds
<1>6. n \in r <=> n \notin ProcKeys \cup ResourceKeys
  BY <1>1, <1>2, Routed DEF IsPoint
<1>7. PositionOf(n) = i
  <2>1. \A j \in Features : FEATURE_ORDER[j] = n => j = i
    BY <1>1, EventsDiffer
  <2>2. PositionOf(n) \in Features /\ FEATURE_ORDER[PositionOf(n)] = n
    BY <1>1 DEF PositionOf
  <2> QED BY <2>1, <2>2
<1>8. ASSUME NEW k \in {1, 2, 3}, Writers(n) = {k}, SampleOf(k)[n] = v
      PROVE  n \in DOMAIN Merged /\ Merged[n] = v
  <2>1. k \in DOMAIN collectors_ /\ n \in DOMAIN SampleOf(k)
    BY <1>8 DEF Writers
  <2>2. n \in UNION {DOMAIN SampleOf(j) : j \in DOMAIN collectors_}
    BY <2>1
  <2>3. Max({k}) = k
    BY DEF Max
  <2>4. Merged[n] = SampleOf(Max(Writers(n)))[n] /\ n \in DOMAIN Merged
    BY <1>3, <2>2, Zenon
  <2> QED BY <1>8, <2>3, <2>4, Zenon
<1>9. CASE IsPoint(i)
  <2>1. n \in r /\ n \notin ProcKeys /\ n \notin ResourceKeys
    BY <1>1, <1>6, <1>9 DEF IsPoint
  <2>2. Writers(n) = {1}
    BY <1>4, <1>5, <2>1 DEF Writers
  <2>3. SampleOf(1)[n] = v
    BY <1>1, <1>3, <1>9, <2>1, EventsAt
  <2> QED BY <1>1, <1>8, <2>2, <2>3
<1>10. CASE n \in ProcKeys
  <2>1. n \notin r /\ n \notin ResourceKeys
    BY <1>6, <1>10, CollectorKeys
  <2>2. Writers(n) = {2}
    BY <1>4, <1>5, <1>10, <2>1 DEF Writers
  <2>3. SampleOf(2)[n] = v
    BY <1>1, <1>3, <1>7, <1>10 DEF IsPoint
  <2> QED BY <1>1, <1>8, <2>2, <2>3
<1>11. CASE n \in ResourceKeys
  <2>1. n \notin r /\ n \notin ProcKeys
    BY <1>6, <1>11, CollectorKeys
  <2>2. Writers(n) = {3}
    BY <1>4, <1>5, <1>11, <2>1 DEF Writers
  <2>3. SampleOf(3)[n] = v
    BY <1>1, <1>3, <1>7, <1>11 DEF IsPoint
  <2> QED BY <1>1, <1>8, <2>2, <2>3
<1> QED BY <1>1, <1>9, <1>10, <1>11 DEF IsPoint

-----------------------------------------------------------------------------
(* The vector *)

\* The features a kernel without the tracepoints in l has no reading for.
LEMMA MissingAre ==
  ASSUME NEW l \in Lacking
  PROVE  /\ \A i \in l : i \in Features /\ IsPoint(i)
         /\ {n \in routeFeatures(FEATURE_ORDER)["perf"] : EventsIn(Path(n), l) = 0}
              = {FEATURE_ORDER[i] : i \in l}
<1>1. \A i \in l : i \in Features /\ IsPoint(i)
  BY StartupAssumption DEF Features, IsPoint
<1>2. \A i \in Features : IsPoint(i) => (EventsIn(Path(FEATURE_ORDER[i]), l) = 0 <=> i \in l)
  <2>1. \A i \in Features : i # 0
    BY Table
  <2> QED BY <2>1, EventsAt
<1>3. PICK r : r = routeFeatures(FEATURE_ORDER)["perf"]
  OBVIOUS
<1>4. r = {FEATURE_ORDER[i] : i \in {j \in Features : IsPoint(j)}}
  BY <1>3, PerfRoute
<1>5. {n \in r : EventsIn(Path(n), l) = 0} = {FEATURE_ORDER[i] : i \in l}
  BY <1>1, <1>2, <1>4
<1> QED BY <1>1, <1>3, <1>5

\* What setup() has built, and what the steps after it make of it.
PlaceInv ==
  /\ MainInv
  /\ step \in PastSetup => /\ ThreeKinds(collectors_) /\ lacking \in Lacking
                           /\ missing_tracepoints_ = {FEATURE_ORDER[i] : i \in lacking}
  /\ step \in {"args", "config", "setup"} => raw = << >>
  /\ VectorInPlace

\* PlaceInv holds at the start and after each action.
LEMMA InitPlace == Init => PlaceInv
<1>1. Init => MainInv
  BY InitMain
<1>2. Init => step = "args" /\ raw = << >> /\ status = "none"
  BY DEF Init
<1> QED BY <1>1, <1>2 DEF PlaceInv, VectorInPlace, PastSetup

LEMMA NextPlace == ASSUME PlaceInv, [Next]_vars PROVE PlaceInv'
<1>1. MainInv'
  BY NextMain DEF PlaceInv
<1>2. CASE UNCHANGED vars
  BY <1>1, <1>2 DEF vars, inputs, members, window, PlaceInv, VectorInPlace
<1>3. CASE Args \/ LoadConfig \/ SetupFails
  <2>1. step \in {"args", "config", "setup"} /\ m' = m /\ raw' = raw /\ step' \notin PastSetup
    BY <1>3 DEF Args, LoadConfig, SetupFails, End, members, window, PastSetup
  <2>2. raw = << >> /\ ~m.ok
    BY <2>1 DEF PlaceInv, MainInv, Rejected
  <2> QED BY <1>1, <2>1, <2>2 DEF PlaceInv, VectorInPlace
<1>4. CASE Setup
  <2>1. PICK l \in Lacking : lacking' = l
    BY <1>4 DEF Setup
  <2>2. /\ collectors_' = Built(routeFeatures(FEATURE_ORDER))
        /\ missing_tracepoints_' = {n \in routeFeatures(FEATURE_ORDER)["perf"] : Events(Path(n))' = 0}
        /\ step = "setup" /\ step' \in {"print", "connect"} /\ status' = status /\ raw' = raw
    BY <1>4 DEF Setup, window
  <2>3. \A p : Events(p)' = EventsIn(p, l)
    BY <2>1 DEF Events, EventsIn
  <2>4. missing_tracepoints_' = {FEATURE_ORDER[i] : i \in l}
    <3>1. {n \in routeFeatures(FEATURE_ORDER)["perf"] : EventsIn(Path(n), l) = 0} = {FEATURE_ORDER[i] : i \in l}
      BY MissingAre
    <3>2. {n \in routeFeatures(FEATURE_ORDER)["perf"] : Events(Path(n))' = 0}
            = {n \in routeFeatures(FEATURE_ORDER)["perf"] : EventsIn(Path(n), l) = 0}
      BY <2>3
    <3> QED BY <2>2, <3>1, <3>2
  <2>5. ThreeKinds(collectors_)'
    BY <2>2, AllBuilt DEF ThreeKinds
  <2>6. raw = << >> /\ status = "none"
    BY <2>2 DEF PlaceInv, MainInv
  <2> QED BY <1>1, <2>1, <2>2, <2>4, <2>5, <2>6 DEF PlaceInv, VectorInPlace
<1>5. CASE printRoutes
  <2>1. /\ step = "print" /\ step' = "ended" /\ printed' = missing_tracepoints_
        /\ raw' = raw /\ lacking' = lacking
    BY <1>5 DEF printRoutes, End, inputs, window
  <2>2. printed' = {FEATURE_ORDER[i] : i \in lacking'}
    BY <2>1 DEF PlaceInv, PastSetup
  <2> QED BY <1>1, <2>1, <2>2 DEF PlaceInv, VectorInPlace, PastSetup
<1>6. ASSUME step \in PastSetup, step' \in PastSetup, status' = status,
             UNCHANGED <<lacking, collectors_, missing_tracepoints_>>,
             raw' # << >> => \A i \in Features : raw'[i] = IF i \in lacking THEN 0 ELSE i
      PROVE  PlaceInv'
  <2>1. status' = "none"
    BY <1>6 DEF PlaceInv, MainInv, PastSetup
  <2>2. ThreeKinds(collectors_)'
    BY <1>6 DEF PlaceInv, ThreeKinds
  <2> QED BY <1>1, <1>6, <2>1, <2>2 DEF PlaceInv, VectorInPlace, PastSetup
<1>7. CASE Sample
  <2>1. /\ step = "sample" /\ step' = "infer" /\ status' = status
        /\ UNCHANGED <<lacking, collectors_, missing_tracepoints_>>
        /\ raw' = assemble(FEATURE_ORDER, Merged)
    BY <1>7 DEF Sample, inputs, members
  <2>2. ThreeKinds(collectors_) /\ lacking \in Lacking
    BY <2>1 DEF PlaceInv, PastSetup
  <2>3. \A i \in lacking : i \in Features /\ IsPoint(i)
    BY <2>2, MissingAre
  <2>4. ASSUME NEW i \in Features PROVE raw'[i] = IF i \in lacking THEN 0 ELSE i
    <3>1. raw'[i] = IF FEATURE_ORDER[i] \in DOMAIN Merged THEN Merged[FEATURE_ORDER[i]] ELSE 0
      BY <2>1 DEF assemble, Features
    <3>2. /\ FEATURE_ORDER[i] \in DOMAIN Merged
          /\ Merged[FEATURE_ORDER[i]] = IF i \in lacking THEN 0 ELSE i
      BY <2>2, <2>3, MergedInPlace
    <3> QED BY <3>1, <3>2
  <2> QED BY <1>6, <2>1, <2>4 DEF PastSetup
<1>8. CASE RunConnect \/ Publish
  <2>1. /\ step \in PastSetup /\ step' \in PastSetup /\ status' = status /\ raw' = raw
        /\ UNCHANGED <<lacking, collectors_, missing_tracepoints_>>
    BY <1>8 DEF RunConnect, Publish, inputs, members, window, PastSetup
  <2> QED BY <1>6, <2>1 DEF PlaceInv, VectorInPlace
<1>9. ASSUME NEW confidence, NEW alert, Infer(confidence, alert) PROVE PlaceInv'
  <2>1. /\ step \in PastSetup /\ step' \in PastSetup /\ status' = status /\ raw' = raw
        /\ UNCHANGED <<lacking, collectors_, missing_tracepoints_>>
    BY <1>9 DEF Infer, inputs, members, PastSetup
  <2> QED BY <1>6, <2>1 DEF PlaceInv, VectorInPlace
<1> QED BY <1>2, <1>3, <1>4, <1>5, <1>7, <1>8, <1>9 DEF Next

\* "The collector MUST fill the input vector in exactly this order": for any
\* set of tracepoints the kernel lacks, every entry of the vector is the
\* reading its name denotes, and --check prints exactly the ones that are 0.
THEOREM ReadingsInPlace == Spec => []VectorInPlace
<1>1. PlaceInv => VectorInPlace
  BY DEF PlaceInv
<1> QED BY <1>1, InitPlace, NextPlace, PTL DEF Spec

-----------------------------------------------------------------------------
(* Numbers in bytes *)

\* Division with remainder.
LEMMA DivMod ==
  ASSUME NEW b \in Nat \ {0}, NEW n \in Nat
  PROVE  n \div b \in Nat /\ n % b \in 0..(b - 1) /\ n = ((n \div b) * b) + (n % b)
OBVIOUS

\* A digit of a remaining length, and a byte, are bases to divide by.
LEMMA HalfIs == Half \in Nat \ {0} /\ Half >= 2 /\ Base \in Nat \ {0}
BY WireAssumption DEF Half

\* One digit of a number, and the rest.
LEMMA Digit ==
  ASSUME NEW n \in Nat, NEW b \in Nat, b >= 2
  PROVE  /\ n \div b \in Nat /\ n % b \in 0..(b - 1) /\ n = ((n \div b) * b) + (n % b)
         /\ n \div b <= n /\ (n # 0 => n \div b < n)
<1> PICK d, e : d = n \div b /\ e = n % b
  OBVIOUS
<1>1. d \in Nat /\ e \in 0..(b - 1) /\ n = d * b + e
  <2>1. b \in Nat \ {0}
    OBVIOUS
  <2> QED BY <2>1, DivMod
<1>2. d * b >= d * 2
  BY <1>1
<1>3. d <= n /\ (n # 0 => d < n)
  BY <1>1, <1>2
<1> QED BY <1>1, <1>3

\* The marked digit of a continued length.
LEMMA Marked ==
  ASSUME NEW b \in Nat \ {0}, NEW n \in 0..(b - 1)
  PROVE  n % b = n /\ (b + n) % b = n
OBVIOUS

-----------------------------------------------------------------------------
(* Sequences *)

\* The two parts of a concatenation.
LEMMA Parts ==
  ASSUME NEW S, NEW s \in Seq(S), NEW t \in Seq(S), NEW u, u = s \o t
  PROVE  /\ u \in Seq(S) /\ Len(u) = Len(s) + Len(t)
         /\ Len(s) \in Nat /\ Len(t) \in Nat
         /\ \A i \in 1..Len(s) : u[i] = s[i]
         /\ \A i \in 1..Len(t) : u[Len(s) + i] = t[i]
<1> PICK l, n : l = Len(s) /\ n = Len(t)
  OBVIOUS
<1>1. l \in Nat /\ n \in Nat
  OBVIOUS
<1>2. /\ u \in Seq(S) /\ Len(u) = l + n
      /\ \A i \in 1..(l + n) : u[i] = IF i <= l THEN s[i] ELSE t[i - l]
  BY ConcatProperties
<1>3. \A i \in 1..l : i \in 1..(l + n) /\ i <= l
  BY <1>1
<1>4. \A i \in 1..n : l + i \in 1..(l + n) /\ ~(l + i <= l) /\ (l + i) - l = i
  BY <1>1
<1> QED BY <1>1, <1>2, <1>3, <1>4

\* n elements, from the l-th on.
LEMMA Cut ==
  ASSUME NEW S, NEW u \in Seq(S), NEW l \in Nat \ {0}, NEW n \in Nat, NEW k, k = l + n - 1,
         k <= Len(u), NEW b, b = SubSeq(u, l, k)
  PROVE  b \in Seq(S) /\ Len(b) = n /\ \A j \in 1..n : b[j] = u[l + j - 1]
<1>1. l \in Int /\ k \in Int /\ Len(u) \in Nat
  OBVIOUS
<1>2. \A i \in l..k : i \in 1..Len(u)
  BY <1>1
<1>3. \A i \in l..k : u[i] \in S
  BY <1>2, ElementOfSeq
<1>4. /\ SubSeq(u, l, k) \in Seq(S)
      /\ Len(SubSeq(u, l, k)) = (IF l <= k THEN k - l + 1 ELSE 0)
      /\ \A i \in 1..(k - l + 1) : SubSeq(u, l, k)[i] = u[l + i - 1]
  BY <1>1, <1>3, SubSeqProperties
<1>5. k - l + 1 = n /\ (IF l <= k THEN k - l + 1 ELSE 0) = n
  OBVIOUS
<1> QED BY <1>4, <1>5

\* What follows the first part.
LEMMA FromParts ==
  ASSUME NEW S, NEW s \in Seq(S), NEW t \in Seq(S), NEW u, u = s \o t, NEW k, k = Len(s) + 1
  PROVE  From(u, k) = t
<1> PICK l, n : l = Len(s) /\ n = Len(t)
  OBVIOUS
<1>1. /\ l \in Nat /\ n \in Nat /\ u \in Seq(S) /\ Len(u) = l + n
      /\ \A i \in 1..n : u[l + i] = t[i]
  BY Parts
<1> PICK b : b = SubSeq(u, l + 1, l + n)
  OBVIOUS
<1>2. From(u, k) = b
  BY <1>1 DEF From
<1>3. /\ l + 1 \in Nat \ {0} /\ l + n = (l + 1) + n - 1 /\ l + n <= Len(u)
      /\ \A i \in 1..n : l + 1 + i - 1 = l + i
  BY <1>1
<1>4. b \in Seq(S) /\ Len(b) = n /\ \A i \in 1..n : b[i] = u[l + 1 + i - 1]
  BY <1>1, <1>3, Cut
<1>8. b \in Seq(S) /\ Len(b) = n /\ \A i \in 1..n : b[i] = t[i]
  BY <1>1, <1>3, <1>4
<1>9. b = t
  BY <1>8, SeqEqual
<1> QED BY <1>2, <1>9

-----------------------------------------------------------------------------
(* The remaining length *)

\* One digit of a length and, if it does not fit, those f gives of the rest.
OneDigit(f, n) == IF n < Half THEN <<N(n)>> ELSE <<N(Half + (n % Half))>> \o f[n \div Half]

\* g is RemainingLength up to k.
UpTo(g, k) == \A n \in 0..k : g[n] = OneDigit(g, n)

\* The quotient of a number that needs another digit.
LEMMA Quotient ==
  ASSUME NEW n \in Nat, ~(n < Half)
  PROVE  n \div Half \in Nat /\ n \div Half < n
<1>1. n # 0
  BY HalfIs
<1> QED BY <1>1, HalfIs, Digit

\* Two recursions up to k and l agree where both are defined.
LEMMA UpToUnique ==
  ASSUME NEW g, NEW h, NEW k \in Nat, NEW l \in Nat, UpTo(g, k), UpTo(h, l), NEW n \in Nat, n <= k, n <= l
  PROVE  g[n] = h[n]
<1> DEFINE T == {i \in Nat : \A j \in 0..i : j <= k /\ j <= l => g[j] = h[j]}
<1>1. ASSUME NEW j \in Nat, j <= k, j <= l, \A d \in Nat : d < j => g[d] = h[d]
      PROVE  g[j] = h[j]
  <2>1. g[j] = OneDigit(g, j) /\ h[j] = OneDigit(h, j)
    BY <1>1 DEF UpTo
  <2>2. CASE j < Half
    BY <2>1, <2>2 DEF OneDigit
  <2>3. CASE ~(j < Half)
    <3>1. g[j \div Half] = h[j \div Half]
      BY <1>1, <2>3, Quotient
    <3> QED BY <2>1, <2>3, <3>1 DEF OneDigit
  <2> QED BY <2>2, <2>3
<1>2. 0 \in T
  <2>1. \A d \in Nat : ~(d < 0)
    OBVIOUS
  <2>2. \A j \in 0..0 : j = 0
    OBVIOUS
  <2> QED BY <1>1, <2>1, <2>2
<1>3. ASSUME NEW i \in Nat, i \in T PROVE i + 1 \in T
  <2> SUFFICES ASSUME NEW j \in 0..(i + 1), j <= k, j <= l PROVE g[j] = h[j]
    OBVIOUS
  <2>1. j \in Nat
    OBVIOUS
  <2>2. ASSUME NEW d \in Nat, d < j PROVE g[d] = h[d]
    <3>1. d \in 0..i /\ d <= k /\ d <= l
      BY <2>1, <2>2
    <3> QED BY <1>3, <3>1
  <2> QED BY <1>1, <2>1, <2>2
<1> HIDE DEF T
<1>4. n \in T
  BY <1>2, <1>3, Induction
<1>5. n \in 0..n
  OBVIOUS
<1> QED BY <1>4, <1>5 DEF T

\* The recursion can be carried as far as any k.
LEMMA UpToExists ==
  ASSUME NEW k \in Nat
  PROVE  \E g : UpTo(g, k)
<1> DEFINE T == {i \in Nat : \E g : UpTo(g, i)}
<1>1. 0 \in T
  <2> PICK g : g = [n \in 0..0 |-> <<N(0)>>]
    OBVIOUS
  <2>1. \A n \in 0..0 : n = 0 /\ g[n] = <<N(0)>>
    OBVIOUS
  <2>2. 0 < Half
    BY HalfIs
  <2>3. UpTo(g, 0)
    BY <2>1, <2>2 DEF UpTo, OneDigit
  <2> QED BY <2>3
<1>2. ASSUME NEW i \in Nat, i \in T PROVE i + 1 \in T
  <2>1. PICK g : UpTo(g, i)
    BY <1>2
  <2>2. PICK h : h = [n \in 0..(i + 1) |-> IF n = i + 1 THEN OneDigit(g, n) ELSE g[n]]
    OBVIOUS
  <2>3. \A n \in 0..i : n \in 0..(i + 1) /\ n # i + 1 /\ h[n] = g[n]
    BY <2>2
  <2>4. ASSUME NEW n \in 0..(i + 1) PROVE h[n] = OneDigit(h, n)
    <3>1. OneDigit(h, n) = OneDigit(g, n)
      <4>1. CASE n < Half
        BY <4>1 DEF OneDigit
      <4>2. CASE ~(n < Half)
        <5>1. n \div Half \in Nat /\ n \div Half < n
          BY <4>2, Quotient
        <5>2. n \div Half \in 0..i
          BY <5>1
        <5>3. h[n \div Half] = g[n \div Half]
          BY <2>3, <5>2
        <5> QED BY <4>2, <5>3 DEF OneDigit
      <4> QED BY <4>1, <4>2
    <3>2. CASE n = i + 1
      BY <2>2, <3>1, <3>2
    <3>3. CASE n # i + 1
      <4>1. n \in 0..i
        BY <3>3
      <4> QED BY <2>1, <2>3, <3>1, <4>1 DEF UpTo
    <3> QED BY <3>2, <3>3
  <2>5. UpTo(h, i + 1)
    BY <2>4 DEF UpTo
  <2> QED BY <2>5
<1> HIDE DEF T
<1>3. k \in T
  BY <1>1, <1>2, Induction
<1> QED BY <1>3 DEF T

\* The recursion of putRemainingLength has a solution.
LEMMA RemainingLengthIs ==
  ASSUME NEW n \in Nat
  PROVE  RemainingLength[n] = OneDigit(RemainingLength, n)
<1> DEFINE Run(f) == f = [len \in Nat |-> OneDigit(f, len)]
           G(k)   == CHOOSE g : UpTo(g, k)
           f      == [k \in Nat |-> G(k)[k]]
<1>1. RemainingLength = CHOOSE g : Run(g)
  BY DEF RemainingLength, OneDigit
<1>2. \A k \in Nat : UpTo(G(k), k)
  BY UpToExists
<1>3. \A k \in Nat : f[k] = G(k)[k]
  OBVIOUS
<1>4. ASSUME NEW k \in Nat PROVE f[k] = OneDigit(f, k)
  <2> HIDE DEF G, f
  <2>1. G(k)[k] = OneDigit(G(k), k)
    <3>1. k \in 0..k
      OBVIOUS
    <3> QED BY <1>2, <3>1 DEF UpTo
  <2>2. CASE k < Half
    BY <1>3, <2>1, <2>2 DEF OneDigit
  <2>3. CASE ~(k < Half)
    <3> PICK d : d = k \div Half
      OBVIOUS
    <3>1. d \in Nat /\ d <= k /\ d <= d
      BY <2>3, Quotient
    <3>2. UpTo(G(k), k) /\ UpTo(G(d), d)
      BY <1>2, <3>1
    <3>3. G(k)[d] = G(d)[d]
      BY <3>1, <3>2, UpToUnique
    <3>4. f[k] = G(k)[k] /\ f[d] = G(d)[d]
      BY <1>3, <3>1
    <3> QED BY <2>1, <2>3, <3>3, <3>4 DEF OneDigit
  <2> QED BY <2>2, <2>3
<1>5. DOMAIN f = Nat
  OBVIOUS
<1> HIDE DEF G, f
<1>6. \E g : Run(g)
  <2>1. f = [k \in Nat |-> f[k]]
    BY <1>3, <1>5 DEF f
  <2>2. Run(f)
    BY <1>4, <2>1
  <2> QED BY <2>2
<1>7. Run(RemainingLength)
  <2> HIDE DEF Run
  <2> QED BY <1>1, <1>6
<1> QED BY <1>7

\* v is a run of the loop that reads the number in r from its last digit on.
Decodes(v, r) ==
  \A k \in 0..Len(r) :
    v[k] = IF k = 0 THEN 0 ELSE v[k - 1] * Half + (r[Len(r) + 1 - k][2] % Half)

\* r is the encoding of n: only its last digit is below Half.
Encodes(r, n) ==
  /\ r \in Seq({"number"} \X Nat) /\ Len(r) \in Nat \ {0}
  /\ \A i \in 1..Len(r) : /\ r[i][1] = "number" /\ r[i][2] \in Nat
                          /\ (r[i][2] < Half <=> i = Len(r))
  /\ \A v : Decodes(v, r) => v[Len(r)] = n

\* A number below Half is one unmarked byte.
LEMMA EncodesOne ==
  ASSUME NEW n \in Nat, n < Half, NEW r, r = <<N(n)>>
  PROVE  Encodes(r, n)
<1>1. N(n) \in {"number"} \X Nat /\ N(n)[1] = "number" /\ N(n)[2] = n
  BY DEF N
<1>2. r \in Seq({"number"} \X Nat) /\ Len(r) = 1 /\ r[1] = N(n)
  BY <1>1
<1>3. ASSUME NEW v, Decodes(v, r) PROVE v[1] = n
  <2>1. \A k \in 0..1 : v[k] = IF k = 0 THEN 0 ELSE v[k - 1] * Half + (r[2 - k][2] % Half)
    BY <1>2, <1>3 DEF Decodes
  <2>2. v[0] = 0 /\ v[1] = v[0] * Half + (n % Half)
    BY <1>1, <1>2, <2>1
  <2>3. n % Half = n /\ 0 * Half = 0
    <3>1. n \in 0..(Half - 1)
      BY HalfIs
    <3> QED BY <3>1, HalfIs, Marked
  <2> QED BY <2>2, <2>3
<1>4. \A i \in 1..1 : i = 1
  OBVIOUS
<1> QED BY <1>1, <1>2, <1>3, <1>4 DEF Encodes

\* A marked byte before the encoding of the quotient encodes the number.
LEMMA EncodesMore ==
  ASSUME NEW n \in Nat, NEW d \in Nat, NEW e \in 0..(Half - 1), n = (d * Half) + e,
         NEW s, Encodes(s, d), NEW r, r = <<N(Half + e)>> \o s
  PROVE  Encodes(r, n)
<1> PICK x : x = N(Half + e)
  OBVIOUS
<1>1. x \in {"number"} \X Nat /\ x[1] = "number" /\ x[2] = Half + e /\ Half + e \in Nat /\ ~(Half + e < Half)
  BY HalfIs DEF N
<1>2. s \in Seq({"number"} \X Nat) /\ Len(s) \in Nat \ {0}
  BY DEF Encodes
<1>3. /\ r \in Seq({"number"} \X Nat) /\ Len(r) = Len(s) + 1 /\ r[1] = x
      /\ \A i \in 1..Len(s) : r[i + 1] = s[i]
  <2>1. /\ <<x>> \in Seq({"number"} \X Nat) /\ Len(<<x>>) = 1 /\ <<x>>[1] = x
    BY <1>1
  <2>2. /\ <<x>> \o s \in Seq({"number"} \X Nat)
        /\ Len(<<x>> \o s) = Len(<<x>>) + Len(s)
        /\ \A i \in 1..(Len(<<x>>) + Len(s)) :
             (<<x>> \o s)[i] = IF i <= Len(<<x>>) THEN <<x>>[i] ELSE s[i - Len(<<x>>)]
    BY <1>2, <2>1, ConcatProperties
  <2>3. \A i \in 1..(1 + Len(s)) : (<<x>> \o s)[i] = IF i <= 1 THEN x ELSE s[i - 1]
    BY <2>1, <2>2
  <2>4. \A i \in 1..Len(s) : i + 1 \in 1..(1 + Len(s)) /\ ~(i + 1 <= 1) /\ (i + 1) - 1 = i
    BY <1>2
  <2>5. 1 \in 1..(1 + Len(s))
    BY <1>2
  <2> QED BY <1>2, <2>1, <2>2, <2>3, <2>4, <2>5
<1>4. ASSUME NEW i \in 1..Len(r)
      PROVE  r[i][1] = "number" /\ r[i][2] \in Nat /\ (r[i][2] < Half <=> i = Len(r))
  <2>1. CASE i = 1
    BY <1>1, <1>2, <1>3, <2>1
  <2>2. CASE i # 1
    <3> PICK j : j = i - 1
      OBVIOUS
    <3>1. j \in 1..Len(s) /\ j + 1 = i /\ (j = Len(s) <=> i = Len(r))
      BY <1>2, <1>3, <2>2
    <3>2. s[j][1] = "number" /\ s[j][2] \in Nat /\ (s[j][2] < Half <=> j = Len(s))
      BY <3>1 DEF Encodes
    <3> QED BY <1>3, <3>1, <3>2
  <2> QED BY <2>1, <2>2
<1>5. ASSUME NEW v, Decodes(v, r) PROVE v[Len(r)] = n
  <2>1. \A k \in 0..Len(r) :
          v[k] = IF k = 0 THEN 0 ELSE v[k - 1] * Half + (r[Len(r) + 1 - k][2] % Half)
    BY <1>5 DEF Decodes
  <2>2. \A k \in 1..Len(s) : r[Len(r) + 1 - k] = s[Len(s) + 1 - k]
    <3>1. \A k \in 1..Len(s) : Len(s) + 1 - k \in 1..Len(s) /\ (Len(s) + 1 - k) + 1 = Len(r) + 1 - k
      BY <1>2, <1>3
    <3> QED BY <1>3, <3>1
  <2>3. \A k \in 0..Len(s) : k \in 0..Len(r) /\ (k # 0 => k \in 1..Len(s))
    BY <1>2, <1>3
  <2>4. Decodes(v, s)
    BY <2>1, <2>2, <2>3 DEF Decodes
  <2>5. v[Len(s)] = d
    BY <2>4 DEF Encodes
  <2>6. Len(r) \in 0..Len(r) /\ Len(r) # 0 /\ Len(r) - 1 = Len(s) /\ Len(r) + 1 - Len(r) = 1
    BY <1>2, <1>3
  <2>7. v[Len(r)] = (d * Half) + ((Half + e) % Half)
    BY <1>1, <1>3, <2>1, <2>5, <2>6
  <2>8. (Half + e) % Half = e
    BY HalfIs, Marked
  <2> QED BY <2>7, <2>8
<1> QED BY <1>2, <1>3, <1>4, <1>5, SMTT(30) DEF Encodes

\* putRemainingLength encodes every length.
LEMMA Encoded ==
  ASSUME NEW n \in Nat
  PROVE  Encodes(RemainingLength[n], n)
<1> DEFINE T == {i \in Nat : \A j \in 0..i : Encodes(RemainingLength[j], j)}
<1>1. ASSUME NEW j \in Nat, \A d \in Nat : d < j => Encodes(RemainingLength[d], d)
      PROVE  Encodes(RemainingLength[j], j)
  <2> PICK r : r = RemainingLength[j]
    OBVIOUS
  <2>1. r = OneDigit(RemainingLength, j)
    BY RemainingLengthIs
  <2>2. CASE j < Half
    <3>1. r = <<N(j)>>
      BY <2>1, <2>2 DEF OneDigit
    <3> QED BY <2>2, <3>1, EncodesOne
  <2>3. CASE ~(j < Half)
    <3> PICK d, e, s : d = j \div Half /\ e = j % Half /\ s = RemainingLength[d]
      OBVIOUS
    <3>1. d \in Nat /\ d < j
      BY <2>3, Quotient
    <3>2. e \in 0..(Half - 1) /\ j = (d * Half) + e
      BY HalfIs, DivMod
    <3>3. r = <<N(Half + e)>> \o s
      BY <2>1, <2>3 DEF OneDigit
    <3>4. Encodes(s, d)
      BY <1>1, <3>1
    <3> QED BY <3>1, <3>2, <3>3, <3>4, EncodesMore
  <2> QED BY <2>2, <2>3
<1>2. 0 \in T
  <2>1. \A d \in Nat : ~(d < 0)
    OBVIOUS
  <2>2. \A j \in 0..0 : j = 0
    OBVIOUS
  <2> QED BY <1>1, <2>1, <2>2
<1>3. ASSUME NEW i \in Nat, i \in T PROVE i + 1 \in T
  <2> SUFFICES ASSUME NEW j \in 0..(i + 1) PROVE Encodes(RemainingLength[j], j)
    OBVIOUS
  <2>1. ASSUME NEW d \in Nat, d < j PROVE Encodes(RemainingLength[d], d)
    <3>1. d \in 0..i
      BY <2>1
    <3> QED BY <1>3, <3>1
  <2> QED BY <1>1, <2>1
<1> HIDE DEF T
<1>4. n \in T
  BY <1>2, <1>3, Induction
<1>5. n \in 0..n
  OBVIOUS
<1> QED BY <1>4, <1>5 DEF T

\* The same as one function.
Run(v, r) ==
  v = [k \in 0..Len(r) |-> IF k = 0 THEN 0 ELSE v[k - 1] * Half + (r[Len(r) + 1 - k][2] % Half)]

\* A reader finds the length that was encoded.
LEMMA DecodesRuns ==
  ASSUME NEW r, NEW n, Encodes(r, n)
  PROVE  \E v : Run(v, r)
<1> PICK L : L = Len(r)
  OBVIOUS
<1> DEFINE g(k) == r[L + 1 - k][2] % Half
           F    == [k \in 1..L |-> [a \in Nat |-> a * Half + g(k)]]
<1>1. L \in Nat
  BY DEF Encodes
<1>2. ASSUME NEW k \in 1..L PROVE g(k) \in Nat
  <2>1. L + 1 - k \in 1..L
    BY <1>1
  <2>2. r[L + 1 - k][2] \in Nat
    BY <2>1 DEF Encodes
  <2> PICK x : x = r[L + 1 - k][2]
    OBVIOUS
  <2>3. x \in Nat /\ Half \in Nat \ {0}
    BY <2>2, HalfIs
  <2>4. x % Half \in Nat
    BY <2>3
  <2> QED BY <2>4
<1> HIDE DEF g
<1>3. \A k \in 1..L : \A a \in Nat : a * Half + g(k) \in Nat
  BY <1>2, HalfIs
<1>4. F \in [1..L -> [Nat -> Nat]]
  BY <1>3
<1>5. \A k \in 1..L : \A a \in Nat : F[k][a] = a * Half + g(k)
  OBVIOUS
<1> HIDE DEF F
<1>6. PICK v \in [0..L -> Nat] : Rounds(v, L, 0, F)
  <2>1. 0 \in Nat
    OBVIOUS
  <2> QED BY <1>1, <1>4, <2>1, LoopHasRun
<1>7. \A k \in 0..L : k # 0 => F[k][v[k - 1]] = v[k - 1] * Half + g(k)
  <2>1. \A k \in 0..L : k # 0 => k \in 1..L /\ k - 1 \in 0..L
    BY <1>1
  <2> QED BY <1>5, <2>1
<1>8. v = [k \in 0..L |-> IF k = 0 THEN 0 ELSE v[k - 1] * Half + g(k)]
  <2>1. v = [k \in 0..L |-> IF k = 0 THEN 0 ELSE F[k][v[k - 1]]]
    BY <1>6 DEF Rounds
  <2> QED BY <1>7, <2>1
<1>9. v = [k \in 0..L |-> IF k = 0 THEN 0 ELSE v[k - 1] * Half + (r[L + 1 - k][2] % Half)]
  BY <1>8 DEF g
<1>10. Run(v, r)
  BY <1>9 DEF Run
<1> QED BY <1>10

\* What a broker sees of a framed body.
LEMMA FramedReads ==
  ASSUME NEW S, NEW type, NEW body \in Seq(S), Fixed(type) \in S, {"number"} \X Nat \subseteq S,
         NEW u, u = Framed(type, body)
  PROVE  WellFramed(u) /\ Body(u) = body
<1>a. PICK n, r, t, L : n = Len(body) /\ r = RemainingLength[n] /\ t = Fixed(type) /\ L = Len(r)
  OBVIOUS
<1>1. n \in Nat /\ Encodes(r, n)
  BY <1>a, Encoded
<1>2. r \in Seq({"number"} \X Nat) /\ L \in Nat \ {0}
  BY <1>a, <1>1 DEF Encodes
<1>3. r \in Seq(S) /\ <<t>> \in Seq(S) /\ Len(<<t>>) = 1
  <2>1. r \in Seq(S)
    BY <1>2, SeqMonotonic
  <2> QED BY <1>a, <2>1
<1>b. PICK h : h = <<t>> \o r
  OBVIOUS
<1>4. h \in Seq(S) /\ Len(h) = 1 + L /\ \A i \in 1..L : h[i + 1] = r[i]
  <2>1. /\ h \in Seq(S) /\ Len(h) = Len(<<t>>) + Len(r)
        /\ \A i \in 1..Len(r) : h[Len(<<t>>) + i] = r[i]
    BY <1>3, <1>b, Parts
  <2>2. \A i \in 1..L : 1 + i = i + 1
    BY <1>2
  <2> QED BY <1>a, <1>3, <2>1, <2>2
<1>5. /\ u = h \o body /\ u \in Seq(S) /\ Len(u) = 1 + L + n
      /\ \A i \in 1..L : u[i + 1] = r[i]
  <2>1. u = h \o body
    BY <1>a, <1>b DEF Framed
  <2>2. /\ u \in Seq(S) /\ Len(u) = Len(h) + Len(body)
        /\ Len(h) \in Nat /\ Len(body) \in Nat
        /\ \A i \in 1..Len(h) : u[i] = h[i]
        /\ \A i \in 1..Len(body) : u[Len(h) + i] = body[i]
    BY <1>4, <2>1, Parts
  <2>3. \A i \in 1..L : i + 1 \in 1..Len(h)
    BY <1>2, <1>4
  <2> QED BY <1>a, <1>4, <2>1, <2>2, <2>3
<1>6. LengthEnd(u) = 1 + L
  <2> PICK I : I = {i \in 2..Len(u) : u[i][1] = "number" /\ u[i][2] < Half}
    OBVIOUS
  <2>1. LengthEnd(u) = IF I # {} THEN Min(I) ELSE 0
    BY DEF LengthEnd, SelectInSubSeq
  <2>2. 1 + L \in I
    <3>1. L \in 1..L /\ 1 + L = L + 1 /\ 1 + L \in 2..Len(u)
      BY <1>1, <1>2, <1>5
    <3>2. u[1 + L] = r[L] /\ r[L][1] = "number" /\ r[L][2] < Half
      <4>1. r[L][1] = "number" /\ r[L][2] < Half
        BY <1>a, <1>1, <3>1 DEF Encodes
      <4> QED BY <1>5, <3>1, <4>1
    <3> QED BY <3>1, <3>2
  <2>3. ASSUME NEW j \in I PROVE 1 + L <= j
    <3> SUFFICES ASSUME j < 1 + L PROVE FALSE
      <4>1. j \in Nat
        OBVIOUS
      <4> QED BY <1>2, <4>1
    <3> PICK i : i = j - 1
      OBVIOUS
    <3>1. i \in 1..L /\ j = i + 1 /\ i # L
      BY <1>2
    <3>2. u[j] = r[i] /\ ~(r[i][2] < Half)
      <4>1. ~(r[i][2] < Half)
        BY <1>a, <1>1, <3>1 DEF Encodes
      <4> QED BY <1>5, <3>1, <4>1
    <3> QED BY <3>2
  <2>4. \A j \in I : j \in Int
    OBVIOUS
  <2>5. Min(I) = 1 + L
    BY <2>2, <2>3, <2>4 DEF Min
  <2> QED BY <2>1, <2>2, <2>5
<1>7. Length(u) = n
  <2> DEFINE Reads(v) == v = [k \in 0..(LengthEnd(u) - 1) |->
                                IF k = 0 THEN 0 ELSE v[k - 1] * Half + (u[LengthEnd(u) + 1 - k][2] % Half)]
  <2>1. Length(u) = (CHOOSE v : Reads(v))[LengthEnd(u) - 1]
    BY DEF Length
  <2>2. LengthEnd(u) - 1 = L /\ \A k \in 1..L : u[LengthEnd(u) + 1 - k] = r[L + 1 - k]
    <3>1. ASSUME NEW k \in 1..L PROVE u[1 + L + 1 - k] = r[L + 1 - k]
      <4> PICK i : i = L + 1 - k
        OBVIOUS
      <4>1. i \in 1..L /\ 1 + L + 1 - k = i + 1
        BY <1>2
      <4>2. u[i + 1] = r[i]
        BY <1>5, <4>1
      <4> QED BY <4>1, <4>2
    <3>2. (1 + L) - 1 = L
      BY <1>2
    <3> QED BY <1>6, <3>1, <3>2
  <2>3. \A k \in 0..L : k # 0 => k \in 1..L
    BY <1>2
  <2>4. \A v : Reads(v) <=> Run(v, r)
    <3>1. \A v : Reads(v) <=> v = [k \in 0..L |-> IF k = 0 THEN 0
                                                 ELSE v[k - 1] * Half + (r[L + 1 - k][2] % Half)]
      BY <2>2, <2>3
    <3>2. \A v : Run(v, r) <=> v = [k \in 0..L |-> IF k = 0 THEN 0
                                                  ELSE v[k - 1] * Half + (r[L + 1 - k][2] % Half)]
      BY <1>a, Zenon DEF Run
    <3> HIDE DEF Reads
    <3> QED BY <3>1, <3>2, Zenon
  <2> HIDE DEF Reads
  <2>5. \E v : Run(v, r)
    BY <1>1, DecodesRuns
  <2>6. PICK v : v = CHOOSE w : Reads(w)
    OBVIOUS
  <2>7. Run(v, r)
    BY <2>4, <2>5, <2>6
  <2>8. Decodes(v, r)
    BY <2>7 DEF Run, Decodes
  <2>9. v[L] = n
    BY <1>a, <1>1, <2>8 DEF Encodes
  <2> QED BY <2>1, <2>2, <2>6, <2>9
<1>8. WellFramed(u)
  BY <1>1, <1>2, <1>5, <1>6, <1>7 DEF WellFramed
<1>9. Body(u) = body
  <2>1. PICK k : k = LengthEnd(u) + 1
    OBVIOUS
  <2>2. h \in Seq(S) /\ u = h \o body /\ k = Len(h) + 1
    BY <1>4, <1>5, <1>6, <2>1
  <2>3. From(u, k) = body
    BY <2>2, FromParts DEF From
  <2> QED BY <2>1, <2>3 DEF Body
<1> QED BY <1>8, <1>9

-----------------------------------------------------------------------------
(* Strings *)

\* The units of a packet of characters and fixed bits in V.
Units(V) == ({"number"} \X Nat) \cup ({"char"} \X V) \cup ({"fixed"} \X V)

\* The units that hold a number, a character of V or a fixed bit of V.
LEMMA UnitsHave ==
  ASSUME NEW V
  PROVE  /\ {"number"} \X Nat \subseteq Units(V)
         /\ \A n \in Nat : N(n) \in Units(V) /\ N(n)[1] = "number" /\ N(n)[2] = n
         /\ \A a \in V : /\ <<"char", a>> \in Units(V)
                              /\ <<"char", a>>[1] = "char" /\ <<"char", a>>[2] = a
         /\ \A b \in V : Fixed(b) \in Units(V) /\ Fixed(b)[1] = "fixed" /\ Fixed(b)[2] = b
BY DEF Units, N, Fixed

\* Two bytes hold a number below Base * Base.
LEMMA ShortIs ==
  ASSUME NEW n \in Nat, n < Base * Base, NEW V, NEW u, u = Short(n)
  PROVE  /\ u \in Seq(Units(V)) /\ Len(u) = 2 /\ u[1][1] = "number" /\ u[2][1] = "number"
         /\ u[1][2] * Base + u[2][2] = n
<1> PICK B, d, e : B = Base /\ d = n \div B /\ e = n % B
  OBVIOUS
<1>1. B \in Nat \ {0} /\ n < B * B
  BY HalfIs
<1>2. d \in Nat /\ e \in 0..(B - 1) /\ n = (d * B) + e
  BY <1>1, DivMod
<1>3. d < B
  <2> SUFFICES ASSUME d >= B PROVE FALSE
    BY <1>1, <1>2
  <2>1. d * B >= B * B
    BY <1>1, <1>2
  <2> QED BY <1>1, <1>2, <2>1
<1>4. d \in 0..(B - 1)
  BY <1>1, <1>2, <1>3
<1>5. d % B = d
  BY <1>1, <1>4, Marked
<1>6. u = <<N(d), N(e)>>
  BY <1>5 DEF Short
<1>7. /\ N(d) \in Units(V) /\ N(d)[1] = "number" /\ N(d)[2] = d
      /\ N(e) \in Units(V) /\ N(e)[1] = "number" /\ N(e)[2] = e
  <2>1. d \in Nat /\ e \in Nat
    BY <1>2
  <2> QED BY <2>1, UnitsHave
<1>8. u \in Seq(Units(V)) /\ Len(u) = 2 /\ u[1] = N(d) /\ u[2] = N(e)
  BY <1>6, <1>7
<1>9. u[1][2] * B + u[2][2] = n
  BY <1>2, <1>7, <1>8
<1> QED BY <1>7, <1>8, <1>9

\* The units of the characters of a string.
LEMMA CharsAre ==
  ASSUME NEW V, NEW s \in Seq(V), NEW u, u = Chars(s)
  PROVE  /\ u \in Seq(Units(V)) /\ Len(u) = Len(s)
         /\ \A i \in 1..Len(s) : u[i] = <<"char", s[i]>> /\ u[i][1] = "char" /\ u[i][2] = s[i]
<1> PICK L : L = Len(s)
  OBVIOUS
<1>1. L \in Nat /\ \A i \in 1..L : s[i] \in V
  BY ElementOfSeq
<1>2. \A i \in 1..L : /\ <<"char", s[i]>> \in Units(V)
                      /\ <<"char", s[i]>>[1] = "char" /\ <<"char", s[i]>>[2] = s[i]
  BY <1>1, UnitsHave
<1>3. u = [i \in 1..L |-> <<"char", s[i]>>]
  BY DEF Chars
<1>4. u \in [1..L -> Units(V)] /\ \A i \in 1..L : u[i] = <<"char", s[i]>>
  BY <1>2, <1>3
<1>5. u \in Seq(Units(V)) /\ Len(u) = L
  BY <1>1, <1>4, FunctionIsSeq
<1> QED BY <1>2, <1>4, <1>5

\* A broker reads back a string that was written, and goes on after it.
LEMMA StringRead ==
  ASSUME NEW V, NEW s \in Seq(V), Len(s) < Base * Base, NEW rest \in Seq(Units(V)),
         NEW p, p = putString(s), NEW u, u = p \o rest
  PROVE  /\ p \in Seq(Units(V)) /\ u \in Seq(Units(V))
         /\ HasString(u) /\ StringIn(u) = s /\ AfterString(u) = rest
<1> PICK L, h, t : L = Len(s) /\ h = Short(L) /\ t = Chars(s)
  OBVIOUS
<1>1. L \in Nat /\ L < Base * Base
  OBVIOUS
<1>2. /\ h \in Seq(Units(V)) /\ Len(h) = 2 /\ h[1][1] = "number" /\ h[2][1] = "number"
      /\ h[1][2] * Base + h[2][2] = L
  BY <1>1, ShortIs
<1>3. /\ t \in Seq(Units(V)) /\ Len(t) = L
      /\ \A i \in 1..L : t[i] = <<"char", s[i]>> /\ t[i][1] = "char" /\ t[i][2] = s[i]
  BY CharsAre
<1>4. p = h \o t
  BY DEF putString
<1>5. /\ p \in Seq(Units(V)) /\ Len(p) = 2 + L
      /\ \A i \in 1..2 : p[i] = h[i]
      /\ \A i \in 1..L : p[2 + i] = t[i]
  <2>1. /\ p \in Seq(Units(V)) /\ Len(p) = Len(h) + Len(t)
        /\ Len(h) \in Nat /\ Len(t) \in Nat
        /\ \A i \in 1..Len(h) : p[i] = h[i]
        /\ \A i \in 1..Len(t) : p[Len(h) + i] = t[i]
    <3>1. h \in Seq(Units(V)) /\ t \in Seq(Units(V))
      BY <1>2, <1>3
    <3> QED BY <1>4, <3>1, Parts
  <2> QED BY <1>2, <1>3, <2>1
<1>6. /\ u \in Seq(Units(V)) /\ Len(u) = Len(p) + Len(rest)
      /\ Len(p) \in Nat /\ Len(rest) \in Nat
      /\ \A i \in 1..Len(p) : u[i] = p[i]
      /\ \A i \in 1..Len(rest) : u[Len(p) + i] = rest[i]
  BY <1>5, Parts
<1>7. u[1] = h[1] /\ u[2] = h[2] /\ Len(u) >= 2 + L
  <2>1. 1 \in 1..2 /\ 2 \in 1..2 /\ 1 \in 1..Len(p) /\ 2 \in 1..Len(p)
    BY <1>1, <1>5
  <2> QED BY <1>1, <1>5, <1>6, <2>1
<1>8. \A i \in 1..L : u[2 + i] = t[i]
  <2>1. \A i \in 1..L : 2 + i \in 1..Len(p)
    BY <1>1, <1>5
  <2> QED BY <1>5, <1>6, <2>1
<1>9. Number(u) = L
  BY <1>2, <1>7 DEF Number
<1>10. AllAre(SubSeq(u, 1, 2), "number")
  <2>1. \A i \in 1..2 : SubSeq(u, 1, 2)[i] = u[i] /\ Len(SubSeq(u, 1, 2)) = 2
    BY <1>1, <1>6, <1>7
  <2>2. \A i \in 1..2 : i = 1 \/ i = 2
    OBVIOUS
  <2> QED BY <1>2, <1>7, <2>1, <2>2 DEF AllAre
<1> PICK b : b = SubSeq(u, 3, 2 + L)
  OBVIOUS
<1>11. b \in Seq(Units(V)) /\ Len(b) = L /\ \A i \in 1..L : b[i] = t[i]
  <2>1. 3 \in Nat \ {0} /\ 2 + L = 3 + L - 1 /\ 2 + L <= Len(u)
    BY <1>1, <1>7
  <2>2. b \in Seq(Units(V)) /\ Len(b) = L /\ \A j \in 1..L : b[j] = u[3 + j - 1]
    BY <1>1, <1>6, <2>1, Cut
  <2>3. \A i \in 1..L : 3 + i - 1 = 2 + i
    BY <1>1
  <2> QED BY <1>8, <2>2, <2>3, ZenonT(60)
<1>12. AllAre(b, "char")
  BY <1>3, <1>11 DEF AllAre
<1>13. HasString(u)
  <2>1. Len(u) >= 2
    BY <1>1, <1>7
  <2> QED BY <1>7, <1>9, <1>10, <1>12, <2>1 DEF HasString
<1>14. StringIn(u) = s
  <2>1. StringIn(u) = Text(b)
    BY <1>9 DEF StringIn
  <2>2. Text(b) = [i \in 1..L |-> s[i]]
    BY <1>3, <1>11 DEF Text
  <2>3. s = [i \in 1..L |-> s[i]]
    BY LenProperties
  <2> QED BY <2>1, <2>2, <2>3
<1>15. AfterString(u) = rest
  <2>1. AfterString(u) = From(u, 3 + L)
    BY <1>9 DEF AfterString
  <2>2. PICK k : k = 3 + L
    OBVIOUS
  <2>3. k = Len(p) + 1
    BY <1>1, <1>5, <2>2
  <2>4. From(u, k) = rest
    BY <1>5, <2>3, FromParts DEF From
  <2> QED BY <2>1, <2>2, <2>4
<1> QED BY <1>5, <1>6, <1>13, <1>14, <1>15

\* A sequence that ends a longer one can be split off with what precedes it.
LEMMA Regrouped ==
  ASSUME NEW S, NEW s \in Seq(S), NEW t \in Seq(S), NEW z \in Seq(S), NEW a, a = s \o t,
         NEW b, b = a \o z, NEW d, d = t \o z
  PROVE  b = s \o d /\ b \in Seq(S) /\ d \in Seq(S) /\ a \in Seq(S)
<1>1. a \in Seq(S) /\ d \in Seq(S)
  OBVIOUS
<1>2. b \in Seq(S)
  BY <1>1
<1>3. (s \o t) \o z = s \o (t \o z)
  BY ConcatAssociative
<1> QED BY <1>1, <1>2, <1>3

\* A reader finds string s at the head of u, if s is given, and then the rest.
FoundAt(u, s, rest) ==
  IF Given(s) THEN HasString(u) /\ StringIn(u) = s /\ AfterString(u) = rest ELSE u = rest

\* An optional string is read back where it is given, and leaves no trace
\* where it is not.
LEMMA OptionalRead ==
  ASSUME NEW V, NEW s \in Seq(V), Len(s) < Base * Base, NEW rest \in Seq(Units(V)),
         NEW p, p = Optional(s), NEW u, u = p \o rest
  PROVE  p \in Seq(Units(V)) /\ u \in Seq(Units(V)) /\ FoundAt(u, s, rest)
<1>1. CASE Given(s)
  <2>1. p = putString(s)
    BY <1>1 DEF Given, Optional
  <2>2. /\ p \in Seq(Units(V)) /\ u \in Seq(Units(V))
        /\ HasString(u) /\ StringIn(u) = s /\ AfterString(u) = rest
    BY <2>1, StringRead, ZenonT(60)
  <2> QED BY <1>1, <2>2 DEF FoundAt
<1>2. CASE ~Given(s)
  <2>1. p = << >>
    BY <1>2 DEF Given, Optional
  <2>2. p \in Seq(Units(V)) /\ u = rest
    BY <2>1
  <2> QED BY <1>2, <2>2 DEF FoundAt
<1> QED BY <1>1, <1>2

\* Settings of characters in X that fit their fields.
Fitting(o, X) ==
  /\ o.client_id \in Seq(X) /\ Fits(o.client_id)
  /\ o.username \in Seq(X) /\ Fits(o.username)
  /\ o.password \in Seq(X) /\ Fits(o.password)
  /\ o.keepalive \in 0..(Base * Base - 1)

\* A broker reads from a CONNECT packet what went into it.
LEMMA ConnectRead ==
  ASSUME NEW o, NEW X, Fitting(o, X), NEW q, q = ConnectPacket(o)
  PROVE  WellFramed(q) /\ HasString(Body(q)) /\ ReadsConnect(AfterString(Body(q)), o)
<1>a. PICK given, V : given = <<Given(o.username), Given(o.password)>>
                      /\ V = X \cup {"CONNECT", "level4", "MQTT", given}
  OBVIOUS
<1>b. PICK A, B, K, I, U, W : /\ A = putString(<<"MQTT">>) /\ B = <<Fixed("level4"), Flags(o)>>
                              /\ K = Short(o.keepalive) /\ I = putString(o.client_id)
                              /\ U = Optional(o.username) /\ W = Optional(o.password)
  OBVIOUS
<1>c. PICK u, i, k, v, b : /\ u = U \o W /\ i = I \o u /\ k = K \o i /\ v = B \o k /\ b = A \o v
  OBVIOUS
<1>e. /\ o.password \in Seq(V) /\ o.username \in Seq(V) /\ o.client_id \in Seq(V)
      /\ Len(o.password) < Base * Base /\ Len(o.username) < Base * Base
      /\ Len(o.client_id) < Base * Base
  <2>1. X \subseteq V
    BY <1>a
  <2>2. Seq(X) \subseteq Seq(V)
    BY <2>1, SeqMonotonic
  <2> QED BY <2>2 DEF Fitting, Fits
<1> DEFINE S == Units(V)
<1> HIDE DEF S
<1>1. /\ Fixed("CONNECT") \in S /\ Fixed("level4") \in S /\ Fixed(given) \in S
      /\ {"number"} \X Nat \subseteq S
  BY <1>a, UnitsHave DEF S
<1>2. 1 < Base * Base /\ o.keepalive \in Nat /\ o.keepalive < Base * Base
  <2>1. Base \in Nat /\ Base >= 4
    BY WireAssumption
  <2>2. Base * Base >= Base /\ Base * Base \in Nat
    BY <2>1
  <2> QED BY <2>1, <2>2 DEF Fitting
<1>3. /\ W \in Seq(S)
      /\ Given(o.password) => HasString(W) /\ StringIn(W) = o.password /\ AfterString(W) = << >>
      /\ ~Given(o.password) => W = << >>
  <2>a. PICK w, e : e = << >> /\ w = W \o e
    OBVIOUS
  <2>1. e \in Seq(Units(V)) /\ o.password \in Seq(V) /\ Len(o.password) < Base * Base
    BY <1>e, <2>a
  <2>2. W = Optional(o.password) /\ w = W \o e
    BY <1>b, <2>a
  <2>3. W \in Seq(Units(V)) /\ w \in Seq(Units(V)) /\ FoundAt(w, o.password, e)
    BY <2>1, <2>2, OptionalRead
  <2>4. w = W
    BY <2>a, <2>3
  <2> QED BY <2>a, <2>3, <2>4 DEF S, FoundAt
<1>4. /\ U \in Seq(S) /\ u \in Seq(S)
      /\ Given(o.username) => HasString(u) /\ StringIn(u) = o.username /\ AfterString(u) = W
      /\ ~Given(o.username) => u = W
  <2>1. W \in Seq(Units(V)) /\ o.username \in Seq(V) /\ Len(o.username) < Base * Base
    BY <1>3, <1>e DEF S
  <2>2. U = Optional(o.username) /\ u = U \o W
    BY <1>b, <1>c
  <2>3. U \in Seq(Units(V)) /\ u \in Seq(Units(V)) /\ FoundAt(u, o.username, W)
    BY <2>1, <2>2, OptionalRead
  <2> QED BY <2>3 DEF S, FoundAt
<1>5. I \in Seq(S) /\ i \in Seq(S) /\ HasString(i) /\ StringIn(i) = o.client_id /\ AfterString(i) = u
  <2>a. PICK s : s = o.client_id
    OBVIOUS
  <2>1. u \in Seq(Units(V)) /\ s \in Seq(V) /\ Len(s) < Base * Base
    BY <1>4, <1>e, <2>a DEF S
  <2>2. I = putString(s) /\ i = I \o u
    BY <1>b, <1>c, <2>a
  <2>3. /\ I \in Seq(Units(V)) /\ i \in Seq(Units(V))
        /\ HasString(i) /\ StringIn(i) = s /\ AfterString(i) = u
    BY <2>1, <2>2, StringRead, ZenonT(60)
  <2> QED BY <2>a, <2>3 DEF S
<1>6. K \in Seq(S) /\ Len(K) = 2 /\ K[1][2] * Base + K[2][2] = o.keepalive
  <2>1. K = Short(o.keepalive)
    BY <1>b
  <2>2. /\ K \in Seq(Units(V)) /\ Len(K) = 2 /\ K[1][1] = "number" /\ K[2][1] = "number"
        /\ K[1][2] * Base + K[2][2] = o.keepalive
    BY <1>2, <2>1, ShortIs
  <2> QED BY <2>2 DEF S
<1>7. B \in Seq(S) /\ Len(B) = 2 /\ B[2] = Fixed(given)
  <2>1. B = <<Fixed("level4"), Fixed(given)>>
    BY <1>a, <1>b DEF Flags
  <2> QED BY <1>1, <2>1
<1>d. u = U \o W /\ i = I \o u /\ k = K \o i /\ v = B \o k /\ b = A \o v
  BY <1>c
<1>8. k \in Seq(S) /\ v \in Seq(S) /\ Number(k) = o.keepalive /\ v[2] = Fixed(given)
  <2>1. /\ k \in Seq(S) /\ Len(k) = Len(K) + Len(i) /\ Len(K) \in Nat /\ Len(i) \in Nat
        /\ \A j \in 1..Len(K) : k[j] = K[j]
        /\ \A j \in 1..Len(i) : k[Len(K) + j] = i[j]
    <3>1. K \in Seq(S) /\ i \in Seq(S) /\ k = K \o i
      BY <1>d, <1>5, <1>6
    <3> QED BY <3>1, Parts
  <2>2. /\ v \in Seq(S) /\ Len(v) = Len(B) + Len(k) /\ Len(B) \in Nat /\ Len(k) \in Nat
        /\ \A j \in 1..Len(B) : v[j] = B[j]
        /\ \A j \in 1..Len(k) : v[Len(B) + j] = k[j]
    <3>1. B \in Seq(S) /\ k \in Seq(S) /\ v = B \o k
      BY <1>d, <1>7, <2>1
    <3> QED BY <3>1, Parts
  <2>3. k[1] = K[1] /\ k[2] = K[2] /\ v[2] = B[2]
    BY <1>6, <1>7, <2>1, <2>2
  <2> QED BY <1>6, <1>7, <2>1, <2>2, <2>3 DEF Number
<1>9. From(v, 3) = k /\ From(v, 5) = i
  <2>1. PICK n : n = 3 /\ n = Len(B) + 1
    BY <1>7
  <2>2. B \in Seq(S) /\ k \in Seq(S) /\ v = B \o k /\ n = Len(B) + 1
    BY <1>d, <1>7, <1>8, <2>1
  <2>3. From(v, n) = k
    BY <2>2, FromParts DEF From
  <2>a. PICK h, x : h = B \o K /\ x = h \o i
    OBVIOUS
  <2>4. h \in Seq(S) /\ Len(h) = 4
    <3>1. B \in Seq(S) /\ K \in Seq(S) /\ h = B \o K
      BY <1>6, <1>7, <2>a
    <3>2. /\ h \in Seq(S) /\ Len(h) = Len(B) + Len(K) /\ Len(B) \in Nat /\ Len(K) \in Nat
          /\ \A j \in 1..Len(B) : h[j] = B[j]
          /\ \A j \in 1..Len(K) : h[Len(B) + j] = K[j]
      BY <3>1, Parts
    <3> QED BY <1>6, <1>7, <3>2
  <2>5. B \in Seq(S) /\ K \in Seq(S) /\ i \in Seq(S) /\ h = B \o K /\ x = h \o i /\ k = K \o i
    BY <1>5, <1>6, <1>7, <1>d, <2>a
  <2>6. x = B \o k /\ x \in Seq(S) /\ k \in Seq(S) /\ h \in Seq(S)
    BY <2>5, Regrouped
  <2>7. PICK l : l = 5 /\ l = Len(h) + 1
    BY <2>4
  <2>8. h \in Seq(S) /\ i \in Seq(S) /\ v = h \o i /\ l = Len(h) + 1
    BY <1>d, <1>5, <2>4, <2>5, <2>6, <2>7
  <2>9. From(v, l) = i
    BY <2>8, FromParts DEF From
  <2> QED BY <2>1, <2>3, <2>7, <2>9
<1>10. A \in Seq(S) /\ b \in Seq(S) /\ HasString(b) /\ AfterString(b) = v
  <2>a. PICK s : s = <<"MQTT">>
    OBVIOUS
  <2>1. v \in Seq(Units(V)) /\ s \in Seq(V) /\ Len(s) < Base * Base
    <3>1. s \in Seq(V) /\ Len(s) = 1
      <4>1. "MQTT" \in V
        BY <1>a
      <4> QED BY <2>a, <4>1
    <3> QED BY <1>2, <1>8, <3>1 DEF S
  <2>2. A = putString(s) /\ b = A \o v
    BY <1>b, <1>c, <2>a
  <2>3. /\ A \in Seq(Units(V)) /\ b \in Seq(Units(V))
        /\ HasString(b) /\ StringIn(b) = s /\ AfterString(b) = v
    BY <2>1, <2>2, StringRead, ZenonT(60)
  <2> QED BY <2>3 DEF S
<1>11. q = Framed("CONNECT", b)
  <2>a. PICK b1, b2, b3, b4, x : b1 = A \o B /\ b2 = b1 \o K /\ b3 = b2 \o I /\ b4 = b3 \o U /\ x = b4 \o W
    OBVIOUS
  <2>1. q = Framed("CONNECT", x)
    BY <1>b, <2>a DEF ConnectPacket
  <2>2. b1 \in Seq(S) /\ b2 \in Seq(S) /\ b3 \in Seq(S)
    <3>1. b1 \in Seq(S)
      BY <1>7, <1>10, <2>a
    <3>2. b2 \in Seq(S)
      BY <1>6, <3>1, <2>a
    <3> QED BY <1>5, <3>1, <3>2, <2>a
  <2>3. b3 \in Seq(S) /\ U \in Seq(S) /\ W \in Seq(S) /\ b4 = b3 \o U /\ x = b4 \o W /\ u = U \o W
    BY <1>3, <1>4, <1>d, <2>2, <2>a
  <2>4. x = b3 \o u /\ x \in Seq(S) /\ u \in Seq(S) /\ b4 \in Seq(S)
    BY <2>3, Regrouped
  <2>5. b2 \in Seq(S) /\ I \in Seq(S) /\ u \in Seq(S) /\ b3 = b2 \o I /\ x = b3 \o u /\ i = I \o u
    BY <1>5, <1>d, <2>2, <2>4, <2>a
  <2>6. x = b2 \o i /\ x \in Seq(S) /\ i \in Seq(S) /\ b3 \in Seq(S)
    BY <2>5, Regrouped
  <2>7. b1 \in Seq(S) /\ K \in Seq(S) /\ i \in Seq(S) /\ b2 = b1 \o K /\ x = b2 \o i /\ k = K \o i
    BY <1>6, <1>d, <2>2, <2>6, <2>a
  <2>8. x = b1 \o k /\ x \in Seq(S) /\ k \in Seq(S) /\ b2 \in Seq(S)
    BY <2>7, Regrouped
  <2>9. A \in Seq(S) /\ B \in Seq(S) /\ k \in Seq(S) /\ b1 = A \o B /\ x = b1 \o k /\ v = B \o k
    BY <1>7, <1>10, <1>d, <2>8, <2>a
  <2>10. x = A \o v /\ x \in Seq(S) /\ v \in Seq(S) /\ b1 \in Seq(S)
    BY <2>9, Regrouped
  <2> QED BY <1>d, <2>1, <2>10
<1>12. WellFramed(q) /\ Body(q) = b
  <2>1. b \in Seq(S) /\ Fixed("CONNECT") \in S /\ {"number"} \X Nat \subseteq S /\ q = Framed("CONNECT", b)
    BY <1>1, <1>10, <1>11
  <2> QED BY <2>1, FramedReads
<1>13. ReadsConnect(v, o)
  <2>1. v[2] = Fixed(<<Given(o.username), Given(o.password)>>)
    BY <1>a, <1>8
  <2> QED BY <1>3, <1>4, <1>5, <1>8, <1>9, <2>1, Zenon DEF ReadsConnect
<1> QED BY <1>10, <1>12, <1>13

-----------------------------------------------------------------------------
(* The CONNECT packet *)

\* Characters of settings. The literals are named because the provers do not
\* know them to be in STRING.
Characters == STRING \cup {"/etc/hids/model.bin", "127.0.0.1", "hids", "hids-", " # remark"}

\* The string settings are strings.
Strings == DOMAIN c = Keys /\ \A k \in StringKeys : c[k] \in Seq(Characters)

\* The CONNECT packet is made of the settings in effect.
ConnectInv ==
  /\ Strings
  /\ connect # << >> => connect = ConnectPacket(Options) /\ step \notin {"args", "config"}

\* Sequences of them.
LEMMA CharactersHave ==
  /\ << >> \in Seq(Characters) /\ Seq(STRING) \subseteq Seq(Characters)
  /\ <<"/etc/hids/model.bin">> \in Seq(Characters) /\ <<"127.0.0.1">> \in Seq(Characters)
  /\ <<"hids">> \in Seq(Characters) /\ <<"hids-">> \in Seq(Characters)
  /\ " # remark" \in Characters
<1>1. STRING \subseteq Characters
  BY DEF Characters
<1>2. Seq(STRING) \subseteq Seq(Characters)
  <2> SUFFICES ASSUME NEW s \in Seq(STRING) PROVE s \in Seq(Characters)
    OBVIOUS
  <2> QED BY <1>1, SeqMonotonic
<1>3. /\ "/etc/hids/model.bin" \in Characters /\ "127.0.0.1" \in Characters
      /\ "hids" \in Characters /\ "hids-" \in Characters /\ " # remark" \in Characters
  BY DEF Characters
<1>4. << >> \in Seq(Characters) /\ \A a \in Characters : <<a>> \in Seq(Characters)
  OBVIOUS
<1> QED BY <1>2, <1>3, <1>4

\* The defaults are strings.
LEMMA InitConnect == Init => ConnectInv
<1> SUFFICES ASSUME Init PROVE ConnectInv
  OBVIOUS
<1>1. c = [k \in Keys |-> Default(k)] /\ connect = << >>
  BY DEF Init, LoadInit
<1>2. /\ Default("model_path") = <<"/etc/hids/model.bin">>
      /\ Default("mqtt_host") = <<"127.0.0.1">>
      /\ Default("mqtt_topic_prefix") = <<"hids">>
  BY DEF Default, StringKeys, BoolKeys
<1>3. /\ Default("host") = << >> /\ Default("mqtt_client_id") = << >>
      /\ Default("mqtt_username") = << >> /\ Default("mqtt_password") = << >>
  BY DEF Default, StringKeys, BoolKeys
<1>4. \A k \in StringKeys : Default(k) \in Seq(Characters)
  BY <1>2, <1>3, CharactersHave DEF StringKeys
<1>5. StringKeys \subseteq Keys
  BY DEF Keys
<1> QED BY <1>1, <1>4, <1>5 DEF ConnectInv, Strings

\* A line of the file gives a string setting a string.
LEMMA SpellingIs ==
  ASSUME NEW l \in Lines, l.key \in Keys
  PROVE  Spelling(l) \in Seq(Characters)
<1>1. l.tok.spelling \in Seq(Characters)
  BY ConfigAssumption, CharactersHave
<1>2. Append(l.tok.spelling, " # remark") \in Seq(Characters)
  BY <1>1, CharactersHave, AppendProperties
<1> QED BY <1>1, <1>2, Zenon DEF Spelling

\* load() keeps them so, the identity defaults included.
LEMMA LoadStrings == ASSUME Strings, Load PROVE Strings'
<1>1. CASE Open
  BY <1>1 DEF Open, Strings
<1>2. CASE Finish
  <2>1. c' = [c EXCEPT !["host"] = Host(c), !["mqtt_client_id"] = ClientId(c)]
    BY <1>2 DEF Finish
  <2>2. "host" \in StringKeys /\ "mqtt_client_id" \in StringKeys /\ StringKeys \subseteq Keys
    BY DEF StringKeys, Keys
  <2>3. Host(c) \in Seq(Characters)
    BY <2>2, ConfigAssumption, CharactersHave DEF Host, Strings
  <2>4. ClientId(c) \in Seq(Characters)
    <3>1. <<"hids-">> \in Seq(Characters)
      BY CharactersHave
    <3>2. <<"hids-">> \o Host(c) \in Seq(Characters)
      BY <2>3, <3>1, ConcatProperties
    <3> QED BY <2>2, <3>2 DEF ClientId, Strings
  <2>5. DOMAIN c' = Keys /\ \A k \in StringKeys : c'[k] \in {c[k], Host(c), ClientId(c)}
    BY <2>1, <2>2 DEF Strings
  <2> QED BY <2>3, <2>4, <2>5 DEF Strings
<1>3. ASSUME NEW l \in Lines, ReadLine(l) PROVE Strings'
  <2>1. CASE c' = c
    BY <2>1 DEF Strings
  <2>2. CASE l.key \in Keys /\ c' = [c EXCEPT ![l.key] = Convert(l)]
    <3>1. DOMAIN c' = Keys /\ \A k \in Keys : c'[k] = IF k = l.key THEN Convert(l) ELSE c[k]
      BY <2>2 DEF Strings
    <3>2. l.key \in StringKeys => Convert(l) \in Seq(Characters)
      <4> SUFFICES ASSUME l.key \in StringKeys PROVE Convert(l) \in Seq(Characters)
        OBVIOUS
      <4>1. l.key \notin BoolKeys
        BY DEF StringKeys, BoolKeys
      <4>2. Convert(l) = Spelling(l)
        BY <4>1 DEF Convert
      <4> QED BY <2>2, <4>2, SpellingIs
    <3>3. StringKeys \subseteq Keys
      BY DEF Keys
    <3> QED BY <3>1, <3>2, <3>3 DEF Strings
  <2> QED BY <1>3, <2>1, <2>2 DEF ReadLine
<1> QED BY <1>1, <1>2, <1>3 DEF Load

\* Every step of main() keeps to this.
LEMMA NextConnect == ASSUME ConnectInv, [Next]_vars PROVE ConnectInv'
<1>1. ASSUME c' = c PROVE Strings' /\ Options' = Options
  BY <1>1 DEF ConnectInv, Strings, Options
<1>2. CASE UNCHANGED vars
  BY <1>1, <1>2 DEF vars, configVars, ConnectInv
<1>3. CASE Args
  BY <1>1, <1>3 DEF Args, End, configVars, ConnectInv
<1>4. CASE LoadConfig
  BY <1>4, LoadStrings DEF LoadConfig, ConnectInv
<1>5. CASE SetupFails
  BY <1>1, <1>5 DEF SetupFails, End, configVars, ConnectInv
<1>6. CASE Setup
  BY <1>1, <1>6 DEF Setup, configVars, ConnectInv
<1>7. CASE printRoutes
  BY <1>1, <1>7 DEF printRoutes, End, configVars, ConnectInv
<1>8. CASE RunConnect
  BY <1>1, <1>8 DEF RunConnect, configVars, ConnectInv
<1>9. CASE Sample
  BY <1>1, <1>9 DEF Sample, configVars, ConnectInv
<1>10. ASSUME NEW confidence \in Confidences, NEW alert \in BOOLEAN, Infer(confidence, alert)
       PROVE  ConnectInv'
  BY <1>1, <1>10 DEF Infer, configVars, ConnectInv
<1>11. CASE Publish
  BY <1>1, <1>11 DEF Publish, configVars, ConnectInv
<1> QED BY <1>2, <1>3, <1>4, <1>5, <1>6, <1>7, <1>8, <1>9, <1>10, <1>11 DEF Next

\* The CONNECT packet carries the settings.
LEMMA PacketUnderstood == ConnectInv => ConnectUnderstood
<1> SUFFICES ASSUME ConnectInv, connect # << >>, Options.keepalive \in 0..(Base * Base - 1),
                    Fits(Options.client_id), Fits(Options.username), Fits(Options.password)
             PROVE  /\ WellFramed(connect)
                    /\ HasString(Body(connect)) /\ ReadsConnect(AfterString(Body(connect)), Options)
  BY DEF ConnectUnderstood
<1>1. connect = ConnectPacket(Options)
  BY DEF ConnectInv
<1>2. /\ Options.client_id \in Seq(Characters) /\ Options.username \in Seq(Characters)
      /\ Options.password \in Seq(Characters)
  BY DEF ConnectInv, Strings, Options, StringKeys
<1>3. Fitting(Options, Characters)
  BY <1>2 DEF Fitting
<1> QED BY <1>1, <1>3, ConnectRead

\* A broker reads from the CONNECT packet the client id, the credentials and
\* the keepalive in effect, whatever they are, as long as they fit.
THEOREM BrokerReadsSettings == Spec => []ConnectUnderstood
BY InitConnect, NextConnect, PacketUnderstood, PTL DEF Spec

-----------------------------------------------------------------------------
(* JSON strings *)

\* g[j] is what jsonEscape has written after j characters of s.
Pieces(g, s) == g[0] = << >> /\ \A j \in 1..Len(s) : g[j] = g[j - 1] \o Escaped(s[j])

\* A character is written as itself or after a backslash.
LEMMA EscapedIs ==
  ASSUME NEW V, "backslash" \in V, NEW a \in V
  PROVE  /\ Escaped(a) \in Seq(V)
         /\ \/ Escaped(a) = <<"backslash", a>> /\ a \in Escapes
            \/ Escaped(a) = <<a>> /\ a \notin Escapes
<1>1. CASE a \in Escapes
  <2>1. Escaped(a) = <<"backslash", a>>
    BY <1>1 DEF Escaped
  <2>2. <<"backslash", a>> \in Seq(V)
    OBVIOUS
  <2> QED BY <1>1, <2>1, <2>2
<1>2. CASE a \notin Escapes
  <2>1. Escaped(a) = <<a>>
    BY <1>2 DEF Escaped
  <2>2. <<a>> \in Seq(V)
    OBVIOUS
  <2> QED BY <1>2, <2>1, <2>2
<1> QED BY <1>1, <1>2

\* jsonEscape appends what each character is written as.
LEMMA EscapeIs ==
  ASSUME NEW V, "backslash" \in V, NEW s \in Seq(V)
  PROVE  \E g \in [0..Len(s) -> Seq(V)] : Pieces(g, s) /\ jsonEscape(s) = g[Len(s)]
<1>a. PICK n, q : n = Len(s) /\ q = [i \in 1..n |-> Escaped(s[i])]
  OBVIOUS
<1>1. n \in Nat /\ \A i \in 1..n : s[i] \in V
  BY <1>a, ElementOfSeq
<1>2. \A i \in 1..n : q[i] = Escaped(s[i]) /\ q[i] \in Seq(V)
  BY <1>1, <1>a, EscapedIs
<1>3. q \in [1..n -> Seq(V)]
  BY <1>2, <1>a
<1>4. Len(q) = n /\ q \in Seq(Seq(V))
  BY <1>1, <1>3, FunctionIsSeq
<1>5. jsonEscape(s) = FlattenSeq(q)
  BY <1>a DEF jsonEscape
<1>6. CASE n = 0
  <2>1. q = << >>
    BY <1>4, <1>6, EmptySeq
  <2>2. jsonEscape(s) = << >>
    BY <1>4, <1>5, <1>6, <2>1 DEF FlattenSeq
  <2>3. PICK g : g = [j \in 0..n |-> << >>]
    OBVIOUS
  <2>4. g \in [0..n -> Seq(V)] /\ g[0] = << >> /\ g[n] = << >> /\ 1..n = {}
    BY <1>6, <2>3
  <2> QED BY <1>a, <2>2, <2>4 DEF Pieces
<1>7. CASE n # 0
  <2> DEFINE Flattens(f) == f = [i \in 1..n |-> IF i = 1 THEN q[i] ELSE f[i - 1] \o q[i]]
             F == [k \in 1..n |-> [a \in Seq(V) |-> a \o q[k]]]
  <2>1. F \in [1..n -> [Seq(V) -> Seq(V)]] /\ << >> \in Seq(V)
    BY <1>2
  <2>2. \A k \in 1..n : \A a \in Seq(V) : F[k][a] = a \o q[k]
    OBVIOUS
  <2> HIDE DEF F
  <2>3. PICK w \in [0..n -> Seq(V)] : Rounds(w, n, << >>, F)
    BY <1>1, <2>1, LoopHasRun
  <2>4. w[0] = << >> /\ \A k \in 1..n : w[k] = w[k - 1] \o q[k]
    <3>1. w = [k \in 0..n |-> IF k = 0 THEN << >> ELSE F[k][w[k - 1]]]
      BY <2>3 DEF Rounds
    <3>2. 0 \in 0..n /\ \A k \in 1..n : k \in 0..n /\ k # 0 /\ k - 1 \in 0..n
      BY <1>1
    <3>3. w[0] = << >> /\ \A k \in 1..n : w[k] = F[k][w[k - 1]]
      BY <3>1, <3>2
    <3> QED BY <2>2, <2>3, <3>2, <3>3
  <2>5. Flattens([i \in 1..n |-> w[i]])
    <3>1. PICK h : h = [i \in 1..n |-> w[i]]
      OBVIOUS
    <3>2. ASSUME NEW i \in 1..n PROVE h[i] = IF i = 1 THEN q[i] ELSE h[i - 1] \o q[i]
      <4>1. CASE i = 1
        <5>1. w[i] = << >> \o q[i]
          <6>1. i - 1 = 0 /\ w[i] = w[i - 1] \o q[i]
            <7>1. i - 1 = 0
              BY <4>1
            <7>2. w[i] = w[i - 1] \o q[i]
              BY <2>4, <3>2, Zenon
            <7> QED BY <7>1, <7>2
          <6> QED BY <2>4, <6>1
        <5>2. << >> \o q[i] = q[i]
          BY <1>2
        <5> QED BY <3>1, <4>1, <5>1, <5>2
      <4>2. CASE i # 1
        <5>1. i - 1 \in 1..n
          BY <1>1, <4>2
        <5> QED BY <2>4, <3>1, <4>2, <5>1
      <4> QED BY <4>1, <4>2
    <3> QED BY <3>1, <3>2
  <2> HIDE DEF Flattens
  <2>6. PICK f : f = CHOOSE h : Flattens(h)
    OBVIOUS
  <2>7. jsonEscape(s) = f[n]
    <3>1. FlattenSeq(q) = (CHOOSE h : Flattens(h))[n]
      BY <1>4, <1>7, Zenon DEF FlattenSeq, Flattens
    <3> QED BY <1>5, <2>6, <3>1
  <2>8. Flattens(f)
    BY <2>5, <2>6
  <2>9. \A i \in 1..n : f[i] = IF i = 1 THEN q[i] ELSE f[i - 1] \o q[i]
    BY <2>8 DEF Flattens
  <2>10. ASSUME NEW i \in 1..n PROVE f[i] = w[i]
    <3> DEFINE T == {k \in Nat : k + 1 \in 1..n => f[k + 1] = w[k + 1]}
    <3>1. 0 \in T
      <4> SUFFICES ASSUME 0 + 1 \in 1..n PROVE f[0 + 1] = w[0 + 1]
        OBVIOUS
      <4>1. f[1] = q[1] /\ w[1] = << >> \o q[1]
        <5>1. 1 \in 1..n /\ 1 - 1 = 0
          BY <1>1
        <5>2. w[1] = w[1 - 1] \o q[1] /\ f[1] = q[1]
          BY <2>4, <2>9, <5>1
        <5> QED BY <2>4, <5>1, <5>2
      <4>2. << >> \o q[1] = q[1]
        <5>1. q[1] \in Seq(V)
          BY <1>1, <1>2
        <5> QED BY <5>1
      <4> QED BY <4>1, <4>2
    <3>2. ASSUME NEW k \in Nat, k \in T PROVE k + 1 \in T
      <4> SUFFICES ASSUME k + 1 + 1 \in 1..n PROVE f[k + 1 + 1] = w[k + 1 + 1]
        OBVIOUS
      <4>1. PICK l : l = k + 1 + 1
        OBVIOUS
      <4>2. l \in 1..n /\ l # 1 /\ l - 1 = k + 1 /\ k + 1 \in 1..n
        BY <1>1, <3>2, <4>1
      <4>3. f[l] = f[k + 1] \o q[l] /\ w[l] = w[k + 1] \o q[l]
        BY <2>4, <2>9, <4>2
      <4> QED BY <3>2, <4>1, <4>2, <4>3
    <3> HIDE DEF T
    <3>3. Nat \subseteq T
      BY <3>1, <3>2, Induction
    <3>4. i - 1 \in T /\ (i - 1) + 1 = i
      BY <3>3
    <3> QED BY <3>4 DEF T
  <2>11. jsonEscape(s) = w[n]
    BY <1>1, <1>7, <2>7, <2>10
  <2>12. Pieces(w, s)
    BY <1>2, <1>a, <2>4 DEF Pieces
  <2> QED BY <1>a, <2>3, <2>11, <2>12
<1> QED BY <1>6, <1>7

\* h begins with f.
Starts(h, f) == Len(f) <= Len(h) /\ \A i \in 1..Len(f) : h[i] = f[i]

\* What is written stays.
LEMMA PiecesGrow ==
  ASSUME NEW V, "backslash" \in V, NEW s \in Seq(V), NEW g \in [0..Len(s) -> Seq(V)], Pieces(g, s),
         NEW j \in 0..Len(s)
  PROVE  Starts(g[Len(s)], g[j])
<1>a. PICK n : n = Len(s)
  OBVIOUS
<1> DEFINE Begins(k) == /\ Len(g[j]) <= Len(g[k]) /\ \A i \in 1..Len(g[j]) : g[k][i] = g[j][i]
           T == {d \in Nat : j + d <= n => Begins(j + d)}
<1>1. n \in Nat /\ j \in 0..n /\ \A k \in 0..n : g[k] \in Seq(V) /\ Len(g[k]) \in Nat
  BY <1>a
<1>2. 0 \in T
  <2>1. j + 0 = j
    BY <1>1
  <2>2. Begins(j)
    BY <1>1
  <2> QED BY <2>1, <2>2
<1>3. ASSUME NEW d \in Nat, d \in T PROVE d + 1 \in T
  <2> SUFFICES ASSUME j + (d + 1) <= n PROVE Begins(j + (d + 1))
    OBVIOUS
  <2>a. PICK k, l, e : k = j + d /\ l = j + (d + 1) /\ e = Escaped(s[l])
    OBVIOUS
  <2>1. k \in 0..n /\ l \in 1..n /\ l - 1 = k
    BY <1>1, <2>a
  <2>2. Begins(k)
    BY <1>3, <2>1, <2>a
  <2>3. g[l] = g[k] \o e
    BY <1>a, <2>1, <2>a DEF Pieces
  <2>4. e \in Seq(V)
    <3>1. s[l] \in V
      BY <1>a, <2>1, ElementOfSeq
    <3> QED BY <2>a, <3>1, EscapedIs
  <2>5. g[k] \in Seq(V)
    BY <1>1, <2>1
  <2>6. /\ g[l] \in Seq(V) /\ Len(g[l]) = Len(g[k]) + Len(e)
        /\ Len(g[k]) \in Nat /\ Len(e) \in Nat
        /\ \A i \in 1..Len(g[k]) : g[l][i] = g[k][i]
        /\ \A i \in 1..Len(e) : g[l][Len(g[k]) + i] = e[i]
    BY <2>3, <2>4, <2>5, Parts
  <2>7. Len(g[j]) \in Nat
    BY <1>1
  <2>8. Begins(l)
    <3>1. Len(g[j]) <= Len(g[l])
      BY <2>2, <2>6, <2>7
    <3>2. \A i \in 1..Len(g[j]) : i \in 1..Len(g[k])
      BY <2>2, <2>6, <2>7
    <3> QED BY <2>2, <2>6, <3>1, <3>2
  <2> QED BY <2>8, <2>a
<1> HIDE DEF T
<1>4. Nat \subseteq T
  BY <1>2, <1>3, Induction
<1>5. n - j \in T /\ j + (n - j) = n
  BY <1>1, <1>4
<1>6. Begins(n)
  BY <1>1, <1>5 DEF T
<1> QED BY <1>6, <1>a DEF Starts

\* States of the subscriber's reader.
In(t)      == [mode |-> "in", text |-> t, rest |-> << >>]
Escape(t)  == [mode |-> "escape", text |-> t, rest |-> << >>]
Past(t, r) == [mode |-> "past", text |-> t, rest |-> r]

\* Its step on a unit.
After(q, x) ==
  CASE q.mode = "past" -> [q EXCEPT !.rest = Append(@, x)]
    [] q.mode = "in" /\ x = <<"char", "quote">>     -> [q EXCEPT !.mode = "past"]
    [] q.mode = "in" /\ x = <<"char", "backslash">> -> [q EXCEPT !.mode = "escape"]
    [] (q.mode = "in" /\ Bare(x)) \/ (q.mode = "escape" /\ Letter(x)) ->
         [q EXCEPT !.mode = "in", !.text = Append(@, x[2])]
    [] OTHER -> [q EXCEPT !.mode = "bad"]

\* A reader that has read a string's opening quote takes u[i] to v[i].
Reader(v, u) == v = [i \in 1..Len(u) |-> IF i = 1 THEN In(<< >>) ELSE After(v[i - 1], u[i])]

\* A character of the text, in any state.
LEMMA BackIn ==
  ASSUME NEW k, NEW t, NEW y, NEW z, NEW q, q = [mode |-> k, text |-> t, rest |-> z],
         NEW w, w = [q EXCEPT !.mode = "in", !.text = y]
  PROVE  w = [mode |-> "in", text |-> y, rest |-> z]
<1>1. /\ w.mode = "in" /\ w.text = y /\ w.rest = z
      /\ w = [mode |-> w.mode, text |-> w.text, rest |-> w.rest]
  OBVIOUS
<1> QED BY <1>1

\* What may stand in a string as it is.
LEMMA BareIs ==
  ASSUME NEW a
  PROVE  /\ a \notin Forbidden => Bare(<<"char", a>>)
         /\ ~Bare(<<"char", "quote">>) /\ ~Bare(<<"char", "backslash">>)
BY DEF Bare, Forbidden

\* What the reader does in each of its states.
LEMMA AfterIs ==
  ASSUME NEW t, NEW r, NEW x, NEW a
  PROVE  /\ After(In(t), <<"char", "quote">>) = Past(t, << >>)
         /\ After(In(t), <<"char", "backslash">>) = Escape(t)
         /\ a \notin Forbidden => After(In(t), <<"char", a>>) = In(Append(t, a))
         /\ a \in Escapes => After(Escape(t), <<"char", a>>) = In(Append(t, a))
         /\ After(Past(t, r), x) = Past(t, Append(r, x))
<1>1. After(In(t), <<"char", "quote">>) = Past(t, << >>)
  BY BareIs DEF After, In, Past
<1>2. After(In(t), <<"char", "backslash">>) = Escape(t)
  BY BareIs DEF After, In, Escape
<1>3. ASSUME a \notin Forbidden PROVE After(In(t), <<"char", a>>) = In(Append(t, a))
  <2>1. Bare(<<"char", a>>) /\ <<"char", a>>[2] = a
    BY <1>3, BareIs
  <2>2. /\ In(t).mode = "in" /\ <<"char", a>> # <<"char", "quote">> /\ <<"char", a>> # <<"char", "backslash">>
    BY <1>3 DEF In, Forbidden
  <2>3. [In(t) EXCEPT !.mode = "in", !.text = Append(@, a)] = In(Append(t, a))
    <3>1. In(t).text = t
      BY DEF In
    <3>2. ASSUME NEW y PROVE [In(t) EXCEPT !.mode = "in", !.text = y] = In(y)
      <4>1. PICK q, w : q = In(t) /\ w = [q EXCEPT !.mode = "in", !.text = y]
        OBVIOUS
      <4>2. w = [mode |-> "in", text |-> y, rest |-> << >>]
        BY <4>1, BackIn DEF In
      <4> QED BY <4>1, <4>2 DEF In
    <3> QED BY <3>1, <3>2
  <2>4. After(In(t), <<"char", a>>) = [In(t) EXCEPT !.mode = "in", !.text = Append(@, a)]
    BY <2>1, <2>2 DEF After
  <2> QED BY <2>3, <2>4
<1>4. ASSUME a \in Escapes PROVE After(Escape(t), <<"char", a>>) = In(Append(t, a))
  <2>1. Escape(t).mode = "escape" /\ <<"char", a>>[2] = a /\ Letter(<<"char", a>>)
    BY <1>4 DEF Escape, Letter
  <2>2. [Escape(t) EXCEPT !.mode = "in", !.text = Append(@, a)] = In(Append(t, a))
    <3>1. Escape(t).text = t
      BY DEF Escape
    <3>2. ASSUME NEW y PROVE [Escape(t) EXCEPT !.mode = "in", !.text = y] = In(y)
      <4>1. PICK q, w : q = Escape(t) /\ w = [q EXCEPT !.mode = "in", !.text = y]
        OBVIOUS
      <4>2. w = [mode |-> "in", text |-> y, rest |-> << >>]
        BY <4>1, BackIn DEF Escape
      <4> QED BY <4>1, <4>2 DEF In
    <3> QED BY <3>1, <3>2
  <2>3. After(Escape(t), <<"char", a>>) = [Escape(t) EXCEPT !.mode = "in", !.text = Append(@, a)]
    BY <2>1 DEF After
  <2> QED BY <2>2, <2>3
<1>5. After(Past(t, r), x) = Past(t, Append(r, x))
  <2>1. Past(t, r).mode = "past"
    BY DEF Past
  <2>2. After(Past(t, r), x) = [Past(t, r) EXCEPT !.rest = Append(@, x)]
    BY <2>1 DEF After
  <2> QED BY <2>2 DEF Past
<1> QED BY <1>1, <1>2, <1>3, <1>4, <1>5

\* States of a reader of units that hold V.
States(V) == [mode : {"in", "escape", "past", "bad"}, text : Seq(V \cup Nat), rest : Seq(Units(V))]

\* The reader's states, as a set.
LEMMA AfterType ==
  ASSUME NEW V, NEW q \in States(V), NEW x \in Units(V)
  PROVE  After(q, x) \in States(V)
<1>a. PICK k, t, r : k = q.mode /\ t = q.text /\ r = q.rest
  OBVIOUS
<1>1. /\ k \in {"in", "escape", "past", "bad"} /\ t \in Seq(V \cup Nat) /\ r \in Seq(Units(V))
      /\ q = [mode |-> k, text |-> t, rest |-> r]
  BY <1>a DEF States
<1>2. x[2] \in V \cup Nat
  BY DEF Units
<1>4. Append(t, x[2]) \in Seq(V \cup Nat) /\ Append(r, x) \in Seq(Units(V))
  BY <1>1, <1>2, AppendProperties
<1>5. CASE k = "in" /\ x = <<"char", "quote">>
  <2>a. PICK w : w = [mode |-> "past", text |-> t, rest |-> r]
    OBVIOUS
  <2>1. After(q, x) = [q EXCEPT !.mode = "past"]
    BY <1>5, <1>a, BareIs DEF After
  <2>2. [q EXCEPT !.mode = "past"] = w
    BY <1>1, <2>a
  <2>3. w \in States(V)
    BY <1>1, <2>a DEF States
  <2> QED BY <2>1, <2>2, <2>3
<1>6. CASE k = "in" /\ x = <<"char", "backslash">>
  <2>a. PICK w : w = [mode |-> "escape", text |-> t, rest |-> r]
    OBVIOUS
  <2>1. After(q, x) = [q EXCEPT !.mode = "escape"]
    BY <1>6, <1>a, BareIs DEF After
  <2>2. [q EXCEPT !.mode = "escape"] = w
    BY <1>1, <2>a
  <2>3. w \in States(V)
    BY <1>1, <2>a DEF States
  <2> QED BY <2>1, <2>2, <2>3
<1>7. CASE (k = "in" /\ Bare(x)) \/ (k = "escape" /\ Letter(x))
  <2>a. PICK y, w : y = Append(t, x[2]) /\ w = [q EXCEPT !.mode = "in", !.text = y]
    OBVIOUS
  <2>1. After(q, x) = w
    BY <1>7, <1>a, <2>a, BareIs DEF After
  <2>2. w = [mode |-> "in", text |-> y, rest |-> r]
    BY <1>1, <2>a, BackIn
  <2>3. y \in Seq(V \cup Nat)
    BY <1>4, <2>a
  <2>4. w \in States(V)
    BY <1>1, <2>2, <2>3 DEF States
  <2> QED BY <2>1, <2>4
<1>8. CASE k = "past"
  <2>a. PICK y, w : y = Append(r, x) /\ w = [q EXCEPT !.rest = y]
    OBVIOUS
  <2>1. After(q, x) = w
    BY <1>8, <1>a, <2>a DEF After
  <2>2. w = [mode |-> k, text |-> t, rest |-> y]
    BY <1>1, <2>a
  <2>3. y \in Seq(Units(V))
    BY <1>4, <2>a
  <2>4. w \in States(V)
    BY <1>1, <2>2, <2>3 DEF States
  <2> QED BY <2>1, <2>4
<1>9. CASE /\ k # "past" /\ ~(k = "in" /\ (Bare(x) \/ x = <<"char", "quote">> \/ x = <<"char", "backslash">>))
           /\ ~(k = "escape" /\ Letter(x))
  <2>a. PICK w : w = [q EXCEPT !.mode = "bad"]
    OBVIOUS
  <2>1. After(q, x) = w
    BY <1>9, <1>a, <2>a DEF After
  <2>2. w = [mode |-> "bad", text |-> t, rest |-> r]
    BY <1>1, <2>a
  <2>3. w \in States(V)
    BY <1>1, <2>2 DEF States
  <2> QED BY <2>1, <2>3
<1> QED BY <1>5, <1>6, <1>7, <1>8, <1>9

\* The reader can read any units.
LEMMA ReaderRuns ==
  ASSUME NEW V, NEW u \in Seq(Units(V)), Len(u) # 0
  PROVE  \E v : Reader(v, u)
<1>a. PICK n, A : n = Len(u) - 1 /\ A = States(V)
  OBVIOUS
<1> DEFINE F == [k \in 1..n |-> [q \in A |-> After(q, u[k + 1])]]
<1>1. n \in Nat /\ Len(u) = n + 1 /\ \A k \in 1..n : k + 1 \in 1..Len(u)
  BY <1>a
<1>2. \A k \in 1..n : u[k + 1] \in Units(V)
  BY <1>1, ElementOfSeq
<1>3. \A k \in 1..n : \A q \in A : After(q, u[k + 1]) \in A
  BY <1>2, <1>a, AfterType
<1>4. F \in [1..n -> [A -> A]]
  BY <1>3
<1>5. \A k \in 1..n : \A q \in A : F[k][q] = After(q, u[k + 1])
  OBVIOUS
<1> HIDE DEF F
<1>6. In(<< >>) \in A
  <2>1. << >> \in Seq(V \cup Nat) /\ << >> \in Seq(Units(V))
    OBVIOUS
  <2> QED BY <1>a, <2>1 DEF In, States
<1>7. PICK w \in [0..n -> A] : Rounds(w, n, In(<< >>), F)
  BY <1>1, <1>4, <1>6, LoopHasRun
<1>8. w = [k \in 0..n |-> IF k = 0 THEN In(<< >>) ELSE F[k][w[k - 1]]]
  BY <1>7 DEF Rounds
<1>9. PICK v : v = [i \in 1..Len(u) |-> w[i - 1]]
  OBVIOUS
<1>10. ASSUME NEW i \in 1..Len(u) PROVE v[i] = IF i = 1 THEN In(<< >>) ELSE After(v[i - 1], u[i])
  <2>1. CASE i = 1
    <3>1. i - 1 = 0 /\ 0 \in 0..n
      BY <1>1, <2>1
    <3>2. w[0] = In(<< >>) /\ v[i] = w[i - 1]
      BY <1>8, <1>9, <3>1
    <3> QED BY <2>1, <3>1, <3>2
  <2>2. CASE i # 1
    <3>a. PICK k : k = i - 1
      OBVIOUS
    <3>1. k \in 1..n /\ k \in 0..n /\ k # 0 /\ k - 1 \in 0..n /\ k + 1 = i /\ k \in 1..Len(u)
      BY <1>1, <2>2, <3>a
    <3>2. w[k] = F[k][w[k - 1]] /\ w[k - 1] \in A
      BY <1>7, <1>8, <3>1
    <3>3. w[k] = After(w[k - 1], u[k + 1])
      BY <1>5, <3>1, <3>2
    <3>4. v[i] = w[k] /\ v[k] = w[k - 1]
      BY <1>9, <3>1, <3>a
    <3> QED BY <2>2, <3>1, <3>3, <3>4, <3>a
  <2> QED BY <2>1, <2>2
<1>11. Reader(v, u)
  BY <1>9, <1>10 DEF Reader
<1> QED BY <1>11

\* Unquote is the reader's last state.
LEMMA UnquoteIs ==
  ASSUME NEW V, NEW u \in Seq(Units(V)), Len(u) # 0
  PROVE  \E v : Unquote(u) = v[Len(u)] /\ Reader(v, u)
<1> DEFINE U(v) == v = [i \in 1..Len(u) |->
          IF i = 1 THEN [mode |-> "in", text |-> << >>, rest |-> << >>]
          ELSE LET q == v[i - 1] IN
             CASE q.mode = "past" -> [q EXCEPT !.rest = Append(@, u[i])]
               [] q.mode = "in" /\ u[i] = <<"char", "quote">>     -> [q EXCEPT !.mode = "past"]
               [] q.mode = "in" /\ u[i] = <<"char", "backslash">> -> [q EXCEPT !.mode = "escape"]
               [] (q.mode = "in" /\ Bare(u[i])) \/ (q.mode = "escape" /\ Letter(u[i])) ->
                    [q EXCEPT !.mode = "in", !.text = Append(@, u[i][2])]
               [] OTHER -> [q EXCEPT !.mode = "bad"]]
<1>1. \A v : U(v) <=> Reader(v, u)
  BY Zenon DEF Reader, After, In
<1>2. Unquote(u) = (CHOOSE v : U(v))[Len(u)]
  BY Zenon DEF Unquote
<1> HIDE DEF U
<1>3. PICK v : v = CHOOSE w : U(w)
  OBVIOUS
<1>4. U(v)
  BY <1>1, <1>3, ReaderRuns
<1> QED BY <1>1, <1>2, <1>3, <1>4

\* A run of the reader, step by step.
LEMMA ReaderSteps ==
  ASSUME NEW v, NEW u, Reader(v, u), Len(u) \in Nat \ {0}
  PROVE  v[1] = In(<< >>) /\ \A k \in 1..(Len(u) - 1) : v[k + 1] = After(v[k], u[k + 1])
<1>1. \A i \in 1..Len(u) : v[i] = IF i = 1 THEN In(<< >>) ELSE After(v[i - 1], u[i])
  BY DEF Reader
<1>2. v[1] = In(<< >>)
  BY <1>1
<1>3. ASSUME NEW k \in 1..(Len(u) - 1) PROVE v[k + 1] = After(v[k], u[k + 1])
  <2>a. PICK i : i = k + 1
    OBVIOUS
  <2>1. i \in 1..Len(u) /\ i # 1 /\ i - 1 = k
    BY <2>a
  <2> QED BY <1>1, <2>1, <2>a
<1> QED BY <1>2, <1>3

\* A text grows at its end.
LEMMA OneMore ==
  ASSUME NEW S, NEW s \in Seq(S), NEW j \in Nat, j + 1 <= Len(s)
  PROVE  SubSeq(s, 1, j + 1) = Append(SubSeq(s, 1, j), s[j + 1])
<1>a. PICK l, t : l = j + 1 /\ t = SubSeq(s, 1, j)
  OBVIOUS
<1>1. 1 \in 1..Len(s) /\ l \in 1..Len(s) /\ l - 1 = j
  BY <1>a
<1>2. SubSeq(s, 1, l) = SubSeq(s, 1, l - 1) \o <<s[l]>>
  BY <1>1, SubSeqRecursiveSecond
<1>3. t \in Seq(S)
  <2>1. \A i \in 1..j : s[i] \in S
    BY <1>1, ElementOfSeq
  <2>2. 1 \in Int /\ j \in Int
    OBVIOUS
  <2> QED BY <1>a, <2>1, <2>2, SubSeqProperties
<1>4. s[l] \in S
  BY <1>1, ElementOfSeq
<1>5. Append(t, s[l]) = t \o <<s[l]>>
  BY <1>3, <1>4, AppendIsConcat
<1> QED BY <1>1, <1>2, <1>5, <1>a

\* The reader gets back the text that jsonEscape was given.
LEMMA Walk ==
  ASSUME NEW V, "backslash" \in V, NEW s \in Seq(V), Legible(s),
         NEW E, E = jsonEscape(s), NEW u, NEW v, Reader(v, u), Len(u) \in Nat, 1 + Len(E) <= Len(u),
         \A i \in 1..Len(E) : u[1 + i] = <<"char", E[i]>>
  PROVE  v[1 + Len(E)] = In(s)
<1>a. PICK n : n = Len(s)
  OBVIOUS
<1>b. PICK g \in [0..n -> Seq(V)] : Pieces(g, s) /\ E = g[n]
  BY <1>a, EscapeIs
<1>1. n \in Nat /\ \A j \in 0..n : g[j] \in Seq(V) /\ Len(g[j]) \in Nat
  BY <1>a, <1>b
<1>2. Len(E) \in Nat /\ Len(u) \in Nat \ {0}
  BY <1>1, <1>b
<1>3. v[1] = In(<< >>) /\ \A k \in 1..(Len(u) - 1) : v[k + 1] = After(v[k], u[k + 1])
  BY <1>2, ReaderSteps
<1>4. \A j \in 0..n : Len(g[j]) <= Len(E) /\ \A i \in 1..Len(g[j]) : E[i] = g[j][i]
  <2> SUFFICES ASSUME NEW j \in 0..n
               PROVE  Len(g[j]) <= Len(E) /\ \A i \in 1..Len(g[j]) : E[i] = g[j][i]
    OBVIOUS
  <2>1. /\ "backslash" \in V /\ s \in Seq(V)
        /\ g \in [0..Len(s) -> Seq(V)] /\ Pieces(g, s) /\ j \in 0..Len(s)
    BY <1>a, <1>b
  <2>2. Starts(g[Len(s)], g[j])
    BY <2>1, PiecesGrow
  <2> QED BY <1>a, <1>b, <2>2 DEF Starts
<1> DEFINE T == {j \in Nat : j <= n => v[1 + Len(g[j])] = In(SubSeq(s, 1, j))}
<1>5. 0 \in T
  <2>1. g[0] = << >> /\ Len(g[0]) = 0 /\ 1 + Len(g[0]) = 1
    BY <1>b DEF Pieces
  <2>2. SubSeq(s, 1, 0) = << >>
    BY SubSeqEmpty
  <2> QED BY <1>3, <2>1, <2>2
<1>6. ASSUME NEW j \in Nat, j \in T PROVE j + 1 \in T
  <2> SUFFICES ASSUME j + 1 <= n PROVE v[1 + Len(g[j + 1])] = In(SubSeq(s, 1, j + 1))
    OBVIOUS
  <2>a. PICK l, a, ch, e, t : l = j + 1 /\ a = Len(g[j]) /\ ch = s[l] /\ e = Escaped(ch) /\ t = SubSeq(s, 1, j)
    OBVIOUS
  <2>1. j \in 0..n /\ l \in 0..n /\ l \in 1..n /\ l - 1 = j /\ a \in Nat
    BY <1>1, <2>a
  <2>2. v[1 + a] = In(t)
    BY <1>6, <2>1, <2>a
  <2>3. SubSeq(s, 1, l) = Append(t, ch)
    BY <1>a, <2>1, <2>a, OneMore
  <2>4. ch \in V
    BY <1>a, <2>1, <2>a, ElementOfSeq
  <2>5. /\ e \in Seq(V)
        /\ \/ e = <<"backslash", ch>> /\ ch \in Escapes
           \/ e = <<ch>> /\ ch \notin Forbidden
    <3>1. ch # "control"
      BY <1>a, <2>1, <2>a DEF Legible
    <3>2. ch \notin Escapes => ch \notin Forbidden
      BY <3>1 DEF Escapes, Forbidden
    <3>3. /\ Escaped(ch) \in Seq(V)
          /\ \/ Escaped(ch) = <<"backslash", ch>> /\ ch \in Escapes
             \/ Escaped(ch) = <<ch>> /\ ch \notin Escapes
      BY <2>4, EscapedIs
    <3> QED BY <2>a, <3>2, <3>3
  <2>6. /\ Len(g[l]) = a + Len(e) /\ Len(e) \in Nat
        /\ \A i \in 1..Len(e) : g[l][a + i] = e[i]
    <3>1. g[l] = g[j] \o e
      BY <1>a, <1>b, <2>1, <2>a DEF Pieces
    <3>2. g[j] \in Seq(V) /\ e \in Seq(V) /\ g[l] = g[j] \o e
      BY <1>1, <2>1, <2>5, <3>1
    <3>3. /\ g[l] \in Seq(V) /\ Len(g[l]) = Len(g[j]) + Len(e)
          /\ Len(g[j]) \in Nat /\ Len(e) \in Nat
          /\ \A i \in 1..Len(g[j]) : g[l][i] = g[j][i]
          /\ \A i \in 1..Len(e) : g[l][Len(g[j]) + i] = e[i]
      BY <3>2, Parts
    <3> QED BY <2>a, <3>3
  <2>7. \A i \in 1..Len(e) : /\ a + i <= Len(E) /\ 1 + a + i <= Len(u)
                             /\ u[1 + a + i] = <<"char", e[i]>>
    <3> SUFFICES ASSUME NEW i \in 1..Len(e)
                 PROVE  a + i <= Len(E) /\ 1 + a + i <= Len(u) /\ u[1 + a + i] = <<"char", e[i]>>
      OBVIOUS
    <3>a. PICK k : k = a + i
      OBVIOUS
    <3>1. k \in 1..Len(g[l]) /\ Len(g[l]) <= Len(E)
      BY <1>4, <2>1, <2>6, <3>a
    <3>2. k \in 1..Len(E) /\ 1 + k <= Len(u) /\ 1 + k = 1 + a + i
      BY <1>1, <1>2, <2>1, <3>1, <3>a
    <3>3. E[k] = g[l][k] /\ g[l][k] = e[i]
      BY <1>4, <2>1, <2>6, <3>1, <3>a
    <3>4. u[1 + k] = <<"char", E[k]>>
      BY <3>2
    <3> QED BY <3>2, <3>3, <3>4, <3>a
  <2>8. v[1 + Len(g[l])] = In(Append(t, ch))
    <3>1. CASE e = <<ch>> /\ ch \notin Forbidden
      <4>1. Len(e) = 1 /\ e[1] = ch /\ 1 \in 1..Len(e)
        BY <3>1
      <4>a. PICK k : k = 1 + a
        OBVIOUS
      <4>2. k \in 1..(Len(u) - 1) /\ k + 1 = 1 + a + 1 /\ k + 1 = 1 + Len(g[l])
        BY <1>2, <2>1, <2>6, <2>7, <4>1, <4>a
      <4>3. u[k + 1] = <<"char", ch>>
        BY <2>7, <4>1, <4>2
      <4>4. v[k + 1] = After(In(t), <<"char", ch>>)
        BY <1>3, <2>2, <4>2, <4>3, <4>a
      <4>5. After(In(t), <<"char", ch>>) = In(Append(t, ch))
        BY <3>1, AfterIs
      <4> QED BY <4>2, <4>4, <4>5
    <3>2. CASE e = <<"backslash", ch>> /\ ch \in Escapes
      <4>1. Len(e) = 2 /\ e[1] = "backslash" /\ e[2] = ch /\ 1 \in 1..Len(e) /\ 2 \in 1..Len(e)
        BY <3>2
      <4>a. PICK k, k2 : k = 1 + a /\ k2 = k + 1
        OBVIOUS
      <4>2. /\ k \in 1..(Len(u) - 1) /\ k2 \in 1..(Len(u) - 1)
            /\ k + 1 = 1 + a + 1 /\ k2 + 1 = 1 + a + 2 /\ k2 + 1 = 1 + Len(g[l])
        BY <1>2, <2>1, <2>6, <2>7, <4>1, <4>a
      <4>3. u[k + 1] = <<"char", "backslash">> /\ u[k2 + 1] = <<"char", ch>>
        BY <2>7, <4>1, <4>2
      <4>4. v[k2] = After(In(t), <<"char", "backslash">>)
        BY <1>3, <2>2, <4>2, <4>3, <4>a
      <4>5. After(In(t), <<"char", "backslash">>) = Escape(t)
        BY AfterIs
      <4>6. v[k2 + 1] = After(Escape(t), <<"char", ch>>)
        BY <1>3, <4>2, <4>3, <4>4, <4>5
      <4>7. After(Escape(t), <<"char", ch>>) = In(Append(t, ch))
        BY <3>2, AfterIs
      <4> QED BY <4>2, <4>6, <4>7
    <3> QED BY <2>5, <3>1, <3>2
  <2> QED BY <2>3, <2>8, <2>a
<1> HIDE DEF T
<1>7. n \in T
  BY <1>1, <1>5, <1>6, Induction
<1>8. v[1 + Len(g[n])] = In(SubSeq(s, 1, n))
  BY <1>1, <1>7 DEF T
<1>9. SubSeq(s, 1, n) = s
  BY <1>a, SubSeqFull
<1> QED BY <1>8, <1>9, <1>b

\* u goes on with rest after its first a units.
GoesOn(u, a, rest) ==
  Len(u) = a + Len(rest) /\ \A i \in 1..Len(rest) : u[a + i] = rest[i]

\* After the closing quote the reader keeps what it reads.
LEMMA WalkOn ==
  ASSUME NEW S, NEW rest \in Seq(S), NEW u, NEW v, Reader(v, u), NEW a \in Nat \ {0},
         NEW t, v[a] = Past(t, << >>), GoesOn(u, a, rest)
  PROVE  v[Len(u)] = Past(t, rest)
<1>a. PICK n : n = Len(rest)
  OBVIOUS
<1>1. n \in Nat /\ Len(u) = a + n /\ Len(u) \in Nat \ {0}
  BY <1>a DEF GoesOn
<1>2. v[1] = In(<< >>) /\ \A k \in 1..(Len(u) - 1) : v[k + 1] = After(v[k], u[k + 1])
  BY <1>1, ReaderSteps
<1> DEFINE T == {j \in Nat : j <= n => v[a + j] = Past(t, SubSeq(rest, 1, j))}
<1>3. 0 \in T
  <2>1. SubSeq(rest, 1, 0) = << >> /\ a + 0 = a
    BY SubSeqEmpty
  <2> QED BY <2>1
<1>4. ASSUME NEW j \in Nat, j \in T PROVE j + 1 \in T
  <2> SUFFICES ASSUME j + 1 <= n PROVE v[a + (j + 1)] = Past(t, SubSeq(rest, 1, j + 1))
    OBVIOUS
  <2>a. PICK k, r, x : k = a + j /\ r = SubSeq(rest, 1, j) /\ x = rest[j + 1]
    OBVIOUS
  <2>1. k \in 1..(Len(u) - 1) /\ k + 1 = a + (j + 1) /\ j + 1 \in 1..n
    BY <1>1, <2>a
  <2>2. u[k + 1] = x /\ v[k] = Past(t, r)
    BY <1>1, <1>4, <1>a, <2>1, <2>a DEF GoesOn
  <2>3. v[k + 1] = After(Past(t, r), x)
    BY <1>2, <2>1, <2>2
  <2>4. After(Past(t, r), x) = Past(t, Append(r, x))
    BY AfterIs
  <2>5. SubSeq(rest, 1, j + 1) = Append(r, x)
    BY <1>a, <2>1, <2>a, OneMore
  <2> QED BY <2>1, <2>3, <2>4, <2>5
<1> HIDE DEF T
<1>5. n \in T
  BY <1>1, <1>3, <1>4, Induction
<1>6. v[a + n] = Past(t, SubSeq(rest, 1, n))
  BY <1>1, <1>5 DEF T
<1>7. SubSeq(rest, 1, n) = rest
  BY <1>a, SubSeqFull
<1> QED BY <1>1, <1>6, <1>7

\* u is the string E, its closing quote and the rest.
Spells(u, E, rest) ==
  /\ Len(E) \in Nat /\ u[2 + Len(E)] = <<"char", "quote">> /\ GoesOn(u, 2 + Len(E), rest)
  /\ \A i \in 1..Len(E) : u[1 + i] = <<"char", E[i]>>

\* What follows a string's opening quote is read back.
LEMMA QuotedAt ==
  ASSUME NEW V, "backslash" \in V, NEW s \in Seq(V), Legible(s), NEW rest \in Seq(Units(V)),
         NEW E, E = jsonEscape(s), NEW u \in Seq(Units(V)), Spells(u, E, rest)
  PROVE  Unquote(u) = Past(s, rest)
<1>a. PICK k, a : k = 1 + Len(E) /\ a = 2 + Len(E)
  OBVIOUS
<1>1. /\ Len(E) \in Nat /\ Len(rest) \in Nat /\ Len(u) = 2 + Len(E) + Len(rest)
      /\ Len(u) \in Nat /\ Len(u) # 0
  BY DEF Spells, GoesOn
<1>2. PICK v : Unquote(u) = v[Len(u)] /\ Reader(v, u)
  BY <1>1, UnquoteIs
<1>3. v[k] = In(s)
  <2>1. \A i \in 1..Len(E) : u[1 + i] = <<"char", E[i]>>
    BY DEF Spells
  <2>2. Len(u) \in Nat /\ 1 + Len(E) <= Len(u)
    BY <1>1
  <2>3. v[1 + Len(E)] = In(s)
    BY <1>2, <2>1, <2>2, Walk
  <2> QED BY <1>a, <2>3
<1>4. v[a] = Past(s, << >>)
  <2>1. Reader(v, u) /\ Len(u) \in Nat \ {0}
    BY <1>1, <1>2
  <2>2. v[1] = In(<< >>) /\ \A j \in 1..(Len(u) - 1) : v[j + 1] = After(v[j], u[j + 1])
    BY <2>1, ReaderSteps
  <2>3. k \in 1..(Len(u) - 1) /\ k + 1 = a
    BY <1>1, <1>a
  <2>4. u[a] = <<"char", "quote">>
    BY <1>a DEF Spells
  <2>5. v[a] = After(In(s), <<"char", "quote">>)
    BY <1>3, <2>2, <2>3, <2>4
  <2> QED BY <2>5, AfterIs
<1>5. v[Len(u)] = Past(s, rest)
  <2>1. Reader(v, u) /\ a \in Nat \ {0} /\ v[a] = Past(s, << >>) /\ GoesOn(u, a, rest)
    BY <1>1, <1>2, <1>4, <1>a DEF Spells
  <2> QED BY <2>1, WalkOn
<1> QED BY <1>2, <1>5

\* What jsonEscape adds to a text is in V.
Escapable(V) == "quote" \in V /\ "backslash" \in V

\* A reader of u has read s up to its closing quote, and has kept the rest.
UnquotedAs(u, s, rest) == Unquote(u) = Past(s, rest)

\* A subscriber reads back a JSON string, and goes on after it.
LEMMA QuotedRead ==
  ASSUME NEW V, Escapable(V), NEW s \in Seq(V), Legible(s), NEW rest \in Seq(Units(V)),
         NEW p, p = Quoted(s), NEW u, u = p \o rest
  PROVE  /\ p \in Seq(Units(V)) /\ u \in Seq(Units(V))
         /\ UnquotedAs(u, s, rest)
<1>0. "quote" \in V /\ "backslash" \in V
  BY DEF Escapable
<1>a. PICK E, q, h, b, L : /\ E = jsonEscape(s) /\ q = <<"quote">> /\ h = q \o E /\ b = h \o q
                           /\ L = Len(E)
  OBVIOUS
<1>1. E \in Seq(V) /\ L \in Nat
  <2>1. PICK g \in [0..Len(s) -> Seq(V)] : Pieces(g, s) /\ jsonEscape(s) = g[Len(s)]
    BY <1>0, EscapeIs
  <2>2. Len(s) \in 0..Len(s)
    OBVIOUS
  <2> QED BY <1>a, <2>1, <2>2
<1>2. q \in Seq(V) /\ Len(q) = 1 /\ q[1] = "quote"
  BY <1>0, <1>a
<1>3. h \in Seq(V) /\ Len(h) = 1 + L /\ h[1] = "quote" /\ \A i \in 1..L : h[1 + i] = E[i]
  <2>1. q \in Seq(V) /\ E \in Seq(V) /\ h = q \o E
    BY <1>1, <1>2, <1>a
  <2>2. /\ h \in Seq(V) /\ Len(h) = Len(q) + Len(E)
        /\ Len(q) \in Nat /\ Len(E) \in Nat
        /\ \A i \in 1..Len(q) : h[i] = q[i]
        /\ \A i \in 1..Len(E) : h[Len(q) + i] = E[i]
    BY <2>1, Parts
  <2> QED BY <1>2, <1>a, <2>2
<1>4. /\ b \in Seq(V) /\ Len(b) = 2 + L /\ b[1] = "quote" /\ b[2 + L] = "quote"
      /\ \A i \in 1..L : b[1 + i] = E[i]
  <2>1. h \in Seq(V) /\ q \in Seq(V) /\ b = h \o q
    BY <1>2, <1>3, <1>a
  <2>2. /\ b \in Seq(V) /\ Len(b) = Len(h) + Len(q)
        /\ Len(h) \in Nat /\ Len(q) \in Nat
        /\ \A i \in 1..Len(h) : b[i] = h[i]
        /\ \A i \in 1..Len(q) : b[Len(h) + i] = q[i]
    BY <2>1, Parts
  <2>3. 1 \in 1..Len(h) /\ 1 \in 1..Len(q) /\ Len(h) + 1 = 2 + L /\ \A i \in 1..L : 1 + i \in 1..Len(h)
    BY <1>1, <1>2, <1>3
  <2>4. b[1] = h[1] /\ b[Len(h) + 1] = q[1]
    BY <2>2, <2>3
  <2> QED BY <1>1, <1>2, <1>3, <2>2, <2>3, <2>4
<1>5. p = Chars(b)
  BY <1>a DEF Quoted
<1>6. /\ p \in Seq(Units(V)) /\ Len(p) = Len(b)
      /\ \A i \in 1..Len(b) : p[i] = <<"char", b[i]>> /\ p[i][1] = "char" /\ p[i][2] = b[i]
  BY <1>4, <1>5, CharsAre
<1>7. /\ u \in Seq(Units(V)) /\ Len(u) = 2 + L + Len(rest) /\ Len(rest) \in Nat
      /\ \A i \in 1..(2 + L) : u[i] = <<"char", b[i]>>
      /\ \A i \in 1..Len(rest) : u[2 + L + i] = rest[i]
  <2>1. /\ u \in Seq(Units(V)) /\ Len(u) = Len(p) + Len(rest)
        /\ Len(p) \in Nat /\ Len(rest) \in Nat
        /\ \A i \in 1..Len(p) : u[i] = p[i]
        /\ \A i \in 1..Len(rest) : u[Len(p) + i] = rest[i]
    <3>1. p \in Seq(Units(V)) /\ rest \in Seq(Units(V)) /\ u = p \o rest
      BY <1>6
    <3>a. PICK z : z = u
      OBVIOUS
    <3>2. /\ z \in Seq(Units(V)) /\ Len(z) = Len(p) + Len(rest)
          /\ Len(p) \in Nat /\ Len(rest) \in Nat
          /\ \A i \in 1..Len(p) : z[i] = p[i]
          /\ \A i \in 1..Len(rest) : z[Len(p) + i] = rest[i]
      BY <3>1, <3>a, Parts
    <3> QED BY <3>a, <3>2
  <2>2. Len(p) = 2 + L /\ Len(b) = 2 + L
    BY <1>4, <1>6
  <2>3. \A i \in 1..(2 + L) : u[i] = <<"char", b[i]>>
    BY <1>6, <2>1, <2>2
  <2> QED BY <2>1, <2>2, <2>3
<1>8. Unquote(u) = Past(s, rest)
  <2>1. \A i \in 1..L : 1 + i \in 1..(2 + L)
    BY <1>1
  <2>2. \A i \in 1..L : u[1 + i] = <<"char", E[i]>>
    BY <1>4, <1>7, <2>1
  <2>3. 2 + L \in 1..(2 + L)
    BY <1>1
  <2>4. u[2 + L] = <<"char", "quote">>
    BY <1>4, <1>7, <2>3
  <2>a. PICK z : z = u
    OBVIOUS
  <2>5. Spells(u, E, rest)
    BY <1>1, <1>7, <1>a, <2>2, <2>4 DEF Spells, GoesOn
  <2>6. E = jsonEscape(s) /\ z \in Seq(Units(V)) /\ Spells(z, E, rest)
    BY <1>7, <1>a, <2>5, <2>a
  <2>7. Unquote(z) = Past(s, rest)
    BY <1>0, <2>6, QuotedAt
  <2> QED BY <2>7, <2>a
<1> QED BY <1>6, <1>7, <1>8 DEF UnquotedAs

-----------------------------------------------------------------------------
(* Events *)

\* The keys of an event that are written as JSON strings.
EventKeys == {"timestamp", "class", "class_name", "confidence", "alert", "host", "features"}

\* An event whose fields hold what is in V.
FieldsIn(e, V) ==
  /\ Escapable(V) /\ EventKeys \subseteq V
  /\ e.timestamp \in Seq(V) /\ e.className \in Seq(V) /\ e.host \in Seq(V)
  /\ Legible(e.timestamp) /\ Legible(e.className) /\ Legible(e.host)
  /\ e.features \in Seq(V)
  /\ e.classIdx \in V /\ e.alert \in V /\ Printed(e.confidence) \in V

\* f begins with a key, and h follows it.
KeyThen(f, key, h) == f = <<Fixed(key)>> \o h /\ From(f, 2) = h

\* A member and what follows it: the key, then the value and what follows.
LEMMA Keyed ==
  ASSUME NEW S, NEW key, Fixed(key) \in S, NEW q \in Seq(S), NEW t \in Seq(S),
         NEW w, w = Member(key, q), NEW f, f = w \o t, NEW h, h = q \o t
  PROVE  w \in Seq(S) /\ f \in Seq(S) /\ KeyThen(f, key, h)
<1>a. PICK k : k = <<Fixed(key)>>
  OBVIOUS
<1>1. k \in Seq(S) /\ Len(k) = 1
  BY <1>a
<1>2. w = k \o q
  BY <1>a DEF Member
<1>3. k \in Seq(S) /\ q \in Seq(S) /\ t \in Seq(S) /\ w = k \o q /\ f = w \o t /\ h = q \o t
  BY <1>1, <1>2
<1>4. f = k \o h /\ f \in Seq(S) /\ h \in Seq(S) /\ w \in Seq(S)
  BY <1>3, Regrouped
<1>5. From(f, 2) = h
  <2>a. PICK n : n = 2
    OBVIOUS
  <2>1. k \in Seq(S) /\ h \in Seq(S) /\ f = k \o h /\ n = Len(k) + 1
    BY <1>1, <1>4, <2>a
  <2>2. From(f, n) = h
    BY <2>1, FromParts, SMTT(30) DEF From
  <2> QED BY <2>2, <2>a
<1> QED BY <1>4, <1>5, <1>a DEF KeyThen

\* f is a key, the unit x, and t.
ValueThen(f, w, x, t) ==
  Len(w) = 2 /\ f[2] = x /\ \A i \in 1..Len(t) : f[2 + i] = t[i]

\* A member whose value is one unit, and what follows it.
LEMMA Valued ==
  ASSUME NEW S, NEW key, Fixed(key) \in S, NEW x \in S, NEW t \in Seq(S),
         NEW w, w = Member(key, <<x>>), NEW f, f = w \o t
  PROVE  w \in Seq(S) /\ f \in Seq(S) /\ ValueThen(f, w, x, t)
<1>a. PICK k, z, y : k = Fixed(key) /\ z = <<k>> \o <<x>> /\ y = z \o t
  OBVIOUS
<1>1. w = z /\ f = y
  BY <1>a DEF Member
<1>2. z \in Seq(S) /\ Len(z) = 2 /\ z[2] = x
  BY <1>a
<1>3. z \in Seq(S) /\ t \in Seq(S) /\ y = z \o t
  BY <1>2, <1>a
<1>4. /\ y \in Seq(S) /\ Len(y) = Len(z) + Len(t)
      /\ Len(z) \in Nat /\ Len(t) \in Nat
      /\ \A i \in 1..Len(z) : y[i] = z[i]
      /\ \A i \in 1..Len(t) : y[Len(z) + i] = t[i]
  BY <1>3, Parts
<1>5. ValueThen(y, z, x, t)
  BY <1>2, <1>4 DEF ValueThen
<1> QED BY <1>1, <1>2, <1>4, <1>5

\* The printed confidence is the nearest one with four decimals.
LEMMA PrintedNear ==
  ASSUME NEW n \in Nat
  PROVE  Printed(n) \in Nat /\ Printed(n) * 10 - n \in -5..5
<1>a. PICK d, r, k : d = Printed(n) /\ k = n + 5 /\ r = k % 10
  OBVIOUS
<1>1. k \in Nat /\ d = k \div 10
  BY <1>a DEF Printed
<1>2. d \in Nat /\ r \in 0..9 /\ k = (d * 10) + r
  BY <1>1, <1>a
<1> QED BY <1>2, <1>a

\* The features are read back after their key.
LEMMA FeaturesRead ==
  ASSUME NEW V, "features" \in V, NEW fs \in Seq(V), NEW F,
         F = Member("features", [i \in 1..Len(fs) |-> Fixed(fs[i])])
  PROVE  F \in Seq(Units(V)) /\ Text(F) = <<"features">> \o fs
<1>a. PICK n, g, k, kt, ft :
        /\ n = Len(fs) /\ g = [i \in 1..n |-> Fixed(fs[i])]
        /\ k = <<Fixed("features")>> /\ kt = <<"features">> /\ ft = kt \o fs
  OBVIOUS
<1> DEFINE S == Units(V)
<1>1. \A b \in V : Fixed(b) \in S /\ Fixed(b)[2] = b
  BY UnitsHave
<1> HIDE DEF S
<1>2. n \in Nat /\ \A i \in 1..n : fs[i] \in V
  BY <1>a, ElementOfSeq
<1>3. g \in [1..n -> S] /\ \A i \in 1..n : g[i][2] = fs[i]
  BY <1>1, <1>2, <1>a
<1>4. g \in Seq(S) /\ Len(g) = n
  BY <1>2, <1>3, FunctionIsSeq
<1>5. F = k \o g
  BY <1>a DEF Member
<1>6. k \in Seq(S) /\ Len(k) = 1 /\ k[1][2] = "features"
  BY <1>1, <1>a
<1>7. kt \in Seq(V) /\ Len(kt) = 1 /\ kt[1] = "features"
  BY <1>a
<1>b. PICK z : z = F
  OBVIOUS
<1>8. k \in Seq(S) /\ g \in Seq(S) /\ z = k \o g
  BY <1>4, <1>5, <1>6, <1>b
<1>9. /\ z \in Seq(S) /\ Len(z) = Len(k) + Len(g)
      /\ Len(k) \in Nat /\ Len(g) \in Nat
      /\ \A i \in 1..Len(k) : z[i] = k[i]
      /\ \A i \in 1..Len(g) : z[Len(k) + i] = g[i]
  BY <1>8, Parts
<1>10. kt \in Seq(V) /\ fs \in Seq(V) /\ ft = kt \o fs
  BY <1>7, <1>a
<1>11. /\ ft \in Seq(V) /\ Len(ft) = Len(kt) + Len(fs)
       /\ Len(kt) \in Nat /\ Len(fs) \in Nat
       /\ \A i \in 1..Len(kt) : ft[i] = kt[i]
       /\ \A i \in 1..Len(fs) : ft[Len(kt) + i] = fs[i]
  BY <1>10, Parts
<1>12. Len(z) = 1 + n /\ Len(ft) = 1 + n
  BY <1>4, <1>6, <1>7, <1>9, <1>11, <1>a
<1>13. ASSUME NEW i \in 1..(1 + n) PROVE z[i][2] = ft[i]
  <2>1. CASE i = 1
    <3>1. z[1] = k[1] /\ ft[1] = kt[1]
      BY <1>6, <1>7, <1>9, <1>11
    <3> QED BY <1>6, <1>7, <2>1, <3>1
  <2>2. CASE i # 1
    <3>a. PICK l : l = i - 1
      OBVIOUS
    <3>1. l \in 1..n /\ 1 + l = i
      BY <1>2, <2>2, <3>a
    <3>2. z[1 + l] = g[l] /\ ft[1 + l] = fs[l]
      BY <1>4, <1>6, <1>7, <1>9, <1>11, <1>a, <3>1
    <3> QED BY <1>3, <3>1, <3>2
  <2> QED BY <2>1, <2>2
<1>14. Text(z) = [i \in 1..(1 + n) |-> ft[i]]
  BY <1>12, <1>13 DEF Text
<1>15. ft = [i \in 1..(1 + n) |-> ft[i]]
  BY <1>11, <1>12
<1> QED BY <1>9, <1>14, <1>15, <1>a, <1>b DEF S

\* A subscriber reads the fields of the event.
LEMMA EventRead ==
  ASSUME NEW V, NEW e, FieldsIn(e, V), e.confidence \in Nat,
         NEW j, j = toJson(e, c["include_features"])
  PROVE  j \in Seq(Units(V)) /\ ReadsEvent(j, e)
<1>a. PICK inc : inc = c["include_features"]
  OBVIOUS
<1>b. PICK Q1, Q3, Q6, fs : /\ Q1 = Quoted(e.timestamp) /\ Q3 = Quoted(e.className) /\ Q6 = Quoted(e.host)
                           /\ fs = e.features
  OBVIOUS
<1>c. PICK M1, M2, M3, M4, M5, M6, F :
        /\ M1 = Member("timestamp", Q1) /\ M2 = Member("class", <<Fixed(e.classIdx)>>)
        /\ M3 = Member("class_name", Q3) /\ M4 = Member("confidence", <<Fixed(Printed(e.confidence))>>)
        /\ M5 = Member("alert", <<Fixed(e.alert)>>) /\ M6 = Member("host", Q6)
        /\ F = IF inc THEN Member("features", [i \in 1..Len(fs) |-> Fixed(fs[i])]) ELSE << >>
  OBVIOUS
<1>d. PICK h6, f6, f5, f4, h3, f3, f2, h1, f1 :
        /\ h6 = Q6 \o F /\ f6 = M6 \o F /\ f5 = M5 \o f6 /\ f4 = M4 \o f5 /\ h3 = Q3 \o f4
        /\ f3 = M3 \o f4 /\ f2 = M2 \o f3 /\ h1 = Q1 \o f2 /\ f1 = M1 \o f2
  OBVIOUS
<1> DEFINE S == Units(V)
<1>1. \A b \in V : Fixed(b) \in S /\ Fixed(b)[2] = b
  BY UnitsHave
<1> HIDE DEF S
<1>2. /\ \A key \in EventKeys : Fixed(key) \in S
      /\ Escapable(V)
  BY <1>1 DEF FieldsIn
<1>3. /\ Fixed("timestamp") \in S /\ Fixed("class") \in S /\ Fixed("class_name") \in S
      /\ Fixed("confidence") \in S /\ Fixed("alert") \in S /\ Fixed("host") \in S
      /\ Fixed("features") \in S
      /\ Fixed(e.classIdx) \in S /\ Fixed(e.alert) \in S /\ Fixed(Printed(e.confidence)) \in S
      /\ Fixed(Printed(e.confidence))[2] = Printed(e.confidence)
  BY <1>1, <1>2 DEF EventKeys, FieldsIn
<1>4. F \in Seq(S) /\ Text(F) = IF inc THEN <<"features">> \o e.features ELSE << >>
  <2>1. fs \in Seq(V) /\ "features" \in V
    BY <1>b DEF FieldsIn, EventKeys
  <2>2. CASE inc
    <3>1. F = Member("features", [i \in 1..Len(fs) |-> Fixed(fs[i])])
      BY <1>c, <2>2
    <3>2. F \in Seq(Units(V)) /\ Text(F) = <<"features">> \o fs
      BY <2>1, <3>1, FeaturesRead
    <3> QED BY <1>b, <2>2, <3>2 DEF S
  <2>3. CASE ~inc
    <3>1. F = << >>
      BY <1>c, <2>3
    <3>2. Text(F) = << >> /\ F \in Seq(S)
      BY <3>1 DEF Text
    <3> QED BY <2>3, <3>2
  <2> QED BY <2>2, <2>3
<1>5. Q6 \in Seq(S) /\ h6 \in Seq(S) /\ Unquote(h6) = Past(e.host, F)
  <2>a. PICK s : s = e.host
    OBVIOUS
  <2>1. Escapable(V) /\ s \in Seq(V) /\ Legible(s) /\ F \in Seq(Units(V))
    BY <1>2, <1>4, <2>a DEF FieldsIn, S
  <2>2. Q6 = Quoted(s) /\ h6 = Q6 \o F
    BY <1>b, <1>d, <2>a
  <2>3. Q6 \in Seq(Units(V)) /\ h6 \in Seq(Units(V)) /\ UnquotedAs(h6, s, F)
    BY <2>1, <2>2, QuotedRead
  <2> QED BY <2>3, <2>a DEF S, UnquotedAs
<1>6. M6 \in Seq(S) /\ f6 \in Seq(S) /\ f6 = <<Fixed("host")>> \o h6
  <2>a. PICK k : k = "host"
    OBVIOUS
  <2>1. /\ Fixed(k) \in S /\ Q6 \in Seq(S) /\ F \in Seq(S) /\ M6 = Member(k, Q6)
        /\ f6 = M6 \o F /\ h6 = Q6 \o F
    BY <1>3, <1>4, <1>5, <1>c, <1>d, <2>a
  <2>2. M6 \in Seq(S) /\ f6 \in Seq(S) /\ KeyThen(f6, k, h6)
    BY <2>1, Keyed
  <2> QED BY <2>2, <2>a DEF KeyThen
<1>7. /\ M5 \in Seq(S) /\ Len(M5) = 2 /\ f5 \in Seq(S) /\ f5[2] = Fixed(e.alert)
      /\ \A i \in 1..Len(f6) : f5[2 + i] = f6[i]
  <2>a. PICK x, k : x = Fixed(e.alert) /\ k = "alert"
    OBVIOUS
  <2>1. Fixed(k) \in S /\ x \in S /\ f6 \in Seq(S) /\ M5 = Member(k, <<x>>) /\ f5 = M5 \o f6
    BY <1>3, <1>6, <1>c, <1>d, <2>a
  <2>2. M5 \in Seq(S) /\ f5 \in Seq(S) /\ ValueThen(f5, M5, x, f6)
    BY <2>1, Valued
  <2> QED BY <2>2, <2>a DEF ValueThen
<1>8. /\ M4 \in Seq(S) /\ Len(M4) = 2 /\ f4 \in Seq(S) /\ f4[2] = Fixed(Printed(e.confidence))
      /\ \A i \in 1..Len(f5) : f4[2 + i] = f5[i]
  <2>a. PICK x, k : x = Fixed(Printed(e.confidence)) /\ k = "confidence"
    OBVIOUS
  <2>1. Fixed(k) \in S /\ x \in S /\ f5 \in Seq(S) /\ M4 = Member(k, <<x>>) /\ f4 = M4 \o f5
    BY <1>3, <1>7, <1>c, <1>d, <2>a
  <2>2. M4 \in Seq(S) /\ f4 \in Seq(S) /\ ValueThen(f4, M4, x, f5)
    BY <2>1, Valued
  <2> QED BY <2>2, <2>a DEF ValueThen
<1>9. f4[4] = Fixed(e.alert) /\ From(f4, 6) = h6
  <2>a. PICK w2, k6, w, x, y : w2 = M4 \o M5 /\ k6 = <<Fixed("host")>> /\ w = w2 \o k6 /\ x = w \o h6
                               /\ y = w2 \o f6
    OBVIOUS
  <2>1. k6 \in Seq(S) /\ Len(k6) = 1
    BY <1>3, <2>a
  <2>2. M4 \in Seq(S) /\ M5 \in Seq(S) /\ w2 = M4 \o M5
    BY <1>7, <1>8, <2>a
  <2>3. /\ w2 \in Seq(S) /\ Len(w2) = Len(M4) + Len(M5)
        /\ Len(M4) \in Nat /\ Len(M5) \in Nat
        /\ \A i \in 1..Len(M4) : w2[i] = M4[i]
        /\ \A i \in 1..Len(M5) : w2[Len(M4) + i] = M5[i]
    BY <2>2, Parts
  <2>4. w2 \in Seq(S) /\ k6 \in Seq(S) /\ w = w2 \o k6
    BY <2>1, <2>3, <2>a
  <2>5. /\ w \in Seq(S) /\ Len(w) = Len(w2) + Len(k6)
        /\ Len(w2) \in Nat /\ Len(k6) \in Nat
        /\ \A i \in 1..Len(w2) : w[i] = w2[i]
        /\ \A i \in 1..Len(k6) : w[Len(w2) + i] = k6[i]
    BY <2>4, Parts
  <2>6. Len(w) = 5
    BY <1>7, <1>8, <2>1, <2>3, <2>5
  <2>7. w2 \in Seq(S) /\ k6 \in Seq(S) /\ h6 \in Seq(S) /\ w = w2 \o k6 /\ x = w \o h6 /\ f6 = k6 \o h6
    BY <1>5, <1>6, <2>4, <2>a
  <2>8. x = w2 \o f6 /\ x \in Seq(S) /\ f6 \in Seq(S) /\ w \in Seq(S)
    BY <2>7, Regrouped
  <2>9. M4 \in Seq(S) /\ M5 \in Seq(S) /\ f6 \in Seq(S) /\ w2 = M4 \o M5 /\ x = w2 \o f6 /\ f5 = M5 \o f6
    BY <1>6, <1>d, <2>2, <2>8
  <2>10. x = M4 \o f5 /\ x \in Seq(S) /\ f5 \in Seq(S) /\ w2 \in Seq(S)
    BY <2>9, Regrouped
  <2>11. PICK n : n = 6 /\ n = Len(w) + 1
    BY <2>6
  <2>12. w \in Seq(S) /\ h6 \in Seq(S) /\ f4 = w \o h6 /\ n = Len(w) + 1
    BY <1>d, <2>5, <2>7, <2>10, <2>11, <2>a
  <2>13. From(f4, n) = h6
    BY <2>12, FromParts DEF From
  <2>14. 2 \in 1..Len(f5)
    <3>1. M5 \in Seq(S) /\ f6 \in Seq(S) /\ f5 = M5 \o f6
      BY <1>6, <1>7, <1>d
    <3>2. /\ f5 \in Seq(S) /\ Len(f5) = Len(M5) + Len(f6)
          /\ Len(M5) \in Nat /\ Len(f6) \in Nat
          /\ \A i \in 1..Len(M5) : f5[i] = M5[i]
          /\ \A i \in 1..Len(f6) : f5[Len(M5) + i] = f6[i]
      BY <3>1, Parts
    <3> QED BY <1>7, <3>2
  <2>15. f4[2 + 2] = f5[2]
    BY <1>8, <2>14
  <2> QED BY <1>7, <2>11, <2>13, <2>15
<1>10. Q3 \in Seq(S) /\ h3 \in Seq(S) /\ Unquote(h3) = Past(e.className, f4)
  <2>a. PICK s : s = e.className
    OBVIOUS
  <2>1. Escapable(V) /\ s \in Seq(V) /\ Legible(s) /\ f4 \in Seq(Units(V))
    BY <1>2, <1>8, <2>a DEF FieldsIn, S
  <2>2. Q3 = Quoted(s) /\ h3 = Q3 \o f4
    BY <1>b, <1>d, <2>a
  <2>3. Q3 \in Seq(Units(V)) /\ h3 \in Seq(Units(V)) /\ UnquotedAs(h3, s, f4)
    BY <2>1, <2>2, QuotedRead
  <2> QED BY <2>3, <2>a DEF S, UnquotedAs
<1>11. M3 \in Seq(S) /\ f3 \in Seq(S) /\ f3 = <<Fixed("class_name")>> \o h3
  <2>a. PICK k : k = "class_name"
    OBVIOUS
  <2>1. /\ Fixed(k) \in S /\ Q3 \in Seq(S) /\ f4 \in Seq(S) /\ M3 = Member(k, Q3)
        /\ f3 = M3 \o f4 /\ h3 = Q3 \o f4
    BY <1>3, <1>8, <1>10, <1>c, <1>d, <2>a
  <2>2. M3 \in Seq(S) /\ f3 \in Seq(S) /\ KeyThen(f3, k, h3)
    BY <2>1, Keyed
  <2> QED BY <2>2, <2>a DEF KeyThen
<1>12. /\ M2 \in Seq(S) /\ Len(M2) = 2 /\ f2 \in Seq(S) /\ f2[2] = Fixed(e.classIdx)
  <2>a. PICK x, k : x = Fixed(e.classIdx) /\ k = "class"
    OBVIOUS
  <2>1. Fixed(k) \in S /\ x \in S /\ f3 \in Seq(S) /\ M2 = Member(k, <<x>>) /\ f2 = M2 \o f3
    BY <1>3, <1>11, <1>c, <1>d, <2>a
  <2>2. M2 \in Seq(S) /\ f2 \in Seq(S) /\ ValueThen(f2, M2, x, f3)
    BY <2>1, Valued
  <2> QED BY <2>2, <2>a DEF ValueThen
<1>13. From(f2, 4) = h3
  <2>a. PICK k3, w, x : k3 = <<Fixed("class_name")>> /\ w = M2 \o k3 /\ x = w \o h3
    OBVIOUS
  <2>1. k3 \in Seq(S) /\ Len(k3) = 1
    BY <1>3, <2>a
  <2>2. M2 \in Seq(S) /\ k3 \in Seq(S) /\ w = M2 \o k3
    BY <1>12, <2>1, <2>a
  <2>3. /\ w \in Seq(S) /\ Len(w) = Len(M2) + Len(k3)
        /\ Len(M2) \in Nat /\ Len(k3) \in Nat
        /\ \A i \in 1..Len(M2) : w[i] = M2[i]
        /\ \A i \in 1..Len(k3) : w[Len(M2) + i] = k3[i]
    BY <2>2, Parts
  <2>4. M2 \in Seq(S) /\ k3 \in Seq(S) /\ h3 \in Seq(S) /\ w = M2 \o k3 /\ x = w \o h3 /\ f3 = k3 \o h3
    BY <1>10, <1>11, <2>2, <2>a
  <2>5. x = M2 \o f3 /\ x \in Seq(S) /\ f3 \in Seq(S) /\ w \in Seq(S)
    BY <2>4, Regrouped
  <2>6. PICK n : n = 4 /\ n = Len(w) + 1
    BY <1>12, <2>1, <2>3
  <2>7. w \in Seq(S) /\ h3 \in Seq(S) /\ f2 = w \o h3 /\ n = Len(w) + 1
    BY <1>d, <2>4, <2>5, <2>6, <2>a
  <2>8. From(f2, n) = h3
    BY <2>7, FromParts DEF From
  <2> QED BY <2>6, <2>8
<1>14. Q1 \in Seq(S) /\ h1 \in Seq(S) /\ Unquote(h1) = Past(e.timestamp, f2)
  <2>a. PICK s : s = e.timestamp
    OBVIOUS
  <2>1. Escapable(V) /\ s \in Seq(V) /\ Legible(s) /\ f2 \in Seq(Units(V))
    BY <1>2, <1>12, <2>a DEF FieldsIn, S
  <2>2. Q1 = Quoted(s) /\ h1 = Q1 \o f2
    BY <1>b, <1>d, <2>a
  <2>3. Q1 \in Seq(Units(V)) /\ h1 \in Seq(Units(V)) /\ UnquotedAs(h1, s, f2)
    BY <2>1, <2>2, QuotedRead
  <2> QED BY <2>3, <2>a DEF S, UnquotedAs
<1>15. M1 \in Seq(S) /\ f1 \in Seq(S) /\ From(f1, 2) = h1
  <2>a. PICK k : k = "timestamp"
    OBVIOUS
  <2>1. /\ Fixed(k) \in S /\ Q1 \in Seq(S) /\ f2 \in Seq(S) /\ M1 = Member(k, Q1)
        /\ f1 = M1 \o f2 /\ h1 = Q1 \o f2
    BY <1>3, <1>12, <1>14, <1>c, <1>d, <2>a
  <2>2. M1 \in Seq(S) /\ f1 \in Seq(S) /\ KeyThen(f1, k, h1)
    BY <2>1, Keyed
  <2> QED BY <2>2, <2>a DEF KeyThen
<1>16. j = f1
  <2>a. PICK a2, a3, a4, a5, a6, x : /\ a2 = M1 \o M2 /\ a3 = a2 \o M3 /\ a4 = a3 \o M4 /\ a5 = a4 \o M5
                                     /\ a6 = a5 \o M6 /\ x = a6 \o F
    OBVIOUS
  <2>1. j = x
    BY <1>a, <1>b, <1>c, <2>a DEF toJson
  <2>2. a2 \in Seq(S) /\ a3 \in Seq(S) /\ a4 \in Seq(S) /\ a5 \in Seq(S)
    <3>1. a2 \in Seq(S)
      BY <1>12, <1>15, <2>a
    <3>2. a3 \in Seq(S)
      BY <1>11, <2>a, <3>1
    <3>3. a4 \in Seq(S)
      BY <1>8, <2>a, <3>2
    <3>4. a5 \in Seq(S)
      BY <1>7, <2>a, <3>3
    <3> QED BY <3>1, <3>2, <3>3, <3>4
  <2>3. a5 \in Seq(S) /\ M6 \in Seq(S) /\ F \in Seq(S) /\ a6 = a5 \o M6 /\ x = a6 \o F /\ f6 = M6 \o F
    BY <1>4, <1>6, <1>d, <2>2, <2>a
  <2>4. x = a5 \o f6 /\ x \in Seq(S) /\ f6 \in Seq(S) /\ a6 \in Seq(S)
    BY <2>3, Regrouped
  <2>5. a4 \in Seq(S) /\ M5 \in Seq(S) /\ f6 \in Seq(S) /\ a5 = a4 \o M5 /\ x = a5 \o f6 /\ f5 = M5 \o f6
    BY <1>6, <1>7, <1>d, <2>2, <2>4, <2>a
  <2>6. x = a4 \o f5 /\ x \in Seq(S) /\ f5 \in Seq(S) /\ a5 \in Seq(S)
    BY <2>5, Regrouped
  <2>7. a3 \in Seq(S) /\ M4 \in Seq(S) /\ f5 \in Seq(S) /\ a4 = a3 \o M4 /\ x = a4 \o f5 /\ f4 = M4 \o f5
    BY <1>7, <1>8, <1>d, <2>2, <2>6, <2>a
  <2>8. x = a3 \o f4 /\ x \in Seq(S) /\ f4 \in Seq(S) /\ a4 \in Seq(S)
    BY <2>7, Regrouped
  <2>9. a2 \in Seq(S) /\ M3 \in Seq(S) /\ f4 \in Seq(S) /\ a3 = a2 \o M3 /\ x = a3 \o f4 /\ f3 = M3 \o f4
    BY <1>8, <1>11, <1>d, <2>2, <2>8, <2>a
  <2>10. x = a2 \o f3 /\ x \in Seq(S) /\ f3 \in Seq(S) /\ a3 \in Seq(S)
    BY <2>9, Regrouped
  <2>11. M1 \in Seq(S) /\ M2 \in Seq(S) /\ f3 \in Seq(S) /\ a2 = M1 \o M2 /\ x = a2 \o f3 /\ f2 = M2 \o f3
    BY <1>11, <1>12, <1>15, <1>d, <2>10, <2>a
  <2>12. x = M1 \o f2 /\ x \in Seq(S) /\ f2 \in Seq(S) /\ a2 \in Seq(S)
    BY <2>11, Regrouped
  <2> QED BY <1>d, <2>1, <2>12
<1>17. \A t, r : Past(t, r).mode = "past" /\ Past(t, r).text = t /\ Past(t, r).rest = r
  BY DEF Past
<1>18. f4[2][2] * 10 - e.confidence \in -5..5
  BY <1>3, <1>8, PrintedNear
<1>19. ReadsEvent(f1, e)
  <2>a. PICK time, name, host : time = Unquote(From(f1, 2)) /\ name = Unquote(From(time.rest, 4))
                                /\ host = Unquote(From(name.rest, 6))
    OBVIOUS
  <2>1. time = Past(e.timestamp, f2)
    BY <1>14, <1>15, <2>a
  <2>2. time.text = e.timestamp /\ time.rest = f2
    BY <1>17, <2>1
  <2>3. name = Past(e.className, f4)
    BY <1>10, <1>13, <2>2, <2>a
  <2>4. name.text = e.className /\ name.rest = f4
    BY <1>17, <2>3
  <2>5. host = Past(e.host, F)
    BY <1>5, <1>9, <2>4, <2>a
  <2>6. host.mode = "past" /\ host.text = e.host /\ host.rest = F
    BY <1>17, <2>5
  <2> QED BY <1>4, <1>8, <1>9, <1>12, <1>18, <1>a, <2>2, <2>4, <2>6, <2>a, Zenon DEF ReadsEvent
<1> QED BY <1>15, <1>16, <1>19 DEF S

\* Topics of the two kinds.
TopicCharacters == Characters \cup {"/", "/events", "/alerts"}

\* A topic is the prefix, the host and the kind.
LEMMA TopicIs ==
  ASSUME Strings, NEW kind \in {"/events", "/alerts"}
  PROVE  /\ Topic(kind) \in Seq(TopicCharacters)
         /\ Len(Topic(kind)) = Len(c["mqtt_topic_prefix"]) + Len(c["host"]) + 2
<1>a. PICK X, a, h, k, d : X = TopicCharacters /\ a = c["mqtt_topic_prefix"] /\ h = c["host"]
                           /\ k = <<kind>> /\ d = <<"/">>
  OBVIOUS
<1>1. a \in Seq(Characters) /\ h \in Seq(Characters)
  BY <1>a DEF Strings, StringKeys
<1>2. Characters \subseteq X
  BY <1>a DEF TopicCharacters
<1>3. a \in Seq(X) /\ h \in Seq(X)
  BY <1>1, <1>2, SeqMonotonic
<1>4. kind \in X /\ "/" \in X
  BY <1>a DEF TopicCharacters
<1>5. k \in Seq(X) /\ Len(k) = 1 /\ d \in Seq(X) /\ Len(d) = 1
  BY <1>4, <1>a
<1>b. PICK u, v, w, l, n : /\ u = a \o d /\ v = u \o h /\ w = v \o k
                           /\ l = Len(a) /\ n = Len(h)
  OBVIOUS
<1>6. Topic(kind) = w
  BY <1>a, <1>b DEF Topic
<1>7. u \in Seq(X) /\ Len(u) = l + 1 /\ l \in Nat
  <2>1. a \in Seq(X) /\ d \in Seq(X) /\ u = a \o d
    BY <1>3, <1>5, <1>b
  <2>2. u \in Seq(X) /\ Len(u) = Len(a) + Len(d) /\ Len(a) \in Nat
    BY <2>1, Parts
  <2> QED BY <2>2, <1>5, <1>b
<1>8. v \in Seq(X) /\ Len(v) = l + 1 + n /\ n \in Nat
  <2>1. u \in Seq(X) /\ h \in Seq(X) /\ v = u \o h
    BY <1>3, <1>7, <1>b
  <2>2. v \in Seq(X) /\ Len(v) = Len(u) + Len(h) /\ Len(h) \in Nat
    BY <2>1, Parts
  <2> QED BY <2>2, <1>7, <1>b
<1>9. w \in Seq(X) /\ Len(w) = l + n + 2
  <2>1. v \in Seq(X) /\ k \in Seq(X) /\ w = v \o k
    BY <1>5, <1>8, <1>b
  <2>2. w \in Seq(X) /\ Len(w) = Len(v) + Len(k)
    BY <2>1, Parts
  <2>3. Len(w) = l + 1 + n + 1
    BY <2>2, <1>5, <1>8
  <2> QED BY <2>2, <2>3, <1>7, <1>8
<1> QED BY <1>6, <1>9, <1>a, <1>b, Zenon

\* normalize() yields one number for each input.
LEMMA NormalizeIs ==
  ASSUME NEW mod, mod.n_in \in Nat, NEW x
  PROVE  \E G : normalize(mod, x) \in Seq(G)
<1>a. PICK n, f : n = mod.n_in /\ f = [j \in 1..n |->
         LET d == mod.feature_max[j] - mod.feature_min[j]
         IN  Clamp(IF d > 0 THEN (Unit * (x[j] - mod.feature_min[j])) \div d ELSE 0)]
  OBVIOUS
<1>b. PICK G : G = {f[j] : j \in 1..n}
  OBVIOUS
<1>1. normalize(mod, x) = << >> \o f
  BY <1>a, Zenon DEF normalize
<1>2. n \in Nat /\ f \in [1..n -> G]
  <2>1. f = [j \in 1..n |-> f[j]]
    BY <1>a
  <2> QED BY <1>a, <1>b, <2>1
<1>3. f \in Seq(G) /\ Len(f) = n /\ << >> \o f = f
  BY <1>2, FunctionIsSeq
<1> QED BY <1>1, <1>3

\* The event of a window, once it is filled.
EventSet ==
  /\ ev.timestamp = <<"now">> /\ (\E cls : ev.className = <<cls>>) /\ ev.host = c["host"]
  /\ ev.confidence \in Nat /\ \E G : ev.features \in Seq(G)

\* The model is of the metadata's shape, and the packets are those of the event.
EventInv ==
  /\ PlaceInv /\ ConnectInv
  /\ step \in PastSetup => m.n_in = Len(FEATURE_ORDER)
  /\ step \in {"publish", "running"} => EventSet
  /\ sent # << >> => step = "running" /\ sent = Packets(ev)

\* There is no event before run().
LEMMA InitEvent == Init => EventInv
<1> SUFFICES ASSUME Init PROVE EventInv
  OBVIOUS
<1>1. step = "args" /\ sent = << >>
  BY DEF Init
<1> QED BY <1>1, InitPlace, InitConnect DEF EventInv, PastSetup

\* Every step of main() keeps to this.
LEMMA NextEvent == ASSUME EventInv, [Next]_vars PROVE EventInv'
<1>1. PlaceInv' /\ ConnectInv'
  BY NextPlace, NextConnect DEF EventInv
<1>2. PlaceInv /\ ConnectInv /\ MainInv
  BY DEF EventInv, PlaceInv
<1>3. ASSUME UNCHANGED <<c, ev>> PROVE EventSet' <=> EventSet
  BY <1>3 DEF EventSet
<1>4. ASSUME UNCHANGED <<c, ev>> PROVE Packets(ev)' = Packets(ev)
  BY <1>4 DEF Packets, Topic
<1>5. CASE UNCHANGED vars
  <2>1. UNCHANGED <<c, ev, step, m, sent>>
    BY <1>5 DEF vars, configVars, members, window
  <2> QED BY <1>1, <1>3, <1>4, <2>1 DEF EventInv
<1>6. ASSUME sent' = sent, step # "running", step' \notin PastSetup PROVE EventInv'
  BY <1>1, <1>6 DEF EventInv, PastSetup
<1>7. CASE Args
  BY <1>6, <1>7 DEF Args, End, window, PastSetup
<1>8. CASE LoadConfig
  <2>1. step = "config" /\ sent' = sent
    BY <1>8 DEF LoadConfig, window
  <2>2. step' \in {"ended", "setup", "config"}
    BY <1>8, <2>1 DEF LoadConfig, End
  <2> QED BY <1>6, <2>1, <2>2 DEF PastSetup
<1>9. CASE SetupFails
  BY <1>6, <1>9 DEF SetupFails, End, window, PastSetup
<1>10. CASE Setup
  <2>1. step = "setup" /\ sent' = sent /\ step' \in {"print", "connect"}
    BY <1>10 DEF Setup, window
  <2>2. m'.n_in = Len(FEATURE_ORDER)
    BY <1>10 DEF Setup, Accepted
  <2>3. sent = << >>
    BY <2>1 DEF EventInv
  <2> QED BY <1>1, <2>1, <2>2, <2>3 DEF EventInv
<1>11. CASE printRoutes
  BY <1>6, <1>11 DEF printRoutes, End, window, PastSetup
<1>12. ASSUME step \in PastSetup, sent = << >>, sent' = << >>, m' = m, step' \notin {"publish", "running"}
       PROVE  EventInv'
  BY <1>1, <1>12 DEF EventInv
<1>13. CASE RunConnect
  <2>1. step = "connect" /\ step' = "sample" /\ sent' = sent /\ m' = m
    BY <1>13 DEF RunConnect, members, window
  <2> QED BY <1>12, <2>1 DEF EventInv, PastSetup
<1>14. CASE Sample
  <2>1. step = "sample" /\ step' = "infer" /\ sent' = sent /\ m' = m
    BY <1>14 DEF Sample, members
  <2> QED BY <1>12, <2>1 DEF EventInv, PastSetup
<1>15. ASSUME NEW confidence \in Confidences, NEW alert \in BOOLEAN, Infer(confidence, alert)
       PROVE  EventInv'
  <2>1. step = "infer" /\ step' = "publish" /\ sent' = sent /\ m' = m /\ c' = c
    BY <1>15 DEF Infer, members, configVars
  <2>2. m.n_in = Len(FEATURE_ORDER) /\ sent = << >>
    BY <2>1 DEF EventInv, PastSetup
  <2>3. m.n_in \in Nat
    BY <2>2, Table DEF Features
  <2>a. PICK x, cls : /\ x = normalize(m, raw) /\ cls = predict(m, normalize(m, raw))
    OBVIOUS
  <2>4. ev' = [timestamp |-> <<"now">>, classIdx |-> predict(m, normalize(m, raw)),
               className |-> <<ClassName(predict(m, normalize(m, raw)))>>,
               confidence |-> confidence, host |-> c["host"], alert |-> alert,
               features |-> normalize(m, raw)]
    BY <1>15 DEF Infer
  <2>5. /\ ev'.timestamp = <<"now">> /\ ev'.className = <<ClassName(cls)>> /\ ev'.host = c["host"]
        /\ ev'.confidence = confidence /\ ev'.features = x
    BY <2>4, <2>a
  <2>6. confidence \in Nat
    <3>1. confidence \in Confidences
      BY <1>15
    <3> QED BY <3>1, ConfidenceAssumption
  <2>7. \E G : x \in Seq(G)
    BY <2>3, <2>a, NormalizeIs
  <2>8. EventSet'
    BY <2>1, <2>5, <2>6, <2>7 DEF EventSet
  <2> QED BY <1>1, <2>1, <2>2, <2>8 DEF EventInv
<1>16. CASE Publish
  <2>1. step = "publish" /\ step' = "running" /\ sent' = Packets(ev) /\ UNCHANGED <<c, ev, m>>
    BY <1>16 DEF Publish, members, configVars
  <2>2. m.n_in = Len(FEATURE_ORDER) /\ EventSet
    BY <2>1 DEF EventInv, PastSetup
  <2> QED BY <1>1, <1>3, <1>4, <2>1, <2>2 DEF EventInv
<1> QED BY <1>5, <1>7, <1>8, <1>9, <1>10, <1>11, <1>13, <1>14, <1>15, <1>16 DEF Next

\* The event's strings hold no character that jsonEscape passes through.
LegibleEvent == Legible(ev.timestamp) /\ Legible(ev.className) /\ Legible(ev.host)

\* A packet of an event is read back whole.
LEMMA PacketRead ==
  ASSUME Strings, EventSet, LegibleEvent, NEW kind \in {"/events", "/alerts"}, Fits(Topic("/events")),
         NEW p, p = PublishPacket(Topic(kind), toJson(ev, c["include_features"]))
  PROVE  /\ WellFramed(p) /\ HasString(Body(p)) /\ StringIn(Body(p)) = Topic(kind)
         /\ ReadsEvent(AfterString(Body(p)), ev)
<1>a. PICK e, t, j, s, b : /\ e = ev /\ t = Topic(kind) /\ j = toJson(e, c["include_features"])
                           /\ s = putString(t) /\ b = s \o j
  OBVIOUS
<1>1. PICK cls, G : e.className = <<cls>> /\ e.features \in Seq(G)
  BY <1>a DEF EventSet
<1>b. PICK V : V = TopicCharacters \cup G \cup EventKeys
                     \cup {cls, "now", "quote", "backslash", "PUBLISH",
                           e.classIdx, e.alert, Printed(e.confidence)}
  OBVIOUS
<1>2. t \in Seq(V) /\ Len(t) < Base * Base
  <2>1. TopicCharacters \subseteq V
    BY <1>b
  <2>2. t \in Seq(TopicCharacters)
    BY <1>a, TopicIs
  <2>3. t \in Seq(V)
    BY <2>1, <2>2, SeqMonotonic
  <2>4. Len(t) = Len(Topic("/events"))
    BY <1>a, TopicIs
  <2> QED BY <2>3, <2>4 DEF Fits
<1>3. FieldsIn(e, V) /\ e.confidence \in Nat
  <2>1. Escapable(V) /\ EventKeys \subseteq V
    BY <1>b DEF Escapable
  <2>2. cls \in V /\ "now" \in V /\ e.classIdx \in V /\ e.alert \in V /\ Printed(e.confidence) \in V
    BY <1>b
  <2>3. e.timestamp \in Seq(V) /\ e.className \in Seq(V)
    <3>a. PICK x : x = "now"
      OBVIOUS
    <3>1. e.timestamp = <<x>> /\ e.className = <<cls>>
      BY <1>1, <1>a, <3>a DEF EventSet
    <3>2. x \in V /\ cls \in V
      BY <2>2, <3>a
    <3>3. <<x>> \in Seq(V) /\ <<cls>> \in Seq(V)
      BY <3>2
    <3> QED BY <3>1, <3>3, Zenon
  <2>4. e.host \in Seq(V)
    <3>1. e.host \in Seq(Characters)
      BY <1>a DEF EventSet, Strings, StringKeys
    <3>2. Characters \subseteq V
      BY <1>b DEF TopicCharacters
    <3> QED BY <3>1, <3>2, SeqMonotonic
  <2>5. e.features \in Seq(V)
    <3>1. G \subseteq V
      BY <1>b
    <3> QED BY <1>1, <3>1, SeqMonotonic
  <2>6. e.confidence \in Nat
    BY <1>a DEF EventSet
  <2>7. Legible(e.timestamp) /\ Legible(e.className) /\ Legible(e.host)
    BY <1>a DEF LegibleEvent
  <2> QED BY <2>1, <2>2, <2>3, <2>4, <2>5, <2>6, <2>7 DEF FieldsIn
<1>4. j \in Seq(Units(V)) /\ ReadsEvent(j, e)
  <2>1. j = toJson(e, c["include_features"])
    BY <1>a
  <2> QED BY <1>3, <2>1, EventRead
<1>5. /\ s \in Seq(Units(V)) /\ b \in Seq(Units(V))
      /\ HasString(b) /\ StringIn(b) = t /\ AfterString(b) = j
  <2>1. t \in Seq(V) /\ Len(t) < Base * Base /\ j \in Seq(Units(V)) /\ s = putString(t) /\ b = s \o j
    BY <1>2, <1>4, <1>a
  <2> QED BY <2>1, StringRead, ZenonT(60)
<1>6. WellFramed(p) /\ Body(p) = b
  <2>a. PICK S : S = Units(V)
    OBVIOUS
  <2>1. p = Framed("PUBLISH", b)
    BY <1>a DEF PublishPacket
  <2>2. "PUBLISH" \in V
    BY <1>b
  <2>3. Fixed("PUBLISH") \in S /\ {"number"} \X Nat \subseteq S
    BY <2>2, <2>a, UnitsHave
  <2>b. PICK z : z = p
    OBVIOUS
  <2>4. b \in Seq(S) /\ Fixed("PUBLISH") \in S /\ {"number"} \X Nat \subseteq S /\ z = Framed("PUBLISH", b)
    BY <1>5, <2>1, <2>3, <2>a, <2>b
  <2>5. WellFramed(z) /\ Body(z) = b
    BY <2>4, FramedReads
  <2> QED BY <2>5, <2>b
<1> QED BY <1>4, <1>5, <1>6, <1>a

\* The packets of a window are the event's, for one topic or the other.
LEMMA PacketsAre ==
  ASSUME NEW e, NEW i \in 1..Len(Packets(e))
  PROVE  \E kind \in {"/events", "/alerts"} :
           Packets(e)[i] = PublishPacket(Topic(kind), toJson(e, c["include_features"]))
<1> DEFINE P(kind) == PublishPacket(Topic(kind), toJson(e, c["include_features"]))
<1>a. PICK a, b, S : /\ a = (IF c["publish_every_window"] THEN <<P("/events")>> ELSE << >>)
                     /\ b = (IF e.alert THEN <<P("/alerts")>> ELSE << >>)
                     /\ S = {P("/events"), P("/alerts")}
  OBVIOUS
<1>1. Packets(e) = a \o b
  BY <1>a DEF Packets
<1> HIDE DEF P
<1>b. PICK x, y : x = P("/events") /\ y = P("/alerts")
  OBVIOUS
<1>2. a \in Seq(S) /\ b \in Seq(S)
  <2>1. x \in S /\ y \in S
    BY <1>a, <1>b
  <2>2. <<x>> \in Seq(S) /\ <<y>> \in Seq(S) /\ << >> \in Seq(S)
    BY <2>1
  <2>3. a \in {<<x>>, << >>} /\ b \in {<<y>>, << >>}
    BY <1>a, <1>b, Zenon
  <2> QED BY <2>2, <2>3
<1>3. a \o b \in Seq(S)
  BY <1>2
<1>4. Packets(e)[i] \in S
  BY <1>1, <1>3, ElementOfSeq
<1> QED BY <1>4, <1>a DEF P

\* Every packet sent carries the event.
LEMMA SentUnderstood == EventInv => EventUnderstood
<1> SUFFICES ASSUME EventInv, NEW i \in 1..Len(sent), Fits(Topic("/events")),
                    \A s \in {ev.timestamp, ev.className, ev.host} : Legible(s)
             PROVE  /\ WellFramed(sent[i]) /\ HasString(Body(sent[i]))
                    /\ StringIn(Body(sent[i])) \in {Topic("/events"), Topic("/alerts")}
                    /\ ReadsEvent(AfterString(Body(sent[i])), ev)
  BY Zenon DEF EventUnderstood
<1>1. sent # << >>
  OBVIOUS
<1>2. sent = Packets(ev) /\ EventSet /\ Strings
  BY <1>1 DEF EventInv, ConnectInv
<1>3. PICK kind \in {"/events", "/alerts"} :
        sent[i] = PublishPacket(Topic(kind), toJson(ev, c["include_features"]))
  BY <1>2, PacketsAre
<1>4. /\ WellFramed(sent[i]) /\ HasString(Body(sent[i])) /\ StringIn(Body(sent[i])) = Topic(kind)
      /\ ReadsEvent(AfterString(Body(sent[i])), ev)
  <2>1. LegibleEvent
    BY DEF LegibleEvent
  <2> QED BY <1>2, <1>3, <2>1, PacketRead
<1> QED BY <1>4

\* A subscriber gets back the event's fields, whatever is switched on and
\* wherever quotes, backslashes, tabs and line ends stand in its strings; the
\* other control characters, which jsonEscape passes through, are left out.
THEOREM SubscriberReadsEvent == Spec => []EventUnderstood
BY InitEvent, NextEvent, SentUnderstood, PTL DEF Spec
=============================================================================
