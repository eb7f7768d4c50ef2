------------------------------- MODULE Config -------------------------------
(***************************************************************************)
(* Config::load (src/config.cpp): the key=value file, line by line.        *)
(*                                                                         *)
(* A text is what is left of a line's right-hand side after trim: a token, *)
(* and whether anything (such as a remark) follows it. A token is a        *)
(* numeral, a numeral too large for an int, a word (taken modulo case) or  *)
(* nothing. The conversions keep what the code's do: stoi and stof read    *)
(* the token and ignore what follows, toBool compares the whole text, and  *)
(* a string setting is the spelling of the whole text, a sequence of       *)
(* characters. min_confidence is in percent.                               *)
(***************************************************************************)
EXTENDS Integers, Sequences

CONSTANTS
  Lines,        \* bound: the lines that occur in files
  HostName,     \* the string gethostname() returns
  MaxLines      \* bound: lines of a file

StringKeys == {"model_path", "host", "mqtt_host", "mqtt_client_id",
               "mqtt_username", "mqtt_password", "mqtt_topic_prefix"}
IntKeys    == {"window_sec", "mqtt_port", "mqtt_keepalive", "alert_streak"}
BoolKeys   == {"publish_every_window", "include_features"}
FloatKeys  == {"min_confidence"}
Keys       == StringKeys \cup IntKeys \cup BoolKeys \cup FloatKeys

Num(n, digits) == [kind |-> "num", value |-> n, spelling |-> digits]
Huge(digits)   == [kind |-> "huge", value |-> 10^9, spelling |-> digits]
Word(w)        == [kind |-> "word", value |-> 0, spelling |-> w]
Nothing        == [kind |-> "nothing", value |-> 0, spelling |-> << >>]

\* Lines load() skips, and settings.
Skipped == {[key |-> k] : k \in {"blank", "comment", "noEquals"}}
Setting(k, tok, remark) == [key |-> k, tok |-> tok, remark |-> remark]

ASSUME ConfigAssumption ==
  /\ HostName \in Seq(STRING) \ {<< >>} /\ MaxLines \in Nat
  /\ \A l \in Lines : l.key \in Keys =>
       /\ l.tok.kind \in {"num", "huge", "word", "nothing"} /\ l.tok.spelling \in Seq(STRING)
       /\ l.remark \in BOOLEAN

VARIABLES
  phase,        \* "open", "read", "done", or "threw"
  c,            \* the Config being filled
  ok,           \* the flag returned through the pointer
  file          \* history: the lines read

configVars == <<phase, c, ok, file>>

-----------------------------------------------------------------------------
(* Defaults and conversions *)

Default(k) ==
  CASE k = "model_path"           -> <<"/etc/hids/model.bin">>
    [] k = "mqtt_host"            -> <<"127.0.0.1">>
    [] k = "mqtt_topic_prefix"    -> <<"hids">>
    [] k \in StringKeys \ {"model_path", "mqtt_host", "mqtt_topic_prefix"} -> << >>
    [] k = "window_sec"           -> 30
    [] k = "mqtt_port"            -> 1883
    [] k = "mqtt_keepalive"       -> 60
    [] k = "alert_streak"         -> 2
    [] k \in BoolKeys             -> TRUE
    [] k = "min_confidence"       -> 60

Spelling(l) == IF l.remark THEN Append(l.tok.spelling, " # remark") ELSE l.tok.spelling

toBool(l) == Spelling(l) \in {<<"1">>, <<"true">>, <<"yes">>, <<"on">>}

\* std::stoi and std::stof throw on a text that begins with no numeral, stoi
\* also on one it cannot represent.
Throws(l) ==
  \/ l.key \in IntKeys /\ l.tok.kind # "num"
  \/ l.key \in FloatKeys /\ l.tok.kind \in {"word", "nothing"}

Convert(l) ==
  CASE l.key \in StringKeys -> Spelling(l)
    [] l.key \in BoolKeys   -> toBool(l)
    [] OTHER                -> l.tok.value

-----------------------------------------------------------------------------
(* load() *)

LoadInit ==
  /\ phase = "open" /\ ok = FALSE /\ file = << >>
  /\ c = [k \in Keys |-> Default(k)]

Open ==
  /\ phase = "open"
  /\ phase' = "read"
  /\ ok' = TRUE
  /\ UNCHANGED <<c, file>>

\* Mutant of ClientId: derived from the host of the file.
ClientIdOfFile(d) ==
  IF d["mqtt_client_id"] # << >> THEN d["mqtt_client_id"] ELSE <<"hids-">> \o d["host"]

Host(d) == IF d["host"] # << >> THEN d["host"] ELSE HostName

ClientId(d) ==
  IF d["mqtt_client_id"] # << >> THEN d["mqtt_client_id"] ELSE <<"hids-">> \o Host(d)

\* The stream did not open, or getline met its end.
Finish ==
  /\ phase \in {"open", "read"}
  /\ phase' = "done"
  /\ c' = [c EXCEPT !["host"] = Host(c), !["mqtt_client_id"] = ClientId(c)]
  /\ UNCHANGED <<ok, file>>

\* One turn of the getline loop. An exception leaves load(), and main() too.
ReadLine(l) ==
  /\ phase = "read" /\ Len(file) < MaxLines
  /\ file' = Append(file, l)
  /\ \/ l.key \notin Keys /\ UNCHANGED <<phase, c>>
     \/ /\ l.key \in Keys /\ Throws(l)
        /\ phase' = "threw" /\ UNCHANGED c
     \/ /\ l.key \in Keys /\ ~Throws(l)
        /\ c' = [c EXCEPT ![l.key] = Convert(l)]
        /\ UNCHANGED phase
  /\ UNCHANGED ok

Load == Open \/ Finish \/ \E l \in Lines : ReadLine(l)

LoadSpec == LoadInit /\ [][Load]_configVars

-----------------------------------------------------------------------------
SettingsOf(k) == {i \in DOMAIN file : file[i].key = k}

\* The last setting of k in the file.
LastSetting(k) == file[CHOOSE i \in SettingsOf(k) : \A j \in SettingsOf(k) : j <= i]

\* What the file says about k.
Meant(k) == IF SettingsOf(k) = {} THEN Default(k) ELSE Convert(LastSetting(k))

\* "unknown keys are ignored, missing keys keep defaults" (config.hpp:33):
\* whatever the order of the lines, a setting has the value of its last line
\* or its default, and the identity defaults apply exactly to an unset or
\* emptied host and client id, the client id following the host in effect.
LoadedAsWritten ==
  phase = "done" =>
    /\ \A k \in Keys \ {"host", "mqtt_client_id"} : c[k] = Meant(k)
    /\ c["host"] = IF Meant("host") = << >> THEN HostName ELSE Meant("host")
    /\ c["mqtt_client_id"] = IF Meant("mqtt_client_id") = << >>
                             THEN <<"hids-">> \o c["host"] ELSE Meant("mqtt_client_id")

\* config/hids.conf.example writes `publish_every_window = true    # false =
\* publish only confirmed alerts` (line 21): a remark after a value does not
\* change the value.
RemarksAreIgnored ==
  phase = "done" =>
    \A k \in BoolKeys :
      SettingsOf(k) # {} => c[k] = Convert([LastSetting(k) EXCEPT !.remark = FALSE])
=============================================================================
