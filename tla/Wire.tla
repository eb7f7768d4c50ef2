-------------------------------- MODULE Wire --------------------------------
(***************************************************************************)
(* What goes over the connection: MqttPublisher's packet encoding          *)
(* (src/mqtt_publisher.cpp) and DetectionEvent::toJson                     *)
(* (detection_event.hpp), with readers for both.                           *)
(*                                                                         *)
(* A string is a sequence of characters; characters the code does not tell *)
(* apart may stand together as one. A packet is a sequence of units: a     *)
(* number below Base, a character, or a byte of fixed bits. Base is 256 in *)
(* the code and small here, so that lengths meet its limits.               *)
(***************************************************************************)
EXTENDS Integers, SequencesExt

CONSTANT Base   \* values of a byte

ASSUME WireAssumption == Base \in Nat /\ Base >= 4 /\ Base % 2 = 0

Half == Base \div 2      \* 7 bits, and the weight of the continuation bit

N(n)       == <<"number", n>>
Chars(s)   == [i \in 1..Len(s) |-> <<"char", s[i]>>]
Fixed(b)   == <<"fixed", b>>
Text(u)    == [i \in 1..Len(u) |-> u[i][2]]
AllAre(u, k) == \A i \in 1..Len(u) : u[i][1] = k

-----------------------------------------------------------------------------
(* Encoding *)

RemainingLength[len \in Nat] ==
  IF len < Half THEN <<N(len)>>
  ELSE <<N(Half + (len % Half))>> \o RemainingLength[len \div Half]

\* Both bytes of a 16-bit field; more significant bits are lost.
Short(n) == <<N((n \div Base) % Base), N(n % Base)>>

putString(s) == Short(Len(s)) \o Chars(s)

Optional(s) == IF s = << >> THEN << >> ELSE putString(s)

Framed(type, body) == <<Fixed(type)>> \o RemainingLength[Len(body)] \o body

Given(s) == s # << >>

\* Mutant of Flags: the password flag is tied to the username.
FlagsUserOnly(o) == Fixed(<<Given(o.username), Given(o.username)>>)

Flags(o) == Fixed(<<Given(o.username), Given(o.password)>>)

ConnectPacket(o) ==
  Framed("CONNECT",
    putString(<<"MQTT">>) \o <<Fixed("level4"), Flags(o)>> \o Short(o.keepalive)
      \o putString(o.client_id) \o Optional(o.username) \o Optional(o.password))

PublishPacket(topic, payload) == Framed("PUBLISH", putString(topic) \o payload)

-----------------------------------------------------------------------------
(* toJson *)

\* What the code writes after a backslash; "control" is any other character
\* below 0x20, which it writes as it is.
Escapes == {"quote", "backslash", "newline", "tab", "return"}

\* Mutant of Escaped: backslashes are passed through.
EscapedNoBackslash(c) ==
  IF c \in Escapes \ {"backslash"} THEN <<"backslash", c>> ELSE <<c>>

\* The letter after a backslash is written as what it stands for.
Escaped(c) == IF c \in Escapes THEN <<"backslash", c>> ELSE <<c>>

jsonEscape(s) == FlattenSeq([i \in 1..Len(s) |-> Escaped(s[i])])

Quoted(s) == Chars(<<"quote">> \o jsonEscape(s) \o <<"quote">>)

Member(key, value) == <<Fixed(key)>> \o value

\* "%.4f", of a confidence in units of 0.00001.
Printed(confidence) == (confidence + 5) \div 10

toJson(ev, includeFeatures) ==
  Member("timestamp", Quoted(ev.timestamp)) \o Member("class", <<Fixed(ev.classIdx)>>)
    \o Member("class_name", Quoted(ev.className))
    \o Member("confidence", <<Fixed(Printed(ev.confidence))>>)
    \o Member("alert", <<Fixed(ev.alert)>>) \o Member("host", Quoted(ev.host))
    \o (IF includeFeatures
        THEN Member("features", [i \in 1..Len(ev.features) |-> Fixed(ev.features[i])])
        ELSE << >>)

-----------------------------------------------------------------------------
(* The broker's and the subscriber's reading (external) *)

From(u, i) == SubSeq(u, i, Len(u))

\* The unit that ends the remaining length, and the length it encodes.
LengthEnd(u) == SelectInSubSeq(u, 2, Len(u), LAMBDA x : x[1] = "number" /\ x[2] < Half)

Length(u) ==
  LET last == LengthEnd(u)
      value[k \in 0..(last - 1)] ==
        IF k = 0 THEN 0 ELSE value[k - 1] * Half + (u[last + 1 - k][2] % Half)
  IN  value[last - 1]

\* A whole packet, and nothing else.
WellFramed(u) == LengthEnd(u) # 0 /\ Length(u) = Len(u) - LengthEnd(u)

Body(u) == From(u, LengthEnd(u) + 1)

Number(u) == u[1][2] * Base + u[2][2]

HasString(u) ==
  /\ Len(u) >= 2 /\ AllAre(SubSeq(u, 1, 2), "number")
  /\ Len(u) >= 2 + Number(u) /\ AllAre(SubSeq(u, 3, 2 + Number(u)), "char")

StringIn(u)   == Text(SubSeq(u, 3, 2 + Number(u)))
AfterString(u) == From(u, 3 + Number(u))

\* JSON forbids these in a string as they are.
Forbidden == {"quote", "backslash", "newline", "tab", "return", "control"}

Bare(x)   == \A c \in Forbidden : x # <<"char", c>>
Letter(x) == \E c \in Escapes : x = <<"char", c>>

\* A JSON string from its opening quote: its text and what follows it, or
\* "bad" from the first character a JSON reader refuses.
Unquote(u) ==
  LET st[i \in 1..Len(u)] ==
        IF i = 1 THEN [mode |-> "in", text |-> << >>, rest |-> << >>]
        ELSE LET q == st[i - 1] IN
             CASE q.mode = "past" -> [q EXCEPT !.rest = Append(@, u[i])]
               [] q.mode = "in" /\ u[i] = <<"char", "quote">>     -> [q EXCEPT !.mode = "past"]
               [] q.mode = "in" /\ u[i] = <<"char", "backslash">> -> [q EXCEPT !.mode = "escape"]
               [] (q.mode = "in" /\ Bare(u[i])) \/ (q.mode = "escape" /\ Letter(u[i])) ->
                    [q EXCEPT !.mode = "in", !.text = Append(@, u[i][2])]
               [] OTHER -> [q EXCEPT !.mode = "bad"]
  IN  st[Len(u)]
=============================================================================
