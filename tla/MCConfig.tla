------------------------------ MODULE MCConfig ------------------------------
(* Lines for TLC that reach every branch of Config::load. *)
EXTENDS Config

MCHostName == <<"rpi3">>

MCLines ==
  Skipped \cup {Setting("colour", Word(<<"red">>), FALSE)}
    \cup {Setting("host", t, r) : r \in BOOLEAN, t \in {Nothing, Word(<<"pi", "quote">>)}}
    \cup {Setting("host", Word([i \in 1..59 |-> "x"]), FALSE),
          Setting("host", Word(<<"pi", "backslash">>), FALSE),
          Setting("host", Word(<<"pi", "tab", "2">>), FALSE),
          Setting("host", Word(<<"pi", "control", "2">>), FALSE),
          Setting("mqtt_client_id", Word(<<"sensor">>), FALSE),
          Setting("mqtt_client_id", Nothing, FALSE),
          Setting("mqtt_username", Word(<<"u">>), FALSE),
          Setting("mqtt_password", Word([i \in 1..63 |-> "p"]), FALSE),
          Setting("mqtt_password", Word([i \in 1..64 |-> "p"]), FALSE),
          Setting("mqtt_keepalive", Num(63, <<"63">>), TRUE),
          Setting("mqtt_keepalive", Num(64, <<"64">>), FALSE),
          Setting("mqtt_keepalive", Word(<<"often">>), FALSE),
          Setting("publish_every_window", Num(0, <<"0">>), FALSE),
          Setting("window_sec", Huge(<<"99999999999">>), FALSE),
          Setting("min_confidence", Huge(<<"1e20">>), FALSE),
          Setting("min_confidence", Nothing, FALSE)}
    \cup {Setting("include_features", t, r) : r \in BOOLEAN,
            t \in {Word(<<"true">>), Num(0, <<"0">>)}}
=============================================================================
