-------------------------- MODULE MC_Configuration ---------------------------
(* An instance of Configuration: the shipped options, and options with one  *)
(* sender, each with up to two settings saved.  Every parser meets a value  *)
(* of each kind it tells apart, at its bounds and beside them.              *)
EXTENDS Configuration

At(path, values) == {<<path, v>> : v \in values}
Texts == {Str(Empty), Str([Word("blank", 2) EXCEPT !.word = "", !.pad = 2]),
          Str([Word("word", 6) EXCEPT !.pad = 2]), Str([Word("tab", 4) EXCEPT !.control = TRUE])}
Numbers(lo) == {Absent, Num(lo - 2), Num(lo - 1), Num(lo), Digits(lo), Real(lo), Flag(TRUE), Str(Word("many", 4))}
Switches == {Flag(FALSE), Flag(TRUE), Str(Word("false", 5)), Absent}
Sections == {Absent, Str(Empty), List(<<Num(1)>>)}

Prefixes0 == {Empty, Word("abc", 3), Word("abcdef", 6), Word("fedcba", 6),
              [Word("abcdef", 6) EXCEPT !.upper = TRUE]}
Sender(t, role) == Object([pubkey_prefix |-> Str(t), role |-> Str(Word(role, 5))])
Abcdef == Word("abcdef", 6)
Loud   == [Abcdef EXCEPT !.upper = TRUE]
Scoped == [Abcdef EXCEPT !.scoped = TRUE, !.length = 29]
Padded == [Loud EXCEPT !.pad = 1, !.length = 7]

SenderLists ==
  {List(<<>>), Absent,
   List(<<Sender(Abcdef, "admin"), Sender(Loud, "readonly")>>),
   List(<<Sender(Scoped, "readonly"), Sender(Padded, "admin")>>),
   List(<<Sender(Scoped, "home"), Sender(Word("fedcba", 6), "operator")>>),
   List(<<Sender(Word("abc", 3), "admin")>>),
   List(<<Sender(Abcdef, "boss")>>),
   List(<<Object([pubkey_prefix |-> Str(Abcdef)])>>)}

Server(alias) == Object([alias |-> Str(alias), cpu_entity |-> Str(Word("sensor.cpu", 10))])
Entity(alias) == Object([alias |-> Str(alias), entity_id |-> Str(Word("sensor.a", 8))])
Nas    == Word("nas", 3)

OptionEdits0 ==
  UNION {
    At(<<>>, {Absent, List(<<Num(1)>>)}),
    At(<<"channel_index">>, Numbers(1)),
    At(<<"command_prefix">>, {Str(Empty), Str(Word("?", 1))}),
    At(<<"authorized_senders">>, SenderLists),
    At(<<"allow_unidentified_readonly_testing">>, Switches),
    At(<<"rate_limit">>, Sections), At(<<"rate_limit", "commands">>, {Num(0), Digits(1)}),
    At(<<"log_level">>, {Str(Word("loud", 4))}),
    At(<<"status_entities">>,
       {List(<<Entity(Nas), Entity([Nas EXCEPT !.pad = 1, !.length = 4])>>), List(<<Entity(Empty)>>)}),
    At(<<"weather_status">>, Sections),
    At(<<"weather_status", "label">>, {Str(Word("long", 33))} \cup Texts),
    At(<<"home_status">>, Sections), At(<<"home_status", "alarm">>, Sections),
    At(<<"home_status", "alarm", "entity_id">>, {Num(1), Str(Word("long", 129))} \cup Texts),
    At(<<"home_status", "home", "door_entities">>,
       {Absent, List(<<Str(Empty), Str(Word("door", 4))>>), List([i \in 1..51 |-> Str(Word("door", 4))])}),
    At(<<"home_status", "servers", "entries">>,
       {List(<<Server(Nas)>>), List(<<Server(Nas), Server([Nas EXCEPT !.pad = 1, !.length = 4])>>),
        List(<<Server([Nas EXCEPT !.upper = TRUE])>>)}),
    At(<<"telegram">>, Sections),
    At(<<"telegram", "enabled">>, Switches),
    At(<<"telegram", "command_prefix">>, {Str(Empty), Str(Word("?", 1))}),
    At(<<"telegram", "allowed_user_id">>, {Num(0), Num(7)}),
    At(<<"telegram", "authorized_user_role">>, {Str(Word("admin", 5)), Str(Word("boss", 4))}),
    At(<<"telegram", "meshcore_channel_index">>, Numbers(1)),
    At(<<"telegram", "bot_token_file">>, {Str(Empty)}),
    At(<<"telegram", "message_prefix">>, {Str(Word("long", 17))} \cup Texts),
    At(<<"telegram", "send_forward_confirmation">>, Switches),
    At(<<"telegram", "inbound_forwarding_rate_limit">>, Sections),
    At(LimitPath("inbound_forwarding_rate_limit", "messages"), {Num(0), Num(1)}),
    At(LimitPath("forwarding_rate_limit", "commands"), {Num(1)}),
    At(<<"health">>, Sections),
    At(<<"health", "heartbeat_seconds">>, Numbers(15) \cup {Num(3600), Num(3601)}),
    At(<<"health", "home_assistant_events_enabled">>, Switches)}

With(path, value, f) ==
  [p \in DOMAIN f \cup {path} |-> IF p = path THEN value ELSE f[p]]
NoOptions == [p \in {} |-> Absent]
Shipped == With(<<"allow_unidentified_readonly_testing">>, Flag(TRUE),
                With(<<"telegram", "message_prefix">>, Str(ToMeshDefault), NoOptions))
Configured ==
  With(<<"authorized_senders">>, List(<<Sender(Abcdef, "operator")>>),
       With(<<"telegram", "allowed_private_chat_id">>, Digits(1001), NoOptions))
InitialForms0 == {Shipped, Configured}

HomeAssistant ==
  With(<<"transport">>, Str(Word("homeassistant", 13)),
       With(<<"homeassistant", "base_url">>, Str(Word("http", 22)),
            With(<<"homeassistant", "token">>, Str(Word("secret", 30)), NoOptions)))
Environments0 ==
  {HomeAssistant, With(<<"channel_index">>, Digits(0), HomeAssistant),
   With(<<"telegram", "enabled">>, Str(Word("true", 4)), NoOptions)}
=============================================================================
