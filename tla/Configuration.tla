---------------------------- MODULE Configuration ----------------------------
(***************************************************************************)
(* The two loaders of the configuration and the access they grant:         *)
(* homeassistant_app.py reads the options the Supervisor saves for the     *)
(* App, config.py a YAML file and the environment of a standalone process. *)
(* Both make an AppConfig, from which main.py, the transport and the       *)
(* authorizer decide who may run commands.  Only config.py's loader calls  *)
(* _validate.                                                              *)
(*                                                                         *)
(* A form is what is written in the file: a function from paths to raw     *)
(* values, without the keys that are absent.  The sections that both files *)
(* have are written alike; the others are kept under the App's names       *)
(* (config.py reads channel_index under meshcore, rate_limit under         *)
(* security, the senders under users).                                     *)
(***************************************************************************)
EXTENDS Integers, Sequences

CONSTANTS InitialForms,  \* what the file holds at first
          OptionEdits,   \* pairs <<path, raw value>> that may be saved
          Environments,  \* environments of the standalone process
          Prefixes,      \* the texts pubkey_prefix may have in an event
          MaxSaves       \* bound: saved options

VARIABLES form,    \* options.json, or the same settings in config.yaml
          env,     \* the variables that override the file, by its paths
          saves,   \* options saved so far
          running  \* the process of each loader

confVars == <<form, env, saves, running>>

Loaders == {"app", "standalone"}
Roles   == {"readonly", "home", "operator", "admin"}

-----------------------------------------------------------------------------
(* Values.  A text is known by its letters in lower case, whether it starts *)
(* with "meshcore-pubkey-prefix:", has upper case or control characters,    *)
(* its blanks at the ends and its length.                                   *)

Word(w, n) == [word |-> w, scoped |-> FALSE, upper |-> FALSE, pad |-> 0,
               length |-> n, control |-> FALSE]
Empty      == Word("", 0)
AnyText    == [word : STRING, scoped : BOOLEAN, upper : BOOLEAN, pad : Nat,
               length : Nat, control : BOOLEAN]

Strip(t) == [t EXCEPT !.pad = 0, !.length = @ - t.pad]
Lower(t) == [t EXCEPT !.upper = FALSE]
Clean(t, limit) == ~t.control /\ t.length <= limit

(* What json.loads and yaml.safe_load return; a float is not a whole number,*)
(* and "digits" is a text that int() reads.                                 *)
Absent   == [kind |-> "none", n |-> 0, text |-> Empty]
Flag(b)  == [kind |-> "bool", n |-> IF b THEN 1 ELSE 0, text |-> Word("bool", 4)]
Num(i)   == [kind |-> "int", n |-> i, text |-> Word("int", 4)]
Real(i)  == [kind |-> "float", n |-> i, text |-> Word("float", 4)]
Digits(i) == [kind |-> "digits", n |-> i, text |-> Word("digits", 4)]
Str(t)   == [kind |-> "text", n |-> 0, text |-> t]
List(s)  == [kind |-> "list", items |-> s]
Object(f) == [kind |-> "object", fields |-> f]

Unset(v)  == v.kind = "none" \/ (v.kind = "text" /\ v.text.length = 0)
IsStr(v)  == v.kind \in {"text", "digits"}
IsBool(v) == v.kind = "bool"
Truthy(v) == CASE v.kind = "text"          -> v.text.length > 0
               [] v.kind \in {"bool", "int"} -> v.n # 0
               [] v.kind = "list"          -> v.items # <<>>
               [] v.kind = "object"        -> DOMAIN v.fields # {}
               [] OTHER                    -> v.kind # "none"
OrEmpty(v) == IF Truthy(v) THEN v.text ELSE Empty
OrElse(v, t) == IF Truthy(v) THEN v.text ELSE t

(* data.get(key, default), at any depth. *)
Get(data, key, default) == IF key \in DOMAIN data THEN data[key] ELSE default
IsObject(f, path) == Get(f, path, Object(<<>>)).kind = "object"
IsUnset(f, path)  == Unset(Get(f, path, Object(<<>>)))

(* _int of the App takes what int() takes; _env_int reads str(value). *)
AppInt(v) == v.kind \in {"bool", "int", "float", "digits"}
EnvInt(v) == v.kind \in {"int", "digits"}

-----------------------------------------------------------------------------
(* Parts that the two files parse alike. *)

RoleOk(v) == v.kind = "text" /\ v.text.word \in Roles

EntityOk(v) == Unset(v) \/ (IsStr(v) /\ Clean(Strip(v.text), 128))
EntityId(v) == IF Unset(v) THEN Empty ELSE Strip(v.text)

EntityListOk(v) == /\ v.kind = "list" /\ Len(v.items) <= 50
                   /\ \A i \in DOMAIN v.items : EntityOk(v.items[i])
EntityList(v) == SelectSeq([i \in DOMAIN v.items |-> EntityId(v.items[i])],
                           LAMBDA t : t.length > 0)

(* str(label or "Exterior").strip(), cut by nothing. *)
WeatherLabel(v) ==
  LET label == Strip(OrElse(v, Word("exterior", 8)))
  IN IF label.length = 0 THEN Word("exterior", 8) ELSE label

MessagePrefixOk(v) == Clean(OrEmpty(v), 16)

Section(name, keys) == {<<"home_status", name, k>> : k \in keys}

HomeEntities ==
  Section("alarm", {"entity_id"})
  \cup Section("home", {"temperature_entity", "humidity_entity", "ups_battery_entity"})
  \cup Section("network", {"internet_entity", "router_entity", "dns_entity",
                           "home_assistant_entity"})
HomeLists ==
  Section("alarm", {"door_entities", "motion_entities"})
  \cup Section("home", {"person_entities", "presence_entities",
                        "door_entities", "light_entities"})
  \cup Section("network", {"additional_entities"})
HomeSections == {<<"home_status", s>> : s \in {"alarm", "home", "servers", "network"}}
ServerKeys == {"availability_entity", "cpu_entity", "memory_entity",
               "disk_entity", "temperature_entity", "health_entity"}

Alias(item)  == Strip(OrEmpty(Get(item.fields, "alias", Str(Empty))))
ServerName(item) ==
  Strip(OrEmpty(Get(item.fields, "name", Str(Alias(item)))))

ServersOk(v) ==
  /\ v.kind = "list" /\ Len(v.items) <= 20
  /\ \A i \in DOMAIN v.items :
       LET item == v.items[i] IN
       /\ item.kind = "object"
       /\ Alias(item).length \in 1..32 /\ ~Alias(item).upper /\ ~Alias(item).control
       /\ \A j \in 1..(i - 1) : Alias(v.items[j]) # Alias(item)
       /\ Clean(ServerName(item), 48)
       /\ \A k \in ServerKeys : EntityOk(Get(item.fields, k, Str(Empty)))

Servers(v) ==
  [i \in DOMAIN v.items |->
    LET item == v.items[i] IN
    [alias |-> Alias(item),
     name  |-> IF ServerName(item).length = 0 THEN Alias(item) ELSE ServerName(item),
     entities |-> [k \in ServerKeys |-> EntityId(Get(item.fields, k, Str(Empty)))]]]

ServerEntries(f) == Get(f, <<"home_status", "servers", "entries">>, List(<<>>))

HomeStatusOk(f) ==
  /\ \A p \in HomeEntities : EntityOk(Get(f, p, Str(Empty)))
  /\ \A p \in HomeLists : EntityListOk(Get(f, p, List(<<>>)))
  /\ ServersOk(ServerEntries(f))

HomeStatus(f) ==
  [entities |-> [p \in HomeEntities |-> EntityId(Get(f, p, Str(Empty)))],
   lists    |-> [p \in HomeLists |-> EntityList(Get(f, p, List(<<>>)))],
   servers  |-> Servers(ServerEntries(f))]

Weather(f) ==
  [temperature |-> Strip(OrEmpty(Get(f, <<"weather_status", "temperature_entity">>, Str(Empty)))),
   humidity    |-> Strip(OrEmpty(Get(f, <<"weather_status", "humidity_entity">>, Str(Empty)))),
   label       |-> WeatherLabel(Get(f, <<"weather_status", "label">>, Str(Word("exterior", 8))))]

-----------------------------------------------------------------------------
(* homeassistant_app.py *)

Exclamation == Word("!", 1)
ToMeshDefault     == [Word("tg:", 4) EXCEPT !.upper = TRUE, !.pad = 1]
ToTelegramDefault == [Word("mc:", 4) EXCEPT !.upper = TRUE, !.pad = 1]

Telegram(f, key, default) == Get(f, <<"telegram", key>>, default)
LimitPath(name, key) == <<"telegram", name, key>>
LimitNames == {"forwarding_rate_limit", "inbound_forwarding_rate_limit"}
DefaultMessages(name) == IF name = "forwarding_rate_limit" THEN 5 ELSE 20

(* Mutant of AppMessages: both limits have the same default. *)
AppMessagesFive(f, name) == Get(f, LimitPath(name, "messages"), Num(5))

AppMessages(f, name) == Get(f, LimitPath(name, "messages"), Num(DefaultMessages(name)))

Window(f, name) == Get(f, LimitPath(name, "window_seconds"), Num(60))

Positive(v) == AppInt(v) /\ v.n >= 1

(* Mutant of AppChannelOk: only the public channel is refused. *)
AppChannelNotPublic(v) == AppInt(v) /\ v.n # 0

AppChannelOk(v) == Positive(v)

LimitOk(f, name) ==
  /\ IsObject(f, <<"telegram", name>>)
  /\ Positive(AppMessages(f, name)) /\ Positive(Window(f, name))

(* Both ids and a token file, where the bridge is enabled. *)
IdsOk(f) ==
  /\ Strip(OrEmpty(Telegram(f, "allowed_private_chat_id", Str(Empty)))).length > 0
  /\ Strip(OrEmpty(Telegram(f, "allowed_user_id", Str(Empty)))).length > 0
  /\ Truthy(Telegram(f, "bot_token_file", Str(Word("token", 23))))

AppTelegramFieldsOk(f) ==
  /\ IsObject(f, <<"telegram">>)
  /\ AppChannelOk(Telegram(f, "meshcore_channel_index", Num(1)))
  /\ Positive(Telegram(f, "max_meshcore_message_length", Num(180)))
  /\ Positive(Telegram(f, "max_telegram_message_length", Num(3900)))
  /\ MessagePrefixOk(Telegram(f, "message_prefix", Str(ToMeshDefault)))
  /\ MessagePrefixOk(Telegram(f, "meshcore_to_telegram_prefix", Str(ToTelegramDefault)))
  /\ \A name \in LimitNames : LimitOk(f, name)
  /\ RoleOk(Telegram(f, "authorized_user_role", Str(Word("readonly", 8))))
  /\ IsBool(Telegram(f, "send_forward_confirmation", Flag(FALSE)))
  /\ Truthy(Telegram(f, "enabled", Flag(FALSE))) => IdsOk(f)

AppTelegramOk(f) == IsUnset(f, <<"telegram">>) \/ AppTelegramFieldsOk(f)

AppTelegram(f) ==
  [enabled |-> Truthy(Telegram(f, "enabled", Flag(FALSE))),
   import  |-> OrEmpty(Telegram(f, "bot_token_import", Str(Empty))),
   tokenFile |-> OrEmpty(Telegram(f, "bot_token_file", Str(Word("token", 23)))),
   chat    |-> Strip(OrEmpty(Telegram(f, "allowed_private_chat_id", Str(Empty)))),
   user    |-> Strip(OrEmpty(Telegram(f, "allowed_user_id", Str(Empty)))),
   role    |-> Telegram(f, "authorized_user_role", Str(Word("readonly", 8))).text.word,
   channel |-> Telegram(f, "meshcore_channel_index", Num(1)).n,
   toTelegram |-> Truthy(Telegram(f, "forward_meshcore_to_telegram", Flag(TRUE))),
   toMesh  |-> Truthy(Telegram(f, "forward_telegram_to_meshcore", Flag(TRUE))),
   prefix  |-> OrElse(Telegram(f, "command_prefix", Str(Word("!", 1))), Word("!", 1)),
   meshLength |-> Telegram(f, "max_meshcore_message_length", Num(180)).n,
   telegramLength |-> Telegram(f, "max_telegram_message_length", Num(3900)).n,
   toMeshPrefix |-> OrEmpty(Telegram(f, "message_prefix", Str(ToMeshDefault))),
   toTelegramPrefix |-> OrEmpty(Telegram(f, "meshcore_to_telegram_prefix", Str(ToTelegramDefault))),
   confirmation |-> Telegram(f, "send_forward_confirmation", Flag(FALSE)).n = 1,
   limits  |-> [name \in LimitNames |->
                 [messages |-> AppMessages(f, name).n, window |-> Window(f, name).n]]]

Heartbeat(f) == Get(f, <<"health", "heartbeat_seconds">>, Num(60))
Events(f)    == Get(f, <<"health", "home_assistant_events_enabled">>, Flag(TRUE))

InHeartbeatRange(n) == 15 <= n /\ n <= 3600

AppHealthOk(f) ==
  \/ IsUnset(f, <<"health">>)
  \/ /\ IsObject(f, <<"health">>)
     /\ AppInt(Heartbeat(f)) /\ InHeartbeatRange(Heartbeat(f).n)
     /\ IsBool(Events(f))

Health(f) == [events |-> Events(f).n = 1, heartbeat |-> Heartbeat(f).n]

AppWeatherOk(f) ==
  \/ IsUnset(f, <<"weather_status">>)
  \/ IsObject(f, <<"weather_status">>) /\ Clean(Weather(f).label, 32)

AppHomeStatusOk(f) ==
  \/ IsUnset(f, <<"home_status">>)
  \/ /\ IsObject(f, <<"home_status">>)
     /\ \A s \in HomeSections : IsObject(f, s)
     /\ HomeStatusOk(f)

Senders(f) == Get(f, <<"authorized_senders">>, List(<<>>))
Prefix(item) == Get(item.fields, "pubkey_prefix", Str(Empty)).text
RoleValue(item) == Get(item.fields, "role", Str(Word("readonly", 8)))

AppSendersOk(f) ==
  /\ Senders(f).kind = "list"
  /\ \A i \in DOMAIN Senders(f).items :
       LET item == Senders(f).items[i] IN
       /\ item.kind = "object"
       /\ Strip(Prefix(item)).length >= 6
       /\ RoleOk(RoleValue(item))

StatusEntities(f) == Get(f, <<"status_entities">>, List(<<>>))
StatusText(item, key) == Strip(Get(item.fields, key, Str(Empty)).text)

AppStatusEntitiesOk(f) ==
  /\ StatusEntities(f).kind = "list"
  /\ \A i \in DOMAIN StatusEntities(f).items :
       LET item == StatusEntities(f).items[i] IN
       /\ item.kind = "object"
       /\ StatusText(item, "alias").length > 0
       /\ StatusText(item, "entity_id").length > 0

Testing(f) == Truthy(Get(f, <<"allow_unidentified_readonly_testing">>, Flag(FALSE)))
Commands(f) == Get(f, <<"rate_limit", "commands">>, Num(5))
CommandWindow(f) == Get(f, <<"rate_limit", "window_seconds">>, Num(60))
Channel(f) == Get(f, <<"channel_index">>, Num(1))

AppAccepts(f) ==
  /\ IsObject(f, <<>>)
  /\ AppChannelOk(Channel(f))
  /\ Get(f, <<"log_level">>, Str(Word("info", 4))).text.word
       \in {"debug", "info", "warning", "error"}
  /\ IsObject(f, <<"rate_limit">>)
  /\ Positive(Commands(f)) /\ Positive(CommandWindow(f))
  /\ AppSendersOk(f) /\ AppStatusEntitiesOk(f)
  /\ AppWeatherOk(f) /\ AppHomeStatusOk(f) /\ AppTelegramOk(f) /\ AppHealthOk(f)
  /\ Senders(f).items # <<>> \/ Testing(f)

(* An identity is exact when it is written as the transport writes it. *)
Id(scope, key, exact) == [scope |-> scope, key |-> key, exact |-> exact]
SenderId(t) == Id("meshcore-pubkey-prefix", t.word, TRUE)
TestingSender == Id("test:unidentified", "", TRUE)
TelegramSender == Id("telegram-user:default", "authorized", TRUE)

(* A dictionary built item by item: a repeated key keeps its last value. *)
Last(places) == CHOOSE i \in places : \A j \in places : j <= i

LastOf(items, KeyOf(_), ValueOf(_)) ==
  [k \in {KeyOf(items[i]) : i \in DOMAIN items} |->
    ValueOf(items[Last({i \in DOMAIN items : KeyOf(items[i]) = k})])]

ItemRole(item) == RoleValue(item).text.word

(* Mutant of AppSenderId: the prefix is used as it is written. *)
UnscopedSenderId(item) ==
  Id("meshcore-pubkey-prefix", Prefix(item).word,
     ~Prefix(item).upper /\ Prefix(item).pad = 0)

AppSenderId(item) == SenderId(Lower(Strip(Prefix(item))))

AppUsers(f) ==
  LET listed == LastOf(Senders(f).items, AppSenderId, ItemRole)
  IN [id \in DOMAIN listed \cup (IF Testing(f) THEN {TestingSender} ELSE {}) |->
       IF id = TestingSender THEN "readonly" ELSE listed[id]]

AppStatusLabel(item) ==
  LET label == Strip(Get(item.fields, "label", Str(StatusText(item, "alias"))).text)
  IN IF label.length = 0 THEN StatusText(item, "alias") ELSE label

AppStatus(f) ==
  LastOf(StatusEntities(f).items,
         LAMBDA item : StatusText(item, "alias"),
         LAMBDA item : [entity |-> StatusText(item, "entity_id"),
                        label  |-> AppStatusLabel(item)])

(* to_app_config; what the Supervisor provides passes every check. *)
AppConfig(f) ==
  [prefix    |-> OrElse(Get(f, <<"command_prefix">>, Str(Exclamation)), Exclamation),
   transport |-> "homeassistant",
   channel   |-> Channel(f).n,
   serial    |-> FALSE,
   eventTypes |-> {"meshcore_message"},
   url       |-> Word("http", 22),
   token     |-> Word("supervisor", 40),
   requireStable      |-> ~Testing(f),
   allowWithoutSender |-> Testing(f),
   users     |-> AppUsers(f),
   status    |-> AppStatus(f),
   weather   |-> Weather(f),
   home      |-> HomeStatus(f),
   telegram  |-> AppTelegram(f),
   health    |-> Health(f),
   limit     |-> [commands |-> Commands(f).n, window |-> CommandWindow(f).n]]

-----------------------------------------------------------------------------
(* config.py: environment variables override the file. *)

Setting(f, e, path, default) == Get(e, path, Get(f, path, default))
Switch(f, e, path, default) ==
  IF path \in DOMAIN e
  THEN \/ e[path].kind = "digits" /\ e[path].n = 1
       \/ e[path].text.word \in {"true", "yes", "on"}
  ELSE Truthy(Get(f, path, default))

TelegramSetting(f, e, key, default) == Setting(f, e, <<"telegram", key>>, default)
TelegramSwitch(f, e, key, default)  == Switch(f, e, <<"telegram", key>>, default)

(* "messages", or "commands" in its place. *)
Messages(f, e, name) ==
  Setting(f, e, LimitPath(name, "messages"),
          Get(f, LimitPath(name, "commands"), Num(DefaultMessages(name))))
EnvWindow(f, e, name) == Setting(f, e, LimitPath(name, "window_seconds"), Num(60))

TelegramOk(f, e) ==
  /\ IsObject(f, <<"telegram">>)
  /\ RoleOk(TelegramSetting(f, e, "authorized_user_role", Str(Word("readonly", 8))))
  /\ EnvInt(TelegramSetting(f, e, "meshcore_channel_index", Num(1)))
  /\ EnvInt(TelegramSetting(f, e, "max_meshcore_message_length", Num(180)))
  /\ EnvInt(TelegramSetting(f, e, "max_telegram_message_length", Num(3900)))
  /\ MessagePrefixOk(Telegram(f, "message_prefix", Str(Empty)))
  /\ MessagePrefixOk(Telegram(f, "meshcore_to_telegram_prefix", Str(ToTelegramDefault)))
  /\ IsBool(Telegram(f, "send_forward_confirmation", Flag(FALSE)))
  /\ \A name \in LimitNames : EnvInt(Messages(f, e, name)) /\ EnvInt(EnvWindow(f, e, name))

TelegramConfig(f, e) ==
  [enabled |-> TelegramSwitch(f, e, "enabled", Flag(FALSE)),
   import  |-> OrEmpty(Telegram(f, "bot_token_import", Str(Empty))),
   tokenFile |-> OrElse(TelegramSetting(f, e, "bot_token_file", Str(Word("token", 23))),
                        Word("token", 23)),
   chat    |-> Strip(OrEmpty(TelegramSetting(f, e, "allowed_private_chat_id", Str(Empty)))),
   user    |-> Strip(OrEmpty(TelegramSetting(f, e, "allowed_user_id", Str(Empty)))),
   role    |-> TelegramSetting(f, e, "authorized_user_role", Str(Word("readonly", 8))).text.word,
   channel |-> TelegramSetting(f, e, "meshcore_channel_index", Num(1)).n,
   toTelegram |-> TelegramSwitch(f, e, "forward_meshcore_to_telegram", Flag(TRUE)),
   toMesh  |-> TelegramSwitch(f, e, "forward_telegram_to_meshcore", Flag(TRUE)),
   prefix  |-> OrElse(Telegram(f, "command_prefix", Str(Exclamation)), Exclamation),
   meshLength |-> TelegramSetting(f, e, "max_meshcore_message_length", Num(180)).n,
   telegramLength |-> TelegramSetting(f, e, "max_telegram_message_length", Num(3900)).n,
   toMeshPrefix |-> OrEmpty(Telegram(f, "message_prefix", Str(Empty))),
   toTelegramPrefix |-> OrEmpty(Telegram(f, "meshcore_to_telegram_prefix", Str(ToTelegramDefault))),
   confirmation |-> Telegram(f, "send_forward_confirmation", Flag(FALSE)).n = 1,
   limits  |-> [name \in LimitNames |->
                 [messages |-> Messages(f, e, name).n, window |-> EnvWindow(f, e, name).n]]]

EnvHeartbeat(f, e) == Setting(f, e, <<"health", "heartbeat_seconds">>, Num(60))
EnvCommands(f, e)  == Setting(f, e, <<"rate_limit", "commands">>, Num(5))
EnvCommandWindow(f, e) == Setting(f, e, <<"rate_limit", "window_seconds">>, Num(60))
EnvChannel(f, e)   == Setting(f, e, <<"channel_index">>, Num(1))
Retention(f, e)    == Setting(f, e, <<"audit_retention_days">>, Num(30))
Deduplication(f, e) == Setting(f, e, <<"deduplication_window_seconds">>, Num(300))
Transport(f, e)    == Setting(f, e, <<"transport">>, Str(Word("placeholder", 11))).text.word
EventTypes(f) == Get(f, <<"event_types">>, List(<<Str(Word("meshcore_message", 16))>>)).items

(* users is a dictionary from sender ids, as they are written, to roles. *)
WrittenId(item) ==
  LET t == Prefix(item)
  IN Id(IF t.scoped THEN "meshcore-pubkey-prefix" ELSE "none", t.word,
        ~t.upper /\ t.pad = 0)

UsersOk(f) ==
  /\ Senders(f).kind = "list"
  /\ \A i \in DOMAIN Senders(f).items :
       Senders(f).items[i].kind = "object" /\ RoleOk(RoleValue(Senders(f).items[i]))

StatusOk(f) ==
  /\ StatusEntities(f).kind = "list"
  /\ \A i \in DOMAIN StatusEntities(f).items :
       LET item == StatusEntities(f).items[i]
       IN item.kind = "object" /\ Get(item.fields, "entity_id", Str(Empty)).text.length > 0

Status(f) ==
  LET Alias0(item) == Get(item.fields, "alias", Str(Empty))
  IN LastOf(StatusEntities(f).items,
            LAMBDA item : Alias0(item).text,
            LAMBDA item : [entity |-> Get(item.fields, "entity_id", Str(Empty)).text,
                           label  |-> Get(item.fields, "label", Alias0(item)).text])

(* What load_config itself refuses, _validate apart. *)
Loads(f, e) ==
  /\ IsObject(f, <<>>) \/ ~Truthy(Get(f, <<>>, Absent))
  /\ EnvInt(EnvChannel(f, e))
  /\ EnvInt(EnvCommands(f, e)) /\ EnvInt(EnvCommandWindow(f, e))
  /\ EnvInt(Retention(f, e)) /\ EnvInt(Deduplication(f, e))
  /\ UsersOk(f) /\ StatusOk(f)
  /\ IsObject(f, <<"weather_status">>) /\ Clean(Weather(f).label, 32)
  /\ \/ IsUnset(f, <<"home_status">>)
     \/ /\ IsObject(f, <<"home_status">>)
        /\ \A s \in HomeSections : IsObject(f, s) \/ IsUnset(f, s)
        /\ HomeStatusOk(f)
  /\ TelegramOk(f, e)
  /\ IsBool(Events(f)) /\ EnvInt(EnvHeartbeat(f, e))

Config(f, e) ==
  [prefix    |-> Setting(f, e, <<"command_prefix">>, Str(Exclamation)).text,
   transport |-> Transport(f, e),
   channel   |-> EnvChannel(f, e).n,
   serial    |-> Truthy(Setting(f, e, <<"serial_port">>, Absent)),
   eventTypes |-> {EventTypes(f)[i].text.word : i \in DOMAIN EventTypes(f)},
   url       |-> Setting(f, e, <<"homeassistant", "base_url">>, Str(Empty)).text,
   token     |-> Setting(f, e, <<"homeassistant", "token">>, Str(Empty)).text,
   requireStable      |-> Switch(f, e, <<"require_stable_sender">>, Flag(TRUE)),
   allowWithoutSender |-> Switch(f, e, <<"allow_channel_without_sender">>, Flag(FALSE)),
   users     |-> LastOf(Senders(f).items, WrittenId, ItemRole),
   status    |-> Status(f),
   weather   |-> Weather(f),
   home      |-> HomeStatus(f),
   telegram  |-> TelegramConfig(f, e),
   health    |-> [events |-> Events(f).n = 1, heartbeat |-> EnvHeartbeat(f, e).n],
   limit     |-> [commands |-> EnvCommands(f, e).n, window |-> EnvCommandWindow(f, e).n]]

(* _validate *)
Valid(c) ==
  /\ c.channel >= 1
  /\ c.prefix.length > 0
  /\ c.url.length > 0 => c.url.word = "http"
  /\ c.token.length > 0 => c.token.length >= 10
  /\ c.transport \in {"placeholder", "usb", "homeassistant", "fake"}
  /\ c.transport = "usb" => c.serial
  /\ c.transport = "homeassistant" =>
       c.url.length > 0 /\ c.token.length > 0 /\ "meshcore_message" \in c.eventTypes
  /\ c.limit.commands >= 1 /\ c.limit.window >= 1
  /\ c.telegram.channel >= 1
  /\ c.telegram.prefix.length > 0
  /\ c.telegram.meshLength >= 1 /\ c.telegram.telegramLength >= 1
  /\ \A name \in LimitNames :
       c.telegram.limits[name].messages >= 1 /\ c.telegram.limits[name].window >= 1
  /\ InHeartbeatRange(c.health.heartbeat)
  /\ c.telegram.enabled => c.telegram.chat.length > 0 /\ c.telegram.user.length > 0

StandaloneAccepts(f, e) == Loads(f, e) /\ Valid(Config(f, e))

-----------------------------------------------------------------------------
(* Who gets in: main.py, the transport and the authorizer. *)

(* _authorized_users *)
Users(c) ==
  [id \in DOMAIN c.users \cup (IF c.telegram.enabled THEN {TelegramSender} ELSE {}) |->
    IF c.telegram.enabled /\ id = TelegramSender THEN c.telegram.role ELSE c.users[id]]

(* _legacy_room_policies, to_app_config and _room_policies *)
Rooms(c) ==
  {<<c.transport, c.channel>>}
  \cup (IF c.telegram.enabled THEN {<<"telegram", 0>>} ELSE {})

(* The transport's _sender_id and _has_stable_sender: a prefix of six or    *)
(* more characters is stable; "" stands for an event without one.           *)
Stable(t) == t.length >= 6

EventSender(c, t) ==
  IF Stable(t) THEN SenderId(Lower(t))
  ELSE IF c.allowWithoutSender THEN TestingSender
  ELSE Id("meshcore-ha:unknown", "", TRUE)

(* require_message: the room must be allowed and the sender listed. *)
RoleIn(c, room, id) ==
  IF room \in Rooms(c) /\ id \in DOMAIN Users(c) THEN Users(c)[id] ELSE "none"

(* An event on the channel c listens to; _event_to_inbound drops those that *)
(* have no stable sender where one is required.                             *)
MeshRole(c, t) ==
  IF c.requireStable /\ ~Stable(t) THEN "none"
  ELSE RoleIn(c, <<"homeassistant", c.channel>>, EventSender(c, t))

TelegramRole(c) == RoleIn(c, <<"telegram", 0>>, TelegramSender)

-----------------------------------------------------------------------------
(* Processes. *)

Prefixed(p, q) == Len(p) <= Len(q) /\ \A i \in 1..Len(p) : p[i] = q[i]

(* What is written is a tree, where a path that has a value leads no        *)
(* further; the command prefixes are texts, as the App's schema has them,   *)
(* and so is what a sender's pubkey_prefix is read as.                      *)
IsTree(f) == \A p, q \in DOMAIN f : Prefixed(p, q) => p = q

Legible(path, value) ==
  /\ path \in {<<"command_prefix">>, <<"telegram", "command_prefix">>} =>
       value.kind = "text"
  /\ path = <<"authorized_senders">> /\ value.kind = "list" =>
       \A i \in DOMAIN value.items :
         value.items[i].kind = "object" => Prefix(value.items[i]) \in AnyText

ASSUME FormsAssumption ==
  /\ \A f \in InitialForms : IsTree(f) /\ \A p \in DOMAIN f : Legible(p, f[p])
  /\ \A edit \in OptionEdits : Legible(edit[1], edit[2])
  /\ Prefixes \subseteq AnyText
  /\ MaxSaves \in Nat

Down    == [at |-> "down"]
Refused == [at |-> "refused"]
Up(c)   == [at |-> "up", config |-> c]

ConfInit ==
  /\ form \in InitialForms /\ env \in Environments
  /\ saves = 0
  /\ running = [l \in Loaders |-> Down]

(* The file is read once, when a process starts, so that it matters only     *)
(* what it holds then.  A section that is replaced loses its keys.           *)
Save(path, value) ==
  /\ saves < MaxSaves
  /\ \A l \in Loaders : running[l] = Down
  /\ saves' = saves + 1
  /\ LET kept == {p \in DOMAIN form : ~Prefixed(path, p) /\ ~Prefixed(p, path)}
     IN form' = [p \in kept \cup {path} |-> IF p = path THEN value ELSE form[p]]
  /\ UNCHANGED <<env, running>>

(* load_homeassistant_app_config; without SUPERVISOR_TOKEN it raises. *)
StartApp ==
  /\ running["app"].at # "up"
  /\ \E token \in BOOLEAN :
       running' = [running EXCEPT !["app"] =
                    IF token /\ AppAccepts(form) THEN Up(AppConfig(form)) ELSE Refused]
  /\ UNCHANGED <<form, env, saves>>

(* load_config *)
StartStandalone ==
  /\ running["standalone"].at # "up"
  /\ running' = [running EXCEPT !["standalone"] =
                   IF StandaloneAccepts(form, env) THEN Up(Config(form, env)) ELSE Refused]
  /\ UNCHANGED <<form, env, saves>>

Stop(l) ==
  /\ running[l].at # "down"
  /\ running' = [running EXCEPT ![l] = Down]
  /\ UNCHANGED <<form, env, saves>>

ConfNext ==
  \/ \E edit \in OptionEdits : Save(edit[1], edit[2])
  \/ StartApp \/ StartStandalone
  \/ \E l \in Loaders : Stop(l)

ConfSpec == ConfInit /\ [][ConfNext]_confVars

-----------------------------------------------------------------------------
(* Properties. *)

(* The App's loader never calls _validate (config.py:638), yet everything   *)
(* it accepts passes: no channel 0, no empty prefix, no limit below one, no *)
(* heartbeat out of range, no enabled Telegram without its ids.             *)
RunningIsValid ==
  \A l \in Loaders : running[l].at = "up" => Valid(running[l].config)

(* The role the options give an identity: an identified sender that of the  *)
(* last entry with its letters, whatever their case, blanks around them or  *)
(* scope before them; an unidentified one readonly, in testing mode only.   *)
ListedRole(f, t) ==
  LET matching == {i \in DOMAIN Senders(f).items : Prefix(Senders(f).items[i]).word = t.word}
  IN IF ~Stable(t) THEN IF Testing(f) THEN "readonly" ELSE "none"
     ELSE IF matching = {} THEN "none"
     ELSE ItemRole(Senders(f).items[Last(matching)])

(* End to end, from the saved options to the authorizer's answer: an event  *)
(* of a running App gets exactly the role the options list for it, and the  *)
(* Telegram user the configured one while the bridge is enabled.            *)
AccessAsListed ==
  running["app"].at = "up" =>
    LET c == running["app"].config IN
    /\ \A t \in Prefixes : MeshRole(c, t) = ListedRole(form, t)
    /\ TelegramRole(c) = IF c.telegram.enabled THEN c.telegram.role ELSE "none"

(* What the loaders read apart, in a form f: the default of message_prefix, *)
(* an empty bot_token_file, and the key "commands" of a forwarding limit.   *)
ReadApart(f) ==
  {key \in {"toMeshPrefix", "tokenFile", "limits"} :
     \/ key = "toMeshPrefix" /\ <<"telegram", "message_prefix">> \notin DOMAIN f
     \/ key = "tokenFile" /\ ~Truthy(Telegram(f, "bot_token_file", Flag(TRUE)))
     \/ key = "limits" /\ \E n \in LimitNames : LimitPath(n, "commands") \in DOMAIN f}

(* Where both loaders accept the same settings they mean the same by them,  *)
(* but for what they read apart.                                            *)
LoadersAgree ==
  (/\ \A l \in Loaders : running[l].at = "up"
   /\ \A p \in DOMAIN env : p[1] \in {"transport", "homeassistant"}) =>
    LET a == running["app"].config
        c == running["standalone"].config
    IN /\ \A key \in {"prefix", "channel", "weather", "home", "health", "limit"} :
            a[key] = c[key]
       /\ \A key \in DOMAIN a.telegram \ ReadApart(form) : a.telegram[key] = c.telegram[key]
       /\ DOMAIN a.status \subseteq {Strip(alias) : alias \in DOMAIN c.status}
=============================================================================
