------------------------------- MODULE Settings -------------------------------
(***************************************************************************)
(* The configuration in NVS: the set_* commands of the console             *)
(* (cli/serial_cli.c) with the setters they call, the portal's form and    *)
(* its /save (onboard/wifi_onboard.c), config_show and config_reset, and   *)
(* the initialisers that read it once at boot and fall back to the values  *)
(* of the build.                                                           *)
(*                                                                         *)
(* A command or a form writes several keys one after the other; the        *)
(* console and the portal are tasks of their own, and a reset may come in  *)
(* between.  Whoever reads a key has a buffer of its own, and a value      *)
(* longer than that is not there for him: the modules' are of 32 to 320    *)
(* bytes, config_show's of 128 and the form's of 256.  Keys that are       *)
(* handled alike are one: the provider is as the model, the application's  *)
(* secret as its id, Brave's key as Tavily's.                              *)
(***************************************************************************)
EXTENDS Integers, Sequences, SequencesExt

CONSTANTS SetText,     \* values that are not empty
          TooLong,     \* pairs of a key and a value that its module's buffer does not hold, ...
          NotShown,    \* ... that the buffer of config_show does not hold, ...
          OverLine,    \* ... and that neither the form's buffer nor the console's line holds
          Build,       \* per key, the value of the build, perhaps empty
          DefaultModel, \* the model without one of the build
          MaxCommands, \* bound: commands and forms
          MaxResets    \* bound: reboots that nobody asked for

Empty   == ""
Missing == "missing"
Cut     == "cut"
Written == SetText \cup {Empty}

SetKey == {"ssid", "password", "api_key", "model", "app_id", "host", "port", "tavily", "amap"}

ASSUME SettingsAssumption ==
    /\ Empty \notin SetText /\ Missing \notin SetText /\ TooLong \subseteq SetKey \X SetText
    /\ NotShown \subseteq SetKey \X SetText /\ OverLine \subseteq NotShown
    /\ Build \in [SetKey -> STRING] /\ \A k \in SetKey : Build[k] # Missing
    /\ MaxCommands \in Nat /\ MaxResets \in Nat

VARIABLES
    stored,    \* NVS: per key a value or Missing
    inUse,     \* what the running board uses
    writer,    \* per writer, what it still has to write: a sequence of keys and values
    crossed,   \* both writers have been at work since one of them began
    wanted,    \* history: per key, what the last complete request asked for, or {}
    pristine,  \* history: nothing was written since boot
    commands, resets

settingsVars == <<stored, inUse, writer, crossed, wanted, pristine, commands, resets>>

Writer == {"console", "portal"}
Idle   == [pc |-> "idle"]
KeysOf(todo) == {todo[i].key : i \in DOMAIN todo}

-----------------------------------------------------------------------------
(* Reading at boot. *)

\* What a module has before it reads: a model has a default, and a proxy needs host and port.
Preset(k) ==
    CASE k = "model" /\ Build[k] = Empty                                         -> DefaultModel
      [] k = "password" /\ Build["ssid"] = Empty                                 -> Empty
      [] k \in {"host", "port"} /\ Empty \in {Build["host"], Build["port"]}       -> Empty
      [] OTHER                                                                   -> Build[k]

Legible(st, k) == st[k] # Missing /\ <<k, st[k]>> \notin TooLong

\* Mutant: the values of the build come first.
LlmUsedBuildFirst(st) ==
    [k \in {"api_key", "model"} |->
        IF Build[k] # Empty THEN Build[k] ELSE IF Legible(st, k) THEN st[k] ELSE Empty]

\* A value that is there and not empty, or the build's.
OrPreset(st, k) == IF Legible(st, k) /\ st[k] # Empty THEN st[k] ELSE Preset(k)

LlmUsed(st)    == [k \in {"api_key", "model"} |-> OrPreset(st, k)]
SearchUsed(st) == [k \in {"tavily"} |-> OrPreset(st, k)]
FeishuUsed(st) == [k \in {"app_id"} |-> OrPreset(st, k)]

\* With a host, what is stored of the rest.
ProxyUsed(st) ==
    [k \in {"host", "port"} |->
        IF Legible(st, "host") /\ st["host"] # Empty THEN OrPreset(st, k) ELSE Preset(k)]

\* An empty value would count.
AmapUsed(st) == [k \in {"amap"} |-> IF Legible(st, k) THEN st[k] ELSE Preset(k)]

\* With a network, no password is none.
WifiUsed(st) ==
    [k \in {"ssid", "password"} |->
        CASE ~Legible(st, "ssid")                     -> Preset(k)
          [] Legible(st, "ssid") /\ Legible(st, k)    -> st[k]
          [] Legible(st, "ssid") /\ ~Legible(st, k)   -> Empty]

Used(st) ==
    [k \in SetKey |-> CASE k \in {"ssid", "password"} -> WifiUsed(st)[k]
                         [] k \in {"host", "port"}     -> ProxyUsed(st)[k]
                         [] k \in {"api_key", "model"} -> LlmUsed(st)[k]
                         [] k = "app_id"               -> FeishuUsed(st)[k]
                         [] k = "tavily"               -> SearchUsed(st)[k]
                         [] k = "amap"                 -> AmapUsed(st)[k]]

\* config_show: print_config, which has no line for Feishu's keys.
DisplayedAs(k) ==
    IF stored[k] \notin {Missing, Empty} /\ <<k, stored[k]>> \notin NotShown THEN stored[k] ELSE Build[k]

\* GET /config: json_add_effective_config and its _u16, for which a port of 0 is none.
InForm(k) ==
    IF \/ stored[k] = Missing \/ <<k, stored[k]>> \in OverLine
       \/ k = "port" /\ stored[k] = Empty
    THEN Build[k] ELSE stored[k]

SettingsInit ==
    /\ stored = [k \in SetKey |-> Missing]
    /\ inUse = [k \in SetKey |-> Preset(k)]
    /\ writer = [w \in Writer |-> Idle]
    /\ crossed = FALSE
    /\ wanted = [k \in SetKey |-> {}]
    /\ pristine = TRUE
    /\ commands = 0 /\ resets = 0

-----------------------------------------------------------------------------
(* Writing. *)

Others(w) == Writer \ {w}
Busy(w)   == writer[w] # Idle

\* live: the running board takes the values too.
Begins(w, todo, kind, live) ==
    /\ ~Busy(w) /\ commands < MaxCommands
    /\ commands' = commands + 1
    /\ writer' = [writer EXCEPT ![w] =
          [pc |-> "write", all |-> todo, todo |-> todo, kind |-> kind, live |-> live]]
    /\ crossed' = (\E o \in Others(w) : Busy(o))
    /\ wanted' = [k \in SetKey |-> IF k \in KeysOf(todo) THEN {} ELSE wanted[k]]
    /\ UNCHANGED <<stored, inUse, pristine, resets>>

Alike(keys, value) == [i \in DOMAIN keys |-> [key |-> keys[i], value |-> value]]

\* A line of the console with one value for all keys.
Typed(keys, v, live) ==
    /\ \A i \in DOMAIN keys : <<keys[i], v>> \notin OverLine
    /\ Begins("console", Alike(keys, v), "set", live)

\* The commands of the console: wifi_set, whose network is joined at the next boot, ...
WifiSet(v)   == Typed(<<"ssid", "password">>, v, FALSE)
LlmSet(v)    == Typed(<<"api_key">>, v, TRUE) \/ Typed(<<"model">>, v, TRUE)
FeishuSet(v) == Typed(<<"app_id">>, v, TRUE)
ProxySet(v)  == Typed(<<"host", "port">>, v, TRUE)
ProxyClear   == Typed(<<"host", "port">>, Missing, TRUE)
SearchSet(v) == Typed(<<"tavily">>, v, TRUE)

\* ... set_amap_key, which refuses an empty one, ...
AmapSet(v)   == v # Empty /\ Typed(<<"amap">>, v, TRUE)

\* ... and config_reset, namespace by namespace.
ConfigReset ==
    Begins("console", Alike(<<"ssid", "password", "api_key", "model", "host", "port", "tavily", "amap">>, Missing),
           "reset", FALSE)

\* /save of a form that was filled from /config and changed in one field, or in none.  A key
\* that the form could not show is written over with what it showed instead.
Form == <<"ssid", "password", "api_key", "model", "app_id", "host", "port", "tavily">>

FormSaved(changed, value) ==
    Begins("portal",
           [i \in DOMAIN Form |-> [key |-> Form[i],
                                   value |-> IF Form[i] \in changed THEN value ELSE InForm(Form[i])]],
           "form", FALSE)

\* nvs_sync_field: an empty field erases the key.
Stored(value, kind) == IF kind = "form" /\ value = Empty THEN Missing ELSE value

WritesOne(w) ==
    /\ Busy(w) /\ writer[w].todo # <<>>
    /\ LET one == Head(writer[w].todo)
       IN  stored' = [stored EXCEPT ![one.key] = Stored(one.value, writer[w].kind)]
    /\ writer' = [writer EXCEPT ![w].todo = Tail(@)]
    /\ pristine' = FALSE
    /\ UNCHANGED <<inUse, crossed, wanted, commands, resets>>

\* What a setter copies of a value into its module's buffer.
Fitted(k, v) == CASE v = Missing           -> Empty
                  [] <<k, v>> \in TooLong  -> Cut
                  [] OTHER                 -> v

ValueOf(done, k) == (CHOOSE r \in ToSet(done) : r.key = k).value

\* All is written; a setter then takes the values for the running board as well.
CommandEnds ==
    /\ Busy("console") /\ writer["console"].todo = <<>>
    /\ writer' = [writer EXCEPT !["console"] = Idle]
    /\ LET done == writer["console"].all
       IN  /\ wanted' = [k \in SetKey |-> IF k \in KeysOf(done) /\ ~crossed
                                           THEN {ValueOf(done, k)} ELSE wanted[k]]
           /\ inUse' = [k \in SetKey |->
                 IF k \in KeysOf(done) /\ writer["console"].live
                 THEN Fitted(k, ValueOf(done, k)) ELSE inUse[k]]
    /\ UNCHANGED <<stored, crossed, pristine, commands, resets>>

Booted ==
    /\ inUse' = Used(stored)
    /\ writer' = [w \in Writer |-> Idle]
    /\ crossed' = FALSE /\ pristine' = TRUE

\* The end of /save.
FormEnds ==
    /\ Busy("portal") /\ writer["portal"].todo = <<>>
    /\ LET done == writer["portal"].all
       IN  wanted' = [k \in SetKey |-> IF k \in KeysOf(done) /\ ~crossed
                                       THEN {Stored(ValueOf(done, k), "form")} ELSE wanted[k]]
    /\ Booted
    /\ UNCHANGED <<stored, commands, resets>>

\* A reset in the middle of anything.
SettingsReboot ==
    /\ resets < MaxResets
    /\ resets' = resets + 1
    /\ Booted
    /\ UNCHANGED <<stored, wanted, commands>>

-----------------------------------------------------------------------------

ConsoleSets(v) == WifiSet(v) \/ LlmSet(v) \/ FeishuSet(v) \/ ProxySet(v) \/ SearchSet(v) \/ AmapSet(v)

SettingsNext ==
    \/ \E v \in Written : ConsoleSets(v)
    \/ ProxyClear \/ ConfigReset
    \/ \E changed \in {{}} \cup {{k} : k \in ToSet(Form)}, v \in Written : FormSaved(changed, v)
    \/ \E w \in Writer : WritesOne(w)
    \/ CommandEnds \/ FormEnds
    \/ SettingsReboot

SettingsSpec == SettingsInit /\ [][SettingsNext]_settingsVars

-----------------------------------------------------------------------------
(* Properties. *)

Known == Written \cup {Build[k] : k \in SetKey} \cup {DefaultModel, Cut}

SettingsTypeOK ==
    /\ stored \in [SetKey -> Known \cup {Missing}] /\ inUse \in [SetKey -> Known]
    /\ wanted \in [SetKey -> SUBSET (Known \cup {Missing})]
    /\ crossed \in BOOLEAN /\ pristine \in BOOLEAN
    /\ commands \in 0 .. MaxCommands /\ resets \in 0 .. MaxResets

\* The key without which a key is not read.
Lead(k) == CASE k = "password" -> "ssid" [] k = "port" -> "host" [] OTHER -> k

\* Before anything is written, config_show displays what the board uses.  Not so for a
\* password that is not stored with a stored network, a port without a host, an empty
\* network, a module that has something else without a value of the build, values that the
\* module cannot read, and values that it reads and config_show cannot: a key of the model
\* of 128 to 319 characters is used, and what is displayed is the build's.
ShownIsUsed ==
    \A k \in SetKey \ {"app_id"} :
       \/ inUse[k] = DisplayedAs(k)
       \/ {<<k, stored[k]>>, <<Lead(k), stored[Lead(k)]>>} \cap TooLong # {}
       \/ <<k, stored[k]>> \in NotShown
       \/ stored[k] \in {Missing, Empty} /\ Preset(k) # Build[k]
       \/ stored[Lead(k)] \in {Missing, Empty} /\ k \in {"ssid", "password", "port"}
       \/ stored[k] \in {Missing, Empty} /\ k = "password"

\* After a boot a key has the value that was last asked for completely, by a command or a
\* form, or that of the build when it was cleared, whatever was written to other keys,
\* interrupted or repeated; values too long for their module excepted, and keys that are
\* not read because their leading key is not there.  And it is what config_show displays,
\* but for the cases of ShownIsUsed.
SetSurvives ==
    /\ pristine => ShownIsUsed
    /\ \A k \in SetKey : \A v \in wanted[k] :
       pristine /\ stored[Lead(k)] \notin {Missing, Empty} /\ <<Lead(k), stored[Lead(k)]>> \notin TooLong
         => CASE v \in SetText /\ <<k, v>> \notin TooLong -> inUse[k] = v
              [] v \in {Empty, Missing} /\ Lead(k) # "ssid" -> inUse[k] = Preset(k)
              [] OTHER -> TRUE
=============================================================================
