------------------------------ MODULE MCServices ------------------------------
(***************************************************************************)
(* The services of one board that do not meet each other in a step, side   *)
(* by side: a behaviour is one of the service `part`, while the others     *)
(* stay where they began.                                                  *)
(***************************************************************************)
EXTENDS CacheStore, Skills, Sessions, Subagent, ToolTurn, FeishuSend, Settings, Checks, TLC

CONSTANTS k1, k2, k3, v1, v2

VARIABLE part

MCSize     == v1 :> 1 @@ v2 :> 2
MCGroup    == {{k1, k2}}

\* Two keys of the cache that are in the same groups, and of which no other service has any.
MCKeys     == Permutations({k1, k2})

MCLegacy   == [c \in SessionChat |->
                 <<[turn |-> 0, role |-> "user", as |-> "message", size |-> 1],
                   [turn |-> 0, role |-> "assistant", as |-> "noise", size |-> 0]>>]

Message(kind, words) == [kind |-> kind, system |-> FALSE, words |-> words]
MCAsk == {Message("user", {"light", "blue"}), Message("user", {"light", "blue", "local"}),
          Message("user", {"light", "blue", "red", "then"}), Message("proactive", {"every"})}
MCReplyTools == {<<>>, <<"mesh_send_command">>, <<"gpio_write", "web_search", "mesh_send_command">>}

\* "long" is of 128 to 255 characters and "longer" of up to 319; of ports they are others.
MCBuild    == [k \in SetKey |-> IF k \in {"model", "host"} THEN Empty ELSE "build"]
MCTooLong  == (SetKey \ {"api_key", "port"}) \X {"long", "longer"}
MCNotShown == (SetKey \ {"port"}) \X {"long", "longer"}
MCOverLine == (SetKey \ {"port"}) \X {"longer"}
MCContact  == {<<"feishu", "oc">>, <<"websocket", "ws_1">>}

ServicesInit ==
    /\ part \in {"cache", "skills", "sessions", "subagent", "turn", "send", "settings", "checks"}
    /\ CacheInit /\ SkillInit /\ SessionInit /\ SubInit /\ TurnInit
    /\ FsSendInit /\ SettingsInit /\ ChecksInit
    /\ part # "turn" => provider = "openai"
    /\ part # "send" => app = CHOOSE a \in FsApp : TRUE

IsPart(p)   == part = p /\ UNCHANGED part
NotCache    == UNCHANGED <<skillVars, sessionVars, subVars,
                             turnVars, fsSendVars, settingsVars, checkVars>>
NotSkills   == UNCHANGED <<cacheVars, sessionVars, subVars,
                             turnVars, fsSendVars, settingsVars, checkVars>>
NotSession  == UNCHANGED <<cacheVars, skillVars, subVars,
                             turnVars, fsSendVars, settingsVars, checkVars>>
NotSub      == UNCHANGED <<cacheVars, skillVars, sessionVars,
                             turnVars, fsSendVars, settingsVars, checkVars>>
NotTurn     == UNCHANGED <<cacheVars, skillVars, sessionVars,
                             subVars, fsSendVars, settingsVars, checkVars>>
NotSend     == UNCHANGED <<cacheVars, skillVars, sessionVars,
                             subVars, turnVars, settingsVars, checkVars>>
NotSettings == UNCHANGED <<cacheVars, skillVars, sessionVars,
                             subVars, turnVars, fsSendVars, checkVars>>
NotChecks   == UNCHANGED <<cacheVars, skillVars, sessionVars,
                             subVars, turnVars, fsSendVars, settingsVars>>

servicesVars == <<part, cacheVars, skillVars, sessionVars, subVars,
                  turnVars, fsSendVars, settingsVars, checkVars>>

ServicesNext ==
    \/ IsPart("cache") /\ CacheNext /\ NotCache
    \/ IsPart("skills") /\ SkillNext /\ NotSkills
    \/ IsPart("sessions") /\ SessionNext /\ NotSession
    \/ IsPart("subagent") /\ SubNext /\ NotSub
    \/ IsPart("turn") /\ TurnNext /\ NotTurn
    \/ IsPart("send") /\ FsSendNext /\ NotSend
    \/ IsPart("settings") /\ SettingsNext /\ NotSettings
    \/ IsPart("checks") /\ ChecksNext /\ NotChecks

ServicesSpec == ServicesInit /\ [][ServicesNext]_servicesVars

\* The type invariants of the services; and the cache counts the bytes it holds, and has
\* no key twice (cache_store.c).
ServicesSound == /\ CacheTypeOK /\ SkillTypeOK /\ SessionTypeOK /\ SubTypeOK
                 /\ TurnTypeOK /\ SettingsTypeOK /\ ChecksTypeOK
                 /\ BytesCounted /\ KeyOnce
=============================================================================
