-------------------------------- MODULE MCLinks --------------------------------
(***************************************************************************)
(* The board's links to the world outside and what it keeps for them, side *)
(* by side: a behaviour is one of the component `part`, while the others   *)
(* stay where they began.                                                  *)
(***************************************************************************)
EXTENDS FeishuLink, Wifi, EnvSensors, Cron, TLC

VARIABLE part

\* The sensors where they are, the AHT10 and the SGP30 with their ports exchanged, and pins
\* on which no SGP30 is.
At(aht, sgp) == [s \in Sensor |-> CASE s = "aht" -> aht [] s = "sgp" -> sgp [] s = "gy" -> Home[s]]
MCPlaces == {Home, At([port |-> "p1", pins |-> "home"], [port |-> "p0", pins |-> "home"]),
             At(Home["aht"], [port |-> "p1", pins |-> "away"])}

\* In half ticks: an interval of half a tick, and times that are whole or not.
MCRequests == {[kind |-> "every", when |-> 1, del |-> FALSE], [kind |-> "daily", when |-> 0, del |-> FALSE],
               [kind |-> "at", when |-> 4, del |-> TRUE], [kind |-> "at", when |-> 5, del |-> FALSE]}

LinksInit ==
    /\ part \in {"link", "wifi", "env", "cron"}
    /\ FsInit /\ WifiInit /\ EnvInit /\ CronInit
    /\ part # "wifi" => air = FALSE
    /\ part # "cron" => synced = FALSE

IsPart(p) == part = p /\ UNCHANGED part
NotLink   == UNCHANGED <<wifiVars, envVars, cronVars>>
NotWifi   == UNCHANGED <<fsVars, envVars, cronVars>>
NotEnv    == UNCHANGED <<fsVars, wifiVars, cronVars>>
NotCron   == UNCHANGED <<fsVars, wifiVars, envVars>>

linksVars == <<part, fsVars, wifiVars, envVars, cronVars>>

LinksNext ==
    \/ IsPart("link") /\ FsNext /\ NotLink
    \/ IsPart("wifi") /\ WifiNext /\ NotWifi
    \/ IsPart("env") /\ EnvNext /\ NotEnv
    \/ IsPart("cron") /\ CronNext /\ NotCron

LinksFair ==
    /\ WF_linksVars(IsPart("link") /\ WsTaskStep /\ NotLink)
    /\ WF_linksVars(IsPart("link") /\ RxStep /\ NotLink)
    /\ SF_linksVars(IsPart("link") /\ WireUp /\ NotLink)
    /\ \A m \in FsMsg : /\ SF_linksVars(IsPart("link") /\ FsSends(m) /\ NotLink)
                        /\ WF_linksVars(IsPart("link") /\ AckSent(m) /\ NotLink)
    /\ WF_linksVars(IsPart("wifi") /\ WifiEvent /\ NotWifi)
    /\ WF_linksVars(IsPart("wifi") /\ RetryLooks /\ NotWifi)
    /\ WF_linksVars(IsPart("wifi") /\ RetryEnds /\ NotWifi)
    /\ WF_linksVars(IsPart("wifi") /\ AttemptEnds /\ NotWifi)
    /\ WF_linksVars(IsPart("wifi") /\ ScanEnds /\ NotWifi)
    /\ \A a \in Reader : WF_linksVars(IsPart("env") /\ ReaderStep(a) /\ NotEnv)
    /\ WF_linksVars(IsPart("env") /\ EnvAgentStep /\ NotEnv)
    /\ WF_linksVars(IsPart("env") /\ PowerReturns /\ NotEnv)
    /\ WF_linksVars(IsPart("cron") /\ CronStep /\ NotCron)

LinksSpec == LinksInit /\ [][LinksNext]_linksVars /\ LinksFair

\* The type invariants of the components, and of the station that s_connected says how it is
\* (wifi_manager.c).
StationIsTrue == WifiTypeOK /\ EnvTypeOK /\ CronTypeOK /\ ConnectedIsTrue

\* Every message of a Feishu user gets through to the board, however often the connection is
\* lost (feishu_ws_task): in a behaviour of that component all have arrived in the end.
FeishuArrives == []<>(part = "link" => AllArrived)

\* Again and again every sensor gives values once its power stays, wherever a call of the agent
\* moved it (tool_environment.c), in a behaviour of that component.
SensorsHeal == []<>(part = "env" => AllGive)
=============================================================================
