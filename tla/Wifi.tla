--------------------------------- MODULE Wifi ---------------------------------
(***************************************************************************)
(* wifi/wifi_manager.c with the boot sequence that waits for it            *)
(* (app/espagent_app.c) and the captive portal that follows a failure      *)
(* (onboard/wifi_onboard.c).                                               *)
(*                                                                         *)
(* The handler of the events runs in the event task; it never connects     *)
(* again itself but creates a task that first sleeps.  The handle of that  *)
(* task says whether there is one; it is cleared by the task, by the       *)
(* handler when the board has an address, and by wifi_manager_stop.        *)
(* The Wi-Fi driver, external, is a station that tries and either links    *)
(* or not, and posts events.                                               *)
(***************************************************************************)
EXTENDS Integers, Sequences

CONSTANTS MaxRetry,    \* ESPAGENT_WIFI_MAX_RETRY
          MaxAirCuts,  \* bound: how often the access point goes out of reach
          MaxScans,    \* bound: wifi_scan on the console
          MaxPortals   \* bound: portals that end in a restart

ASSUME WifiAssumption ==
    MaxRetry \in Nat /\ MaxAirCuts \in Nat /\ MaxScans \in Nat /\ MaxPortals \in Nat

VARIABLES
    stage,        \* boot: "join" the network, "run", or "portal"
    air,          \* the access point is in reach
    sta,          \* the driver: "idle", "trying", "linked"
    staEvents,    \* events posted and not yet handled
    reconnect,    \* s_reconnect_enabled
    wifiUp,       \* s_connected
    retries,      \* s_retry_count
    handle,       \* s_reconnect_task is not NULL
    sleepers,     \* reconnect tasks before their look at the state
    leavers,      \* reconnect tasks after it, before they clear the handle
    wifiBits,     \* the event group
    scanning,     \* wifi_manager_scan_and_print is under way
    missed,       \* history: an event found the handle of a task that had already looked
    scanCut,      \* history: a scan ended without connecting again
    portalTries,  \* history: attempts in the portal
    airCuts, scans, portals

wifiVars == <<stage, air, sta, staEvents, reconnect, wifiUp, retries, handle, sleepers, leavers,
              wifiBits, scanning, missed, scanCut, portalTries, airCuts, scans, portals>>
bounds == <<airCuts, scans, portals>>
flags  == <<reconnect, wifiUp, retries, handle, wifiBits>>
tasks  == <<sleepers, leavers>>
noted  == <<missed, scanCut, portalTries>>

\* app: wifi_manager_init and wifi_manager_start, with credentials.
WifiInit ==
    /\ stage = "join" /\ air \in BOOLEAN
    /\ sta = "idle" /\ staEvents = <<"start">>
    /\ reconnect = TRUE /\ wifiUp = FALSE /\ retries = 0 /\ handle = FALSE
    /\ sleepers = 0 /\ leavers = 0
    /\ wifiBits = {} /\ scanning = "no"
    /\ missed = FALSE /\ scanCut = FALSE /\ portalTries = 0
    /\ airCuts = 0 /\ scans = 0 /\ portals = 0

\* esp_wifi_connect and esp_wifi_disconnect.
Connected    == IF sta = "idle" THEN "trying" ELSE sta
Disconnected == IF sta = "idle" THEN <<>> ELSE <<"down">>

-----------------------------------------------------------------------------
(* event_handler. *)

StaStarts ==
    /\ staEvents # <<>> /\ Head(staEvents) = "start"
    /\ staEvents' = Tail(staEvents)
    /\ sta' = Connected
    /\ portalTries' = IF stage = "portal" THEN portalTries + 1 ELSE portalTries
    /\ UNCHANGED <<stage, air, flags, tasks, scanning, missed, scanCut, bounds>>

\* Mutant: s_connected stays.
StaDownKept ==
    /\ staEvents # <<>> /\ Head(staEvents) = "down"
    /\ staEvents' = Tail(staEvents)
    /\ UNCHANGED wifiUp
    /\ \/ /\ reconnect /\ retries < MaxRetry
          /\ retries' = retries + 1
          /\ \/ /\ ~handle
                /\ \/ handle' = TRUE /\ sleepers' = sleepers + 1 /\ UNCHANGED wifiBits
                   \/ wifiBits' = wifiBits \cup {"fail"} /\ UNCHANGED <<handle, sleepers>>
                /\ UNCHANGED missed
             \/ /\ handle
                /\ missed' = (missed \/ sleepers = 0)
                /\ UNCHANGED <<handle, sleepers, wifiBits>>
       \/ /\ ~reconnect \/ retries >= MaxRetry
          /\ wifiBits' = wifiBits \cup {"fail"}
          /\ UNCHANGED <<retries, handle, sleepers, missed>>
    /\ UNCHANGED <<stage, air, sta, reconnect, leavers, scanning, scanCut, portalTries, bounds>>

StaDown ==
    /\ staEvents # <<>> /\ Head(staEvents) = "down"
    /\ staEvents' = Tail(staEvents)
    /\ wifiUp' = FALSE
    /\ \/ /\ reconnect /\ retries < MaxRetry
          /\ retries' = retries + 1
          /\ \/ /\ ~handle
                /\ \/ handle' = TRUE /\ sleepers' = sleepers + 1 /\ UNCHANGED wifiBits
                   \/ wifiBits' = wifiBits \cup {"fail"} /\ UNCHANGED <<handle, sleepers>>
                /\ UNCHANGED missed
             \/ /\ handle
                /\ missed' = (missed \/ sleepers = 0)
                /\ UNCHANGED <<handle, sleepers, wifiBits>>
       \/ /\ ~reconnect \/ retries >= MaxRetry
          /\ wifiBits' = wifiBits \cup {"fail"}
          /\ UNCHANGED <<retries, handle, sleepers, missed>>
    /\ UNCHANGED <<stage, air, sta, reconnect, leavers, scanning, scanCut, portalTries, bounds>>

StaGotIp ==
    /\ staEvents # <<>> /\ Head(staEvents) = "ip"
    /\ staEvents' = Tail(staEvents)
    /\ retries' = 0 /\ wifiUp' = TRUE /\ handle' = FALSE
    /\ wifiBits' = wifiBits \cup {"connected"}
    /\ UNCHANGED <<stage, air, sta, reconnect, tasks, scanning, noted, bounds>>

-----------------------------------------------------------------------------
(* reconnect_task. *)

\* Mutant: the last try is not made.
MayRetryBelow == reconnect /\ ~wifiUp /\ retries + 1 < MaxRetry

MayRetry == reconnect /\ ~wifiUp /\ retries < MaxRetry

RetryLooks ==
    /\ sleepers > 0
    /\ sleepers' = sleepers - 1 /\ leavers' = leavers + 1
    /\ sta' = IF MayRetry THEN Connected ELSE sta
    /\ portalTries' = IF MayRetry /\ stage = "portal" THEN portalTries + 1 ELSE portalTries
    /\ UNCHANGED <<stage, air, staEvents, flags, scanning, missed, scanCut, bounds>>

RetryEnds ==
    /\ leavers > 0
    /\ leavers' = leavers - 1 /\ handle' = FALSE
    /\ UNCHANGED <<stage, air, sta, staEvents, reconnect, wifiUp, retries, wifiBits, sleepers,
                   scanning, noted, bounds>>

-----------------------------------------------------------------------------
(* The driver and the air. *)

AttemptEnds ==
    /\ sta = "trying"
    /\ IF air THEN sta' = "linked" /\ staEvents' = Append(staEvents, "ip")
       ELSE sta' = "idle" /\ staEvents' = Append(staEvents, "down")
    /\ UNCHANGED <<stage, air, flags, tasks, scanning, noted, bounds>>

AirGoes ==
    /\ air /\ airCuts < MaxAirCuts
    /\ air' = FALSE /\ airCuts' = airCuts + 1
    /\ sta' = "idle" /\ staEvents' = staEvents \o Disconnected
    /\ UNCHANGED <<stage, flags, tasks, scanning, noted, scans, portals>>

AirComes ==
    /\ ~air /\ air' = TRUE
    /\ UNCHANGED <<stage, sta, staEvents, flags, tasks, scanning, noted, bounds>>

-----------------------------------------------------------------------------
(* The boot. *)

\* wifi_manager_wait_connected and, if it succeeds, the services.
JoinSucceeds ==
    /\ stage = "join" /\ "connected" \in wifiBits
    /\ stage' = "run"
    /\ UNCHANGED <<air, sta, staEvents, flags, tasks, scanning, noted, bounds>>

\* After thirty seconds, in which the events have been handled, or at the failure: the
\* station is stopped, and the portal started, whose mode has a station as well.
JoinFails ==
    /\ stage = "join" /\ "connected" \notin wifiBits
    /\ "fail" \in wifiBits \/ staEvents = <<>>
    /\ stage' = "portal"
    /\ reconnect' = FALSE /\ handle' = FALSE /\ wifiUp' = FALSE /\ retries' = 0
    /\ wifiBits' = {}
    /\ sta' = "idle" /\ staEvents' = staEvents \o Disconnected \o <<"start">>
    /\ UNCHANGED <<air, tasks, scanning, noted, bounds>>

\* The portal ends with /save, which restarts the board.
PortalEnds ==
    /\ stage = "portal" /\ portals < MaxPortals
    /\ portals' = portals + 1
    /\ stage' = "join" /\ sta' = "idle" /\ staEvents' = <<"start">>
    /\ reconnect' = TRUE /\ wifiUp' = FALSE /\ retries' = 0 /\ handle' = FALSE
    /\ sleepers' = 0 /\ leavers' = 0 /\ wifiBits' = {} /\ scanning' = "no"
    /\ portalTries' = 0 /\ missed' = FALSE /\ scanCut' = FALSE
    /\ UNCHANGED <<air, airCuts, scans>>

-----------------------------------------------------------------------------
(* wifi_scan on the console. *)

ScanBegins ==
    /\ scanning = "no" /\ scans < MaxScans
    /\ scans' = scans + 1 /\ scanning' = "yes"
    /\ sta' = "idle" /\ staEvents' = staEvents \o Disconnected
    /\ UNCHANGED <<stage, air, flags, tasks, noted, airCuts, portals>>

\* The driver refuses to scan while it tries: it is stopped and started.
ScanRestarts ==
    /\ scanning = "yes" /\ sta = "trying"
    /\ scanning' = "again"
    /\ sta' = "idle" /\ staEvents' = staEvents \o <<"down", "start">>
    /\ UNCHANGED <<stage, air, flags, tasks, noted, bounds>>

\* It connects again, unless there is no memory for the list.
ScanEnds ==
    /\ scanning # "no"
    /\ scanning' = "no"
    /\ \/ sta' = Connected /\ UNCHANGED scanCut
       \/ scanCut' = TRUE /\ UNCHANGED sta
    /\ UNCHANGED <<stage, air, staEvents, flags, tasks, missed, portalTries, bounds>>

-----------------------------------------------------------------------------

WifiEvent == StaStarts \/ StaDown \/ StaGotIp

WifiNext ==
    \/ WifiEvent
    \/ RetryLooks \/ RetryEnds
    \/ AttemptEnds \/ AirGoes \/ AirComes
    \/ JoinSucceeds \/ JoinFails \/ PortalEnds
    \/ ScanBegins \/ ScanRestarts \/ ScanEnds

WifiSpec == WifiInit /\ [][WifiNext]_wifiVars

-----------------------------------------------------------------------------
(* Properties. *)

WifiTypeOK ==
    /\ stage \in {"join", "run", "portal"} /\ air \in BOOLEAN
    /\ sta \in {"idle", "trying", "linked"}
    /\ staEvents \in Seq({"start", "down", "ip"})
    /\ reconnect \in BOOLEAN /\ wifiUp \in BOOLEAN /\ handle \in BOOLEAN
    /\ retries \in 0 .. MaxRetry /\ sleepers \in Nat /\ leavers \in Nat
    /\ wifiBits \subseteq {"connected", "fail"}
    /\ scanning \in {"no", "yes", "again"}

\* When the events have been handled, s_connected, which the gateway, the tools and the
\* status command rely on, says how it is: also after scans, the stop for the portal, and
\* tasks that wake up late.  And in the portal no task of before tries any more to connect;
\* the station does once when the access point is set up, and when a scan restarts it.
ConnectedIsTrue ==
    /\ staEvents = <<>> => (wifiUp <=> sta = "linked")
    /\ stage = "portal" => portalTries <= 1 + scans

\* A board that has lost its network gets it back, or has used up its retries, or has
\* reported the failure.  Two more things leave it alone: a scan without memory, and a
\* disconnection that comes between a task's look and its end.
BackOnline ==
    (stage = "run" /\ ~wifiUp)
      ~> (wifiUp \/ retries = MaxRetry \/ "fail" \in wifiBits \/ missed \/ scanCut)
=============================================================================
