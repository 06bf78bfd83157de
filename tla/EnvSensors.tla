------------------------------ MODULE EnvSensors ------------------------------
(***************************************************************************)
(* The environment sensors (tool_environment.c) with those who read them:  *)
(* the monitor and telemetry tasks, which read each sensor at its default  *)
(* place, and the agent, whose read_environment may name other places, and *)
(* whose tools for a single sensor open a bus of their own without the     *)
(* mutex (tool_sgp30.c, which keeps it open, tool_aht10.c, tool_bh1750.c). *)
(*                                                                         *)
(* A place is an I2C port and the pins it is put on; a sensor answers on   *)
(* the pins it is wired to.  The GY-30 has a port in software to itself.   *)
(***************************************************************************)
EXTENDS Naturals

CONSTANTS
    Reader,         \* the tasks that call tool_environment_read_values
    SensorPlaces,   \* the places a call of the agent may name, for all sensors at once
    MaxEnvCalls,    \* bound: tool calls of the agent
    MaxOutages      \* bound: times a sensor loses its power

Sensor == {"aht", "sgp", "gy"}
Port   == {"p0", "p1", "soft"}
Pins   == {"home", "away"}
Place  == [port : Port, pins : Pins]

\* ESPAGENT_AHT10_DEFAULT_*, ESPAGENT_SGP30_DEFAULT_*, ESPAGENT_BH1750_DEFAULT_*
Home == [s \in Sensor |->
            [port |-> CASE s = "aht" -> "p0" [] s = "sgp" -> "p1" [] s = "gy" -> "soft",
             pins |-> "home"]]

ASSUME EnvAssumption ==
    /\ {"agent", "free"} \cap Reader = {}
    /\ SensorPlaces \subseteq [Sensor -> Place]
    /\ MaxEnvCalls \in Nat /\ MaxOutages \in Nat

VARIABLES
    ports,      \* who has opened the bus of a port
    env,        \* s_env: per sensor the bus, the device on it and the place it is recorded at
    airDev,     \* s_sgp30 of tool_sgp30.c
    envLock,    \* s_env_mutex
    doing,      \* per task, the next thing it does
    want,       \* the places the agent's call asked for
    sensors,    \* per sensor: off, cold (not initialised since its power came) or ready
    seen,       \* per sensor, whether the last reading at its default place had a value
    envCalls, outages

envVars == <<ports, env, airDev, envLock, doing, want, sensors, seen, envCalls, outages>>

EnvTask == Reader \cup {"agent"}
NoPlace == [port |-> "none", pins |-> "none"]
Closed  == [bus |-> NoPlace, dev |-> FALSE, at |-> NoPlace]
EnvIdle    == <<"idle", "-">>

EnvInit ==
    /\ ports = [p \in Port |-> "free"]
    /\ env = [s \in Sensor |-> Closed] /\ airDev = Closed
    /\ envLock = "free" /\ doing = [a \in EnvTask |-> EnvIdle]
    /\ want = Home
    /\ sensors = [s \in Sensor |-> "cold"]
    /\ seen = [s \in Sensor |-> FALSE]
    /\ envCalls = 0 /\ outages = 0

GoesTo(a, what, s) == doing' = [doing EXCEPT ![a] = <<what, s>>]

-----------------------------------------------------------------------------
\* The driver of the ports (external): a port has one bus at a time.
Responds(s, place) == place.pins = "home" /\ sensors[s] # "off"

\* Mutant: the bus goes with its device only.
FreedWithDevice(h, pt) == IF h.dev THEN [pt EXCEPT ![h.bus.port] = "free"] ELSE pt

\* i2c_master_bus_rm_device and i2c_del_master_bus, for a handle that may have one, both or none.
Freed(h, pt) == IF h.bus # NoPlace THEN [pt EXCEPT ![h.bus.port] = "free"] ELSE pt

\* A bus that was made and on which no device answered.
Probed(place) == [bus |-> place, dev |-> FALSE, at |-> NoPlace]
Opened(place) == [bus |-> place, dev |-> TRUE, at |-> place]

AllFreed == Freed(env["aht"], Freed(env["sgp"], Freed(env["gy"], ports)))

-----------------------------------------------------------------------------
\* The mutex, for at most five seconds.
EnvLocks(a) ==
    /\ envLock = "free" /\ envLock' = a
    /\ IF a = "agent" THEN GoesTo(a, "check", "all") ELSE GoesTo(a, "open", "aht")

ReaderLocks(a) ==
    /\ doing[a] = EnvIdle /\ EnvLocks(a)
    /\ UNCHANGED <<ports, env, airDev, want, sensors, seen, envCalls, outages>>

AgentLocks ==
    /\ doing["agent"] = <<"lock", "all">> /\ EnvLocks("agent")
    /\ UNCHANGED <<ports, env, airDev, want, sensors, seen, envCalls, outages>>

AgentTooLate ==
    /\ doing["agent"] = <<"lock", "all">> /\ envLock # "free"
    /\ doing' = [doing EXCEPT !["agent"] = EnvIdle]
    /\ UNCHANGED <<ports, env, airDev, envLock, want, sensors, seen, envCalls, outages>>

EnvUnlocks(a) == envLock' = "free" /\ doing' = [doing EXCEPT ![a] = EnvIdle]

\* What follows the sensor s, in a reading of all of them.
Next3(s) == IF s = "aht" THEN "sgp" ELSE "gy"

-----------------------------------------------------------------------------
(***************************************************************************)
(* tool_environment_read_values: each sensor is brought to its default     *)
(* place and read; one that fails is closed, and the next one has its turn.*)
(***************************************************************************)
ReaderGoesOn(a, s) ==
    IF s = "gy" THEN EnvUnlocks(a) ELSE GoesTo(a, "open", Next3(s)) /\ UNCHANGED envLock

\* env_ensure_*_ready: nothing to do, or what is open elsewhere is closed, ...
ReaderOpens(a, s) ==
    /\ doing[a] = <<"open", s>>
    /\ IF env[s].dev /\ env[s].at = Home[s]
       THEN GoesTo(a, "read", s) /\ UNCHANGED <<ports, env>>
       ELSE /\ ports' = Freed(env[s], ports)
            /\ env' = [env EXCEPT ![s] = Closed]
            /\ GoesTo(a, "make", s)
    /\ UNCHANGED <<airDev, envLock, want, sensors, seen, envCalls, outages>>

\* ... and a bus is made, probed, and the sensor initialised.
ReaderMakes(a, s) ==
    /\ doing[a] = <<"make", s>> /\ a \in Reader
    /\ IF ports[Home[s].port] = "free" /\ Responds(s, Home[s])
       THEN /\ ports' = [ports EXCEPT ![Home[s].port] = s]
            /\ env' = [env EXCEPT ![s] = Opened(Home[s])]
            /\ sensors' = [sensors EXCEPT ![s] = "ready"]
            /\ GoesTo(a, "read", s) /\ UNCHANGED <<envLock, seen>>
       ELSE /\ ports' = IF ports[Home[s].port] = "free"
                        THEN Freed(Probed(Home[s]), [ports EXCEPT ![Home[s].port] = s]) ELSE ports
            /\ seen' = [seen EXCEPT ![s] = FALSE]
            /\ ReaderGoesOn(a, s) /\ UNCHANGED <<env, sensors>>
    /\ UNCHANGED <<airDev, want, envCalls, outages>>

\* Mutant: a sensor that fails is left open.
ReaderReadsOn(a, s) ==
    /\ doing[a] = <<"read", s>> /\ a \in Reader
    /\ seen' = [seen EXCEPT ![s] = sensors[s] = "ready" /\ env[s].bus.pins = "home"]
    /\ ReaderGoesOn(a, s)
    /\ UNCHANGED <<ports, env, airDev, want, sensors, envCalls, outages>>

ReaderReads(a, s) ==
    /\ doing[a] = <<"read", s>> /\ a \in Reader
    /\ IF sensors[s] = "ready" /\ env[s].bus.pins = "home"
       THEN seen' = [seen EXCEPT ![s] = TRUE] /\ UNCHANGED <<ports, env>>
       ELSE /\ seen' = [seen EXCEPT ![s] = FALSE]
            /\ ports' = Freed(env[s], ports)
            /\ env' = [env EXCEPT ![s] = Closed]
    /\ ReaderGoesOn(a, s)
    /\ UNCHANGED <<airDev, want, sensors, envCalls, outages>>

-----------------------------------------------------------------------------
\* tool_read_environment_execute: the agent's call, with the places it names.
EnvironmentAsked(places) ==
    /\ doing["agent"] = EnvIdle /\ envCalls < MaxEnvCalls
    /\ want' = places /\ envCalls' = envCalls + 1
    /\ GoesTo("agent", "lock", "all")
    /\ UNCHANGED <<ports, env, airDev, envLock, sensors, seen, outages>>

\* env_ensure_ready: all as asked for, or all are closed ...
AgentChecks ==
    /\ doing["agent"] = <<"check", "all">>
    /\ IF \A s \in Sensor : env[s].dev /\ env[s].at = want[s]
       THEN GoesTo("agent", "read", "aht") /\ UNCHANGED <<ports, env>>
       ELSE /\ ports' = AllFreed
            /\ env' = [s \in Sensor |-> Closed]
            /\ GoesTo("agent", "make", "aht")
    /\ UNCHANGED <<airDev, envLock, want, sensors, seen, envCalls, outages>>

\* ... and opened one by one; the places are recorded when all are; one that fails closes all.
AgentMakes(s) ==
    /\ doing["agent"] = <<"make", s>>
    /\ LET place == want[s] IN
       IF ports[place.port] = "free" /\ Responds(s, place)
       THEN /\ ports' = [ports EXCEPT ![place.port] = s]
            /\ LET made == [env EXCEPT ![s] = [Opened(place) EXCEPT !.at = NoPlace]]
               IN  env' = IF s = "gy" THEN [t \in Sensor |-> [made[t] EXCEPT !.at = want[t]]] ELSE made
            /\ sensors' = [sensors EXCEPT ![s] = "ready"]
            /\ IF s = "gy" THEN GoesTo("agent", "read", "aht") ELSE GoesTo("agent", "make", Next3(s))
            /\ UNCHANGED envLock
       ELSE /\ ports' = IF ports[place.port] = "free"
                        THEN Freed(Probed(place), [AllFreed EXCEPT ![place.port] = s]) ELSE AllFreed
            /\ env' = [t \in Sensor |-> Closed]
            /\ EnvUnlocks("agent") /\ UNCHANGED sensors
    /\ UNCHANGED <<airDev, want, seen, envCalls, outages>>

\* A reading that fails ends the call, and everything stays open.
AgentReads(s) ==
    /\ doing["agent"] = <<"read", s>>
    /\ IF s # "gy" /\ sensors[s] = "ready" /\ env[s].bus.pins = "home"
       THEN GoesTo("agent", "read", Next3(s)) /\ UNCHANGED envLock
       ELSE EnvUnlocks("agent")
    /\ UNCHANGED <<ports, env, airDev, want, sensors, seen, envCalls, outages>>

-----------------------------------------------------------------------------
\* tool_sgp30_read_air_quality_execute: its own device, kept open whatever the reading gives.
AirAsked(place) ==
    /\ doing["agent"] = EnvIdle /\ envCalls < MaxEnvCalls
    /\ envCalls' = envCalls + 1
    /\ IF airDev.dev /\ airDev.at = place THEN UNCHANGED <<ports, airDev, sensors>>
       ELSE LET left == Freed(airDev, ports) IN
            IF left[place.port] = "free" /\ Responds("sgp", place)
            THEN /\ ports' = [left EXCEPT ![place.port] = "air"]
                 /\ airDev' = Opened(place)
                 /\ sensors' = [sensors EXCEPT !["sgp"] = "ready"]
            ELSE /\ ports' = IF left[place.port] = "free"
                             THEN Freed(Probed(place), [left EXCEPT ![place.port] = "air"]) ELSE left
                 /\ airDev' = Closed /\ UNCHANGED sensors
    /\ UNCHANGED <<env, envLock, doing, want, seen, outages>>

\* tool_aht10_read_temperature_humidity_execute and tool_bh1750_read_light_execute: a bus, on
\* either port, for this one reading.
DiagnosisAsked(place) ==
    /\ doing["agent"] = EnvIdle /\ envCalls < MaxEnvCalls
    /\ envCalls' = envCalls + 1
    /\ ports[place.port] = "free"
    /\ ports' = [ports EXCEPT ![place.port] = "diagnosis"]
    /\ GoesTo("agent", "diagnose", place.port)
    /\ UNCHANGED <<env, airDev, envLock, want, sensors, seen, outages>>

DiagnosisEnds(p) ==
    /\ doing["agent"] = <<"diagnose", p>>
    /\ ports' = [ports EXCEPT ![p] = "free"]
    /\ \/ UNCHANGED sensors
       \/ \E s \in {"aht", "gy"} : sensors[s] # "off" /\ sensors' = [sensors EXCEPT ![s] = "ready"]
    /\ doing' = [doing EXCEPT !["agent"] = EnvIdle]
    /\ UNCHANGED <<env, airDev, envLock, want, seen, envCalls, outages>>

-----------------------------------------------------------------------------
\* A sensor loses its power, and has it again without its initialisation.
SensorOff(s) ==
    /\ outages < MaxOutages /\ sensors[s] # "off"
    /\ sensors' = [sensors EXCEPT ![s] = "off"] /\ outages' = outages + 1
    /\ UNCHANGED <<ports, env, airDev, envLock, doing, want, seen, envCalls>>

SensorOn(s) ==
    /\ sensors[s] = "off" /\ sensors' = [sensors EXCEPT ![s] = "cold"]
    /\ UNCHANGED <<ports, env, airDev, envLock, doing, want, seen, envCalls, outages>>

ReaderStep(a) ==
    \/ ReaderLocks(a)
    \/ \E s \in Sensor : ReaderOpens(a, s) \/ ReaderMakes(a, s) \/ ReaderReads(a, s)

EnvAgentStep ==
    \/ AgentLocks \/ AgentTooLate \/ AgentChecks
    \/ \E s \in Sensor : AgentMakes(s) \/ AgentReads(s)
    \/ \E p \in Port : DiagnosisEnds(p)

PowerReturns == \E s \in Sensor : SensorOn(s)

EnvNext ==
    \/ \E a \in Reader : ReaderStep(a)
    \/ EnvAgentStep
    \/ \E places \in SensorPlaces : \/ EnvironmentAsked(places)
                              \/ AirAsked(places["sgp"]) \/ DiagnosisAsked(places["aht"])
    \/ \E s \in Sensor : SensorOff(s)
    \/ PowerReturns

EnvFair == (\A a \in Reader : WF_envVars(ReaderStep(a))) /\ WF_envVars(EnvAgentStep) /\ WF_envVars(PowerReturns)

EnvSpec == EnvInit /\ [][EnvNext]_envVars /\ EnvFair

-----------------------------------------------------------------------------
EnvTypeOK ==
    /\ ports \in [Port -> Sensor \cup {"free", "air", "diagnosis"}]
    /\ \A s \in Sensor : env[s].bus \in Place \cup {NoPlace} /\ env[s].at \in {NoPlace, env[s].bus}
    /\ envLock \in EnvTask \cup {"free"} /\ seen \in [Sensor -> BOOLEAN]
    /\ sensors \in [Sensor -> {"off", "cold", "ready"}]

\* Every open port belongs to exactly the handle that still refers to it, so that a later call can
\* close it: no step that fails in the middle of opening leaves a bus that nobody holds
\* (create_hw_bus, env_deinit, sgp30_init, aht10_deinit); and a task that is about to read a sensor
\* has its device, however the others' calls move the sensors between places (s_env_mutex).
PortsAreHeld ==
    \A p \in Port :
        /\ \A s \in Sensor : (ports[p] = s) <=> (env[s].bus.port = p)
        /\ (ports[p] = "air") <=> (airDev.bus.port = p)
        /\ (ports[p] = "diagnosis") <=> (doing["agent"] = <<"diagnose", p>>)
        /\ \A a \in EnvTask, s \in Sensor : doing[a] = <<"read", s>> => env[s].dev /\ envLock = a

\* Every sensor gives values, unless the agent's air-quality tool has taken its port, which it
\* never gives back.
AllGive == \A s \in Sensor : seen[s] \/ ports[Home[s].port] = "air"
=============================================================================
