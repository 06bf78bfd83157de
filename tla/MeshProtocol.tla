---------------------------- MODULE MeshProtocol ----------------------------
(***************************************************************************)
(* The messages of the agent mesh and the pure decisions taken about them: *)
(* what a node's role lets it do (roles/role_config.c), what the Guardian  *)
(* allows (sensors/sensor_mqtt.c), what the sending tool accepts           *)
(* (tools/tool_mesh_command.c) and which commands a node accepts           *)
(* (mesh/mesh_protocol.c).                                                 *)
(***************************************************************************)
EXTENDS Integers, Sequences

CONSTANTS Node,           \* the boards
          NoNode,         \* the empty target_node string
          RoleOf,         \* ESPAGENT_NODE_ROLE of each board
          CapsOf,         \* ESPAGENT_NODE_CAPABILITIES of each board
          Id,             \* command ids
          LongId,         \* ids whose decision JSON exceeds the 512-byte buffers
          ControlAction,  \* set_status_light, ws2812_set, servo_write, gpio_write
          SensorAction    \* read_temperature_humidity

\* Strings of espagent_config.h and mesh_types.h.
Sensor  == "sensor_agent"
Control == "control_agent"
NoRole  == ""
RoleName == {NoRole, Sensor, Control, "coordinator_agent", "guardian_agent", "edge_agent"}
Capability == {"coordinator", "sensor", "control", "guardian"}
Action  == ControlAction \cup SensorAction
Medium  == 1
Safety  == 0 .. 2

ASSUME ProtocolAssumption ==
    /\ NoNode \notin Node
    /\ RoleOf \in [Node -> RoleName \ {NoRole}]
    /\ CapsOf \in [Node -> SUBSET Capability]
    /\ LongId \subseteq Id
    /\ ControlAction \cap SensorAction = {}

\* espagent_role_is_sensor / _control / _guardian: the role or the capability.
IsSensor(n)   == RoleOf[n] = Sensor \/ "sensor" \in CapsOf[n]
IsControl(n)  == RoleOf[n] = Control \/ "control" \in CapsOf[n]
IsGuardian(n) == RoleOf[n] = "guardian_agent" \/ "guardian" \in CapsOf[n]

-----------------------------------------------------------------------------
(* Messages.  uid numbers the tool call a message belongs to; the firmware *)
(* has no such number, only the command id, which may repeat.              *)

Target == Node \cup {NoNode}
Uid    == Nat \ {0}

Check    == [kind : {"check"}, id : Id, action : Action, role : RoleName,
             node : Target, safety : Safety, uid : Uid]
Decision == [kind : {"decision"}, id : Id, action : Action, role : RoleName,
             node : Target, safety : Safety, allow : BOOLEAN, uid : Uid]
Command  == [kind : {"command"}, id : Id, action : Action, role : RoleName,
             node : Target, safety : Safety, uid : Uid]
\* The OutputMessage (espagent.output.v1); whether it reports success is left out.
\* whole is FALSE when the JSON was cut
\* at MQTT_PUB_PAYLOAD_SIZE and no longer parses.
Output   == [kind : {"output"}, id : Id, whole : BOOLEAN, uid : Uid]
\* The timeline event named mesh_command_result.
Event    == [kind : {"event"}, id : Id, uid : Uid]
\* Everything else that is published: node events, stateboard updates, the other
\* timeline events.  No handler modelled here acts on one; they matter because they
\* occupy the publish queue.
Note     == [kind |-> "note"]

Message == Check \cup Decision \cup Command \cup Output \cup Event \cup {Note}

\* What the receiving handlers can read back out of a message.
Legible(m) == /\ m.kind = "decision" => m.id \notin LongId
              /\ m.kind = "output" => m.whole

\* output_payload_is_result: schema or type of an OutputMessage, or the event name
\* mesh_command_result, which the plain timeline event carries too.
IsResult(m) == m.kind \in {"output", "event"} /\ Legible(m)

-----------------------------------------------------------------------------
(* Arguments of mesh_send_command. *)

Request == [id : Id, action : Action \cup {"unsupported"}, role : RoleName,
            node : Target, safety : Int, ack : BOOLEAN, async : BOOLEAN,
            reply : BOOLEAN]

\* Lines 308-314: with neither node nor role the role follows from the action.
ResolvedRole(r) ==
    IF r.node # NoNode \/ r.role # NoRole THEN r.role
    ELSE IF r.action \in SensorAction THEN Sensor ELSE Control

\* What the tool refuses before it publishes anything: an action outside the
\* whitelist, a role that is not the one the action needs, a safety level out of
\* range.
Acceptable(r) ==
    /\ r.action \in Action
    /\ r.role # NoRole =>
          \/ r.action \in SensorAction /\ r.role = Sensor
          \/ r.action \in ControlAction /\ r.role = Control
    /\ r.safety \in Safety

\* The verdict of handle_guardian_policy_check: deny unless one branch allows.
PolicyAllows(c) ==
    /\ c.safety <= Medium
    /\ \/ c.action \in SensorAction /\ c.role = Sensor
       \/ c.action \in ControlAction /\ c.role = Control

\* espagent_mesh_parse_command_json: the two target checks.
AcceptsTarget(n, c) ==
    /\ c.node # NoNode => c.node = n
    /\ c.role # NoRole => c.role = RoleOf[n]

\* Mutant: the decision's action is not compared.
DecisionCoversAnyAction(d, n, c) ==
    /\ Legible(d)
    /\ d.allow
    /\ d.role # NoRole => d.role = RoleOf[n]
    /\ d.node # NoNode => d.node = n

\* control_command_has_guardian_allow, given the decision the lookup returned.
DecisionCovers(d, n, c) ==
    /\ Legible(d)
    /\ d.allow
    /\ d.action = c.action
    /\ d.role # NoRole => d.role = RoleOf[n]
    /\ d.node # NoNode => d.node = n
=============================================================================
