--------------------------- MODULE MCMeshCommand ---------------------------
(* Small instances of MeshCommand: a coordinator, a guardian and one or two *)
(* executing boards.                                                        *)
EXTENDS MeshCommand

CONSTANTS co, gu, ct, se

MCRoleOf == [n \in Node |->
    CASE n = co -> "coordinator_agent" [] n = gu -> "guardian_agent"
      [] n = ct -> Control [] OTHER -> Sensor]

\* The sensor board has the control capability as well, which its role overrides.
MCCapsOf == [n \in Node |->
    CASE n = co -> {"coordinator"} [] n = gu -> {"guardian"}
      [] n = ct -> {"control"} [] OTHER -> {"sensor", "control"}]

\* A synchronous request with an explicit id, aimed at the role the action needs.
Ask(id, action, safety) ==
    [id |-> id, action |-> action, role |-> NoRole, node |-> NoNode,
     safety |-> safety, ack |-> TRUE, async |-> FALSE, reply |-> FALSE]

Light(id, safety) == Ask(id, "set_status_light", safety)
Read(id) == Ask(id, "read_temperature_humidity", 0)
Async(r) == [r EXCEPT !.async = TRUE, !.reply = TRUE]
At(n, r) == [r EXCEPT !.node = n]

\* Commands that share an id, as ids made of the milliseconds since boot do after a
\* reboot: one of them too risky, one with another action and for a board by its name.
SharedIdCalls == {Light("a", 1), Light("a", 2), At(ct, Ask("a", "ws2812_set", 1))}

\* The same light command twice, under two ids, with a background waiter.
FaultCalls == {Async(Light("a", 1)), Async(Light("b", 1))}

\* Everything mesh_send_command can be told about the target, and what it refuses.
TargetCalls ==
    {Read("a"), At(se, [Read("a") EXCEPT !.role = Sensor]),
     At(ct, [Read("a") EXCEPT !.role = Sensor]),
     At(ct, [Light("a", 1) EXCEPT !.role = Control]),
     At(ct, Light("a", 1)), At(se, Light("a", 1)), Light("long", 1),
     [Light("a", 1) EXCEPT !.ack = FALSE],
     [Light("a", 1) EXCEPT !.role = Sensor], Light("a", 3),
     [Light("a", 1) EXCEPT !.action = "unsupported"]}

\* Two readings under one id, the second needing a human confirmation.
ReuseCalls == {Read("a"), [Read("a") EXCEPT !.safety = 2]}

PlainCalls == {Light("a", 1), Ask("b", "ws2812_set", 0)}

\* Every call has its own id, as when the tool generates them.
DistinctIds == \A u, v \in 1 .. Len(calls) : u # v => calls[u].id # calls[v].id

\* All boards connected, each call under its own id: the setting of SentIsCarriedOut.
SettledInit == Fresh /\ link = [n \in Node |-> "up"]

SettledSpec ==
    /\ SettledInit
    /\ [][Next /\ DistinctIds']_vars
    /\ Fairness
=============================================================================
