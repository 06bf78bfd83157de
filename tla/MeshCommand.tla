----------------------------- MODULE MeshCommand -----------------------------
(***************************************************************************)
(* One mesh command, end to end: a task of the coordinator board calls     *)
(* mesh_send_command; the tool asks the Guardian board over MQTT, waits    *)
(* for its decision, publishes the command, and a result comes back from   *)
(* the board that executed it.  Every board runs sensor_mqtt_task, whose   *)
(* loop handles one inbound packet and then drains the publish queue;      *)
(* boards lose their broker connection, reconnect with a clean session,    *)
(* and reboot.                                                             *)
(*                                                                         *)
(* The broker delivers at QoS 0: a published message goes at once, in      *)
(* order, to every connected subscriber, and to nobody else ever.          *)
(***************************************************************************)
EXTENDS MeshProtocol, RingCache, FiniteSets

CONSTANTS Coord,        \* the board the tool runs on
          Caller,       \* its tasks that call the tool: agent_loop, rule_task, ...
          CallSet,      \* the requests those tasks make
          PubDepth,     \* MQTT_PUB_QUEUE_DEPTH
          PolicyDepth,  \* MQTT_POLICY_CACHE_DEPTH
          OutputDepth,  \* MQTT_OUTPUT_CACHE_DEPTH
          MaxCalls,     \* bound: tool calls
          MaxBreaks,    \* bound: connection losses
          MaxReboots    \* bound: reboots

ASSUME CommandAssumption ==
    /\ Coord \in Node
    /\ CallSet \subseteq Request
    /\ PubDepth \in Nat \ {0}
    /\ PolicyDepth \in Nat \ {0}
    /\ OutputDepth \in Nat \ {0}
    /\ MaxCalls \in Nat /\ MaxBreaks \in Nat /\ MaxReboots \in Nat

VARIABLES
    link,        \* per board: "up", "broken" (not noticed yet), "connecting"
    pubq,        \* per board: s_pub_queue
    inbox,       \* per board: what the broker sent and the task has not read
    policyRing,  \* per board: s_policy_cache
    outputRing,  \* s_output_cache of the coordinator
    tool,        \* per caller: where its tool call stands
    waiters,     \* the running mesh_wait_tasks
    calls,       \* history: the requests made, in order; the index is the uid
    told,        \* history: what the tool returned for each uid
    answers,     \* history: the message each waiting caller or waiter was given
    issued,      \* history: the Guardian's decisions
    executed,    \* history: what sensor and control boards carried out, in order
    breaks, reboots

netVars  == <<link, pubq, inbox>>
toolVars == <<tool, waiters, calls, told, answers>>
histVars == <<issued, executed>>
vars == <<netVars, policyRing, outputRing, toolVars, histVars, breaks, reboots>>

Idle == [pc |-> "idle"]
Busy == [pc : {"policy", "result"}, uid : Uid, looked : BOOLEAN]

Outcome == {"none", "rejected", "blocked", "queueError", "queued", "completed",
            "timedOut"}
Execution == [board : Node, id : Id, action : Action, safety : Safety, uid : Uid]
Answer == [uid : Uid, kind : {"output", "event", "timeout"}, by : Uid]

\* Which rings are ever looked up: the tool's own and those of control boards.
UsesPolicyRing(n) == n = Coord \/ IsControl(n)

\* Everything but the connections.
Fresh ==
    /\ pubq = [n \in Node |-> <<>>]
    /\ inbox = [n \in Node |-> <<>>]
    /\ policyRing = [n \in Node |-> EmptyRing]
    /\ outputRing = EmptyRing
    /\ tool = [c \in Caller |-> Idle]
    /\ waiters = {}
    /\ calls = <<>>
    /\ told = <<>>
    /\ answers = {}
    /\ issued = {}
    /\ executed = <<>>
    /\ breaks = 0
    /\ reboots = 0

Init == Fresh /\ link = [n \in Node |-> "connecting"]

-----------------------------------------------------------------------------
(* The publish queue: xQueueSend with no wait, so what does not fit is lost. *)

Room(q) == PubDepth - Len(q)

\* Mutant: the queue grows instead of refusing.
PushAllUnbounded(q, ms) == q \o ms

PushAll(q, ms) ==
    IF Len(ms) <= Room(q) THEN q \o ms ELSE q \o SubSeq(ms, 1, Room(q))

\* sensor_mqtt_publish_timeline_event: the event and a stateboard update.
TimelineNote == <<Note, Note>>

\* publish_mesh_command_result: the OutputMessage on the node's events topic and
\* on the timeline, a stateboard update, the timeline event, another update.
ResultOutput(c, whole) ==
    [kind |-> "output", id |-> c.id, whole |-> whole, uid |-> c.uid]

ResultBurst(c, whole) ==
    << Note,
       ResultOutput(c, whole),
       Note,
       [kind |-> "event", id |-> c.id, uid |-> c.uid],
       Note >>

-----------------------------------------------------------------------------
(* What the broker relays, and the second half of the loop of              *)
(* sensor_mqtt_task: draining the publish queue.                           *)

\* The boards on which a message has an effect: they subscribe to its topic and the
\* handler does more than log it.  A command goes to the topic of its target node,
\* or to that of its target role.
Concerns(n, m) ==
    \/ m.kind = "check" /\ IsGuardian(n)
    \/ m.kind = "decision" /\ UsesPolicyRing(n)
    \/ m.kind \in {"output", "event"} /\ n = Coord
    \/ m.kind = "command" /\ m.node = n
    \/ m.kind = "command" /\ m.node = NoNode /\ m.role = RoleOf[n]

\* Positions of the messages in s that concern board n.
Mine(n, s) == {i \in DOMAIN s : Concerns(n, s[i])}

\* What a drained queue adds to the inbox of board n: nothing, or the messages up to
\* the last that concerns it (the others are skipped when they are read).
ForBoard(n, s) ==
    IF link[n] # "up" \/ Mine(n, s) = {} THEN <<>>
    ELSE SubSeq(s, 1, CHOOSE i \in Mine(n, s) : \A j \in Mine(n, s) : j <= i)

\* Board n, whose task has left unread what it has not read yet, sends s.
Deliver(n, unread, s) ==
    [k \in Node |-> (IF k = n THEN unread ELSE inbox[k]) \o ForBoard(k, s)]

\* mqtt_flush_queued_publishes on the queue q.  A write on a dead connection fails and
\* the item is gone; that is noticed only when the periodic publish falls due.
DrainUp(n, unread, q) ==
    /\ link[n] = "up"
    /\ inbox' = Deliver(n, unread, q)
    /\ UNCHANGED <<link, breaks>>

DrainCut(n, unread, q) ==
    /\ link[n] = "up" /\ breaks < MaxBreaks
    /\ \E i \in 0 .. Len(q) : inbox' = Deliver(n, unread, SubSeq(q, 1, i))
    /\ link' = [link EXCEPT ![n] = "broken"]
    /\ breaks' = breaks + 1

DrainDead(n, unread) ==
    /\ link[n] = "broken"
    /\ \/ inbox' = [inbox EXCEPT ![n] = unread] /\ UNCHANGED link
       \/ /\ inbox' = [inbox EXCEPT ![n] = <<>>]
          /\ link' = [link EXCEPT ![n] = "connecting"]
    /\ UNCHANGED breaks

\* Mutant: what could not be sent for certain stays queued and is sent again.
DrainWithRetry(n, unread, q) ==
    /\ DrainUp(n, unread, q) \/ DrainCut(n, unread, q) \/ DrainDead(n, unread)
    /\ pubq' = [pubq EXCEPT ![n] = IF link'[n] = "up" THEN <<>> ELSE q]

Drain(n, unread, q) ==
    /\ pubq' = [pubq EXCEPT ![n] = <<>>]
    /\ DrainUp(n, unread, q) \/ DrainCut(n, unread, q) \/ DrainDead(n, unread)

-----------------------------------------------------------------------------
(* The first half: at most one inbound packet is handled.                  *)

\* handle_guardian_policy_check
DecisionOn(m) ==
    [kind |-> "decision", id |-> m.id, action |-> m.action, role |-> m.role,
     node |-> m.node, safety |-> m.safety, allow |-> PolicyAllows(m), uid |-> m.uid]

HandleCheck(n, m, unread) ==
    /\ m.kind = "check"
    /\ issued' = issued \cup {DecisionOn(m)}
    /\ Drain(n, unread, PushAll(pubq[n], <<DecisionOn(m), Note>> \o TimelineNote))
    /\ UNCHANGED <<policyRing, outputRing, executed>>

\* policy_cache_maybe_store_payload
HandleDecision(n, m, unread) ==
    /\ m.kind = "decision"
    /\ policyRing' = [policyRing EXCEPT ![n] = RingPut(@, m, PolicyDepth)]
    /\ Drain(n, unread, pubq[n])
    /\ UNCHANGED <<outputRing, issued, executed>>

\* output_cache_maybe_store_payload, for what arrives on the timeline topic.
HandleTimeline(n, m, unread) ==
    /\ m.kind \in {"output", "event"}
    /\ outputRing' = IF IsResult(m) THEN RingPut(outputRing, m, OutputDepth) ELSE outputRing
    /\ Drain(n, unread, pubq[n])
    /\ UNCHANGED <<policyRing, issued, executed>>

\* control_command_has_guardian_allow.  The lookup runs in the task that fills the
\* ring, so waiting 300 ms cannot make a decision appear: one look decides.
HasGuardianAllow(n, c) ==
    /\ RingHas(policyRing[n], c.id)
    /\ DecisionCovers(RingFirst(policyRing[n], c.id), n, c)

Executes(n, c) ==
    executed' = Append(executed, [board |-> n, id |-> c.id, action |-> c.action,
                                  safety |-> c.safety, uid |-> c.uid])

\* publish_mesh_command_result.  The OutputMessage also goes into the board's own
\* output cache, which only the coordinator ever looks at.
PublishResult(n, c, unread, whole) ==
    /\ Drain(n, unread, PushAll(pubq[n], ResultBurst(c, whole)))
    /\ outputRing' = IF n = Coord
                     THEN RingPut(outputRing, ResultOutput(c, whole), OutputDepth)
                     ELSE outputRing

TakenAsReading(n, c) == IsSensor(n) /\ c.action \in SensorAction

\* handle_sensor_mesh_command.  Whether the reading succeeds is left out; the text of
\* the result may be too long for the OutputMessage.
SensorCommand(n, c, unread) ==
    /\ TakenAsReading(n, c)
    /\ Executes(n, c)
    /\ \E whole \in BOOLEAN : PublishResult(n, c, unread, whole)

\* handle_control_mesh_command, first two branches.  The text of a refusal fills
\* the OutputMessage three times over; it never fits when no decision was found.
ControlRefusal(n, c, unread) ==
    /\ ~TakenAsReading(n, c)
    /\ IsControl(n)
    /\ ~HasGuardianAllow(n, c) \/ c.safety > Medium
    /\ \E whole \in BOOLEAN :
          /\ whole => RingHas(policyRing[n], c.id)
          /\ PublishResult(n, c, unread, whole)
    /\ UNCHANGED executed

ControlCommand(n, c, unread) ==
    /\ ~TakenAsReading(n, c)
    /\ IsControl(n)
    /\ HasGuardianAllow(n, c)
    /\ c.safety <= Medium
    /\ c.action \in ControlAction
    /\ Executes(n, c)
    /\ \E whole \in BOOLEAN : PublishResult(n, c, unread, whole)

\* Not for this board, or no handler took it.
CommandIgnored(n, c, unread) ==
    /\ \/ ~AcceptsTarget(n, c)
       \/ /\ ~TakenAsReading(n, c)
          /\ \/ ~IsControl(n)
             \/ /\ HasGuardianAllow(n, c)
                /\ c.safety <= Medium
                /\ c.action \notin ControlAction
    /\ Drain(n, unread, pubq[n])
    /\ UNCHANGED <<outputRing, executed>>

HandleCommand(n, m, unread) ==
    /\ m.kind = "command"
    /\ \/ /\ AcceptsTarget(n, m)
          /\ \/ SensorCommand(n, m, unread)
             \/ ControlRefusal(n, m, unread)
             \/ ControlCommand(n, m, unread)
       \/ CommandIgnored(n, m, unread)
    /\ UNCHANGED <<policyRing, issued>>

\* One iteration of the loop with nothing to read.
QuietTurn(n) ==
    /\ link[n] \in {"up", "broken"}
    /\ Mine(n, inbox[n]) = {}
    /\ Drain(n, <<>>, pubq[n])
    /\ UNCHANGED <<policyRing, outputRing, toolVars, histVars, reboots>>

\* One iteration that reads a packet.
Turn(n) ==
    /\ link[n] \in {"up", "broken"}
    /\ \E i \in Mine(n, inbox[n]) :
          LET m == inbox[n][i]
              unread == SubSeq(inbox[n], i + 1, Len(inbox[n]))
          IN  /\ \A j \in Mine(n, inbox[n]) : i <= j
              /\ \/ HandleCheck(n, m, unread)
                 \/ HandleDecision(n, m, unread)
                 \/ HandleTimeline(n, m, unread)
                 \/ HandleCommand(n, m, unread)
    /\ UNCHANGED <<toolVars, reboots>>

-----------------------------------------------------------------------------
(* Connecting and failing. *)

\* Connect and subscribe, with the clean-session flag: nothing was kept for us.
Connect(n) ==
    /\ link[n] = "connecting"
    /\ link' = [link EXCEPT ![n] = "up"]
    /\ UNCHANGED <<pubq, inbox, policyRing, outputRing, toolVars, histVars, breaks, reboots>>

\* The connection dies between two turns.  Some prefix of what was sent has arrived.
Break(n) ==
    /\ breaks < MaxBreaks
    /\ link[n] = "up"
    /\ breaks' = breaks + 1
    /\ link' = [link EXCEPT ![n] = "broken"]
    /\ \E k \in {0} \cup Mine(n, inbox[n]) : inbox' = [inbox EXCEPT ![n] = SubSeq(@, 1, k)]
    /\ UNCHANGED <<pubq, policyRing, outputRing, toolVars, histVars, reboots>>

\* Everything but the history is RAM.
Reboot(n) ==
    /\ reboots < MaxReboots
    /\ reboots' = reboots + 1
    /\ link' = [link EXCEPT ![n] = "connecting"]
    /\ pubq' = [pubq EXCEPT ![n] = <<>>]
    /\ inbox' = [inbox EXCEPT ![n] = <<>>]
    /\ policyRing' = [policyRing EXCEPT ![n] = EmptyRing]
    /\ IF n = Coord
       THEN /\ outputRing' = EmptyRing
            /\ tool' = [c \in Caller |-> Idle]
            /\ waiters' = {}
       ELSE UNCHANGED <<outputRing, tool, waiters>>
    /\ UNCHANGED <<calls, told, answers, histVars, breaks>>

-----------------------------------------------------------------------------
(* tool_mesh_send_command_execute, cut where it waits.                     *)

Tell(uid, what) == told' = [told EXCEPT ![uid] = what]

CheckFor(r, uid) ==
    [kind |-> "check", id |-> r.id, action |-> r.action, role |-> ResolvedRole(r),
     node |-> r.node, safety |-> r.safety, uid |-> uid]

CommandFor(r, uid) ==
    [kind |-> "command", id |-> r.id, action |-> r.action, role |-> ResolvedRole(r),
     node |-> r.node, safety |-> r.safety, uid |-> uid]

\* Validation failed: the tool returns an error and has published nothing.
CallRejected(c) ==
    /\ tool[c] = Idle /\ Len(calls) < MaxCalls
    /\ \E r \in CallSet :
          /\ ~Acceptable(r)
          /\ calls' = Append(calls, r)
          /\ told' = Append(told, "rejected")
    /\ UNCHANGED <<netVars, policyRing, outputRing, tool, waiters, answers, histVars,
                   breaks, reboots>>

\* Up to the first wait: policy_check is queued, or the queue is full and the call
\* ends as blocked.
Call(c) ==
    /\ tool[c] = Idle /\ Len(calls) < MaxCalls
    /\ \E r \in CallSet :
          /\ Acceptable(r)
          /\ calls' = Append(calls, r)
          /\ IF Room(pubq[Coord]) > 0
             THEN /\ pubq' = [pubq EXCEPT ![Coord] = Append(@, CheckFor(r, Len(calls) + 1))]
                  /\ tool' = [tool EXCEPT ![c] =
                                 [pc |-> "policy", uid |-> Len(calls) + 1, looked |-> FALSE]]
                  /\ told' = Append(told, "none")
             ELSE /\ pubq' = [pubq EXCEPT ![Coord] = PushAll(@, TimelineNote)]
                  /\ told' = Append(told, "blocked")
                  /\ UNCHANGED tool
    /\ UNCHANGED <<link, inbox, policyRing, outputRing, waiters, answers, histVars,
                   breaks, reboots>>

InWait(c, pc) == tool[c].pc = pc

\* The id of the command a caller is waiting for.
IdOf(uid) == calls[uid].id

\* The wait loops look before they sleep, and give up without a last look.
LookInVain(c) ==
    /\ \/ InWait(c, "policy") /\ ~RingHas(policyRing[Coord], IdOf(tool[c].uid))
       \/ InWait(c, "result") /\ ~RingHas(outputRing, IdOf(tool[c].uid))
    /\ ~tool[c].looked
    /\ tool' = [tool EXCEPT ![c].looked = TRUE]
    /\ UNCHANGED <<netVars, policyRing, outputRing, waiters, calls, told, answers, histVars,
                   breaks, reboots>>

\* The first decision stored for the command id, whatever request it answered.
Approved(c) ==
    /\ RingHas(policyRing[Coord], IdOf(tool[c].uid))
    /\ LET d == RingFirst(policyRing[Coord], IdOf(tool[c].uid)) IN Legible(d) /\ d.allow

\* Mutant: the tool reports the timeout and goes on to publish the command.
PolicyBlockedButSent(c) ==
    /\ InWait(c, "policy")
    /\ tool[c].looked
    /\ pubq' = [pubq EXCEPT ![Coord] =
                   PushAll(@, <<CommandFor(calls[tool[c].uid], tool[c].uid)>>)]
    /\ tool' = [tool EXCEPT ![c] = Idle]
    /\ Tell(tool[c].uid, "blocked")
    /\ UNCHANGED <<link, inbox, policyRing, outputRing, waiters, calls, answers,
                   histVars, breaks, reboots>>

\* Mutant: the wait for the decision has no deadline.
PolicyBlockedOnlyByAnswer(c) ==
    /\ InWait(c, "policy")
    /\ RingHas(policyRing[Coord], IdOf(tool[c].uid)) /\ ~Approved(c)
    /\ pubq' = [pubq EXCEPT ![Coord] = PushAll(@, TimelineNote)]
    /\ tool' = [tool EXCEPT ![c] = Idle]
    /\ Tell(tool[c].uid, "blocked")
    /\ UNCHANGED <<link, inbox, policyRing, outputRing, waiters, calls, answers,
                   histVars, breaks, reboots>>

\* No decision in time, or one that is not a readable allow: the tool says why on
\* the timeline and returns; the command is never published.
PolicyBlocked(c) ==
    /\ InWait(c, "policy")
    /\ \/ tool[c].looked
       \/ RingHas(policyRing[Coord], IdOf(tool[c].uid)) /\ ~Approved(c)
    /\ pubq' = [pubq EXCEPT ![Coord] = PushAll(@, TimelineNote)]
    /\ tool' = [tool EXCEPT ![c] = Idle]
    /\ Tell(tool[c].uid, "blocked")
    /\ UNCHANGED <<link, inbox, policyRing, outputRing, waiters, calls, answers,
                   histVars, breaks, reboots>>

\* An allow was found.  The approval goes on the timeline, then the command itself
\* is queued, then that fact goes on the timeline; with ack the tool waits for the
\* result itself or leaves that to a mesh_wait_task.
AfterApproval == PushAll(pubq[Coord], TimelineNote)

CommandQueueFull(c) ==
    /\ InWait(c, "policy") /\ Approved(c)
    /\ Room(AfterApproval) = 0
    /\ pubq' = [pubq EXCEPT ![Coord] = PushAll(AfterApproval, TimelineNote)]
    /\ tool' = [tool EXCEPT ![c] = Idle]
    /\ Tell(tool[c].uid, "queueError")
    /\ UNCHANGED <<link, inbox, policyRing, outputRing, waiters, calls, answers,
                   histVars, breaks, reboots>>

SendCommand(c) ==
    /\ InWait(c, "policy") /\ Approved(c)
    /\ Room(AfterApproval) > 0
    /\ LET uid == tool[c].uid
           r   == calls[uid]
       IN  /\ pubq' = [pubq EXCEPT ![Coord] =
                          PushAll(Append(AfterApproval, CommandFor(r, uid)), TimelineNote)]
           /\ \/ /\ r.ack /\ ~r.async
                 /\ tool' = [tool EXCEPT ![c] = [pc |-> "result", uid |-> uid, looked |-> FALSE]]
                 /\ UNCHANGED <<waiters, told>>
              \/ /\ ~r.ack
                 /\ tool' = [tool EXCEPT ![c] = Idle]
                 /\ Tell(uid, "queued")
                 /\ UNCHANGED waiters
              \/ /\ r.ack /\ r.async
                 /\ tool' = [tool EXCEPT ![c] = Idle]
                 /\ Tell(uid, "queued")
                 /\ waiters' \in {waiters,   \* xTaskCreate may fail
                                  waiters \cup {[uid |-> uid, looked |-> FALSE]}}
    /\ UNCHANGED <<link, inbox, policyRing, outputRing, calls, answers, histVars,
                   breaks, reboots>>

AnswerFrom(uid, m) == [uid |-> uid, kind |-> m.kind, by |-> m.uid]

\* The synchronous wait ends, with a result or without; both return ESP_OK.
ResultFound(c) ==
    /\ InWait(c, "result")
    /\ RingHas(outputRing, IdOf(tool[c].uid))
    /\ answers' = answers \cup
          {AnswerFrom(tool[c].uid, RingFirst(outputRing, IdOf(tool[c].uid)))}
    /\ tool' = [tool EXCEPT ![c] = Idle]
    /\ Tell(tool[c].uid, "completed")
    /\ UNCHANGED <<netVars, policyRing, outputRing, waiters, calls, histVars, breaks, reboots>>

ResultTimeout(c) ==
    /\ InWait(c, "result") /\ tool[c].looked
    /\ tool' = [tool EXCEPT ![c] = Idle]
    /\ Tell(tool[c].uid, "timedOut")
    /\ UNCHANGED <<netVars, policyRing, outputRing, waiters, calls, answers, histVars,
                   breaks, reboots>>

\* mesh_wait_task: the result, or the timeout, goes on the timeline, and into the
\* inbound bus as an internal message when the request named a chat to answer; a
\* full bus loses it.
WaiterLooksInVain(w) ==
    /\ ~RingHas(outputRing, IdOf(w.uid))
    /\ ~w.looked
    /\ waiters' = (waiters \ {w}) \cup {[w EXCEPT !.looked = TRUE]}
    /\ UNCHANGED <<netVars, policyRing, outputRing, tool, calls, told, answers, histVars,
                   breaks, reboots>>

WaiterReports(w, a) ==
    /\ waiters' = waiters \ {w}
    /\ pubq' = [pubq EXCEPT ![Coord] = PushAll(@, TimelineNote)]
    /\ answers' \in IF calls[w.uid].reply THEN {answers, answers \cup {a}} ELSE {answers}
    /\ UNCHANGED <<link, inbox, policyRing, outputRing, tool, calls, told, histVars,
                   breaks, reboots>>

WaiterFound(w) ==
    /\ RingHas(outputRing, IdOf(w.uid))
    /\ WaiterReports(w, AnswerFrom(w.uid, RingFirst(outputRing, IdOf(w.uid))))

WaiterTimeout(w) ==
    /\ w.looked
    /\ WaiterReports(w, [uid |-> w.uid, kind |-> "timeout", by |-> w.uid])

-----------------------------------------------------------------------------

BoardNext(n) == Turn(n) \/ QuietTurn(n) \/ Connect(n)

Fault(n) == Break(n) \/ Reboot(n)

ToolWait(c) ==
    \/ LookInVain(c) \/ PolicyBlocked(c) \/ CommandQueueFull(c) \/ SendCommand(c)
    \/ ResultFound(c) \/ ResultTimeout(c)

ToolNext(c) == CallRejected(c) \/ Call(c) \/ ToolWait(c)

WaiterStep(w) == WaiterLooksInVain(w) \/ WaiterFound(w) \/ WaiterTimeout(w)

WaiterNext == \E w \in waiters : WaiterStep(w)

Next ==
    \/ \E n \in Node : BoardNext(n) \/ Fault(n)
    \/ \E c \in Caller : ToolNext(c)
    \/ WaiterNext

Spec == Init /\ [][Next]_vars

\* FreeRTOS runs every task; a wait loop ends by its deadline at the latest.
Fairness ==
    /\ \A n \in Node : WF_vars(BoardNext(n))
    /\ \A c \in Caller : WF_vars(ToolWait(c))
    /\ \A u \in 1 .. MaxCalls : WF_vars(\E w \in waiters : w.uid = u /\ WaiterStep(w))

FairSpec == Spec /\ Fairness

-----------------------------------------------------------------------------
(* Properties. *)

\* Types of every variable, and the publish queue never exceeds its depth.
TypeOK ==
    /\ link \in [Node -> {"up", "broken", "connecting"}]
    /\ pubq \in [Node -> Seq(Message)]
    /\ \A n \in Node : Len(pubq[n]) <= PubDepth
    /\ inbox \in [Node -> Seq(Message)]
    /\ DOMAIN policyRing = Node
    /\ \A n \in Node : IsRing(policyRing[n], Decision, PolicyDepth)
    /\ IsRing(outputRing, Output \cup Event, OutputDepth)
    /\ calls \in Seq(Request)
    /\ told \in Seq(Outcome)
    /\ Len(told) = Len(calls)
    /\ tool \in [Caller -> {Idle} \cup Busy]
    /\ \A c \in Caller : tool[c] # Idle => tool[c].uid <= Len(calls)
    /\ \A w \in waiters : w \in [uid : Uid, looked : BOOLEAN] /\ w.uid <= Len(calls)
    /\ answers \subseteq Answer
    /\ issued \subseteq Decision
    /\ executed \in Seq(Execution)
    /\ breaks \in Nat /\ reboots \in Nat

\* The decisions ds under which a board may carry out execution e: the Guardian allowed
\* a command with that id, and before an actuator moves it was one with this action,
\* for this board's role, and for this board or any.
PermittedBy(ds, e) ==
    \E d \in ds :
       /\ d.allow /\ d.id = e.id
       /\ e.action \in ControlAction => /\ d.action = e.action
                                        /\ d.role = RoleOf[e.board]
                                        /\ d.node \in {NoNode, e.board}
                                        /\ e.safety <= Medium

\* Nothing is carried out on any board unless the Guardian allowed it; nothing riskier
\* than medium moves an actuator.  It must survive lost connections, reboots, evicted
\* decisions and repeated ids.
GuardianGate == \A i \in 1 .. Len(executed) : PermittedBy(issued, executed[i])

Gate == INSTANCE CommandGate WITH Verdict <- Decision, Deed <- Execution,
                                  Permits <- PermittedBy,
                                  verdicts <- issued, deeds <- executed

\* The boards together do what CommandGate promises: the decision comes first, and no
\* reconnect or repeated id makes a board carry out the same call twice.
KeepsGate == Gate!Spec

\* The command of a call is on its way to a board.
OnTheWay(uid) ==
    \E n \in Node : \E q \in {pubq[n], inbox[n]} : \E i \in 1 .. Len(q) :
       q[i].kind = "command" /\ q[i].uid = uid

\* A call that was told it failed has failed: a decision that arrives after the tool
\* gave up, or a queue that has room again, never sends the command after all.
FailedNeverSent ==
    \A u \in 1 .. Len(told) : told[u] \in {"rejected", "blocked", "queueError"} =>
       /\ ~OnTheWay(u)
       /\ \A i \in 1 .. Len(executed) : executed[i].uid # u

OwnId(uid) == \A v \in 1 .. Len(calls) : v # uid => IdOf(v) # IdOf(uid)

\* When no other call used the same command id, the result handed to a caller is a
\* result of its own command, however late it comes and whatever was lost before.
ResultIsOwn == \A a \in answers : OwnId(a.uid) => a.by = a.uid

\* docs/ARCHITECTURE.md:129 has the tool continue only when decision=allow: a call whose
\* own check the Guardian denied is never carried out.
DeniedNeverActed ==
    \A i \in 1 .. Len(executed) :
       \A d \in issued : d.uid = executed[i].uid => d.allow

\* A task is busy with the call: the caller or a background waiter.
InProgress(uid) ==
    \/ \E c \in Caller : tool[c] # Idle /\ tool[c].uid = uid
    \/ \E w \in waiters : w.uid = uid

Sent(uid) == uid <= Len(told) /\ told[uid] \in {"queued", "completed", "timedOut"}

\* mesh_send_command always returns and its background waiter always ends, whatever was
\* lost, refused or rebooted on the way.
CallsReturn == \A u \in 1 .. MaxCalls : InProgress(u) ~> ~InProgress(u)

\* With every board connected and no faults, what the tool reports as sent is carried
\* out: the decision is in the control board's cache when the command comes, no queue
\* on the way is full, no other decision takes its slot.
SentIsCarriedOut ==
    \A u \in 1 .. MaxCalls :
       Sent(u) ~> \E i \in 1 .. Len(executed) : executed[i].uid = u
=============================================================================
