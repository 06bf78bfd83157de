------------------------------- MODULE ToolTurn -------------------------------
(***************************************************************************)
(* One turn of the agent from the inside (agent_loop.c, llm_proxy.c,       *)
(* tool_registry.c): the two routes that never ask the model, the rounds   *)
(* of request, reply and tool calls with the conversation they build, the  *)
(* guard before each call, the reply that is sent in the end, and the      *)
(* results of Mesh commands that come back as turns of their own.          *)
(*                                                                         *)
(* A text is the set of the words in it that the code looks for; a word    *)
(* here stands for all the words of the same keyword lists.  Queues,       *)
(* sessions and channels are ChatNode's; the Guardian and the boards are   *)
(* MeshCommand's.                                                          *)
(***************************************************************************)
EXTENDS Naturals, Sequences, FiniteSets, SequencesExt

CONSTANTS
    Ask,            \* the messages people and timers send: [kind, system, words]
    ReplyTools,     \* the lists of tools a reply of the model may call
    Registered,     \* the tools in the registry
    MaxToolCalls,   \* ESPAGENT_MAX_TOOL_CALLS
    MaxIter,        \* ESPAGENT_AGENT_MAX_TOOL_ITER
    MaxAsks,        \* bound: messages taken
    MaxSent,        \* bound: commands the Mesh takes
    MaxSwitches     \* bound: set_provider on the console

ASSUME ToolTurnAssumption ==
    /\ MaxToolCalls \in Nat \ {0} /\ MaxIter \in Nat \ {0}
    /\ MaxAsks \in Nat /\ MaxSent \in Nat /\ MaxSwitches \in Nat
    /\ \A a \in Ask : a.kind \in {"user", "proactive"}
    /\ ReplyTools \subseteq Seq(STRING)

VARIABLES
    provider,   \* s_provider, which the console may change at any time
    turn,       \* msg: the message this turn is about
    step,       \* where the turn is
    conv,       \* messages, from this turn's user message on
    round,      \* iteration
    meshSeen,   \* mesh_related_tool_seen
    fallback,   \* tool_fallback: the turn whose search it holds, 0 for none
    final,      \* final_text
    request,    \* the request in flight: whose format, its messages, where to
    calls,      \* resp.calls
    results,    \* the result blocks made so far
    waits,      \* commands a mesh_wait_task waits for
    replied,       \* what the last reply was made of
    asked, sent, switches

turnVars == <<provider, turn, step, conv, round, meshSeen, fallback, final, request,
              calls, results, waits, replied, asked, sent, switches>>

Provider == {"openai", "anthropic"}
NoText   == "none"

-----------------------------------------------------------------------------
\* What the code looks for in a text.
Says(words, list) == words \cap list # {}

SensorRequest(w)      == \/ Says(w, {"lux", "bh1750"})
                         \/ Says(w, {"light level"}) /\ Says(w, {"read"})
EnvironmentRequest(w) == Says(w, {"environment", "bh1750", "sgp30"})
LightRequest(w)       == Says(w, {"light", "light level"}) /\ ~SensorRequest(w)
AirRequest(w)         == Says(w, {"sgp30"}) \/ (Says(w, {"co2"}) /\ Says(w, {"read"}))
PresenceRequest(w)    == Says(w, {"hc-sr05"}) \/ (Says(w, {"person"}) /\ Says(w, {"read"}))
GpioWriteRequest(w)   == Says(w, {"gpio", "relay"})
GpioReadRequest(w)    == Says(w, {"gpio", "button"})
CronRequest(w)        == Says(w, {"every"})
WeatherRequest(w)     == Says(w, {"rain", "temperature"})
ServoRequest(w)       == Says(w, {"servo"})
ClimateRequest(w)     == Says(w, {"temperature", "humidity"})
LocalMarker(w)        == Says(w, {"local", "coordinator"})
SequenceMarker(w)     == Says(w, {"then"})
Colors(w)             == w \cap {"blue", "red"}

ShouldUseMesh(w) == ClimateRequest(w) \/ LightRequest(w) \/ GpioWriteRequest(w) \/ ServoRequest(w)

MeshTool == {"mesh_send_command", "read_temperature_humidity", "set_status_light",
             "ws2812_set", "gpio_write", "servo_write"}

\* tool_guard_check: may the tool run for this message?
Guard(t, w) ==
    /\ t = "read_environment" => EnvironmentRequest(w)
    /\ t = "read_light_level" => SensorRequest(w)
    /\ t \in {"set_status_light", "ws2812_set"} => LightRequest(w)
    /\ t = "servo_write" => ServoRequest(w)
    /\ t \in {"read_air_quality", "sgp30_read_air_quality"} => AirRequest(w)
    /\ t \in {"read_presence", "hc_sr05_read_distance"} => PresenceRequest(w)
    /\ t = "gpio_write" => GpioWriteRequest(w)
    /\ t \in {"gpio_read", "gpio_read_all"} => GpioReadRequest(w)
    /\ t \in {"cron_add", "cron_list", "cron_remove"} => CronRequest(w)
    /\ t = "get_weather" => WeatherRequest(w)

-----------------------------------------------------------------------------
\* A message of the conversation: the calls the model made, or the calls answered.
Uses(ids)    == [role |-> "assistant", ids |-> ids]
Returns(ids) == [role |-> "user", ids |-> ids]

\* How a message is put into OpenAI's format, where each result is a message of its own.
AsOpenAi(m) ==
    IF m.role = "assistant" THEN <<m>> ELSE [k \in DOMAIN m.ids |-> [role |-> "tool", ids |-> <<m.ids[k]>>]]

Wire(p) == IF p = "openai" THEN FlattenSeq([i \in DOMAIN conv |-> AsOpenAi(conv[i])]) ELSE conv

\* What a model answers: a text, calls, and whether it says that it stopped for them.
ReplyText  == {NoText, "plain", "claim", "nothing"}
Reply == [text : ReplyText, stop : BOOLEAN, tools : ReplyTools]

\* The calls that are kept, each under the id the model gave it (which here ends in the tool).
ToolOf(call) == call[3]
Kept(r) == [k \in 1..(IF Len(r.tools) < MaxToolCalls THEN Len(r.tools) ELSE MaxToolCalls) |->
               <<round, k, r.tools[k]>>]

\* Is the reply one that asks for tools?  OpenAI's also when it only has calls.
ToolUse(p, r) == r.stop \/ (p = "openai" /\ Kept(r) # <<>>)

NoTurn    == [kind |-> "none", system |-> FALSE, words |-> {}]
NoRequest == [as |-> "none", to |-> "none", wire |-> <<>>]
NoReply   == [text |-> NoText, mesh |-> FALSE, called |-> FALSE, from |-> 0, turn |-> 0]

TurnInit ==
    /\ provider \in Provider
    /\ turn = NoTurn /\ step = "idle" /\ conv = <<>> /\ round = 0
    /\ meshSeen = FALSE /\ fallback = 0 /\ final = NoText
    /\ request = NoRequest /\ calls = <<>> /\ results = <<>>
    /\ waits = {} /\ replied = NoReply
    /\ asked = 0 /\ sent = {} /\ switches = 0

-----------------------------------------------------------------------------
(***************************************************************************)
(* A turn begins, with a message from the bus: one that was asked, or the  *)
(* result of a command, whose text has the command's words in it.  The     *)
(* whole OutputMessage names its recipient, the coordinator; the event     *)
(* that the search may find in its place does not (MeshCommand).           *)
(***************************************************************************)
MessageTaken(m) ==
    /\ step = "idle"
    /\ turn' = m /\ step' = "route" /\ asked' = asked + 1
    /\ meshSeen' = FALSE /\ fallback' = 0
    /\ UNCHANGED <<provider, conv, round, final, request, calls, results, replied, sent, switches>>

AskArrives(a) == asked < MaxAsks /\ MessageTaken(a) /\ UNCHANGED waits

ResultForm == {"output", "event", "timeout"}

ResultWords(c, form) ==
    IF c.action = "read_temperature_humidity" THEN {"temperature", "humidity"}
    ELSE {"light"} \cup (IF form = "timeout" THEN {} ELSE c.colors)
                   \cup (IF form = "output" THEN {"coordinator"} ELSE {})

ResultArrives(c, form) ==
    /\ MessageTaken([kind |-> "result", system |-> FALSE, words |-> ResultWords(c, form)])
    /\ waits' = waits \ {c}

\* The full inbound queue refuses the result, and it is freed.
ResultDropped(c) ==
    /\ waits' = waits \ {c}
    /\ UNCHANGED <<provider, turn, step, conv, round, meshSeen, fallback, final, request,
                   calls, results, replied, asked, sent, switches>>

-----------------------------------------------------------------------------
\* The routes that do not ask the model.
Routed == ~turn.system /\ ~LocalMarker(turn.words)

\* try_execute_deterministic_light_workflow: the automation engine gets the steps.
WorkflowRoute == Routed /\ LightRequest(turn.words) /\ SequenceMarker(turn.words)
                        /\ Cardinality(Colors(turn.words)) >= 2

ClimateRoute == Routed /\ ClimateRequest(turn.words) /\ ~WeatherRequest(turn.words)
LightRoute   == Routed /\ ~ClimateRoute /\ LightRequest(turn.words) /\ Colors(turn.words) # {}
MeshRoute    == ~WorkflowRoute /\ (ClimateRoute \/ LightRoute)

Command(by) ==
    [action |-> IF ClimateRequest(turn.words) /\ ~LightRoute THEN "read_temperature_humidity" ELSE "set_status_light",
     colors |-> Colors(turn.words), by |-> by, about |-> turn.kind, n |-> Cardinality(sent)]

\* mesh_send_command in the background: the Mesh takes the command, and a task waits.
MeshTakes(by) ==
    /\ Cardinality(sent) < MaxSent
    /\ sent' = sent \cup {Command(by)}
    /\ waits' = waits \cup {Command(by)}

MeshRefuses == UNCHANGED <<sent, waits>>

TakesRoute ==
    /\ step = "route" /\ (WorkflowRoute \/ MeshRoute)
    /\ IF WorkflowRoute THEN MeshRefuses ELSE MeshTakes("route") \/ MeshRefuses
    /\ final' = "route" /\ step' = "reply"
    /\ UNCHANGED <<provider, turn, conv, round, meshSeen, fallback, request, calls, results,
                   replied, asked, switches>>

AsksModel ==
    /\ step = "route" /\ ~WorkflowRoute /\ ~MeshRoute
    /\ step' = "build"
    /\ UNCHANGED <<provider, turn, conv, round, meshSeen, fallback, final, request, calls,
                   results, waits, replied, asked, sent, switches>>

-----------------------------------------------------------------------------
\* llm_chat_tools: the body in the provider's format, ...
RequestBuilt ==
    /\ step = "build" /\ round < MaxIter
    /\ request' = [as |-> provider, to |-> "none", wire |-> Wire(provider)]
    /\ step' = "send"
    /\ UNCHANGED <<provider, turn, conv, round, meshSeen, fallback, final, calls, results,
                   waits, replied, asked, sent, switches>>

\* ... the address read again, by then perhaps another provider's, ...
RequestSent ==
    /\ step = "send"
    /\ request' = [request EXCEPT !.to = provider]
    /\ step' = "wait"
    /\ UNCHANGED <<provider, turn, conv, round, meshSeen, fallback, final, calls, results,
                   waits, replied, asked, sent, switches>>

\* ... no key, no answer, one that is cut off or one that is an error.
RequestFails ==
    /\ step \in {"build", "send", "wait"} /\ step' = "reply"
    /\ request' = NoRequest
    /\ UNCHANGED <<provider, turn, conv, round, meshSeen, fallback, final, calls, results,
                   waits, replied, asked, sent, switches>>

\* Mutant: a claim without a call is passed on.
SaidAsIs(r) == r.text

\* ... a text: a claim of a dispatch that no tool call stands behind is replaced.
Said(r) == IF r.text = "claim" /\ ~meshSeen /\ ShouldUseMesh(turn.words) THEN "plain" ELSE r.text

TextReceived(r) ==
    /\ final' = Said(r)
    /\ step' = "reply"
    /\ UNCHANGED <<conv, meshSeen, calls, results>>

\* Mutant: the message of the assistant has all the calls of the reply.
CallsReceivedAll(r) ==
    /\ calls' = Kept(r) /\ results' = <<>>
    /\ meshSeen' = (meshSeen \/ \E k \in DOMAIN Kept(r) : ToolOf(Kept(r)[k]) \in MeshTool)
    /\ conv' = Append(conv, Uses([k \in DOMAIN r.tools |-> <<round, k, r.tools[k]>>]))
    /\ step' = "tools"
    /\ UNCHANGED final

\* ... or calls, which go into the conversation before they are carried out.
CallsReceived(r) ==
    /\ calls' = Kept(r) /\ results' = <<>>
    /\ meshSeen' = (meshSeen \/ \E k \in DOMAIN Kept(r) : ToolOf(Kept(r)[k]) \in MeshTool)
    /\ conv' = Append(conv, Uses(Kept(r)))
    /\ step' = "tools"
    /\ UNCHANGED final

\* The format of the reply is taken to be that of the provider of this moment; the other's has
\* neither a text nor calls.
ReplyReceived(r) ==
    /\ step = "wait" /\ request.to = request.as
    /\ LET read == IF provider = request.to THEN r ELSE [text |-> NoText, stop |-> FALSE, tools |-> <<>>]
       IN  IF ToolUse(provider, read) THEN CallsReceived(read) ELSE TextReceived(read)
    /\ request' = NoRequest
    /\ UNCHANGED <<provider, turn, round, fallback, waits, replied, asked, sent, switches>>

-----------------------------------------------------------------------------
\* build_tool_results: the next call is refused by the guard, unknown, or carried out.
NextCall == calls[Len(results) + 1]

Answered == results' = Append(results, NextCall)

ToolBlocked ==
    /\ ~Guard(ToolOf(NextCall), turn.words)
    /\ Answered /\ UNCHANGED fallback /\ MeshRefuses

\* (A tool that waits for its own Mesh command is over when it returns: no task waits on.)
ToolExecuted ==
    /\ Guard(ToolOf(NextCall), turn.words)
    /\ Answered
    /\ fallback' = IF ToolOf(NextCall) = "web_search" THEN asked ELSE fallback
    /\ \/ ToolOf(NextCall) = "mesh_send_command" /\ ToolOf(NextCall) \in Registered /\ MeshTakes("model")
       \/ MeshRefuses

ToolRuns ==
    /\ step = "tools" /\ Len(results) < Len(calls)
    /\ ToolBlocked \/ ToolExecuted
    /\ UNCHANGED <<provider, turn, step, conv, round, meshSeen, final, request, calls, replied,
                   asked, switches>>

ToolsDone ==
    /\ step = "tools" /\ Len(results) = Len(calls)
    /\ conv' = Append(conv, Returns(results))
    /\ calls' = <<>> /\ results' = <<>>
    /\ round' = round + 1
    /\ step' = "build"
    /\ UNCHANGED <<provider, turn, meshSeen, fallback, final, request, waits, replied, asked,
                   sent, switches>>

RoundsEnd ==
    /\ step = "build" /\ round >= MaxIter
    /\ step' = "reply"
    /\ UNCHANGED <<provider, turn, conv, round, meshSeen, fallback, final, request, calls,
                   results, waits, replied, asked, sent, switches>>

-----------------------------------------------------------------------------
\* A tool of the Mesh was called in this turn.
Called == \E i \in DOMAIN conv : \E k \in DOMAIN conv[i].ids : ToolOf(conv[i].ids[k]) \in MeshTool

\* The reply: the text, or what a search of this turn found, or an apology; a proactive turn
\* may have nothing to say.
Replies ==
    /\ step = "reply"
    /\ replied' = IF final = "nothing" /\ turn.kind = "proactive" THEN replied
               ELSE [text |-> final, mesh |-> ShouldUseMesh(turn.words), called |-> Called,
                     from |-> IF final = NoText THEN fallback ELSE 0, turn |-> asked]
    /\ step' = "idle"
    /\ turn' = NoTurn /\ conv' = <<>> /\ round' = 0 /\ final' = NoText
    /\ UNCHANGED <<provider, meshSeen, fallback, request, calls, results, waits, asked, sent,
                   switches>>

\* set_provider on the console.
ProviderSet(p) ==
    /\ switches < MaxSwitches /\ p # provider
    /\ provider' = p /\ switches' = switches + 1
    /\ UNCHANGED <<turn, step, conv, round, meshSeen, fallback, final, request, calls,
                   results, waits, replied, asked, sent>>

AgentStep ==
    \/ TakesRoute \/ AsksModel \/ RequestBuilt \/ RequestSent \/ RequestFails
    \/ \E r \in Reply : ReplyReceived(r)
    \/ ToolRuns \/ ToolsDone \/ RoundsEnd \/ Replies

TurnNext ==
    \/ AgentStep
    \/ \E a \in Ask : AskArrives(a)
    \/ \E c \in waits : ResultDropped(c) \/ \E form \in ResultForm : ResultArrives(c, form)
    \/ \E p \in Provider : ProviderSet(p)

TurnFair == WF_turnVars(AgentStep)

TurnSpec == TurnInit /\ [][TurnNext]_turnVars /\ TurnFair

-----------------------------------------------------------------------------
TurnTypeOK ==
    /\ provider \in Provider
    /\ step \in {"idle", "route", "build", "send", "wait", "tools", "reply"}
    /\ turn.kind \in {"none", "user", "proactive", "result"}
    /\ round \in 0..MaxIter /\ fallback \in 0..asked
    /\ Len(calls) <= MaxToolCalls /\ Len(results) <= Len(calls)
    /\ waits \subseteq sent

\* In every request, in either provider's format, each message with tool calls is followed by the
\* results of exactly these calls in their order, blocked and failed ones included: both services
\* refuse a conversation in which a call is left without an answer (build_assistant_content,
\* build_tool_results, convert_messages_openai).
EveryCallAnswered ==
    \A i \in DOMAIN request.wire :
        LET m == request.wire[i]
        IN  m.role = "assistant" =>
                IF request.as = "anthropic"
                THEN i < Len(request.wire) /\ request.wire[i + 1] = Returns(m.ids)
                ELSE \A k \in DOMAIN m.ids :
                        i + k <= Len(request.wire) /\ request.wire[i + k] = [role |-> "tool", ids |-> <<m.ids[k]>>]

\* What a reply says was done was done in its own turn: one that claims a dispatch over the Mesh,
\* to a message that asks for one, belongs to a turn in which a tool of the Mesh was called
\* (final_text_is_unexecuted_mesh_claim), and search results that are sent in place of a failed
\* answer are from a search of the same turn (tool_fallback, one buffer for all turns).
ReplyIsOwn ==
    /\ replied.text = "claim" /\ replied.mesh => replied.called
    /\ replied.from \in {0, replied.turn}

\* What the injected text asks for: no command is sent for the result of a command, here by the
\* route that does not ask the model (tool_mesh_command.c:219).
ResultNotSentAgain == \A c \in sent : c.about = "result" => c.by # "route"
=============================================================================
