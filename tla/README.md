# A formal model of the ESP32 AgentMesh firmware

The firmware (`src/main`, C on FreeRTOS) turns a handful of ESP32 boards into an
agent mesh. A *coordinator* board talks to people (WebSocket, Feishu, serial
console), to a language model and to the other boards over MQTT; a *guardian*
board decides which commands are allowed; *sensor* and *control* boards carry
commands out. This directory holds TLA+ modules translated from that code, the
TLC configurations that check them, and proofs for TLAPS.

Most of the code is sequential C around a few shared tables; the difficulty lies
where tasks, boards and queues meet. The models keep every state change, guard,
early return and failure path of the parts they cover and abstract texts, JSON
wording, timestamps and hardware to what the properties can tell apart.

## 1. Inventory

| Part (src/main) | State | Operations | What is hard | What makes it correct |
|---|---|---|---|---|
| Mesh command path: `tools/tool_mesh_command.c`, `sensors/sensor_mqtt.c`, `mesh/mesh_protocol.c`, `roles/role_config.c` | per board: MQTT connection, publish queue, decision ring; on the coordinator also the result ring; running waits | `mesh_send_command`, `mesh_wait_task`, one loop of `sensor_mqtt_task`, the handlers of checks, decisions, commands, timeline events | three boards and several tasks at once, QoS 0, dropped bursts, reboots, ids that repeat, waits that time out while the answer travels | nothing runs without the Guardian; nothing runs twice; a failed call has no effect; results reach their own caller; waits end |
| Automation: `automation/automation_engine.c` | rule and workflow slots, `automation.json` | create, remove, `rule_task`, `workflow_task`, load | the rule task works on a copy without the lock for up to a minute, slots change hands, the file is rewritten in place | removed rules stay gone, the memory of actions is true, hysteresis, no slot leaks, no rule starves |
| Message bus: `bus/message_bus.c` | two queues of 16 | push (waits 1 s, then drops), pop | who frees a text when a push fails | each text has one owner |
| Agent loop: `agent/agent_loop.c` | the message in hand, the conversation, the last search results | a turn: routes without the model, requests, tool calls with their guard, save, push | several ways out of a turn, full queues, blocked and failing calls among others, results that come back as turns | each turn ends; what was told is in the history; every call is answered; a reply is of its own turn |
| Language model and tools: `llm/llm_proxy.c`, `tools/tool_registry.c` | provider, settings | a request in either provider's format, dispatch by name | the provider changes while a request is on its way | a conversation that either provider accepts |
| Outbound dispatch: `app/espagent_app.c` | the message in hand | send and free | channels that fail | order, freeing |
| WebSocket gateway: `gateway/ws_server.c` | client table | handshake, message, send | closed sockets leave entries behind, socket numbers are used again, clients rename themselves | answers go where the question came from |
| Feishu: `channels/feishu/feishu_bot.c` | ring of message ids, connection, receive buffer, application and token | frames, acknowledgement tasks, send in parts, reconnect | fragments, redelivery, tasks that come and go, an application changed while sending | one turn per message, nothing acknowledged that was not handled, parts in order |
| Proactive checks and heartbeat: `proactive/proactive_service.c`, `heartbeat/heartbeat.c` | target (RAM and NVS), worker flag | note contact, check, timer, worker | unlocked writes of two strings and two keys | a check goes to a real contact, a reboot keeps it |
| Sessions: `memory/session_mgr.c` | one file of lines per chat, perhaps an older one | append, read history, clear | long lines, truncation, the older file | history is what was said last |
| Cron: `cron/cron_service.c` | job table and file | add, remove, list, the timer task, load | agent and timer task change table and count without a lock, statement by statement; saves cross; a clock not yet set | no job vanishes unless such changes cross; what is due fires |
| Subagent: `tools/tool_subagent.c` | a context shared by caller and task | spawn, wait, time out | who frees the context, agreed on by a flag and a semaphore | freed once, unless caller and task cross |
| Cache and skills: `cache/cache_store.c`, `skills/skill_loader.c`, `tools/tool_files.c` | entries and their size; skill files; the cached summary | put, get, drop; write and edit a file; build the summary | eviction with an old clock; files written while a summary is built | what is answered is what was put last; a prompt shows the files |
| Wi-Fi and onboarding: `wifi/wifi_manager.c`, `onboard/wifi_onboard.c` | retry count, retry task, event bits, scan | events, retry task, join at start, portal, scan | events racing the task; a scan that restarts the station | the board comes back, or says that it gave up; `s_connected` is true |
| Settings: `cli/serial_cli.c`, `onboard/wifi_onboard.c`, the modules' initialisers | keys in NVS, values in use | `set_*`, `config_show`, `config_reset`, the portal's form, boot | several keys one by one, readers with rules and buffers of their own | what was set last is used, and shown |
| Sensors: `tools/tool_environment.c`, `tools/tool_sgp30.c`, `tools/tool_aht10.c`, `tools/tool_bh1750.c`, `drivers/` | shared handles and their mutex, open I2C ports | reading by tasks, by the agent at places it names, single-sensor tools | tools that open the same ports without the mutex, power losses, failures in the middle of opening | every open port is on a handle that can close it; sensors come back |
| The rest | | | | listed in `PROJECT.json` with the reason for leaving it out: drivers, prompt text, start-up, vendored JSON |

The parts meet in a few places: every message source pushes into the inbound queue
and the agent loop into the outbound one; the agent's tools, the rule task and the
workflow tasks all call `mesh_send_command`; `mesh_wait_task` brings a mesh result
back into the inbound queue as an internal message; everything that publishes shares
the MQTT publish queue; every turn notes the contact of the proactive check, reads and
writes the session, and builds its prompt from the skill summary in the cache; a
subagent that outlived its timeout uses the tools beside the agent; the console changes
settings under all of them.

The hazards this leads to are listed in `PROJECT.json`, each at its line, with the
properties that would catch it going wrong.

## 2. Modules

| Module | Models | Used by |
|---|---|---|
| `RingCache` | the two result caches of `sensor_mqtt.c`, and the Feishu id ring: a store overwrites the next slot, a lookup returns the match in the lowest slot, nothing expires | `MeshCommand`, `ChatNode` |
| `MeshProtocol` | messages, and the pure decisions on them: what a role may do, what the tool accepts, what the Guardian allows, which commands a board takes | `MeshCommand` |
| `CommandGate` | the abstract promise: verdicts are given, deeds are done once each and only under a verdict | refined by `MeshCommand` |
| `MeshCommand` | the command path on all boards | `MCMeshCommand` |
| `Automation` | the automation engine | `MCAutomation` |
| `WsClients` | the client table of the gateway, as operators | `ChatNode` |
| `ChatNode` | the way of a chat message: sources, bus, agent loop, sessions, dispatcher, gateway | `MCChatNode` |
| `ToolTurn` | one turn of the agent from the inside, with the model's requests and replies and the tool calls | `MCServices` |
| `Subagent` | the context that `spawn_subagent` shares with its task | `MCServices` |
| `Sessions` | the session files and what a turn reads of them | `MCServices` |
| `CacheMap` | the abstract promise of the cache: a map that forgets | refined by `CacheStore` |
| `CacheStore` | the cache, its put in steps | `MCServices` |
| `Skills` | the skill files and their cached summary | `MCServices` |
| `Settings` | the configuration in NVS with its writers and readers | `MCServices` |
| `Checks` | the target of the proactive check, and the heartbeat | `MCServices` |
| `FeishuSend` | texts sent in parts, the token, the change of application | `MCServices` |
| `FeishuLink` | the long connection to Feishu, frames and acknowledgements | `MCLinks` |
| `Wifi` | the station, its retries, the join at start, portal and scan | `MCLinks` |
| `EnvSensors` | the I2C sensors and everybody who opens them | `MCLinks` |
| `Cron` | the job table and its file | `MCLinks` |
| `MeshCommand_proofs`, `Automation_proofs`, `ChatNode_proofs`, `ToolTurn_proofs`, `Services_proofs`, `Links_proofs` | the theorems, each of the module it is named after; `Services_proofs` and `Links_proofs` are about `MCServices` and `MCLinks` and what these put together | |
| `RingCache_proofs` | lemmas on rings | `MeshCommand_proofs`, `ChatNode_proofs` |
| `Extrema` | least and greatest elements, and functions computed place by place | all proofs but those of `Links_proofs` |

`MCServices` and `MCLinks` put components that never meet in a step side by side: the
variable `part` chooses one of them at the start, and the others stay where they
began. So one run explores the sum of their behaviours, not the product. What one
component leaves to another is stated at the head of its module: `FeishuLink` ends
where a message is handed to the bus, which is `ChatNode`'s; `Skills` uses of the
cache only what `CacheMap` promises and `CacheStore` is shown to keep.

### 2.1 MeshCommand

One board is one index of `link`, `pubq`, `inbox` and `policyRing`. `Turn` is one
pass of the loop in `sensor_mqtt_task` that finds a packet: the handler of that
packet, with everything it publishes, and then the draining of the publish queue.
`QuietTurn` is a pass that finds none, `Connect` the way back to the broker with a
clean session. The broker is external: `Deliver` hands a message to every connected
subscriber at once and in order, and to nobody later (QoS 0, no retained messages
among those modelled).

A call of `mesh_send_command` is a record in `tool[c]`: `Call` validates, publishes
the check and begins to wait; `LookInVain` is an iteration of the wait that finds
nothing (kept because a wait that has not looked yet cannot time out);
`PolicyBlocked`, `CommandQueueFull`, `SendCommand`, `ResultFound`, `ResultTimeout`
are its ways on. `WaiterStep` is the background task of an asynchronous call.
Publishing is `PushAll`: what does not fit the queue is lost, message by message,
and bursts (a result is an OutputMessage and a timeline event, with state board
updates between them) keep their length because they compete for the eight places.

`calls`, `told`, `answers`, `issued`, `executed` are history variables; `uid`
numbers calls, which the firmware does not do (it has only the command id, and that
may repeat). Boards reboot at any moment and lose queues and rings; a reboot of the
coordinator also ends its calls.

Left out: telemetry, presence, retained topics, the contents of the state board and
of the Guardian's audit log, the success flag of a result.

### 2.2 Automation

What keeps `s_lock` from first read to last write is one action. `rule_task` gives
the lock up around the reading and around the action, so it is `Wake`, `Scan` (which
takes the copy), `ReadFails`/`ReadSkips`/`Fire`, `ActEnds`. A mesh call takes any
time and has any result, which is what `MeshCommand` shows of it (`CallsReturn`).
Time is kept as ages that saturate at the longest delay compared with them. The rule
file is written whole, written short (nothing after the cut parses: the file counts
as empty) or not at all; the code notices only the last case. A reboot may fall into
a rewrite.

Assumed: ids never repeat (they are the low 32 bits of the microseconds since boot, so
a repetition takes two creations at the same microsecond of two boots, or of two
periods of 71 minutes), every rule of an instance has the same interval and cooldown.

### 2.3 ChatNode

Messages carry a `uid` and live in `asks`; queues hold uids. The agent is a program
counter with the way through a turn: `route` (keyword routing may answer directly),
`think` (the working notice), `llm`, `saveUser`, `saveAnswer`, `push`. The LLM's
answer, its failure, a round of tools and the NO_MESSAGE of a proactive check are
choices. `heap` is the set of texts that were allocated and not freed. A push into a
full queue waits a second: it succeeds when room appears first, and otherwise fails;
for the gateway the wait is a state of its own (`http`), because it holds up
handshakes, and because the table may change meanwhile.

`conn[fd]` is which connection, if any, sits on a socket. `Close` only clears it: the
gateway is not told. `WsSend` reaches whatever connection the socket number has then.
A browser may choose its chat id. The message keeps it whole, the client table cuts it to
31 characters (`EntryId`): in `chat_ws` one of the two ids is longer than that, and the other
is what is left of it.

Left out here and modelled elsewhere: what happens inside a turn (`ToolTurn`), the
reading and clearing of session files (`Sessions`), the two strings of
`proactive_service_note_contact`, one step here (`Checks`), and acknowledgements to
Feishu (`FeishuLink`): here a message may simply come again at any time.

### 2.4 ToolTurn

`step` is where the turn stands: `route` (`TakesRoute`: light workflows, climate and
light requests go to the Mesh without the model, otherwise `AsksModel`), then rounds of
`build`, `send`, `wait`, `tools`, and at last `reply`. A text is the set of the words
the keyword lists look for; one word stands for those that occur in the same lists.
`Guard` is `tool_guard_check`. `conv` is the conversation, `request` what was sent: it is
built in the format of the provider of that moment (`Wire`) and its answer read in the
format of the provider of the moment of the answer, between which `set_provider` may
come. A reply calls any of `ReplyTools`, more than `MaxToolCalls` perhaps. `sent`
holds the commands the Mesh took, `waits` those whose result is still to come:
`ResultArrives` brings it back as a turn of its own, in the words of the
OutputMessage, of the timeline event that stands in for a cut one, or of the timeout.

Left out: the wording of prompts and traces, `patch_tool_input_with_context`, and the
transport, which is a choice between an answer and a failure.

### 2.5 Subagent, Sessions, CacheStore, Skills

`Subagent`: a context is `given` (semaphore), `abandoned` (flag), `freed` (a count).
The caller collects or times out and then sets the flag; the task gives the semaphore
and then reads the flag. Each of these is a step of its own, so the other side may come
between two of them. `subCrossed` notes the contexts to which that happened, `FlagRead` that
the flag of a freed context is whatever the heap holds there.

`Sessions`: what one `fgets` of the reader yields is a turn, a role, a size and what it is
to the parser (`as`): a message, noise, or a piece of a line longer than the line buffer that
parses by itself (it begins with a number, a string, a literal or an empty array). A long line
is a piece that does not parse and up to `MaxPieces` that do. `Ring` is the reading loop with
its ring of `max_msgs` places, in which a piece takes a place like a message; `RingRead` is the
array made of it, without the pieces; `History` what a turn gets in the end.

`CacheStore`: `cache_put` reads the clock and its arguments (`CachePutAsked`), locks and
frees the old entry (`CachePutLocks`), evicts one victim per turn of its loop
(`CachePutEvicts`), stores (`CachePutStores`). Its map is read off the live entries, and
what is not live is forgotten (`Promise == INSTANCE CacheMap`).

`Skills`: a text is the set of the writes it shows; a file open for writing is empty. A
summary is built, then stored, and a write in between is noted in `outrun`; a write that
could not write all does not get to the invalidation and is noted in `cut`.

### 2.6 Settings, Checks, FeishuSend

`Settings`: `stored` is NVS, `inUse` what the running board uses. A command is a list of
keys written one by one by its task (`WritesOne`), then, where the setter does so, taken
over (`CommandEnds`); the portal's form does the same for all its keys and restarts the
board. Each reader has its own rule (`WifiUsed`, `ProxyUsed`, `AmapUsed`, `OrPreset`, over what
`Preset` says the module starts with) and a buffer of its own: `TooLong` are the values that
the module cannot read back, `NotShown` those that `config_show` cannot, `OverLine` those that
the form cannot, nor the console's line bring in. An `api_key` is read into 320 bytes
by its module, 256 by the form and 128 by `config_show`, so the three sets differ.
`wanted` is, per key, what the last complete
request asked for, and nothing while that is not clear: a request under way, or two
writers that met.

`Checks`: the target is a pair written and saved in two steps each, read in two steps. NVS
may refuse either key, which nobody looks at (`unsaved`).

`FeishuSend`: each sender walks through the parts of its text, with a token that may
expire, fail to come, or be of the application of before.

### 2.7 FeishuLink, Wifi, EnvSensors, Cron

`FeishuLink`: `feishu_ws_task` is `WsConfigured`, `WsStarted`, `WsSeen`, `WsGivesUp`,
`WsStopped`; the client's task is `FragmentComes`, `FrameHandled`, `FrameAcked`,
`WireTold`; each acknowledgement is a task of its own. A frame may fail to parse for want
of memory (`unparsed`); it is acknowledged with 200 like any other. The connection breaks
whenever it likes; `MaxCuts` bounds breaks and such failures together.

`Wifi`: the driver is external (`sta`: idle, trying, linked), posts `staEvents` and is
answered by `StaStarts`, `StaDown`, `StaGotIp`. `handle` is the retry task's handle,
`sleepers` and `leavers` the tasks that have still to look, and those that have looked
and are about to clear the handle and end.

`EnvSensors`: `ports` says who opened the bus of each I2C port, `env` the handles of
`s_env`, `airDev` that of the air-quality tool. Readers and the agent's
`read_environment` hold the mutex; the single-sensor tools do not. The tools that open a
port for the time of their call, the I2C diagnosis and `tool_bh1750.c`, are `DiagnosisAsked`
and `DiagnosisEnds`. Failing in the middle of opening is a step of its own (`Probed`).

`Cron`: the array with the places past its count, which a shift leaves as they are; a
pass that holds a job by its place (`cronTask.at`) over the push; a save that copies
first and writes later. Both sides change the array and then the count, as steps of their own:
`CronAdd` or `CronRemove`, `AgentCounts`, `AgentSaves` on the agent's, `CronPushed`, `CronDrops`,
`CronSaves` on the task's. The new count is made of the present one or of the one
that was there before the other side changed it (`s_job_count--` is a read and a write), so it
may even fall below zero, and the next add then writes in front of the array. A request is in
half ticks, of which `Kept` drops the half: an interval between 0 and 1 becomes 0. The
histories: `over` (removed or fired), `crossed` (a change by one side fell into a change by the
other), `torn` (a save failed, or two crossed, since boot), `lost` (a reboot came after or in
such a save, or refused the file). `synced` says whether the clock has been set.

## 3. Runs

| Run | Instance | Shows |
|---|---|---|
| `mesh_gate` | coordinator, guardian, control board; two callers; three requests that share an id, one of which names a board instead of a role; publish queue of 5, decision ring of 2; one reboot of any board | `TypeOK`, `GuardianGate`, `FailedNeverSent` |
| `mesh_breaks` | one caller, two asynchronous calls, one connection loss anywhere, also in the middle of a drained queue | `KeepsGate` (refinement of `CommandGate`: no call is carried out twice), `ResultIsOwn` |
| `mesh_return` | four boards, eleven kinds of request (every target form, every refusal), one loss and one reboot, fairness | `CallsReturn` |
| `mesh_live` | no faults, two callers with distinct ids | `SentIsCarriedOut` |
| `automation` | two rule slots, two workflow slots, two creations, one reboot, readings on both sides of the threshold inside and outside the band | all of `Automation` |
| `chat_turns` | queues of one place, one id kept, Feishu, mesh results, heartbeat, proactive checks, two LLM rounds, one reboot, fairness | `TypeOK`, `TextIsOwned`, `ToldIsSaved`, `FeishuOnce`, `Settles` |
| `chat_ws` | two sockets, three connections, two messages, automatic and chosen chat ids, one of these too long for the client table | `AnswersInOrder`, `AnswerToSocket` |
| `services` | cache of two places and two units with two users, three keys and a time to live of one tick; two tasks that write a skill; three turns of a chat with an older file, lines that fit the buffer and lines that come in pieces; two subagents, whose tasks may cross their caller; two turns with a command over the Mesh, two rounds of at most two calls and one change of provider; two senders of texts of one or two parts while the application changes twice; two commands or forms and a reset, with values that fit every buffer, only those of modules, or none; two contacts noted, in an NVS that may refuse them, and a reboot | `CacheIsMap` (refinement of `CacheMap`), `SummaryIsTrue`, `HistoryIsRecent`, `ContextFreedOnce`, `EveryCallAnswered`, `ReplyIsOwn`, `SetSurvives`, `TargetIsContact`, `PartsInOrder`, `ServicesSound` (types, `BytesCounted`, `KeyOnce`) |
| `links` | two Feishu messages of two fragments, two cuts or frames without memory, one reboot; two retries, two losses of the access point, one scan, one portal; the monitor and two calls of the agent at three sets of places, one loss of power; four kinds of jobs in two places, added and removed at any moment of the task's pass, a file that holds one, one reboot | `AckedIsHandled`, `FeishuArrives`, `StationIsTrue`, `BackOnline`, `PortsAreHeld`, `SensorsHeal`, `OnlyCrossingsLose`, `DueIsFired` |

### Disagreements

Three runs show the code doing what its own documents or texts say it does not; each is
described with its line in `PROJECT.json`:

- `mesh_reuse`: a decision stays in the ring, so a second command under an explicit
  id proceeds on the first one's allow although the Guardian denies the second. A
  sensor board carries it out (it makes no check of its own); a control board finds
  the old decision too, but compares the action and the safety level. `GuardianGate`,
  which asks for *an* allow under that id, holds all the same: it is the promise the
  code keeps.
- `cron_race`: the instance of `links` with the plain `NoJobVanishes`. The run finds that
  `cron_add_job` stores a job and then counts it, and that a one-shot which the cron task
  deletes in between leaves the job past the count. A removal does the same to others: when
  the table shifts below the task, the task deletes whichever job has moved to the place of the
  one-shot it fired. `OnlyCrossingsLose`, in `links`, says that no job is lost without such a
  crossing.
- `result_again`: the result of a command comes back as a turn whose words are those of
  a command, and the route without the model sends it once more.

Others were met while modelling and are part of the models, which allow them, but have
no run of their own:

- When the OutputMessage of a result is too long and is cut, the waiter takes the plain
  timeline event for it (`sensor_mqtt.c:479`; `docs/ARCHITECTURE.md:129`).
- Naming only the board, not a role, makes the Guardian deny (`sensor_mqtt.c:1035`,
  `tool_registry.c:296`).
- A browser that connects on the socket number of one that left gets its answer
  (`ws_server.c:37`). `AnswerToSocket` is what does hold.
- The gateway does not free a text that the full queue refused (`ws_server.c:136`,
  `message_bus.h:33`); `TextIsOwned` leaves those out.
- Between giving the semaphore and reading `timeout_abandoned` the subagent's task may be
  overtaken by its caller (`tool_subagent.c:228` to 230, 337): the context is then read
  after it was freed and perhaps freed again, or, after a timeout, freed by nobody.
  `ContextFreedOnce` says that it is freed once in every other case, and what happens in these.
- A browser that chooses an id of 32 or more characters never gets an answer, and one that
  chose the first 31 of them gets those of the other (`ws_server.c:124`, 133).
- Pieces of a line longer than the session reader's buffer may parse: they take places of the
  ring, push real messages out of it and are then dropped (`session_mgr.c:219` to 255).
- An API key of 128 to 319 characters is used, while `config_show` shows the build's
  (`serial_cli.c:644`, `llm_proxy.c:223`); a value too long for the form's buffer is not in the
  form, and saving the form overwrites it (`wifi_onboard.c:30`).
- A Feishu frame that could not be parsed for want of memory is acknowledged with 200 all the
  same and does not come again (`feishu_bot.c:647` to 652, 719 to 723).
- `cron_add` with an interval between 0 and 1 makes a job that is due at every moment
  (`tool_cron.c:52` to 57). A count below zero, which the race above can leave, makes the next
  add write in front of the array.
- When NVS refuses a key of the proactive target, the same contact is not saved again
  (`proactive_service.c:60` to 67): it equals the target in memory.
- `config_reset` leaves Feishu's namespace as it is (`serial_cli.c:732`).
- Wi-Fi counts and announces its last retry but never makes it, and a disconnection
  between a retry task's look and its end starts no other (`wifi_manager.c:45`).
- A network name of 32 characters is saved but not read back; the form shows the build's
  value instead of one too long for its buffer; `set_tavily_key ""` selects Tavily with an
  empty key.
- The air-quality tool keeps the port it opened, and the SGP30 of `s_env` is shut out
  until the board restarts (`tool_sgp30.c`); `AllGive` excepts it.
- A history longer than its buffer is cut, does not parse, and the turn begins without
  any (`HistoryIsRecent` allows the empty history); an older session file is no longer
  read once a turn has been saved under the new name.
- `edit_file` does not look at what `fwrite` returns, and drops the summary anyway;
  `write_file` returns before it does.
- The Feishu id is recorded before the push, so that a message the full queue dropped is
  not accepted when it comes again (`feishu_bot.c:884`).

### Bounds, and why they are enough

Every unbounded counter has a bound constant: `MaxCalls`, `MaxBreaks`, `MaxReboots`,
`MaxCreates`, `MaxAsks`, `MaxOpens`, `MaxFed`, `MaxWrites`, `MaxTurns`, `MaxSpawns`,
`MaxSent`, `MaxSwitches`, `MaxTexts`, `MaxCreds`, `MaxCommands`, `MaxResets`, `MaxNotes`,
`MaxBeats`, `MaxNoteBoots`, `MaxPieces`, `CacheEnd`, `MaxCuts`, `MaxFsBoots`, `MaxAirCuts`,
`MaxScans`, `MaxPortals`, `MaxEnvCalls`, `MaxOutages`, `MaxTime`, `MaxAdds`,
`MaxCronBoots`. Two calls are what any property about
mixing calls up needs; the depths of queues and rings are lowered until they overflow
with two calls (the publish queue must still hold a result burst in part), so that
drops, evictions and wrapped rings really occur. Where an overflow would hide the
question (`mesh_live` asks what happens *without* faults) the real depths are kept:
that run shows that the eight places are enough for two callers. In `automation` two
rules and two workflows are the least for slots to change hands. In `chat_ws` the
third connection is the one that comes back on a used socket while the other is
renamed; `OutDepth = 2` lets a working notice and an answer wait together. That run has a
VIEW without the session files, the heap and the answers that were not saved: neither its
properties nor any step of it reads these.

In `services`, three keys and two places make a put evict, two values of different size
make it evict twice; the second user puts with a clock that is behind. Two of the keys are in the
same groups and may be exchanged for each other (SYMMETRY). Six lines and a
ring of three wrap the ring; two lines of size three fill the history's buffer of six, and a
long line's piece that parses takes a place of the ring. Three values of a setting are one that
every buffer holds, one that some do, one that none does but the module's of the API key. Three
calls are one more than a reply may keep. In `links`, two cuts break a second connection while
what the first left is still there; two retries make the last one differ from the
others; three sets of places are the home of all sensors, two sensors with their
ports exchanged, and pins on which no SGP30 is. A file that holds one job of two is
the limit of 8192 bytes. Requests are in half ticks: an interval of one is kept as
zero, a job that comes again after a while is the daily one, and one-shots are for whole ticks
or a half past. A save of jobs fails only while nothing is noted as `torn` or `lost`
(`MaySpoil`): a second failure leaves the file in no state that the first may not leave it in.
Simplified there: a file is written whole, not at all, or so that it does not parse; the copy
of the array is taken at once, a shift reads the count once; intervals above 2^32 seconds are
left out.

All inputs are bounded, so most systems end in states where only nothing is left to
do; those runs switch the deadlock check off (`CHECK_DEADLOCK FALSE`), and liveness
properties state in its place that everything in hand is finished with.

### Fairness

Weak fairness of each FreeRTOS task's step: the scheduler runs every ready task,
`sensor_mqtt_task` loops with a delay, wait loops have deadlines, and the LLM and
Feishu requests have HTTP timeouts. No fairness is assumed of people, of faults, or of
the creation and removal of rules, jobs and settings. `mesh_live` starts with all boards
connected, because a board that has never connected owes nothing.

`links` is fair to the tasks of the firmware (`feishu_ws_task`, the client's task, the
acknowledgement tasks, the handler of Wi-Fi events and the retry tasks, the readers and
the agent's call, the cron task) and to the driver in that an attempt to connect ends.
Of the outside it assumes what the properties are about: Feishu sends again what was not
acknowledged, and a connection that may be made again and again is made (strong fairness,
because breaking it disables both); a sensor that lost its power has it again. Wi-Fi's
access point owes nothing: `BackOnline` is about boards that have their network.
Each of its liveness properties is about the behaviours of one `part`. `services` checks
safety only.

## 4. Proofs

All theorems hold for every value of the constants, from the assumptions the modules
state about them (`ProtocolAssumption`, `CommandAssumption`, `AutomationAssumption` and
so on) and from nothing else: no theorem has a hypothesis of its own. Each is proved the
same way: an inductive invariant that holds at the start, is kept by each action (one
step of the proof for each), and implies the property. Every safety property, every
action property and both refinements that a run checks have a theorem.

### 4.1 The mesh command path (`MeshCommand_proofs`)

- `TypeCorrect == Spec => []TypeOK`, which includes that the publish queue never
  exceeds its depth, and `GateHolds == Spec => []GuardianGate`. `GuardianGate` speaks of
  what was carried out, but whether a board may carry something out is decided by
  messages on their way, by both rings and by where a call stands. So the inductive
  invariant `Inv` says of all of those that they carry only decisions the Guardian gave
  (`RingsOK`) and only commands whose id it allowed (`NetOK`, as a type: every queue and
  inbox is a sequence over `Cleared(issued)`), that a busy caller's request was accepted
  (`ToolOK`), and that an allow was within the policy (`GateOK`). `ClearedMonotonic`
  carries the queues over a new decision.
- `FailedStaysUnsent == Spec => []FailedNeverSent` and
  `ResultsOwn == Spec => []ResultIsOwn`, by `Inv /\ FlowOK`. `FlowOK` says, again as a
  type, that what travels and what the result ring keeps is `Genuine`: it bears the number
  of a call, has that call's id, and is no command of a call that failed or is still
  waiting for the Guardian; and that the callers that are busy are at calls of their own
  (`CallersOK`).
- `MeshKeepsGate == Spec => KeepsGate`: each step of `MeshCommand` is a step of
  `CommandGate` or a stutter. The hard part is "once": `OnceOK` says that the command of a call
  is at most once in any queue or inbox, in one publish queue only, no longer in one when it
  is in an inbox, and neither in a queue nor in the inbox of the board when it was carried
  out there. This is kept through drained bursts, lost connections and reboots
  (`NoNewKeeps`).

`RingCache_proofs` gives what the rings need: `RingPutType`, `RingMonotonic`,
`RingFirstFound`.

### 4.2 Automation (`Automation_proofs`)

- `RulesTypeCorrect`, `RemovedStaysGone`, `ActsLateOnce`, `MemoryHolds` and
  `SlotsMatchTasks`: the invariants `TypeOK`, `RemovedIsGone`, `OneLateAction`,
  `MemoryIsTrue` and `SlotIsTask`;
- `BandHolds == Spec => BandIsKept`;
- `SavedHolds == Spec => []SavedIsActive`.

None of these is inductive. What carries the first six is that ids are not given out
twice: `IdsOK` (no slot and no line of the file has an id above `created`, or a removed
one, and no two lines share one, so that a reboot brings nothing back that was removed),
`TaskOK` (the rule in the task's hand is in the task's slot or in none; its copy has
the branch the rule last took, and while it acts, the time of its check is what the
slot holds) and `LateOK` (a rule that acted after its removal is in no slot and no
longer waits for a reading). Rules and workflows touch disjoint variables, so the
invariant has two halves and each action is proved for its own half only
(`RulesKeepWork`, `WorkKeepsRules`). `LoadedRules` says what a reboot makes of the
file. `TickAges` uses that both ages saturate at the same bound; this is what keeps
`MemoryIsTrue`, an equality of ages, exact. `SavedHolds` compares the file with what a
reboot makes of it, which moves the lines together: the slot of a line is the number
of lines up to it, and `LinePlaces` shows that this gives each line a slot of its own.

### 4.3 The chat path (`ChatNode_proofs`)

| Theorem | Inductive invariant | What it adds to the property |
|---|---|---|
| `ChatTypeCorrect == Spec => []TypeOK` | `TypeInv` | what is in the queues, with the agent and in the table is known (`KnownOK`) |
| `ToldStaysSaved == Spec => []ToldIsSaved` | `SavedInv` | the answers still in the outbound queue, with the dispatcher and with the agent are saved already |
| `AnswersOrdered == Spec => []AnswersInOrder` | `OrderInv` | the whole line from the gateway to `sent` is in order: what is behind comes later (`InOrder`, `AgentOrder`, `OutOrder`) |
| `TextsOwned == Spec => []TextIsOwned` | `OwnInv` | what a full queue refused is in nobody's hand |
| `FedOnce == Spec => []FeishuOnce` | `FedInv` | the ring holds the last ids recorded, each at the place its age tells (`Slot`) |
| `SocketsRight == Spec => []AnswerToSocket` | `SocketInv` | a client's chat was used on its socket, and the connection on a socket is its latest |

### 4.4 Services, connections and the turn

| Theorem | Inductive invariant | What it adds to the property |
|---|---|---|
| `SummaryHolds == SkillSpec => []SummaryIsTrue` | `SkillInv` | a summary that does not show the files has a task that will still drop it, or is noted in `outrun` or `cut` |
| `FreedOnce == SubSpec => []ContextFreedOnce` | `SubInv` | per context, who of the two is responsible for it, also when they have crossed (`ContextOK`) |
| `PartsOrdered == FsSendSpec => []PartsInOrder` | `SendInv` | what Feishu has of a text is below the part its only sender is at |
| `TargetHolds == ChecksSpec => []TargetIsContact` | `ChecksInv` | where a writer is, which halves of the target and of the flash are new, unless NVS refused one; what a reader holds is one half of a contact unless a write fell into its reading |
| `KeysOnce == CacheSpec => []KeyOnce` | `CacheInv` | what the holder of the mutex has freed and which place it has chosen |
| `BytesHold == CacheSpec => [](BytesCounted /\ total \in 0 .. CacheTotal)` | `BytesInv` | `CacheInv`, and that the total is within the capacity, so that nothing is subtracted below zero |
| `CacheKeepsMap == CacheSpec => CacheIsMap` | `CacheInv` | each step is one of `CacheMap` or a stutter: an entry that is freed or that expires is one the map may forget |
| `SettingsSurvive == SettingsSpec => []SetSurvives` | `SetInv` | what a writer in the middle of its keys has still to write (`WriterRight`); what is wanted is stored; a board that nobody has written since its boot uses what is stored |
| `HistoryRecent == SessionSpec => []HistoryIsRecent` | `SeenInv` | the files hold no line of a turn that was cleared, and the turn under way is none of those |
| `RepliesOwn == TurnSpec => []ReplyIsOwn` | `TurnInv` | that a Mesh tool was seen, or that the text claims a dispatch, stands behind a call in the turn's own conversation; the search that is kept is this turn's or none |
| `CallsAnswered == TurnSpec => [](TurnTypeOK /\ EveryCallAnswered)` | `TalkInv` | in the conversation the calls of a message are followed by their results, except for the last message's while its tools run (`CallsHeld`) |
| `AckedHolds == FsSpec => []AckedIsHandled` | `FsInv` | what is in flight is of one message and in order, and what comes before it in the frame is before it in flight or in the buffer |
| `PortsHold == EnvSpec => []PortsAreHeld` | `EnvInv` | which handle a port is on (`HeldBy`), that only who holds the mutex is in the middle of `s_env`, and which device it is about to read |
| `NoneVanishes == CronSpec => []OnlyCrossingsLose` | `CronInv` | the jobs fill the first places, and nobody counts or holds one beyond (`Reached`); without a crossing each side counts what the other has left (`Uncrossed`), and no job is missing in the array (`AllThere`, up to `Standing`) nor in what the file holds or will hold (`AllKept`) |

`ServicesAreSound == ServicesSpec => []ServicesSound` is about all services side by side.
Its invariant `ServicesInv` is the conjunction of `BytesInv`, `SeenInv`, `TalkInv`,
`SetInv` and of `SkillTypes`, `SubTypes` and `CheckTypes`, which are what the types need of
skills, subagents and checks. `ServicesStepEach` makes of a step of `ServicesNext` a step or a stutter of every
service, so that `ServicesSpec` implements the specification of each (`ServicesAreEach`), and
`ServicesHold` carries their theorems over to what the run explores.

`ConnectedHolds == WifiSpec => [](WifiTypeOK /\ ConnectedIsTrue)` is by `WifiInv`: the events
not yet handled end in the station's true state, and each start of the station that is still
to come belongs to a scan, or is the first. `LinksAreEach` is for the connections what
`ServicesAreEach` is for the services, and `LinksSound` proves `StationIsTrue` of them all;
`EnvKinds` adds the sensors' types to `EnvInv`.

### 4.5 Sums, rings and counts

The library's induction theorems take an operator as a parameter, which the provers at
hand cannot instantiate. Where a property is about something computed along a sequence
or a set, the proofs use a least counterexample instead (`Extrema!LeastElement`, from the
well-foundedness of the naturals), or the existence of a function that is computed place
by place (`Extrema!Recursion`): the sum of the sizes in the cache (`Sums`, `SumsAdd`:
the sum of two functions is the sum of their sums), the ring of `session_mgr.c`, which
after any number of lines and pieces holds the last `max_msgs` of those that parsed
(`RingHolds`),
the flattened messages of a request (`AnswersCalls`), and the line numbers of a file.

### 4.6 Only model-checked

Liveness (`CallsReturn`, `SentIsCarriedOut`, `EveryRuleIsChecked`, `Settles`, `BackOnline`,
`SensorsHeal`, `FeishuArrives`, `DueIsFired`), because reasoning under fairness is out of the
prover's reach; and the three runs that show a violation.

## 5. Plan

Done: the mesh command path, automation and the chat path; then the turn from the
inside, subagents, sessions, cache and skills, settings, the proactive target, both sides
of Feishu, Wi-Fi, the sensors and cron; and theorems for every invariant, action property
and refinement among the properties of the runs.

Left, in this order:

1. Theorems: what of the liveness properties can be said of states, as that the numbers a
   wait depends on are bounded.
2. The state board and the Guardian's audit log of `sensor_mqtt.c`: two rings written by
   several tasks without a lock (line 760).
3. Telemetry and presence messages with their share of the publish queue, and packets
   longer than the receive buffer.
4. `ToolTurn` composed with `ChatNode`, so that a turn's rounds and the queues are seen
   together.

## 6. Not modelled

- Actuators and other one-shot hardware tools (`tool_servo.c`, `tool_dht11.c`,
  `tool_hc_sr05.c`, `max98357`): each call drives one peripheral from its input to its
  end and leaves nothing for another task.
- What drivers compute from the bytes they read, the transport below `llm_proxy.c` and
  `http_proxy.c`, the web tools' requests: no state that two tasks share; their outcomes
  appear as choices where a modelled part depends on them.
- `context_builder.c` and `memory_store.c`: texts read from files and put together.
  (The prompt names `memory/daily/<date>.md` while `memory_read_recent` reads
  `memory/<date>.md`; `memory_append_today` has no caller.)
- OTA, time synchronisation, the roles' entry points, ESP-NOW, start-up apart from the
  network and the reading of settings: single calls into ESP-IDF or constants of the build.
  `Cron` and `MeshCommand` take from them what they need.
- The vendored JSON parser: parsing is modelled by what it accepts.
- In modelled parts: what `sensor_mqtt.c` keeps for display (the state board), negative
  intervals of a rule (`automation_engine.c:772`), the first creation of `s_env_mutex` by
  two tasks at once (`tool_environment.c:691`), an acknowledgement task that uses a client
  just being destroyed (`feishu_bot.c:384`), the GPIO policy table (a pure function).

## 7. Running

    tlc -workers 2 -config mesh_gate.cfg MCMeshCommand
    tlc -workers 2 -config services.cfg MCServices
    tlc -workers 2 -config links.cfg MCLinks
    for m in MeshCommand Automation ChatNode ToolTurn Services Links; do tlapm ${m}_proofs.tla; done
