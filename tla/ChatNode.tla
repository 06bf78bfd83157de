------------------------------ MODULE ChatNode ------------------------------
(***************************************************************************)
(* A chat message's way through the coordinator board.  Its sources (the   *)
(* WebSocket gateway, the Feishu channel, and the tasks that talk to the   *)
(* agent by themselves: cron, heartbeat, proactive checks, mesh results,   *)
(* the serial console) push it into the inbound queue of the message bus;  *)
(* agent_loop_task takes one message at a time, asks the LLM in rounds,    *)
(* saves the exchange and pushes the answer into the outbound queue, which *)
(* outbound_dispatch_task empties.  A full queue makes a push wait a       *)
(* second and then drop its message.                                       *)
(*                                                                         *)
(* The LLM, the tools, the Feishu servers and the browsers are the         *)
(* environment: what they answer is a choice.                              *)
(***************************************************************************)
EXTENDS WsClients, RingCache, Sequences, FiniteSets

CONSTANTS UnknownChat,  \* "ws_unknown"
          NamedChat,    \* chat ids browsers put into their messages
          FeishuId,     \* Feishu message ids
          FeishuChat,   \* the chat they come from
          OtherAsk,     \* what the board's own tasks may ask
          InDepth, OutDepth,  \* ESPAGENT_BUS_QUEUE_LEN, for each queue
          SeenDepth,    \* FEISHU_DEDUP_CACHE_SIZE
          MaxRounds,    \* ESPAGENT_AGENT_MAX_TOOL_ITER
          MaxAsks,      \* bound: messages offered to the bus
          MaxOpens,     \* bound: WebSocket connections ever made
          MaxFed,       \* bound: Feishu messages recorded
          MaxReboots    \* bound: reboots

Channel == {"websocket", "feishu", "system"}
Flag    == {"user", "proactive", "internal"}
Ask     == [chan : Channel, chat : ChatId, flag : Flag, from : Nat]

ASSUME ChatAssumption ==
    /\ UnknownChat \in ChatId /\ FeishuChat \in ChatId /\ NamedChat \subseteq ChatId
    /\ OtherAsk \subseteq [chan : Channel, chat : ChatId, flag : Flag, from : {0}]
    /\ InDepth \in Nat \ {0} /\ OutDepth \in Nat \ {0} /\ SeenDepth \in Nat \ {0}
    /\ MaxRounds \in Nat \ {0}
    /\ MaxAsks \in Nat /\ MaxOpens \in Nat /\ MaxFed \in Nat /\ MaxReboots \in Nat

VARIABLES
    conn,       \* per socket: the number of the connection on it, 0 when closed
    clients,    \* s_clients
    http,       \* the message ws_handler is pushing, 0 when it is not
    seen,       \* s_seen_msg_keys
    inq, outq,  \* the bus: uids of messages, and answers
    agent,      \* where agent_loop_task stands
    sending,    \* what outbound_dispatch_task is sending
    target,     \* whom proactive checks go to: channel and chat, kept in NVS too
    sessions,   \* per chat: the lines of its session file
    heap,       \* contents that were allocated and not freed
    fed,        \* history: Feishu message ids recorded since boot
    refused,    \* history: WebSocket messages the full queue refused since boot
    asks,       \* history: all messages offered to the bus; the index is the uid
    opens,      \* history: connections so far; for each its socket and the chats it used
    sent,       \* history: what reached a browser or Feishu, in order
    unkept,     \* history: uids whose answer could not be saved
    reboots

wsVars    == <<conn, clients, http, opens, refused>>
feishuVars == <<seen, fed>>
agentVars == <<agent, target, sessions, unkept>>
outVars   == <<outq, sending, sent>>
vars == <<wsVars, feishuVars, inq, outVars, agentVars, heap, asks, reboots>>

Uid      == 1 .. MaxAsks
Nothing  == [kind |-> "nothing"]
Outgoing == [kind : {"status", "answer", "error"}, uid : Uid]
Line     == [role : {"user", "assistant"}, uid : Uid]
NoTarget == [chan |-> "none"]
Target   == [chan : Channel \ {"system"}, chat : ChatId]
Idle     == [pc |-> "idle"]
Busy     == [pc : {"route", "think", "llm", "saveUser", "saveAnswer", "push"}, uid : Uid,
             round : 0 .. MaxRounds, told : BOOLEAN, out : {"none", "answer", "error"}]

\* Contents: the text of a message, and of what the agent sends.
AskText(u) == [uid |-> u, of |-> "ask"]
OutText(o) == [uid |-> o.uid, of |-> o.kind]

Offline ==
    /\ conn = [fd \in Fd |-> 0]
    /\ clients = NoClients
    /\ http = 0
    /\ seen = EmptyRing
    /\ fed = <<>>
    /\ refused = {}
    /\ inq = <<>>
    /\ outq = <<>>
    /\ agent = Idle
    /\ sending = Nothing
    /\ heap = {}

Init ==
    /\ Offline
    /\ target = NoTarget
    /\ sessions = [c \in ChatId |-> <<>>]
    /\ asks = <<>>
    /\ opens = <<>>
    /\ sent = <<>>
    /\ unkept = {}
    /\ reboots = 0

-----------------------------------------------------------------------------
(* The bus.  A push that finds the queue full waits, and gives up after a  *)
(* second: while there is no room both room and the second may come first. *)

\* Mutant: one more than the queue was made for.
HasRoomForOneMore(q, depth) == Len(q) <= depth

HasRoom(q, depth) == Len(q) < depth

\* Mutant: xQueueSendToFront.
QueuedInFront(q, x) == <<x>> \o q

Queued(q, x) == Append(q, x)

CanOffer == Len(asks) < MaxAsks

\* A task pushes a message, and frees its text when it does not fit.
Offer(ask) ==
    /\ CanOffer
    /\ asks' = Append(asks, ask)
    /\ \/ /\ HasRoom(inq, InDepth)
          /\ inq' = Queued(inq, Len(asks) + 1)
          /\ heap' = heap \cup {AskText(Len(asks) + 1)}
       \/ /\ ~HasRoom(inq, InDepth)
          /\ UNCHANGED <<inq, heap>>

-----------------------------------------------------------------------------
(* The WebSocket gateway.  One task handles handshakes and messages. *)

Open(fd) ==
    /\ Len(opens) < MaxOpens
    /\ conn[fd] = 0 /\ http = 0
    /\ opens' = Append(opens, [fd |-> fd, chats |-> {}])
    /\ conn' = [conn EXCEPT ![fd] = Len(opens) + 1]
    /\ clients' = AddClient(clients, fd)
    /\ UNCHANGED <<http, refused, feishuVars, inq, outVars, agentVars, heap, asks, reboots>>

\* The browser leaves, or its connection breaks: ws_server.c is not told.
Close(fd) ==
    /\ conn[fd] # 0
    /\ conn' = [conn EXCEPT ![fd] = 0]
    /\ UNCHANGED <<clients, http, opens, refused, feishuVars, inq, outVars, agentVars, heap,
                   asks, reboots>>

\* The chat a message without chat_id belongs to.
ChatOf(fd) == IF ByFd(clients, fd) = {} THEN UnknownChat
              ELSE clients[Lowest(ByFd(clients, fd))].chat

\* A message without a chat_id, which leaves the client its chat, or with one.
WsMessage(fd, chat) ==
    /\ CanOffer
    /\ conn[fd] # 0 /\ http = 0
    /\ chat \in {ChatOf(fd)} \cup NamedChat
    /\ clients' = NameClient(clients, fd, chat)
    /\ opens' = [opens EXCEPT ![conn[fd]].chats = @ \cup {chat}]
    /\ asks' = Append(asks, [chan |-> "websocket", chat |-> chat, flag |-> "user",
                             from |-> conn[fd]])
    /\ heap' = heap \cup {AskText(Len(asks) + 1)}
    /\ \/ /\ HasRoom(inq, InDepth)
          /\ inq' = Queued(inq, Len(asks) + 1)
          /\ UNCHANGED http
       \/ /\ ~HasRoom(inq, InDepth)
          /\ http' = Len(asks) + 1
          /\ UNCHANGED inq
    /\ UNCHANGED <<conn, refused, feishuVars, outVars, agentVars, reboots>>

\* The push it waits for succeeds, or fails: then nobody frees the text.
WsPushEnds ==
    /\ http # 0
    /\ http' = 0
    /\ \/ /\ HasRoom(inq, InDepth)
          /\ inq' = Queued(inq, http)
          /\ UNCHANGED refused
       \/ /\ ~HasRoom(inq, InDepth)
          /\ refused' = refused \cup {http}
          /\ UNCHANGED inq
    /\ UNCHANGED <<conn, clients, opens, feishuVars, outVars, agentVars, heap, asks, reboots>>

-----------------------------------------------------------------------------
(* Feishu, which delivers a message again until it is acknowledged. *)

\* Mutant: the loop begins at the second place.
SeenFromSecond(id) == \E i \in RingMatches(seen, id) : i > 0

\* dedup_check_and_record: the ring of the last message ids.
Seen(id) == RingHas(seen, id)

Record(id) == /\ seen' = RingPut(seen, [id |-> id], SeenDepth)
              /\ fed' = Append(fed, id)

\* handle_message_event: the id is recorded first; what is no text, or finds the queue
\* full, goes no further.
FeishuMessage(id) ==
    /\ ~Seen(id) /\ Len(fed) < MaxFed
    /\ Record(id)
    /\ \/ Offer([chan |-> "feishu", chat |-> FeishuChat, flag |-> "user", from |-> 0])
       \/ UNCHANGED <<inq, heap, asks>>
    /\ UNCHANGED <<wsVars, outVars, agentVars, reboots>>

FeishuDuplicate(id) == Seen(id) /\ UNCHANGED vars

\* cron, heartbeat, mesh_wait_task, the serial console.
OtherMessage(ask) ==
    /\ Offer(ask)
    /\ UNCHANGED <<wsVars, feishuVars, outVars, agentVars, reboots>>

\* proactive_service_trigger_now: only when somebody has been in touch.
ProactiveCheck ==
    /\ target # NoTarget
    /\ Offer([chan |-> target.chan, chat |-> target.chat, flag |-> "proactive", from |-> 0])
    /\ UNCHANGED <<wsVars, feishuVars, outVars, agentVars, reboots>>

-----------------------------------------------------------------------------
(* agent_loop_task. *)

\* proactive_service_note_contact: whoever asks something is the one to turn to.
NoteContact(ask) ==
    target' = IF ask.flag = "user" /\ ask.chan # "system"
              THEN [chan |-> ask.chan, chat |-> ask.chat] ELSE target

TakeMessage ==
    /\ agent = Idle /\ inq # <<>>
    /\ inq' = Tail(inq)
    /\ NoteContact(asks[Head(inq)])
    /\ agent' = [pc |-> "route", uid |-> Head(inq), round |-> 0, told |-> FALSE,
                 out |-> "none"]
    /\ UNCHANGED <<wsVars, feishuVars, outVars, sessions, unkept, heap, asks, reboots>>

At(pc) == agent # Idle /\ agent.pc = pc

Message == asks[agent.uid]

ToSend(kind) == [kind |-> kind, uid |-> agent.uid]

\* The agent has a text to answer with.
HasAnswer ==
    /\ agent' = [agent EXCEPT !.out = "answer", !.pc =
                    IF Message.flag = "user" THEN "saveUser" ELSE "saveAnswer"]
    /\ heap' = heap \cup {OutText(ToSend("answer"))}
    /\ UNCHANGED <<wsVars, feishuVars, inq, outVars, target, sessions, unkept, asks,
                   reboots>>

\* It has none: it sends the fallback text.
HasError ==
    /\ agent' = [agent EXCEPT !.out = "error", !.pc = "push"]
    /\ heap' = heap \cup {OutText(ToSend("error"))}
    /\ UNCHANGED <<wsVars, feishuVars, inq, outVars, target, sessions, unkept, asks,
                   reboots>>

\* A light or temperature request may be recognised and answered without the LLM.
Route ==
    /\ At("route")
    /\ \/ Message.chan # "system" /\ HasAnswer
       \/ /\ agent' = [agent EXCEPT !.pc = "think"]
          /\ UNCHANGED <<wsVars, feishuVars, inq, outVars, target, sessions, unkept, heap, asks,
                   reboots>>

WantsStatus == ~agent.told /\ Message.flag # "proactive" /\ Message.chan # "system"

\* The head of the loop: a notice that the agent is at work, which may be dropped and
\* is then tried again in the next round.
Think ==
    /\ At("think")
    /\ \/ /\ WantsStatus /\ HasRoom(outq, OutDepth)
          /\ outq' = Queued(outq, ToSend("status"))
          /\ heap' = heap \cup {OutText(ToSend("status"))}
          /\ agent' = [agent EXCEPT !.pc = "llm", !.told = TRUE]
       \/ /\ WantsStatus => ~HasRoom(outq, OutDepth)
          /\ agent' = [agent EXCEPT !.pc = "llm"]
          /\ UNCHANGED <<outq, heap>>
    /\ UNCHANGED <<wsVars, feishuVars, inq, sending, sent, target, sessions, unkept, asks,
                   reboots>>

\* Mutant: rounds are not counted.
LlmUsesToolsForever ==
    /\ At("llm")
    /\ agent' = [agent EXCEPT !.pc = "think"]
    /\ UNCHANGED <<wsVars, feishuVars, inq, outVars, target, sessions, unkept, heap, asks,
                   reboots>>

\* The LLM calls tools: the next round, if one is left.
LlmUsesTools ==
    /\ At("llm") /\ agent.round + 1 < MaxRounds
    /\ agent' = [agent EXCEPT !.pc = "think", !.round = @ + 1]
    /\ UNCHANGED <<wsVars, feishuVars, inq, outVars, target, sessions, unkept, heap, asks,
                   reboots>>

LlmAnswers == At("llm") /\ HasAnswer

\* The call failed, the text was empty, or the last round used tools.
LlmFails == At("llm") /\ HasError

\* Mutant: the message is not freed on this way out.
KeepSilentAndText ==
    /\ At("llm") /\ Message.flag = "proactive"
    /\ agent' = Idle
    /\ UNCHANGED <<wsVars, feishuVars, inq, outVars, target, sessions, unkept, heap, asks,
                   reboots>>

\* A proactive check that finds nothing to say (NO_MESSAGE) leaves no trace.
KeepSilent ==
    /\ At("llm") /\ Message.flag = "proactive"
    /\ agent' = Idle
    /\ heap' = heap \ {AskText(agent.uid)}
    /\ UNCHANGED <<wsVars, feishuVars, inq, outVars, target, sessions, unkept, asks,
                   reboots>>

\* A line is appended to the session file, unless the file cannot be opened.
SaveUser ==
    /\ At("saveUser")
    /\ agent' = [agent EXCEPT !.pc = "saveAnswer"]
    /\ \/ sessions' = [sessions EXCEPT ![Message.chat] =
                          Append(@, [role |-> "user", uid |-> agent.uid])]
       \/ UNCHANGED sessions
    /\ UNCHANGED <<wsVars, feishuVars, inq, outVars, target, unkept, heap, asks, reboots>>

\* Mutant: only what answers a user is saved.
SaveAnswerToUser ==
    /\ At("saveAnswer")
    /\ agent' = [agent EXCEPT !.pc = "push"]
    /\ \/ /\ Message.flag = "user"
          /\ sessions' = [sessions EXCEPT ![Message.chat] =
                             Append(@, [role |-> "assistant", uid |-> agent.uid])]
       \/ Message.flag # "user" /\ UNCHANGED sessions
    /\ UNCHANGED <<wsVars, feishuVars, inq, outVars, target, unkept, heap, asks, reboots>>

SaveAnswer ==
    /\ At("saveAnswer")
    /\ agent' = [agent EXCEPT !.pc = "push"]
    /\ \/ /\ sessions' = [sessions EXCEPT ![Message.chat] =
                             Append(@, [role |-> "assistant", uid |-> agent.uid])]
          /\ UNCHANGED unkept
       \/ unkept' = unkept \cup {agent.uid} /\ UNCHANGED sessions
    /\ UNCHANGED <<wsVars, feishuVars, inq, outVars, target, heap, asks, reboots>>

\* The answer is pushed, or freed when it does not fit; the message is freed.
PushAnswer ==
    /\ At("push")
    /\ agent' = Idle
    /\ \/ /\ HasRoom(outq, OutDepth)
          /\ outq' = Queued(outq, ToSend(agent.out))
          /\ heap' = heap \ {AskText(agent.uid)}
       \/ /\ ~HasRoom(outq, OutDepth)
          /\ heap' = heap \ {AskText(agent.uid), OutText(ToSend(agent.out))}
          /\ UNCHANGED outq
    /\ UNCHANGED <<wsVars, feishuVars, inq, sending, sent, target, sessions, unkept, asks,
                   reboots>>

-----------------------------------------------------------------------------
(* outbound_dispatch_task. *)

TakeOutgoing ==
    /\ sending = Nothing /\ outq # <<>>
    /\ outq' = Tail(outq)
    /\ sending' = Head(outq)
    /\ UNCHANGED <<wsVars, feishuVars, inq, sent, agentVars, heap, asks, reboots>>

Sending == asks[sending.uid]

\* The dispatcher is done with what it was sending, and frees it.
DoneSending(reached) ==
    /\ sending' = Nothing
    /\ sent' = sent \o reached
    /\ heap' = heap \ {OutText(sending)}
    /\ UNCHANGED <<conn, http, opens, refused, feishuVars, inq, outq, agentVars, asks,
                   reboots>>

Reaching(to) == << [kind |-> sending.kind, uid |-> sending.uid, to |-> to] >>

\* feishu_send_message, which may fail; the system channel only logs.
SendElsewhere ==
    /\ sending # Nothing /\ Sending.chan # "websocket"
    /\ \/ Sending.chan = "feishu" /\ DoneSending(Reaching(0))
       \/ DoneSending(<<>>)
    /\ UNCHANGED clients

\* ws_server_send: no client of that chat.
WsUnknown ==
    /\ sending # Nothing /\ Sending.chan = "websocket"
    /\ ByChat(clients, Sending.chat) = {}
    /\ DoneSending(<<>>)
    /\ UNCHANGED clients

\* The frame goes out on the socket of the first client of that chat; if it cannot, a
\* client of that socket is removed.
WsSend ==
    /\ sending # Nothing /\ Sending.chan = "websocket"
    /\ ByChat(clients, Sending.chat) # {}
    /\ LET fd == clients[Lowest(ByChat(clients, Sending.chat))].fd
       IN  \/ conn[fd] # 0 /\ DoneSending(Reaching(conn[fd])) /\ UNCHANGED clients
           \/ DoneSending(<<>>) /\ clients' = RemoveClient(clients, fd)

-----------------------------------------------------------------------------

\* Session files are all that survives.
Reboot ==
    /\ reboots < MaxReboots
    /\ reboots' = reboots + 1
    /\ conn' = [fd \in Fd |-> 0]
    /\ clients' = NoClients
    /\ http' = 0 /\ refused' = {} /\ seen' = EmptyRing /\ fed' = <<>>
    /\ inq' = <<>> /\ outq' = <<>> /\ agent' = Idle /\ sending' = Nothing /\ heap' = {}
    /\ UNCHANGED <<target, opens, sessions, unkept, asks, sent>>

AgentTask ==
    \/ TakeMessage \/ Route \/ Think \/ LlmUsesTools \/ LlmAnswers \/ LlmFails
    \/ KeepSilent \/ SaveUser \/ SaveAnswer \/ PushAnswer

OutboundTask == TakeOutgoing \/ SendElsewhere \/ WsUnknown \/ WsSend

Next ==
    \/ \E fd \in Fd : Open(fd) \/ Close(fd)
    \/ \E fd \in Fd, chat \in ChatId : WsMessage(fd, chat)
    \/ WsPushEnds
    \/ \E id \in FeishuId : FeishuMessage(id) \/ FeishuDuplicate(id)
    \/ \E ask \in OtherAsk : OtherMessage(ask)
    \/ ProactiveCheck
    \/ AgentTask \/ OutboundTask
    \/ Reboot

Spec == Init /\ [][Next]_vars

\* Tasks are scheduled; the LLM and Feishu requests have timeouts.
FairSpec == Spec /\ WF_vars(AgentTask) /\ WF_vars(OutboundTask) /\ WF_vars(WsPushEnds)
-----------------------------------------------------------------------------
(* Properties. *)

\* Types of every variable, and neither queue exceeds its depth.
TypeOK ==
    /\ conn \in [Fd -> 0 .. MaxOpens]
    /\ clients \in [Entry -> Client \cup {Inactive}]
    /\ http \in 0 .. MaxAsks
    /\ IsRing(seen, [id : FeishuId], SeenDepth)
    /\ inq \in Seq(Uid) /\ Len(inq) <= InDepth
    /\ outq \in Seq(Outgoing) /\ Len(outq) <= OutDepth
    /\ agent \in Busy \cup {Idle}
    /\ sending \in Outgoing \cup {Nothing}
    /\ target \in Target \cup {NoTarget}
    /\ sessions \in [ChatId -> Seq(Line)]
    /\ heap \subseteq [uid : Uid, of : {"ask", "status", "answer", "error"}]
    /\ fed \in Seq(FeishuId)
    /\ refused \subseteq Uid
    /\ asks \in Seq(Ask)
    /\ opens \in Seq([fd : Fd, chats : SUBSET ChatId])
    /\ sent \in Seq([kind : {"status", "answer", "error"}, uid : Uid, to : Nat])
    /\ unkept \subseteq Uid
    /\ reboots \in Nat

Elements(q) == {q[i] : i \in DOMAIN q}

\* The messages some task or queue of the board has in hand, and what it is to send.
InHand == Elements(inq) \cup ({http} \ {0}) \cup (IF agent = Idle THEN {} ELSE {agent.uid})
Outbound == Elements(outq) \cup ({sending} \ {Nothing})
         \cup (IF agent # Idle /\ agent.out # "none" THEN {ToSend(agent.out)} ELSE {})

\* Every text on the heap belongs to exactly one task or queue, which is to free it: on
\* no way through a turn is a text lost, or freed while it is still to be sent.  Only
\* what the full queue refuses to the gateway stays behind.
TextIsOwned ==
    heap = {AskText(u) : u \in InHand \cup refused} \cup {OutText(o) : o \in Outbound}

\* To one browser, and to Feishu, answers go out in the order of the questions, each at
\* most once, and no working notice comes after its answer.
AnswersInOrder ==
    \A i, j \in DOMAIN sent :
       /\ i < j
       /\ asks[sent[i].uid].from = asks[sent[j].uid].from
       => \/ sent[i].uid < sent[j].uid
          \/ sent[i].uid = sent[j].uid /\ sent[i].kind = "status" /\ sent[j].kind # "status"

\* What a chat was told it also finds in its history after a reboot: an answer that went
\* out was saved before (unless saving itself failed).
ToldIsSaved ==
    \A i \in DOMAIN sent :
       LET u == sent[i].uid
       IN  sent[i].kind = "answer" /\ u \notin unkept
           => [role |-> "assistant", uid |-> u] \in Elements(sessions[asks[u].chat])

\* What goes out for a chat goes to a socket on which that chat was used, or a longer id
\* that the client table cuts to it, now or by an earlier connection, whatever connections
\* broke or renamed themselves meanwhile; a chat whose own id is cut is never answered.
AnswerToSocket ==
    \A i \in DOMAIN sent : sent[i].to # 0 =>
       \E c \in 1 .. sent[i].to :
          /\ opens[c].fd = opens[sent[i].to].fd
          /\ asks[sent[i].uid].chat \in
                {AutoId(opens[c].fd)} \cup {EntryId(chat) : chat \in opens[c].chats}
          /\ EntryId(asks[sent[i].uid].chat) = asks[sent[i].uid].chat

\* A Feishu message that is delivered again starts a second turn only after as many
\* others came in between as the ring has places.
FeishuOnce ==
    \A i, j \in DOMAIN fed : i < j /\ fed[i] = fed[j] => j - i > SeenDepth

\* Whatever the LLM does and however full the queues are, every message the board has in
\* hand is finished with, and everything it is to send is sent or dropped.
Settles ==
    /\ \A u \in Uid : []<>(u \notin InHand)
    /\ []<>(Outbound = {})
=============================================================================
