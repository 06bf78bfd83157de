------------------------------ MODULE FeishuLink ------------------------------
(***************************************************************************)
(* The receiving side of channels/feishu/feishu_bot.c: a task that keeps   *)
(* one WebSocket client to Feishu alive, the client's own task that puts   *)
(* the fragments of a frame together and handles the message in it, and a  *)
(* task for every acknowledgement.  Feishu delivers a message again until  *)
(* it is acknowledged.  What becomes of a message on the bus, and that the *)
(* dedup ring drops what was delivered twice, is ChatNode's.               *)
(***************************************************************************)
EXTENDS Integers, Sequences

CONSTANTS FsMsg,       \* messages users send
          NoMsg,
          FsParts,     \* fragments of a frame
          MaxCuts,     \* bound: connections lost, starts that fail, memory that is not there
          MaxFsBoots   \* bound: reboots

ASSUME FsAssumption ==
    NoMsg \notin FsMsg /\ FsParts \in Nat \ {0} /\ MaxCuts \in Nat /\ MaxFsBoots \in Nat

VARIABLES
    wsTask,    \* where feishu_ws_task stands
    wire,      \* the client's connection: "none", "up", or "down" once it was up
    told,      \* s_ws_connected
    inFlight,  \* fragments sent and not yet received
    rxBuf,     \* rx_buf: per fragment, the message its bytes are of; <<>>: no buffer
    rxTask,    \* the message the client's task is handling or acknowledging
    ackTasks,  \* messages of the acknowledgement tasks
    handled,   \* history: messages handled, since ever
    unparsed,  \* history: messages a frame of which was not understood for want of memory
    acked,     \* Feishu: messages acknowledged
    mixed,     \* history: a frame was handled whose fragments are of several messages
    cuts, fsBoots

fsVars == <<wsTask, wire, told, inFlight, rxBuf, rxTask, ackTasks, handled, unparsed, acked,
            mixed, cuts, fsBoots>>
fsRx   == <<rxBuf, rxTask, handled, unparsed, mixed>>
fsLink == <<wsTask, wire, told>>

Quiet == [pc |-> "idle", msg |-> NoMsg]

FsInit ==
    /\ wsTask = "config" /\ wire = "none" /\ told = FALSE
    /\ inFlight = <<>> /\ rxBuf = <<>> /\ rxTask = Quiet /\ ackTasks = {}
    /\ handled = {} /\ unparsed = {} /\ acked = {} /\ mixed = FALSE
    /\ cuts = 0 /\ fsBoots = 0

Fails == cuts < MaxCuts /\ cuts' = cuts + 1

-----------------------------------------------------------------------------
(* feishu_ws_task: the address is asked for, a client is started, looked   *)
(* at five times a second, and destroyed once it has lost its connection.  *)

WsConfigured ==
    /\ wsTask = "config"
    /\ wsTask' = "start"
    /\ UNCHANGED <<wire, told, inFlight, fsRx, ackTasks, acked, cuts, fsBoots>>

WsStarted ==
    /\ wsTask = "start"
    /\ \/ wsTask' = "fresh" /\ UNCHANGED cuts
       \/ wsTask' = "config" /\ Fails
    /\ UNCHANGED <<wire, told, inFlight, fsRx, ackTasks, acked, fsBoots>>

\* The task sees that the client has been connected.
WsSeen ==
    /\ wsTask = "fresh" /\ told
    /\ wsTask' = "known"
    /\ UNCHANGED <<wire, told, inFlight, fsRx, ackTasks, acked, cuts, fsBoots>>

\* Mutant: only a client that was seen connected is given up.
WsGivesUpKnown ==
    /\ wsTask = "known" /\ wire # "up" /\ ~told
    /\ wsTask' = "stop"
    /\ UNCHANGED <<wire, told, inFlight, fsRx, ackTasks, acked, cuts, fsBoots>>

\* A client that was seen connected is given up when it is not, another one after
\* FEISHU_WS_CONNECT_GRACE_MS, which may pass at any moment.
WsGivesUp ==
    /\ wsTask \in {"fresh", "known"} /\ wire # "up" /\ ~told
    /\ wsTask' = "stop"
    /\ UNCHANGED <<wire, told, inFlight, fsRx, ackTasks, acked, cuts, fsBoots>>

\* Stopping waits for the client's task, and destroys the client.
WsStopped ==
    /\ wsTask = "stop" /\ rxTask = Quiet
    /\ wsTask' = "config" /\ wire' = "none" /\ told' = FALSE /\ inFlight' = <<>>
    /\ UNCHANGED <<fsRx, ackTasks, acked, cuts, fsBoots>>

-----------------------------------------------------------------------------
(* The client, which connects once, and the network. *)

WireUp ==
    /\ wsTask = "fresh" /\ wire = "none"
    /\ wire' = "up" /\ told' = TRUE
    /\ UNCHANGED <<wsTask, inFlight, fsRx, ackTasks, acked, cuts, fsBoots>>

\* The connection breaks, or is never made.
WireDown ==
    /\ wsTask \in {"fresh", "known"} /\ wire \in {"none", "up"}
    /\ Fails
    /\ wire' = "down" /\ inFlight' = <<>>
    /\ UNCHANGED <<wsTask, told, fsRx, ackTasks, acked, fsBoots>>

\* WEBSOCKET_EVENT_DISCONNECTED.
WireTold ==
    /\ wire = "down" /\ told /\ rxTask = Quiet
    /\ told' = FALSE
    /\ UNCHANGED <<wsTask, wire, inFlight, fsRx, ackTasks, acked, cuts, fsBoots>>

\* Feishu sends a message that is not acknowledged, a control frame in between perhaps.
FsSends(m) ==
    /\ wire = "up" /\ inFlight = <<>> /\ m \notin acked
    /\ LET frags == [i \in 1 .. FsParts |-> [msg |-> m, at |-> i]]
       IN  inFlight' \in {frags, <<frags[1], [msg |-> NoMsg, at |-> 0]>> \o Tail(frags)}
    /\ UNCHANGED <<fsLink, fsRx, ackTasks, acked, cuts, fsBoots>>

-----------------------------------------------------------------------------
(* The client's task. *)

FullFrame(buf) == \A i \in 1 .. FsParts : buf[i] # NoMsg

\* At the first fragment the old buffer is freed and another one taken, if there is memory.
NewBuffers(m) == {<<>>, [i \in 1 .. FsParts |-> IF i = 1 THEN m ELSE NoMsg]}

\* feishu_ws_event_handler: a fragment without a buffer, and what is not binary, is ignored.
FragmentComes ==
    /\ inFlight # <<>> /\ rxTask = Quiet
    /\ inFlight' = Tail(inFlight)
    /\ LET f == Head(inFlight)
       IN  \E buf \in CASE f.msg = NoMsg -> {rxBuf}
                        [] f.at = 1      -> NewBuffers(f.msg)
                        [] rxBuf = <<>>  -> {<<>>}
                        [] OTHER         -> {[rxBuf EXCEPT ![f.at] = f.msg]} :
             /\ f.at = 1 /\ buf = <<>> => cuts < MaxCuts
             /\ cuts' = IF f.at = 1 /\ buf = <<>> THEN cuts + 1 ELSE cuts
             /\ IF f.at = FsParts /\ buf # <<>>
                THEN /\ rxBuf' = <<>>
                     /\ mixed' = (mixed \/ \E i \in 1 .. FsParts : buf[i] # f.msg)
                     /\ rxTask' = [pc |-> "handle", msg |-> f.msg]
                ELSE rxBuf' = buf /\ UNCHANGED <<mixed, rxTask>>
    /\ UNCHANGED <<fsLink, ackTasks, handled, unparsed, acked, fsBoots>>

\* Mutant: the acknowledgement is sent before the message is handled.
FrameAckedFirst ==
    /\ rxTask.pc = "handle"
    /\ ackTasks' = ackTasks \cup {rxTask.msg}
    /\ rxTask' = [rxTask EXCEPT !.pc = "ack"]
    /\ UNCHANGED <<fsLink, inFlight, rxBuf, handled, unparsed, mixed, acked, cuts, fsBoots>>

\* feishu_handle_ws_frame: the message is handled (handle_message_event), or it is not, when
\* there is no memory for what cJSON makes of the event or of its content or for the copy of
\* the text; feishu_handle_ws_frame does not look at which ...
FrameHandled ==
    /\ rxTask.pc = "handle"
    /\ \/ handled' = handled \cup {rxTask.msg} /\ UNCHANGED <<unparsed, cuts>>
       \/ unparsed' = unparsed \cup {rxTask.msg} /\ Fails /\ UNCHANGED handled
    /\ rxTask' = [rxTask EXCEPT !.pc = "ack"]
    /\ UNCHANGED <<fsLink, inFlight, rxBuf, mixed, ackTasks, acked, fsBoots>>

\* ... and a task made that acknowledges it, if there is memory.
FrameAcked ==
    /\ rxTask.pc = "ack"
    /\ \/ ackTasks' = ackTasks \cup {rxTask.msg} /\ UNCHANGED cuts
       \/ UNCHANGED ackTasks /\ Fails
    /\ rxTask' = Quiet
    /\ UNCHANGED <<fsLink, inFlight, rxBuf, handled, unparsed, mixed, acked, fsBoots>>

\* feishu_ws_ack_task: nothing is sent while the client is not connected.
AckSent(m) ==
    /\ m \in ackTasks
    /\ ackTasks' = ackTasks \ {m}
    /\ acked' = IF told /\ wire = "up" THEN acked \cup {m} ELSE acked
    /\ UNCHANGED <<fsLink, inFlight, fsRx, cuts, fsBoots>>

FsReboot ==
    /\ fsBoots < MaxFsBoots
    /\ fsBoots' = fsBoots + 1
    /\ wsTask' = "config" /\ wire' = "none" /\ told' = FALSE
    /\ inFlight' = <<>> /\ rxBuf' = <<>> /\ rxTask' = Quiet /\ ackTasks' = {}
    /\ UNCHANGED <<handled, unparsed, acked, mixed, cuts>>

-----------------------------------------------------------------------------

WsTaskStep == WsConfigured \/ WsStarted \/ WsSeen \/ WsGivesUp \/ WsStopped
RxStep     == FragmentComes \/ FrameHandled \/ FrameAcked \/ WireTold

FsNext ==
    \/ WsTaskStep \/ RxStep
    \/ WireUp \/ WireDown
    \/ \E m \in FsMsg : FsSends(m) \/ AckSent(m)
    \/ FsReboot

FsSpec == FsInit /\ [][FsNext]_fsVars

-----------------------------------------------------------------------------
(* Properties. *)

\* Feishu forgets a message only after the board has handled it, or has tried to and had no
\* memory for it: then it is acknowledged like any other, and does not come again.  A
\* connection or a board that fails in between makes it come again.  And what was handled is
\* one message, never the beginning of one with the end of another (feishu_ws_event_handler).
AckedIsHandled == acked \cup ackTasks \subseteq handled \cup unparsed /\ ~mixed

\* Every message has got through to the board, and was handled unless there was no memory
\* for it when it came.  Once this is so, it stays so.
AllArrived == handled \cup unparsed = FsMsg
=============================================================================
