----------------------------- MODULE MCChatNode -----------------------------
(* A board with two sockets; a browser names the chat "room", or one whose  *)
(* long id an entry of the client table cuts to "room", or keeps the one it *)
(* was assigned.                                                            *)
EXTENDS ChatNode

MCAutoId(fd) == IF fd = 1 THEN "ws_1" ELSE "ws_2"

MCEntryId(chat) == IF chat = "room_long" THEN "room" ELSE chat

\* The result of a mesh command that a browser on the first socket asked for, and a
\* heartbeat.
MCOtherAsk ==
    {[chan |-> "websocket", chat |-> "ws_1", flag |-> "internal", from |-> 0],
     [chan |-> "system", chat |-> "heartbeat", flag |-> "user", from |-> 0]}

NoOtherAsk == {}

\* What decides where a message goes and what the two properties of sockets speak of: all but
\* the session files, the texts on the heap and the answers that were not saved, which no
\* step of the run looks at.
SocketView == <<wsVars, feishuVars, inq, outVars, agent, target, asks, reboots>>
=============================================================================
