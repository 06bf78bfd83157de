------------------------------ MODULE WsClients ------------------------------
(***************************************************************************)
(* The client table of gateway/ws_server.c (s_clients): which chat sits on *)
(* which socket.  An entry is made at the handshake and only ever removed  *)
(* when a send to its socket fails; a closed socket leaves it behind.      *)
(* Every search stops at the first active entry that fits.                 *)
(***************************************************************************)
EXTENDS Integers

CONSTANTS Fd,         \* socket numbers
          ChatId,     \* chat ids, the assigned ones included
          AutoId(_),  \* the id assigned to a socket: ws_<fd>
          EntryId(_), \* the 31 characters of an id that an entry of the table keeps
          MaxClients  \* ESPAGENT_WS_MAX_CLIENTS

ASSUME ClientsAssumption ==
    /\ Fd \subseteq Nat
    /\ MaxClients \in Nat \ {0}
    /\ \A c \in ChatId : EntryId(c) \in ChatId /\ EntryId(EntryId(c)) = EntryId(c)
    /\ \A fd \in Fd : AutoId(fd) \in ChatId /\ EntryId(AutoId(fd)) = AutoId(fd)

Entry    == 1 .. MaxClients
Inactive == [fd |-> -1]
Client   == [fd : Fd, chat : ChatId]

NoClients == [i \in Entry |-> Inactive]

Lowest(S) == CHOOSE i \in S : \A j \in S : i <= j

ByFd(table, fd)     == {i \in Entry : table[i] # Inactive /\ table[i].fd = fd}
ByChat(table, chat) == {i \in Entry : table[i] # Inactive /\ table[i].chat = chat}
FreeEntries(table)  == {i \in Entry : table[i] = Inactive}

\* add_client: without a free entry the client stays connected but unknown.
AddClient(table, fd) ==
    IF FreeEntries(table) = {} THEN table
    ELSE [table EXCEPT ![Lowest(FreeEntries(table))] = [fd |-> fd, chat |-> AutoId(fd)]]

\* remove_client: the first entry of the socket.
RemoveClient(table, fd) ==
    IF ByFd(table, fd) = {} THEN table
    ELSE [table EXCEPT ![Lowest(ByFd(table, fd))] = Inactive]

\* Mutant: the search takes the first active entry, whatever its socket.
NameFirstClient(table, fd, chat) ==
    IF ByFd(table, fd) = {} THEN table
    ELSE [table EXCEPT ![Lowest(Entry \ FreeEntries(table))].chat = EntryId(chat)]

\* ws_handler: a chat_id in a message renames the client, to what its entry keeps of it;
\* the message itself goes on with the whole id, and its answer is looked up by that.
NameClient(table, fd, chat) ==
    IF ByFd(table, fd) = {} THEN table
    ELSE [table EXCEPT ![Lowest(ByFd(table, fd))].chat = EntryId(chat)]
=============================================================================
