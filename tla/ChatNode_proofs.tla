--------------------------- MODULE ChatNode_proofs ---------------------------
(***************************************************************************)
(* Proofs about ChatNode for every set of sockets, chats and messages,     *)
(* every depth of the queues and every bound: types, what was told is      *)
(* saved, answers in order, who owns a text, Feishu's ring, and sockets.   *)
(*                                                                         *)
(* The safety properties speak of what was sent.  The invariants say the   *)
(* same of what is still on its way: a message goes from the gateway       *)
(* through the inbound queue, the agent, the outbound queue and the        *)
(* dispatcher to `sent`, and at each place of that line everything behind  *)
(* comes later.                                                            *)
(***************************************************************************)
EXTENDS ChatNode, RingCache_proofs, SequenceTheorems

\* What the dispatcher and the outbound queue have in hand.
Outbox == Elements(outq) \cup ({sending} \ {Nothing})

\* The messages that wait for the agent.
Waiting == Elements(inq) \cup ({http} \ {0})

\* Every message in hand is one that was offered, and the agent knows what it answers from
\* the moment it has an answer.
KnownOK ==
    /\ Len(asks) <= MaxAsks /\ Len(opens) <= MaxOpens
    /\ \A u \in Waiting : u <= Len(asks)
    /\ \A o \in Outbox : o.uid <= Len(asks)
    /\ \A i \in DOMAIN sent : sent[i].uid <= Len(asks)
    /\ agent # Idle => /\ agent.uid <= Len(asks)
                       /\ agent.out = "none" <=> agent.pc \in {"route", "think", "llm"}
                       /\ agent.pc \in {"saveUser", "saveAnswer"} => agent.out = "answer"
    /\ \A fd \in Fd : conn[fd] <= Len(opens)

TypeInv == TypeOK /\ KnownOK

-----------------------------------------------------------------------------

\* The answer to message u is in the history of its chat, or could not be written there.
Kept(u) == u \in unkept \/ [role |-> "assistant", uid |-> u] \in Elements(sessions[asks[u].chat])

SavedInv ==
    /\ ToldIsSaved
    /\ \A o \in Outbox : o.kind = "answer" => Kept(o.uid)
    /\ agent # Idle /\ agent.pc = "push" /\ agent.out = "answer" => Kept(agent.uid)

-----------------------------------------------------------------------------

From(u) == asks[u].from

\* Message v follows u: whoever sent u sent v later.
Follows(u, v) == From(u) = From(v) => u < v

\* What is sent as b follows what is sent as a.
Before(a, b) ==
    From(a.uid) = From(b.uid)
      => a.uid < b.uid \/ (a.uid = b.uid /\ a.kind = "status" /\ b.kind # "status")

\* What the agent is at follows a, apart from its own notice.
BeforeAgent(a) ==
    From(a.uid) = From(agent.uid)
      => a.uid < agent.uid \/ (a.uid = agent.uid /\ a.kind = "status" /\ agent.told)

\* What is sent, or on its way out.
Past == Elements(sent) \cup Outbox

OutOrder ==
    /\ \A i \in DOMAIN sent : \A o \in Outbox : Before(sent[i], o)
    /\ sending # Nothing => \A i \in DOMAIN outq : Before(sending, outq[i])
    /\ \A i, j \in DOMAIN outq : i < j => Before(outq[i], outq[j])

AgentOrder ==
    agent # Idle => /\ \A o \in Past : BeforeAgent(o)
                    /\ \A u \in Waiting : Follows(agent.uid, u)

\* While the gateway waits for room, the board's own messages overtake it, but they come from
\* no browser.
InOrder ==
    /\ \A i, j \in DOMAIN inq : i < j => Follows(inq[i], inq[j])
    /\ http # 0 => From(http) # 0 /\ \A i \in DOMAIN inq : Follows(inq[i], http)

OrderInv ==
    /\ AnswersInOrder /\ OutOrder /\ AgentOrder /\ InOrder
    /\ \A o \in Past : \A u \in Waiting : Follows(o.uid, u)

-----------------------------------------------------------------------------

\* What was refused is in nobody's hand.
OwnInv == TextIsOwned /\ refused \cap InHand = {} /\ refused \subseteq DOMAIN asks

-----------------------------------------------------------------------------

\* The place of the message that was recorded a messages ago.
Slot(a) == IF a <= seen.next THEN seen.next - a ELSE seen.next - a + SeenDepth

\* The ring holds the ids recorded last.
FedInv ==
    /\ FeishuOnce
    /\ \A k \in DOMAIN fed : Len(fed) - k < SeenDepth =>
          LET s == Slot(Len(fed) + 1 - k)
          IN  s \in DOMAIN seen.slots /\ seen.slots[s].id = fed[k]

-----------------------------------------------------------------------------

\* The chat was assigned to that socket, or is what the table keeps of one used on it by one
\* of the connections up to n.
UsedOn(history, fd, chat, n) ==
    \E c \in 1 .. n : /\ c \in DOMAIN history /\ history[c].fd = fd
                      /\ chat \in {AutoId(fd)} \cup {EntryId(id) : id \in history[c].chats}

\* A client's chat was used on its socket.
ClientsInv ==
    \A e \in Entry : clients[e] # Inactive =>
       UsedOn(opens, clients[e].fd, clients[e].chat, Len(opens))

\* A socket's connection is the last one on it.
ConnInv ==
    \A fd \in Fd : conn[fd] # 0 =>
       /\ conn[fd] \in DOMAIN opens /\ opens[conn[fd]].fd = fd
       /\ \A c \in DOMAIN opens : opens[c].fd = fd => c <= conn[fd]

SocketInv ==
    /\ ClientsInv /\ ConnInv
    /\ \A i \in DOMAIN sent : sent[i].to # 0 =>
          /\ sent[i].to \in DOMAIN opens
          /\ UsedOn(opens, opens[sent[i].to].fd, asks[sent[i].uid].chat, sent[i].to)

-----------------------------------------------------------------------------
(* Queues. *)

\* What is appended to a sequence is its last element, and all its elements are kept.
LEMMA Appended ==
    ASSUME NEW S, NEW q \in Seq(S), NEW x \in S
    PROVE  /\ Append(q, x) \in Seq(S)
           /\ Len(q) \in Nat /\ Len(Append(q, x)) = Len(q) + 1
           /\ DOMAIN q = 1 .. Len(q) /\ DOMAIN Append(q, x) = 1 .. Len(q) + 1
           /\ \A i \in DOMAIN q : Append(q, x)[i] = q[i]
           /\ Append(q, x)[Len(q) + 1] = x
           /\ Elements(Append(q, x)) = Elements(q) \cup {x}
<1>1. /\ Append(q, x) \in Seq(S)
      /\ Len(q) \in Nat /\ Len(Append(q, x)) = Len(q) + 1
      /\ DOMAIN q = 1 .. Len(q) /\ DOMAIN Append(q, x) = 1 .. Len(q) + 1
      /\ \A i \in DOMAIN q : Append(q, x)[i] = q[i]
      /\ Append(q, x)[Len(q) + 1] = x
  BY AppendProperties, LenProperties
<1>2. Elements(Append(q, x)) = {Append(q, x)[i] : i \in DOMAIN q \cup {Len(q) + 1}}
  BY <1>1 DEF Elements
<1>3. Elements(Append(q, x)) = Elements(q) \cup {x}
  BY <1>1, <1>2 DEF Elements
<1> QED  BY <1>1, <1>3

\* A queue that is not empty consists of its head and, one place further on, its tail.
LEMMA Taken ==
    ASSUME NEW S, NEW q \in Seq(S), q # <<>>
    PROVE  /\ Head(q) \in S /\ Head(q) = q[1] /\ 1 \in DOMAIN q
           /\ Tail(q) \in Seq(S)
           /\ Len(Tail(q)) \in Nat /\ Len(Tail(q)) < Len(q)
           /\ \A i \in DOMAIN Tail(q) : i \in Nat /\ i + 1 \in DOMAIN q /\ Tail(q)[i] = q[i + 1]
           /\ Elements(q) = {Head(q)} \cup Elements(Tail(q))
<1>1. /\ Len(q) \in Nat \ {0} /\ DOMAIN q = 1 .. Len(q)
      /\ Head(q) \in S /\ Head(q) = q[1]
      /\ Tail(q) \in Seq(S) /\ Len(Tail(q)) = Len(q) - 1
      /\ DOMAIN Tail(q) = 1 .. Len(q) - 1
      /\ \A i \in 1 .. Len(q) - 1 : Tail(q)[i] = q[i + 1]
  BY HeadTailProperties, LenProperties, EmptySeq
<1>2. \A i \in DOMAIN q : i = 1 \/ (i - 1 \in DOMAIN Tail(q) /\ Tail(q)[i - 1] = q[i])
  BY <1>1
<1>3. ASSUME NEW i \in DOMAIN q PROVE q[i] \in {Head(q)} \cup Elements(Tail(q))
  BY <1>1, <1>2 DEF Elements
<1>4. {Head(q)} \cup Elements(Tail(q)) \subseteq Elements(q)
  BY <1>1 DEF Elements
<1> QED  BY <1>1, <1>3, <1>4 DEF Elements

\* The elements of a sequence are where it says.
LEMMA ElementsIn ==
    ASSUME NEW S, NEW q \in Seq(S)
    PROVE  Elements(q) \subseteq S /\ (q = <<>> => Elements(q) = {})
<1>1. DOMAIN q = 1 .. Len(q) /\ \A i \in DOMAIN q : q[i] \in S
  BY LenProperties, ElementOfSeq
<1>2. Len(<<>>) = 0
  BY EmptySeq
<1> QED  BY <1>1, <1>2 DEF Elements

-----------------------------------------------------------------------------
(* The client table. *)

Table == [Entry -> Client \cup {Inactive}]

\* The lowest of some entries is one of them.
LEMMA LowestIn ==
    ASSUME NEW T \in SUBSET Entry, T # {}
    PROVE  Lowest(T) \in T
<1>1. T \in SUBSET Nat
  BY ClientsAssumption DEF Entry
<1>2. \E i \in T : \A j \in T : i <= j
  BY <1>1, LeastElement
<1> QED  BY <1>2 DEF Lowest

\* What the three operations leave in the table: its clients, one of them renamed or gone,
\* and perhaps a new one.
LEMMA AddedClient ==
    ASSUME NEW t \in Table, NEW fd \in Fd
    PROVE  /\ AddClient(t, fd) \in Table
           /\ \A e \in Entry : \/ AddClient(t, fd)[e] = t[e]
                               \/ AddClient(t, fd)[e] = [fd |-> fd, chat |-> AutoId(fd)]
<1>1. CASE FreeEntries(t) = {}
  BY <1>1 DEF AddClient
<1>2. CASE FreeEntries(t) # {}
  <2>1. Lowest(FreeEntries(t)) \in Entry
    BY <1>2, LowestIn DEF FreeEntries
  <2>2. [fd |-> fd, chat |-> AutoId(fd)] \in Client
    BY ClientsAssumption DEF Client
  <2> QED  BY <1>2, <2>1, <2>2 DEF AddClient, Table
<1> QED  BY <1>1, <1>2

\* Only a client that goes leaves an entry without one.
LEMMA RemovedClient ==
    ASSUME NEW t \in Table, NEW fd \in Fd
    PROVE  /\ RemoveClient(t, fd) \in Table
           /\ \A e \in Entry : RemoveClient(t, fd)[e] \in {t[e], Inactive}
<1>1. CASE ByFd(t, fd) = {}
  BY <1>1 DEF RemoveClient
<1>2. CASE ByFd(t, fd) # {}
  <2>1. Lowest(ByFd(t, fd)) \in Entry
    BY <1>2, LowestIn DEF ByFd
  <2> QED  BY <1>2, <2>1 DEF RemoveClient, Table
<1> QED  BY <1>1, <1>2

\* Only the client of that socket is renamed, and to what the table keeps of that chat.
LEMMA NamedClient ==
    ASSUME NEW t \in Table, NEW fd \in Fd, NEW chat \in ChatId
    PROVE  /\ NameClient(t, fd, chat) \in Table
           /\ \A e \in Entry : \/ NameClient(t, fd, chat)[e] = t[e]
                               \/ NameClient(t, fd, chat)[e] = [fd |-> fd, chat |-> EntryId(chat)]
<1>1. CASE ByFd(t, fd) = {}
  BY <1>1 DEF NameClient
<1>2. CASE ByFd(t, fd) # {}
  <2> DEFINE e == Lowest(ByFd(t, fd))
  <2>1. e \in Entry /\ t[e] \in Client /\ t[e].fd = fd
    BY <1>2, LowestIn DEF ByFd, Table
  <2> HIDE DEF e
  <2>2. [t[e] EXCEPT !.chat = EntryId(chat)] = [fd |-> fd, chat |-> EntryId(chat)]
    BY <2>1 DEF Client
  <2>3. NameClient(t, fd, chat) = [t EXCEPT ![e] = [fd |-> fd, chat |-> EntryId(chat)]]
    BY <1>2, <2>1, <2>2 DEF NameClient, e, Table
  <2>4. [fd |-> fd, chat |-> EntryId(chat)] \in Client
    BY ClientsAssumption DEF Client
  <2> QED  BY <2>1, <2>3, <2>4 DEF Table
<1> QED  BY <1>1, <1>2

\* The chat of a socket is a chat.
LEMMA ChatOfType ==
    ASSUME clients \in Table, NEW fd \in Fd
    PROVE  ChatOf(fd) \in ChatId
<1>1. CASE ByFd(clients, fd) = {}
  BY <1>1, ChatAssumption DEF ChatOf
<1>2. CASE ByFd(clients, fd) # {}
  <2>1. Lowest(ByFd(clients, fd)) \in ByFd(clients, fd)
    BY <1>2, LowestIn DEF ByFd
  <2> QED  BY <1>2, <2>1 DEF ChatOf, ByFd, Table, Client
<1> QED  BY <1>1, <1>2

-----------------------------------------------------------------------------
(* Types. *)

HeapType == SUBSET [uid : Uid, of : {"ask", "status", "answer", "error"}]

\* A message that is offered gets the next number, and waits in the queue or is dropped.
LEMMA Offered ==
    ASSUME TypeInv, NEW ask \in Ask, Offer(ask)
    PROVE  /\ asks' \in Seq(Ask) /\ Len(asks) \in Nat /\ Len(asks') = Len(asks) + 1
           /\ DOMAIN asks = 1 .. Len(asks) /\ DOMAIN asks' = 1 .. Len(asks) + 1
           /\ \A u \in DOMAIN asks : asks'[u] = asks[u]
           /\ asks'[Len(asks) + 1] = ask
           /\ Len(asks) + 1 \in Uid
           /\ inq' \in Seq(Uid) /\ Len(inq') <= InDepth
           /\ \/ inq' = Append(inq, Len(asks) + 1) /\ heap' = heap \cup {AskText(Len(asks) + 1)}
              \/ inq' = inq /\ heap' = heap
           /\ heap' \in HeapType
<1>1. /\ asks' \in Seq(Ask) /\ Len(asks) \in Nat /\ Len(asks') = Len(asks) + 1
      /\ DOMAIN asks = 1 .. Len(asks) /\ DOMAIN asks' = 1 .. Len(asks) + 1
      /\ \A u \in DOMAIN asks : asks'[u] = asks[u]
      /\ asks'[Len(asks) + 1] = ask
  BY Appended DEF Offer, TypeInv, TypeOK
<1>2. Len(asks) + 1 \in Uid
  BY <1>1, ChatAssumption DEF Offer, CanOffer, Uid
<1>3. \/ /\ inq' = Append(inq, Len(asks) + 1) /\ heap' = heap \cup {AskText(Len(asks) + 1)}
         /\ Len(inq) < InDepth
      \/ inq' = inq /\ heap' = heap
  BY DEF Offer, HasRoom, Queued
<1>4. inq' \in Seq(Uid) /\ Len(inq') <= InDepth
  <2>1. /\ Append(inq, Len(asks) + 1) \in Seq(Uid) /\ Len(inq) \in Nat
        /\ Len(Append(inq, Len(asks) + 1)) = Len(inq) + 1
    BY <1>2, Appended DEF TypeInv, TypeOK
  <2>2. CASE inq' = inq
    BY <2>2 DEF TypeInv, TypeOK
  <2>3. CASE inq' = Append(inq, Len(asks) + 1) /\ Len(inq) < InDepth
    BY <2>1, <2>3, ChatAssumption
  <2> QED  BY <1>3, <2>2, <2>3
<1>5. heap' \in HeapType
  <2>1. AskText(Len(asks) + 1) \in [uid : Uid, of : {"ask", "status", "answer", "error"}]
    BY <1>2 DEF AskText
  <2> QED  BY <1>3, <2>1 DEF HeapType, TypeInv, TypeOK
<1> QED  BY <1>1, <1>2, <1>3, <1>4, <1>5

\* What the queue holds afterwards.
LEMMA OfferedWaits ==
    ASSUME TypeInv, NEW ask \in Ask, Offer(ask)
    PROVE  Elements(inq') \subseteq Elements(inq) \cup {Len(asks) + 1}
<1>1. Len(asks) + 1 \in Uid /\ (inq' = inq \/ inq' = Append(inq, Len(asks) + 1))
  BY Offered
<1>2. Elements(Append(inq, Len(asks) + 1)) = Elements(inq) \cup {Len(asks) + 1}
  BY <1>1, Appended DEF TypeInv, TypeOK
<1> QED  BY <1>1, <1>2

LEMMA TypeInit == Init => TypeInv
<1> SUFFICES ASSUME Init PROVE TypeInv
  OBVIOUS
<1>1. /\ <<>> \in Seq(Uid) /\ <<>> \in Seq(Outgoing) /\ <<>> \in Seq(Line)
      /\ <<>> \in Seq(FeishuId) /\ <<>> \in Seq(Ask)
      /\ <<>> \in Seq([fd : Fd, chats : SUBSET ChatId])
      /\ <<>> \in Seq([kind : {"status", "answer", "error"}, uid : Uid, to : Nat])
      /\ Len(<<>>) = 0 /\ DOMAIN <<>> = {} /\ Elements(<<>>) = {}
  BY EmptySeq DEF Elements
<1>2. NoClients \in [Entry -> Client \cup {Inactive}]
  BY DEF NoClients
<1>3. IsRing(EmptyRing, [id : FeishuId], SeenDepth)
  BY EmptyRingType, ChatAssumption
<1>4. TypeOK
  BY <1>1, <1>2, <1>3, ChatAssumption DEF Init, Offline, TypeOK
<1>5. KnownOK
  BY <1>1, ChatAssumption DEF Init, Offline, KnownOK, Waiting, Outbox
<1> QED  BY <1>4, <1>5 DEF TypeInv

\* The messages in hand are messages that were offered.
LEMMA Known ==
    ASSUME TypeInv
    PROVE  /\ Len(asks) \in Nat /\ DOMAIN asks = 1 .. Len(asks) /\ DOMAIN asks \subseteq Uid
           /\ \A u \in DOMAIN asks : asks[u] \in Ask
           /\ Waiting \subseteq DOMAIN asks
           /\ Outbox \subseteq Outgoing /\ \A o \in Outbox : o.uid \in DOMAIN asks
           /\ agent # Idle => agent \in Busy /\ agent.uid \in DOMAIN asks
           /\ \A i \in DOMAIN sent : sent[i].uid \in DOMAIN asks
<1>1. Len(asks) \in Nat /\ DOMAIN asks = 1 .. Len(asks) /\ \A u \in DOMAIN asks : asks[u] \in Ask
  BY LenProperties, ElementOfSeq DEF TypeInv, TypeOK
<1>2. DOMAIN asks \subseteq Uid
  BY <1>1, ChatAssumption DEF TypeInv, KnownOK, Uid
<1>3. Elements(inq) \subseteq Uid /\ Elements(outq) \subseteq Outgoing
  BY ElementsIn DEF TypeInv, TypeOK
<1>4. Waiting \subseteq Uid
  BY <1>3, ChatAssumption DEF Waiting, TypeInv, TypeOK, Uid
<1>5. Waiting \subseteq DOMAIN asks
  BY <1>1, <1>4, ChatAssumption DEF TypeInv, KnownOK, Uid
<1>6. Outbox \subseteq Outgoing
  BY <1>3 DEF Outbox, TypeInv, TypeOK
<1>7. \A o \in Outbox : o.uid \in DOMAIN asks
  BY <1>1, <1>6, ChatAssumption DEF TypeInv, KnownOK, Uid, Outgoing
<1>8. agent # Idle => agent \in Busy /\ agent.uid \in DOMAIN asks
  BY <1>1, ChatAssumption DEF TypeInv, TypeOK, KnownOK, Uid, Busy
<1>9. \A i \in DOMAIN sent : sent[i].uid \in DOMAIN asks
  <2>1. \A i \in DOMAIN sent :
           sent[i] \in [kind : {"status", "answer", "error"}, uid : Uid, to : Nat]
    BY LenProperties, ElementOfSeq DEF TypeInv, TypeOK
  <2>2. \A i \in DOMAIN sent : sent[i].uid \in Uid /\ sent[i].uid <= Len(asks)
    BY <2>1 DEF TypeInv, KnownOK
  <2> QED  BY <1>1, <2>2, ChatAssumption DEF Uid
<1> QED  BY <1>1, <1>2, <1>5, <1>6, <1>7, <1>8, <1>9

\* Steps that offer a message, and may record a Feishu id, keep the types.
LEMMA OfferType ==
    ASSUME TypeInv, NEW ask \in Ask, Offer(ask),
           IsRing(seen', [id : FeishuId], SeenDepth), fed' \in Seq(FeishuId),
           UNCHANGED <<wsVars, outVars, agentVars, reboots>>
    PROVE  TypeInv'
<1>1. /\ asks' \in Seq(Ask) /\ Len(asks) \in Nat /\ Len(asks') = Len(asks) + 1
      /\ Len(asks) + 1 \in Uid
      /\ inq' \in Seq(Uid) /\ Len(inq') <= InDepth /\ heap' \in HeapType
  BY Offered
<1>2. TypeOK'
  BY <1>1 DEF TypeInv, TypeOK, HeapType, wsVars, outVars, agentVars
<1>3. Waiting' \subseteq Waiting \cup {Len(asks) + 1} /\ Outbox' = Outbox
  BY OfferedWaits DEF Waiting, Outbox, wsVars, outVars
<1>4. \A u \in 0 .. MaxAsks : u <= Len(asks) => u <= Len(asks')
  BY <1>1, ChatAssumption
<1>5. (\A u \in Waiting : u <= Len(asks)) => \A u \in Waiting' : u <= Len(asks')
  BY <1>1, <1>3, <1>4, Known DEF Uid
<1>6. (\A o \in Outbox : o.uid <= Len(asks)) => \A o \in Outbox' : o.uid <= Len(asks')
  BY <1>1, <1>3, <1>4, Known DEF Uid
<1>7. \A i \in DOMAIN sent' : sent'[i].uid <= Len(asks')
  BY <1>1, Known DEF outVars
<1>8. agent' # Idle => agent'.uid <= Len(asks')
  BY <1>1, Known DEF agentVars
<1>9. KnownOK'
  BY <1>1, <1>5, <1>6, <1>7, <1>8, ChatAssumption
  DEF TypeInv, KnownOK, Uid, wsVars, outVars, agentVars
<1> QED  BY <1>2, <1>9 DEF TypeInv

\* What the agent is at stays a message it took, and what it sends is known.
AgentOK ==
    agent # Idle => /\ agent \in Busy /\ agent.uid \in DOMAIN asks
                    /\ agent.out = "none" <=> agent.pc \in {"route", "think", "llm"}
                    /\ agent.pc \in {"saveUser", "saveAnswer"} => agent.out = "answer"

\* A step of the agent keeps the types if what it changes has them.
LEMMA AgentType ==
    ASSUME TypeInv, AgentOK',
           Elements(inq') \subseteq Elements(inq), Len(inq') <= InDepth, inq' \in Seq(Uid),
           Elements(outq') \subseteq Outgoing, Len(outq') <= OutDepth, outq' \in Seq(Outgoing),
           \A o \in Elements(outq') : o.uid \in DOMAIN asks,
           target' \in Target \cup {NoTarget}, sessions' \in [ChatId -> Seq(Line)],
           unkept' \subseteq Uid, heap' \in HeapType,
           UNCHANGED <<wsVars, feishuVars, sending, sent, asks, reboots>>
    PROVE  TypeInv'
<1>1. agent' \in Busy \cup {Idle}
  BY DEF AgentOK
<1>2. TypeOK'
  BY <1>1 DEF TypeInv, TypeOK, HeapType, wsVars, feishuVars
<1>3. Waiting' \subseteq Waiting
  BY DEF Waiting, wsVars
<1>4. \A o \in Outbox' : o.uid \in DOMAIN asks
  BY Known DEF Outbox
<1>5. KnownOK'
  BY <1>3, <1>4, Known DEF TypeInv, KnownOK, AgentOK, wsVars
<1> QED  BY <1>2, <1>5 DEF TypeInv

\* The agent's next state, when only its place in the turn changes.
LEMMA AgentMoves ==
    ASSUME TypeInv, agent # Idle, NEW pc \in {"route", "think", "llm", "saveUser",
                                              "saveAnswer", "push"},
           agent' = [agent EXCEPT !.pc = pc], UNCHANGED asks,
           agent.pc \in {"route", "think", "llm"} <=> pc \in {"route", "think", "llm"},
           pc \in {"saveUser", "saveAnswer"} => agent.out = "answer"
    PROVE  AgentOK' /\ agent'.uid = agent.uid /\ agent'.pc = pc /\ agent'.out = agent.out
           /\ agent'.told = agent.told
<1>1. agent \in Busy /\ agent.uid \in DOMAIN asks
  BY Known
<1>2. /\ agent' \in Busy /\ agent'.uid = agent.uid /\ agent'.pc = pc /\ agent'.out = agent.out
      /\ agent'.told = agent.told
  BY <1>1 DEF Busy
<1> QED  BY <1>1, <1>2 DEF AgentOK, TypeInv, KnownOK

\* What the agent may send is something to send.
LEMMA ToSendType ==
    ASSUME TypeInv, agent # Idle, NEW kind \in {"status", "answer", "error"}
    PROVE  /\ ToSend(kind) \in Outgoing /\ ToSend(kind).uid \in DOMAIN asks
           /\ ToSend(kind) = [kind |-> kind, uid |-> agent.uid]
           /\ OutText(ToSend(kind)) = [uid |-> agent.uid, of |-> kind]
           /\ OutText(ToSend(kind)) \in [uid : Uid, of : {"ask", "status", "answer", "error"}]
           /\ AskText(agent.uid) \in [uid : Uid, of : {"ask", "status", "answer", "error"}]
           /\ agent.uid \in Uid
<1>1. agent.uid \in Uid /\ agent.uid \in DOMAIN asks
  BY Known DEF Busy
<1> QED  BY <1>1 DEF ToSend, Outgoing, OutText, AskText

\* The agent has an answer, or none.
LEMMA AnswerMoves ==
    ASSUME TypeInv, agent # Idle, HasAnswer \/ HasError
    PROVE  /\ AgentOK' /\ agent'.uid = agent.uid
           /\ heap' \in HeapType
           /\ agent'.out \in {"answer", "error"}
           /\ heap' = heap \cup {OutText(ToSend(agent'.out))}
           /\ agent'.pc = "push" => agent'.out = "error"
           /\ agent'.told = agent.told
<1>1. agent \in Busy /\ agent.uid \in DOMAIN asks
  BY Known
<1>2. asks' = asks
  BY DEF HasAnswer, HasError
<1>3. CASE HasAnswer
  <2> DEFINE pc == IF Message.flag = "user" THEN "saveUser" ELSE "saveAnswer"
  <2>1. pc \in {"saveUser", "saveAnswer"}
    OBVIOUS
  <2> HIDE DEF pc
  <2>2. agent' = [agent EXCEPT !.out = "answer", !.pc = pc]
    BY <1>3 DEF HasAnswer, pc
  <2>3. /\ agent' \in Busy /\ agent'.uid = agent.uid /\ agent'.pc = pc /\ agent'.out = "answer"
        /\ agent'.told = agent.told
    BY <1>1, <2>1, <2>2 DEF Busy
  <2>4. heap' = heap \cup {OutText(ToSend("answer"))}
    BY <1>3 DEF HasAnswer
  <2> QED  BY <1>1, <1>2, <2>1, <2>3, <2>4, ToSendType DEF AgentOK, HeapType, TypeInv, TypeOK
<1>4. CASE HasError
  <2>1. agent' = [agent EXCEPT !.out = "error", !.pc = "push"]
    BY <1>4 DEF HasError
  <2>2. /\ agent' \in Busy /\ agent'.uid = agent.uid /\ agent'.pc = "push"
        /\ agent'.out = "error" /\ agent'.told = agent.told
    BY <1>1, <2>1 DEF Busy
  <2>3. heap' = heap \cup {OutText(ToSend("error"))}
    BY <1>4 DEF HasError
  <2> QED  BY <1>1, <1>2, <2>2, <2>3, ToSendType DEF AgentOK, HeapType, TypeInv, TypeOK
<1> QED  BY <1>3, <1>4

\* The outbound queue after a push that found room.
LEMMA Pushed ==
    ASSUME TypeInv, NEW o \in Outgoing, o.uid \in DOMAIN asks,
           HasRoom(outq, OutDepth), outq' = Queued(outq, o)
    PROVE  /\ outq' = Append(outq, o) /\ outq' \in Seq(Outgoing) /\ Len(outq') <= OutDepth
           /\ Elements(outq') = Elements(outq) \cup {o}
           /\ Elements(outq') \subseteq Outgoing
           /\ \A x \in Elements(outq') : x.uid \in DOMAIN asks
<1>1. outq \in Seq(Outgoing) /\ Len(outq) < OutDepth /\ outq' = Append(outq, o)
  BY DEF TypeInv, TypeOK, HasRoom, Queued
<1>2. /\ Append(outq, o) \in Seq(Outgoing) /\ Len(outq) \in Nat
      /\ Len(Append(outq, o)) = Len(outq) + 1
      /\ Elements(Append(outq, o)) = Elements(outq) \cup {o}
  BY <1>1, Appended
<1>3. Elements(outq) \subseteq Outbox
  BY DEF Outbox
<1> QED  BY <1>1, <1>2, <1>3, Known, ChatAssumption

\* What the queues of the agent are like when it leaves them alone.
LEMMA QueuesKept ==
    ASSUME TypeInv
    PROVE  /\ Len(inq) <= InDepth /\ inq \in Seq(Uid)
           /\ Elements(outq) \subseteq Outgoing /\ Len(outq) <= OutDepth /\ outq \in Seq(Outgoing)
           /\ \A o \in Elements(outq) : o.uid \in DOMAIN asks
           /\ target \in Target \cup {NoTarget} /\ sessions \in [ChatId -> Seq(Line)]
           /\ unkept \subseteq Uid /\ heap \in HeapType
<1>1. Elements(outq) \subseteq Outbox
  BY DEF Outbox
<1> QED  BY <1>1, Known DEF TypeInv, TypeOK, HeapType

\* A line is appended to the file of a chat.
LEMMA LineSaved ==
    ASSUME TypeInv, NEW chat \in ChatId, NEW line \in Line,
           sessions' = [sessions EXCEPT ![chat] = Append(@, line)]
    PROVE  /\ sessions' \in [ChatId -> Seq(Line)]
           /\ line \in Elements(sessions'[chat])
           /\ \A c \in ChatId : Elements(sessions[c]) \subseteq Elements(sessions'[c])
<1>1. sessions \in [ChatId -> Seq(Line)]
  BY DEF TypeInv, TypeOK
<1>2. /\ Append(sessions[chat], line) \in Seq(Line)
      /\ Elements(Append(sessions[chat], line)) = Elements(sessions[chat]) \cup {line}
  BY <1>1, Appended
<1> QED  BY <1>1, <1>2

\* The agent takes the message at the head of the queue.
LEMMA MessageTaken ==
    ASSUME TypeInv, TakeMessage
    PROVE  /\ inq \in Seq(Uid) /\ inq # <<>> /\ inq' = Tail(inq) /\ inq' \in Seq(Uid)
           /\ Head(inq) \in DOMAIN asks /\ Head(inq) \in Elements(inq)
           /\ agent = Idle /\ agent' \in Busy /\ agent' # Idle
           /\ agent'.uid = Head(inq) /\ agent'.pc = "route" /\ agent'.out = "none"
           /\ ~agent'.told
           /\ Elements(inq') \subseteq Elements(inq)
           /\ Len(inq') <= InDepth
<1>1. inq \in Seq(Uid) /\ inq # <<>> /\ inq' = Tail(inq) /\ agent = Idle
  BY DEF TakeMessage, TypeInv, TypeOK
<1>2. /\ Head(inq) \in Uid /\ Head(inq) \in Elements(inq) /\ Tail(inq) \in Seq(Uid)
      /\ Elements(Tail(inq)) \subseteq Elements(inq) /\ Len(Tail(inq)) < Len(inq)
      /\ Len(Tail(inq)) \in Nat
  BY <1>1, Taken
<1>3. Len(inq) \in Nat /\ Len(inq) <= InDepth /\ InDepth \in Nat
  BY <1>1, LenProperties, ChatAssumption DEF TypeInv, TypeOK
<1>4. Len(inq') <= InDepth
  BY <1>1, <1>2, <1>3
<1>5. Head(inq) \in DOMAIN asks
  BY <1>2, Known DEF Waiting
<1>6. agent' = [pc |-> "route", uid |-> Head(inq), round |-> 0, told |-> FALSE, out |-> "none"]
  BY DEF TakeMessage
<1>7. agent' \in Busy
  BY <1>2, <1>6, ChatAssumption DEF Busy
<1> QED  BY <1>1, <1>2, <1>4, <1>5, <1>6, <1>7 DEF Idle

LEMMA AgentTaskType == TypeInv /\ AgentTask => TypeInv'
<1> SUFFICES ASSUME TypeInv, AgentTask PROVE TypeInv'
  OBVIOUS
<1>1. CASE TakeMessage
  <2>1. /\ Head(inq) \in DOMAIN asks /\ asks[Head(inq)] \in Ask /\ AgentOK'
        /\ UNCHANGED <<wsVars, feishuVars, outVars, sessions, unkept, heap, asks, reboots>>
    BY <1>1, MessageTaken, Known DEF TakeMessage, AgentOK
  <2>2. target' \in Target \cup {NoTarget}
    BY <1>1, <2>1 DEF TakeMessage, NoteContact, Ask, Target, Channel, TypeInv, TypeOK
  <2> QED  BY <1>1, <2>1, <2>2, MessageTaken, QueuesKept, AgentType DEF outVars
<1>2. ASSUME agent # Idle, HasAnswer \/ HasError PROVE TypeInv'
  <2>1. UNCHANGED <<wsVars, feishuVars, inq, outVars, target, sessions, unkept, asks, reboots>>
    BY <1>2 DEF HasAnswer, HasError
  <2> QED  BY <1>2, <2>1, AnswerMoves, QueuesKept, AgentType DEF outVars
<1>3. CASE Route
  <2>1. CASE HasAnswer
    BY <1>2, <1>3, <2>1 DEF Route, At
  <2>2. CASE ~HasAnswer
    <3>1. /\ agent # Idle /\ agent.pc = "route" /\ agent' = [agent EXCEPT !.pc = "think"]
          /\ UNCHANGED <<wsVars, feishuVars, inq, outVars, target, sessions, unkept, heap, asks,
                         reboots>>
      BY <1>3, <2>2 DEF Route, At
    <3>2. AgentOK'
      BY <3>1, AgentMoves
    <3> QED  BY <3>1, <3>2, QueuesKept, AgentType DEF outVars
  <2> QED  BY <2>1, <2>2
<1>4. CASE Think
  <2>1. /\ agent # Idle /\ agent \in Busy /\ agent.pc = "think" /\ agent.uid \in DOMAIN asks
        /\ agent.out = "none"
        /\ UNCHANGED <<wsVars, feishuVars, inq, sending, sent, target, sessions, unkept, asks,
                       reboots>>
    BY <1>4, Known DEF Think, At, TypeInv, KnownOK
  <2>2. CASE /\ HasRoom(outq, OutDepth) /\ outq' = Queued(outq, ToSend("status"))
             /\ heap' = heap \cup {OutText(ToSend("status"))}
             /\ agent' = [agent EXCEPT !.pc = "llm", !.told = TRUE]
    <3>1. agent' \in Busy /\ agent'.uid = agent.uid /\ agent'.pc = "llm" /\ agent'.out = "none"
      BY <2>1, <2>2 DEF Busy
    <3>2. AgentOK'
      BY <2>1, <3>1 DEF AgentOK
    <3>3. heap' \in HeapType
      BY <2>1, <2>2, ToSendType DEF HeapType, TypeInv, TypeOK
    <3> QED  BY <2>1, <2>2, <3>2, <3>3, Pushed, ToSendType, QueuesKept, AgentType
  <2>3. CASE agent' = [agent EXCEPT !.pc = "llm"] /\ UNCHANGED <<outq, heap>>
    <3>1. AgentOK'
      BY <2>1, <2>3, AgentMoves
    <3> QED  BY <2>1, <2>3, <3>1, QueuesKept, AgentType
  <2> QED  BY <1>4, <2>2, <2>3 DEF Think
<1>5. CASE LlmUsesTools
  <2>1. /\ agent # Idle /\ agent \in Busy /\ agent.pc = "llm" /\ agent.uid \in DOMAIN asks
        /\ agent.out = "none" /\ agent.round + 1 < MaxRounds
        /\ agent' = [agent EXCEPT !.pc = "think", !.round = agent.round + 1]
        /\ UNCHANGED <<wsVars, feishuVars, inq, outVars, target, sessions, unkept, heap, asks,
                       reboots>>
    BY <1>5, Known DEF LlmUsesTools, At, TypeInv, KnownOK
  <2>2. agent.round + 1 \in 0 .. MaxRounds
    BY <2>1, ChatAssumption DEF Busy
  <2>3. agent' \in Busy /\ agent'.uid = agent.uid /\ agent'.pc = "think" /\ agent'.out = "none"
    BY <2>1, <2>2 DEF Busy
  <2>4. AgentOK'
    BY <2>1, <2>3 DEF AgentOK
  <2> QED  BY <2>1, <2>4, QueuesKept, AgentType DEF outVars
<1>6. CASE LlmAnswers \/ LlmFails
  BY <1>2, <1>6 DEF LlmAnswers, LlmFails, At
<1>7. CASE KeepSilent
  <2>1. /\ AgentOK' /\ heap' \subseteq heap
        /\ UNCHANGED <<wsVars, feishuVars, inq, outVars, target, sessions, unkept, asks, reboots>>
    BY <1>7 DEF KeepSilent, AgentOK
  <2> QED  BY <2>1, QueuesKept, AgentType DEF outVars, HeapType
<1>8. CASE SaveUser
  <2>1. /\ agent # Idle /\ agent.pc = "saveUser" /\ agent.out = "answer"
        /\ agent' = [agent EXCEPT !.pc = "saveAnswer"]
        /\ UNCHANGED <<wsVars, feishuVars, inq, outVars, target, unkept, heap, asks, reboots>>
    BY <1>8 DEF SaveUser, At, TypeInv, KnownOK
  <2>2. AgentOK'
    BY <2>1, AgentMoves
  <2>3. Message.chat \in ChatId /\ [role |-> "user", uid |-> agent.uid] \in Line
    BY <2>1, Known, ToSendType DEF Message, Ask, Line
  <2>4. sessions' \in [ChatId -> Seq(Line)]
    BY <1>8, <2>3, LineSaved, QueuesKept DEF SaveUser
  <2> QED  BY <2>1, <2>2, <2>4, QueuesKept, AgentType DEF outVars
<1>9. CASE SaveAnswer
  <2>1. /\ agent # Idle /\ agent.pc = "saveAnswer" /\ agent.out = "answer"
        /\ agent' = [agent EXCEPT !.pc = "push"]
        /\ UNCHANGED <<wsVars, feishuVars, inq, outVars, target, heap, asks, reboots>>
    BY <1>9 DEF SaveAnswer, At, TypeInv, KnownOK
  <2>2. AgentOK'
    BY <2>1, AgentMoves
  <2>3. Message.chat \in ChatId /\ [role |-> "assistant", uid |-> agent.uid] \in Line
    BY <2>1, Known, ToSendType DEF Message, Ask, Line
  <2>4. sessions' \in [ChatId -> Seq(Line)]
    BY <1>9, <2>3, LineSaved, QueuesKept DEF SaveAnswer
  <2>5. unkept' \subseteq Uid
    BY <1>9, <2>1, ToSendType, QueuesKept DEF SaveAnswer
  <2> QED  BY <2>1, <2>2, <2>4, <2>5, QueuesKept, AgentType DEF outVars
<1>10. CASE PushAnswer
  <2>1. /\ agent # Idle /\ agent \in Busy /\ agent.pc = "push" /\ agent' = Idle
        /\ agent.out \in {"answer", "error"} /\ heap' \subseteq heap
        /\ UNCHANGED <<wsVars, feishuVars, inq, sending, sent, target, sessions, unkept, asks,
                       reboots>>
    BY <1>10, Known DEF PushAnswer, At, TypeInv, KnownOK, Busy
  <2>2. AgentOK' /\ heap' \in HeapType
    BY <2>1, QueuesKept DEF AgentOK, HeapType
  <2>3. CASE HasRoom(outq, OutDepth) /\ outq' = Queued(outq, ToSend(agent.out))
    BY <2>1, <2>2, <2>3, ToSendType, Pushed, QueuesKept, AgentType
  <2>4. CASE outq' = outq
    BY <2>1, <2>2, <2>4, QueuesKept, AgentType
  <2> QED  BY <1>10, <2>3, <2>4 DEF PushAnswer
<1> QED  BY <1>1, <1>3, <1>4, <1>5, <1>6, <1>7, <1>8, <1>9, <1>10 DEF AgentTask

\* The dispatcher takes the head of its queue.
LEMMA OutgoingTaken ==
    ASSUME TypeInv, TakeOutgoing
    PROVE  /\ outq \in Seq(Outgoing) /\ outq # <<>> /\ sending = Nothing
           /\ outq' = Tail(outq) /\ sending' = Head(outq) /\ sending' = outq[1]
           /\ sending' # Nothing
           /\ outq' \in Seq(Outgoing) /\ Len(outq') <= OutDepth
           /\ sending' \in Outgoing
           /\ Outbox' = Outbox
<1>1. /\ outq \in Seq(Outgoing) /\ outq # <<>> /\ sending = Nothing
      /\ outq' = Tail(outq) /\ sending' = Head(outq)
  BY DEF TakeOutgoing, TypeInv, TypeOK
<1>2. /\ Head(outq) \in Outgoing /\ Head(outq) = outq[1] /\ Tail(outq) \in Seq(Outgoing)
      /\ Elements(outq) = {Head(outq)} \cup Elements(Tail(outq))
      /\ Len(Tail(outq)) < Len(outq) /\ Len(Tail(outq)) \in Nat
  BY <1>1, Taken
<1>3. Len(outq) \in Nat /\ Len(outq) <= OutDepth /\ OutDepth \in Nat
  BY <1>1, LenProperties, ChatAssumption DEF TypeInv, TypeOK
<1>4. sending' # Nothing
  BY <1>1, <1>2 DEF Outgoing, Nothing
<1>5. Outbox' = Outbox
  BY <1>1, <1>2, <1>4 DEF Outbox
<1> QED  BY <1>1, <1>2, <1>3, <1>4, <1>5

\* The four ways a message leaves the dispatcher: it reaches somebody or it does not.
Leaves(to) ==
    /\ sending # Nothing
    /\ sending' = Nothing
    /\ heap' = heap \ {OutText(sending)}
    /\ sent' = sent \/ sent' = Append(sent, [kind |-> sending.kind, uid |-> sending.uid, to |-> to])
    /\ UNCHANGED <<conn, http, opens, refused, feishuVars, inq, outq, agentVars, asks, reboots>>

\* What it sends reaches nobody, Feishu, or a connection that is open, and the client table
\* loses at most an entry.
LEMMA DispatcherDone ==
    ASSUME TypeInv, SendElsewhere \/ WsUnknown \/ WsSend
    PROVE  \E to \in Nat :
              /\ Leaves(to)
              /\ clients' \in Table /\ \A e \in Entry : clients'[e] \in {clients[e], Inactive}
              /\ to # 0 => \E e \in Entry : /\ clients[e] # Inactive
                                            /\ clients[e].chat = asks[sending.uid].chat
                                            /\ conn[clients[e].fd] = to
<1>1. /\ clients \in Table /\ conn \in [Fd -> 0 .. MaxOpens]
      /\ sent \in Seq([kind : {"status", "answer", "error"}, uid : Uid, to : Nat])
      /\ sending \in Outgoing \cup {Nothing}
  BY DEF TypeInv, TypeOK, Table
<1>2. ASSUME sending # Nothing, DoneSending(<<>>) PROVE Leaves(0)
  <2>1. sent \o <<>> = sent
    BY <1>1, ConcatEmptySeq
  <2> QED  BY <1>2, <2>1 DEF DoneSending, Leaves
<1>3. ASSUME NEW to \in Nat, sending # Nothing, DoneSending(Reaching(to)) PROVE Leaves(to)
  <2> DEFINE m == [kind |-> sending.kind, uid |-> sending.uid, to |-> to]
  <2>1. m \in [kind : {"status", "answer", "error"}, uid : Uid, to : Nat]
    BY <1>1, <1>3 DEF Outgoing
  <2> HIDE DEF m
  <2>2. sent \o <<m>> = Append(sent, m)
    BY <1>1, <2>1, AppendIsConcat
  <2>3. sent' = Append(sent, m)
    BY <1>3, <2>2 DEF DoneSending, Reaching, m
  <2> QED  BY <1>3, <2>3 DEF DoneSending, Leaves, m
<1>4. CASE SendElsewhere \/ WsUnknown
  <2>1. Leaves(0) /\ clients' = clients
    BY <1>2, <1>3, <1>4 DEF SendElsewhere, WsUnknown
  <2> QED  BY <1>1, <2>1 DEF Table
<1>5. CASE WsSend
  <2> DEFINE e == Lowest(ByChat(clients, Sending.chat))
  <2>1. e \in ByChat(clients, Sending.chat)
    BY <1>5, LowestIn DEF WsSend, ByChat
  <2>2. /\ e \in Entry /\ clients[e] # Inactive /\ clients[e].chat = asks[sending.uid].chat
        /\ clients[e].fd \in Fd
    BY <1>1, <2>1 DEF ByChat, Sending, Table, Client
  <2>3. \/ conn[clients[e].fd] # 0 /\ DoneSending(Reaching(conn[clients[e].fd])) /\ clients' = clients
        \/ DoneSending(<<>>) /\ clients' = RemoveClient(clients, clients[e].fd)
    BY <1>5 DEF WsSend
  <2>4. sending # Nothing
    BY <1>5 DEF WsSend
  <2>5. conn[clients[e].fd] \in Nat
    BY <1>1, <2>2, ChatAssumption
  <2> HIDE DEF e
  <2>6. CASE DoneSending(Reaching(conn[clients[e].fd])) /\ clients' = clients
    BY <1>1, <1>3, <2>2, <2>4, <2>5, <2>6 DEF Table
  <2>7. CASE DoneSending(<<>>) /\ clients' = RemoveClient(clients, clients[e].fd)
    BY <1>1, <1>2, <2>2, <2>4, <2>7, RemovedClient
  <2> QED  BY <2>3, <2>6, <2>7
<1> QED  BY <1>4, <1>5

LEMMA OutboundTaskType == TypeInv /\ OutboundTask => TypeInv'
<1> SUFFICES ASSUME TypeInv, OutboundTask PROVE TypeInv'
  OBVIOUS
<1>1. CASE TakeOutgoing
  <2>1. UNCHANGED <<wsVars, feishuVars, inq, sent, agentVars, heap, asks, reboots>>
    BY <1>1 DEF TakeOutgoing
  <2>2. TypeOK'
    BY <1>1, <2>1, OutgoingTaken DEF TypeInv, TypeOK, wsVars, feishuVars, agentVars
  <2>3. KnownOK'
    BY <1>1, <2>1, OutgoingTaken DEF TypeInv, KnownOK, Waiting, wsVars, feishuVars, agentVars
  <2> QED  BY <2>2, <2>3 DEF TypeInv
<1>2. CASE SendElsewhere \/ WsUnknown \/ WsSend
  <2>1. PICK to \in Nat : Leaves(to) /\ clients' \in Table
    BY <1>2, DispatcherDone
  <2> DEFINE M == [kind : {"status", "answer", "error"}, uid : Uid, to : Nat]
             m == [kind |-> sending.kind, uid |-> sending.uid, to |-> to]
  <2>2. sending \in Outgoing /\ sending \in Outbox
    BY <2>1 DEF Leaves, TypeInv, TypeOK, Outbox
  <2>3. m \in M /\ m.uid \in DOMAIN asks /\ sent \in Seq(M)
    BY <2>1, <2>2, Known DEF Outgoing, TypeInv, TypeOK
  <2>4. sent' = sent \/ sent' = Append(sent, m)
    BY <2>1 DEF Leaves
  <2> HIDE DEF M, m
  <2>5. sent' \in Seq(M) /\ \A i \in DOMAIN sent' : sent'[i].uid \in DOMAIN asks
    <3>1. CASE sent' = sent
      BY <2>3, <3>1, Known
    <3>2. CASE sent' = Append(sent, m)
      <4>1. /\ Append(sent, m) \in Seq(M) /\ Len(sent) \in Nat /\ DOMAIN sent = 1 .. Len(sent)
            /\ DOMAIN Append(sent, m) = 1 .. Len(sent) + 1
            /\ \A i \in DOMAIN sent : Append(sent, m)[i] = sent[i]
            /\ Append(sent, m)[Len(sent) + 1] = m
        BY <2>3, Appended
      <4> QED  BY <2>3, <3>2, <4>1, Known
    <3> QED  BY <2>4, <3>1, <3>2
  <2>6. TypeOK'
    BY <2>1, <2>5 DEF Leaves, M, Table, TypeInv, TypeOK, feishuVars, agentVars
  <2>7. Waiting' = Waiting /\ Outbox' \subseteq Outbox
    BY <2>1 DEF Leaves, Waiting, Outbox
  <2>8. KnownOK'
    BY <2>1, <2>5, <2>7, Known DEF Leaves, TypeInv, KnownOK, agentVars
  <2> QED  BY <2>6, <2>8 DEF TypeInv
<1> QED  BY <1>1, <1>2 DEF OutboundTask

\* A message from a browser becomes the next message, of the chat and connection it came on.
LEMMA WsMessageTaken ==
    ASSUME TypeInv, NEW fd \in Fd, NEW chat \in ChatId, WsMessage(fd, chat)
    PROVE  /\ Len(asks) \in Nat /\ Len(asks) + 1 \in Uid /\ Len(asks') = Len(asks) + 1
           /\ asks' \in Seq(Ask) /\ DOMAIN asks = 1 .. Len(asks) /\ DOMAIN asks' = 1 .. Len(asks) + 1
           /\ \A u \in DOMAIN asks : asks'[u] = asks[u]
           /\ asks'[Len(asks) + 1] = [chan |-> "websocket", chat |-> chat, flag |-> "user",
                                      from |-> conn[fd]]
           /\ conn[fd] \in Nat \ {0} /\ http = 0
           /\ inq \in Seq(Uid) /\ inq' \in Seq(Uid) /\ Len(inq') <= InDepth
           /\ \/ inq' = Append(inq, Len(asks) + 1) /\ http' = 0
              \/ inq' = inq /\ http' = Len(asks) + 1
           /\ Waiting' \subseteq Waiting \cup {Len(asks) + 1}
           /\ heap' = heap \cup {AskText(Len(asks) + 1)} /\ heap' \in HeapType
<1> DEFINE ask == [chan |-> "websocket", chat |-> chat, flag |-> "user", from |-> conn[fd]]
<1>1. /\ asks \in Seq(Ask) /\ asks' = Append(asks, ask) /\ Len(asks) < MaxAsks
      /\ conn[fd] # 0 /\ http = 0 /\ inq \in Seq(Uid) /\ Len(inq) <= InDepth
      /\ heap' = heap \cup {AskText(Len(asks) + 1)} /\ heap \in HeapType
  BY DEF WsMessage, CanOffer, TypeInv, TypeOK, HeapType
<1>2. conn[fd] \in Nat \ {0}
  BY <1>1, ChatAssumption DEF TypeInv, TypeOK
<1>3. ask \in Ask
  BY <1>2 DEF Ask, Channel, Flag
<1> HIDE DEF ask
<1>4. /\ Len(asks) \in Nat /\ Len(asks') = Len(asks) + 1
      /\ asks' \in Seq(Ask) /\ DOMAIN asks = 1 .. Len(asks) /\ DOMAIN asks' = 1 .. Len(asks) + 1
      /\ \A u \in DOMAIN asks : asks'[u] = asks[u]
      /\ asks'[Len(asks) + 1] = ask
  BY <1>1, <1>3, Appended
<1>5. Len(asks) + 1 \in Uid
  BY <1>1, <1>4, ChatAssumption DEF Uid
<1>6. \/ inq' = Append(inq, Len(asks) + 1) /\ http' = 0 /\ Len(inq) < InDepth
      \/ inq' = inq /\ http' = Len(asks) + 1
  BY <1>1 DEF WsMessage, HasRoom, Queued
<1>7. /\ Append(inq, Len(asks) + 1) \in Seq(Uid) /\ Len(inq) \in Nat
      /\ Len(Append(inq, Len(asks) + 1)) = Len(inq) + 1
      /\ Elements(Append(inq, Len(asks) + 1)) = Elements(inq) \cup {Len(asks) + 1}
  BY <1>1, <1>5, Appended
<1>8. inq' \in Seq(Uid) /\ Len(inq') <= InDepth
  <2>1. CASE inq' = inq
    BY <1>1, <2>1
  <2>2. CASE inq' = Append(inq, Len(asks) + 1) /\ Len(inq) < InDepth
    BY <1>7, <2>2, ChatAssumption
  <2> QED  BY <1>6, <2>1, <2>2
<1>9. Waiting' \subseteq Waiting \cup {Len(asks) + 1}
  BY <1>6, <1>7 DEF Waiting
<1>10. heap' \in HeapType
  <2>1. AskText(Len(asks) + 1) \in [uid : Uid, of : {"ask", "status", "answer", "error"}]
    BY <1>5 DEF AskText
  <2> QED  BY <1>1, <2>1 DEF HeapType
<1> QED  BY <1>1, <1>2, <1>4, <1>5, <1>6, <1>8, <1>9, <1>10 DEF ask

\* The connections after a message: its connection used its chat.
LEMMA ChatUsed ==
    ASSUME TypeInv, NEW fd \in Fd, NEW chat \in ChatId, WsMessage(fd, chat),
           conn[fd] \in DOMAIN opens
    PROVE  /\ opens' \in Seq([fd : Fd, chats : SUBSET ChatId]) /\ Len(opens') = Len(opens)
           /\ DOMAIN opens' = DOMAIN opens
           /\ \A c \in DOMAIN opens : opens'[c].fd = opens[c].fd /\ opens[c].chats \subseteq opens'[c].chats
           /\ chat \in opens'[conn[fd]].chats
<1> DEFINE O == [fd : Fd, chats : SUBSET ChatId]
           c == conn[fd]
           o == [fd |-> opens[c].fd, chats |-> opens[c].chats \cup {chat}]
<1>1. opens \in Seq(O) /\ Len(opens) \in Nat /\ DOMAIN opens = 1 .. Len(opens) /\ c \in 1 .. Len(opens)
  BY LenProperties DEF TypeInv, TypeOK
<1>2. opens[c] \in O
  BY <1>1, ElementOfSeq
<1>3. o \in O
  BY <1>2
<1>4. opens' = [opens EXCEPT ![c] = o]
  <2>1. [opens[c] EXCEPT !.chats = opens[c].chats \cup {chat}] = o
    BY <1>2
  <2>2. opens' = [opens EXCEPT ![c] = [opens[c] EXCEPT !.chats = opens[c].chats \cup {chat}]]
    BY <1>1 DEF WsMessage
  <2> QED  BY <2>1, <2>2
<1> HIDE DEF O, c
<1>5. /\ opens' \in Seq(O) /\ Len(opens') = Len(opens)
      /\ \A j \in 1 .. Len(opens) : opens'[j] = IF j = c THEN o ELSE opens[j]
  BY <1>1, <1>3, <1>4, ExceptSeq
<1>6. DOMAIN opens' = 1 .. Len(opens)
  BY <1>5, LenProperties
<1> QED  BY <1>1, <1>5, <1>6 DEF O, c

\* The push that ws_handler waited for.
LEMMA WsPushed ==
    ASSUME TypeInv, WsPushEnds
    PROVE  /\ http \in DOMAIN asks /\ http \in Uid /\ http # 0 /\ http' = 0
           /\ inq \in Seq(Uid) /\ inq' \in Seq(Uid) /\ Len(inq') <= InDepth
           /\ \/ /\ inq' = Append(inq, http) /\ refused' = refused
                 /\ Elements(inq') = Elements(inq) \cup {http}
              \/ inq' = inq /\ refused' = refused \cup {http}
           /\ Waiting' \subseteq Waiting
<1>1. http \in DOMAIN asks /\ http \in Uid
  BY Known DEF WsPushEnds, Waiting
<1>2. /\ http # 0 /\ http' = 0 /\ inq \in Seq(Uid) /\ Len(inq) <= InDepth
      /\ \/ inq' = Append(inq, http) /\ refused' = refused /\ Len(inq) < InDepth
         \/ inq' = inq /\ refused' = refused \cup {http}
  BY DEF WsPushEnds, HasRoom, Queued, TypeInv, TypeOK
<1>3. /\ Append(inq, http) \in Seq(Uid) /\ Len(inq) \in Nat
      /\ Len(Append(inq, http)) = Len(inq) + 1
      /\ Elements(Append(inq, http)) = Elements(inq) \cup {http}
  BY <1>1, <1>2, Appended
<1>4. CASE inq' = Append(inq, http) /\ refused' = refused /\ Len(inq) < InDepth
  BY <1>1, <1>2, <1>3, <1>4, ChatAssumption DEF Waiting
<1>5. CASE inq' = inq /\ refused' = refused \cup {http}
  BY <1>1, <1>2, <1>5 DEF Waiting
<1> QED  BY <1>2, <1>4, <1>5

\* A handshake adds a connection, the last one of its socket.
LEMMA Opened ==
    ASSUME TypeInv, NEW fd \in Fd, Open(fd)
    PROVE  /\ opens' \in Seq([fd : Fd, chats : SUBSET ChatId])
           /\ Len(opens) \in Nat /\ Len(opens') = Len(opens) + 1 /\ Len(opens') <= MaxOpens
           /\ DOMAIN opens = 1 .. Len(opens) /\ DOMAIN opens' = 1 .. Len(opens) + 1
           /\ \A c \in DOMAIN opens : opens'[c] = opens[c]
           /\ opens'[Len(opens) + 1] = [fd |-> fd, chats |-> {}]
           /\ conn' = [conn EXCEPT ![fd] = Len(opens) + 1] /\ conn' \in [Fd -> 0 .. MaxOpens]
<1>1. /\ opens \in Seq([fd : Fd, chats : SUBSET ChatId]) /\ Len(opens) < MaxOpens
      /\ opens' = Append(opens, [fd |-> fd, chats |-> {}])
      /\ conn \in [Fd -> 0 .. MaxOpens] /\ conn' = [conn EXCEPT ![fd] = Len(opens) + 1]
  BY DEF Open, TypeInv, TypeOK
<1>2. [fd |-> fd, chats |-> {}] \in [fd : Fd, chats : SUBSET ChatId]
  OBVIOUS
<1>3. /\ opens' \in Seq([fd : Fd, chats : SUBSET ChatId])
      /\ Len(opens) \in Nat /\ Len(opens') = Len(opens) + 1
      /\ DOMAIN opens = 1 .. Len(opens) /\ DOMAIN opens' = 1 .. Len(opens) + 1
      /\ \A c \in DOMAIN opens : opens'[c] = opens[c]
      /\ opens'[Len(opens) + 1] = [fd |-> fd, chats |-> {}]
  BY <1>1, <1>2, Appended
<1>4. Len(opens) + 1 \in 0 .. MaxOpens
  BY <1>1, <1>3, ChatAssumption
<1> QED  BY <1>1, <1>3, <1>4

\* A Feishu message is recorded, and then offered or dropped.
LEMMA Recorded ==
    ASSUME TypeInv, NEW id \in FeishuId, FeishuMessage(id)
    PROVE  /\ seen' = RingPut(seen, [id |-> id], SeenDepth) /\ fed' = Append(fed, id)
           /\ IsRing(seen', [id : FeishuId], SeenDepth) /\ fed' \in Seq(FeishuId)
           /\ UNCHANGED <<wsVars, outVars, agentVars, reboots>>
           /\ \/ \E ask \in Ask : ask.from = 0 /\ Offer(ask)
              \/ UNCHANGED <<inq, heap, asks>>
<1>1. seen' = RingPut(seen, [id |-> id], SeenDepth) /\ fed' = Append(fed, id)
  BY DEF FeishuMessage, Record
<1>2. IsRing(seen', [id : FeishuId], SeenDepth)
  BY <1>1, RingPutType, ChatAssumption DEF TypeInv, TypeOK
<1>3. fed' \in Seq(FeishuId)
  BY <1>1, Appended DEF TypeInv, TypeOK
<1> DEFINE ask == [chan |-> "feishu", chat |-> FeishuChat, flag |-> "user", from |-> 0]
<1>4. ask \in Ask /\ ask.from = 0
  BY ChatAssumption DEF Ask, Channel, Flag
<1>5. Offer(ask) \/ UNCHANGED <<inq, heap, asks>>
  BY DEF FeishuMessage
<1> HIDE DEF ask
<1>6. (\E a \in Ask : a.from = 0 /\ Offer(a)) \/ UNCHANGED <<inq, heap, asks>>
  BY <1>4, <1>5
<1>7. UNCHANGED <<wsVars, outVars, agentVars, reboots>>
  BY DEF FeishuMessage
<1> QED  BY <1>1, <1>2, <1>3, <1>6, <1>7

\* The board's own tasks offer messages that come from no browser.
LEMMA OwnMessage ==
    ASSUME TypeInv, ProactiveCheck \/ \E ask \in OtherAsk : OtherMessage(ask)
    PROVE  /\ \E ask \in Ask : ask.from = 0 /\ Offer(ask)
           /\ UNCHANGED <<wsVars, feishuVars, outVars, agentVars, reboots>>
<1>1. CASE ProactiveCheck
  <2> DEFINE ask == [chan |-> target.chan, chat |-> target.chat, flag |-> "proactive", from |-> 0]
  <2>1. target \in Target
    BY <1>1 DEF ProactiveCheck, TypeInv, TypeOK
  <2>2. ask \in Ask /\ ask.from = 0
    BY <2>1 DEF Ask, Target, Channel, Flag
  <2>3. Offer(ask)
    BY <1>1 DEF ProactiveCheck
  <2> HIDE DEF ask
  <2> QED  BY <1>1, <2>2, <2>3 DEF ProactiveCheck
<1>2. ASSUME NEW ask \in OtherAsk, OtherMessage(ask)
      PROVE  /\ \E a \in Ask : a.from = 0 /\ Offer(a)
             /\ UNCHANGED <<wsVars, feishuVars, outVars, agentVars, reboots>>
  <2>1. ask \in Ask /\ ask.from = 0
    BY ChatAssumption DEF Ask
  <2> QED  BY <1>2, <2>1 DEF OtherMessage
<1> QED  BY <1>1, <1>2

LEMMA TypeStep == TypeInv /\ [Next]_vars => TypeInv'
<1> SUFFICES ASSUME TypeInv, [Next]_vars PROVE TypeInv'
  OBVIOUS
<1>0. CASE UNCHANGED vars
  BY <1>0 DEF vars, wsVars, feishuVars, outVars, agentVars, TypeInv, TypeOK, KnownOK, Waiting, Outbox
<1>1. ASSUME NEW fd \in Fd, Open(fd) PROVE TypeInv'
  <2>1. UNCHANGED <<http, refused, feishuVars, inq, outVars, agentVars, heap, asks, reboots>>
    BY <1>1 DEF Open
  <2>2. clients' \in Table
    BY <1>1, AddedClient DEF Open, TypeInv, TypeOK, Table
  <2>3. TypeOK'
    BY <1>1, <2>1, <2>2, Opened DEF TypeInv, TypeOK, Table, feishuVars, outVars, agentVars
  <2>4. \A f \in Fd : conn'[f] <= Len(opens')
    <3>1. \A f \in Fd : conn[f] \in Nat /\ conn[f] <= Len(opens)
      BY ChatAssumption DEF TypeInv, TypeOK, KnownOK
    <3>2. /\ conn' = [conn EXCEPT ![fd] = Len(opens) + 1] /\ conn \in [Fd -> 0 .. MaxOpens]
          /\ Len(opens) \in Nat /\ Len(opens') = Len(opens) + 1
      BY <1>1, Opened DEF TypeInv, TypeOK
    <3> QED  BY <3>1, <3>2
  <2>5. KnownOK'
    BY <1>1, <2>1, <2>4, Opened DEF TypeInv, KnownOK, Waiting, Outbox, outVars, agentVars
  <2> QED  BY <2>3, <2>5 DEF TypeInv
<1>2. ASSUME NEW fd \in Fd, Close(fd) PROVE TypeInv'
  <2>1. /\ conn' = [conn EXCEPT ![fd] = 0]
        /\ UNCHANGED <<clients, http, opens, refused, feishuVars, inq, outVars, agentVars, heap,
                       asks, reboots>>
    BY <1>2 DEF Close
  <2>2. conn' \in [Fd -> 0 .. MaxOpens] /\ \A f \in Fd : conn'[f] <= Len(opens')
    <3>1. Len(opens) \in Nat
      BY LenProperties DEF TypeInv, TypeOK
    <3> QED  BY <2>1, <3>1, ChatAssumption DEF TypeInv, TypeOK, KnownOK
  <2>3. TypeOK'
    BY <2>1, <2>2 DEF TypeInv, TypeOK, feishuVars, outVars, agentVars
  <2>4. KnownOK'
    BY <2>1, <2>2 DEF TypeInv, KnownOK, Waiting, Outbox, outVars, agentVars
  <2> QED  BY <2>3, <2>4 DEF TypeInv
<1>3. ASSUME NEW fd \in Fd, NEW chat \in ChatId, WsMessage(fd, chat) PROVE TypeInv'
  <2>1. UNCHANGED <<conn, refused, feishuVars, outVars, agentVars, reboots>>
    BY <1>3 DEF WsMessage
  <2>2. clients' \in Table
    BY <1>3, NamedClient DEF WsMessage, TypeInv, TypeOK, Table
  <2>3. conn[fd] \in DOMAIN opens
    <3>1. DOMAIN opens = 1 .. Len(opens) /\ Len(opens) \in Nat
      BY LenProperties DEF TypeInv, TypeOK
    <3>2. conn[fd] \in Nat \ {0}
      BY <1>3, WsMessageTaken
    <3>3. conn[fd] <= Len(opens)
      BY DEF TypeInv, KnownOK
    <3> QED  BY <3>1, <3>2, <3>3
  <2>4. /\ opens' \in Seq([fd : Fd, chats : SUBSET ChatId]) /\ Len(opens') = Len(opens)
    BY <1>3, <2>3, ChatUsed
  <2>5. /\ asks' \in Seq(Ask) /\ Len(asks) + 1 \in Uid /\ Len(asks') = Len(asks) + 1
        /\ Len(asks) \in Nat /\ inq' \in Seq(Uid) /\ Len(inq') <= InDepth /\ heap' \in HeapType
        /\ (http' = 0 \/ http' = Len(asks) + 1) /\ DOMAIN asks = 1 .. Len(asks)
        /\ Waiting' \subseteq Waiting \cup {Len(asks) + 1}
    BY <1>3, WsMessageTaken
  <2>6. http' \in 0 .. MaxAsks
    BY <2>5, ChatAssumption DEF Uid
  <2>7. TypeOK'
    BY <2>1, <2>2, <2>4, <2>5, <2>6
    DEF TypeInv, TypeOK, Table, HeapType, feishuVars, outVars, agentVars
  <2>8. \A u \in DOMAIN asks : u <= Len(asks')
    BY <2>5
  <2>9. \A u \in Waiting' : u <= Len(asks')
    BY <2>5, <2>8, Known
  <2>10. Outbox' = Outbox
    BY <2>1 DEF Outbox, outVars
  <2>11. KnownOK'
    BY <2>1, <2>4, <2>5, <2>8, <2>9, <2>10, Known, ChatAssumption
    DEF TypeInv, KnownOK, Uid, outVars, agentVars
  <2> QED  BY <2>7, <2>11 DEF TypeInv
<1>4. CASE WsPushEnds
  <2>1. UNCHANGED <<conn, clients, opens, feishuVars, outVars, agentVars, heap, asks, reboots>>
    BY <1>4 DEF WsPushEnds
  <2>2. http' \in 0 .. MaxAsks /\ refused' \subseteq Uid
    BY <1>4, WsPushed, ChatAssumption DEF TypeInv, TypeOK
  <2>3. TypeOK'
    BY <1>4, <2>1, <2>2, WsPushed DEF TypeInv, TypeOK, feishuVars, outVars, agentVars
  <2>4. KnownOK'
    BY <1>4, <2>1, WsPushed DEF TypeInv, KnownOK, Outbox, outVars, agentVars
  <2> QED  BY <2>3, <2>4 DEF TypeInv
<1>5. ASSUME NEW id \in FeishuId, FeishuMessage(id) PROVE TypeInv'
  <2>1. CASE \E ask \in Ask : Offer(ask)
    BY <1>5, <2>1, Recorded, OfferType
  <2>2. CASE UNCHANGED <<inq, heap, asks>>
    <3>1. TypeOK'
      BY <1>5, <2>2, Recorded DEF TypeInv, TypeOK, wsVars, outVars, agentVars
    <3>2. KnownOK'
      BY <1>5, <2>2, Recorded DEF TypeInv, KnownOK, Waiting, Outbox, wsVars, outVars, agentVars
    <3> QED  BY <3>1, <3>2 DEF TypeInv
  <2> QED  BY <1>5, <2>1, <2>2, Recorded
<1>6. ASSUME NEW id \in FeishuId, FeishuDuplicate(id) PROVE TypeInv'
  BY <1>0, <1>6 DEF FeishuDuplicate
<1>7. CASE ProactiveCheck \/ \E ask \in OtherAsk : OtherMessage(ask)
  <2>1. IsRing(seen', [id : FeishuId], SeenDepth) /\ fed' \in Seq(FeishuId)
    BY <1>7, OwnMessage DEF TypeInv, TypeOK, feishuVars
  <2> QED  BY <1>7, <2>1, OwnMessage, OfferType
<1>8. CASE AgentTask \/ OutboundTask
  BY <1>8, AgentTaskType, OutboundTaskType
<1>9. CASE Reboot
  <2>1. /\ <<>> \in Seq(Uid) /\ <<>> \in Seq(Outgoing) /\ <<>> \in Seq(FeishuId)
        /\ Len(<<>>) = 0 /\ Elements(<<>>) = {}
    BY EmptySeq DEF Elements
  <2>2. NoClients \in [Entry -> Client \cup {Inactive}]
    BY DEF NoClients
  <2>3. IsRing(EmptyRing, [id : FeishuId], SeenDepth)
    BY EmptyRingType, ChatAssumption
  <2>4. TypeOK'
    BY <1>9, <2>1, <2>2, <2>3, ChatAssumption DEF Reboot, TypeInv, TypeOK
  <2>5. Len(opens) \in Nat
    BY LenProperties DEF TypeInv, TypeOK
  <2>6. KnownOK'
    BY <1>9, <2>1, <2>5 DEF Reboot, TypeInv, KnownOK, Waiting, Outbox
  <2> QED  BY <2>4, <2>6 DEF TypeInv
<1> QED  BY <1>0, <1>1, <1>2, <1>3, <1>4, <1>5, <1>6, <1>7, <1>8, <1>9 DEF Next

LEMMA AlwaysTyped == Spec => []TypeInv
<1> QED  BY TypeInit, TypeStep, PTL DEF Spec

\* Every variable keeps its type and neither queue of the bus grows past its depth, whatever
\* the LLM, the browsers and Feishu do.
THEOREM ChatTypeCorrect == Spec => []TypeOK
<1>1. TypeInv => TypeOK
  BY DEF TypeInv
<1> QED  BY <1>1, AlwaysTyped, PTL

-----------------------------------------------------------------------------
(* What was told is saved. *)

\* The histories only grow: messages, session files, and what could not be saved.
Grows ==
    /\ \A u \in DOMAIN asks : u \in DOMAIN asks' /\ asks'[u] = asks[u]
    /\ unkept \subseteq unkept'
    /\ \A c \in ChatId : Elements(sessions[c]) \subseteq Elements(sessions'[c])

LEMMA HistoriesGrow == TypeInv /\ [Next]_vars => Grows
<1> SUFFICES ASSUME TypeInv, [Next]_vars PROVE Grows
  OBVIOUS
<1>1. ASSUME UNCHANGED asks \/ \E ask \in Ask : Offer(ask), UNCHANGED <<sessions, unkept>>
      PROVE  Grows
  BY <1>1, Offered DEF Grows
<1>2. CASE UNCHANGED vars
  BY <1>1, <1>2 DEF vars, agentVars
<1>3. ASSUME NEW fd \in Fd, Open(fd) \/ Close(fd) PROVE Grows
  BY <1>1, <1>3 DEF Open, Close, agentVars
<1>4. ASSUME NEW fd \in Fd, NEW chat \in ChatId, WsMessage(fd, chat) PROVE Grows
  <2>1. UNCHANGED <<sessions, unkept>>
    BY <1>4 DEF WsMessage, agentVars
  <2>2. \A u \in DOMAIN asks : u \in DOMAIN asks' /\ asks'[u] = asks[u]
    <3>1. /\ Len(asks) \in Nat
          /\ DOMAIN asks = 1 .. Len(asks) /\ DOMAIN asks' = 1 .. Len(asks) + 1
          /\ \A u \in DOMAIN asks : asks'[u] = asks[u]
      BY <1>4, WsMessageTaken
    <3> QED  BY <3>1
  <2> QED  BY <2>1, <2>2 DEF Grows
<1>5. CASE WsPushEnds
  BY <1>1, <1>5 DEF WsPushEnds, agentVars
<1>6. ASSUME NEW id \in FeishuId, FeishuMessage(id) PROVE Grows
  <2>1. UNCHANGED asks \/ \E ask \in Ask : Offer(ask)
    BY <1>6, Recorded
  <2>2. UNCHANGED <<sessions, unkept>>
    BY <1>6, Recorded DEF agentVars
  <2> QED  BY <1>1, <2>1, <2>2
<1>7. ASSUME NEW id \in FeishuId, FeishuDuplicate(id) PROVE Grows
  BY <1>2, <1>7 DEF FeishuDuplicate
<1>8. CASE ProactiveCheck \/ \E ask \in OtherAsk : OtherMessage(ask)
  <2>1. \E ask \in Ask : Offer(ask)
    BY <1>8, OwnMessage
  <2>2. UNCHANGED <<sessions, unkept>>
    BY <1>8, OwnMessage DEF agentVars
  <2> QED  BY <1>1, <2>1, <2>2
<1>9. CASE AgentTask
  <2>1. CASE SaveUser \/ SaveAnswer
    <3>1. agent # Idle
      BY <2>1 DEF SaveUser, SaveAnswer, At
    <3>2. /\ Message.chat \in ChatId /\ [role |-> "user", uid |-> agent.uid] \in Line
          /\ [role |-> "assistant", uid |-> agent.uid] \in Line
      BY <3>1, Known, ToSendType DEF Message, Ask, Line
    <3>3. unkept \subseteq unkept' /\ asks' = asks
      BY <2>1 DEF SaveUser, SaveAnswer
    <3>4. \/ sessions' = sessions
          \/ \E line \in Line : sessions' = [sessions EXCEPT ![Message.chat] = Append(@, line)]
      BY <2>1, <3>2, Zenon DEF SaveUser, SaveAnswer
    <3>5. \A c \in ChatId : Elements(sessions[c]) \subseteq Elements(sessions'[c])
      BY <3>2, <3>4, LineSaved
    <3> QED  BY <3>3, <3>5 DEF Grows
  <2>2. CASE ~(SaveUser \/ SaveAnswer)
    <3>1. UNCHANGED <<asks, sessions, unkept>>
      BY <1>9, <2>2 DEF AgentTask, TakeMessage, Route, HasAnswer, HasError, Think, LlmUsesTools,
                        LlmAnswers, LlmFails, KeepSilent, PushAnswer
    <3> QED  BY <1>1, <3>1
  <2> QED  BY <2>1, <2>2
<1>10. CASE OutboundTask
  <2>1. UNCHANGED <<asks, sessions, unkept>>
    <3>1. CASE TakeOutgoing
      BY <3>1 DEF TakeOutgoing, agentVars
    <3>2. CASE SendElsewhere \/ WsUnknown \/ WsSend
      BY <3>2, DispatcherDone DEF Leaves, agentVars
    <3> QED  BY <1>10, <3>1, <3>2 DEF OutboundTask
  <2> QED  BY <1>1, <2>1
<1>11. CASE Reboot
  BY <1>1, <1>11 DEF Reboot
<1> QED  BY <1>2, <1>3, <1>4, <1>5, <1>6, <1>7, <1>8, <1>9, <1>10, <1>11 DEF Next

\* The answer is kept in the next state.
KeptNext(u) ==
    u \in unkept' \/ [role |-> "assistant", uid |-> u] \in Elements(sessions'[asks'[u].chat])

\* What is kept stays kept.
LEMMA KeptStays ==
    ASSUME TypeInv, Grows, NEW u \in DOMAIN asks, Kept(u)
    PROVE  KeptNext(u)
<1>1. asks[u].chat \in ChatId /\ asks'[u] = asks[u]
  BY Known DEF Grows, Ask
<1> QED  BY <1>1 DEF Grows, Kept, KeptNext

\* A step keeps what was told saved if it sends nothing but what was on its way, puts only saved
\* answers on their way, and the agent pushes only saved answers.
LEMMA StaysSaved ==
    ASSUME TypeInv, SavedInv, Grows,
           sent' = sent \/ \E o \in Outbox, to \in Nat :
                              sent' = Append(sent, [kind |-> o.kind, uid |-> o.uid, to |-> to]),
           \A o \in Outbox' : o \in Outbox \/ o.kind # "answer" \/ KeptNext(o.uid),
           agent' # Idle /\ agent'.pc = "push" /\ agent'.out = "answer"
             => agent' = agent \/ KeptNext(agent'.uid)
    PROVE  SavedInv'
<1>1. \A i \in DOMAIN sent : sent[i].kind = "answer" => Kept(sent[i].uid)
  BY DEF SavedInv, ToldIsSaved, Kept
<1>2. \A i \in DOMAIN sent' : sent'[i].kind = "answer" => KeptNext(sent'[i].uid)
  <2>1. CASE sent' = sent
    BY <1>1, <2>1, Known, KeptStays
  <2>2. ASSUME NEW o \in Outbox, NEW to \in Nat,
               sent' = Append(sent, [kind |-> o.kind, uid |-> o.uid, to |-> to])
        PROVE  \A i \in DOMAIN sent' : sent'[i].kind = "answer" => KeptNext(sent'[i].uid)
    <3> DEFINE M == [kind : {"status", "answer", "error"}, uid : Uid, to : Nat]
               m == [kind |-> o.kind, uid |-> o.uid, to |-> to]
    <3>1. sent \in Seq(M) /\ m \in M /\ m.kind = o.kind /\ m.uid = o.uid
      BY Known DEF Outgoing, TypeInv, TypeOK
    <3>2. m.kind = "answer" => Kept(m.uid)
      BY <3>1 DEF SavedInv
    <3>3. m.uid \in DOMAIN asks
      BY <3>1, Known
    <3>4. sent' = Append(sent, m)
      BY <2>2
    <3> HIDE DEF M, m
    <3>5. /\ Len(sent) \in Nat /\ DOMAIN sent = 1 .. Len(sent)
          /\ DOMAIN Append(sent, m) = 1 .. Len(sent) + 1
          /\ \A i \in DOMAIN sent : Append(sent, m)[i] = sent[i]
          /\ Append(sent, m)[Len(sent) + 1] = m
      BY <3>1, Appended
    <3>6. ASSUME NEW i \in DOMAIN sent', sent'[i].kind = "answer" PROVE KeptNext(sent'[i].uid)
      <4>1. CASE i = Len(sent) + 1
        BY <3>2, <3>3, <3>4, <3>5, <3>6, <4>1, KeptStays
      <4>2. CASE i \in DOMAIN sent
        BY <1>1, <3>4, <3>5, <3>6, <4>2, Known, KeptStays
      <4>3. i = Len(sent) + 1 \/ i \in DOMAIN sent
        <5>1. i \in 1 .. Len(sent) + 1
          BY <3>4, <3>5
        <5> QED  BY <3>5, <5>1
      <4> QED  BY <4>1, <4>2, <4>3
    <3> QED  BY <3>6
  <2> QED  BY <2>1, <2>2
<1>3. ToldIsSaved'
  BY <1>2 DEF ToldIsSaved, KeptNext
<1>4. \A o \in Outbox' : o.kind = "answer" => KeptNext(o.uid)
  BY Known, KeptStays DEF SavedInv
<1>5. agent' # Idle /\ agent'.pc = "push" /\ agent'.out = "answer" => KeptNext(agent'.uid)
  BY Known, KeptStays DEF SavedInv
<1> QED  BY <1>3, <1>4, <1>5 DEF SavedInv, Kept, KeptNext

LEMMA SavedStep == TypeInv /\ SavedInv /\ [Next]_vars => SavedInv'
<1> SUFFICES ASSUME TypeInv, SavedInv, [Next]_vars PROVE SavedInv'
  OBVIOUS
<1>1. Grows
  BY HistoriesGrow
<1>2. ASSUME UNCHANGED <<outVars, agent>> PROVE SavedInv'
  BY <1>1, <1>2, StaysSaved DEF outVars, Outbox
<1>3. CASE UNCHANGED vars
  BY <1>2, <1>3 DEF vars, agentVars
<1>4. CASE \E fd \in Fd : Open(fd) \/ Close(fd) \/ \E chat \in ChatId : WsMessage(fd, chat)
  BY <1>2, <1>4 DEF Open, Close, WsMessage, agentVars
<1>5. CASE WsPushEnds
  BY <1>2, <1>5 DEF WsPushEnds, agentVars
<1>6. CASE \E id \in FeishuId : FeishuMessage(id)
  BY <1>2, <1>6 DEF FeishuMessage, agentVars
<1>7. CASE \E id \in FeishuId : FeishuDuplicate(id)
  BY <1>3, <1>7 DEF FeishuDuplicate
<1>8. CASE ProactiveCheck \/ \E ask \in OtherAsk : OtherMessage(ask)
  BY <1>2, <1>8 DEF ProactiveCheck, OtherMessage, agentVars
<1>9. ASSUME UNCHANGED outVars, agent' # Idle /\ agent'.pc = "push" => agent'.out # "answer"
      PROVE  SavedInv'
  BY <1>1, <1>9, StaysSaved DEF outVars, Outbox
<1>10. CASE TakeMessage
  <2>1. agent'.pc # "push" /\ UNCHANGED outVars
    BY <1>10, MessageTaken DEF TakeMessage
  <2> QED  BY <1>9, <2>1
<1>11. ASSUME agent # Idle, HasAnswer \/ HasError PROVE SavedInv'
  <2>1. UNCHANGED outVars
    BY <1>11 DEF HasAnswer, HasError
  <2> QED  BY <1>9, <1>11, <2>1, AnswerMoves
<1>12. CASE Route \/ LlmUsesTools \/ LlmAnswers \/ LlmFails \/ SaveUser
  <2>1. CASE HasAnswer \/ HasError
    BY <1>11, <1>12, <2>1 DEF Route, LlmUsesTools, LlmAnswers, LlmFails, SaveUser, At
  <2>2. CASE ~(HasAnswer \/ HasError)
    <3>1. /\ agent # Idle /\ UNCHANGED outVars
          /\ \/ agent' = [agent EXCEPT !.pc = "think"]
             \/ agent' = [agent EXCEPT !.pc = "think", !.round = @ + 1]
             \/ agent' = [agent EXCEPT !.pc = "saveAnswer"]
      BY <1>12, <2>2 DEF Route, LlmUsesTools, LlmAnswers, LlmFails, SaveUser, At
    <3>2. agent \in Busy
      BY <3>1, Known
    <3>3. agent'.pc # "push"
      BY <3>1, <3>2 DEF Busy
    <3> QED  BY <1>9, <3>1, <3>3
  <2> QED  BY <2>1, <2>2
<1>13. CASE Think
  <2>1. /\ agent # Idle /\ agent \in Busy /\ sent' = sent /\ sending' = sending
        /\ \/ outq' = Queued(outq, ToSend("status")) /\ HasRoom(outq, OutDepth)
              /\ agent' = [agent EXCEPT !.pc = "llm", !.told = TRUE]
           \/ outq' = outq /\ agent' = [agent EXCEPT !.pc = "llm"]
    BY <1>13, Known DEF Think, At
  <2>2. agent'.pc # "push"
    BY <2>1 DEF Busy
  <2>3. Elements(outq') \subseteq Elements(outq) \cup {ToSend("status")}
    BY <2>1, Pushed, ToSendType
  <2>4. \A o \in Outbox' : o \in Outbox \/ o.kind # "answer"
    BY <2>1, <2>3 DEF Outbox, ToSend
  <2> QED  BY <1>1, <2>1, <2>2, <2>4, StaysSaved
<1>14. CASE KeepSilent
  <2>1. agent' = Idle /\ UNCHANGED outVars
    BY <1>14 DEF KeepSilent
  <2> QED  BY <1>9, <2>1
<1>15. CASE SaveAnswer
  <2>1. /\ agent # Idle /\ agent' = [agent EXCEPT !.pc = "push"] /\ asks' = asks
        /\ UNCHANGED outVars
    BY <1>15 DEF SaveAnswer, At
  <2>2. agent \in Busy /\ agent.uid \in DOMAIN asks
    BY <2>1, Known
  <2>3. agent'.uid = agent.uid
    BY <2>1, <2>2 DEF Busy
  <2>4. Message.chat \in ChatId /\ [role |-> "assistant", uid |-> agent.uid] \in Line
    BY <2>1, Known, ToSendType DEF Message, Ask, Line
  <2>5. \/ sessions' = [sessions EXCEPT ![Message.chat] =
                           Append(@, [role |-> "assistant", uid |-> agent.uid])]
        \/ unkept' = unkept \cup {agent.uid}
    BY <1>15 DEF SaveAnswer
  <2>6. KeptNext(agent'.uid)
    BY <2>1, <2>3, <2>4, <2>5, LineSaved DEF KeptNext, Message
  <2> QED  BY <1>1, <2>1, <2>6, StaysSaved DEF outVars, Outbox
<1>16. CASE PushAnswer
  <2>1. /\ agent # Idle /\ agent.pc = "push" /\ agent' = Idle /\ agent \in Busy
        /\ agent.out \in {"answer", "error"} /\ sent' = sent /\ sending' = sending
    BY <1>16, Known DEF PushAnswer, At, TypeInv, KnownOK, Busy
  <2>2. Elements(outq') \subseteq Elements(outq) \cup {ToSend(agent.out)}
    BY <1>16, <2>1, Pushed, ToSendType DEF PushAnswer
  <2>3. agent.out = "answer" => KeptNext(agent.uid)
    BY <1>1, <2>1, Known, KeptStays DEF SavedInv
  <2>4. \A o \in Outbox' : o \in Outbox \/ o.kind # "answer" \/ KeptNext(o.uid)
    BY <2>1, <2>2, <2>3 DEF Outbox, ToSend
  <2> QED  BY <1>1, <2>1, <2>4, StaysSaved
<1>17. CASE TakeOutgoing
  <2>1. Outbox' = Outbox /\ sent' = sent /\ agent' = agent
    BY <1>17, OutgoingTaken DEF TakeOutgoing, agentVars
  <2> QED  BY <1>1, <2>1, StaysSaved
<1>18. CASE SendElsewhere \/ WsUnknown \/ WsSend
  <2>1. PICK to \in Nat : Leaves(to)
    BY <1>18, DispatcherDone
  <2>2. sending \in Outbox /\ Outbox' \subseteq Outbox /\ agent' = agent
    BY <2>1 DEF Leaves, Outbox, agentVars
  <2>3. sent' = sent \/ sent' = Append(sent, [kind |-> sending.kind, uid |-> sending.uid, to |-> to])
    BY <2>1 DEF Leaves
  <2> QED  BY <1>1, <2>2, <2>3, StaysSaved
<1>19. CASE Reboot
  <2>1. Elements(<<>>) = {}
    BY EmptySeq DEF Elements
  <2>2. sent' = sent /\ Outbox' = {} /\ agent' = Idle
    BY <1>19, <2>1 DEF Reboot, Outbox
  <2> QED  BY <1>1, <2>2, StaysSaved
<1> QED  BY <1>3, <1>4, <1>5, <1>6, <1>7, <1>8, <1>10, <1>12, <1>13, <1>14, <1>15, <1>16, <1>17,
            <1>18, <1>19
         DEF Next, AgentTask, OutboundTask

\* Every answer that went out stands in the session file of its chat, unless that file could not
\* be written: after however many reboots the board remembers what it told.
THEOREM ToldStaysSaved == Spec => []ToldIsSaved
<1>1. Init => SavedInv
  <2> SUFFICES ASSUME Init PROVE SavedInv
    OBVIOUS
  <2>1. Elements(<<>>) = {} /\ DOMAIN <<>> = {}
    BY EmptySeq DEF Elements
  <2> QED  BY <2>1 DEF Init, Offline, SavedInv, ToldIsSaved, Outbox
<1>2. SavedInv => ToldIsSaved
  BY DEF SavedInv
<1> QED  BY <1>1, <1>2, SavedStep, AlwaysTyped, PTL DEF Spec

-----------------------------------------------------------------------------
(* Answers in order. *)

LEMMA PastKnown ==
    ASSUME TypeInv
    PROVE  /\ \A o \in Past : o.uid \in DOMAIN asks
           /\ DOMAIN asks \subseteq Nat /\ \A u \in DOMAIN asks : u <= Len(asks)
           /\ Len(asks) \in Nat
BY Known DEF Past, Elements

\* The inbound side takes a message, or moves one: nothing behind it is disturbed when the new
\* one, n, is later than all.
LEMMA OrderInbound ==
    ASSUME TypeInv, OrderInv, Grows, UNCHANGED <<outVars, agent>>, InOrder',
           NEW n \in Nat, \A u \in DOMAIN asks : u < n,
           Waiting' \subseteq Waiting \cup {n}
    PROVE  OrderInv'
<1>1. /\ \A u \in DOMAIN asks : u \in DOMAIN asks' /\ asks'[u] = asks[u]
      /\ Past' = Past /\ Outbox' = Outbox
  BY DEF Grows, Past, Outbox, outVars
<1>2. \A o \in Past : o.uid \in DOMAIN asks
  BY PastKnown
<1>3. \A u \in Waiting : u \in DOMAIN asks
  BY Known
<1>4. \A i \in DOMAIN sent : sent[i].uid \in DOMAIN asks
  BY Known
<1>5. AnswersInOrder'
  BY <1>1, <1>4 DEF OrderInv, AnswersInOrder, outVars
<1>6. OutOrder'
  <2>1. \A o \in Outbox : o.uid \in DOMAIN asks
    BY Known
  <2>2. (\A i \in DOMAIN sent : \A o \in Outbox : Before(sent[i], o))'
    BY <1>1, <1>4, <2>1 DEF OrderInv, OutOrder, Before, From, outVars
  <2>3. \A i \in DOMAIN outq : outq[i] \in Outbox
    BY DEF Outbox, Elements
  <2>4. (\A i, j \in DOMAIN outq : i < j => Before(outq[i], outq[j]))'
    BY <1>1, <2>1, <2>3 DEF OrderInv, OutOrder, Before, From, outVars
  <2>5. (sending # Nothing => \A i \in DOMAIN outq : Before(sending, outq[i]))'
    <3>1. sending # Nothing => sending \in Outbox
      BY DEF Outbox
    <3> QED  BY <1>1, <2>1, <2>3, <3>1 DEF OrderInv, OutOrder, Before, From, outVars
  <2> QED  BY <2>2, <2>4, <2>5 DEF OutOrder
<1>7. AgentOrder'
  <2>1. agent # Idle => agent.uid \in DOMAIN asks
    BY Known
  <2> QED  BY <1>1, <1>2, <1>3, <2>1 DEF OrderInv, AgentOrder, BeforeAgent, Follows, From
<1>8. (\A o \in Past : \A u \in Waiting : Follows(o.uid, u))'
  BY <1>1, <1>2, <1>3 DEF OrderInv, Follows, From
<1> QED  BY <1>5, <1>6, <1>7, <1>8 DEF OrderInv

\* The inbound queue stays in order when what is appended to it follows all that wait there.
LEMMA InOrderAppend ==
    ASSUME TypeInv, InOrder, Grows, NEW u \in Uid, inq' = Append(inq, u),
           \A i \in DOMAIN inq : asks'[inq[i]].from = asks'[u].from => inq[i] < u
    PROVE  (\A i, j \in DOMAIN inq : i < j => Follows(inq[i], inq[j]))'
<1>1. /\ inq \in Seq(Uid) /\ Len(inq) \in Nat /\ DOMAIN inq = 1 .. Len(inq)
      /\ DOMAIN inq' = 1 .. Len(inq) + 1
      /\ \A i \in DOMAIN inq : inq'[i] = inq[i]
      /\ inq'[Len(inq) + 1] = u
  BY Appended DEF TypeInv, TypeOK
<1>2. \A i \in DOMAIN inq : inq[i] \in DOMAIN asks
  BY Known DEF Waiting, Elements
<1>3. \A i \in DOMAIN inq : asks'[inq[i]] = asks[inq[i]]
  BY <1>2 DEF Grows
<1>4. ASSUME NEW i \in DOMAIN inq', NEW j \in DOMAIN inq', i < j
      PROVE  asks'[inq'[i]].from = asks'[inq'[j]].from => inq'[i] < inq'[j]
  <2>1. i \in DOMAIN inq
    BY <1>1, <1>4
  <2>2. CASE j \in DOMAIN inq
    BY <1>1, <1>3, <1>4, <2>1, <2>2 DEF InOrder, Follows, From
  <2>3. CASE j = Len(inq) + 1
    BY <1>1, <2>1, <2>3
  <2>4. j \in DOMAIN inq \/ j = Len(inq) + 1
    BY <1>1
  <2> QED  BY <2>2, <2>3, <2>4
<1> QED  BY <1>4 DEF Follows, From

\* What is offered is later than all, and comes from no browser.
LEMMA OrderOffer ==
    ASSUME TypeInv, OrderInv, Grows, NEW ask \in Ask, ask.from = 0, Offer(ask),
           UNCHANGED <<outVars, agent, http>>
    PROVE  OrderInv'
<1> DEFINE n == Len(asks) + 1
<1>1. /\ n \in Nat /\ n \in Uid /\ asks'[n].from = 0
      /\ \A u \in DOMAIN asks : u < n
      /\ inq' = inq \/ inq' = Append(inq, n)
  BY Offered, PastKnown
<1>2. Waiting' \subseteq Waiting \cup {n}
  BY OfferedWaits DEF Waiting
<1> HIDE DEF n
<1>3. /\ \A i \in DOMAIN inq : inq[i] \in DOMAIN asks /\ asks'[inq[i]] = asks[inq[i]]
      /\ http # 0 => http \in DOMAIN asks /\ asks'[http] = asks[http]
  BY Known DEF Waiting, Elements, Grows
<1>4. InOrder'
  <2>1. CASE inq' = inq
    BY <1>3, <2>1 DEF OrderInv, InOrder, Follows, From
  <2>2. CASE inq' = Append(inq, n)
    <3>1. (\A i, j \in DOMAIN inq : i < j => Follows(inq[i], inq[j]))'
      BY <1>1, <1>3, <2>2, InOrderAppend DEF OrderInv
    <3>2. \A i \in DOMAIN inq' : inq'[i] \in {inq[k] : k \in DOMAIN inq} \cup {n}
      <4>1. Elements(inq') = Elements(inq) \cup {n}
        BY <1>1, <2>2, Appended DEF TypeInv, TypeOK
      <4> QED  BY <4>1 DEF Elements
    <3>3. (http # 0 => From(http) # 0 /\ \A i \in DOMAIN inq : Follows(inq[i], http))'
      BY <1>1, <1>3, <3>2 DEF OrderInv, InOrder, Follows, From
    <3> QED  BY <3>1, <3>3 DEF InOrder
  <2> QED  BY <1>1, <2>1, <2>2
<1> QED  BY <1>1, <1>2, <1>4, OrderInbound

LEMMA OrderWsMessage ==
    ASSUME TypeInv, OrderInv, Grows, NEW fd \in Fd, NEW chat \in ChatId, WsMessage(fd, chat)
    PROVE  OrderInv'
<1> DEFINE n == Len(asks) + 1
<1>1. /\ n \in Nat /\ n \in Uid /\ asks'[n].from # 0 /\ http = 0
      /\ \A u \in DOMAIN asks : u < n
      /\ \/ inq' = Append(inq, n) /\ http' = 0
         \/ inq' = inq /\ http' = n
      /\ Waiting' \subseteq Waiting \cup {n}
  <2>1. asks'[n] = [chan |-> "websocket", chat |-> chat, flag |-> "user", from |-> conn[fd]]
    BY WsMessageTaken
  <2>2. /\ n \in Uid /\ conn[fd] # 0 /\ http = 0 /\ Waiting' \subseteq Waiting \cup {n}
        /\ \/ inq' = Append(inq, n) /\ http' = 0
           \/ inq' = inq /\ http' = n
    BY WsMessageTaken
  <2>3. n \in Nat /\ \A u \in DOMAIN asks : u < n
    BY PastKnown
  <2> HIDE DEF n
  <2> QED  BY <2>1, <2>2, <2>3
<1>2. UNCHANGED <<outVars, agent>>
  BY DEF WsMessage, agentVars
<1> HIDE DEF n
<1>3. \A i \in DOMAIN inq : /\ inq[i] \in DOMAIN asks /\ asks'[inq[i]] = asks[inq[i]]
                            /\ inq[i] < n
  BY <1>1, Known DEF Waiting, Elements, Grows
<1>4. InOrder'
  <2>1. CASE inq' = Append(inq, n) /\ http' = 0
    <3>1. (\A i, j \in DOMAIN inq : i < j => Follows(inq[i], inq[j]))'
      BY <1>1, <1>3, <2>1, InOrderAppend DEF OrderInv
    <3> QED  BY <2>1, <3>1 DEF InOrder
  <2>2. CASE inq' = inq /\ http' = n
    BY <1>1, <1>3, <2>2 DEF OrderInv, InOrder, Follows, From
  <2> QED  BY <1>1, <2>1, <2>2
<1> QED  BY <1>1, <1>2, <1>4, OrderInbound

LEMMA OrderWsPushed ==
    ASSUME TypeInv, OrderInv, Grows, WsPushEnds
    PROVE  OrderInv'
<1>1. /\ http \in Uid /\ http # 0 /\ http' = 0
      /\ inq' = inq \/ inq' = Append(inq, http)
      /\ Waiting' \subseteq Waiting
  BY WsPushed
<1>2. UNCHANGED <<outVars, agent, asks>>
  BY DEF WsPushEnds, agentVars
<1>3. (\A i, j \in DOMAIN inq : i < j => Follows(inq[i], inq[j]))'
  <2>1. CASE inq' = inq
    BY <1>2, <2>1 DEF OrderInv, InOrder, Follows, From
  <2>2. CASE inq' = Append(inq, http)
    BY <1>1, <1>2, <2>2, InOrderAppend DEF OrderInv, InOrder, Follows, From
  <2> QED  BY <1>1, <2>1, <2>2
<1>4. InOrder'
  BY <1>1, <1>3 DEF InOrder
<1> DEFINE n == Len(asks) + 1
<1>5. n \in Nat /\ \A u \in DOMAIN asks : u < n
  BY PastKnown
<1> QED  BY <1>1, <1>2, <1>4, <1>5, OrderInbound

\* The message taken was before all that still wait, and after all that is on its way out.
LEMMA OrderTaken ==
    ASSUME TypeInv, OrderInv, TakeMessage
    PROVE  OrderInv'
<1> DEFINE h == Head(inq)
<1>1. /\ UNCHANGED <<outVars, http, asks>> /\ inq' = Tail(inq) /\ inq # <<>> /\ inq \in Seq(Uid)
      /\ h \in Elements(inq) /\ agent' # Idle /\ agent'.uid = h
  BY MessageTaken DEF TakeMessage, wsVars
<1>2. /\ 1 \in DOMAIN inq /\ h = inq[1]
      /\ \A i \in DOMAIN inq' : i \in Nat /\ i + 1 \in DOMAIN inq /\ inq'[i] = inq[i + 1]
      /\ \A i \in DOMAIN inq' : i > 0
  <2>1. DOMAIN Tail(inq) = 1 .. Len(Tail(inq))
    BY <1>1, Taken, LenProperties
  <2>2. /\ 1 \in DOMAIN inq /\ h = inq[1]
        /\ \A i \in DOMAIN Tail(inq) : i \in Nat /\ i + 1 \in DOMAIN inq /\ Tail(inq)[i] = inq[i + 1]
    BY <1>1, Taken
  <2> HIDE DEF h
  <2> QED  BY <1>1, <2>1, <2>2
<1> HIDE DEF h
<1>3. \A u \in Waiting' : u \in Waiting /\ Follows(h, u)
  <2>1. ASSUME NEW i \in DOMAIN inq' PROVE inq'[i] \in Waiting /\ Follows(h, inq'[i])
    <3>1. 1 < i + 1 /\ i + 1 \in DOMAIN inq /\ inq'[i] = inq[i + 1]
      BY <1>2
    <3>2. Follows(inq[1], inq[i + 1])
      BY <1>2, <3>1 DEF OrderInv, InOrder
    <3> QED  BY <1>2, <3>1, <3>2 DEF Waiting, Elements
  <2>2. http # 0 => http \in Waiting /\ Follows(h, http)
    BY <1>2 DEF OrderInv, InOrder, Waiting
  <2> QED  BY <1>1, <2>1, <2>2 DEF Waiting, Elements
<1>4. h \in Waiting
  BY <1>1 DEF Waiting
<1>5. AgentOrder'
  <2>1. \A o \in Past : From(o.uid) = From(h) => o.uid < h
    BY <1>4 DEF OrderInv, Follows
  <2>2. Past' = Past
    BY <1>1 DEF Past, Outbox, outVars
  <2>3. (\A o \in Past : BeforeAgent(o))'
    BY <1>1, <2>1, <2>2 DEF BeforeAgent, From
  <2>4. (\A u \in Waiting : Follows(agent.uid, u))'
    BY <1>1, <1>3 DEF Follows, From
  <2> QED  BY <2>3, <2>4 DEF AgentOrder
<1>6. InOrder'
  <2>1. ASSUME NEW i \in DOMAIN inq', NEW j \in DOMAIN inq', i < j
        PROVE  Follows(inq'[i], inq'[j])
    <3>1. i + 1 < j + 1 /\ i + 1 \in DOMAIN inq /\ j + 1 \in DOMAIN inq
      BY <1>2, <2>1
    <3> QED  BY <1>2, <3>1 DEF OrderInv, InOrder
  <2>2. http # 0 => From(http) # 0 /\ \A i \in DOMAIN inq' : Follows(inq'[i], http)
    BY <1>2 DEF OrderInv, InOrder
  <2> QED  BY <1>1, <2>1, <2>2 DEF InOrder, Follows, From
<1>7. (\A o \in Past : \A u \in Waiting : Follows(o.uid, u))'
  <2>1. Past' = Past
    BY <1>1 DEF Past, Outbox, outVars
  <2> QED  BY <1>1, <1>3, <2>1 DEF OrderInv, Follows, From
<1>8. AnswersInOrder' /\ OutOrder'
  BY <1>1 DEF OrderInv, AnswersInOrder, OutOrder, Before, From, Outbox, outVars
<1> QED  BY <1>5, <1>6, <1>7, <1>8 DEF OrderInv

\* The agent goes on with its message, or is done with it.
LEMMA OrderSame ==
    ASSUME TypeInv, OrderInv, UNCHANGED <<outVars, inq, http, asks>>,
           agent' = Idle \/ (agent # Idle /\ agent'.uid = agent.uid /\ (agent.told => agent'.told))
    PROVE  OrderInv'
<1>1. Past' = Past /\ Waiting' = Waiting /\ Outbox' = Outbox
  BY DEF Past, Waiting, Outbox, outVars
<1>2. AgentOrder'
  BY <1>1 DEF OrderInv, AgentOrder, BeforeAgent, Follows, From
<1>3. (\A o \in Past : \A u \in Waiting : Follows(o.uid, u))'
  BY <1>1 DEF OrderInv, Follows, From
<1>4. AnswersInOrder' /\ OutOrder' /\ InOrder'
  BY <1>1 DEF OrderInv, AnswersInOrder, OutOrder, InOrder, Before, Follows, From, outVars
<1> QED  BY <1>2, <1>3, <1>4 DEF OrderInv

\* The agent pushes what comes after all that is on its way out.
LEMMA OrderPushed ==
    ASSUME TypeInv, OrderInv, NEW o \in Outgoing, HasRoom(outq, OutDepth), outq' = Queued(outq, o),
           agent # Idle, o.uid = agent.uid, UNCHANGED <<sending, sent, inq, http, asks>>,
           o.kind = "status" => ~agent.told,
           \/ agent' = Idle
           \/ agent' # Idle /\ agent'.uid = agent.uid /\ agent'.told /\ o.kind = "status"
    PROVE  OrderInv'
<1>1. o.uid \in DOMAIN asks /\ o.uid \in Nat
  BY Known, PastKnown
<1>2. /\ outq \in Seq(Outgoing) /\ Len(outq) \in Nat /\ DOMAIN outq = 1 .. Len(outq)
      /\ DOMAIN outq' = 1 .. Len(outq) + 1
      /\ \A i \in DOMAIN outq : outq'[i] = outq[i] /\ outq[i] \in Past
      /\ outq'[Len(outq) + 1] = o
      /\ Elements(outq') = Elements(outq) \cup {o}
  <2>1. outq \in Seq(Outgoing) /\ outq' = Append(outq, o)
    BY DEF Queued, TypeInv, TypeOK
  <2>2. \A i \in DOMAIN outq : outq[i] \in Past
    BY DEF Past, Outbox, Elements
  <2> QED  BY <2>1, <2>2, Appended
<1>3. \A x \in Past : Before(x, o)
  BY <1>1, PastKnown DEF OrderInv, AgentOrder, BeforeAgent, Before
<1>4. \A u \in Waiting : Follows(o.uid, u)
  BY DEF OrderInv, AgentOrder
<1>5. Past' = Past \cup {o} /\ Waiting' = Waiting /\ Outbox' = Outbox \cup {o}
  BY <1>2 DEF Past, Outbox, Waiting
<1>6. AnswersInOrder' /\ InOrder'
  BY DEF OrderInv, AnswersInOrder, InOrder, Follows, From
<1>7. AgentOrder'
  <2>1. CASE agent' = Idle
    BY <2>1 DEF AgentOrder
  <2>2. CASE agent' # Idle /\ agent'.uid = agent.uid /\ agent'.told /\ o.kind = "status"
    <3>1. (\A x \in Past : BeforeAgent(x))'
      BY <1>5, <2>2 DEF OrderInv, AgentOrder, BeforeAgent, From
    <3>2. (\A u \in Waiting : Follows(agent.uid, u))'
      BY <1>5, <2>2 DEF OrderInv, AgentOrder, Follows, From
    <3> QED  BY <3>1, <3>2 DEF AgentOrder
  <2> QED  BY <2>1, <2>2
<1>8. (\A x \in Past : \A u \in Waiting : Follows(x.uid, u))'
  BY <1>4, <1>5 DEF OrderInv, Follows, From
<1>9. OutOrder'
  <2>1. (\A i \in DOMAIN sent : \A x \in Outbox : Before(sent[i], x))'
    <3>1. \A i \in DOMAIN sent : sent[i] \in Past
      BY DEF Past, Elements
    <3> QED  BY <1>3, <1>5, <3>1 DEF OrderInv, OutOrder, Before, From
  <2>2. (sending # Nothing => \A i \in DOMAIN outq : Before(sending, outq[i]))'
    <3>1. ASSUME sending # Nothing, NEW i \in DOMAIN outq' PROVE Before(sending, outq'[i])
      <4>1. sending \in Past
        BY <3>1 DEF Past, Outbox
      <4>2. i \in DOMAIN outq \/ i = Len(outq) + 1
        BY <1>2
      <4> QED  BY <1>2, <1>3, <3>1, <4>1, <4>2 DEF OrderInv, OutOrder
    <3> QED  BY <3>1 DEF Before, From
  <2>3. ASSUME NEW i \in DOMAIN outq', NEW j \in DOMAIN outq', i < j
        PROVE  Before(outq'[i], outq'[j])
    <3>1. i \in DOMAIN outq /\ (j \in DOMAIN outq \/ j = Len(outq) + 1)
      BY <1>2, <2>3
    <3> QED  BY <1>2, <1>3, <2>3, <3>1 DEF OrderInv, OutOrder
  <2>4. (\A i, j \in DOMAIN outq : i < j => Before(outq[i], outq[j]))'
    BY <2>3 DEF Before, From
  <2> QED  BY <2>1, <2>2, <2>4 DEF OutOrder
<1> QED  BY <1>6, <1>7, <1>8, <1>9 DEF OrderInv

\* The dispatcher takes what was before all the rest of its queue.
LEMMA OrderOutgoing ==
    ASSUME TypeInv, OrderInv, TakeOutgoing
    PROVE  OrderInv'
<1>1. /\ UNCHANGED <<sent, agent, inq, http, asks>> /\ Outbox' = Outbox
      /\ outq \in Seq(Outgoing) /\ outq # <<>> /\ outq' = Tail(outq) /\ sending' = outq[1]
  BY OutgoingTaken DEF TakeOutgoing, wsVars, agentVars
<1>2. /\ 1 \in DOMAIN outq
      /\ \A i \in DOMAIN outq' : i \in Nat /\ i > 0 /\ i + 1 \in DOMAIN outq /\ outq'[i] = outq[i + 1]
  <2>1. /\ 1 \in DOMAIN outq /\ DOMAIN Tail(outq) = 1 .. Len(Tail(outq))
        /\ \A i \in DOMAIN Tail(outq) :
              i \in Nat /\ i + 1 \in DOMAIN outq /\ Tail(outq)[i] = outq[i + 1]
    BY <1>1, Taken, LenProperties
  <2> QED  BY <1>1, <2>1
<1>3. Past' = Past /\ Waiting' = Waiting
  BY <1>1 DEF Past, Waiting
<1>4. AnswersInOrder' /\ InOrder'
  BY <1>1 DEF OrderInv, AnswersInOrder, InOrder, Follows, From
<1>5. AgentOrder' /\ (\A o \in Past : \A u \in Waiting : Follows(o.uid, u))'
  BY <1>1, <1>3 DEF OrderInv, AgentOrder, BeforeAgent, Follows, From
<1>6. OutOrder'
  <2>1. (\A i \in DOMAIN sent : \A o \in Outbox : Before(sent[i], o))'
    BY <1>1 DEF OrderInv, OutOrder, Before, From
  <2>2. ASSUME NEW i \in DOMAIN outq' PROVE Before(outq[1], outq'[i])
    <3>1. 1 < i + 1 /\ i + 1 \in DOMAIN outq /\ outq'[i] = outq[i + 1]
      BY <1>2
    <3> QED  BY <1>2, <3>1 DEF OrderInv, OutOrder
  <2>3. (sending # Nothing => \A i \in DOMAIN outq : Before(sending, outq[i]))'
    BY <1>1, <2>2 DEF Before, From
  <2>4. ASSUME NEW i \in DOMAIN outq', NEW j \in DOMAIN outq', i < j
        PROVE  Before(outq'[i], outq'[j])
    <3>1. i + 1 < j + 1 /\ i + 1 \in DOMAIN outq /\ j + 1 \in DOMAIN outq
      BY <1>2, <2>4
    <3> QED  BY <1>2, <3>1 DEF OrderInv, OutOrder
  <2>5. (\A i, j \in DOMAIN outq : i < j => Before(outq[i], outq[j]))'
    BY <1>1, <2>4 DEF Before, From
  <2> QED  BY <2>1, <2>3, <2>5 DEF OutOrder
<1> QED  BY <1>4, <1>5, <1>6 DEF OrderInv

\* What the dispatcher is done with goes behind all that was sent, or nowhere.
LEMMA OrderLeaves ==
    ASSUME TypeInv, OrderInv, NEW to \in Nat, Leaves(to)
    PROVE  OrderInv'
<1> DEFINE M == [kind : {"status", "answer", "error"}, uid : Uid, to : Nat]
           m == [kind |-> sending.kind, uid |-> sending.uid, to |-> to]
<1>1. /\ sending # Nothing /\ sending' = Nothing /\ sending \in Outbox /\ sending \in Outgoing
      /\ sent' = sent \/ sent' = Append(sent, m)
      /\ UNCHANGED <<outq, agent, inq, http, asks>>
  BY DEF Leaves, agentVars, Outbox, TypeInv, TypeOK
<1>2. m \in M /\ sent \in Seq(M) /\ m.kind = sending.kind /\ m.uid = sending.uid
  BY <1>1 DEF Outgoing, TypeInv, TypeOK
<1> HIDE DEF M, m
<1>3. /\ Len(sent) \in Nat /\ DOMAIN sent = 1 .. Len(sent)
      /\ DOMAIN Append(sent, m) = 1 .. Len(sent) + 1
      /\ \A i \in DOMAIN sent : Append(sent, m)[i] = sent[i]
      /\ Append(sent, m)[Len(sent) + 1] = m
      /\ Elements(Append(sent, m)) = Elements(sent) \cup {m}
  BY <1>2, Appended
<1>4. \A i \in DOMAIN sent' : \/ i \in DOMAIN sent /\ sent'[i] = sent[i]
                              \/ sent' = Append(sent, m) /\ i = Len(sent) + 1 /\ sent'[i] = m
  <2>1. CASE sent' = sent
    BY <2>1
  <2>2. CASE sent' = Append(sent, m)
    <3>1. \A i \in 1 .. Len(sent) + 1 : i \in 1 .. Len(sent) \/ i = Len(sent) + 1
      BY <1>3
    <3> QED  BY <1>3, <2>2, <3>1
  <2> QED  BY <1>1, <2>1, <2>2
<1>5. Elements(sent') \subseteq Elements(sent) \cup {m}
  BY <1>1, <1>3
<1>6. Outbox' = Elements(outq) /\ Outbox' \subseteq Outbox /\ Waiting' = Waiting
  BY <1>1 DEF Outbox, Waiting
<1>7. Past' \subseteq Past \cup {m} /\ sending \in Past
  BY <1>1, <1>5, <1>6 DEF Past
<1>8. AnswersInOrder'
  <2>1. ASSUME NEW i \in DOMAIN sent', NEW j \in DOMAIN sent', i < j
        PROVE  Before(sent'[i], sent'[j])
    <3>1. CASE j \in DOMAIN sent /\ sent'[j] = sent[j]
      <4>1. i \in DOMAIN sent /\ sent'[i] = sent[i]
        <5>1. i # Len(sent) + 1
          BY <1>3, <2>1, <3>1
        <5> QED  BY <1>4, <5>1
      <4> QED  BY <2>1, <3>1, <4>1 DEF OrderInv, AnswersInOrder, Before, From
    <3>2. CASE sent' = Append(sent, m) /\ j = Len(sent) + 1 /\ sent'[j] = m
      <4>1. i \in DOMAIN sent /\ sent'[i] = sent[i]
        BY <1>4, <2>1, <3>2
      <4>2. Before(sent[i], sending)
        BY <1>1, <4>1 DEF OrderInv, OutOrder
      <4> QED  BY <1>2, <3>2, <4>1, <4>2 DEF Before
    <3> QED  BY <1>4, <3>1, <3>2
  <2> QED  BY <1>1, <2>1 DEF AnswersInOrder, Before, From
<1>9. InOrder'
  BY <1>1 DEF OrderInv, InOrder, Follows, From
<1>10. AgentOrder'
  BY <1>1, <1>2, <1>6, <1>7 DEF OrderInv, AgentOrder, BeforeAgent, Follows, From
<1>11. (\A o \in Past : \A u \in Waiting : Follows(o.uid, u))'
  BY <1>1, <1>2, <1>6, <1>7 DEF OrderInv, Follows, From
<1>12. OutOrder'
  <2>1. ASSUME NEW i \in DOMAIN sent', NEW o \in Outbox' PROVE Before(sent'[i], o)
    <3>1. CASE i \in DOMAIN sent /\ sent'[i] = sent[i]
      BY <1>6, <3>1 DEF OrderInv, OutOrder
    <3>2. CASE sent'[i] = m
      <4>1. Before(sending, o)
        BY <1>1, <1>6, <2>1 DEF OrderInv, OutOrder, Elements
      <4> QED  BY <1>2, <3>2, <4>1 DEF Before
    <3> QED  BY <1>4, <3>1, <3>2
  <2>2. (\A i \in DOMAIN sent : \A o \in Outbox : Before(sent[i], o))'
    BY <1>1, <2>1 DEF Before, From
  <2> QED  BY <1>1, <2>2 DEF OrderInv, OutOrder, Before, From
<1> QED  BY <1>8, <1>9, <1>10, <1>11, <1>12 DEF OrderInv

LEMMA OrderStep == TypeInv /\ OrderInv /\ [Next]_vars => OrderInv'
<1> SUFFICES ASSUME TypeInv, OrderInv, [Next]_vars PROVE OrderInv'
  OBVIOUS
<1>1. Grows
  BY HistoriesGrow
<1>2. ASSUME UNCHANGED <<outVars, inq, http, asks, agent>> PROVE OrderInv'
  BY <1>2, OrderSame
<1>3. CASE UNCHANGED vars
  BY <1>2, <1>3 DEF vars, wsVars, agentVars
<1>4. CASE \E fd \in Fd : Open(fd) \/ Close(fd)
  BY <1>2, <1>4 DEF Open, Close, agentVars
<1>5. CASE (\E fd \in Fd, chat \in ChatId : WsMessage(fd, chat)) \/ WsPushEnds
  BY <1>1, <1>5, OrderWsMessage, OrderWsPushed
<1>6. ASSUME NEW ask \in Ask, ask.from = 0, Offer(ask), UNCHANGED <<outVars, agentVars, wsVars>>
      PROVE  OrderInv'
  BY <1>1, <1>6, OrderOffer DEF agentVars, wsVars
<1>7. ASSUME NEW id \in FeishuId, FeishuMessage(id) PROVE OrderInv'
  <2>1. CASE \E ask \in Ask : ask.from = 0 /\ Offer(ask)
    BY <1>6, <1>7, <2>1, Recorded
  <2>2. CASE UNCHANGED <<inq, heap, asks>>
    BY <1>2, <1>7, <2>2, Recorded DEF wsVars, agentVars
  <2> QED  BY <1>7, <2>1, <2>2, Recorded
<1>8. CASE \E id \in FeishuId : FeishuDuplicate(id)
  BY <1>3, <1>8 DEF FeishuDuplicate
<1>9. CASE ProactiveCheck \/ \E ask \in OtherAsk : OtherMessage(ask)
  BY <1>6, <1>9, OwnMessage
<1>10. CASE TakeMessage
  BY <1>10, OrderTaken
<1>11. ASSUME UNCHANGED <<wsVars, inq, outVars, asks>>,
              agent' = Idle \/ (agent # Idle /\ agent'.uid = agent.uid /\ (agent.told => agent'.told))
       PROVE  OrderInv'
  BY <1>11, OrderSame DEF wsVars
<1>12. ASSUME agent # Idle, HasAnswer \/ HasError PROVE OrderInv'
  <2>1. UNCHANGED <<wsVars, inq, outVars, asks>>
    BY <1>12 DEF HasAnswer, HasError
  <2> QED  BY <1>11, <1>12, <2>1, AnswerMoves
<1>13. CASE Route \/ LlmUsesTools \/ LlmAnswers \/ LlmFails \/ SaveUser \/ SaveAnswer
  <2>1. CASE HasAnswer \/ HasError
    BY <1>12, <1>13, <2>1
    DEF Route, LlmUsesTools, LlmAnswers, LlmFails, SaveUser, SaveAnswer, At
  <2>2. CASE ~(HasAnswer \/ HasError)
    <3>1. /\ agent # Idle /\ UNCHANGED <<wsVars, inq, outVars, asks>>
          /\ \/ agent' = [agent EXCEPT !.pc = "think"]
             \/ agent' = [agent EXCEPT !.pc = "think", !.round = @ + 1]
             \/ agent' = [agent EXCEPT !.pc = "saveAnswer"]
             \/ agent' = [agent EXCEPT !.pc = "push"]
      BY <1>13, <2>2 DEF Route, LlmUsesTools, LlmAnswers, LlmFails, SaveUser, SaveAnswer, At
    <3>2. agent \in Busy
      BY <3>1, Known
    <3>3. agent'.uid = agent.uid /\ agent'.told = agent.told
      BY <3>1, <3>2 DEF Busy
    <3> QED  BY <1>11, <3>1, <3>3
  <2> QED  BY <2>1, <2>2
<1>14. CASE Think
  <2>1. /\ agent # Idle /\ agent \in Busy /\ UNCHANGED <<sent, sending, wsVars, inq, asks>>
        /\ \/ /\ outq' = Queued(outq, ToSend("status")) /\ HasRoom(outq, OutDepth) /\ ~agent.told
              /\ agent' = [agent EXCEPT !.pc = "llm", !.told = TRUE]
           \/ outq' = outq /\ agent' = [agent EXCEPT !.pc = "llm"]
    BY <1>14, Known DEF Think, At, WantsStatus
  <2>2. CASE outq' = outq /\ agent' = [agent EXCEPT !.pc = "llm"]
    <3>1. agent'.uid = agent.uid /\ agent'.told = agent.told
      BY <2>1, <2>2 DEF Busy
    <3> QED  BY <1>11, <2>1, <2>2, <3>1 DEF outVars
  <2>3. CASE /\ outq' = Queued(outq, ToSend("status")) /\ HasRoom(outq, OutDepth) /\ ~agent.told
             /\ agent' = [agent EXCEPT !.pc = "llm", !.told = TRUE]
    <3>1. /\ agent'.uid = agent.uid /\ agent'.told /\ agent'.pc = "llm"
      BY <2>1, <2>3 DEF Busy
    <3>2. agent' # Idle
      BY <3>1 DEF Idle
    <3>3. /\ ToSend("status") \in Outgoing /\ ToSend("status").uid = agent.uid
          /\ ToSend("status").kind = "status"
      BY <2>1, ToSendType DEF ToSend
    <3> QED  BY <2>1, <2>3, <3>1, <3>2, <3>3, OrderPushed DEF wsVars
  <2> QED  BY <2>1, <2>2, <2>3
<1>15. CASE KeepSilent
  BY <1>11, <1>15 DEF KeepSilent
<1>16. CASE PushAnswer
  <2>1. /\ agent # Idle /\ agent' = Idle /\ agent.out \in {"answer", "error"}
        /\ UNCHANGED <<sent, sending, wsVars, inq, asks>>
        /\ \/ outq' = Queued(outq, ToSend(agent.out)) /\ HasRoom(outq, OutDepth)
           \/ outq' = outq
    BY <1>16, Known DEF PushAnswer, At, TypeInv, KnownOK, Busy
  <2>2. /\ ToSend(agent.out) \in Outgoing /\ ToSend(agent.out).uid = agent.uid
        /\ ToSend(agent.out).kind # "status"
    BY <2>1, ToSendType DEF ToSend
  <2>3. CASE outq' = outq
    BY <1>11, <2>1, <2>3 DEF outVars
  <2>4. CASE outq' = Queued(outq, ToSend(agent.out)) /\ HasRoom(outq, OutDepth)
    BY <2>1, <2>2, <2>4, OrderPushed DEF wsVars
  <2> QED  BY <2>1, <2>3, <2>4
<1>17. CASE TakeOutgoing
  BY <1>17, OrderOutgoing
<1>18. CASE SendElsewhere \/ WsUnknown \/ WsSend
  <2>1. PICK to \in Nat : Leaves(to)
    BY <1>18, DispatcherDone
  <2> QED  BY <2>1, OrderLeaves
<1>19. CASE Reboot
  <2>1. Elements(<<>>) = {} /\ DOMAIN <<>> = {}
    BY EmptySeq DEF Elements
  <2>2. /\ sent' = sent /\ asks' = asks /\ agent' = Idle /\ http' = 0 /\ inq' = <<>> /\ outq' = <<>>
        /\ sending' = Nothing
    BY <1>19 DEF Reboot
  <2>3. Outbox' = {} /\ Waiting' = {}
    BY <2>1, <2>2 DEF Outbox, Waiting
  <2>4. AnswersInOrder'
    BY <2>2 DEF OrderInv, AnswersInOrder
  <2> QED  BY <2>1, <2>2, <2>3, <2>4 DEF OrderInv, OutOrder, AgentOrder, InOrder
<1> QED  BY <1>3, <1>4, <1>5, <1>7, <1>8, <1>9, <1>10, <1>13, <1>14, <1>15, <1>16, <1>17, <1>18,
            <1>19
         DEF Next, AgentTask, OutboundTask

LEMMA AlwaysInOrder == Spec => []OrderInv
<1>1. Init => OrderInv
  <2> SUFFICES ASSUME Init PROVE OrderInv
    OBVIOUS
  <2>1. Elements(<<>>) = {} /\ DOMAIN <<>> = {}
    BY EmptySeq DEF Elements
  <2>2. Outbox = {} /\ Waiting = {}
    BY <2>1 DEF Init, Offline, Outbox, Waiting
  <2> QED  BY <2>1, <2>2 DEF Init, Offline, OrderInv, OutOrder, AgentOrder, InOrder, AnswersInOrder
<1> QED  BY <1>1, OrderStep, AlwaysTyped, PTL DEF Spec

\* To one browser, and to Feishu, what goes out keeps the order of the questions, each is answered
\* once and no working notice follows its answer, though the board's own tasks push their messages
\* in between and overtake a browser whose message waits for room.
THEOREM AnswersOrdered == Spec => []AnswersInOrder
<1>1. OrderInv => AnswersInOrder
  BY DEF OrderInv
<1> QED  BY <1>1, AlwaysInOrder, PTL

-----------------------------------------------------------------------------
(* Who owns a text. *)

AskTexts(U) == {AskText(u) : u \in U}
OutTexts(O) == {OutText(o) : o \in O}

\* A text tells what it is the text of.
LEMMA TextsDiffer ==
    /\ \A u, v : AskText(u) = AskText(v) => u = v
    /\ \A u : \A o \in Outgoing : AskText(u) # OutText(o)
    /\ \A o, p \in Outgoing : OutText(o) = OutText(p) => o = p
<1>1. \A u, v : AskText(u) = AskText(v) => u = v
  <2> SUFFICES ASSUME NEW u, NEW v, AskText(u) = AskText(v) PROVE u = v
    OBVIOUS
  <2>1. AskText(u).uid = u /\ AskText(v).uid = v
    BY DEF AskText
  <2> QED  BY <2>1
<1>2. \A u : \A o \in Outgoing : AskText(u) # OutText(o)
  <2> SUFFICES ASSUME NEW u, NEW o \in Outgoing PROVE AskText(u) # OutText(o)
    OBVIOUS
  <2>1. AskText(u).of = "ask" /\ OutText(o).of = o.kind /\ o.kind # "ask"
    BY DEF AskText, OutText, Outgoing
  <2> QED  BY <2>1
<1>3. \A o, p \in Outgoing : OutText(o) = OutText(p) => o = p
  <2> SUFFICES ASSUME NEW o \in Outgoing, NEW p \in Outgoing, OutText(o) = OutText(p) PROVE o = p
    OBVIOUS
  <2>1. /\ OutText(o).uid = o.uid /\ OutText(o).of = o.kind
        /\ OutText(p).uid = p.uid /\ OutText(p).of = p.kind
    BY DEF OutText
  <2> QED  BY <2>1 DEF Outgoing
<1> QED  BY <1>1, <1>2, <1>3

\* One text, or none.
LEMMA FewTexts ==
    /\ AskTexts({}) = {} /\ OutTexts({}) = {}
    /\ \A u : AskTexts({u}) = {AskText(u)}
    /\ \A o : OutTexts({o}) = {OutText(o)}
BY DEF AskTexts, OutTexts

\* No message is in two hands.
LEMMA OneHand ==
    ASSUME TypeInv, OrderInv
    PROVE  /\ agent # Idle => agent.uid \notin Waiting
           /\ http # 0 => http \notin Elements(inq)
           /\ sending # Nothing => sending \notin Elements(outq)
           /\ agent # Idle /\ agent.out # "none" => ToSend(agent.out) \notin Outbox
<1>1. agent # Idle => agent.uid \notin Waiting
  BY Known, PastKnown DEF OrderInv, AgentOrder, Follows
<1>2. http # 0 => http \notin Elements(inq)
  BY Known, PastKnown DEF OrderInv, InOrder, Follows, Waiting, Elements
<1>3. sending # Nothing => sending \notin Elements(outq)
  <2>1. sending # Nothing => ~Before(sending, sending)
    BY Known, PastKnown DEF Before, Outbox
  <2> QED  BY <2>1 DEF OrderInv, OutOrder, Elements
<1>4. agent # Idle /\ agent.out # "none" => ToSend(agent.out) \notin Outbox
  <2> SUFFICES ASSUME agent # Idle, agent.out # "none", ToSend(agent.out) \in Outbox PROVE FALSE
    OBVIOUS
  <2>1. agent.out \in {"answer", "error"}
    BY Known DEF Busy
  <2>2. BeforeAgent(ToSend(agent.out))
    BY DEF OrderInv, AgentOrder, Past
  <2>3. agent.uid \in Nat
    BY Known, PastKnown
  <2> QED  BY <2>1, <2>2, <2>3 DEF BeforeAgent, ToSend
<1> QED  BY <1>1, <1>2, <1>3, <1>4

\* The messages in hand, and what is to be sent.
LEMMA Hands ==
    ASSUME TypeInv
    PROVE  /\ InHand = Waiting \cup (IF agent = Idle THEN {} ELSE {agent.uid})
           /\ InHand \subseteq DOMAIN asks /\ InHand \subseteq Uid
           /\ Outbound = Outbox \cup (IF agent # Idle /\ agent.out # "none"
                                      THEN {ToSend(agent.out)} ELSE {})
           /\ Outbound \subseteq Outgoing
<1>1. InHand = Waiting \cup (IF agent = Idle THEN {} ELSE {agent.uid})
  BY DEF InHand, Waiting
<1>2. Outbound = Outbox \cup (IF agent # Idle /\ agent.out # "none" THEN {ToSend(agent.out)} ELSE {})
  BY DEF Outbound, Outbox
<1>3. agent # Idle /\ agent.out # "none" => ToSend(agent.out) \in Outgoing
  BY Known, ToSendType DEF Busy
<1> QED  BY <1>1, <1>2, <1>3, Known

\* A step that frees texts with the messages and sendings it gives up, and takes the texts of those
\* it takes on, leaves every text with an owner.
LEMMA OwnedMoves ==
    ASSUME TypeInv, OwnInv, Grows,
           NEW A \in SUBSET Uid, NEW R \in SUBSET Uid,
           NEW B \in SUBSET Outgoing, NEW P \in SUBSET Outgoing,
           InHand' \cup refused' = ((InHand \cup refused) \ R) \cup A,
           Outbound' = (Outbound \ P) \cup B,
           heap' = (heap \ (AskTexts(R) \cup OutTexts(P))) \cup AskTexts(A) \cup OutTexts(B),
           refused' \cap InHand' = {}, refused' \subseteq DOMAIN asks
    PROVE  OwnInv'
<1> DEFINE U == InHand \cup refused
<1>1. heap = AskTexts(U) \cup OutTexts(Outbound)
  BY DEF OwnInv, TextIsOwned, AskTexts, OutTexts
<1>2. U \in SUBSET Uid /\ Outbound \in SUBSET Outgoing
  BY Hands DEF TypeInv, TypeOK
<1>3. heap' = AskTexts((U \ R) \cup A) \cup OutTexts((Outbound \ P) \cup B)
  <2> HIDE DEF U
  <2> QED  BY <1>1, <1>2, TextsDiffer DEF AskTexts, OutTexts
<1>4. heap' = {AskText(u) : u \in InHand' \cup refused'} \cup {OutText(o) : o \in Outbound'}
  BY <1>3 DEF AskTexts, OutTexts
<1>5. TextIsOwned'
  BY <1>4 DEF TextIsOwned, AskText, OutText
<1>6. refused' \subseteq DOMAIN asks'
  BY DEF Grows
<1> QED  BY <1>5, <1>6 DEF OwnInv

\* Nobody takes or frees a text.
LEMMA OwnedSame ==
    ASSUME TypeInv, OwnInv, Grows, UNCHANGED <<heap, refused>>,
           InHand' = InHand, Outbound' = Outbound
    PROVE  OwnInv'
<1>1. TextIsOwned'
  BY DEF OwnInv, TextIsOwned, AskText, OutText
<1> QED  BY <1>1 DEF OwnInv, Grows

\* A new message is taken into hand with its text.
LEMMA OwnedNew ==
    ASSUME TypeInv, OwnInv, Grows, NEW n \in Uid, n \notin DOMAIN asks,
           heap' = heap \cup {AskText(n)}, refused' = refused,
           InHand' = InHand \cup {n}, Outbound' = Outbound
    PROVE  OwnInv'
<1>1. refused' \cap InHand' = {} /\ refused' \subseteq DOMAIN asks
  BY DEF OwnInv
<1>2. {n} \in SUBSET Uid /\ {} \in SUBSET Uid /\ {} \in SUBSET Outgoing
  OBVIOUS
<1>3. /\ InHand' \cup refused' = ((InHand \cup refused) \ {}) \cup {n}
      /\ Outbound' = (Outbound \ {}) \cup {}
      /\ heap' = (heap \ (AskTexts({}) \cup OutTexts({}))) \cup AskTexts({n}) \cup OutTexts({})
  BY FewTexts
<1> QED  BY <1>1, <1>2, <1>3, OwnedMoves

LEMMA OwnedOffer ==
    ASSUME TypeInv, OwnInv, Grows, NEW ask \in Ask, Offer(ask),
           UNCHANGED <<outVars, agent, wsVars>>
    PROVE  OwnInv'
<1> DEFINE n == Len(asks) + 1
<1>1. Outbound' = Outbound
  BY DEF Outbound, ToSend, outVars
<1>2. n \in Uid /\ n \notin DOMAIN asks
  <2>1. n \in Uid /\ Len(asks) \in Nat /\ DOMAIN asks = 1 .. Len(asks)
    BY Offered
  <2> QED  BY <2>1
<1>3. CASE inq' = inq /\ heap' = heap
  <2>1. InHand' = InHand
    BY <1>3 DEF InHand, wsVars
  <2> QED  BY <1>1, <1>3, <2>1, OwnedSame DEF wsVars
<1>4. CASE inq' = Append(inq, n) /\ heap' = heap \cup {AskText(n)}
  <2>1. Elements(inq') = Elements(inq) \cup {n}
    BY <1>2, <1>4, Appended DEF TypeInv, TypeOK
  <2>2. InHand' = InHand \cup {n}
    BY <2>1 DEF InHand, wsVars
  <2> HIDE DEF n
  <2> QED  BY <1>1, <1>2, <1>4, <2>2, OwnedNew DEF wsVars
<1>5. (inq' = inq /\ heap' = heap) \/ (inq' = Append(inq, n) /\ heap' = heap \cup {AskText(n)})
  BY Offered
<1> QED  BY <1>3, <1>4, <1>5

LEMMA OwnedWsMessage ==
    ASSUME TypeInv, OwnInv, Grows, NEW fd \in Fd, NEW chat \in ChatId, WsMessage(fd, chat)
    PROVE  OwnInv'
<1> DEFINE n == Len(asks) + 1
<1>1. UNCHANGED <<refused, outVars, agent>>
  BY DEF WsMessage, agentVars
<1>2. Outbound' = Outbound
  BY <1>1 DEF Outbound, ToSend, outVars
<1>3. /\ n \in Uid /\ Len(asks) \in Nat /\ DOMAIN asks = 1 .. Len(asks) /\ http = 0
      /\ heap' = heap \cup {AskText(n)}
      /\ \/ inq' = Append(inq, n) /\ http' = 0
         \/ inq' = inq /\ http' = n
  BY WsMessageTaken
<1>4. n \notin DOMAIN asks /\ n # 0
  BY <1>3
<1>5. Elements(Append(inq, n)) = Elements(inq) \cup {n}
  BY <1>3, Appended DEF TypeInv, TypeOK
<1> HIDE DEF n
<1>6. InHand' = InHand \cup {n}
  <2>1. CASE inq' = Append(inq, n) /\ http' = 0
    BY <1>1, <1>3, <1>5, <2>1 DEF InHand
  <2>2. CASE inq' = inq /\ http' = n
    BY <1>1, <1>3, <1>4, <2>2 DEF InHand
  <2> QED  BY <1>3, <2>1, <2>2
<1> QED  BY <1>1, <1>2, <1>3, <1>4, <1>6, OwnedNew

\* What the full queue refuses leaves the gateway's hand, and nobody else had it.
LEMMA OwnedWsPushed ==
    ASSUME TypeInv, OrderInv, OwnInv, Grows, WsPushEnds
    PROVE  OwnInv'
<1>1. UNCHANGED <<outVars, agent, heap>>
  BY DEF WsPushEnds, agentVars
<1>2. Outbound' = Outbound
  BY <1>1 DEF Outbound, ToSend, outVars
<1>3. /\ http # 0 /\ http' = 0 /\ http \in DOMAIN asks
      /\ \/ refused' = refused /\ Elements(inq') = Elements(inq) \cup {http}
         \/ inq' = inq /\ refused' = refused \cup {http}
  BY WsPushed
<1>4. http \notin Elements(inq) /\ (agent # Idle => agent.uid # http)
  BY <1>3, OneHand DEF Waiting
<1>5. CASE refused' = refused /\ Elements(inq') = Elements(inq) \cup {http}
  <2>1. InHand' = InHand
    BY <1>1, <1>3, <1>5 DEF InHand
  <2> QED  BY <1>1, <1>2, <1>5, <2>1, OwnedSame
<1>6. CASE inq' = inq /\ refused' = refused \cup {http}
  <2>1. InHand' = InHand \ {http} /\ http \in InHand
    BY <1>1, <1>3, <1>4, <1>6 DEF InHand
  <2>2. refused' \cap InHand' = {} /\ refused' \subseteq DOMAIN asks
    BY <1>3, <1>6, <2>1 DEF OwnInv
  <2>3. /\ InHand' \cup refused' = ((InHand \cup refused) \ {}) \cup {}
        /\ Outbound' = (Outbound \ {}) \cup {}
        /\ heap' = (heap \ (AskTexts({}) \cup OutTexts({}))) \cup AskTexts({}) \cup OutTexts({})
    BY <1>1, <1>2, <1>6, <2>1, FewTexts
  <2>4. {} \in SUBSET Uid /\ {} \in SUBSET Outgoing
    OBVIOUS
  <2> QED  BY <2>2, <2>3, <2>4, OwnedMoves
<1> QED  BY <1>3, <1>5, <1>6

LEMMA OwnedTaken ==
    ASSUME TypeInv, OwnInv, Grows, TakeMessage
    PROVE  OwnInv'
<1>1. /\ UNCHANGED <<heap, refused, http, outVars>> /\ inq' = Tail(inq)
      /\ inq \in Seq(Uid) /\ inq # <<>>
      /\ agent = Idle /\ agent' # Idle /\ agent'.uid = Head(inq) /\ agent'.out = "none"
  BY MessageTaken DEF TakeMessage, wsVars
<1>2. Elements(inq) = {Head(inq)} \cup Elements(Tail(inq))
  BY <1>1, Taken
<1>3. InHand' = InHand
  BY <1>1, <1>2 DEF InHand
<1>4. Outbound' = Outbound
  BY <1>1 DEF Outbound, outVars
<1> QED  BY <1>1, <1>3, <1>4, OwnedSame

\* The agent allocates a text it is to send.
LEMMA OwnedAnswer ==
    ASSUME TypeInv, OwnInv, Grows, NEW kind \in {"status", "answer", "error"}, agent # Idle,
           heap' = heap \cup {OutText(ToSend(kind))}, refused' = refused, InHand' = InHand,
           Outbound' = Outbound \cup {ToSend(kind)}
    PROVE  OwnInv'
<1>1. {ToSend(kind)} \in SUBSET Outgoing /\ {} \in SUBSET Uid /\ {} \in SUBSET Outgoing
  BY ToSendType
<1>2. /\ InHand' \cup refused' = ((InHand \cup refused) \ {}) \cup {}
      /\ Outbound' = (Outbound \ {}) \cup {ToSend(kind)}
      /\ heap' = (heap \ (AskTexts({}) \cup OutTexts({}))) \cup AskTexts({}) \cup OutTexts({ToSend(kind)})
  BY FewTexts
<1>3. refused' \cap InHand' = {} /\ refused' \subseteq DOMAIN asks
  BY DEF OwnInv
<1> QED  BY <1>1, <1>2, <1>3, OwnedMoves

\* The agent is done with its message: it frees its text, and that of its answer when it drops it.
LEMMA OwnedDone ==
    ASSUME TypeInv, OrderInv, OwnInv, Grows, agent # Idle, agent' = Idle,
           UNCHANGED <<refused, inq, http>>, NEW P \in SUBSET Outgoing,
           heap' = heap \ ({AskText(agent.uid)} \cup OutTexts(P)),
           Outbound' = Outbound \ P
    PROVE  OwnInv'
<1>1. agent.uid \in Uid /\ agent.uid \notin Waiting /\ agent.uid \notin refused
  BY ToSendType, OneHand, Hands DEF OwnInv
<1>2. InHand' = InHand \ {agent.uid}
  BY <1>1 DEF InHand, Waiting
<1>3. refused' \cap InHand' = {} /\ refused' \subseteq DOMAIN asks
  BY <1>2 DEF OwnInv
<1>4. /\ InHand' \cup refused' = ((InHand \cup refused) \ {agent.uid}) \cup {}
      /\ Outbound' = (Outbound \ P) \cup {}
      /\ heap' = (heap \ (AskTexts({agent.uid}) \cup OutTexts(P))) \cup AskTexts({}) \cup OutTexts({})
  BY <1>1, <1>2, FewTexts
<1>5. {agent.uid} \in SUBSET Uid /\ {} \in SUBSET Uid /\ {} \in SUBSET Outgoing
  BY <1>1
<1> QED  BY <1>3, <1>4, <1>5, OwnedMoves

\* The dispatcher frees what it is done with, which nobody else is to send.
LEMMA OwnedLeaves ==
    ASSUME TypeInv, OrderInv, OwnInv, Grows, NEW to \in Nat, Leaves(to)
    PROVE  OwnInv'
<1>1. /\ sending # Nothing /\ sending \in Outgoing /\ sending' = Nothing
      /\ heap' = heap \ {OutText(sending)} /\ UNCHANGED <<refused, outq, agent, inq, http>>
  BY DEF Leaves, agentVars, TypeInv, TypeOK
<1>2. /\ sending \notin Elements(outq)
      /\ agent # Idle /\ agent.out # "none" => ToSend(agent.out) # sending
  BY <1>1, OneHand DEF Outbox
<1>3. Outbound' = Outbound \ {sending}
  BY <1>1, <1>2 DEF Outbound, ToSend
<1>4. InHand' = InHand
  BY <1>1 DEF InHand
<1>5. /\ InHand' \cup refused' = ((InHand \cup refused) \ {}) \cup {}
      /\ Outbound' = (Outbound \ {sending}) \cup {}
      /\ heap' = (heap \ (AskTexts({}) \cup OutTexts({sending}))) \cup AskTexts({}) \cup OutTexts({})
  BY <1>1, <1>3, <1>4, FewTexts
<1>6. {sending} \in SUBSET Outgoing /\ {} \in SUBSET Uid /\ {} \in SUBSET Outgoing
  BY <1>1
<1>7. refused' \cap InHand' = {} /\ refused' \subseteq DOMAIN asks
  BY <1>1, <1>4 DEF OwnInv
<1> QED  BY <1>5, <1>6, <1>7, OwnedMoves

\* The agent gets its answer, or the text that says it has none.
LEMMA OwnedText ==
    ASSUME TypeInv, OwnInv, Grows, agent # Idle, agent.pc \in {"route", "think", "llm"},
           HasAnswer \/ HasError
    PROVE  OwnInv'
<1>1. UNCHANGED <<refused, inq, http, outq, sending>>
  BY DEF HasAnswer, HasError, wsVars, outVars
<1>2. PICK kind \in {"answer", "error"} :
         agent'.uid = agent.uid /\ agent'.out = kind /\ heap' = heap \cup {OutText(ToSend(kind))}
  BY AnswerMoves
<1>3. agent \in Busy /\ agent.out = "none"
  BY Known DEF TypeInv, KnownOK
<1>4. agent' # Idle
  <2>1. agent'.pc # "idle"
    BY <1>3 DEF HasAnswer, HasError, Busy
  <2> QED  BY <2>1 DEF Idle
<1>5. InHand' = InHand
  BY <1>1, <1>2, <1>4 DEF InHand
<1>6. Outbound' = Outbound \cup {ToSend(kind)}
  BY <1>1, <1>2, <1>3, <1>4 DEF Outbound, ToSend
<1> QED  BY <1>1, <1>2, <1>5, <1>6, OwnedAnswer

\* The agent goes on with its message and with what it is to send.
LEMMA OwnedGoesOn ==
    ASSUME TypeInv, OwnInv, Grows, agent # Idle,
           UNCHANGED <<refused, heap, inq, http, outq, sending>>,
           agent' # Idle, agent'.uid = agent.uid, agent'.out = agent.out
    PROVE  OwnInv'
<1>1. InHand' = InHand
  BY DEF InHand
<1>2. Outbound' = Outbound
  BY DEF Outbound, ToSend
<1> QED  BY <1>1, <1>2, OwnedSame

\* A notice that the agent is at work.
LEMMA OwnedStatus ==
    ASSUME TypeInv, OwnInv, Grows, Think
    PROVE  OwnInv'
<1>1. /\ agent # Idle /\ agent \in Busy /\ agent.pc = "think" /\ agent.out = "none"
      /\ UNCHANGED <<sent, sending, wsVars, inq, asks>>
      /\ \/ /\ outq' = Queued(outq, ToSend("status")) /\ HasRoom(outq, OutDepth)
            /\ heap' = heap \cup {OutText(ToSend("status"))}
            /\ agent' = [agent EXCEPT !.pc = "llm", !.told = TRUE]
         \/ outq' = outq /\ heap' = heap /\ agent' = [agent EXCEPT !.pc = "llm"]
  BY Known DEF Think, At, TypeInv, KnownOK
<1>2. agent'.uid = agent.uid /\ agent'.out = agent.out /\ agent'.pc = "llm"
  BY <1>1 DEF Busy
<1>3. agent' # Idle
  BY <1>2 DEF Idle
<1>4. CASE outq' = outq /\ heap' = heap
  BY <1>1, <1>2, <1>3, <1>4, OwnedGoesOn DEF wsVars
<1>5. CASE /\ outq' = Queued(outq, ToSend("status")) /\ HasRoom(outq, OutDepth)
           /\ heap' = heap \cup {OutText(ToSend("status"))}
  <2>1. ToSend("status") \in Outgoing /\ ToSend("status").uid \in DOMAIN asks
    BY <1>1, ToSendType
  <2>2. Elements(outq') = Elements(outq) \cup {ToSend("status")}
    BY <1>5, <2>1, Pushed
  <2>3. Outbound' = Outbound \cup {ToSend("status")}
    BY <1>1, <1>2, <1>3, <2>2 DEF Outbound, ToSend
  <2>4. InHand' = InHand
    BY <1>1, <1>2, <1>3 DEF InHand, wsVars
  <2> QED  BY <1>1, <1>5, <2>3, <2>4, OwnedAnswer DEF wsVars
<1> QED  BY <1>1, <1>4, <1>5

\* A proactive check that says nothing, and a turn that pushes its text or drops it.
LEMMA OwnedEnds ==
    ASSUME TypeInv, OrderInv, OwnInv, Grows, KeepSilent \/ PushAnswer
    PROVE  OwnInv'
<1>1. /\ agent # Idle /\ agent' = Idle /\ UNCHANGED <<refused, inq, http, sending>>
  BY DEF KeepSilent, PushAnswer, At, wsVars, outVars
<1>2. CASE KeepSilent
  <2>1. agent.out = "none"
    BY <1>1, <1>2, Known DEF KeepSilent, At, TypeInv, KnownOK
  <2>2. Outbound' = Outbound \ {}
    BY <1>1, <1>2, <2>1 DEF KeepSilent, Outbound, outVars
  <2>3. heap' = heap \ ({AskText(agent.uid)} \cup OutTexts({}))
    BY <1>2, FewTexts DEF KeepSilent
  <2> QED  BY <1>1, <2>2, <2>3, OwnedDone
<1>3. CASE PushAnswer
  <2>1. agent.out # "none" /\ agent.out \in {"answer", "error"}
    BY <1>1, <1>3, Known DEF PushAnswer, At, TypeInv, KnownOK, Busy
  <2> DEFINE o == ToSend(agent.out)
  <2>2. o \in Outgoing /\ o.uid \in DOMAIN asks /\ o \notin Outbox
    BY <1>1, <2>1, ToSendType, OneHand
  <2>3. Outbound = Outbox \cup {o}
    BY <1>1, <2>1, Hands
  <2>4. \/ outq' = Queued(outq, o) /\ HasRoom(outq, OutDepth) /\ heap' = heap \ {AskText(agent.uid)}
        \/ outq' = outq /\ heap' = heap \ {AskText(agent.uid), OutText(o)}
    BY <1>3 DEF PushAnswer
  <2> HIDE DEF o
  <2>5. Outbound' = Elements(outq') \cup ({sending} \ {Nothing})
    BY <1>1 DEF Outbound
  <2>6. CASE outq' = Queued(outq, o) /\ HasRoom(outq, OutDepth) /\ heap' = heap \ {AskText(agent.uid)}
    <3>1. Elements(outq') = Elements(outq) \cup {o}
      BY <2>2, <2>6, Pushed
    <3>2. Outbound' = Outbound \ {}
      BY <2>3, <2>5, <3>1 DEF Outbox
    <3>3. heap' = heap \ ({AskText(agent.uid)} \cup OutTexts({}))
      BY <2>6, FewTexts
    <3> QED  BY <1>1, <3>2, <3>3, OwnedDone
  <2>7. CASE outq' = outq /\ heap' = heap \ {AskText(agent.uid), OutText(o)}
    <3>1. Outbound' = Outbound \ {o}
      BY <2>2, <2>3, <2>5, <2>7 DEF Outbox
    <3>2. heap' = heap \ ({AskText(agent.uid)} \cup OutTexts({o}))
      BY <2>7, FewTexts
    <3> QED  BY <1>1, <2>2, <3>1, <3>2, OwnedDone
  <2> QED  BY <2>4, <2>6, <2>7
<1> QED  BY <1>2, <1>3

LEMMA OwnedStep == TypeInv /\ OrderInv /\ OwnInv /\ [Next]_vars => OwnInv'
<1> SUFFICES ASSUME TypeInv, OrderInv, OwnInv, [Next]_vars PROVE OwnInv'
  OBVIOUS
<1>1. Grows
  BY HistoriesGrow
<1>2. ASSUME UNCHANGED <<heap, refused, inq, http, outq, sending, agent>> PROVE OwnInv'
  <2>1. InHand' = InHand
    BY <1>2 DEF InHand
  <2>2. Outbound' = Outbound
    BY <1>2 DEF Outbound, ToSend
  <2> QED  BY <1>1, <1>2, <2>1, <2>2, OwnedSame
<1>3. CASE UNCHANGED vars
  BY <1>2, <1>3 DEF vars, wsVars, agentVars, outVars
<1>4. CASE \E fd \in Fd : Open(fd) \/ Close(fd)
  BY <1>2, <1>4 DEF Open, Close, agentVars, outVars
<1>5. CASE (\E fd \in Fd, chat \in ChatId : WsMessage(fd, chat)) \/ WsPushEnds
  BY <1>1, <1>5, OwnedWsMessage, OwnedWsPushed
<1>6. ASSUME NEW ask \in Ask, Offer(ask), UNCHANGED <<outVars, agentVars, wsVars>>
      PROVE  OwnInv'
  BY <1>1, <1>6, OwnedOffer DEF agentVars
<1>7. ASSUME NEW id \in FeishuId, FeishuMessage(id) PROVE OwnInv'
  <2>1. CASE \E ask \in Ask : ask.from = 0 /\ Offer(ask)
    BY <1>6, <1>7, <2>1, Recorded
  <2>2. CASE UNCHANGED <<inq, heap, asks>>
    BY <1>2, <1>7, <2>2, Recorded DEF wsVars, agentVars, outVars
  <2> QED  BY <1>7, <2>1, <2>2, Recorded
<1>8. CASE \E id \in FeishuId : FeishuDuplicate(id)
  BY <1>3, <1>8 DEF FeishuDuplicate
<1>9. CASE ProactiveCheck \/ \E ask \in OtherAsk : OtherMessage(ask)
  BY <1>6, <1>9, OwnMessage
<1>10. CASE TakeMessage
  BY <1>1, <1>10, OwnedTaken
<1>11. CASE Route \/ LlmUsesTools \/ LlmAnswers \/ LlmFails \/ SaveUser \/ SaveAnswer
  <2>1. CASE HasAnswer \/ HasError
    <3>1. agent # Idle /\ agent \in Busy
      BY <1>11, Known DEF Route, LlmUsesTools, LlmAnswers, LlmFails, SaveUser, SaveAnswer, At
    <3>2. CASE agent.pc \in {"route", "think", "llm"}
      BY <1>1, <2>1, <3>1, <3>2, OwnedText
    <3>3. CASE ~(agent.pc \in {"route", "think", "llm"})
      <4>1. SaveUser \/ SaveAnswer
        BY <1>11, <3>3 DEF Route, LlmUsesTools, LlmAnswers, LlmFails, At
      <4>2. agent'.out = agent.out /\ agent'.uid = agent.uid /\ agent'.pc \in {"saveAnswer", "push"}
        BY <3>1, <4>1 DEF SaveUser, SaveAnswer, Busy
      <4>3. agent' # Idle
        BY <4>2 DEF Idle
      <4> QED  BY <1>1, <3>1, <4>1, <4>2, <4>3, OwnedGoesOn DEF SaveUser, SaveAnswer, wsVars, outVars
    <3> QED  BY <3>2, <3>3
  <2>2. CASE ~(HasAnswer \/ HasError)
    <3>1. /\ agent # Idle /\ UNCHANGED <<wsVars, inq, outVars, heap>>
          /\ \/ agent' = [agent EXCEPT !.pc = "think"]
             \/ agent' = [agent EXCEPT !.pc = "think", !.round = @ + 1]
             \/ agent' = [agent EXCEPT !.pc = "saveAnswer"]
             \/ agent' = [agent EXCEPT !.pc = "push"]
      BY <1>11, <2>2 DEF Route, LlmUsesTools, LlmAnswers, LlmFails, SaveUser, SaveAnswer, At
    <3>2. agent \in Busy
      BY <3>1, Known
    <3>3. /\ agent'.uid = agent.uid /\ agent'.out = agent.out
          /\ agent'.pc \in {"think", "saveAnswer", "push"}
      BY <3>1, <3>2 DEF Busy
    <3>4. agent' # Idle
      BY <3>3 DEF Idle
    <3> QED  BY <1>1, <3>1, <3>3, <3>4, OwnedGoesOn DEF wsVars, outVars
  <2> QED  BY <2>1, <2>2
<1>12. CASE Think
  BY <1>1, <1>12, OwnedStatus
<1>13. CASE KeepSilent \/ PushAnswer
  BY <1>1, <1>13, OwnedEnds
<1>14. CASE TakeOutgoing
  <2>1. Outbox' = Outbox /\ UNCHANGED <<heap, refused, inq, http, agent>>
    BY <1>14, OutgoingTaken DEF TakeOutgoing, wsVars, agentVars
  <2>2. InHand' = InHand
    BY <2>1 DEF InHand
  <2>3. Outbound' = Outbound
    BY <2>1 DEF Outbound, Outbox, ToSend
  <2> QED  BY <1>1, <2>1, <2>2, <2>3, OwnedSame
<1>15. CASE SendElsewhere \/ WsUnknown \/ WsSend
  <2>1. PICK to \in Nat : Leaves(to)
    BY <1>15, DispatcherDone
  <2> QED  BY <1>1, <2>1, OwnedLeaves
<1>16. CASE Reboot
  <2>1. Elements(<<>>) = {}
    BY EmptySeq DEF Elements
  <2>2. /\ refused' = {} /\ agent' = Idle /\ http' = 0 /\ inq' = <<>> /\ outq' = <<>>
        /\ sending' = Nothing /\ heap' = {}
    BY <1>16 DEF Reboot
  <2>3. InHand' = {} /\ Outbound' = {}
    BY <2>1, <2>2 DEF InHand, Outbound
  <2> QED  BY <2>2, <2>3 DEF OwnInv, TextIsOwned
<1> QED  BY <1>3, <1>4, <1>5, <1>7, <1>8, <1>9, <1>10, <1>11, <1>12, <1>13, <1>14, <1>15, <1>16
         DEF Next, AgentTask, OutboundTask

\* Each text is on the heap exactly while one queue, task or waiting source is to free it, on every
\* way through a turn and whatever queue is full; only what the gateway was refused stays behind.
THEOREM TextsOwned == Spec => []TextIsOwned
<1>1. Init => OwnInv
  <2> SUFFICES ASSUME Init PROVE OwnInv
    OBVIOUS
  <2>1. Elements(<<>>) = {}
    BY EmptySeq DEF Elements
  <2>2. InHand = {} /\ Outbound = {} /\ heap = {} /\ refused = {}
    BY <2>1 DEF Init, Offline, InHand, Outbound
  <2> QED  BY <2>2 DEF OwnInv, TextIsOwned
<1>2. OwnInv => TextIsOwned
  BY DEF OwnInv
<1> QED  BY <1>1, <1>2, OwnedStep, AlwaysTyped, AlwaysInOrder, PTL DEF Spec

-----------------------------------------------------------------------------
(* Feishu messages that come again. *)

\* The write position of the ring goes up by one, and from the last place to the first.
LEMMA NextPlace ==
    ASSUME NEW D \in Nat \ {0}, NEW n \in 0 .. D - 1
    PROVE  (n + 1) % D = IF n + 1 = D THEN 0 ELSE n + 1
<1>1. CASE n + 1 < D
  <2>1. (n + 1) % D = n + 1
    BY <1>1
  <2> QED  BY <1>1, <2>1
<1>2. CASE n + 1 = D
  <2>1. D % D = 0
    OBVIOUS
  <2> QED  BY <1>2, <2>1
<1> QED  BY <1>1, <1>2

\* Recording moves every message one back in age and leaves it where it is, until the ring has gone
\* round.
LEMMA FedRecorded ==
    ASSUME TypeInv, FedInv, NEW id \in FeishuId, FeishuMessage(id)
    PROVE  FedInv'
<1> DEFINE D == SeenDepth
           n == seen.next
           L == Len(fed)
<1>1. D \in Nat \ {0} /\ n \in 0 .. D - 1 /\ DOMAIN seen.slots \subseteq 0 .. D - 1
  BY ChatAssumption DEF TypeInv, TypeOK, IsRing
<1>2. /\ fed \in Seq(FeishuId) /\ L \in Nat /\ DOMAIN fed = 1 .. L
      /\ Len(fed') = L + 1 /\ DOMAIN fed' = 1 .. L + 1
      /\ \A k \in DOMAIN fed : fed'[k] = fed[k]
      /\ fed'[L + 1] = id
  <2>1. fed \in Seq(FeishuId) /\ fed' = Append(fed, id)
    BY Recorded DEF TypeInv, TypeOK
  <2> QED  BY <2>1, Appended
<1>3. seen' = RingPut(seen, [id |-> id], D)
  BY Recorded
<1>4. /\ DOMAIN seen'.slots = DOMAIN seen.slots \cup {n}
      /\ seen'.slots[n].id = id
      /\ \A i \in DOMAIN seen.slots : i # n => seen'.slots[i] = seen.slots[i]
      /\ seen'.next = (n + 1) % D
  BY <1>3 DEF RingPut
<1>5. seen'.next = IF n + 1 = D THEN 0 ELSE n + 1
  BY <1>1, <1>4, NextPlace
<1>6. \A i \in DOMAIN seen.slots : seen.slots[i].id # id
  BY DEF FeishuMessage, Seen, RingHas, RingMatches
<1>7. \A k \in DOMAIN fed : L - k < D =>
         /\ Slot(L + 1 - k) \in DOMAIN seen.slots
         /\ seen.slots[Slot(L + 1 - k)].id = fed[k]
  BY DEF FedInv
<1>8. \A k \in DOMAIN fed : L - k < D => fed[k] # id
  BY <1>6, <1>7
<1> HIDE DEF L, n, D
<1>9. FeishuOnce'
  <2>1. ASSUME NEW i \in DOMAIN fed', NEW j \in DOMAIN fed', i < j, fed'[i] = fed'[j]
        PROVE  j - i > D
    <3>1. i \in DOMAIN fed /\ i \in Int /\ j \in Int /\ (j \in DOMAIN fed \/ j = L + 1)
      BY <1>2, <2>1
    <3>2. CASE j \in DOMAIN fed
      BY <1>2, <2>1, <3>1, <3>2 DEF FedInv, FeishuOnce, D
    <3>3. CASE j = L + 1
      <4>1. fed[i] = id
        BY <1>2, <2>1, <3>1, <3>3
      <4>2. ~(L - i < D)
        BY <1>8, <3>1, <4>1
      <4> QED  BY <1>1, <1>2, <3>1, <3>3, <4>2
    <3> QED  BY <3>1, <3>2, <3>3
  <2> QED  BY <2>1 DEF FeishuOnce, D
<1>10. ASSUME NEW k \in DOMAIN fed', Len(fed') - k < D
       PROVE  /\ Slot(Len(fed) + 1 - k)' \in DOMAIN seen'.slots
              /\ seen'.slots[Slot(Len(fed) + 1 - k)'].id = fed'[k]
  <2>1. k \in 1 .. L + 1
    BY <1>2
  <2>2. CASE k = L + 1
    <3>1. Slot(Len(fed) + 1 - k)' = n
      <4>1. Len(fed)' + 1 - k = 1
        BY <1>2, <2>2
      <4>2. Slot(Len(fed) + 1 - k)' = IF 1 <= seen'.next THEN seen'.next - 1
                                      ELSE seen'.next - 1 + D
        BY <4>1 DEF Slot, D
      <4> QED  BY <1>1, <1>5, <4>2
    <3> QED  BY <1>2, <1>4, <2>2, <3>1
  <2>3. CASE k \in DOMAIN fed
    <3> DEFINE a == L + 1 - k
    <3>1. a \in 1 .. D - 1 /\ L - k < D
      BY <1>1, <1>2, <1>10, <2>3
    <3>2. Slot(a) = IF a <= n THEN n - a ELSE n - a + D
      BY DEF Slot, n, D
    <3>3. Len(fed)' + 1 - k = a + 1
      BY <1>2, <2>3
    <3>4. Slot(Len(fed) + 1 - k)' = IF a + 1 <= seen'.next THEN seen'.next - (a + 1)
                                    ELSE seen'.next - (a + 1) + D
      BY <3>3 DEF Slot, D
    <3> HIDE DEF a
    <3>5. Slot(Len(fed) + 1 - k)' = Slot(a) /\ Slot(a) # n
      <4>1. CASE n + 1 = D
        BY <1>1, <1>5, <3>1, <3>2, <3>4, <4>1
      <4>2. CASE n + 1 # D
        BY <1>1, <1>5, <3>1, <3>2, <3>4, <4>2
      <4> QED  BY <4>1, <4>2
    <3>6. Slot(a) \in DOMAIN seen.slots /\ seen.slots[Slot(a)].id = fed[k]
      BY <1>7, <2>3, <3>1 DEF a
    <3> QED  BY <1>2, <1>4, <2>3, <3>5, <3>6
  <2> QED  BY <1>2, <2>1, <2>2, <2>3
<1>11. (\A k \in DOMAIN fed : Len(fed) - k < SeenDepth =>
           LET s == Slot(Len(fed) + 1 - k)
           IN  s \in DOMAIN seen.slots /\ seen.slots[s].id = fed[k])'
  BY <1>10 DEF D, Slot
<1> QED  BY <1>9, <1>11 DEF FedInv

LEMMA FedStep == TypeInv /\ FedInv /\ [Next]_vars => FedInv'
<1> SUFFICES ASSUME TypeInv, FedInv, [Next]_vars PROVE FedInv'
  OBVIOUS
<1>1. ASSUME UNCHANGED feishuVars PROVE FedInv'
  BY <1>1 DEF FedInv, FeishuOnce, Slot, feishuVars
<1>2. CASE UNCHANGED vars
  BY <1>1, <1>2 DEF vars
<1>3. CASE \E fd \in Fd : Open(fd) \/ Close(fd) \/ \E chat \in ChatId : WsMessage(fd, chat)
  BY <1>1, <1>3 DEF Open, Close, WsMessage
<1>4. CASE WsPushEnds
  BY <1>1, <1>4 DEF WsPushEnds
<1>5. CASE \E id \in FeishuId : FeishuMessage(id)
  BY <1>5, FedRecorded
<1>6. CASE \E id \in FeishuId : FeishuDuplicate(id)
  BY <1>2, <1>6 DEF FeishuDuplicate
<1>7. CASE ProactiveCheck \/ \E ask \in OtherAsk : OtherMessage(ask)
  BY <1>1, <1>7 DEF ProactiveCheck, OtherMessage
<1>8. CASE AgentTask
  BY <1>1, <1>8 DEF AgentTask, TakeMessage, Route, HasAnswer, HasError, Think, LlmUsesTools,
                    LlmAnswers, LlmFails, KeepSilent, SaveUser, SaveAnswer, PushAnswer
<1>9. CASE TakeOutgoing
  BY <1>1, <1>9 DEF TakeOutgoing
<1>10. CASE SendElsewhere \/ WsUnknown \/ WsSend
  BY <1>1, <1>10, DispatcherDone DEF Leaves
<1>11. CASE Reboot
  <2>1. fed' = <<>> /\ DOMAIN <<>> = {}
    BY <1>11, EmptySeq DEF Reboot
  <2> QED  BY <2>1 DEF FedInv, FeishuOnce
<1> QED  BY <1>2, <1>3, <1>4, <1>5, <1>6, <1>7, <1>8, <1>9, <1>10, <1>11 DEF Next, OutboundTask

\* Between two turns for one Feishu message lie more others than the ring has places: while the
\* servers deliver it again within that many, it is answered once.
THEOREM FedOnce == Spec => []FeishuOnce
<1>1. Init => FedInv
  <2> SUFFICES ASSUME Init PROVE FedInv
    OBVIOUS
  <2>1. fed = <<>> /\ DOMAIN <<>> = {}
    BY EmptySeq DEF Init, Offline
  <2> QED  BY <2>1 DEF FedInv, FeishuOnce
<1>2. FedInv => FeishuOnce
  BY DEF FedInv
<1> QED  BY <1>1, <1>2, FedStep, AlwaysTyped, PTL DEF Spec

-----------------------------------------------------------------------------
(* Answers to the right sockets. *)

\* Connections stay in the history, with their sockets and the chats they used.
OpensGrow ==
    /\ Len(opens) \in Nat /\ Len(opens') \in Nat /\ Len(opens) <= Len(opens')
    /\ \A c \in DOMAIN opens : /\ c \in DOMAIN opens' /\ opens'[c].fd = opens[c].fd
                               /\ opens[c].chats \subseteq opens'[c].chats

LEMMA OpensKept ==
    ASSUME TypeInv, opens' = opens
    PROVE  OpensGrow
<1>1. Len(opens) \in Nat
  BY LenProperties DEF TypeInv, TypeOK
<1> QED  BY <1>1 DEF OpensGrow

\* What was used stays used.
LEMMA UsedStays ==
    ASSUME OpensGrow, NEW fd, NEW chat, NEW n \in Nat, NEW m \in Nat, n <= m,
           UsedOn(opens, fd, chat, n)
    PROVE  UsedOn(opens', fd, chat, m)
<1>1. \A c \in 1 .. n : c \in 1 .. m
  OBVIOUS
<1> QED  BY <1>1 DEF UsedOn, OpensGrow

LEMMA ClientsKept ==
    ASSUME TypeInv, ClientsInv, OpensGrow, NEW e \in Entry, clients[e] # Inactive
    PROVE  UsedOn(opens', clients[e].fd, clients[e].chat, Len(opens'))
<1>1. UsedOn(opens, clients[e].fd, clients[e].chat, Len(opens))
  BY DEF ClientsInv
<1>2. Len(opens) \in Nat /\ Len(opens') \in Nat /\ Len(opens) <= Len(opens')
  BY DEF OpensGrow
<1> QED  BY <1>1, <1>2, UsedStays

\* What was sent went to the right socket, whatever the histories have grown by.
LEMMA SocketsKept ==
    ASSUME TypeInv, SocketInv, Grows, OpensGrow, sent' = sent, ClientsInv', ConnInv'
    PROVE  SocketInv'
<1>1. ASSUME NEW i \in DOMAIN sent, sent[i].to # 0
      PROVE  /\ sent[i].to \in DOMAIN opens'
             /\ UsedOn(opens', opens'[sent[i].to].fd, asks'[sent[i].uid].chat, sent[i].to)
  <2>1. /\ sent[i].to \in DOMAIN opens
        /\ UsedOn(opens, opens[sent[i].to].fd, asks[sent[i].uid].chat, sent[i].to)
    BY <1>1 DEF SocketInv
  <2>2. asks'[sent[i].uid] = asks[sent[i].uid]
    BY Known DEF Grows
  <2>3. sent[i].to \in DOMAIN opens' /\ opens'[sent[i].to].fd = opens[sent[i].to].fd
    BY <2>1 DEF OpensGrow
  <2>4. sent[i].to \in Nat
    <3>1. DOMAIN opens = 1 .. Len(opens)
      BY LenProperties DEF TypeInv, TypeOK
    <3> QED  BY <2>1, <3>1
  <2> QED  BY <2>1, <2>2, <2>3, <2>4, UsedStays
<1> QED  BY <1>1 DEF SocketInv

LEMMA SocketOpen ==
    ASSUME TypeInv, SocketInv, Grows, NEW fd \in Fd, Open(fd)
    PROVE  SocketInv'
<1> DEFINE n == Len(opens) + 1
<1>1. /\ n \in Nat /\ Len(opens) \in Nat /\ Len(opens') = n
      /\ DOMAIN opens = 1 .. Len(opens) /\ DOMAIN opens' = 1 .. n
      /\ \A c \in DOMAIN opens : opens'[c] = opens[c]
      /\ opens'[n] = [fd |-> fd, chats |-> {}]
      /\ conn' = [conn EXCEPT ![fd] = n] /\ conn \in [Fd -> 0 .. MaxOpens]
  <2>1. conn \in [Fd -> 0 .. MaxOpens]
    BY DEF TypeInv, TypeOK
  <2> QED  BY <2>1, Opened
<1>2. OpensGrow
  BY <1>1 DEF OpensGrow
<1>3. n \in 1 .. n /\ n \in DOMAIN opens' /\ opens'[n].fd = fd
  BY <1>1
<1>4. clients \in Table /\ clients' = AddClient(clients, fd) /\ sent' = sent
  BY DEF Open, TypeInv, TypeOK, Table, outVars
<1> HIDE DEF n
<1>5. ASSUME NEW e \in Entry, clients'[e] # Inactive
      PROVE  UsedOn(opens', clients'[e].fd, clients'[e].chat, Len(opens'))
  <2>1. clients'[e] = clients[e] \/ clients'[e] = [fd |-> fd, chat |-> AutoId(fd)]
    BY <1>4, AddedClient
  <2>2. CASE clients'[e] = clients[e]
    <3>1. UsedOn(opens', clients[e].fd, clients[e].chat, Len(opens'))
      BY <1>2, <1>5, <2>2, ClientsKept DEF SocketInv
    <3> QED  BY <2>2, <3>1
  <2>3. CASE clients'[e] = [fd |-> fd, chat |-> AutoId(fd)]
    <3>1. UsedOn(opens', fd, AutoId(fd), n)
      BY <1>3 DEF UsedOn
    <3>2. clients'[e].fd = fd /\ clients'[e].chat = AutoId(fd)
      BY <2>3
    <3> QED  BY <1>1, <3>1, <3>2
  <2> QED  BY <2>1, <2>2, <2>3
<1>6. ClientsInv'
  BY <1>5 DEF ClientsInv
<1>7. ASSUME NEW f \in Fd, conn'[f] # 0
      PROVE  /\ conn'[f] \in DOMAIN opens' /\ opens'[conn'[f]].fd = f
             /\ \A c \in DOMAIN opens' : opens'[c].fd = f => c <= conn'[f]
  <2>1. CASE f = fd
    <3>1. conn'[f] = n
      BY <1>1, <2>1
    <3>2. \A c \in DOMAIN opens' : c <= n
      BY <1>1
    <3> QED  BY <1>3, <2>1, <3>1, <3>2
  <2>2. CASE f # fd
    <3>1. conn'[f] = conn[f]
      BY <1>1, <2>2
    <3>2. /\ conn[f] \in DOMAIN opens /\ opens[conn[f]].fd = f
          /\ \A c \in DOMAIN opens : opens[c].fd = f => c <= conn[f]
      BY <1>7, <3>1 DEF SocketInv, ConnInv
    <3>3. \A c \in DOMAIN opens' : opens'[c].fd = f => c \in DOMAIN opens /\ opens[c].fd = f
      <4>1. \A c \in DOMAIN opens' : c # n => c \in DOMAIN opens
        BY <1>1 DEF n
      <4> QED  BY <1>1, <1>3, <2>2, <4>1
    <3>4. \A c \in DOMAIN opens' : opens'[c].fd = f => c <= conn[f]
      BY <3>2, <3>3
    <3>5. conn[f] \in DOMAIN opens' /\ opens'[conn[f]].fd = f
      BY <1>2, <3>2 DEF OpensGrow
    <3> QED  BY <3>1, <3>4, <3>5
  <2> QED  BY <2>1, <2>2
<1>8. ConnInv'
  BY <1>7 DEF ConnInv
<1> QED  BY <1>2, <1>4, <1>6, <1>8, SocketsKept

\* A message that names a chat on a connection: that chat was used there.
LEMMA SocketMessage ==
    ASSUME TypeInv, SocketInv, Grows, NEW fd \in Fd, NEW chat \in ChatId, WsMessage(fd, chat)
    PROVE  SocketInv'
<1>1. /\ conn[fd] # 0 /\ conn' = conn /\ sent' = sent
      /\ clients \in Table /\ clients' = NameClient(clients, fd, chat)
  BY DEF WsMessage, TypeInv, TypeOK, Table, outVars
<1>2. conn[fd] \in DOMAIN opens /\ opens[conn[fd]].fd = fd
  BY <1>1 DEF SocketInv, ConnInv
<1>3. Len(opens) \in Nat /\ DOMAIN opens = 1 .. Len(opens)
  BY LenProperties DEF TypeInv, TypeOK
<1>4. /\ Len(opens') = Len(opens) /\ DOMAIN opens' = DOMAIN opens
      /\ \A c \in DOMAIN opens : opens'[c].fd = opens[c].fd /\ opens[c].chats \subseteq opens'[c].chats
      /\ chat \in opens'[conn[fd]].chats
  BY <1>2, ChatUsed
<1>5. OpensGrow
  BY <1>3, <1>4 DEF OpensGrow
<1>6. ASSUME NEW e \in Entry, clients'[e] # Inactive
      PROVE  UsedOn(opens', clients'[e].fd, clients'[e].chat, Len(opens'))
  <2>1. clients'[e] = clients[e] \/ clients'[e] = [fd |-> fd, chat |-> EntryId(chat)]
    BY <1>1, NamedClient
  <2>2. CASE clients'[e] = clients[e]
    <3>1. UsedOn(opens', clients[e].fd, clients[e].chat, Len(opens'))
      BY <1>5, <1>6, <2>2, ClientsKept DEF SocketInv
    <3> QED  BY <2>2, <3>1
  <2>3. CASE clients'[e] = [fd |-> fd, chat |-> EntryId(chat)]
    <3>1. UsedOn(opens', fd, EntryId(chat), Len(opens'))
      BY <1>2, <1>3, <1>4 DEF UsedOn
    <3>2. clients'[e].fd = fd /\ clients'[e].chat = EntryId(chat)
      BY <2>3
    <3> QED  BY <3>1, <3>2
  <2> QED  BY <2>1, <2>2, <2>3
<1>7. ClientsInv'
  BY <1>6 DEF ClientsInv
<1>8. ConnInv'
  BY <1>1, <1>4 DEF SocketInv, ConnInv
<1> QED  BY <1>1, <1>5, <1>7, <1>8, SocketsKept

\* What goes out goes to the connection that is on the socket of a client of its chat.
LEMMA SocketLeaves ==
    ASSUME TypeInv, SocketInv, Grows, NEW to \in Nat, Leaves(to),
           clients' \in Table, \A e \in Entry : clients'[e] \in {clients[e], Inactive},
           to # 0 => \E e \in Entry : /\ clients[e] # Inactive
                                      /\ clients[e].chat = asks[sending.uid].chat
                                      /\ conn[clients[e].fd] = to
    PROVE  SocketInv'
<1> DEFINE M == [kind : {"status", "answer", "error"}, uid : Uid, to : Nat]
           m == [kind |-> sending.kind, uid |-> sending.uid, to |-> to]
<1>1. /\ sending # Nothing /\ sending \in Outgoing
      /\ sent' = sent \/ sent' = Append(sent, m)
      /\ conn' = conn /\ opens' = opens /\ asks' = asks
  BY DEF Leaves, TypeInv, TypeOK
<1>2. m \in M /\ sent \in Seq(M) /\ m.uid = sending.uid /\ m.to = to
  BY <1>1 DEF Outgoing, TypeInv, TypeOK
<1> HIDE DEF M, m
<1>3. ClientsInv' /\ ConnInv'
  BY <1>1 DEF SocketInv, ClientsInv, ConnInv
<1>4. ASSUME to # 0
      PROVE  to \in DOMAIN opens /\ UsedOn(opens, opens[to].fd, asks[m.uid].chat, to)
  <2>1. PICK e \in Entry : /\ clients[e] # Inactive /\ clients[e].chat = asks[sending.uid].chat
                           /\ conn[clients[e].fd] = to
    BY <1>4
  <2>2. clients[e].fd \in Fd
    BY <2>1 DEF TypeInv, TypeOK, Client
  <2>3. /\ to \in DOMAIN opens /\ opens[to].fd = clients[e].fd
        /\ \A c \in DOMAIN opens : opens[c].fd = clients[e].fd => c <= to
    BY <1>4, <2>1, <2>2 DEF SocketInv, ConnInv
  <2>4. UsedOn(opens, clients[e].fd, clients[e].chat, Len(opens))
    BY <2>1 DEF SocketInv, ClientsInv
  <2>5. Len(opens) \in Nat /\ DOMAIN opens = 1 .. Len(opens)
    BY LenProperties DEF TypeInv, TypeOK
  <2>6. \A c \in 1 .. Len(opens) : c <= to => c \in 1 .. to
    BY <2>5
  <2>7. UsedOn(opens, clients[e].fd, clients[e].chat, to)
    BY <2>3, <2>4, <2>6 DEF UsedOn
  <2> QED  BY <1>2, <2>1, <2>3, <2>7
<1>5. CASE sent' = sent
  <2>1. OpensGrow
    BY <1>1, OpensKept
  <2> QED  BY <1>3, <1>5, <2>1, SocketsKept
<1>6. CASE sent' = Append(sent, m)
  <2>1. /\ Len(sent) \in Nat /\ DOMAIN sent = 1 .. Len(sent)
        /\ DOMAIN Append(sent, m) = 1 .. Len(sent) + 1
        /\ \A i \in DOMAIN sent : Append(sent, m)[i] = sent[i]
        /\ Append(sent, m)[Len(sent) + 1] = m
    BY <1>2, Appended
  <2>2. ASSUME NEW i \in DOMAIN sent', sent'[i].to # 0
        PROVE  /\ sent'[i].to \in DOMAIN opens
               /\ UsedOn(opens, opens[sent'[i].to].fd, asks[sent'[i].uid].chat, sent'[i].to)
    <3>1. i \in DOMAIN sent \/ i = Len(sent) + 1
      <4>1. \A k \in 1 .. Len(sent) + 1 : k \in 1 .. Len(sent) \/ k = Len(sent) + 1
        BY <2>1
      <4> QED  BY <1>6, <2>1, <4>1
    <3>2. CASE i \in DOMAIN sent
      <4>1. sent'[i] = sent[i]
        BY <1>6, <2>1, <3>2
      <4> QED  BY <2>2, <3>2, <4>1 DEF SocketInv
    <3>3. CASE i = Len(sent) + 1
      <4>1. sent'[i] = m
        BY <1>6, <2>1, <3>3
      <4> QED  BY <1>2, <1>4, <2>2, <4>1
    <3> QED  BY <3>1, <3>2, <3>3
  <2> QED  BY <1>1, <1>3, <2>2 DEF SocketInv, UsedOn
<1> QED  BY <1>1, <1>5, <1>6

LEMMA SocketStep == TypeInv /\ SocketInv /\ [Next]_vars => SocketInv'
<1> SUFFICES ASSUME TypeInv, SocketInv, [Next]_vars PROVE SocketInv'
  OBVIOUS
<1>1. Grows
  BY HistoriesGrow
<1>2. ASSUME UNCHANGED <<conn, clients, opens, sent>> PROVE SocketInv'
  <2>1. ClientsInv' /\ ConnInv'
    BY <1>2 DEF SocketInv, ClientsInv, ConnInv
  <2>2. OpensGrow
    BY <1>2, OpensKept
  <2> QED  BY <1>1, <1>2, <2>1, <2>2, SocketsKept
<1>3. CASE UNCHANGED vars
  BY <1>2, <1>3 DEF vars, wsVars, outVars
<1>4. CASE \E fd \in Fd : Open(fd)
  BY <1>1, <1>4, SocketOpen
<1>5. ASSUME NEW fd \in Fd, Close(fd) PROVE SocketInv'
  <2>1. UNCHANGED <<clients, opens, sent>> /\ conn' = [conn EXCEPT ![fd] = 0]
    BY <1>5 DEF Close, outVars
  <2>2. ClientsInv'
    BY <2>1 DEF SocketInv, ClientsInv
  <2>3. \A f \in Fd : conn'[f] = 0 \/ conn'[f] = conn[f]
    BY <2>1 DEF TypeInv, TypeOK
  <2>4. ConnInv'
    BY <2>1, <2>3 DEF SocketInv, ConnInv
  <2>5. OpensGrow
    BY <2>1, OpensKept
  <2> QED  BY <1>1, <2>1, <2>2, <2>4, <2>5, SocketsKept
<1>6. CASE \E fd \in Fd, chat \in ChatId : WsMessage(fd, chat)
  BY <1>1, <1>6, SocketMessage
<1>7. CASE WsPushEnds
  BY <1>2, <1>7 DEF WsPushEnds, outVars
<1>8. CASE \E id \in FeishuId : FeishuMessage(id)
  BY <1>2, <1>8 DEF FeishuMessage, wsVars, outVars
<1>9. CASE \E id \in FeishuId : FeishuDuplicate(id)
  BY <1>3, <1>9 DEF FeishuDuplicate
<1>10. CASE ProactiveCheck \/ \E ask \in OtherAsk : OtherMessage(ask)
  BY <1>2, <1>10 DEF ProactiveCheck, OtherMessage, wsVars, outVars
<1>11. CASE AgentTask
  BY <1>2, <1>11 DEF AgentTask, TakeMessage, Route, HasAnswer, HasError, Think, LlmUsesTools,
                     LlmAnswers, LlmFails, KeepSilent, SaveUser, SaveAnswer, PushAnswer,
                     wsVars, outVars
<1>12. CASE TakeOutgoing
  BY <1>2, <1>12 DEF TakeOutgoing, wsVars
<1>13. CASE SendElsewhere \/ WsUnknown \/ WsSend
  <2>1. PICK to \in Nat :
           /\ Leaves(to)
           /\ clients' \in Table /\ \A e \in Entry : clients'[e] \in {clients[e], Inactive}
           /\ to # 0 => \E e \in Entry : /\ clients[e] # Inactive
                                         /\ clients[e].chat = asks[sending.uid].chat
                                         /\ conn[clients[e].fd] = to
    BY <1>13, DispatcherDone
  <2> QED  BY <1>1, <2>1, SocketLeaves
<1>14. CASE Reboot
  <2>1. conn' = [fd \in Fd |-> 0] /\ clients' = NoClients /\ UNCHANGED <<opens, sent>>
    BY <1>14 DEF Reboot
  <2>2. ClientsInv' /\ ConnInv'
    BY <2>1 DEF ClientsInv, ConnInv, NoClients
  <2>3. OpensGrow
    BY <2>1, OpensKept
  <2> QED  BY <1>1, <2>1, <2>2, <2>3, SocketsKept
<1> QED  BY <1>3, <1>4, <1>5, <1>6, <1>7, <1>8, <1>9, <1>10, <1>11, <1>12, <1>13, <1>14
         DEF Next, OutboundTask

\* What goes out for a chat goes to a socket on which that chat was used, or a longer id that
\* the table cuts to it, now or by an earlier connection, whatever connections broke, came back
\* or renamed themselves in the meantime and however stale the client table is; a chat whose
\* own id is cut is never answered.
THEOREM SocketsRight == Spec => []AnswerToSocket
<1>1. Init => SocketInv
  <2> SUFFICES ASSUME Init PROVE SocketInv
    OBVIOUS
  <2>1. DOMAIN <<>> = {}
    BY EmptySeq
  <2> QED  BY <2>1 DEF Init, Offline, SocketInv, ClientsInv, ConnInv, NoClients
<1>2. TypeInv /\ SocketInv => AnswerToSocket
  <2> SUFFICES ASSUME TypeInv, SocketInv, NEW i \in DOMAIN sent, sent[i].to # 0
               PROVE  \E c \in 1 .. sent[i].to :
                         /\ opens[c].fd = opens[sent[i].to].fd
                         /\ asks[sent[i].uid].chat \in
                               {AutoId(opens[c].fd)} \cup {EntryId(id) : id \in opens[c].chats}
                         /\ EntryId(asks[sent[i].uid].chat) = asks[sent[i].uid].chat
    BY DEF AnswerToSocket
  <2> DEFINE fd == opens[sent[i].to].fd
             chat == asks[sent[i].uid].chat
  <2>1. PICK c \in 1 .. sent[i].to :
           /\ c \in DOMAIN opens /\ opens[c].fd = fd
           /\ chat \in {AutoId(fd)} \cup {EntryId(id) : id \in opens[c].chats}
    BY DEF SocketInv, UsedOn
  <2>2. opens[c].fd \in Fd /\ opens[c].chats \in SUBSET ChatId
    <3> DEFINE R == [fd : Fd, chats : SUBSET ChatId]
    <3>1. opens \in Seq(R)
      BY DEF TypeInv, TypeOK
    <3> HIDE DEF R
    <3>2. opens[c] \in R
      BY <2>1, <3>1, ElementOfSeq, LenProperties
    <3> QED  BY <3>2 DEF R
  <2> HIDE DEF chat
  <2>3. EntryId(chat) = chat
    BY <2>1, <2>2, ClientsAssumption
  <2> QED  BY <2>1, <2>3 DEF chat
<1> QED  BY <1>1, <1>2, SocketStep, AlwaysTyped, PTL DEF Spec
=============================================================================
