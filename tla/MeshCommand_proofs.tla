------------------------- MODULE MeshCommand_proofs -------------------------
(***************************************************************************)
(* Proofs about MeshCommand for every set of boards, roles, ids, requests, *)
(* depths and bounds: type correctness, the Guardian's gate, what becomes  *)
(* of a failed call, whose result a caller is given, and that the boards   *)
(* implement CommandGate.                                                  *)
(*                                                                         *)
(* GuardianGate is not inductive: what a board may execute is decided by   *)
(* messages on their way and by the rings, so the invariant says of those  *)
(* that they hold only decisions the Guardian gave, and only commands whose*)
(* id it allowed.  That is stated as a type: every queue and inbox is a    *)
(* sequence over Cleared(issued), a set that grows with issued.            *)
(***************************************************************************)
EXTENDS MeshCommand, RingCache_proofs, SequenceTheorems

\* The messages that may travel once the Guardian has given the decisions ds.
Cleared(ds) ==
    {m \in Message :
       /\ m.kind = "decision" => m \in ds
       /\ m.kind = "command" => \E d \in ds : d.allow /\ d.id = m.id}

NetOK ==
    /\ link \in [Node -> {"up", "broken", "connecting"}]
    /\ pubq \in [Node -> Seq(Cleared(issued))]
    /\ \A n \in Node : Len(pubq[n]) <= PubDepth
    /\ inbox \in [Node -> Seq(Cleared(issued))]
    /\ breaks \in Nat /\ reboots \in Nat

RingsOK ==
    /\ DOMAIN policyRing = Node
    /\ \A n \in Node : IsRing(policyRing[n], issued, PolicyDepth)
    /\ IsRing(outputRing, Output \cup Event, OutputDepth)

ToolOK ==
    /\ calls \in Seq(Request)
    /\ told \in Seq(Outcome)
    /\ Len(told) = Len(calls)
    /\ tool \in [Caller -> {Idle} \cup Busy]
    /\ \A c \in Caller : tool[c] # Idle => /\ tool[c].uid <= Len(calls)
                                           /\ Acceptable(calls[tool[c].uid])
    /\ \A w \in waiters : w \in [uid : Uid, looked : BOOLEAN] /\ w.uid <= Len(calls)
    /\ answers \subseteq Answer

GateOK ==
    /\ issued \subseteq Decision
    /\ \A d \in issued : d.allow => PolicyAllows(d)
    /\ executed \in Seq(Execution)
    /\ GuardianGate

Inv == NetOK /\ RingsOK /\ ToolOK /\ GateOK

-----------------------------------------------------------------------------

\* More decisions clear more messages.
LEMMA ClearedMonotonic ==
    ASSUME NEW ds, NEW es, ds \subseteq es
    PROVE  Cleared(ds) \subseteq Cleared(es)
BY DEF Cleared

\* The invariant implies the two properties it was made for.
LEMMA InvImplies == Inv => TypeOK /\ GuardianGate
<1> SUFFICES ASSUME Inv PROVE TypeOK /\ GuardianGate
  OBVIOUS
<1>1. Cleared(issued) \subseteq Message
  BY DEF Cleared
<1>2. pubq \in [Node -> Seq(Message)] /\ inbox \in [Node -> Seq(Message)]
  BY <1>1, SeqMonotonic DEF Inv, NetOK
<1>3. \A n \in Node : IsRing(policyRing[n], Decision, PolicyDepth)
  BY RingMonotonic DEF Inv, RingsOK, GateOK
<1> QED  BY <1>2, <1>3 DEF Inv, NetOK, RingsOK, ToolOK, GateOK, TypeOK

\* What is pushed to a queue with a limit: the queue keeps its element type and limit.
LEMMA PushAllType ==
    ASSUME NEW S, NEW q \in Seq(S), Len(q) <= PubDepth, NEW ms \in Seq(S)
    PROVE  PushAll(q, ms) \in Seq(S) /\ Len(PushAll(q, ms)) <= PubDepth
<1>1. /\ Len(q) \in Nat /\ Len(ms) \in Nat /\ PubDepth \in Nat
      /\ Room(q) \in 0 .. PubDepth
  BY LenProperties, CommandAssumption DEF Room, CommandAssumption
<1>2. CASE Len(ms) <= Room(q)
  BY <1>1, <1>2, ConcatProperties DEF PushAll, Room
<1>3. CASE ~(Len(ms) <= Room(q))
  <2>1. \A i \in 1 .. Room(q) : ms[i] \in S
    BY <1>1, <1>3, ElementOfSeq
  <2>2. /\ SubSeq(ms, 1, Room(q)) \in Seq(S)
        /\ Len(SubSeq(ms, 1, Room(q))) = Room(q)
    BY <1>1, <2>1, SubSeqProperties
  <2> QED  BY <1>1, <1>3, <2>2, ConcatProperties DEF PushAll, Room
<1> QED  BY <1>2, <1>3

\* What a board receives are messages that were sent.
LEMMA ForBoardType ==
    ASSUME NEW S, NEW s \in Seq(S), NEW n \in Node
    PROVE  ForBoard(n, s) \in Seq(S)
<1>1. CASE link[n] # "up" \/ Mine(n, s) = {}
  BY <1>1, EmptySeq DEF ForBoard
<1>2. CASE ~(link[n] # "up" \/ Mine(n, s) = {})
  <2> DEFINE mine == Mine(n, s)
             last == CHOOSE i \in mine : \A j \in mine : j <= i
  <2>1. Len(s) \in Nat /\ mine \in SUBSET (0 .. Len(s)) /\ mine \subseteq 1 .. Len(s)
    BY LenProperties DEF Mine
  <2>2. \E i \in mine : \A j \in mine : j <= i
    <3> HIDE DEF mine
    <3>1. mine # {}
      BY <1>2 DEF mine
    <3> QED  BY <2>1, <3>1, GreatestElement
  <2>3. last \in mine
    BY <2>2
  <2>4. last \in 1 .. Len(s)
    BY <2>1, <2>3
  <2>5. SubSeq(s, 1, last) \in Seq(S)
    <3> HIDE DEF last
    <3>1. \A i \in 1 .. last : s[i] \in S
      BY <2>1, <2>4, ElementOfSeq
    <3> QED  BY <2>1, <2>4, <3>1, SubSeqProperties
  <2> QED  BY <1>2, <2>5 DEF ForBoard
<1> QED  BY <1>1, <1>2

LEMMA DeliverType ==
    ASSUME NEW S, inbox \in [Node -> Seq(S)], NEW n \in Node,
           NEW unread \in Seq(S), NEW s \in Seq(S)
    PROVE  Deliver(n, unread, s) \in [Node -> Seq(S)]
<1>1. ASSUME NEW k \in Node
      PROVE  (IF k = n THEN unread ELSE inbox[k]) \o ForBoard(k, s) \in Seq(S)
  <2>1. (IF k = n THEN unread ELSE inbox[k]) \in Seq(S)
    OBVIOUS
  <2> QED  BY <2>1, ForBoardType, ConcatProperties
<1> QED  BY <1>1 DEF Deliver

\* Draining a queue keeps everything over the element type it had.
LEMMA DrainType ==
    ASSUME NEW S,
           link \in [Node -> {"up", "broken", "connecting"}],
           pubq \in [Node -> Seq(S)], \A n \in Node : Len(pubq[n]) <= PubDepth,
           inbox \in [Node -> Seq(S)], breaks \in Nat,
           NEW n \in Node, NEW unread \in Seq(S), NEW q \in Seq(S),
           Drain(n, unread, q)
    PROVE  /\ link' \in [Node -> {"up", "broken", "connecting"}]
           /\ pubq' \in [Node -> Seq(S)] /\ \A k \in Node : Len(pubq'[k]) <= PubDepth
           /\ inbox' \in [Node -> Seq(S)]
           /\ breaks' \in Nat
<1>1. <<>> \in Seq(S) /\ Len(<<>>) = 0
  BY EmptySeq
<1>2. pubq' \in [Node -> Seq(S)] /\ \A k \in Node : Len(pubq'[k]) <= PubDepth
  BY <1>1, CommandAssumption DEF Drain, CommandAssumption
<1>3. CASE DrainUp(n, unread, q)
  BY <1>2, <1>3, DeliverType DEF DrainUp
<1>4. CASE DrainCut(n, unread, q)
  <2>1. PICK i \in 0 .. Len(q) : inbox' = Deliver(n, unread, SubSeq(q, 1, i))
    BY <1>4 DEF DrainCut
  <2>2. SubSeq(q, 1, i) \in Seq(S)
    <3>1. Len(q) \in Nat
      BY LenProperties
    <3>2. \A j \in 1 .. i : q[j] \in S
      BY <3>1, ElementOfSeq
    <3> QED  BY <3>1, <3>2, SubSeqProperties
  <2>3. inbox' \in [Node -> Seq(S)]
    BY <2>1, <2>2, DeliverType
  <2> QED  BY <1>2, <1>4, <2>3 DEF DrainCut
<1>5. CASE DrainDead(n, unread)
  <2>1. inbox' \in [Node -> Seq(S)]
    BY <1>1, <1>5 DEF DrainDead
  <2>2. link' \in [Node -> {"up", "broken", "connecting"}] /\ breaks' \in Nat
    BY <1>5 DEF DrainDead
  <2> QED  BY <1>2, <2>1, <2>2
<1> QED  BY <1>3, <1>4, <1>5 DEF Drain

\* A drain of cleared messages keeps the network part of the invariant.
LEMMA DrainKeepsNet ==
    ASSUME NetOK, NEW n \in Node, issued \subseteq issued',
           NEW unread \in Seq(Cleared(issued)), NEW q \in Seq(Cleared(issued')),
           Drain(n, unread, q), UNCHANGED reboots
    PROVE  NetOK'
<1> DEFINE S == Cleared(issued')
<1>1. Cleared(issued) \subseteq S
  BY ClearedMonotonic
<1>2. /\ pubq \in [Node -> Seq(S)] /\ inbox \in [Node -> Seq(S)]
      /\ unread \in Seq(S)
  BY <1>1, SeqMonotonic DEF NetOK
<1>3. /\ link' \in [Node -> {"up", "broken", "connecting"}]
      /\ pubq' \in [Node -> Seq(S)] /\ \A k \in Node : Len(pubq'[k]) <= PubDepth
      /\ inbox' \in [Node -> Seq(S)]
      /\ breaks' \in Nat
  <2> HIDE DEF S
  <2>1. q \in Seq(S)
    BY DEF S
  <2> QED  BY <1>2, <2>1, DrainType DEF NetOK
<1> QED  BY <1>3 DEF NetOK

\* Notes may always travel.
LEMMA NotesCleared == ASSUME NEW ds PROVE Note \in Cleared(ds) /\ TimelineNote \in Seq(Cleared(ds))
<1>1. Note \in Cleared(ds)
  BY DEF Note, Cleared, Message
<1> QED  BY <1>1 DEF TimelineNote

\* The tool part of the invariant reads only the tool's own variables.
LEMMA ToolUnchanged == ToolOK /\ UNCHANGED toolVars => ToolOK'
BY DEF ToolOK, toolVars

LEMMA GateUnchanged == GateOK /\ UNCHANGED histVars => GateOK'
BY DEF GateOK, histVars, GuardianGate

-----------------------------------------------------------------------------
(* The handlers. *)

\* The Guardian's verdict is recorded, then sent.
LEMMA HandleCheckKeeps ==
    ASSUME Inv, NEW n \in Node, NEW m \in Cleared(issued),
           NEW unread \in Seq(Cleared(issued)),
           HandleCheck(n, m, unread), UNCHANGED <<toolVars, reboots>>
    PROVE  Inv'
<1> DEFINE d == DecisionOn(m)
           S == Cleared(issued')
<1>1. m \in Check
  BY DEF HandleCheck, Cleared, Message, Check, Decision, Command, Output, Event, Note
<1>2. d \in Decision /\ d.allow = PolicyAllows(m) /\ d \in issued' /\ d.kind = "decision"
  <2>1. PolicyAllows(m) \in BOOLEAN
    BY DEF PolicyAllows
  <2> QED  BY <1>1, <2>1 DEF DecisionOn, Decision, Check, HandleCheck
<1>3. PolicyAllows(d) = PolicyAllows(m)
  BY DEF PolicyAllows, DecisionOn
<1>4. issued \subseteq issued'
  BY DEF HandleCheck
<1>5. PushAll(pubq[n], <<d, Note>> \o TimelineNote) \in Seq(S)
  <2>1. d \in S
    BY <1>2 DEF Cleared, Message
  <2>2. <<d, Note>> \in Seq(S)
    <3> HIDE DEF d, S
    <3> QED  BY <2>1, NotesCleared DEF S
  <2>3. <<d, Note>> \o TimelineNote \in Seq(S)
    BY <2>2, NotesCleared, ConcatProperties
  <2>4. pubq[n] \in Seq(S) /\ Len(pubq[n]) <= PubDepth
    BY <1>4, ClearedMonotonic, SeqMonotonic DEF Inv, NetOK
  <2> QED  BY <2>3, <2>4, PushAllType
<1>6. NetOK'
  BY <1>4, <1>5, DrainKeepsNet DEF Inv, HandleCheck
<1>7. RingsOK'
  BY <1>4, RingMonotonic DEF Inv, RingsOK, HandleCheck
<1>8. ToolOK'
  BY ToolUnchanged DEF Inv
<1>9. GateOK'
  <2>1. issued' \subseteq Decision /\ \A e \in issued' : e.allow => PolicyAllows(e)
    BY <1>2, <1>3 DEF Inv, GateOK, HandleCheck
  <2>2. GuardianGate'
    BY <1>4 DEF Inv, GateOK, GuardianGate, PermittedBy, HandleCheck
  <2> QED  BY <2>1, <2>2 DEF Inv, GateOK, HandleCheck
<1> QED  BY <1>6, <1>7, <1>8, <1>9 DEF Inv

\* What is stored in a policy ring was decided by the Guardian.
LEMMA HandleDecisionKeeps ==
    ASSUME Inv, NEW n \in Node, NEW m \in Cleared(issued),
           NEW unread \in Seq(Cleared(issued)),
           HandleDecision(n, m, unread), UNCHANGED <<toolVars, reboots>>
    PROVE  Inv'
<1>1. m \in issued
  BY DEF HandleDecision, Cleared
<1>2. NetOK'
  BY DrainKeepsNet DEF Inv, HandleDecision, NetOK
<1>3. RingsOK'
  <2>1. IsRing(RingPut(policyRing[n], m, PolicyDepth), issued, PolicyDepth)
    BY <1>1, RingPutType, CommandAssumption DEF Inv, RingsOK, CommandAssumption
  <2> QED  BY <2>1 DEF Inv, RingsOK, HandleDecision
<1>4. ToolOK' /\ GateOK'
  BY ToolUnchanged, GateUnchanged DEF Inv, HandleDecision, histVars
<1> QED  BY <1>2, <1>3, <1>4 DEF Inv

\* What is stored in the output ring is a result.
LEMMA HandleTimelineKeeps ==
    ASSUME Inv, NEW n \in Node, NEW m \in Cleared(issued),
           NEW unread \in Seq(Cleared(issued)),
           HandleTimeline(n, m, unread), UNCHANGED <<toolVars, reboots>>
    PROVE  Inv'
<1>1. m \in Output \cup Event
  BY DEF HandleTimeline, Cleared, Message, Check, Decision, Command, Output, Event, Note
<1>2. NetOK'
  BY DrainKeepsNet DEF Inv, HandleTimeline, NetOK
<1>3. RingsOK'
  <2>1. IsRing(RingPut(outputRing, m, OutputDepth), Output \cup Event, OutputDepth)
    BY <1>1, RingPutType, CommandAssumption DEF Inv, RingsOK, CommandAssumption
  <2> QED  BY <2>1 DEF Inv, RingsOK, HandleTimeline
<1>4. ToolOK' /\ GateOK'
  BY ToolUnchanged, GateUnchanged DEF Inv, HandleTimeline, histVars
<1> QED  BY <1>2, <1>3, <1>4 DEF Inv

\* A result of command c, whatever it reports, is on its way and perhaps cached.
LEMMA PublishResultKeeps ==
    ASSUME NetOK, RingsOK, NEW n \in Node, NEW c \in Command,
           NEW unread \in Seq(Cleared(issued)), NEW whole \in BOOLEAN,
           PublishResult(n, c, unread, whole), UNCHANGED <<policyRing, issued, reboots>>
    PROVE  NetOK' /\ RingsOK'
<1> DEFINE o == ResultOutput(c, whole)
           e == [kind |-> "event", id |-> c.id, uid |-> c.uid]
           S == Cleared(issued)
<1>1. o \in Output /\ e \in Event
  BY DEF ResultOutput, Output, Event, Command
<1>2. o \in S /\ e \in S /\ Note \in S
  BY <1>1, NotesCleared DEF Cleared, Message, Output, Event
<1>3. ResultBurst(c, whole) \in Seq(S)
  <2>1. ResultBurst(c, whole) = <<Note, o, Note, e, Note>>
    BY DEF ResultBurst
  <2> HIDE DEF o, e, S
  <2> QED  BY <1>2, <2>1
<1>4. PushAll(pubq[n], ResultBurst(c, whole)) \in Seq(S)
  BY <1>3, PushAllType DEF NetOK
<1>5. NetOK'
  BY <1>4, DrainKeepsNet DEF PublishResult
<1>6. IsRing(RingPut(outputRing, o, OutputDepth), Output \cup Event, OutputDepth)
  BY <1>1, RingPutType, CommandAssumption DEF RingsOK, CommandAssumption
<1>7. RingsOK'
  BY <1>6 DEF RingsOK, PublishResult
<1> QED  BY <1>5, <1>7

\* Carrying out a permitted command keeps the gate.
LEMMA ExecutesKeeps ==
    ASSUME GateOK, NEW n \in Node, NEW c \in Command, Executes(n, c), UNCHANGED issued,
           PermittedBy(issued, [board |-> n, id |-> c.id, action |-> c.action,
                                safety |-> c.safety, uid |-> c.uid])
    PROVE  GateOK'
<1> DEFINE e == [board |-> n, id |-> c.id, action |-> c.action,
                 safety |-> c.safety, uid |-> c.uid]
<1>1. e \in Execution
  BY DEF Execution, Command
<1>2. executed \in Seq(Execution) /\ executed' = Append(executed, e)
  BY DEF GateOK, Executes
<1>3. PermittedBy(issued, e)
  OBVIOUS
<1> HIDE DEF e
<1>4. /\ executed' \in Seq(Execution)
      /\ Len(executed') = Len(executed) + 1 /\ Len(executed) \in Nat
      /\ \A i \in 1 .. Len(executed) : executed'[i] = executed[i]
      /\ executed'[Len(executed) + 1] = e
  BY <1>1, <1>2, AppendProperties, LenProperties
<1>5. \A i \in 1 .. Len(executed') : PermittedBy(issued, executed'[i])
  BY <1>3, <1>4 DEF GateOK, GuardianGate
<1>6. GuardianGate'
  BY <1>5 DEF GuardianGate, PermittedBy
<1> QED  BY <1>4, <1>6 DEF GateOK

\* A sensor board asks nobody: that the command was sent at all is its permission.
LEMMA SensorPermitted ==
    ASSUME GateOK, NEW n \in Node, NEW c \in Cleared(issued), c.kind = "command",
           TakenAsReading(n, c)
    PROVE  PermittedBy(issued, [board |-> n, id |-> c.id, action |-> c.action,
                                safety |-> c.safety, uid |-> c.uid])
BY ProtocolAssumption DEF PermittedBy, Cleared, TakenAsReading, ProtocolAssumption

\* A control board finds the Guardian's decision in its own ring.
LEMMA ControlPermitted ==
    ASSUME GateOK, RingsOK, NEW n \in Node, NEW c \in Command,
           HasGuardianAllow(n, c), c.safety <= Medium
    PROVE  PermittedBy(issued, [board |-> n, id |-> c.id, action |-> c.action,
                                safety |-> c.safety, uid |-> c.uid])
<1> DEFINE d == RingFirst(policyRing[n], c.id)
<1>1. d \in issued /\ d.id = c.id
  BY RingFirstFound, CommandAssumption DEF HasGuardianAllow, RingsOK, CommandAssumption
<1>2. DecisionCovers(d, n, c)
  BY DEF HasGuardianAllow
<1> HIDE DEF d
<1>3. d.allow /\ d.action = c.action
  BY <1>2 DEF DecisionCovers
<1>4. d.role \in {Sensor, Control} /\ NoRole \notin {Sensor, Control}
  BY <1>1, <1>3 DEF GateOK, PolicyAllows, Sensor, Control, NoRole
<1>5. d.role = RoleOf[n] /\ d.node \in {NoNode, n}
  BY <1>2, <1>4 DEF DecisionCovers
<1> QED  BY <1>1, <1>3, <1>5 DEF PermittedBy

LEMMA HandleCommandKeeps ==
    ASSUME Inv, NEW n \in Node, NEW m \in Cleared(issued),
           NEW unread \in Seq(Cleared(issued)),
           HandleCommand(n, m, unread), UNCHANGED <<toolVars, reboots>>
    PROVE  Inv'
<1>1. m \in Command /\ m.kind = "command"
  BY DEF HandleCommand, Cleared, Message, Check, Decision, Command, Output, Event, Note
<1>2. ToolOK'
  BY ToolUnchanged DEF Inv
<1>3. UNCHANGED <<policyRing, issued>>
  BY DEF HandleCommand
<1>4. CASE SensorCommand(n, m, unread)
  <2>1. GateOK'
    BY <1>1, <1>3, <1>4, SensorPermitted, ExecutesKeeps DEF Inv, SensorCommand
  <2>2. NetOK' /\ RingsOK'
    BY <1>1, <1>3, <1>4, PublishResultKeeps DEF Inv, SensorCommand
  <2> QED  BY <1>2, <2>1, <2>2 DEF Inv
<1>5. CASE ControlRefusal(n, m, unread)
  <2>1. GateOK'
    BY <1>3, <1>5, GateUnchanged DEF Inv, ControlRefusal, histVars
  <2>2. NetOK' /\ RingsOK'
    BY <1>1, <1>3, <1>5, PublishResultKeeps DEF Inv, ControlRefusal
  <2> QED  BY <1>2, <2>1, <2>2 DEF Inv
<1>6. CASE ControlCommand(n, m, unread)
  <2>1. GateOK'
    BY <1>1, <1>3, <1>6, ControlPermitted, ExecutesKeeps DEF Inv, ControlCommand
  <2>2. NetOK' /\ RingsOK'
    BY <1>1, <1>3, <1>6, PublishResultKeeps DEF Inv, ControlCommand
  <2> QED  BY <1>2, <2>1, <2>2 DEF Inv
<1>7. CASE CommandIgnored(n, m, unread)
  <2>1. NetOK'
    BY <1>3, <1>7, DrainKeepsNet DEF Inv, CommandIgnored, NetOK
  <2>2. GateOK' /\ RingsOK'
    BY <1>3, <1>7, GateUnchanged DEF Inv, CommandIgnored, histVars, RingsOK
  <2> QED  BY <1>2, <2>1, <2>2 DEF Inv
<1> QED  BY <1>4, <1>5, <1>6, <1>7 DEF HandleCommand

-----------------------------------------------------------------------------
(* The steps of a board. *)

LEMMA TurnKeeps ==
    ASSUME Inv, NEW n \in Node, Turn(n)
    PROVE  Inv'
<1>1. PICK i \in Mine(n, inbox[n]) :
         LET m == inbox[n][i]
             unread == SubSeq(inbox[n], i + 1, Len(inbox[n]))
         IN  \/ HandleCheck(n, m, unread)
             \/ HandleDecision(n, m, unread)
             \/ HandleTimeline(n, m, unread)
             \/ HandleCommand(n, m, unread)
  BY DEF Turn
<1> DEFINE m == inbox[n][i]
           unread == SubSeq(inbox[n], i + 1, Len(inbox[n]))
<1>2. inbox[n] \in Seq(Cleared(issued)) /\ i \in 1 .. Len(inbox[n]) /\ Len(inbox[n]) \in Nat
  BY LenProperties DEF Inv, NetOK, Mine
<1>3. m \in Cleared(issued)
  BY <1>2, ElementOfSeq
<1>4. unread \in Seq(Cleared(issued))
  <2>1. \A j \in i + 1 .. Len(inbox[n]) : inbox[n][j] \in Cleared(issued)
    BY <1>2, ElementOfSeq
  <2> QED  BY <1>2, <2>1, SubSeqProperties
<1>5. UNCHANGED <<toolVars, reboots>>
  BY DEF Turn
<1> HIDE DEF m, unread
<1>6. \/ HandleCheck(n, m, unread)    \/ HandleDecision(n, m, unread)
      \/ HandleTimeline(n, m, unread) \/ HandleCommand(n, m, unread)
  BY <1>1 DEF m, unread
<1> QED
  BY <1>3, <1>4, <1>5, <1>6, HandleCheckKeeps, HandleDecisionKeeps, HandleTimelineKeeps,
     HandleCommandKeeps

LEMMA QuietTurnKeeps ==
    ASSUME Inv, NEW n \in Node, QuietTurn(n)
    PROVE  Inv'
<1>1. <<>> \in Seq(Cleared(issued))
  BY EmptySeq
<1>2. NetOK'
  BY <1>1, DrainKeepsNet DEF Inv, QuietTurn, NetOK, histVars
<1>3. ToolOK' /\ GateOK'
  BY ToolUnchanged, GateUnchanged DEF Inv, QuietTurn
<1>4. RingsOK'
  BY DEF Inv, QuietTurn, RingsOK, histVars
<1> QED  BY <1>2, <1>3, <1>4 DEF Inv

LEMMA ConnectKeeps ==
    ASSUME Inv, NEW n \in Node, Connect(n)
    PROVE  Inv'
<1>1. ToolOK' /\ GateOK'
  BY ToolUnchanged, GateUnchanged DEF Inv, Connect
<1>2. RingsOK' /\ NetOK'
  BY DEF Inv, Connect, RingsOK, NetOK, histVars
<1> QED  BY <1>1, <1>2 DEF Inv

LEMMA BreakKeeps ==
    ASSUME Inv, NEW n \in Node, Break(n)
    PROVE  Inv'
<1>1. ToolOK' /\ GateOK'
  BY ToolUnchanged, GateUnchanged DEF Inv, Break
<1>2. RingsOK'
  BY DEF Inv, Break, RingsOK, histVars
<1>3. PICK k \in {0} \cup Mine(n, inbox[n]) :
         inbox' = [inbox EXCEPT ![n] = SubSeq(inbox[n], 1, k)]
  BY DEF Break
<1>4. SubSeq(inbox[n], 1, k) \in Seq(Cleared(issued))
  <2>1. inbox[n] \in Seq(Cleared(issued)) /\ Len(inbox[n]) \in Nat /\ k \in 0 .. Len(inbox[n])
    BY LenProperties DEF Inv, NetOK, Mine
  <2>2. \A j \in 1 .. k : inbox[n][j] \in Cleared(issued)
    BY <2>1, ElementOfSeq
  <2> QED  BY <2>1, <2>2, SubSeqProperties
<1>5. inbox' \in [Node -> Seq(Cleared(issued))]
  BY <1>3, <1>4 DEF Inv, NetOK
<1>6. NetOK'
  BY <1>5 DEF Inv, NetOK, Break, histVars
<1> QED  BY <1>1, <1>2, <1>6 DEF Inv

LEMMA RebootKeeps ==
    ASSUME Inv, NEW n \in Node, Reboot(n)
    PROVE  Inv'
<1>1. GateOK'
  BY GateUnchanged DEF Inv, Reboot
<1>2. RingsOK'
  BY EmptyRingType, CommandAssumption
  DEF Inv, Reboot, RingsOK, histVars, CommandAssumption
<1>3. ToolOK'
  BY DEF Inv, Reboot, ToolOK
<1>4. NetOK'
  <2>1. <<>> \in Seq(Cleared(issued)) /\ Len(<<>>) = 0
    BY EmptySeq
  <2>2. issued' = issued
    BY DEF Reboot, histVars
  <2>3. /\ pubq' \in [Node -> Seq(Cleared(issued))]
        /\ inbox' \in [Node -> Seq(Cleared(issued))]
        /\ link' \in [Node -> {"up", "broken", "connecting"}]
    BY <2>1 DEF Inv, NetOK, Reboot
  <2>4. \A k \in Node : Len(pubq'[k]) <= PubDepth
    BY <2>1, CommandAssumption DEF Inv, NetOK, Reboot, CommandAssumption
  <2> QED  BY <2>2, <2>3, <2>4 DEF Inv, NetOK, Reboot
<1> QED  BY <1>1, <1>2, <1>3, <1>4 DEF Inv

-----------------------------------------------------------------------------
(* The steps of the tool and of its background waiters. *)

\* The tool pushes to the queue of its own board.
LEMMA CoordPushKeepsNet ==
    ASSUME NetOK, NEW q \in Seq(Cleared(issued)), Len(q) <= PubDepth,
           pubq' = [pubq EXCEPT ![Coord] = q],
           UNCHANGED <<link, inbox, breaks, reboots, issued>>
    PROVE  NetOK'
BY CommandAssumption DEF NetOK, CommandAssumption

\* The queue of the coordinator after a timeline event.
LEMMA TimelinePushType ==
    ASSUME NetOK, NEW q \in Seq(Cleared(issued)), Len(q) <= PubDepth
    PROVE  /\ PushAll(q, TimelineNote) \in Seq(Cleared(issued))
           /\ Len(PushAll(q, TimelineNote)) <= PubDepth
BY NotesCleared, PushAllType

LEMMA CoordQueueType ==
    ASSUME NetOK
    PROVE  /\ pubq[Coord] \in Seq(Cleared(issued)) /\ Len(pubq[Coord]) <= PubDepth
           /\ Len(pubq[Coord]) \in Nat
           /\ AfterApproval \in Seq(Cleared(issued)) /\ Len(AfterApproval) <= PubDepth
           /\ Len(AfterApproval) \in Nat
<1>1. pubq[Coord] \in Seq(Cleared(issued)) /\ Len(pubq[Coord]) <= PubDepth
  BY CommandAssumption DEF NetOK, CommandAssumption
<1>2. AfterApproval \in Seq(Cleared(issued)) /\ Len(AfterApproval) <= PubDepth
  BY <1>1, TimelinePushType DEF AfterApproval
<1> QED  BY <1>1, <1>2, LenProperties

\* A call is recorded; the caller stays as it was or waits for the decision on it.
LEMMA CallRecorded ==
    ASSUME ToolOK, NEW c \in Caller, NEW r \in Request, NEW t \in Outcome,
           calls' = Append(calls, r), told' = Append(told, t),
           UNCHANGED <<waiters, answers>>,
           \/ tool' = tool
           \/ /\ Acceptable(r)
              /\ tool' = [tool EXCEPT ![c] = [pc |-> "policy", uid |-> Len(calls) + 1,
                                              looked |-> FALSE]]
    PROVE  ToolOK'
<1>1. /\ calls' \in Seq(Request) /\ told' \in Seq(Outcome)
      /\ Len(calls) \in Nat /\ Len(calls') = Len(calls) + 1 /\ Len(told') = Len(calls')
      /\ \A u \in 1 .. Len(calls) : calls'[u] = calls[u]
      /\ calls'[Len(calls) + 1] = r
  BY AppendProperties, LenProperties DEF ToolOK
<1>2. tool' \in [Caller -> {Idle} \cup Busy]
  <2>1. [pc |-> "policy", uid |-> Len(calls) + 1, looked |-> FALSE] \in Busy
    BY <1>1 DEF Busy, Uid
  <2> QED  BY <2>1 DEF ToolOK
<1>3. ASSUME NEW k \in Caller, tool'[k] # Idle
      PROVE  tool'[k].uid <= Len(calls') /\ Acceptable(calls'[tool'[k].uid])
  <2>1. CASE tool'[k] = tool[k]
    <3>1. tool[k].uid \in 1 .. Len(calls) /\ Acceptable(calls[tool[k].uid])
      BY <1>1, <1>3, <2>1 DEF ToolOK, Busy, Uid
    <3> QED  BY <1>1, <2>1, <3>1
  <2>2. CASE tool'[k] # tool[k]
    <3>1. tool'[k].uid = Len(calls) + 1 /\ Acceptable(r)
      BY <2>2 DEF ToolOK
    <3> QED  BY <1>1, <3>1
  <2> QED  BY <2>1, <2>2
<1>4. \A w \in waiters' : w \in [uid : Uid, looked : BOOLEAN] /\ w.uid <= Len(calls')
  BY <1>1 DEF ToolOK, Uid
<1> QED  BY <1>1, <1>2, <1>3, <1>4 DEF ToolOK

LEMMA CallRejectedKeeps ==
    ASSUME Inv, NEW c \in Caller, CallRejected(c)
    PROVE  Inv'
<1>1. PICK r \in CallSet : calls' = Append(calls, r) /\ told' = Append(told, "rejected")
  BY DEF CallRejected
<1>2. r \in Request /\ "rejected" \in Outcome
  BY CommandAssumption DEF CommandAssumption, Outcome
<1>3. ToolOK'
  BY <1>1, <1>2, CallRecorded DEF Inv, CallRejected
<1>4. GateOK' /\ NetOK' /\ RingsOK'
  BY GateUnchanged DEF Inv, CallRejected, NetOK, RingsOK, netVars, histVars
<1> QED  BY <1>3, <1>4 DEF Inv

LEMMA CallKeeps ==
    ASSUME Inv, NEW c \in Caller, Call(c)
    PROVE  Inv'
<1> DEFINE uid == Len(calls) + 1
<1>1. PICK r \in CallSet :
         /\ Acceptable(r)
         /\ calls' = Append(calls, r)
         /\ IF Room(pubq[Coord]) > 0
            THEN /\ pubq' = [pubq EXCEPT ![Coord] = Append(@, CheckFor(r, uid))]
                 /\ tool' = [tool EXCEPT ![c] = [pc |-> "policy", uid |-> uid,
                                                 looked |-> FALSE]]
                 /\ told' = Append(told, "none")
            ELSE /\ pubq' = [pubq EXCEPT ![Coord] = PushAll(@, TimelineNote)]
                 /\ told' = Append(told, "blocked")
                 /\ UNCHANGED tool
  BY DEF Call
<1>2. r \in Request /\ "none" \in Outcome /\ "blocked" \in Outcome
  BY CommandAssumption DEF CommandAssumption, Outcome
<1>3. UNCHANGED <<waiters, answers, link, inbox, breaks, reboots, policyRing, outputRing>>
      /\ UNCHANGED histVars /\ issued' = issued
  BY DEF Call, histVars
<1>4. ToolOK'
  BY <1>1, <1>2, <1>3, CallRecorded DEF Inv
<1>5. GateOK' /\ RingsOK'
  BY <1>3, GateUnchanged DEF Inv, RingsOK
<1>6. CheckFor(r, uid) \in Cleared(issued)
  <2>1. uid \in Uid
    BY LenProperties DEF Inv, ToolOK, Uid
  <2>2. ResolvedRole(r) \in RoleName
    BY <1>2 DEF ResolvedRole, Request, RoleName, Sensor, Control, NoRole
  <2>3. CheckFor(r, uid) \in Check /\ CheckFor(r, uid).kind = "check"
    BY <1>1, <1>2, <2>1, <2>2 DEF CheckFor, Check, Request, Acceptable
  <2> QED  BY <2>3 DEF Cleared, Message
<1>7. NetOK'
  <2>1. CASE Room(pubq[Coord]) > 0
    <3>1. /\ Append(pubq[Coord], CheckFor(r, uid)) \in Seq(Cleared(issued))
          /\ Len(Append(pubq[Coord], CheckFor(r, uid))) = Len(pubq[Coord]) + 1
      BY <1>6, CoordQueueType, AppendProperties DEF Inv
    <3>2. Len(Append(pubq[Coord], CheckFor(r, uid))) <= PubDepth
      BY <2>1, <3>1, CoordQueueType, CommandAssumption DEF Inv, Room, CommandAssumption
    <3> QED  BY <1>1, <1>3, <2>1, <3>1, <3>2, CoordPushKeepsNet DEF Inv
  <2>2. CASE ~(Room(pubq[Coord]) > 0)
    BY <1>1, <1>3, <2>2, CoordQueueType, TimelinePushType, CoordPushKeepsNet DEF Inv
  <2> QED  BY <2>1, <2>2
<1> QED  BY <1>4, <1>5, <1>7 DEF Inv

\* A caller that waits does so for a call that was accepted.
LEMMA WaitingCaller ==
    ASSUME ToolOK, NEW c \in Caller, NEW pc \in {"policy", "result"}, InWait(c, pc)
    PROVE  /\ tool[c] \in Busy /\ tool[c].pc = pc
           /\ tool[c].uid \in 1 .. Len(calls) /\ tool[c].uid \in 1 .. Len(told)
           /\ tool[c].uid \in Uid
           /\ calls[tool[c].uid] \in Request /\ Acceptable(calls[tool[c].uid])
<1>1. tool[c] # Idle /\ tool[c].pc = pc
  BY DEF InWait, Idle
<1>2. tool[c] \in Busy
  BY <1>1 DEF ToolOK
<1>3. tool[c].uid \in Uid /\ tool[c].uid <= Len(calls)
  BY <1>1, <1>2 DEF ToolOK, Busy
<1>4. Len(calls) \in Nat /\ tool[c].uid \in 1 .. Len(calls)
  BY <1>3, LenProperties DEF ToolOK, Uid
<1> QED  BY <1>1, <1>2, <1>3, <1>4, ElementOfSeq DEF ToolOK

\* A call is told its outcome and its caller is idle again.
LEMMA CallEnded ==
    ASSUME ToolOK, NEW c \in Caller, NEW u \in 1 .. Len(told), NEW t \in Outcome,
           Tell(u, t), tool' = [tool EXCEPT ![c] = Idle], UNCHANGED calls,
           answers' \subseteq Answer,
           \A w \in waiters' : w \in [uid : Uid, looked : BOOLEAN] /\ w.uid <= Len(calls)
    PROVE  ToolOK'
<1>1. told' \in Seq(Outcome) /\ Len(told') = Len(told)
  BY ExceptSeq DEF ToolOK, Tell
<1> QED  BY <1>1 DEF ToolOK

\* Only one caller changed, and only by having looked.
LEMMA LookInVainKeeps ==
    ASSUME Inv, NEW c \in Caller, LookInVain(c)
    PROVE  Inv'
<1>1. tool[c] \in Busy
  BY WaitingCaller DEF Inv, LookInVain
<1>2. tool' = [tool EXCEPT ![c] = [tool[c] EXCEPT !.looked = TRUE]]
  BY DEF LookInVain
<1>3. [tool[c] EXCEPT !.looked = TRUE] \in Busy
      /\ [tool[c] EXCEPT !.looked = TRUE].uid = tool[c].uid
  BY <1>1 DEF Busy
<1>4. tool[c] # Idle
  BY DEF LookInVain, InWait, Idle
<1>5. UNCHANGED <<calls, told, waiters, answers>>
  BY DEF LookInVain
<1>6. tool' \in [Caller -> {Idle} \cup Busy] /\ \A k \in Caller :
        tool'[k] # Idle => tool[k] # Idle /\ tool'[k].uid = tool[k].uid
  BY <1>2, <1>3, <1>4 DEF Inv, ToolOK
<1>7. ToolOK'
  BY <1>5, <1>6 DEF Inv, ToolOK
<1>8. GateOK' /\ NetOK' /\ RingsOK'
  BY GateUnchanged DEF Inv, LookInVain, NetOK, RingsOK, netVars, histVars
<1> QED  BY <1>7, <1>8 DEF Inv

LEMMA PolicyBlockedKeeps ==
    ASSUME Inv, NEW c \in Caller, PolicyBlocked(c)
    PROVE  Inv'
<1>1. ToolOK'
  BY WaitingCaller, CallEnded DEF Inv, PolicyBlocked, Outcome, ToolOK
<1>2. NetOK'
  BY CoordQueueType, TimelinePushType, CoordPushKeepsNet DEF Inv, PolicyBlocked, histVars
<1>3. GateOK' /\ RingsOK'
  BY GateUnchanged DEF Inv, PolicyBlocked, RingsOK, histVars
<1> QED  BY <1>1, <1>2, <1>3 DEF Inv

LEMMA CommandQueueFullKeeps ==
    ASSUME Inv, NEW c \in Caller, CommandQueueFull(c)
    PROVE  Inv'
<1>1. ToolOK'
  BY WaitingCaller, CallEnded DEF Inv, CommandQueueFull, Outcome, ToolOK
<1>2. NetOK'
  BY CoordQueueType, TimelinePushType, CoordPushKeepsNet DEF Inv, CommandQueueFull, histVars
<1>3. GateOK' /\ RingsOK'
  BY GateUnchanged DEF Inv, CommandQueueFull, RingsOK, histVars
<1> QED  BY <1>1, <1>2, <1>3 DEF Inv

\* The command may travel because the allow found for its id was given.
LEMMA SendCommandKeeps ==
    ASSUME Inv, NEW c \in Caller, SendCommand(c)
    PROVE  Inv'
<1> DEFINE uid == tool[c].uid
           r == calls[uid]
<1>1. /\ uid \in 1 .. Len(calls) /\ uid \in 1 .. Len(told) /\ uid \in Uid
      /\ r \in Request /\ Acceptable(r) /\ tool[c] \in Busy
  BY WaitingCaller DEF Inv, SendCommand
<1>2. CommandFor(r, uid) \in Cleared(issued)
  <2>1. ResolvedRole(r) \in RoleName
    BY <1>1 DEF ResolvedRole, Request, RoleName, Sensor, Control, NoRole
  <2>2. CommandFor(r, uid) \in Command /\ CommandFor(r, uid).kind = "command"
        /\ CommandFor(r, uid).id = r.id
    BY <1>1, <2>1 DEF CommandFor, Command, Request, Acceptable
  <2>3. \E d \in issued : d.allow /\ d.id = r.id
    <3>1. RingFirst(policyRing[Coord], r.id) \in issued
          /\ RingFirst(policyRing[Coord], r.id).id = r.id
      BY RingFirstFound, CommandAssumption
      DEF SendCommand, Approved, IdOf, Inv, RingsOK, CommandAssumption
    <3> QED  BY <3>1 DEF SendCommand, Approved, IdOf
  <2> QED  BY <2>2, <2>3 DEF Cleared, Message
<1>3. NetOK'
  <2> DEFINE q == Append(AfterApproval, CommandFor(r, uid))
  <2>1. q \in Seq(Cleared(issued)) /\ Len(q) = Len(AfterApproval) + 1
    BY <1>2, CoordQueueType, AppendProperties DEF Inv
  <2>2. Len(q) <= PubDepth
    BY <2>1, CoordQueueType, CommandAssumption
    DEF Inv, SendCommand, Room, CommandAssumption
  <2>3. /\ PushAll(q, TimelineNote) \in Seq(Cleared(issued))
        /\ Len(PushAll(q, TimelineNote)) <= PubDepth
    BY <2>1, <2>2, TimelinePushType DEF Inv
  <2>4. pubq' = [pubq EXCEPT ![Coord] = PushAll(q, TimelineNote)]
        /\ UNCHANGED <<link, inbox, breaks, reboots, issued>>
    BY DEF SendCommand, histVars
  <2> QED  BY <2>3, <2>4, CoordPushKeepsNet DEF Inv
<1>4. ToolOK'
  <2>1. UNCHANGED <<calls, answers>>
    BY DEF SendCommand
  <2>2. CASE tool' = [tool EXCEPT ![c] = [pc |-> "result", uid |-> uid, looked |-> FALSE]]
             /\ UNCHANGED <<waiters, told>>
    <3>1. [pc |-> "result", uid |-> uid, looked |-> FALSE] \in Busy
      BY <1>1 DEF Busy
    <3>2. tool' \in [Caller -> {Idle} \cup Busy]
      BY <2>2, <3>1 DEF Inv, ToolOK
    <3>3. \A k \in Caller : tool'[k] # Idle => /\ tool'[k].uid <= Len(calls)
                                               /\ Acceptable(calls[tool'[k].uid])
      BY <1>1, <2>2 DEF Inv, ToolOK
    <3> QED  BY <2>1, <2>2, <3>2, <3>3 DEF Inv, ToolOK
  <2>3. CASE tool' = [tool EXCEPT ![c] = Idle] /\ Tell(uid, "queued")
             /\ waiters' \in {waiters, waiters \cup {[uid |-> uid, looked |-> FALSE]}}
    <3>1. \A w \in waiters' : w \in [uid : Uid, looked : BOOLEAN] /\ w.uid <= Len(calls)
      <4> DEFINE new == [uid |-> uid, looked |-> FALSE]
      <4>1. new \in [uid : Uid, looked : BOOLEAN] /\ new.uid <= Len(calls)
        BY <1>1, LenProperties DEF Inv, ToolOK
      <4>2. \A w \in waiters : w \in [uid : Uid, looked : BOOLEAN] /\ w.uid <= Len(calls)
        BY DEF Inv, ToolOK
      <4> HIDE DEF new
      <4>3. waiters' \subseteq waiters \cup {new}
        BY <2>3 DEF new
      <4> QED  BY <4>1, <4>2, <4>3
    <3>2. "queued" \in Outcome /\ answers' \subseteq Answer
      BY <2>1 DEF Outcome, Inv, ToolOK
    <3> QED  BY <1>1, <2>1, <2>3, <3>1, <3>2, CallEnded DEF Inv
  <2> QED  BY <2>2, <2>3 DEF SendCommand
<1>5. GateOK' /\ RingsOK'
  BY GateUnchanged DEF Inv, SendCommand, RingsOK, histVars
<1> QED  BY <1>3, <1>4, <1>5 DEF Inv

\* What a lookup in the output ring gives a caller or a waiter is an answer.
LEMMA AnswerType ==
    ASSUME RingsOK, NEW uid \in Uid, NEW id, RingHas(outputRing, id)
    PROVE  AnswerFrom(uid, RingFirst(outputRing, id)) \in Answer
<1>1. RingFirst(outputRing, id) \in Output \cup Event
  BY RingFirstFound, CommandAssumption DEF RingsOK, CommandAssumption
<1> QED  BY <1>1 DEF AnswerFrom, Answer, Output, Event

LEMMA ResultFoundKeeps ==
    ASSUME Inv, NEW c \in Caller, ResultFound(c)
    PROVE  Inv'
<1>1. tool[c].uid \in 1 .. Len(told) /\ tool[c].uid \in Uid
  BY WaitingCaller DEF Inv, ResultFound
<1>2. answers' \subseteq Answer
  BY <1>1, AnswerType DEF Inv, ResultFound, ToolOK
<1>3. "completed" \in Outcome
  BY DEF Outcome
<1>4. ToolOK'
  BY <1>1, <1>2, <1>3, CallEnded DEF Inv, ResultFound, ToolOK
<1>5. GateOK' /\ NetOK' /\ RingsOK'
  BY GateUnchanged DEF Inv, ResultFound, NetOK, RingsOK, netVars, histVars
<1> QED  BY <1>4, <1>5 DEF Inv

LEMMA ResultTimeoutKeeps ==
    ASSUME Inv, NEW c \in Caller, ResultTimeout(c)
    PROVE  Inv'
<1>1. tool[c].uid \in 1 .. Len(told) /\ "timedOut" \in Outcome
  BY WaitingCaller DEF Inv, ResultTimeout, Outcome
<1>2. ToolOK'
  BY <1>1, CallEnded DEF Inv, ResultTimeout, ToolOK
<1>3. GateOK' /\ NetOK' /\ RingsOK'
  BY GateUnchanged DEF Inv, ResultTimeout, NetOK, RingsOK, netVars, histVars
<1> QED  BY <1>2, <1>3 DEF Inv

LEMMA WaiterLooksInVainKeeps ==
    ASSUME Inv, NEW w \in waiters, WaiterLooksInVain(w)
    PROVE  Inv'
<1> DEFINE new == [w EXCEPT !.looked = TRUE]
<1>1. w \in [uid : Uid, looked : BOOLEAN] /\ w.uid <= Len(calls)
  BY DEF Inv, ToolOK
<1>2. new \in [uid : Uid, looked : BOOLEAN] /\ new.uid <= Len(calls)
  BY <1>1
<1>3. waiters' = (waiters \ {w}) \cup {new} /\ UNCHANGED <<tool, calls, told, answers>>
  BY DEF WaiterLooksInVain
<1> HIDE DEF new
<1>4. ToolOK'
  BY <1>2, <1>3 DEF Inv, ToolOK
<1>5. GateOK' /\ NetOK' /\ RingsOK'
  BY GateUnchanged DEF Inv, WaiterLooksInVain, NetOK, RingsOK, netVars, histVars
<1> QED  BY <1>4, <1>5 DEF Inv

LEMMA WaiterReportsKeeps ==
    ASSUME Inv, NEW w \in waiters, NEW a \in Answer, WaiterReports(w, a)
    PROVE  Inv'
<1>1. waiters' = waiters \ {w} /\ UNCHANGED <<tool, calls, told>>
  BY DEF WaiterReports
<1>2. answers' \subseteq Answer
  BY DEF WaiterReports, Inv, ToolOK
<1>3. ToolOK'
  BY <1>1, <1>2 DEF Inv, ToolOK
<1>4. NetOK'
  BY CoordQueueType, TimelinePushType, CoordPushKeepsNet DEF Inv, WaiterReports, histVars
<1>5. GateOK' /\ RingsOK'
  BY GateUnchanged DEF Inv, WaiterReports, RingsOK, histVars
<1> QED  BY <1>3, <1>4, <1>5 DEF Inv

LEMMA WaiterNextKeeps ==
    ASSUME Inv, WaiterNext
    PROVE  Inv'
<1>1. PICK w \in waiters : WaiterLooksInVain(w) \/ WaiterFound(w) \/ WaiterTimeout(w)
  BY DEF WaiterNext, WaiterStep
<1>2. w.uid \in Uid
  BY DEF Inv, ToolOK
<1>3. CASE WaiterLooksInVain(w)
  BY <1>3, WaiterLooksInVainKeeps
<1>4. CASE WaiterFound(w)
  BY <1>2, <1>4, AnswerType, WaiterReportsKeeps DEF WaiterFound, Inv
<1>5. CASE WaiterTimeout(w)
  <2>1. [uid |-> w.uid, kind |-> "timeout", by |-> w.uid] \in Answer
    BY <1>2 DEF Answer
  <2> QED  BY <1>5, <2>1, WaiterReportsKeeps DEF WaiterTimeout
<1> QED  BY <1>1, <1>3, <1>4, <1>5

-----------------------------------------------------------------------------

LEMMA InitInv == Init => Inv
<1> SUFFICES ASSUME Init PROVE Inv
  OBVIOUS
<1>1. \A S : <<>> \in Seq(S) /\ Len(<<>>) = 0
  BY EmptySeq
<1>2. NetOK
  BY <1>1, CommandAssumption DEF Init, Fresh, NetOK, CommandAssumption
<1>3. RingsOK
  BY EmptyRingType, CommandAssumption DEF Init, Fresh, RingsOK, CommandAssumption
<1>4. ToolOK
  BY <1>1 DEF Init, Fresh, ToolOK
<1>5. GateOK
  BY <1>1 DEF Init, Fresh, GateOK, GuardianGate
<1> QED  BY <1>2, <1>3, <1>4, <1>5 DEF Inv

LEMMA NextInv == Inv /\ [Next]_vars => Inv'
<1> SUFFICES ASSUME Inv, [Next]_vars PROVE Inv'
  OBVIOUS
<1>1. ASSUME NEW n \in Node, BoardNext(n) PROVE Inv'
  BY <1>1, TurnKeeps, QuietTurnKeeps, ConnectKeeps DEF BoardNext
<1>2. ASSUME NEW n \in Node, Fault(n) PROVE Inv'
  BY <1>2, BreakKeeps, RebootKeeps DEF Fault
<1>3. ASSUME NEW c \in Caller, ToolNext(c) PROVE Inv'
  BY <1>3, CallRejectedKeeps, CallKeeps, LookInVainKeeps, PolicyBlockedKeeps,
     CommandQueueFullKeeps, SendCommandKeeps, ResultFoundKeeps, ResultTimeoutKeeps
  DEF ToolNext, ToolWait
<1>4. CASE UNCHANGED vars
  <2>1. UNCHANGED <<toolVars, histVars>>
    BY <1>4 DEF vars
  <2>2. NetOK' /\ RingsOK'
    BY <1>4 DEF vars, netVars, histVars, Inv, NetOK, RingsOK
  <2> QED  BY <2>1, <2>2, ToolUnchanged, GateUnchanged DEF Inv
<1> QED  BY <1>1, <1>2, <1>3, <1>4, WaiterNextKeeps DEF Next

LEMMA SpecInv == Spec => []Inv
BY InitInv, NextInv, PTL DEF Spec

\* Every variable keeps its type: no handler, fault or wait leaves a message, a ring or
\* a call of a kind the code does not know, and no publish queue exceeds its depth.
THEOREM TypeCorrect == Spec => []TypeOK
BY SpecInv, InvImplies, PTL

\* Whatever is lost, repeated, evicted or forgotten, nothing is carried out that the
\* Guardian did not allow.
THEOREM GateHolds == Spec => []GuardianGate
BY SpecInv, InvImplies, PTL
-----------------------------------------------------------------------------
(* Whose message is it?                                                    *)
(*                                                                         *)
(* FailedNeverSent and ResultIsOwn are about calls, so the invariant says  *)
(* of every message which call it belongs to: Genuine is to them what      *)
(* Cleared is to the gate, a type every queue, inbox and ring keeps.  It   *)
(* only grows, because a call that was sent is never unsent.               *)

\* The command of this call has not been published, and never will be once it failed.
NotSent(u) ==
    \/ told[u] \in {"rejected", "blocked", "queueError"}
    \/ \E c \in Caller : InWait(c, "policy") /\ tool[c].uid = u

\* A message carries the id of the call it belongs to; a command's call was sent.
Genuine ==
    {m \in Message :
       /\ m.kind # "note" => m.uid \in 1 .. Len(calls) /\ m.id = IdOf(m.uid)
       /\ m.kind = "command" => ~NotSent(m.uid)}

\* A caller has its call to itself, and waits for the Guardian before it is told anything.
CallersOK ==
    /\ \A c \in Caller : InWait(c, "policy") => told[tool[c].uid] = "none"
    /\ \A c, k \in Caller :
          c # k /\ tool[c] # Idle /\ tool[k] # Idle => tool[c].uid # tool[k].uid

FlowNet == pubq \in [Node -> Seq(Genuine)] /\ inbox \in [Node -> Seq(Genuine)]

FlowHistory ==
    /\ \A a \in answers : a.by \in 1 .. Len(calls) /\ a.uid \in 1 .. Len(calls)
                          /\ IdOf(a.by) = IdOf(a.uid)
    /\ \A i \in 1 .. Len(executed) : executed[i].uid \in 1 .. Len(calls)
                                     /\ ~NotSent(executed[i].uid)

FlowOK ==
    /\ FlowNet
    /\ IsRing(outputRing, Genuine, OutputDepth)
    /\ CallersOK
    /\ FlowHistory

\* The invariant implies the two properties it was made for.
LEMMA FlowImplies == Inv /\ FlowOK => FailedNeverSent /\ ResultIsOwn
<1> SUFFICES ASSUME Inv, FlowOK PROVE FailedNeverSent /\ ResultIsOwn
  OBVIOUS
<1>1. ASSUME NEW u \in 1 .. Len(told), told[u] \in {"rejected", "blocked", "queueError"}
      PROVE  ~OnTheWay(u) /\ \A i \in 1 .. Len(executed) : executed[i].uid # u
  <2>1. NotSent(u)
    BY <1>1 DEF NotSent
  <2>2. \A i \in 1 .. Len(executed) : executed[i].uid # u
    BY <2>1 DEF FlowOK, FlowHistory
  <2>3. ASSUME NEW n \in Node, NEW q \in {pubq[n], inbox[n]}, NEW i \in 1 .. Len(q),
               q[i].kind = "command", q[i].uid = u
        PROVE  FALSE
    <3>1. q \in Seq(Genuine)
      BY DEF FlowOK, FlowNet
    <3>2. q[i] \in Genuine
      BY <3>1, ElementOfSeq
    <3> QED  BY <2>1, <2>3, <3>2 DEF Genuine
  <2> QED  BY <2>2, <2>3 DEF OnTheWay
<1>2. ResultIsOwn
  BY DEF ResultIsOwn, OwnId, FlowOK, FlowHistory
<1> QED  BY <1>1, <1>2 DEF FailedNeverSent

\* As long as no call that was sent is unsent, what was genuine stays genuine.
LEMMA GenuineGrows ==
    ASSUME ToolOK, Len(calls') \in Nat, Len(calls) <= Len(calls'),
           \A u \in 1 .. Len(calls) : calls'[u] = calls[u] /\ (NotSent(u)' => NotSent(u))
    PROVE  Genuine \subseteq Genuine'
<1>1. Len(calls) \in Nat
  BY LenProperties DEF ToolOK
<1>2. ASSUME NEW m \in Genuine PROVE m \in Genuine'
  BY <1>1, <1>2 DEF Genuine, IdOf
<1> QED  BY <1>2

\* Nor does what was recorded of a call change.
LEMMA FlowGrows ==
    ASSUME ToolOK, FlowOK, Len(calls') \in Nat, Len(calls) <= Len(calls'),
           \A u \in 1 .. Len(calls) : calls'[u] = calls[u] /\ (NotSent(u)' => NotSent(u)),
           UNCHANGED executed
    PROVE  /\ pubq \in [Node -> Seq(Genuine')] /\ inbox \in [Node -> Seq(Genuine')]
           /\ IsRing(outputRing, Genuine', OutputDepth)
           /\ answers' = answers => FlowHistory'
<1>1. Genuine \subseteq Genuine'
  BY GenuineGrows
<1>2. pubq \in [Node -> Seq(Genuine')] /\ inbox \in [Node -> Seq(Genuine')]
  BY <1>1, SeqMonotonic DEF FlowOK, FlowNet
<1>3. IsRing(outputRing, Genuine', OutputDepth)
  BY <1>1, RingMonotonic DEF FlowOK
<1>4. ASSUME answers' = answers PROVE FlowHistory'
  <2>1. Len(calls) \in Nat
    BY LenProperties DEF ToolOK
  <2> QED  BY <1>4, <2>1 DEF FlowOK, FlowHistory, IdOf
<1> QED  BY <1>2, <1>3, <1>4

\* The steps of a board leave the calls alone.
LEMMA CallsUntouched ==
    ASSUME UNCHANGED toolVars
    PROVE  /\ Genuine' = Genuine /\ CallersOK' = CallersOK
           /\ \A u : NotSent(u)' = NotSent(u)
BY DEF toolVars, Genuine, CallersOK, NotSent, InWait, IdOf

-----------------------------------------------------------------------------
(* What a board does in a turn, as the calls see it. *)

\* Every command of p is the one at that place of q.
NoNewCommand(q, p) ==
    \A i \in DOMAIN p : p[i].kind = "command" => i \in DOMAIN q /\ p[i] = q[i]

\* No command is among what a handler adds to the publish queue.
LEMMA PushAddsNoCommand ==
    ASSUME NEW S, NEW q \in Seq(S), Len(q) <= PubDepth, NEW ms \in Seq(S),
           \A i \in 1 .. Len(ms) : ms[i].kind # "command"
    PROVE  NoNewCommand(q, PushAll(q, ms))
<1>1. Len(q) \in Nat /\ Len(ms) \in Nat /\ Room(q) \in Nat
  BY LenProperties, CommandAssumption DEF Room, CommandAssumption
<1>2. ASSUME NEW p \in Seq(S), \A i \in 1 .. Len(p) : p[i].kind # "command"
      PROVE  NoNewCommand(q, q \o p)
  <2>1. DOMAIN q = 1 .. Len(q) /\ Len(p) \in Nat /\ DOMAIN (q \o p) = 1 .. Len(q) + Len(p)
    BY LenProperties, ConcatProperties
  <2>2. ASSUME NEW i \in 1 .. Len(q) + Len(p), (q \o p)[i].kind = "command"
        PROVE  i \in 1 .. Len(q) /\ (q \o p)[i] = q[i]
    <3>1. (q \o p)[i] = IF i <= Len(q) THEN q[i] ELSE p[i - Len(q)]
      BY ConcatProperties
    <3>2. CASE i <= Len(q)
      BY <1>1, <3>1, <3>2
    <3>3. CASE ~(i <= Len(q))
      <4>1. i - Len(q) \in 1 .. Len(p)
        BY <1>1, <2>1, <3>3
      <4> QED  BY <1>2, <2>2, <3>1, <3>3, <4>1
    <3> QED  BY <3>2, <3>3
  <2> QED  BY <2>1, <2>2 DEF NoNewCommand
<1>3. CASE Len(ms) <= Room(q)
  BY <1>2, <1>3 DEF PushAll
<1>4. CASE ~(Len(ms) <= Room(q))
  <2>1. \A i \in 1 .. Room(q) : i \in 1 .. Len(ms)
    BY <1>1, <1>4
  <2>2. \A i \in 1 .. Room(q) : ms[i] \in S
    BY <2>1, ElementOfSeq
  <2>3. /\ SubSeq(ms, 1, Room(q)) \in Seq(S)
        /\ Len(SubSeq(ms, 1, Room(q))) = Room(q)
        /\ \A i \in 1 .. Room(q) : SubSeq(ms, 1, Room(q))[i] = ms[i]
    BY <1>1, <2>2, SubSeqProperties
  <2>4. \A i \in 1 .. Len(SubSeq(ms, 1, Room(q))) :
           SubSeq(ms, 1, Room(q))[i].kind # "command"
    BY <2>1, <2>3
  <2> QED  BY <1>2, <1>4, <2>3, <2>4 DEF PushAll
<1> QED  BY <1>3, <1>4

\* The notes of a timeline event are genuine and no commands.
LEMMA NotesGenuine ==
    /\ Note \in Genuine /\ TimelineNote \in Seq(Genuine)
    /\ \A i \in 1 .. Len(TimelineNote) : TimelineNote[i].kind # "command"
<1>1. Note \in Genuine /\ Note.kind = "note"
  BY DEF Note, Genuine, Message
<1> QED  BY <1>1 DEF TimelineNote

\* What a turn of board n with the packet m does: it drains a queue to which it added no
\* command, it records no result of an unknown call, and it carries out only m, or only
\* decides about m.
Did(n, m, unread) ==
    /\ \E q \in Seq(Genuine) : NoNewCommand(pubq[n], q) /\ Drain(n, unread, q)
    /\ IsRing(outputRing', Genuine, OutputDepth)
    /\ \/ UNCHANGED histVars
       \/ \E d \in Decision : issued' = issued \cup {d} /\ UNCHANGED executed
       \/ m.kind = "command" /\ Executes(n, m) /\ UNCHANGED issued

LEMMA QueueGenuine ==
    ASSUME Inv, FlowOK, NEW n \in Node
    PROVE  /\ pubq[n] \in Seq(Genuine) /\ Len(pubq[n]) <= PubDepth
           /\ NoNewCommand(pubq[n], pubq[n])
BY DEF Inv, NetOK, FlowOK, FlowNet, NoNewCommand

LEMMA CheckDid ==
    ASSUME Inv, FlowOK, NEW n \in Node, NEW m \in Genuine, NEW unread,
           HandleCheck(n, m, unread)
    PROVE  Did(n, m, unread)
<1> DEFINE d == DecisionOn(m)
           ms == <<d, Note>> \o TimelineNote
<1>1. m \in Check
  BY DEF HandleCheck, Genuine, Message, Check, Decision, Command, Output, Event, Note
<1>2. d \in Genuine /\ d.kind = "decision" /\ d \in Decision
  <2>1. PolicyAllows(m) \in BOOLEAN
    BY DEF PolicyAllows
  <2>2. d \in Decision /\ d.kind = "decision" /\ d.id = m.id /\ d.uid = m.uid
    BY <1>1, <2>1 DEF DecisionOn, Decision, Check
  <2> QED  BY <1>1, <2>2 DEF Genuine, Message, Check
<1>3. ms \in Seq(Genuine) /\ \A i \in 1 .. Len(ms) : ms[i].kind # "command"
  <2>1. /\ <<d, Note>> \in Seq(Genuine) /\ Len(<<d, Note>>) = 2
        /\ \A i \in 1 .. 2 : <<d, Note>>[i].kind # "command"
    <3>1. Note.kind = "note"
      BY DEF Note
    <3> HIDE DEF d
    <3> QED  BY <1>2, <3>1, NotesGenuine
  <2>2. /\ ms \in Seq(Genuine) /\ Len(ms) = 2 + Len(TimelineNote) /\ Len(TimelineNote) \in Nat
        /\ \A i \in 1 .. Len(ms) : ms[i] = IF i <= 2 THEN <<d, Note>>[i]
                                                     ELSE TimelineNote[i - 2]
    BY <2>1, NotesGenuine, ConcatProperties, LenProperties
  <2>3. ASSUME NEW i \in 1 .. Len(ms) PROVE ms[i].kind # "command"
    <3>1. CASE i <= 2
      BY <2>1, <2>2, <3>1
    <3>2. CASE ~(i <= 2)
      BY <2>2, <3>2, NotesGenuine
    <3> QED  BY <3>1, <3>2
  <2> QED  BY <2>2, <2>3
<1> HIDE DEF ms
<1>4. /\ PushAll(pubq[n], ms) \in Seq(Genuine)
      /\ NoNewCommand(pubq[n], PushAll(pubq[n], ms))
  BY <1>3, QueueGenuine, PushAllType, PushAddsNoCommand
<1>5. Drain(n, unread, PushAll(pubq[n], ms))
  BY DEF HandleCheck, ms
<1>6. issued' = issued \cup {d} /\ UNCHANGED <<executed, outputRing>>
  BY DEF HandleCheck
<1> HIDE DEF d
<1> QED  BY <1>2, <1>4, <1>5, <1>6 DEF Did, FlowOK

LEMMA DecisionDid ==
    ASSUME Inv, FlowOK, NEW n \in Node, NEW m \in Genuine, NEW unread,
           HandleDecision(n, m, unread)
    PROVE  Did(n, m, unread)
BY QueueGenuine DEF Did, HandleDecision, FlowOK, histVars

LEMMA TimelineDid ==
    ASSUME Inv, FlowOK, NEW n \in Node, NEW m \in Genuine, NEW unread,
           HandleTimeline(n, m, unread)
    PROVE  Did(n, m, unread)
<1>1. IsRing(RingPut(outputRing, m, OutputDepth), Genuine, OutputDepth)
  BY RingPutType, CommandAssumption DEF FlowOK, CommandAssumption
<1> QED  BY <1>1, QueueGenuine DEF Did, HandleTimeline, FlowOK, histVars

\* A result carries the id and the call of the command it is about.
LEMMA ResultDid ==
    ASSUME Inv, FlowOK, NEW n \in Node, NEW m \in Genuine, m.kind = "command", NEW unread,
           NEW whole \in BOOLEAN, PublishResult(n, m, unread, whole),
           UNCHANGED issued, UNCHANGED executed \/ Executes(n, m)
    PROVE  Did(n, m, unread)
<1> DEFINE o == ResultOutput(m, whole)
           e == [kind |-> "event", id |-> m.id, uid |-> m.uid]
<1>1. m \in Command
  BY DEF Genuine, Message, Check, Decision, Command, Output, Event, Note
<1>2. o \in Genuine /\ e \in Genuine /\ o.kind = "output" /\ e.kind = "event"
  <2>1. o \in Output /\ o.kind = "output" /\ o.id = m.id /\ o.uid = m.uid
    BY <1>1 DEF ResultOutput, Output, Command
  <2>2. e \in Event /\ e.kind = "event" /\ e.id = m.id /\ e.uid = m.uid
    BY <1>1 DEF Event, Command
  <2> HIDE DEF o, e
  <2> QED  BY <2>1, <2>2 DEF Genuine, Message
<1>3. /\ ResultBurst(m, whole) \in Seq(Genuine)
      /\ \A i \in 1 .. Len(ResultBurst(m, whole)) : ResultBurst(m, whole)[i].kind # "command"
  <2>1. ResultBurst(m, whole) = <<Note, o, Note, e, Note>> /\ Note.kind = "note"
    BY DEF ResultBurst, Note
  <2> HIDE DEF o, e
  <2> QED  BY <1>2, <2>1, NotesGenuine
<1>4. /\ PushAll(pubq[n], ResultBurst(m, whole)) \in Seq(Genuine)
      /\ NoNewCommand(pubq[n], PushAll(pubq[n], ResultBurst(m, whole)))
  BY <1>3, QueueGenuine, PushAllType, PushAddsNoCommand
<1>5. IsRing(RingPut(outputRing, o, OutputDepth), Genuine, OutputDepth)
  BY <1>2, RingPutType, CommandAssumption DEF FlowOK, CommandAssumption
<1>6. IsRing(outputRing', Genuine, OutputDepth)
  BY <1>5 DEF FlowOK, PublishResult
<1> QED  BY <1>4, <1>6 DEF Did, PublishResult, histVars

LEMMA CommandDid ==
    ASSUME Inv, FlowOK, NEW n \in Node, NEW m \in Genuine, NEW unread,
           HandleCommand(n, m, unread)
    PROVE  Did(n, m, unread)
<1>1. m.kind = "command" /\ issued' = issued
  BY DEF HandleCommand
<1>2. CASE SensorCommand(n, m, unread)
  BY <1>1, <1>2, ResultDid DEF SensorCommand
<1>3. CASE ControlRefusal(n, m, unread)
  BY <1>1, <1>3, ResultDid DEF ControlRefusal
<1>4. CASE ControlCommand(n, m, unread)
  BY <1>1, <1>4, ResultDid DEF ControlCommand
<1>5. CASE CommandIgnored(n, m, unread)
  BY <1>1, <1>5, QueueGenuine DEF Did, CommandIgnored, FlowOK, histVars
<1> QED  BY <1>2, <1>3, <1>4, <1>5 DEF HandleCommand

\* A turn reads one of the packets of its board.
LEMMA TurnDid ==
    ASSUME Inv, FlowOK, NEW n \in Node, Turn(n)
    PROVE  /\ UNCHANGED toolVars
           /\ \E i \in 1 .. Len(inbox[n]) :
                 Did(n, inbox[n][i], SubSeq(inbox[n], i + 1, Len(inbox[n])))
<1>1. PICK i \in Mine(n, inbox[n]) :
         LET m == inbox[n][i]
             unread == SubSeq(inbox[n], i + 1, Len(inbox[n]))
         IN  \/ HandleCheck(n, m, unread)
             \/ HandleDecision(n, m, unread)
             \/ HandleTimeline(n, m, unread)
             \/ HandleCommand(n, m, unread)
  BY DEF Turn
<1> DEFINE m == inbox[n][i]
           unread == SubSeq(inbox[n], i + 1, Len(inbox[n]))
<1>2. i \in 1 .. Len(inbox[n]) /\ inbox[n] \in Seq(Genuine)
  BY LenProperties DEF FlowOK, FlowNet, Mine
<1>3. m \in Genuine
  BY <1>2, ElementOfSeq
<1>4. \/ HandleCheck(n, m, unread)    \/ HandleDecision(n, m, unread)
      \/ HandleTimeline(n, m, unread) \/ HandleCommand(n, m, unread)
  BY <1>1
<1>5. Did(n, m, unread)
  <2> HIDE DEF m, unread
  <2> QED  BY <1>3, <1>4, CheckDid, DecisionDid, TimelineDid, CommandDid
<1> QED  BY <1>2, <1>5 DEF Turn

\* A quiet turn reads nothing.
LEMMA QuietDid ==
    ASSUME Inv, FlowOK, NEW n \in Node, NEW m, QuietTurn(n)
    PROVE  UNCHANGED <<toolVars, histVars>> /\ Did(n, m, <<>>)
BY QueueGenuine DEF QuietTurn, Did, FlowOK, histVars

\* A piece of a sequence is a sequence of the same kind.
LEMMA PieceType ==
    ASSUME NEW S, NEW s \in Seq(S), NEW i \in Nat \ {0}, NEW j \in 0 .. Len(s)
    PROVE  SubSeq(s, i, j) \in Seq(S)
<1>1. Len(s) \in Nat /\ \A k \in i .. j : s[k] \in S
  BY LenProperties, ElementOfSeq
<1> QED  BY <1>1, SubSeqProperties

LEMMA DidFlow ==
    ASSUME Inv, FlowOK, NEW n \in Node, NEW m \in Genuine, NEW unread \in Seq(Genuine),
           Did(n, m, unread), UNCHANGED toolVars
    PROVE  FlowOK'
<1>1. Genuine' = Genuine /\ CallersOK' = CallersOK /\ \A u : NotSent(u)' = NotSent(u)
  BY CallsUntouched
<1>2. PICK q \in Seq(Genuine) : Drain(n, unread, q)
  BY DEF Did
<1>3. FlowNet'
  <2>1. pubq' \in [Node -> Seq(Genuine)] /\ inbox' \in [Node -> Seq(Genuine)]
    BY <1>2, DrainType DEF Inv, NetOK, FlowOK, FlowNet
  <2> QED  BY <1>1, <2>1 DEF FlowNet
<1>4. IsRing(outputRing, Genuine, OutputDepth)'
  BY <1>1 DEF Did
<1>5. calls' = calls /\ answers' = answers
  BY DEF toolVars
<1>6. FlowHistory'
  <2>1. CASE executed' = executed
    BY <1>1, <1>5, <2>1 DEF FlowOK, FlowHistory, IdOf
  <2>2. CASE m.kind = "command" /\ Executes(n, m)
    <3>1. m.uid \in 1 .. Len(calls) /\ ~NotSent(m.uid) /\ m \in Command
      BY <2>2 DEF Genuine, Message, Check, Decision, Command, Output, Event, Note
    <3> DEFINE e == [board |-> n, id |-> m.id, action |-> m.action,
                     safety |-> m.safety, uid |-> m.uid]
    <3>2. e \in Execution /\ e.uid = m.uid
      BY <3>1 DEF Execution, Command
    <3>3. executed \in Seq(Execution) /\ executed' = Append(executed, e)
      BY <2>2 DEF Inv, GateOK, Executes
    <3> HIDE DEF e
    <3>4. \A i \in 1 .. Len(executed') :
             \/ i \in 1 .. Len(executed) /\ executed'[i] = executed[i]
             \/ executed'[i] = e
      BY <3>2, <3>3, AppendProperties, LenProperties
    <3>5. \A i \in 1 .. Len(executed') : executed'[i].uid \in 1 .. Len(calls)
                                         /\ ~NotSent(executed'[i].uid)
      BY <3>1, <3>2, <3>4 DEF FlowOK, FlowHistory
    <3> QED  BY <1>1, <1>5, <3>5 DEF FlowOK, FlowHistory, IdOf
  <2> QED  BY <2>1, <2>2 DEF Did, histVars
<1> QED  BY <1>1, <1>3, <1>4, <1>6 DEF FlowOK

LEMMA TurnFlow ==
    ASSUME Inv, FlowOK, NEW n \in Node, Turn(n)
    PROVE  FlowOK'
<1>1. UNCHANGED toolVars
  BY TurnDid
<1>2. PICK i \in 1 .. Len(inbox[n]) :
         Did(n, inbox[n][i], SubSeq(inbox[n], i + 1, Len(inbox[n])))
  BY TurnDid
<1>3. inbox[n] \in Seq(Genuine) /\ Len(inbox[n]) \in Nat
  BY LenProperties DEF FlowOK, FlowNet
<1>4. inbox[n][i] \in Genuine /\ SubSeq(inbox[n], i + 1, Len(inbox[n])) \in Seq(Genuine)
  BY <1>3, ElementOfSeq, PieceType
<1> QED  BY <1>1, <1>2, <1>4, DidFlow

LEMMA QuietTurnFlow ==
    ASSUME Inv, FlowOK, NEW n \in Node, QuietTurn(n)
    PROVE  FlowOK'
<1>1. Note \in Genuine /\ <<>> \in Seq(Genuine)
  BY NotesGenuine, EmptySeq
<1> QED  BY <1>1, QuietDid, DidFlow

\* What does not touch the calls and only loses messages.
LEMMA LossFlow ==
    ASSUME FlowOK, UNCHANGED <<toolVars, executed, outputRing>>,
           pubq' \in [Node -> Seq(Genuine)], inbox' \in [Node -> Seq(Genuine)]
    PROVE  FlowOK'
<1>1. Genuine' = Genuine /\ CallersOK' = CallersOK /\ \A u : NotSent(u)' = NotSent(u)
  BY CallsUntouched
<1>2. calls' = calls /\ answers' = answers
  BY DEF toolVars
<1> QED  BY <1>1, <1>2 DEF FlowOK, FlowNet, FlowHistory, IdOf

LEMMA ConnectFlow ==
    ASSUME FlowOK, NEW n \in Node, Connect(n)
    PROVE  FlowOK'
BY LossFlow DEF FlowOK, FlowNet, Connect, histVars

LEMMA BreakFlow ==
    ASSUME FlowOK, NEW n \in Node, Break(n)
    PROVE  FlowOK'
<1>1. PICK k \in {0} \cup Mine(n, inbox[n]) :
         inbox' = [inbox EXCEPT ![n] = SubSeq(inbox[n], 1, k)]
  BY DEF Break
<1>2. inbox[n] \in Seq(Genuine) /\ Len(inbox[n]) \in Nat /\ k \in 0 .. Len(inbox[n])
  BY LenProperties DEF FlowOK, FlowNet, Mine
<1>3. SubSeq(inbox[n], 1, k) \in Seq(Genuine)
  BY <1>2, PieceType
<1>4. inbox' \in [Node -> Seq(Genuine)]
  BY <1>1, <1>3 DEF FlowOK, FlowNet
<1> QED  BY <1>4, LossFlow DEF FlowOK, FlowNet, Break, histVars

\* A reboot forgets callers, and with them that a call was not yet sent: that is no harm,
\* because nobody is left to send it.
LEMMA RebootFlow ==
    ASSUME Inv, FlowOK, NEW n \in Node, Reboot(n)
    PROVE  FlowOK'
<1>1. UNCHANGED <<calls, told, answers, executed>>
  BY DEF Reboot, histVars
<1>2. tool' = tool \/ tool' = [c \in Caller |-> Idle]
  BY DEF Reboot
<1>3. \A u : NotSent(u)' => NotSent(u)
  BY <1>1, <1>2 DEF NotSent, InWait, Idle
<1>4. CallersOK'
  BY <1>1, <1>2 DEF FlowOK, CallersOK, InWait, Idle
<1>5. Len(calls) \in Nat
  BY LenProperties DEF Inv, ToolOK
<1>6. /\ pubq \in [Node -> Seq(Genuine')] /\ inbox \in [Node -> Seq(Genuine')]
      /\ IsRing(outputRing, Genuine', OutputDepth) /\ FlowHistory'
  BY <1>1, <1>3, <1>5, FlowGrows DEF Inv
<1>7. FlowNet'
  <2>1. <<>> \in Seq(Genuine')
    BY EmptySeq
  <2> QED  BY <1>6, <2>1 DEF Reboot, FlowNet
<1>8. IsRing(outputRing, Genuine, OutputDepth)'
  BY <1>6, EmptyRingType, CommandAssumption DEF Reboot, CommandAssumption
<1> QED  BY <1>4, <1>6, <1>7, <1>8 DEF FlowOK

-----------------------------------------------------------------------------
(* The tool's steps, as the calls see them. *)

\* What the tool adds to its queue is genuine once its own step is taken.
LEMMA CoordPushFlow ==
    ASSUME ToolOK, FlowOK, Len(calls') \in Nat, Len(calls) <= Len(calls'),
           \A u \in 1 .. Len(calls) : calls'[u] = calls[u] /\ (NotSent(u)' => NotSent(u)),
           UNCHANGED <<executed, inbox, outputRing, answers>>, CallersOK',
           pubq' = pubq \/ \E q \in Seq(Genuine') : pubq' = [pubq EXCEPT ![Coord] = q]
    PROVE  FlowOK'
<1>1. /\ pubq \in [Node -> Seq(Genuine')] /\ inbox \in [Node -> Seq(Genuine')]
      /\ IsRing(outputRing, Genuine', OutputDepth) /\ FlowHistory'
  BY FlowGrows
<1>2. FlowNet'
  BY <1>1 DEF FlowNet
<1> QED  BY <1>1, <1>2 DEF FlowOK

\* The coordinator's queue, seen after the step.
LEMMA CoordQueueGenuine ==
    ASSUME Inv, FlowOK, Genuine \subseteq Genuine'
    PROVE  /\ pubq[Coord] \in Seq(Genuine') /\ Len(pubq[Coord]) <= PubDepth
           /\ PushAll(pubq[Coord], TimelineNote) \in Seq(Genuine')
           /\ AfterApproval \in Seq(Genuine') /\ Len(AfterApproval) <= PubDepth
<1>1. pubq[Coord] \in Seq(Genuine') /\ Len(pubq[Coord]) <= PubDepth
  BY SeqMonotonic, CommandAssumption DEF Inv, NetOK, FlowOK, FlowNet, CommandAssumption
<1>2. TimelineNote \in Seq(Genuine')
  BY NotesGenuine, SeqMonotonic
<1> QED  BY <1>1, <1>2, PushAllType DEF AfterApproval

\* A new call has a number no message carries yet.
LEMMA CallFlow ==
    ASSUME Inv, FlowOK, NEW c \in Caller, Call(c)
    PROVE  FlowOK'
<1> DEFINE uid == Len(calls) + 1
<1>1. PICK r \in CallSet :
         /\ Acceptable(r)
         /\ calls' = Append(calls, r)
         /\ IF Room(pubq[Coord]) > 0
            THEN /\ pubq' = [pubq EXCEPT ![Coord] = Append(@, CheckFor(r, uid))]
                 /\ tool' = [tool EXCEPT ![c] = [pc |-> "policy", uid |-> uid,
                                                 looked |-> FALSE]]
                 /\ told' = Append(told, "none")
            ELSE /\ pubq' = [pubq EXCEPT ![Coord] = PushAll(@, TimelineNote)]
                 /\ told' = Append(told, "blocked")
                 /\ UNCHANGED tool
  BY DEF Call
<1>2. r \in Request /\ tool[c] = Idle
  BY CommandAssumption DEF CommandAssumption, Call
<1>3. UNCHANGED <<inbox, outputRing, answers, executed>>
  BY DEF Call, histVars
<1>4. /\ Len(calls) \in Nat /\ Len(calls') = uid /\ calls'[uid] = r
      /\ \A u \in 1 .. Len(calls) : calls'[u] = calls[u] /\ told'[u] = told[u]
      /\ told'[uid] \in {"none", "blocked"}
      /\ Room(pubq[Coord]) > 0 => told'[uid] = "none"
  <2>1. told' = Append(told, "none") \/ told' = Append(told, "blocked")
    BY <1>1
  <2>2. "none" \in Outcome /\ "blocked" \in Outcome
    BY DEF Outcome
  <2>3. /\ Len(calls) \in Nat /\ Len(calls') = uid /\ calls'[uid] = r
        /\ \A u \in 1 .. Len(calls) : calls'[u] = calls[u]
    BY <1>1, <1>2, AppendProperties, LenProperties DEF Inv, ToolOK
  <2>4. /\ \A u \in 1 .. Len(told) : told'[u] = told[u]
        /\ told' = Append(told, "none") => told'[Len(told) + 1] = "none"
        /\ told' = Append(told, "blocked") => told'[Len(told) + 1] = "blocked"
    BY <2>1, <2>2, AppendProperties, LenProperties DEF Inv, ToolOK
  <2> QED  BY <1>1, <2>1, <2>3, <2>4 DEF Inv, ToolOK
<1>5. \A k \in Caller : tool[k] # Idle => tool[k].uid \in 1 .. Len(calls)
  BY <1>4 DEF Inv, ToolOK, Busy, Uid
<1>6. \A k \in Caller :
         \/ tool'[k] = tool[k]
         \/ /\ k = c /\ tool'[k].uid = uid /\ tool'[k].pc = "policy"
            /\ Room(pubq[Coord]) > 0
  <2>1. tool \in [Caller -> {Idle} \cup Busy]
    BY DEF Inv, ToolOK
  <2>2. CASE Room(pubq[Coord]) > 0
    <3>1. tool' = [tool EXCEPT ![c] = [pc |-> "policy", uid |-> uid, looked |-> FALSE]]
      BY <1>1, <2>2
    <3>2. /\ \A k \in Caller : k # c => tool'[k] = tool[k]
          /\ tool'[c].uid = uid /\ tool'[c].pc = "policy"
      BY <2>1, <3>1
    <3> QED  BY <2>2, <3>2
  <2>3. CASE ~(Room(pubq[Coord]) > 0)
    <3>1. tool' = tool
      BY <1>1, <2>3
    <3> QED  BY <3>1
  <2> QED  BY <2>2, <2>3
<1>7. \A u \in 1 .. Len(calls) : NotSent(u)' => NotSent(u)
  BY <1>4, <1>6 DEF NotSent, InWait
<1>8. CallersOK'
  <2>1. ASSUME NEW k \in Caller, InWait(k, "policy")'
        PROVE  told'[tool'[k].uid] = "none"
    <3>1. CASE tool'[k] = tool[k]
      <4>1. InWait(k, "policy") /\ tool[k] # Idle
        BY <2>1, <3>1 DEF InWait, Idle
      <4> QED  BY <1>4, <1>5, <3>1, <4>1 DEF FlowOK, CallersOK
    <3> QED  BY <1>4, <1>6, <3>1
  <2>2. ASSUME NEW k \in Caller, NEW j \in Caller, k # j,
               tool'[k] # Idle, tool'[j] # Idle
        PROVE  tool'[k].uid # tool'[j].uid
    <3>1. CASE tool'[k] = tool[k] /\ tool'[j] = tool[j]
      BY <2>2, <3>1 DEF FlowOK, CallersOK
    <3>2. CASE tool'[k] # tool[k]
      BY <1>4, <1>5, <1>6, <2>2, <3>2
    <3>3. CASE tool'[j] # tool[j]
      BY <1>4, <1>5, <1>6, <2>2, <3>3
    <3> QED  BY <3>1, <3>2, <3>3
  <2> QED  BY <2>1, <2>2 DEF CallersOK
<1>9. Genuine \subseteq Genuine'
  BY <1>4, <1>7, GenuineGrows DEF Inv
<1>10. \E q \in Seq(Genuine') : pubq' = [pubq EXCEPT ![Coord] = q]
  <2>1. CASE Room(pubq[Coord]) > 0
    <3>1. CheckFor(r, uid) \in Genuine'
      <4>1. ResolvedRole(r) \in RoleName
        BY <1>2 DEF ResolvedRole, Request, RoleName, Sensor, Control, NoRole
      <4>2. /\ CheckFor(r, uid) \in Check /\ CheckFor(r, uid).kind = "check"
            /\ CheckFor(r, uid).id = r.id /\ CheckFor(r, uid).uid = uid
        BY <1>1, <1>2, <1>4, <4>1 DEF CheckFor, Check, Request, Acceptable, Uid
      <4> QED  BY <1>4, <4>2 DEF Genuine, Message, IdOf
    <3>2. Append(pubq[Coord], CheckFor(r, uid)) \in Seq(Genuine')
      BY <1>9, <3>1, CoordQueueGenuine, AppendProperties
    <3> QED  BY <1>1, <2>1, <3>2
  <2>2. CASE ~(Room(pubq[Coord]) > 0)
    BY <1>1, <1>9, <2>2, CoordQueueGenuine
  <2> QED  BY <2>1, <2>2
<1>11. ToolOK /\ Len(calls') \in Nat /\ Len(calls) <= Len(calls')
       /\ \A u \in 1 .. Len(calls) : calls'[u] = calls[u] /\ (NotSent(u)' => NotSent(u))
  BY <1>4, <1>7 DEF Inv
<1> HIDE DEF uid
<1> QED  BY <1>3, <1>8, <1>10, <1>11, CoordPushFlow

LEMMA CallRejectedFlow ==
    ASSUME Inv, FlowOK, NEW c \in Caller, CallRejected(c)
    PROVE  FlowOK'
<1>1. PICK r \in CallSet : calls' = Append(calls, r) /\ told' = Append(told, "rejected")
  BY DEF CallRejected
<1>2. r \in Request /\ "rejected" \in Outcome
  BY CommandAssumption DEF CommandAssumption, Outcome
<1>3. UNCHANGED <<pubq, inbox, outputRing, answers, executed, tool>>
  BY DEF CallRejected, netVars, histVars
<1>4. /\ Len(calls) \in Nat /\ Len(calls') = Len(calls) + 1
      /\ \A u \in 1 .. Len(calls) : calls'[u] = calls[u] /\ told'[u] = told[u]
  <2>1. /\ Len(calls) \in Nat /\ Len(calls') = Len(calls) + 1
        /\ \A u \in 1 .. Len(calls) : calls'[u] = calls[u]
    BY <1>1, <1>2, AppendProperties, LenProperties DEF Inv, ToolOK
  <2>2. \A u \in 1 .. Len(told) : told'[u] = told[u]
    BY <1>1, <1>2, AppendProperties, LenProperties DEF Inv, ToolOK
  <2> QED  BY <2>1, <2>2 DEF Inv, ToolOK
<1>5. \A u \in 1 .. Len(calls) : NotSent(u)' => NotSent(u)
  BY <1>3, <1>4 DEF NotSent, InWait
<1>6. CallersOK'
  <2>1. \A k \in Caller : InWait(k, "policy") => tool[k].uid \in 1 .. Len(calls)
    BY WaitingCaller DEF Inv
  <2> QED  BY <1>3, <1>4, <2>1 DEF FlowOK, CallersOK, InWait
<1> QED  BY <1>3, <1>4, <1>5, <1>6, CoordPushFlow DEF Inv

\* The outcome of a call that was waiting.
LEMMA Told ==
    ASSUME ToolOK, NEW u \in 1 .. Len(told), NEW t \in Outcome, Tell(u, t)
    PROVE  told'[u] = t /\ \A v \in 1 .. Len(told) : v # u => told'[v] = told[v]
BY ExceptSeq DEF ToolOK, Tell

\* A caller is done with its call: nobody else waits for it, so what is told of it
\* concerns no other caller.
LEMMA DoneFlow ==
    ASSUME Inv, FlowOK, NEW c \in Caller, NEW pc \in {"policy", "result"}, InWait(c, pc),
           NEW t \in Outcome, Tell(tool[c].uid, t), tool' = [tool EXCEPT ![c] = Idle],
           UNCHANGED calls,
           t \in {"blocked", "queueError", "rejected"} => pc = "policy"
    PROVE  /\ CallersOK'
           /\ \A u \in 1 .. Len(calls) : NotSent(u)' => NotSent(u)
<1> DEFINE uid == tool[c].uid
<1>1. uid \in 1 .. Len(told) /\ tool[c] \in Busy /\ tool[c].pc = pc
  BY WaitingCaller DEF Inv
<1>2. told'[uid] = t /\ \A v \in 1 .. Len(told) : v # uid => told'[v] = told[v]
  BY <1>1, Told DEF Inv
<1>3. /\ tool \in [Caller -> {Idle} \cup Busy] /\ Len(told) = Len(calls) /\ tool[c] # Idle
      /\ tool'[c] = Idle /\ \A k \in Caller : k # c => tool'[k] = tool[k]
  BY <1>1 DEF Inv, ToolOK, Idle, InWait
<1>4. \A k \in Caller : k # c /\ tool[k] # Idle => tool[k].uid # uid
  BY <1>3 DEF FlowOK, CallersOK
<1>5. \A k \in Caller : InWait(k, "policy")' => k # c /\ InWait(k, "policy") /\ tool[k] # Idle
  BY <1>3 DEF InWait, Idle
<1>6. \A k \in Caller : InWait(k, "policy") => tool[k].uid \in 1 .. Len(told)
  BY WaitingCaller DEF Inv
<1>7. CallersOK'
  <2>1. ASSUME NEW k \in Caller, InWait(k, "policy")' PROVE told'[tool'[k].uid] = "none"
    BY <1>2, <1>3, <1>4, <1>5, <1>6, <2>1 DEF FlowOK, CallersOK
  <2>2. \A k, j \in Caller :
          k # j /\ tool'[k] # Idle /\ tool'[j] # Idle => tool'[k].uid # tool'[j].uid
    BY <1>3 DEF FlowOK, CallersOK
  <2> QED  BY <2>1, <2>2 DEF CallersOK
<1>8. ASSUME NEW u \in 1 .. Len(calls), NotSent(u)' PROVE NotSent(u)
  <2>1. CASE u = uid
    <3>1. CASE pc = "policy"
      BY <2>1, <3>1 DEF NotSent
    <3>2. CASE pc # "policy"
      BY <1>2, <1>3, <1>4, <1>5, <1>8, <2>1, <3>2 DEF NotSent
    <3> QED  BY <3>1, <3>2
  <2>2. CASE u # uid
    BY <1>2, <1>3, <1>5, <1>8, <2>2 DEF NotSent
  <2> QED  BY <2>1, <2>2
<1> QED  BY <1>7, <1>8

\* The call ends, and at most a timeline event is queued.
LEMMA EndFlow ==
    ASSUME Inv, FlowOK, NEW c \in Caller, NEW pc \in {"policy", "result"}, InWait(c, pc),
           NEW t \in Outcome, Tell(tool[c].uid, t), tool' = [tool EXCEPT ![c] = Idle],
           UNCHANGED <<calls, executed, inbox, outputRing, answers>>,
           t \in {"blocked", "queueError", "rejected"} => pc = "policy",
           \/ pubq' = pubq
           \/ pubq' = [pubq EXCEPT ![Coord] = PushAll(pubq[Coord], TimelineNote)]
           \/ pubq' = [pubq EXCEPT ![Coord] = PushAll(AfterApproval, TimelineNote)]
    PROVE  FlowOK'
<1>1. /\ CallersOK'
      /\ \A u \in 1 .. Len(calls) : calls'[u] = calls[u] /\ (NotSent(u)' => NotSent(u))
  BY DoneFlow
<1>2. Len(calls') \in Nat /\ Len(calls) <= Len(calls') /\ ToolOK
  BY LenProperties DEF Inv, ToolOK
<1>3. Genuine \subseteq Genuine'
  BY <1>1, <1>2, GenuineGrows
<1>4. TimelineNote \in Seq(Genuine')
  BY <1>3, NotesGenuine, SeqMonotonic
<1>5. /\ PushAll(pubq[Coord], TimelineNote) \in Seq(Genuine')
      /\ PushAll(AfterApproval, TimelineNote) \in Seq(Genuine')
  BY <1>3, <1>4, CoordQueueGenuine, PushAllType
<1>6. pubq' = pubq \/ \E q \in Seq(Genuine') : pubq' = [pubq EXCEPT ![Coord] = q]
  BY <1>5
<1> QED  BY <1>1, <1>2, <1>6, CoordPushFlow

LEMMA PolicyBlockedFlow ==
    ASSUME Inv, FlowOK, NEW c \in Caller, PolicyBlocked(c)
    PROVE  FlowOK'
<1>1. "blocked" \in Outcome
  BY DEF Outcome
<1> QED  BY <1>1, EndFlow DEF PolicyBlocked, histVars

LEMMA CommandQueueFullFlow ==
    ASSUME Inv, FlowOK, NEW c \in Caller, CommandQueueFull(c)
    PROVE  FlowOK'
<1>1. "queueError" \in Outcome
  BY DEF Outcome
<1> QED  BY <1>1, EndFlow DEF CommandQueueFull, histVars

LEMMA ResultTimeoutFlow ==
    ASSUME Inv, FlowOK, NEW c \in Caller, ResultTimeout(c)
    PROVE  FlowOK'
<1>1. "timedOut" \in Outcome
  BY DEF Outcome
<1> QED  BY <1>1, EndFlow DEF ResultTimeout, histVars, netVars

\* What a lookup finds belongs to a call with the id looked up.
LEMMA AnswerOwn ==
    ASSUME FlowOK, NEW u \in 1 .. Len(calls), RingHas(outputRing, IdOf(u)),
           IsRing(outputRing, Output \cup Event, OutputDepth)
    PROVE  LET a == AnswerFrom(u, RingFirst(outputRing, IdOf(u)))
           IN  a.by \in 1 .. Len(calls) /\ a.uid = u /\ IdOf(a.by) = IdOf(u)
<1> DEFINE m == RingFirst(outputRing, IdOf(u))
<1>1. m \in Genuine /\ m.id = IdOf(u)
  BY RingFirstFound, CommandAssumption DEF FlowOK, CommandAssumption
<1>2. m \in Output \cup Event
  BY RingFirstFound, CommandAssumption DEF CommandAssumption
<1> HIDE DEF m
<1>3. m.kind # "note"
  BY <1>2 DEF Output, Event
<1>4. m.uid \in 1 .. Len(calls) /\ m.id = IdOf(m.uid)
  BY <1>1, <1>3 DEF Genuine
<1> QED  BY <1>1, <1>4 DEF AnswerFrom, m

\* An answer given to the caller of u names a call with the id of u.
LEMMA AnswerFlow ==
    ASSUME FlowOK, NEW a,
           a.by \in 1 .. Len(calls), a.uid \in 1 .. Len(calls), IdOf(a.by) = IdOf(a.uid),
           answers' \subseteq answers \cup {a}, UNCHANGED <<calls, executed>>,
           \A u \in 1 .. Len(calls) : NotSent(u)' => NotSent(u)
    PROVE  FlowHistory'
BY DEF FlowOK, FlowHistory, IdOf

LEMMA ResultFoundFlow ==
    ASSUME Inv, FlowOK, NEW c \in Caller, ResultFound(c)
    PROVE  FlowOK'
<1> DEFINE u == tool[c].uid
           a == AnswerFrom(u, RingFirst(outputRing, IdOf(u)))
<1>1. u \in 1 .. Len(calls) /\ "completed" \in Outcome
  BY WaitingCaller DEF Inv, ResultFound, Outcome
<1>2. /\ CallersOK'
      /\ \A v \in 1 .. Len(calls) : NotSent(v)' => NotSent(v)
  BY <1>1, DoneFlow DEF ResultFound
<1>3. a.by \in 1 .. Len(calls) /\ a.uid = u /\ IdOf(a.by) = IdOf(u)
  BY <1>1, AnswerOwn DEF ResultFound, Inv, RingsOK
<1>4. answers' \subseteq answers \cup {a} /\ UNCHANGED <<calls, executed, pubq, inbox, outputRing>>
  BY DEF ResultFound, netVars, histVars
<1>5. FlowHistory'
  <2> HIDE DEF a, u
  <2> QED  BY <1>1, <1>2, <1>3, <1>4, AnswerFlow
<1>6. Len(calls) \in Nat /\ ToolOK
  BY LenProperties DEF Inv, ToolOK
<1>7. FlowNet' /\ IsRing(outputRing, Genuine, OutputDepth)'
  BY <1>2, <1>4, <1>6, FlowGrows DEF FlowNet
<1> QED  BY <1>2, <1>5, <1>7 DEF FlowOK

LEMMA LookInVainFlow ==
    ASSUME Inv, FlowOK, NEW c \in Caller, LookInVain(c)
    PROVE  FlowOK'
<1>1. tool[c] \in Busy /\ tool[c] # Idle
  BY WaitingCaller DEF Inv, LookInVain, InWait, Idle
<1>2. tool' = [tool EXCEPT ![c] = [tool[c] EXCEPT !.looked = TRUE]]
  BY DEF LookInVain
<1>3. /\ [tool[c] EXCEPT !.looked = TRUE].uid = tool[c].uid
      /\ [tool[c] EXCEPT !.looked = TRUE].pc = tool[c].pc
  BY <1>1 DEF Busy
<1>4. tool \in [Caller -> {Idle} \cup Busy]
  BY DEF Inv, ToolOK
<1>5. \A k \in Caller : tool'[k].pc = tool[k].pc /\ tool'[k].uid = tool[k].uid
                        /\ (tool'[k] # Idle => tool[k] # Idle)
  BY <1>1, <1>2, <1>3, <1>4
<1>6. UNCHANGED <<calls, told, answers, executed, pubq, inbox, outputRing>>
  BY DEF LookInVain, netVars, histVars
<1>7. CallersOK'
  BY <1>5, <1>6 DEF FlowOK, CallersOK, InWait
<1>8. \A u \in 1 .. Len(calls) : calls'[u] = calls[u] /\ (NotSent(u)' => NotSent(u))
  BY <1>5, <1>6 DEF NotSent, InWait
<1>9. ToolOK /\ Len(calls') \in Nat /\ Len(calls) <= Len(calls')
  BY <1>6, LenProperties DEF Inv, ToolOK
<1> QED  BY <1>6, <1>7, <1>8, <1>9, CoordPushFlow

\* The command that is queued belongs to a call that from now on counts as sent.
LEMMA SendCommandFlow ==
    ASSUME Inv, FlowOK, NEW c \in Caller, SendCommand(c)
    PROVE  FlowOK'
<1> DEFINE uid == tool[c].uid
           r == calls[uid]
           m == CommandFor(r, uid)
<1>1. /\ uid \in 1 .. Len(calls) /\ uid \in 1 .. Len(told) /\ uid \in Uid
      /\ r \in Request /\ Acceptable(r) /\ tool[c] \in Busy /\ tool[c].pc = "policy"
  BY WaitingCaller DEF Inv, SendCommand
<1>2. /\ UNCHANGED <<calls, answers, executed, inbox, outputRing>>
      /\ pubq' = [pubq EXCEPT ![Coord] = PushAll(Append(AfterApproval, m), TimelineNote)]
      /\ InWait(c, "policy") /\ Room(AfterApproval) > 0
  BY DEF SendCommand, histVars
<1>3. /\ tool \in [Caller -> {Idle} \cup Busy] /\ tool[c] # Idle
      /\ told[uid] = "none"
      /\ \A k \in Caller : k # c /\ tool[k] # Idle => tool[k].uid # uid
  BY <1>1, <1>2 DEF Inv, ToolOK, FlowOK, CallersOK, InWait, Idle
<1>4. /\ CallersOK'
      /\ \A u \in 1 .. Len(calls) : NotSent(u)' => NotSent(u)
      /\ \A u : u = uid => ~NotSent(u)'
  <2>1. CASE tool' = [tool EXCEPT ![c] = [pc |-> "result", uid |-> uid, looked |-> FALSE]]
             /\ told' = told
    <3>1. /\ tool'[c].uid = uid /\ tool'[c].pc = "result"
          /\ \A k \in Caller : k # c => tool'[k] = tool[k]
      BY <1>3, <2>1
    <3>2. \A k \in Caller : InWait(k, "policy")' => k # c /\ InWait(k, "policy") /\ tool[k] # Idle
      BY <3>1 DEF InWait, Idle
    <3>3. CallersOK'
      <4>1. \A k \in Caller : InWait(k, "policy")' => told'[tool'[k].uid] = "none"
        BY <2>1, <3>1, <3>2 DEF FlowOK, CallersOK
      <4>2. \A k, j \in Caller :
              k # j /\ tool'[k] # Idle /\ tool'[j] # Idle => tool'[k].uid # tool'[j].uid
        BY <1>3, <3>1 DEF FlowOK, CallersOK
      <4> QED  BY <4>1, <4>2 DEF CallersOK
    <3>4. \A u \in 1 .. Len(calls) : NotSent(u)' => NotSent(u)
      BY <2>1, <3>1, <3>2 DEF NotSent
    <3>5. \A u : u = uid => ~NotSent(u)'
      BY <1>3, <2>1, <3>1, <3>2 DEF NotSent
    <3> QED  BY <3>3, <3>4, <3>5
  <2>2. CASE tool' = [tool EXCEPT ![c] = Idle] /\ Tell(uid, "queued")
    <3>1. "queued" \in Outcome
      BY DEF Outcome
    <3>2. CallersOK' /\ \A u \in 1 .. Len(calls) : NotSent(u)' => NotSent(u)
      BY <1>2, <2>2, <3>1, DoneFlow
    <3>3. told'[uid] = "queued"
      BY <1>1, <2>2, <3>1, Told DEF Inv
    <3>4. \A k \in Caller : InWait(k, "policy")' => tool'[k].uid # uid
      BY <1>3, <2>2 DEF InWait, Idle
    <3>5. \A u : u = uid => ~NotSent(u)'
      BY <3>3, <3>4 DEF NotSent
    <3> QED  BY <3>2, <3>5
  <2> QED  BY <2>1, <2>2 DEF SendCommand
<1>5. /\ Len(calls') \in Nat /\ Len(calls) <= Len(calls') /\ ToolOK
      /\ \A u \in 1 .. Len(calls) : calls'[u] = calls[u] /\ (NotSent(u)' => NotSent(u))
  BY <1>2, <1>4, LenProperties DEF Inv, ToolOK
<1>6. Genuine \subseteq Genuine'
  BY <1>5, GenuineGrows
<1>7. m \in Genuine'
  <2>1. ResolvedRole(r) \in RoleName
    BY <1>1 DEF ResolvedRole, Request, RoleName, Sensor, Control, NoRole
  <2>2. m \in Command /\ m.kind = "command" /\ m.id = r.id /\ m.uid = uid
    BY <1>1, <2>1 DEF CommandFor, Command, Request, Acceptable
  <2> HIDE DEF m
  <2> QED  BY <1>1, <1>2, <1>4, <2>2 DEF Genuine, Message, IdOf
<1>8. PushAll(Append(AfterApproval, m), TimelineNote) \in Seq(Genuine')
  <2> HIDE DEF m
  <2>1. AfterApproval \in Seq(Genuine') /\ Len(AfterApproval) \in Nat
    BY <1>6, CoordQueueGenuine, LenProperties
  <2>2. /\ Append(AfterApproval, m) \in Seq(Genuine')
        /\ Len(Append(AfterApproval, m)) <= PubDepth
    BY <1>2, <1>7, <2>1, AppendProperties, CommandAssumption DEF Room, CommandAssumption
  <2>3. TimelineNote \in Seq(Genuine')
    BY <1>6, NotesGenuine, SeqMonotonic
  <2> QED  BY <2>2, <2>3, PushAllType
<1>9. \E q \in Seq(Genuine') : pubq' = [pubq EXCEPT ![Coord] = q]
  BY <1>2, <1>8
<1> QED  BY <1>2, <1>4, <1>5, <1>9, CoordPushFlow

LEMMA WaiterNextFlow ==
    ASSUME Inv, FlowOK, WaiterNext
    PROVE  FlowOK'
<1>1. PICK w \in waiters : WaiterLooksInVain(w) \/ WaiterFound(w) \/ WaiterTimeout(w)
  BY DEF WaiterNext, WaiterStep
<1>2. w.uid \in 1 .. Len(calls) /\ Len(calls) \in Nat
  BY LenProperties DEF Inv, ToolOK, Uid
<1>3. UNCHANGED <<calls, told, tool, executed, inbox, outputRing>>
  BY <1>1 DEF WaiterLooksInVain, WaiterFound, WaiterTimeout, WaiterReports, netVars, histVars
<1>4. CallersOK' /\ Genuine' = Genuine /\ \A u : NotSent(u)' = NotSent(u)
  BY <1>3 DEF FlowOK, CallersOK, Genuine, NotSent, InWait, IdOf
<1>5. pubq' = pubq \/ pubq' = [pubq EXCEPT ![Coord] = PushAll(pubq[Coord], TimelineNote)]
  BY <1>1 DEF WaiterLooksInVain, WaiterFound, WaiterTimeout, WaiterReports, netVars
<1>6. FlowNet' /\ IsRing(outputRing, Genuine, OutputDepth)'
  BY <1>3, <1>4, <1>5, CoordQueueGenuine DEF FlowOK, FlowNet
<1>7. FlowHistory'
  <2>1. CASE WaiterLooksInVain(w)
    BY <1>3, <1>4, <2>1 DEF FlowOK, FlowHistory, IdOf, WaiterLooksInVain
  <2>2. CASE WaiterFound(w)
    <3> DEFINE a == AnswerFrom(w.uid, RingFirst(outputRing, IdOf(w.uid)))
    <3>1. a.by \in 1 .. Len(calls) /\ a.uid = w.uid /\ IdOf(a.by) = IdOf(w.uid)
      BY <1>2, <2>2, AnswerOwn DEF WaiterFound, Inv, RingsOK
    <3>2. answers' \subseteq answers \cup {a}
      BY <2>2 DEF WaiterFound, WaiterReports
    <3> HIDE DEF a
    <3> QED  BY <1>2, <1>3, <1>4, <3>1, <3>2, AnswerFlow
  <2>3. CASE WaiterTimeout(w)
    <3> DEFINE a == [uid |-> w.uid, kind |-> "timeout", by |-> w.uid]
    <3>1. a.by = w.uid /\ a.uid = w.uid
      OBVIOUS
    <3>2. answers' \subseteq answers \cup {a}
      BY <2>3 DEF WaiterTimeout, WaiterReports
    <3> HIDE DEF a
    <3> QED  BY <1>2, <1>3, <1>4, <3>1, <3>2, AnswerFlow
  <2> QED  BY <1>1, <2>1, <2>2, <2>3
<1> QED  BY <1>4, <1>6, <1>7 DEF FlowOK

LEMMA FlowInit == Init => FlowOK
<1> SUFFICES ASSUME Init PROVE FlowOK
  OBVIOUS
<1>1. FlowNet
  BY EmptySeq DEF Init, Fresh, FlowNet
<1>2. IsRing(outputRing, Genuine, OutputDepth)
  BY EmptyRingType, CommandAssumption DEF Init, Fresh, CommandAssumption
<1>3. CallersOK
  BY DEF Init, Fresh, CallersOK, InWait, Idle
<1>4. FlowHistory
  BY DEF Init, Fresh, FlowHistory
<1> QED  BY <1>1, <1>2, <1>3, <1>4 DEF FlowOK

LEMMA FlowStep == Inv /\ FlowOK /\ [Next]_vars => FlowOK'
<1> SUFFICES ASSUME Inv, FlowOK, [Next]_vars PROVE FlowOK'
  OBVIOUS
<1>1. ASSUME NEW n \in Node, BoardNext(n) PROVE FlowOK'
  BY <1>1, TurnFlow, QuietTurnFlow, ConnectFlow DEF BoardNext
<1>2. ASSUME NEW n \in Node, Fault(n) PROVE FlowOK'
  BY <1>2, BreakFlow, RebootFlow DEF Fault
<1>3. ASSUME NEW c \in Caller, ToolNext(c) PROVE FlowOK'
  BY <1>3, CallRejectedFlow, CallFlow, LookInVainFlow, PolicyBlockedFlow,
     CommandQueueFullFlow, SendCommandFlow, ResultFoundFlow, ResultTimeoutFlow
  DEF ToolNext, ToolWait
<1>4. CASE UNCHANGED vars
  BY <1>4, LossFlow DEF vars, netVars, histVars, FlowOK, FlowNet
<1> QED  BY <1>1, <1>2, <1>3, <1>4, WaiterNextFlow DEF Next

LEMMA SpecFlow == Spec => []FlowOK
BY SpecInv, FlowInit, FlowStep, PTL DEF Spec

\* A call that was told it failed is never carried out: neither a decision that comes after
\* the tool gave up nor a queue that has room again sends its command after all.
THEOREM FailedStaysUnsent == Spec => []FailedNeverSent
BY SpecInv, SpecFlow, FlowImplies, PTL

\* The result given to a caller belongs to a call with the id it asked about, so that it is
\* its own when no other call used that id.
THEOREM ResultsOwn == Spec => []ResultIsOwn
BY SpecInv, SpecFlow, FlowImplies, PTL

-----------------------------------------------------------------------------
(* CommandGate.                                                            *)
(*                                                                         *)
(* A board carries out a call once because its command is never twice on   *)
(* the way to the same board: not in one queue, not in a queue and in an   *)
(* inbox that queue may still reach, and not in an inbox of a board that   *)
(* has carried it out.                                                     *)

\* No two commands in s are of the same call.
NoRepeat(s) ==
    \A i, j \in DOMAIN s :
       s[i].kind = "command" /\ s[j].kind = "command" /\ s[i].uid = s[j].uid => i = j

\* No command of call u is in s.
Free(u, s) == \A i \in DOMAIN s : s[i].kind = "command" => s[i].uid # u

\* No command in t is of a call that has one in s.
Apart(s, t) == \A i \in DOMAIN s : s[i].kind = "command" => Free(s[i].uid, t)

OnceOK ==
    /\ \A n \in Node : NoRepeat(pubq[n]) /\ NoRepeat(inbox[n])
    /\ \A n, k \in Node : Apart(inbox[k], pubq[n])
    /\ \A n, k \in Node : n # k => Apart(pubq[n], pubq[k])
    /\ \A i \in 1 .. Len(executed) :
          /\ Free(executed[i].uid, inbox[executed[i].board])
          /\ \A n \in Node : Free(executed[i].uid, pubq[n])

\* What holds of the commands of q holds of those of a sequence that adds none.
LEMMA NoNewKeeps ==
    ASSUME NEW q, NEW p, NoNewCommand(q, p)
    PROVE  /\ NoRepeat(q) => NoRepeat(p)
           /\ \A u : Free(u, q) => Free(u, p)
           /\ \A s : Apart(s, q) => Apart(s, p)
           /\ \A s : Apart(q, s) => Apart(p, s)
<1>1. NoRepeat(q) => NoRepeat(p)
  BY DEF NoNewCommand, NoRepeat
<1>2. \A u : Free(u, q) => Free(u, p)
  BY DEF NoNewCommand, Free
<1>3. \A s : Apart(s, q) => Apart(s, p)
  BY <1>2 DEF Apart
<1>4. \A s : Apart(q, s) => Apart(p, s)
  BY DEF NoNewCommand, Apart
<1> QED  BY <1>1, <1>2, <1>3, <1>4

\* Nothing is in the empty sequence.
LEMMA EmptyFree ==
    /\ NoRepeat(<<>>) /\ \A u : Free(u, <<>>)
    /\ \A s : Apart(s, <<>>) /\ Apart(<<>>, s) /\ NoNewCommand(s, <<>>)
BY DEF NoRepeat, Free, Apart, NoNewCommand

\* A prefix adds no command.
LEMMA PrefixNoNew ==
    ASSUME NEW S, NEW s \in Seq(S), NEW i \in 0 .. Len(s)
    PROVE  SubSeq(s, 1, i) \in Seq(S) /\ NoNewCommand(s, SubSeq(s, 1, i))
<1>1. Len(s) \in Nat /\ DOMAIN s = 1 .. Len(s) /\ \A k \in 1 .. i : s[k] \in S
  BY LenProperties, ElementOfSeq
<1>2. /\ SubSeq(s, 1, i) \in Seq(S) /\ Len(SubSeq(s, 1, i)) = i
      /\ \A k \in 1 .. i : SubSeq(s, 1, i)[k] = s[k]
  BY <1>1, SubSeqProperties
<1>3. DOMAIN SubSeq(s, 1, i) = 1 .. i
  BY <1>2, LenProperties
<1> QED  BY <1>1, <1>2, <1>3 DEF NoNewCommand

\* Nor does what a board receives of a queue.
LEMMA ForBoardNoNew ==
    ASSUME NEW S, NEW s \in Seq(S), NEW n \in Node
    PROVE  NoNewCommand(s, ForBoard(n, s))
<1>1. CASE link[n] # "up" \/ Mine(n, s) = {}
  BY <1>1, EmptyFree DEF ForBoard
<1>2. CASE ~(link[n] # "up" \/ Mine(n, s) = {})
  <2> DEFINE mine == Mine(n, s)
             last == CHOOSE i \in mine : \A j \in mine : j <= i
  <2>1. Len(s) \in Nat /\ mine \in SUBSET (0 .. Len(s)) /\ mine # {}
    BY <1>2, LenProperties DEF Mine
  <2>2. \E i \in mine : \A j \in mine : j <= i
    <3> HIDE DEF mine
    <3> QED  BY <2>1, GreatestElement
  <2>3. last \in 0 .. Len(s)
    BY <2>1, <2>2
  <2>4. NoNewCommand(s, SubSeq(s, 1, last))
    <3> HIDE DEF last
    <3> QED  BY <2>3, PrefixNoNew
  <2> QED  BY <1>2, <2>4 DEF ForBoard
<1> QED  BY <1>1, <1>2

\* The commands of a concatenation.
LEMMA ConcatFree ==
    ASSUME NEW S, NEW s \in Seq(S), NEW t \in Seq(S)
    PROVE  /\ \A u : Free(u, s) /\ Free(u, t) => Free(u, s \o t)
           /\ \A r : Apart(s, r) /\ Apart(t, r) => Apart(s \o t, r)
           /\ NoRepeat(s) /\ NoRepeat(t) /\ Apart(s, t) => NoRepeat(s \o t)
<1>1. /\ Len(s) \in Nat /\ Len(t) \in Nat
      /\ DOMAIN s = 1 .. Len(s) /\ DOMAIN t = 1 .. Len(t)
      /\ DOMAIN (s \o t) = 1 .. Len(s) + Len(t)
      /\ \A i \in 1 .. Len(s) + Len(t) :
            (s \o t)[i] = IF i <= Len(s) THEN s[i] ELSE t[i - Len(s)]
  BY LenProperties, ConcatProperties
<1> DEFINE st == s \o t
<1>2. \A i \in DOMAIN st : \/ i \in DOMAIN s /\ st[i] = s[i]
                           \/ i - Len(s) \in DOMAIN t /\ st[i] = t[i - Len(s)]
  BY <1>1
<1> HIDE DEF st
<1>3. \A u : Free(u, s) /\ Free(u, t) => Free(u, st)
  BY <1>2 DEF Free
<1>4. \A r : Apart(s, r) /\ Apart(t, r) => Apart(st, r)
  BY <1>2 DEF Apart
<1>5. ASSUME NoRepeat(s), NoRepeat(t), Apart(s, t)
      PROVE  NoRepeat(st)
  <2>1. ASSUME NEW i \in DOMAIN st, NEW j \in DOMAIN st, st[i].kind = "command",
               st[j].kind = "command", st[i].uid = st[j].uid
        PROVE  i = j
    <3>1. i \in Int /\ j \in Int
      BY <1>1 DEF st
    <3>2. CASE i \in DOMAIN s /\ st[i] = s[i] /\ j \in DOMAIN s /\ st[j] = s[j]
      BY <1>5, <2>1, <3>2 DEF NoRepeat
    <3>3. CASE /\ i - Len(s) \in DOMAIN t /\ st[i] = t[i - Len(s)]
               /\ j - Len(s) \in DOMAIN t /\ st[j] = t[j - Len(s)]
      <4>1. i - Len(s) = j - Len(s)
        BY <1>5, <2>1, <3>3 DEF NoRepeat
      <4> QED  BY <1>1, <3>1, <4>1
    <3>4. CASE i \in DOMAIN s /\ st[i] = s[i] /\ j - Len(s) \in DOMAIN t /\ st[j] = t[j - Len(s)]
      BY <1>5, <2>1, <3>4 DEF Apart, Free
    <3>5. CASE j \in DOMAIN s /\ st[j] = s[j] /\ i - Len(s) \in DOMAIN t /\ st[i] = t[i - Len(s)]
      BY <1>5, <2>1, <3>5 DEF Apart, Free
    <3> QED  BY <1>2, <3>2, <3>3, <3>4, <3>5
  <2> QED  BY <2>1 DEF NoRepeat
<1> QED  BY <1>3, <1>4, <1>5 DEF st

\* What is left to read after packet i: its command, for one, is gone.
LEMMA RestFree ==
    ASSUME NEW S, NEW s \in Seq(S), NEW i \in 1 .. Len(s)
    PROVE  LET rest == SubSeq(s, i + 1, Len(s))
           IN  /\ rest \in Seq(S)
               /\ NoRepeat(s) => NoRepeat(rest)
               /\ NoRepeat(s) /\ s[i].kind = "command" => Free(s[i].uid, rest)
               /\ \A u : Free(u, s) => Free(u, rest)
               /\ \A t : Apart(s, t) => Apart(rest, t)
<1> DEFINE rest == SubSeq(s, i + 1, Len(s))
<1>1. Len(s) \in Nat /\ DOMAIN s = 1 .. Len(s) /\ \A k \in i + 1 .. Len(s) : s[k] \in S
  BY LenProperties, ElementOfSeq
<1>2. /\ rest \in Seq(S) /\ Len(rest) = Len(s) - i
      /\ \A k \in 1 .. Len(s) - i : rest[k] = s[k + i]
  <2>1. /\ rest \in Seq(S)
        /\ Len(rest) = IF i + 1 <= Len(s) THEN Len(s) - (i + 1) + 1 ELSE 0
        /\ \A k \in 1 .. Len(s) - (i + 1) + 1 : rest[k] = s[(i + 1) + k - 1]
    BY <1>1, SubSeqProperties
  <2>2. Len(s) - (i + 1) + 1 = Len(s) - i
    BY <1>1
  <2>3. ASSUME NEW k \in 1 .. Len(s) - i PROVE rest[k] = s[k + i]
    <3>1. (i + 1) + k - 1 = k + i
      OBVIOUS
    <3> QED  BY <2>1, <2>2, <3>1
  <2>4. Len(rest) = Len(s) - i
    <3>1. Len(rest) = IF i + 1 <= Len(s) THEN Len(s) - (i + 1) + 1 ELSE 0
      BY <2>1
    <3> HIDE DEF rest
    <3>2. i \in Int /\ Len(s) \in Int /\ i <= Len(s)
      BY <1>1
    <3>3. CASE i + 1 <= Len(s)
      BY <3>1, <3>2, <3>3
    <3>4. CASE ~(i + 1 <= Len(s))
      BY <3>1, <3>2, <3>4
    <3> QED  BY <3>3, <3>4
  <2> QED  BY <2>1, <2>3, <2>4
<1>3. DOMAIN rest = 1 .. Len(s) - i
  BY <1>2, LenProperties
<1> HIDE DEF rest
<1>4. \A k \in DOMAIN rest : k \in Int /\ k + i \in DOMAIN s /\ k + i # i /\ rest[k] = s[k + i]
  BY <1>1, <1>2, <1>3
<1>5. ASSUME NoRepeat(s) PROVE NoRepeat(rest)
  <2>1. ASSUME NEW k \in DOMAIN rest, NEW j \in DOMAIN rest, rest[k].kind = "command",
               rest[j].kind = "command", rest[k].uid = rest[j].uid
        PROVE  k = j
    <3>1. k + i = j + i
      BY <1>4, <1>5, <2>1 DEF NoRepeat
    <3> QED  BY <1>4, <3>1
  <2> QED  BY <2>1 DEF NoRepeat
<1>6. NoRepeat(s) /\ s[i].kind = "command" => Free(s[i].uid, rest)
  BY <1>1, <1>4 DEF NoRepeat, Free
<1>7. \A u : Free(u, s) => Free(u, rest)
  BY <1>4 DEF Free
<1>8. \A t : Apart(s, t) => Apart(rest, t)
  BY <1>4 DEF Apart
<1> QED  BY <1>2, <1>5, <1>6, <1>7, <1>8 DEF rest

\* r is s followed by t.
Joined(r, s, t) == r = s \o t

\* What an inbox holds after board n drained q: nothing, or what was unread and a part of q.
LEMMA DrainReaches ==
    ASSUME NEW S, inbox \in [Node -> Seq(S)], NEW n \in Node, NEW unread \in Seq(S),
           NEW q \in Seq(S), Drain(n, unread, q), NEW k \in Node,
           NEW base, base = IF k = n THEN unread ELSE inbox[k]
    PROVE  \/ inbox'[k] = <<>>
           \/ \E p \in Seq(S) : NoNewCommand(q, p) /\ Joined(inbox'[k], base, p)
<1>1. base \in Seq(S) /\ <<>> \in Seq(S) /\ NoNewCommand(q, <<>>) /\ base \o <<>> = base
  BY EmptySeq, EmptyFree, ConcatEmptySeq
<1>2. ASSUME NEW s \in Seq(S), NoNewCommand(q, s), inbox' = Deliver(n, unread, s)
      PROVE  \E p \in Seq(S) : NoNewCommand(q, p) /\ Joined(inbox'[k], base, p)
  <2>1. ForBoard(k, s) \in Seq(S) /\ NoNewCommand(s, ForBoard(k, s))
    BY ForBoardType, ForBoardNoNew
  <2>2. NoNewCommand(q, ForBoard(k, s))
    BY <1>2, <2>1 DEF NoNewCommand
  <2>3. Joined(inbox'[k], base, ForBoard(k, s))
    BY <1>2 DEF Deliver, Joined
  <2> QED  BY <2>1, <2>2, <2>3
<1>3. CASE DrainUp(n, unread, q)
  <2>1. NoNewCommand(q, q)
    BY DEF NoNewCommand
  <2> QED  BY <1>2, <1>3, <2>1 DEF DrainUp
<1>4. CASE DrainCut(n, unread, q)
  <2>1. PICK i \in 0 .. Len(q) : inbox' = Deliver(n, unread, SubSeq(q, 1, i))
    BY <1>4 DEF DrainCut
  <2>2. SubSeq(q, 1, i) \in Seq(S) /\ NoNewCommand(q, SubSeq(q, 1, i))
    BY PrefixNoNew
  <2> QED  BY <1>2, <2>1, <2>2
<1>5. CASE DrainDead(n, unread)
  <2>1. inbox'[k] = base \/ inbox'[k] = <<>>
    BY <1>5 DEF DrainDead
  <2>2. Joined(base, base, <<>>)
    BY <1>1 DEF Joined
  <2> QED  BY <1>1, <2>1, <2>2
<1> QED  BY <1>3, <1>4, <1>5 DEF Drain

\* A drained queue reaches inboxes in which no command of its own was, and is empty then.
LEMMA DrainOnce ==
    ASSUME NEW S, pubq \in [Node -> Seq(S)], inbox \in [Node -> Seq(S)], OnceOK,
           NEW n \in Node, NEW q \in Seq(S), NoNewCommand(pubq[n], q),
           NEW unread \in Seq(S), NoRepeat(unread),
           \A u : Free(u, inbox[n]) => Free(u, unread),
           \A t : Apart(inbox[n], t) => Apart(unread, t),
           Drain(n, unread, q)
    PROVE  /\ \A k \in Node : NoRepeat(pubq'[k]) /\ NoRepeat(inbox'[k])
           /\ \A j, k \in Node : Apart(inbox'[k], pubq'[j])
           /\ \A j, k \in Node : j # k => Apart(pubq'[j], pubq'[k])
           /\ \A k \in Node : \A u : Free(u, pubq[k]) => Free(u, pubq'[k])
           /\ \A k \in Node : \A u :
                 Free(u, pubq[n]) /\ Free(u, IF k = n THEN unread ELSE inbox[k])
                   => Free(u, inbox'[k])
<1>1. /\ pubq'[n] = <<>> /\ \A k \in Node : k # n => pubq'[k] = pubq[k]
  BY DEF Drain
<1>2. ASSUME NEW k \in Node
      PROVE  /\ NoRepeat(inbox'[k])
             /\ \A j \in Node : Apart(inbox'[k], pubq'[j])
             /\ \A u : Free(u, pubq[n]) /\ Free(u, IF k = n THEN unread ELSE inbox[k])
                         => Free(u, inbox'[k])
  <2> DEFINE base == IF k = n THEN unread ELSE inbox[k]
  <2>1. CASE inbox'[k] = <<>>
    BY <2>1, EmptyFree
  <2>2. CASE \E p \in Seq(S) : NoNewCommand(q, p) /\ Joined(inbox'[k], base, p)
    <3>1. PICK p \in Seq(S) : NoNewCommand(q, p) /\ Joined(inbox'[k], base, p)
      BY <2>2
    <3>2. inbox'[k] = base \o p
      BY <3>1 DEF Joined
    <3>3. NoNewCommand(pubq[n], p)
      BY <3>1 DEF NoNewCommand
    <3>4. base \in Seq(S) /\ NoRepeat(base) /\ \A j \in Node : Apart(base, pubq[j])
      BY DEF OnceOK
    <3>5. NoRepeat(p) /\ Apart(base, p) /\ \A u : Free(u, pubq[n]) => Free(u, p)
      <4>1. NoRepeat(pubq[n]) /\ Apart(base, pubq[n])
        BY <3>4 DEF OnceOK
      <4> HIDE DEF base
      <4> QED  BY <3>3, <4>1, NoNewKeeps
    <3>6. ASSUME NEW j \in Node PROVE Apart(base, pubq'[j]) /\ Apart(p, pubq'[j])
      <4>1. CASE j = n
        BY <1>1, <4>1, EmptyFree
      <4>2. CASE j # n
        <5>1. Apart(pubq[n], pubq[j]) /\ pubq'[j] = pubq[j]
          BY <1>1, <4>2 DEF OnceOK
        <5>2. Apart(p, pubq[j])
          BY <3>3, <5>1, NoNewKeeps
        <5> QED  BY <3>4, <5>1, <5>2
      <4> QED  BY <4>1, <4>2
    <3> HIDE DEF base
    <3>7. NoRepeat(inbox'[k])
      BY <3>2, <3>4, <3>5, ConcatFree
    <3>8. \A j \in Node : Apart(inbox'[k], pubq'[j])
      BY <3>2, <3>4, <3>6, ConcatFree
    <3>9. \A u : Free(u, pubq[n]) /\ Free(u, base) => Free(u, inbox'[k])
      BY <3>2, <3>4, <3>5, ConcatFree
    <3> QED  BY <3>7, <3>8, <3>9 DEF base
  <2>3. \/ inbox'[k] = <<>>
        \/ \E p \in Seq(S) : NoNewCommand(q, p) /\ Joined(inbox'[k], base, p)
    <3>1. base = IF k = n THEN unread ELSE inbox[k]
      OBVIOUS
    <3> HIDE DEF base
    <3> QED  BY <3>1, DrainReaches
  <2> QED  BY <2>1, <2>2, <2>3
<1>3. \A k \in Node : NoRepeat(pubq'[k])
  BY <1>1, EmptyFree DEF OnceOK
<1>4. \A j, k \in Node : j # k => Apart(pubq'[j], pubq'[k])
  <2>1. ASSUME NEW j \in Node, NEW k \in Node, j # k PROVE Apart(pubq'[j], pubq'[k])
    <3>1. CASE j = n \/ k = n
      BY <1>1, <3>1, EmptyFree
    <3>2. CASE j # n /\ k # n
      BY <1>1, <2>1, <3>2 DEF OnceOK
    <3> QED  BY <3>1, <3>2
  <2> QED  BY <2>1
<1>5. \A k \in Node : \A u : Free(u, pubq[k]) => Free(u, pubq'[k])
  BY <1>1, EmptyFree
<1> QED  BY <1>2, <1>3, <1>4, <1>5

\* A turn: what is carried out is gone from the inbox, and was in no queue.
LEMMA TurnOnce ==
    ASSUME Inv, FlowOK, OnceOK, NEW n \in Node, Turn(n)
    PROVE  OnceOK'
<1>1. PICK i \in 1 .. Len(inbox[n]) :
         Did(n, inbox[n][i], SubSeq(inbox[n], i + 1, Len(inbox[n])))
  BY TurnDid
<1> DEFINE m == inbox[n][i]
           unread == SubSeq(inbox[n], i + 1, Len(inbox[n]))
<1>2. /\ pubq \in [Node -> Seq(Genuine)] /\ inbox \in [Node -> Seq(Genuine)]
      /\ inbox[n] \in Seq(Genuine) /\ DOMAIN inbox[n] = 1 .. Len(inbox[n])
  BY LenProperties DEF FlowOK, FlowNet
<1>3. /\ unread \in Seq(Genuine) /\ NoRepeat(unread)
      /\ m.kind = "command" => Free(m.uid, unread)
      /\ \A u : Free(u, inbox[n]) => Free(u, unread)
      /\ \A t : Apart(inbox[n], t) => Apart(unread, t)
  <2>1. NoRepeat(inbox[n])
    BY DEF OnceOK
  <2> QED  BY <1>2, <2>1, RestFree
<1>4. m.kind = "command" => \A k \in Node : Free(m.uid, pubq[k])
  BY <1>2 DEF OnceOK, Apart
<1> HIDE DEF m, unread
<1>5. PICK q \in Seq(Genuine) : NoNewCommand(pubq[n], q) /\ Drain(n, unread, q)
  BY <1>1 DEF Did, m, unread
<1>6. /\ \A k \in Node : NoRepeat(pubq'[k]) /\ NoRepeat(inbox'[k])
      /\ \A j, k \in Node : Apart(inbox'[k], pubq'[j])
      /\ \A j, k \in Node : j # k => Apart(pubq'[j], pubq'[k])
      /\ \A k \in Node : \A u : Free(u, pubq[k]) => Free(u, pubq'[k])
      /\ \A k \in Node : \A u :
            Free(u, pubq[n]) /\ Free(u, IF k = n THEN unread ELSE inbox[k])
              => Free(u, inbox'[k])
  BY <1>2, <1>3, <1>5, DrainOnce
<1>7. ASSUME NEW e \in Execution,
             Free(e.uid, inbox[e.board]) \/ (e.board = n /\ Free(e.uid, unread)),
             \A k \in Node : Free(e.uid, pubq[k])
      PROVE  Free(e.uid, inbox'[e.board]) /\ \A k \in Node : Free(e.uid, pubq'[k])
  <2>1. e.board \in Node
    BY DEF Execution
  <2>2. Free(e.uid, IF e.board = n THEN unread ELSE inbox[e.board])
    BY <1>3, <1>7
  <2> QED  BY <1>6, <1>7, <2>1, <2>2
<1>8. \A l \in 1 .. Len(executed) : executed[l] \in Execution
  BY ElementOfSeq DEF Inv, GateOK
<1>9. \A l \in 1 .. Len(executed') :
          /\ Free(executed'[l].uid, inbox'[executed'[l].board])
          /\ \A k \in Node : Free(executed'[l].uid, pubq'[k])
  <2>1. CASE executed' = executed
    BY <1>7, <1>8, <2>1 DEF OnceOK
  <2>2. CASE m.kind = "command" /\ Executes(n, m)
    <3> DEFINE e == [board |-> n, id |-> m.id, action |-> m.action,
                     safety |-> m.safety, uid |-> m.uid]
    <3>1. m \in Genuine
      BY <1>2, ElementOfSeq DEF m
    <3>2. m \in Command
      BY <2>2, <3>1 DEF Genuine, Message, Check, Decision, Command, Output, Event, Note
    <3>3. e \in Execution /\ e.uid = m.uid /\ e.board = n
      BY <3>2 DEF Execution, Command
    <3>4. executed \in Seq(Execution) /\ executed' = Append(executed, e)
      BY <2>2 DEF Inv, GateOK, Executes
    <3> HIDE DEF e
    <3>5. \A l \in 1 .. Len(executed') :
             \/ l \in 1 .. Len(executed) /\ executed'[l] = executed[l]
             \/ executed'[l] = e
      BY <3>3, <3>4, AppendProperties, LenProperties
    <3>6. Free(e.uid, inbox'[e.board]) /\ \A k \in Node : Free(e.uid, pubq'[k])
      BY <1>3, <1>4, <1>7, <2>2, <3>3
    <3> QED  BY <1>7, <1>8, <3>5, <3>6 DEF OnceOK
  <2> QED  BY <1>1, <2>1, <2>2 DEF Did, histVars, m
<1> QED  BY <1>6, <1>9 DEF OnceOK

LEMMA QuietTurnOnce ==
    ASSUME Inv, FlowOK, OnceOK, NEW n \in Node, QuietTurn(n)
    PROVE  OnceOK'
<1>1. PICK q \in Seq(Genuine) : NoNewCommand(pubq[n], q) /\ Drain(n, <<>>, q)
  BY QuietDid DEF Did
<1>2. /\ pubq \in [Node -> Seq(Genuine)] /\ inbox \in [Node -> Seq(Genuine)]
      /\ <<>> \in Seq(Genuine)
  BY EmptySeq DEF FlowOK, FlowNet
<1>3. /\ \A k \in Node : NoRepeat(pubq'[k]) /\ NoRepeat(inbox'[k])
      /\ \A j, k \in Node : Apart(inbox'[k], pubq'[j])
      /\ \A j, k \in Node : j # k => Apart(pubq'[j], pubq'[k])
      /\ \A k \in Node : \A u : Free(u, pubq[k]) => Free(u, pubq'[k])
      /\ \A k \in Node : \A u :
            Free(u, pubq[n]) /\ Free(u, IF k = n THEN <<>> ELSE inbox[k])
              => Free(u, inbox'[k])
  BY <1>1, <1>2, EmptyFree, DrainOnce
<1>4. \A l \in 1 .. Len(executed) : executed[l].board \in Node
  <2>1. \A l \in 1 .. Len(executed) : executed[l] \in Execution
    BY ElementOfSeq DEF Inv, GateOK
  <2> QED  BY <2>1 DEF Execution
<1>5. ASSUME NEW l \in 1 .. Len(executed)
      PROVE  /\ Free(executed[l].uid, inbox'[executed[l].board])
             /\ \A k \in Node : Free(executed[l].uid, pubq'[k])
  <2>1. /\ Free(executed[l].uid, inbox[executed[l].board])
        /\ \A k \in Node : Free(executed[l].uid, pubq[k])
    BY DEF OnceOK
  <2>2. Free(executed[l].uid, IF executed[l].board = n THEN <<>> ELSE inbox[executed[l].board])
    BY <2>1, EmptyFree
  <2> QED  BY <1>3, <1>4, <2>1, <2>2
<1>6. executed' = executed
  BY DEF QuietTurn, histVars
<1> QED  BY <1>3, <1>5, <1>6 DEF OnceOK

\* Steps after which no queue and no inbox holds a command it did not hold before.
LEMMA KeptOnce ==
    ASSUME OnceOK, UNCHANGED executed, \A l \in 1 .. Len(executed) : executed[l].board \in Node,
           \A n \in Node : NoNewCommand(pubq[n], pubq'[n]) /\ NoNewCommand(inbox[n], inbox'[n])
    PROVE  OnceOK'
<1>1. \A n \in Node : NoRepeat(pubq'[n]) /\ NoRepeat(inbox'[n])
  BY NoNewKeeps DEF OnceOK
<1>2. ASSUME NEW n \in Node, NEW k \in Node PROVE Apart(inbox'[k], pubq'[n])
  <2>1. Apart(inbox[k], pubq'[n])
    BY NoNewKeeps DEF OnceOK
  <2> QED  BY <2>1, NoNewKeeps
<1>3. ASSUME NEW n \in Node, NEW k \in Node, n # k PROVE Apart(pubq'[n], pubq'[k])
  <2>1. Apart(pubq[n], pubq'[k])
    BY <1>3, NoNewKeeps DEF OnceOK
  <2> QED  BY <2>1, NoNewKeeps
<1>4. ASSUME NEW l \in 1 .. Len(executed)
      PROVE  /\ Free(executed[l].uid, inbox'[executed[l].board])
             /\ \A n \in Node : Free(executed[l].uid, pubq'[n])
  BY NoNewKeeps DEF OnceOK
<1> QED  BY <1>1, <1>2, <1>3, <1>4 DEF OnceOK

\* The board of an execution is a board.
LEMMA BoardsKnown ==
    ASSUME Inv
    PROVE  \A l \in 1 .. Len(executed) : executed[l].board \in Node
<1>1. \A l \in 1 .. Len(executed) : executed[l] \in Execution
  BY ElementOfSeq DEF Inv, GateOK
<1> QED  BY <1>1 DEF Execution

LEMMA ConnectOnce ==
    ASSUME Inv, OnceOK, NEW n \in Node, Connect(n)
    PROVE  OnceOK'
BY KeptOnce, BoardsKnown DEF Connect, NoNewCommand, histVars

LEMMA BreakOnce ==
    ASSUME Inv, FlowOK, OnceOK, NEW n \in Node, Break(n)
    PROVE  OnceOK'
<1>1. PICK k \in {0} \cup Mine(n, inbox[n]) :
         inbox' = [inbox EXCEPT ![n] = SubSeq(inbox[n], 1, k)]
  BY DEF Break
<1>2. inbox[n] \in Seq(Genuine) /\ Len(inbox[n]) \in Nat /\ k \in 0 .. Len(inbox[n])
  BY LenProperties DEF FlowOK, FlowNet, Mine
<1>3. NoNewCommand(inbox[n], SubSeq(inbox[n], 1, k))
  BY <1>2, PrefixNoNew
<1>4. \A j \in Node : NoNewCommand(inbox[j], inbox'[j])
  <2>1. \A j \in Node : inbox'[j] = IF j = n THEN SubSeq(inbox[n], 1, k) ELSE inbox[j]
    BY <1>1 DEF FlowOK, FlowNet
  <2> QED  BY <1>3, <2>1 DEF NoNewCommand
<1>5. \A j \in Node : NoNewCommand(pubq[j], pubq'[j])
  BY DEF Break, NoNewCommand
<1> QED  BY <1>4, <1>5, KeptOnce, BoardsKnown DEF Break, histVars

LEMMA RebootOnce ==
    ASSUME Inv, FlowOK, OnceOK, NEW n \in Node, Reboot(n)
    PROVE  OnceOK'
<1>1. \A j \in Node : /\ pubq'[j] = <<>> \/ pubq'[j] = pubq[j]
                      /\ inbox'[j] = <<>> \/ inbox'[j] = inbox[j]
  BY DEF Reboot, FlowOK, FlowNet
<1>2. \A j \in Node : NoNewCommand(pubq[j], pubq'[j]) /\ NoNewCommand(inbox[j], inbox'[j])
  BY <1>1, EmptyFree DEF NoNewCommand
<1> QED  BY <1>2, KeptOnce, BoardsKnown DEF Reboot, histVars

\* The coordinator's queue gets something that is no command.
LEMMA CoordPushOnce ==
    ASSUME Inv, OnceOK, NEW q, NoNewCommand(pubq[Coord], q),
           pubq' = [pubq EXCEPT ![Coord] = q], UNCHANGED <<executed, inbox>>
    PROVE  OnceOK'
<1>1. \A n \in Node : pubq'[n] = IF n = Coord THEN q ELSE pubq[n]
  BY DEF Inv, NetOK
<1>2. \A n \in Node : NoNewCommand(pubq[n], pubq'[n]) /\ NoNewCommand(inbox[n], inbox'[n])
  BY <1>1 DEF NoNewCommand
<1> QED  BY <1>2, KeptOnce, BoardsKnown

\* A timeline event is no command.
LEMMA NotesNoCommand ==
    ASSUME NEW q \in Seq(Genuine), Len(q) <= PubDepth
    PROVE  /\ NoNewCommand(q, PushAll(q, TimelineNote))
           /\ PushAll(q, TimelineNote) \in Seq(Genuine) /\ Len(PushAll(q, TimelineNote)) <= PubDepth
BY NotesGenuine, PushAddsNoCommand, PushAllType

LEMMA CallOnce ==
    ASSUME Inv, FlowOK, OnceOK, NEW c \in Caller, Call(c)
    PROVE  OnceOK'
<1>1. pubq[Coord] \in Seq(Genuine) /\ Len(pubq[Coord]) <= PubDepth
  BY QueueGenuine, CommandAssumption DEF CommandAssumption
<1>2. UNCHANGED <<executed, inbox>>
  BY DEF Call, histVars
<1>3. PICK r \in CallSet :
         \/ pubq' = [pubq EXCEPT ![Coord] = Append(@, CheckFor(r, Len(calls) + 1))]
         \/ pubq' = [pubq EXCEPT ![Coord] = PushAll(@, TimelineNote)]
  BY DEF Call
<1>4. NoNewCommand(pubq[Coord], Append(pubq[Coord], CheckFor(r, Len(calls) + 1)))
  <2> DEFINE m == CheckFor(r, Len(calls) + 1)
             q == pubq[Coord]
  <2>1. m.kind = "check"
    BY DEF CheckFor
  <2> HIDE DEF m
  <2>2. q \in Seq(Genuine \cup {m}) /\ m \in Genuine \cup {m}
    BY <1>1, SeqMonotonic
  <2> HIDE DEF q
  <2>3. /\ Len(q) \in Nat /\ DOMAIN q = 1 .. Len(q) /\ DOMAIN Append(q, m) = 1 .. Len(q) + 1
        /\ \A i \in 1 .. Len(q) : Append(q, m)[i] = q[i]
        /\ Append(q, m)[Len(q) + 1] = m
    BY <2>2, AppendProperties, LenProperties
  <2>4. NoNewCommand(q, Append(q, m))
    BY <2>1, <2>3 DEF NoNewCommand
  <2> QED  BY <2>4 DEF m, q
<1> QED  BY <1>1, <1>2, <1>3, <1>4, CoordPushOnce, NotesNoCommand

\* Steps of the tool that queue at most a timeline event.
LEMMA NotesOnce ==
    ASSUME Inv, FlowOK, OnceOK, UNCHANGED <<executed, inbox>>,
           \/ pubq' = pubq
           \/ pubq' = [pubq EXCEPT ![Coord] = PushAll(pubq[Coord], TimelineNote)]
           \/ pubq' = [pubq EXCEPT ![Coord] = PushAll(AfterApproval, TimelineNote)]
    PROVE  OnceOK'
<1>1. pubq[Coord] \in Seq(Genuine) /\ Len(pubq[Coord]) <= PubDepth
  BY QueueGenuine, CommandAssumption DEF CommandAssumption
<1>2. /\ NoNewCommand(pubq[Coord], AfterApproval)
      /\ AfterApproval \in Seq(Genuine) /\ Len(AfterApproval) <= PubDepth
  BY <1>1, NotesNoCommand DEF AfterApproval
<1>3. NoNewCommand(AfterApproval, PushAll(AfterApproval, TimelineNote))
  BY <1>2, NotesNoCommand
<1>4. NoNewCommand(pubq[Coord], PushAll(AfterApproval, TimelineNote))
  BY <1>2, <1>3 DEF NoNewCommand
<1>5. CASE pubq' = pubq
  BY <1>5, KeptOnce, BoardsKnown DEF NoNewCommand
<1> QED  BY <1>1, <1>4, <1>5, CoordPushOnce, NotesNoCommand

\* One command of a call that had none in q.
LEMMA OneCommand ==
    ASSUME NEW S, NEW q \in Seq(S), NEW m \in S, Free(m.uid, q)
    PROVE  /\ NoRepeat(q) => NoRepeat(Append(q, m))
           /\ \A v : v # m.uid /\ Free(v, q) => Free(v, Append(q, m))
           /\ \A t : Apart(q, t) /\ Free(m.uid, t) => Apart(Append(q, m), t)
<1>1. /\ Len(q) \in Nat /\ DOMAIN q = 1 .. Len(q) /\ DOMAIN Append(q, m) = 1 .. Len(q) + 1
      /\ \A i \in 1 .. Len(q) : Append(q, m)[i] = q[i]
      /\ Append(q, m)[Len(q) + 1] = m
  BY AppendProperties, LenProperties
<1> DEFINE qm == Append(q, m)
<1>2. \A i \in DOMAIN qm : \/ i \in DOMAIN q /\ qm[i] = q[i]
                           \/ i = Len(q) + 1 /\ qm[i] = m
  BY <1>1
<1> HIDE DEF qm
<1>3. NoRepeat(q) => NoRepeat(qm)
  BY <1>2 DEF NoRepeat, Free
<1>4. \A v : v # m.uid /\ Free(v, q) => Free(v, qm)
  BY <1>2 DEF Free
<1>5. \A t : Apart(q, t) /\ Free(m.uid, t) => Apart(qm, t)
  BY <1>2 DEF Apart
<1> QED  BY <1>3, <1>4, <1>5 DEF qm

\* The command that is queued is the first of its call.
LEMMA SendCommandOnce ==
    ASSUME Inv, FlowOK, OnceOK, NEW c \in Caller, SendCommand(c)
    PROVE  OnceOK'
<1> DEFINE uid == tool[c].uid
           m == CommandFor(calls[uid], uid)
           old == pubq[Coord]
           sent == Append(AfterApproval, m)
           new == PushAll(sent, TimelineNote)
<1>1. /\ pubq' = [pubq EXCEPT ![Coord] = new] /\ UNCHANGED <<executed, inbox>>
      /\ InWait(c, "policy") /\ Room(AfterApproval) > 0
  BY DEF SendCommand, histVars
<1>2. NotSent(uid)
  BY <1>1 DEF NotSent
<1>3. ASSUME NEW s \in Seq(Genuine) PROVE Free(uid, s)
  <2>1. \A i \in DOMAIN s : s[i] \in Genuine
    BY ElementOfSeq, LenProperties
  <2> QED  BY <1>2, <2>1 DEF Free, Genuine
<1>4. \A n \in Node : Free(uid, pubq[n]) /\ Free(uid, inbox[n])
  BY <1>3 DEF FlowOK, FlowNet
<1>5. \A l \in 1 .. Len(executed) : executed[l].uid # uid
  BY <1>2 DEF FlowOK, FlowHistory
<1>6. m.uid = uid
  BY DEF CommandFor
<1>7. /\ old \in Seq(Genuine) /\ Len(old) <= PubDepth /\ Coord \in Node
      /\ NoNewCommand(old, AfterApproval)
      /\ AfterApproval \in Seq(Genuine) /\ Len(AfterApproval) <= PubDepth
  BY QueueGenuine, NotesNoCommand, CommandAssumption DEF AfterApproval, CommandAssumption
<1> HIDE DEF m, uid
<1>8. /\ NoRepeat(AfterApproval) /\ \A v : Free(v, old) => Free(v, AfterApproval)
      /\ \A t : Apart(old, t) => Apart(AfterApproval, t)
  BY <1>7, NoNewKeeps DEF OnceOK
<1>9. /\ NoRepeat(sent)
      /\ \A v : v # uid /\ Free(v, old) => Free(v, sent)
      /\ \A t : Apart(old, t) /\ Free(uid, t) => Apart(sent, t)
  <2>1. AfterApproval \in Seq(Genuine \cup {m}) /\ m \in Genuine \cup {m}
    BY <1>7, SeqMonotonic
  <2>2. Free(m.uid, AfterApproval)
    BY <1>4, <1>6, <1>7, <1>8
  <2> QED  BY <1>6, <1>8, <2>1, <2>2, OneCommand
<1>10. NoNewCommand(sent, new)
  <2> DEFINE S == Genuine \cup {m}
  <2>1. AfterApproval \in Seq(S) /\ m \in S /\ TimelineNote \in Seq(S)
    BY <1>7, NotesGenuine, SeqMonotonic
  <2> HIDE DEF S
  <2>2. sent \in Seq(S) /\ Len(sent) <= PubDepth
    BY <1>1, <2>1, AppendProperties, LenProperties, CommandAssumption
    DEF Room, CommandAssumption
  <2> QED  BY <2>1, <2>2, NotesGenuine, PushAddsNoCommand
<1> HIDE DEF sent
<1>11. /\ NoRepeat(new)
       /\ \A v : v # uid /\ Free(v, old) => Free(v, new)
       /\ \A t : Apart(old, t) /\ Free(uid, t) => Apart(new, t)
  BY <1>9, <1>10, NoNewKeeps
<1>12. \A n \in Node : pubq'[n] = IF n = Coord THEN new ELSE pubq[n]
  BY <1>1 DEF Inv, NetOK
<1> HIDE DEF new
<1>13. ASSUME NEW s, Apart(s, old), Free(uid, s) PROVE Apart(s, new)
  BY <1>11, <1>13 DEF Apart, Free
<1>14. \A n \in Node : NoRepeat(pubq'[n]) /\ NoRepeat(inbox'[n])
  BY <1>1, <1>11, <1>12 DEF OnceOK
<1>15. \A n, k \in Node : Apart(inbox'[k], pubq'[n])
  BY <1>1, <1>4, <1>7, <1>12, <1>13 DEF OnceOK
<1>16. \A n, k \in Node : n # k => Apart(pubq'[n], pubq'[k])
  BY <1>4, <1>7, <1>11, <1>12, <1>13 DEF OnceOK
<1>17. ASSUME NEW l \in 1 .. Len(executed)
       PROVE  /\ Free(executed[l].uid, inbox'[executed[l].board])
              /\ \A n \in Node : Free(executed[l].uid, pubq'[n])
  BY <1>1, <1>5, <1>7, <1>11, <1>12 DEF OnceOK
<1> QED  BY <1>1, <1>14, <1>15, <1>16, <1>17 DEF OnceOK

LEMMA OnceInit == Init => OnceOK
<1> SUFFICES ASSUME Init PROVE OnceOK
  OBVIOUS
<1>1. \A n \in Node : pubq[n] = <<>> /\ inbox[n] = <<>>
  BY DEF Init, Fresh
<1>2. executed = <<>>
  BY DEF Init, Fresh
<1> QED  BY <1>1, <1>2, EmptyFree DEF OnceOK

LEMMA OnceStep == Inv /\ FlowOK /\ OnceOK /\ [Next]_vars => OnceOK'
<1> SUFFICES ASSUME Inv, FlowOK, OnceOK, [Next]_vars PROVE OnceOK'
  OBVIOUS
<1>1. ASSUME NEW n \in Node, BoardNext(n) PROVE OnceOK'
  BY <1>1, TurnOnce, QuietTurnOnce, ConnectOnce DEF BoardNext
<1>2. ASSUME NEW n \in Node, Fault(n) PROVE OnceOK'
  BY <1>2, BreakOnce, RebootOnce DEF Fault
<1>3. ASSUME NEW c \in Caller, ToolNext(c) PROVE OnceOK'
  <2>1. CASE CallRejected(c) \/ LookInVain(c) \/ ResultFound(c) \/ ResultTimeout(c)
    BY <2>1, NotesOnce
    DEF CallRejected, LookInVain, ResultFound, ResultTimeout, netVars, histVars
  <2>2. CASE PolicyBlocked(c) \/ CommandQueueFull(c)
    BY <2>2, NotesOnce DEF PolicyBlocked, CommandQueueFull, histVars
  <2> QED  BY <1>3, <2>1, <2>2, CallOnce, SendCommandOnce DEF ToolNext, ToolWait
<1>4. CASE WaiterNext
  <2>1. PICK w \in waiters : WaiterLooksInVain(w) \/ WaiterFound(w) \/ WaiterTimeout(w)
    BY <1>4 DEF WaiterNext, WaiterStep
  <2> QED  BY <2>1, NotesOnce
    DEF WaiterLooksInVain, WaiterFound, WaiterTimeout, WaiterReports, netVars, histVars
<1>5. CASE UNCHANGED vars
  BY <1>5, NotesOnce DEF vars, netVars, histVars
<1> QED  BY <1>1, <1>2, <1>3, <1>4, <1>5 DEF Next

LEMMA SpecOnce == Spec => []OnceOK
BY SpecInv, SpecFlow, OnceInit, OnceStep, PTL DEF Spec

\* A turn of a board that carries out a command is the gate's Act, one that gives a verdict
\* its Decide.
LEMMA TurnGate ==
    ASSUME Inv, Inv', FlowOK, OnceOK, NEW n \in Node, Turn(n)
    PROVE  [Gate!Next]_<<issued, executed>>
<1>1. PICK i \in 1 .. Len(inbox[n]) :
         Did(n, inbox[n][i], SubSeq(inbox[n], i + 1, Len(inbox[n])))
  BY TurnDid
<1> DEFINE m == inbox[n][i]
           e == [board |-> n, id |-> m.id, action |-> m.action,
                 safety |-> m.safety, uid |-> m.uid]
<1>2. inbox[n] \in Seq(Genuine) /\ DOMAIN inbox[n] = 1 .. Len(inbox[n]) /\ m \in Genuine
  BY ElementOfSeq, LenProperties DEF FlowOK, FlowNet
<1>3. CASE UNCHANGED histVars
  BY <1>3 DEF histVars
<1>4. CASE \E d \in Decision : issued' = issued \cup {d} /\ UNCHANGED executed
  <2>1. Gate!Decide
    BY <1>4 DEF Gate!Decide
  <2> QED  BY <2>1 DEF Gate!Next
<1>5. CASE m.kind = "command" /\ Executes(n, m) /\ UNCHANGED issued
  <2>1. m \in Command
    BY <1>2, <1>5 DEF Genuine, Message, Check, Decision, Command, Output, Event, Note
  <2>2. e \in Execution /\ e.board = n /\ e.uid = m.uid
    BY <2>1 DEF Execution, Command
  <2>3. executed \in Seq(Execution) /\ executed' = Append(executed, e)
    BY <1>5 DEF Inv, GateOK, Executes
  <2>4. \A l \in 1 .. Len(executed) : ~(executed[l].board = n /\ executed[l].uid = m.uid)
    BY <1>2, <1>5 DEF OnceOK, Free
  <2> HIDE DEF e
  <2>5. /\ DOMAIN executed = 1 .. Len(executed) /\ Len(executed) \in Nat
        /\ DOMAIN executed' = 1 .. Len(executed) + 1 /\ Len(executed') = Len(executed) + 1
        /\ executed'[Len(executed) + 1] = e
    BY <2>2, <2>3, AppendProperties, LenProperties
  <2>6. ~Gate!Done(e)
    BY <2>2, <2>4, <2>5 DEF Gate!Done
  <2>7. PermittedBy(issued, e)
    <3>1. PermittedBy(issued', executed'[Len(executed) + 1])
      BY <2>5 DEF Inv, GateOK, GuardianGate, PermittedBy
    <3> QED  BY <1>5, <2>5, <3>1
  <2>8. Gate!Act
    BY <1>5, <2>2, <2>3, <2>5, <2>6, <2>7 DEF Gate!Act
  <2> QED  BY <2>8 DEF Gate!Next
<1> QED  BY <1>1, <1>3, <1>4, <1>5 DEF Did

LEMMA StepGate ==
    Inv /\ Inv' /\ FlowOK /\ OnceOK /\ [Next]_vars => [Gate!Next]_<<issued, executed>>
<1> SUFFICES ASSUME Inv, Inv', FlowOK, OnceOK, [Next]_vars
             PROVE  [Gate!Next]_<<issued, executed>>
  OBVIOUS
<1>1. CASE \E n \in Node : Turn(n)
  BY <1>1, TurnGate
<1>2. CASE UNCHANGED histVars
  BY <1>2 DEF histVars
<1>3. CASE \E n \in Node : QuietTurn(n) \/ Connect(n) \/ Fault(n)
  BY <1>2, <1>3 DEF QuietTurn, Connect, Fault, Break, Reboot
<1>4. CASE \E c \in Caller : ToolNext(c)
  BY <1>2, <1>4 DEF ToolNext, ToolWait, CallRejected, Call, LookInVain, PolicyBlocked,
     CommandQueueFull, SendCommand, ResultFound, ResultTimeout
<1>5. CASE WaiterNext
  BY <1>2, <1>5 DEF WaiterNext, WaiterStep, WaiterLooksInVain, WaiterFound, WaiterTimeout,
     WaiterReports
<1>6. CASE UNCHANGED vars
  BY <1>2, <1>6 DEF vars
<1> QED  BY <1>1, <1>3, <1>4, <1>5, <1>6 DEF Next, BoardNext

\* The boards together do what CommandGate promises: each deed is permitted by a verdict
\* given before it, and no board does the same call's deed twice.
THEOREM MeshKeepsGate == Spec => KeepsGate
<1>1. Init => Gate!Init
  BY DEF Init, Fresh, Gate!Init
<1> QED  BY <1>1, SpecInv, SpecFlow, SpecOnce, StepGate, PTL DEF Spec, KeepsGate, Gate!Spec
=============================================================================
