---------------------------- MODULE ToolTurn_proofs ----------------------------
(***************************************************************************)
(* Proofs about the agent's turn (ToolTurn), for every value of its        *)
(* constants: what a reply says was done was done in its own turn, and     *)
(* every request answers each call of the conversation it is about.        *)
(***************************************************************************)
EXTENDS ToolTurn, Extrema, SequenceTheorems, TLAPS

\* A sequence, of whatever.
IsSeq(s) == \E S : s \in Seq(S)

\* The inductive invariant: that a tool of the Mesh was seen, or the claim in the text of a turn,
\* stands behind a call in the turn's conversation; and the search that is kept is this turn's.
TurnInv ==
    /\ IsSeq(conv)
    /\ step # "idle" => (meshSeen => Called) /\ fallback \in {0, asked}
    /\ step = "idle" => conv = <<>> /\ final = NoText
    /\ final = "claim" /\ ShouldUseMesh(turn.words) => Called
    /\ ReplyIsOwn

\* A conversation that grows keeps the calls it has.
LEMMA GrownKeeps ==
    ASSUME IsSeq(conv), NEW m, conv' = Append(conv, m)
    PROVE  /\ IsSeq(conv')
           /\ Called => Called'
           /\ (\E k \in DOMAIN m.ids : ToolOf(m.ids[k]) \in MeshTool) => Called'
<1>1. PICK S : conv \in Seq(S)
  BY DEF IsSeq
<1>2. conv \in Seq(S \cup {m}) /\ m \in S \cup {m}
  BY <1>1
<1>3. /\ conv' \in Seq(S \cup {m}) /\ Len(conv') = Len(conv) + 1 /\ conv'[Len(conv) + 1] = m
      /\ \A i \in 1 .. Len(conv) : conv'[i] = conv[i]
      /\ DOMAIN conv = 1 .. Len(conv) /\ DOMAIN conv' = 1 .. Len(conv') /\ Len(conv) \in Nat
  BY <1>2
<1>4. Called => Called'
  BY <1>3 DEF Called, ToolOf
<1>5. (\E k \in DOMAIN m.ids : ToolOf(m.ids[k]) \in MeshTool) => Called'
  <2>1. Len(conv) + 1 \in DOMAIN conv'
    BY <1>3
  <2> QED  BY <1>3, <2>1 DEF Called
<1> QED  BY <1>3, <1>4, <1>5 DEF IsSeq

LEMMA TurnInvInit == TurnInit => TurnInv
<1> SUFFICES ASSUME TurnInit PROVE TurnInv
  OBVIOUS
<1>1. IsSeq(conv)
  BY DEF TurnInit, IsSeq
<1>2. step = "idle" /\ final = NoText /\ conv = <<>> /\ final # "claim"
  BY DEF TurnInit, NoText
<1>3. ReplyIsOwn
  BY DEF TurnInit, ReplyIsOwn, NoReply, NoText
<1> QED  BY <1>1, <1>2, <1>3 DEF TurnInv

\* Steps of a turn that leave the conversation and the text alone.
LEMMA TurnGoesOn ==
    ASSUME TurnInv, step # "idle", step' # "idle",
           UNCHANGED <<turn, conv, meshSeen, final, replied, asked>>,
           fallback' \in {fallback, asked}
    PROVE  TurnInv'
<1>1. Called' <=> Called
  BY DEF Called
<1>2. ReplyIsOwn' <=> ReplyIsOwn
  BY DEF ReplyIsOwn
<1> QED  BY <1>1, <1>2 DEF TurnInv

LEMMA TurnInvStep == TurnInv /\ [TurnNext]_turnVars => TurnInv'
<1> SUFFICES ASSUME TurnInv, [TurnNext]_turnVars PROVE TurnInv'
  OBVIOUS
<1>1. ASSUME NEW m, MessageTaken(m) PROVE TurnInv'
  <2>1. /\ step' # "idle" /\ ~meshSeen' /\ fallback' = 0 /\ conv' = conv /\ final' = NoText
        /\ replied' = replied
    BY <1>1 DEF MessageTaken, TurnInv
  <2>2. final' # "claim"
    BY <2>1 DEF NoText
  <2>3. ReplyIsOwn'
    BY <2>1 DEF ReplyIsOwn, TurnInv
  <2> QED  BY <2>1, <2>2, <2>3 DEF TurnInv
<1>2. CASE TakesRoute
  <2>1. /\ step = "route" /\ final' = "route" /\ step' = "reply"
        /\ UNCHANGED <<turn, conv, meshSeen, fallback, replied, asked>>
    BY <1>2 DEF TakesRoute
  <2>2. (Called' <=> Called) /\ (ReplyIsOwn' <=> ReplyIsOwn)
    BY <2>1 DEF Called, ReplyIsOwn
  <2> QED  BY <2>1, <2>2 DEF TurnInv
<1>3. CASE AsksModel \/ RequestBuilt \/ RequestSent \/ RequestFails \/ RoundsEnd
  <2>1. /\ step # "idle" /\ step' # "idle" /\ fallback' = fallback
        /\ UNCHANGED <<turn, conv, meshSeen, final, replied, asked>>
    BY <1>3 DEF AsksModel, RequestBuilt, RequestSent, RequestFails, RoundsEnd
  <2> QED  BY <2>1, TurnGoesOn
<1>4. CASE ToolRuns
  <2>1. /\ step # "idle" /\ step' # "idle" /\ fallback' \in {fallback, asked}
        /\ UNCHANGED <<turn, conv, meshSeen, final, replied, asked>>
    BY <1>4 DEF ToolRuns, ToolBlocked, ToolExecuted
  <2> QED  BY <2>1, TurnGoesOn
<1>5. ASSUME NEW r \in Reply, ReplyReceived(r) PROVE TurnInv'
  <2>1. /\ step = "wait" /\ UNCHANGED <<turn, fallback, replied, asked>>
        /\ \E read : CallsReceived(read) \/ TextReceived(read)
    BY <1>5, Zenon DEF ReplyReceived
  <2>2. ReplyIsOwn'
    BY <2>1 DEF ReplyIsOwn, TurnInv
  <2>3. PICK read : CallsReceived(read) \/ TextReceived(read)
    BY <2>1
  <2>4. CASE CallsReceived(read)
    <3>1. /\ meshSeen' = (meshSeen \/ \E k \in DOMAIN Kept(read) : ToolOf(Kept(read)[k]) \in MeshTool)
          /\ conv' = Append(conv, Uses(Kept(read))) /\ step' = "tools" /\ final' = final
      BY <2>4 DEF CallsReceived
    <3>2. Uses(Kept(read)).ids = Kept(read)
      BY DEF Uses
    <3>3. /\ IsSeq(conv') /\ (Called => Called')
          /\ (\E k \in DOMAIN Kept(read) : ToolOf(Kept(read)[k]) \in MeshTool) => Called'
      BY <3>1, <3>2, GrownKeeps DEF TurnInv
    <3>4. meshSeen' => Called'
      BY <2>1, <3>1, <3>3 DEF TurnInv
    <3> QED  BY <2>1, <2>2, <3>1, <3>3, <3>4 DEF TurnInv
  <2>5. CASE TextReceived(read)
    <3>1. final' = Said(read) /\ step' = "reply" /\ UNCHANGED <<conv, meshSeen>>
      BY <2>5 DEF TextReceived
    <3>2. Called' <=> Called
      BY <3>1 DEF Called
    <3>3. final' = "claim" /\ ShouldUseMesh(turn.words) => meshSeen
      BY <3>1 DEF Said
    <3> QED  BY <2>1, <2>2, <3>1, <3>2, <3>3 DEF TurnInv
  <2> QED  BY <2>3, <2>4, <2>5
<1>6. CASE ToolsDone
  <2>1. /\ step = "tools" /\ step' = "build" /\ conv' = Append(conv, Returns(results))
        /\ UNCHANGED <<turn, meshSeen, fallback, final, replied, asked>>
    BY <1>6 DEF ToolsDone
  <2>2. IsSeq(conv') /\ (Called => Called')
    BY <2>1, GrownKeeps DEF TurnInv
  <2>3. ReplyIsOwn'
    BY <2>1 DEF ReplyIsOwn, TurnInv
  <2> QED  BY <2>1, <2>2, <2>3 DEF TurnInv
<1>7. CASE Replies
  <2>1. /\ step = "reply" /\ step' = "idle" /\ conv' = <<>> /\ final' = NoText
        /\ \/ replied' = replied
           \/ replied' = [text |-> final, mesh |-> ShouldUseMesh(turn.words), called |-> Called,
                          from |-> IF final = NoText THEN fallback ELSE 0, turn |-> asked]
    BY <1>7 DEF Replies
  <2>2. fallback \in {0, asked} /\ (final = "claim" /\ ShouldUseMesh(turn.words) => Called)
    BY <2>1 DEF TurnInv
  <2>3. ReplyIsOwn'
    BY <2>1, <2>2 DEF ReplyIsOwn, TurnInv
  <2>4. IsSeq(conv') /\ final' # "claim"
    BY <2>1 DEF IsSeq, NoText
  <2> QED  BY <2>1, <2>3, <2>4 DEF TurnInv
<1>8. CASE \/ \E c \in waits : ResultDropped(c)
           \/ \E p \in Provider : ProviderSet(p)
           \/ UNCHANGED turnVars
  <2>1. UNCHANGED <<turn, step, conv, meshSeen, fallback, final, replied, asked>>
    BY <1>8 DEF ResultDropped, ProviderSet, turnVars
  <2>2. (Called' <=> Called) /\ (ReplyIsOwn' <=> ReplyIsOwn)
    BY <2>1 DEF Called, ReplyIsOwn
  <2> QED  BY <2>1, <2>2 DEF TurnInv
<1> QED
  BY <1>1, <1>2, <1>3, <1>4, <1>5, <1>6, <1>7, <1>8
  DEF TurnNext, AgentStep, AskArrives, ResultArrives

\* A reply that claims a dispatch to a message that asks for one is from a turn in which a tool
\* of the Mesh was called, and search results sent in place of an answer are from the same turn
\* (agent_loop.c), for any messages, replies of the model, and number of rounds.
THEOREM RepliesOwn == TurnSpec => []ReplyIsOwn
<1>1. TurnInv => ReplyIsOwn
  BY DEF TurnInv
<1> QED  BY <1>1, TurnInvInit, TurnInvStep, PTL DEF TurnSpec

-----------------------------------------------------------------------------
(***************************************************************************)
(* The conversation, and what is sent of it.                               *)
(***************************************************************************)
\* The calls and the messages of a conversation, and those of a request.
Call  == Nat \X Nat \X STRING
Talk  == [role : {"assistant", "user"}, ids : Seq(Call)]
Wired == [role : {"assistant", "user", "tool"}, ids : Seq(Call)]

\* The calls of message i of w are answered by the messages after it; the last message may be m,
\* which waits for its answers.
ToolResult(id)     == [role |-> "tool", ids |-> <<id>>]
AnswersCalls(w, i) ==
    \A k \in 1 .. Len(w[i].ids) : i + k <= Len(w) /\ w[i + k] = ToolResult(w[i].ids[k])
AnsweredUpTo(w, m) ==
    \A i \in 1 .. Len(w) : w[i].role = "assistant" => AnswersCalls(w, i) \/ (i = Len(w) /\ w[i] = m)

\* What AsOpenAi makes of a message.
LEMMA AsOpenAiIs ==
    ASSUME NEW c \in Talk
    PROVE  /\ AsOpenAi(c) \in Seq(Wired)
           /\ c.role = "assistant" => AsOpenAi(c) = <<c>>
           /\ c.role = "user" => /\ Len(AsOpenAi(c)) = Len(c.ids)
                                 /\ \A k \in 1 .. Len(c.ids) : AsOpenAi(c)[k] = ToolResult(c.ids[k])
<1>1. /\ c.role \in {"assistant", "user"} /\ c.ids \in Seq(Call) /\ c \in Wired
      /\ DOMAIN c.ids = 1 .. Len(c.ids) /\ Len(c.ids) \in Nat
      /\ \A k \in 1 .. Len(c.ids) : c.ids[k] \in Call
  BY DEF Talk, Wired
<1>2. CASE c.role = "assistant"
  <2>1. AsOpenAi(c) = <<c>>
    BY <1>2 DEF AsOpenAi
  <2> QED  BY <1>1, <1>2, <2>1
<1>3. CASE c.role = "user"
  <2> DEFINE t == [k \in 1 .. Len(c.ids) |-> ToolResult(c.ids[k])]
  <2>1. AsOpenAi(c) = t
    BY <1>1, <1>3 DEF AsOpenAi, ToolResult
  <2>2. \A k \in 1 .. Len(c.ids) : ToolResult(c.ids[k]) \in Wired
    <3> SUFFICES ASSUME NEW k \in 1 .. Len(c.ids) PROVE ToolResult(c.ids[k]) \in Wired
      OBVIOUS
    <3>1. ASSUME NEW x \in Call PROVE <<x>> \in Seq(Call)
      OBVIOUS
    <3>2. <<c.ids[k]>> \in Seq(Call)
      BY <1>1, <3>1
    <3> QED  BY <3>2 DEF ToolResult, Wired
  <2>3. t \in Seq(Wired) /\ Len(t) = Len(c.ids)
    BY <1>1, <2>2, IsASeq
  <2> QED  BY <1>3, <2>1, <2>3
<1> QED  BY <1>1, <1>2, <1>3

\* What FlattenSeq computes.
LEMMA FlattenIs ==
    ASSUME NEW T, NEW seqs \in Seq(Seq(T)), Len(seqs) > 0
    PROVE  \E f :
              /\ FlattenSeq(seqs) = f[Len(seqs)]
              /\ \A i \in 1 .. Len(seqs) : f[i] = IF i = 1 THEN seqs[i] ELSE f[i - 1] \o seqs[i]
<1> DEFINE n == Len(seqs)
           g == [i \in 1 .. n |-> [s \in Seq(T) |-> s \o seqs[i]]]
           Is(f) == f = [i \in 1 .. n |-> IF i = 1 THEN seqs[i] ELSE f[i - 1] \o seqs[i]]
<1>1. n \in Nat /\ n >= 1 /\ \A i \in 1 .. n : seqs[i] \in Seq(T)
  BY LenProperties, ElementOfSeq
<1> HIDE DEF n
<1>2. g \in [1 .. n -> [Seq(T) -> Seq(T)]] /\ seqs[1] \in Seq(T)
  BY <1>1
<1> HIDE DEF g
<1>3. PICK f \in [1 .. n -> Seq(T)] : Computes(f, 1, n, seqs[1], g)
  <2>1. 1 \in Nat /\ 1 <= n
    BY <1>1
  <2> QED  BY <1>1, <1>2, <2>1, Recursion, Zenon
<1>4. ASSUME NEW i \in 1 .. n PROVE f[i] = IF i = 1 THEN seqs[i] ELSE f[i - 1] \o seqs[i]
  <2>1. CASE i = 1
    BY <1>3, <2>1 DEF Computes
  <2>2. CASE i # 1
    <3>1. f[i - 1] \in Seq(T)
      BY <1>1, <2>2
    <3> QED  BY <1>3, <2>2, <3>1 DEF g, Computes
  <2> QED  BY <2>1, <2>2
<1>5. Is(f)
  BY <1>4
<1> DEFINE h == CHOOSE e : Is(e)
<1>6. Is(h)
  <2> HIDE DEF Is
  <2> QED  BY <1>5
<1>7. FlattenSeq(seqs) = h[n]
  BY <1>1 DEF FlattenSeq, n
<1> HIDE DEF h
<1> QED  BY <1>6, <1>7 DEF n

\* A request grows by a message, which answers the one before it if that one has calls.
LEMMA WireGrows ==
    ASSUME NEW w \in Seq(Wired), NEW m \in Talk, NEW c \in Talk,
           m.role = "assistant" => c = Returns(m.ids),
           AnsweredUpTo(w, m)
    PROVE  w \o AsOpenAi(c) \in Seq(Wired) /\ AnsweredUpTo(w \o AsOpenAi(c), c)
<1> DEFINE t == AsOpenAi(c)
           v == w \o t
<1>1. /\ t \in Seq(Wired)
      /\ c.role = "assistant" => t = <<c>>
      /\ c.role = "user" => /\ Len(t) = Len(c.ids)
                            /\ \A k \in 1 .. Len(c.ids) : t[k] = ToolResult(c.ids[k])
  BY AsOpenAiIs
<1>2. c.role \in {"assistant", "user"} /\ c.ids \in Seq(Call) /\ m.ids \in Seq(Call)
  BY DEF Talk
<1> HIDE DEF t
<1>3. /\ v \in Seq(Wired) /\ Len(v) = Len(w) + Len(t) /\ Len(w) \in Nat /\ Len(t) \in Nat
      /\ \A i \in 1 .. Len(w) : v[i] = w[i]
      /\ \A k \in 1 .. Len(t) : v[Len(w) + k] = t[k]
  BY <1>1
<1> HIDE DEF v
<1>4. \A i \in 1 .. Len(w) : w[i].ids \in Seq(Call) /\ Len(w[i].ids) \in Nat
  <2>1. \A i \in 1 .. Len(w) : w[i] \in Wired
    OBVIOUS
  <2> QED  BY <2>1 DEF Wired
<1>5. ASSUME NEW i \in 1 .. Len(w), AnswersCalls(w, i) PROVE AnswersCalls(v, i)
  <2>1. v[i] = w[i]
    BY <1>3
  <2> SUFFICES ASSUME NEW k \in 1 .. Len(w[i].ids)
               PROVE  i + k <= Len(v) /\ v[i + k] = ToolResult(w[i].ids[k])
    BY <2>1 DEF AnswersCalls
  <2>2. i + k <= Len(w) /\ w[i + k] = ToolResult(w[i].ids[k])
    BY <1>5 DEF AnswersCalls
  <2>3. i + k \in 1 .. Len(w) /\ Len(w) <= Len(v)
    BY <1>3, <1>4, <2>2
  <2> QED  BY <1>3, <2>2, <2>3
<1>6. ASSUME m.role = "assistant", Len(w) > 0, w[Len(w)] = m PROVE AnswersCalls(v, Len(w))
  <2>1. c.role = "user" /\ c.ids = m.ids
    BY <1>6 DEF Returns
  <2>2. v[Len(w)] = m
    BY <1>3, <1>6
  <2> SUFFICES ASSUME NEW k \in 1 .. Len(m.ids)
               PROVE  Len(w) + k <= Len(v) /\ v[Len(w) + k] = ToolResult(m.ids[k])
    BY <2>2 DEF AnswersCalls
  <2>3. k \in 1 .. Len(t) /\ t[k] = ToolResult(m.ids[k])
    BY <1>1, <2>1
  <2> QED  BY <1>3, <2>3
<1>7. ASSUME NEW i \in 1 .. Len(v), v[i].role = "assistant"
      PROVE  AnswersCalls(v, i) \/ (i = Len(v) /\ v[i] = c)
  <2>1. CASE i \in 1 .. Len(w)
    <3>1. w[i].role = "assistant"
      BY <1>3, <1>7, <2>1
    <3>2. AnswersCalls(w, i) \/ (i = Len(w) /\ w[i] = m)
      BY <2>1, <3>1 DEF AnsweredUpTo
    <3>3. CASE AnswersCalls(w, i)
      BY <1>5, <2>1, <3>3
    <3>4. CASE i = Len(w) /\ w[i] = m
      <4>1. m.role = "assistant" /\ Len(w) > 0 /\ w[Len(w)] = m
        BY <1>3, <2>1, <3>1, <3>4
      <4> QED  BY <1>6, <3>4, <4>1
    <3> QED  BY <3>2, <3>3, <3>4
  <2>2. CASE i \notin 1 .. Len(w)
    <3>1. i - Len(w) \in 1 .. Len(t) /\ v[i] = t[i - Len(w)]
      <4>1. i - Len(w) \in 1 .. Len(t) /\ i = Len(w) + (i - Len(w))
        BY <1>3, <2>2
      <4> QED  BY <1>3, <4>1
    <3>2. CASE c.role = "user"
      <4> DEFINE k == i - Len(w)
      <4>1. t[k] = ToolResult(c.ids[k])
        BY <1>1, <3>1, <3>2
      <4>2. v[i].role = "tool"
        BY <3>1, <4>1 DEF ToolResult
      <4> QED  BY <1>7, <4>2
    <3>3. CASE c.role = "assistant"
      <4>1. t = <<c>>
        BY <1>1, <3>3
      <4>2. Len(t) = 1 /\ t[1] = c
        BY <4>1
      <4>3. i - Len(w) = 1
        BY <3>1, <4>2
      <4>4. i = Len(v)
        BY <1>3, <4>2, <4>3
      <4> QED  BY <3>1, <4>2, <4>3, <4>4
    <3> QED  BY <1>2, <3>2, <3>3
  <2> QED  BY <2>1, <2>2
<1>8. AnsweredUpTo(v, c)
  BY <1>7 DEF AnsweredUpTo
<1> QED  BY <1>3, <1>8 DEF v, t

\* A conversation in which every call has its answer: the message after it.
CallsReturned(c) == \A i \in 1 .. Len(c) : c[i].role = "assistant" => i < Len(c) /\ c[i + 1] = Returns(c[i].ids)

\* Put into either provider's format, such a conversation is a list of messages with their answers.
LEMMA WireAnswered ==
    ASSUME conv \in Seq(Talk), CallsReturned(conv), NEW p \in Provider
    PROVE  /\ Wire(p) \in Seq(Wired)
           /\ \A i \in 1 .. Len(Wire(p)) : Wire(p)[i].role = "assistant" =>
                 IF p = "anthropic" THEN i < Len(Wire(p)) /\ Wire(p)[i + 1] = Returns(Wire(p)[i].ids)
                 ELSE AnswersCalls(Wire(p), i)
<1>1. CASE p = "anthropic"
  <2>1. Wire(p) = conv
    BY <1>1 DEF Wire
  <2>2. Talk \subseteq Wired
    BY DEF Talk, Wired
  <2>3. conv \in Seq(Wired)
    BY <2>2
  <2> QED  BY <1>1, <2>1, <2>3 DEF CallsReturned
<1>2. CASE p = "openai"
  <2> DEFINE n == Len(conv)
             seqs == [i \in DOMAIN conv |-> AsOpenAi(conv[i])]
  <2>1. Wire(p) = FlattenSeq(seqs)
    BY <1>2 DEF Wire
  <2>2. n \in Nat /\ DOMAIN conv = 1 .. n /\ \A i \in 1 .. n : conv[i] \in Talk
    OBVIOUS
  <2>3. \A i \in 1 .. n : AsOpenAi(conv[i]) \in Seq(Wired)
    BY <2>2, AsOpenAiIs
  <2>4. seqs \in Seq(Seq(Wired)) /\ Len(seqs) = n /\ \A i \in 1 .. n : seqs[i] = AsOpenAi(conv[i])
    <3>1. seqs = [i \in 1 .. n |-> AsOpenAi(conv[i])]
      BY <2>2
    <3> QED  BY <2>2, <2>3, <3>1, IsASeq
  <2> HIDE DEF seqs
  <2>5. CASE n = 0
    <3>1. seqs = <<>>
      BY <2>4, <2>5
    <3>2. Wire(p) = <<>>
      BY <2>1, <3>1 DEF FlattenSeq
    <3> QED  BY <3>2
  <2>6. CASE n > 0
    <3>1. PICK f : /\ FlattenSeq(seqs) = f[n]
                   /\ \A i \in 1 .. n : f[i] = IF i = 1 THEN seqs[i] ELSE f[i - 1] \o seqs[i]
      BY <2>4, <2>6, FlattenIs
    <3> DEFINE Good(i) == f[i] \in Seq(Wired) /\ AnsweredUpTo(f[i], conv[i])
               Bad == {i \in 1 .. n : ~Good(i)}
    <3>2. Good(1)
      <4> DEFINE e == [role |-> "user", ids |-> <<>>]
      <4>1. e \in Talk /\ e.role # "assistant" /\ <<>> \in Seq(Wired) /\ conv[1] \in Talk
        BY <2>2, <2>6 DEF Talk
      <4>2. AnsweredUpTo(<<>>, e)
        BY DEF AnsweredUpTo
      <4>3. AsOpenAi(conv[1]) \in Seq(Wired) /\ f[1] = AsOpenAi(conv[1])
        BY <2>3, <2>4, <2>6, <3>1
      <4>4. <<>> \o AsOpenAi(conv[1]) = AsOpenAi(conv[1])
        BY <4>3
      <4> HIDE DEF e
      <4>5. /\ <<>> \o AsOpenAi(conv[1]) \in Seq(Wired)
            /\ AnsweredUpTo(<<>> \o AsOpenAi(conv[1]), conv[1])
        BY <4>1, <4>2, WireGrows
      <4> QED  BY <4>3, <4>4, <4>5
    <3>3. ASSUME NEW i \in 1 .. n, i # 1, Good(i - 1) PROVE Good(i)
      <4>1. i - 1 \in 1 .. n /\ i - 1 < n /\ conv[i - 1] \in Talk /\ conv[i] \in Talk
        BY <2>2, <3>3
      <4>2. conv[i - 1].role = "assistant" => conv[i] = Returns(conv[i - 1].ids)
        <5>1. (i - 1) + 1 = i
          BY <4>1
        <5> QED  BY <4>1, <5>1 DEF CallsReturned
      <4>3. f[i] = f[i - 1] \o AsOpenAi(conv[i])
        BY <2>4, <3>1, <3>3
      <4>4. /\ f[i - 1] \o AsOpenAi(conv[i]) \in Seq(Wired)
            /\ AnsweredUpTo(f[i - 1] \o AsOpenAi(conv[i]), conv[i])
        BY <3>3, <4>1, <4>2, WireGrows
      <4> QED  BY <4>3, <4>4
    <3> HIDE DEF Good
    <3>4. Bad = {}
      <4> SUFFICES ASSUME Bad # {} PROVE FALSE
        OBVIOUS
      <4>1. Bad \in SUBSET Nat
        OBVIOUS
      <4>2. PICK m \in Bad : \A k \in Bad : m <= k
        <5> HIDE DEF Bad
        <5> QED  BY <4>1, LeastElement
      <4>3. m \in 1 .. n /\ ~Good(m)
        OBVIOUS
      <4>4. m # 1
        BY <3>2, <4>3
      <4>5. m - 1 \in 1 .. n /\ ~(m <= m - 1)
        BY <4>3, <4>4
      <4>6. Good(m - 1)
        BY <4>2, <4>5
      <4> QED  BY <3>3, <4>3, <4>4, <4>6
    <3>5. Good(n)
      BY <2>2, <2>6, <3>4
    <3>6. Wire(p) \in Seq(Wired) /\ AnsweredUpTo(Wire(p), conv[n])
      BY <2>1, <3>1, <3>5 DEF Good
    <3>7. conv[n].role # "assistant"
      BY <2>2, <2>6 DEF CallsReturned
    <3>8. \A i \in 1 .. Len(Wire(p)) : Wire(p)[i].role = "assistant" => AnswersCalls(Wire(p), i)
      BY <3>6, <3>7 DEF AnsweredUpTo
    <3> QED  BY <1>2, <3>6, <3>8
  <2> QED  BY <2>2, <2>5, <2>6
<1> QED  BY <1>1, <1>2 DEF Provider

-----------------------------------------------------------------------------
(***************************************************************************)
(* The inductive invariant of the conversation.  Every message with calls  *)
(* has its results after it, but the last one while its tools run, whose   *)
(* calls are then those that are carried out.                              *)
(***************************************************************************)
CallsHeld ==
    /\ conv \in Seq(Talk) /\ calls \in Seq(Call) /\ results \in Seq(Call)
    /\ \A k \in 1 .. Len(results) : results[k] = calls[k]
    /\ step # "tools" => calls = <<>> /\ results = <<>>
    /\ \A i \in 1 .. Len(conv) : conv[i].role = "assistant" =>
          \/ i < Len(conv) /\ conv[i + 1] = Returns(conv[i].ids)
          \/ i = Len(conv) /\ step = "tools" /\ conv[i].ids = calls

TalkInv ==
    /\ TurnTypeOK /\ asked \in Nat
    /\ request \in [as : Provider \cup {"none"}, to : Provider \cup {"none"}, wire : Seq(Wired)]
    /\ step \in {"send", "wait", "tools"} => round < MaxIter
    /\ CallsHeld
    /\ EveryCallAnswered

\* The conversation and the calls are left alone.
LEMMA CallsStay ==
    ASSUME CallsHeld, UNCHANGED <<conv, calls, results>>, step' = "tools" <=> step = "tools"
    PROVE  CallsHeld'
BY DEF CallsHeld

\* A turn ends or begins: nothing is held.
LEMMA NothingHeld ==
    ASSUME conv' = <<>>, calls' = <<>>, results' = <<>>
    PROVE  CallsHeld'
BY DEF CallsHeld

LEMMA TalkInvInit == TurnInit => TalkInv
<1> SUFFICES ASSUME TurnInit PROVE TalkInv
  OBVIOUS
<1>1. conv = <<>> /\ calls = <<>> /\ results = <<>>
  BY DEF TurnInit
<1>2. CallsHeld
  BY <1>1 DEF CallsHeld
<1>3. request = [as |-> "none", to |-> "none", wire |-> <<>>]
  BY DEF TurnInit, NoRequest
<1>4. EveryCallAnswered
  BY <1>3 DEF EveryCallAnswered
<1>5. TurnTypeOK /\ asked \in Nat
  BY <1>1, ToolTurnAssumption DEF TurnInit, TurnTypeOK, NoTurn
<1>6. step = "idle"
  BY DEF TurnInit
<1> QED  BY <1>2, <1>3, <1>4, <1>5, <1>6 DEF TalkInv

\* The calls that are kept of a reply.
LEMMA KeptIs ==
    ASSUME NEW r, r.tools \in Seq(STRING), round \in Nat
    PROVE  Kept(r) \in Seq(Call) /\ Len(Kept(r)) <= MaxToolCalls
<1> DEFINE n == IF Len(r.tools) < MaxToolCalls THEN Len(r.tools) ELSE MaxToolCalls
<1>1. n \in Nat /\ n <= MaxToolCalls /\ n <= Len(r.tools) /\ Len(r.tools) \in Nat
  BY ToolTurnAssumption
<1> HIDE DEF n
<1>2. ASSUME NEW k \in 1 .. n PROVE <<round, k, r.tools[k]>> \in Call
  <2>1. k \in 1 .. Len(r.tools)
    BY <1>1
  <2>2. r.tools[k] \in STRING
    BY <2>1
  <2> QED  BY <1>1, <2>2 DEF Call
<1>3. Kept(r) = [k \in 1 .. n |-> <<round, k, r.tools[k]>>]
  BY DEF Kept, n
<1> QED  BY <1>1, <1>2, <1>3, IsASeq

LEMMA TalkInvStep == TalkInv /\ [TurnNext]_turnVars => TalkInv'
<1> SUFFICES ASSUME TalkInv, [TurnNext]_turnVars PROVE TalkInv'
  OBVIOUS
<1>0. /\ TurnTypeOK /\ asked \in Nat /\ CallsHeld /\ EveryCallAnswered
      /\ request \in [as : Provider \cup {"none"}, to : Provider \cup {"none"}, wire : Seq(Wired)]
      /\ step \in {"send", "wait", "tools"} => round < MaxIter
      /\ MaxIter \in Nat /\ round \in Nat
  BY ToolTurnAssumption DEF TalkInv, TurnTypeOK
\* The request is another matter than the rest in most steps.
<1>a. ASSUME UNCHANGED request PROVE EveryCallAnswered'
  BY <1>0, <1>a DEF EveryCallAnswered
<1>b. ASSUME request' = NoRequest
      PROVE  /\ EveryCallAnswered'
             /\ request' \in [as : Provider \cup {"none"}, to : Provider \cup {"none"}, wire : Seq(Wired)]
  BY <1>b DEF EveryCallAnswered, NoRequest
<1>1. ASSUME NEW m, m.kind \in {"user", "proactive", "result"}, MessageTaken(m), waits' \subseteq waits
      PROVE  TalkInv'
  <2>1. /\ step = "idle" /\ turn' = m /\ step' = "route" /\ asked' = asked + 1 /\ fallback' = 0
        /\ UNCHANGED <<provider, conv, round, request, calls, results, sent>>
    BY <1>1 DEF MessageTaken
  <2>2. CallsHeld'
    BY <1>0, <2>1, CallsStay
  <2>3. TurnTypeOK'
    BY <1>0, <1>1, <2>1 DEF TurnTypeOK
  <2> QED  BY <1>0, <1>a, <2>1, <2>2, <2>3 DEF TalkInv
<1>2. CASE TakesRoute
  <2>1. /\ step = "route" /\ step' = "reply"
        /\ UNCHANGED <<provider, turn, conv, round, fallback, request, calls, results, asked>>
        /\ waits' \subseteq sent'
    BY <1>0, <1>2 DEF TakesRoute, MeshTakes, MeshRefuses, TurnTypeOK
  <2>2. CallsHeld'
    BY <1>0, <2>1, CallsStay
  <2>3. TurnTypeOK'
    BY <1>0, <2>1 DEF TurnTypeOK
  <2> QED  BY <1>0, <1>a, <2>1, <2>2, <2>3 DEF TalkInv
<1>3. CASE AsksModel \/ RoundsEnd
  <2>1. /\ step # "tools" /\ step' \in {"build", "reply"}
        /\ UNCHANGED <<provider, turn, conv, round, fallback, request, calls, results, asked, sent, waits>>
    BY <1>3 DEF AsksModel, RoundsEnd
  <2>2. CallsHeld'
    BY <1>0, <2>1, CallsStay
  <2>3. TurnTypeOK'
    BY <1>0, <2>1 DEF TurnTypeOK
  <2> QED  BY <1>0, <1>a, <2>1, <2>2, <2>3 DEF TalkInv
<1>4. CASE RequestBuilt
  <2>1. /\ step = "build" /\ round < MaxIter /\ step' = "send"
        /\ request' = [as |-> provider, to |-> "none", wire |-> Wire(provider)]
        /\ UNCHANGED <<provider, turn, conv, round, fallback, calls, results, asked, sent, waits>>
    BY <1>4 DEF RequestBuilt
  <2>2. CallsHeld'
    BY <1>0, <2>1, CallsStay
  <2>3. TurnTypeOK'
    BY <1>0, <2>1 DEF TurnTypeOK
  <2>4. conv \in Seq(Talk) /\ CallsReturned(conv) /\ provider \in Provider
    BY <1>0, <2>1 DEF CallsHeld, CallsReturned, TurnTypeOK
  <2> DEFINE w == Wire(provider)
  <2>5. /\ w \in Seq(Wired)
        /\ \A i \in 1 .. Len(w) : w[i].role = "assistant" =>
              IF provider = "anthropic" THEN i < Len(w) /\ w[i + 1] = Returns(w[i].ids)
              ELSE AnswersCalls(w, i)
    BY <2>4, WireAnswered
  <2> HIDE DEF w
  <2>6. request'.as = provider /\ request'.wire = w /\ request' = [as |-> provider, to |-> "none", wire |-> w]
    BY <2>1 DEF w
  <2>7. EveryCallAnswered'
    <3>1. DOMAIN w = 1 .. Len(w) /\ \A i \in 1 .. Len(w) : w[i] \in Wired
      BY <2>5
    <3>2. \A i \in 1 .. Len(w) : DOMAIN w[i].ids = 1 .. Len(w[i].ids)
      BY <3>1 DEF Wired
    <3> QED  BY <2>5, <2>6, <3>1, <3>2 DEF EveryCallAnswered, AnswersCalls, ToolResult
  <2> QED  BY <1>0, <2>1, <2>2, <2>3, <2>4, <2>5, <2>6, <2>7 DEF TalkInv
<1>5. CASE RequestSent
  <2>1. /\ step = "send" /\ step' = "wait" /\ request' = [request EXCEPT !.to = provider]
        /\ UNCHANGED <<provider, turn, conv, round, fallback, calls, results, asked, sent, waits>>
    BY <1>5 DEF RequestSent
  <2>2. CallsHeld'
    BY <1>0, <2>1, CallsStay
  <2>3. TurnTypeOK'
    BY <1>0, <2>1 DEF TurnTypeOK
  <2>4. /\ request'.as = request.as /\ request'.wire = request.wire
        /\ request' \in [as : Provider \cup {"none"}, to : Provider \cup {"none"}, wire : Seq(Wired)]
    BY <1>0, <2>1 DEF TurnTypeOK
  <2>5. EveryCallAnswered'
    BY <1>0, <2>4 DEF EveryCallAnswered
  <2> QED  BY <1>0, <2>1, <2>2, <2>3, <2>4, <2>5 DEF TalkInv
<1>6. CASE RequestFails
  <2>1. /\ step # "tools" /\ step' = "reply" /\ request' = NoRequest
        /\ UNCHANGED <<provider, turn, conv, round, fallback, calls, results, asked, sent, waits>>
    BY <1>6 DEF RequestFails
  <2>2. CallsHeld'
    BY <1>0, <2>1, CallsStay
  <2>3. TurnTypeOK'
    BY <1>0, <2>1 DEF TurnTypeOK
  <2> QED  BY <1>0, <1>b, <2>1, <2>2, <2>3 DEF TalkInv
<1>7. ASSUME NEW r \in Reply, ReplyReceived(r) PROVE TalkInv'
  <2>1. /\ step = "wait" /\ request' = NoRequest
        /\ UNCHANGED <<provider, turn, round, fallback, waits, asked, sent>>
    BY <1>7 DEF ReplyReceived
  <2>2. PICK read : read.tools \in Seq(STRING) /\ (CallsReceived(read) \/ TextReceived(read))
    <3>1. r.tools \in Seq(STRING)
      BY ToolTurnAssumption DEF Reply
    <3> DEFINE other == [text |-> NoText, stop |-> FALSE, tools |-> <<>>]
    <3>2. other.tools \in Seq(STRING)
      OBVIOUS
    <3>3. CallsReceived(r) \/ TextReceived(r) \/ CallsReceived(other) \/ TextReceived(other)
      BY <1>7, Zenon DEF ReplyReceived
    <3> QED  BY <3>1, <3>2, <3>3
  <2>3. CASE TextReceived(read)
    <3>1. step' = "reply" /\ UNCHANGED <<conv, calls, results>>
      BY <2>3 DEF TextReceived
    <3>2. CallsHeld'
      BY <1>0, <2>1, <3>1, CallsStay
    <3>3. TurnTypeOK'
      BY <1>0, <2>1, <3>1 DEF TurnTypeOK
    <3> QED  BY <1>0, <1>b, <2>1, <3>1, <3>2, <3>3 DEF TalkInv
  <2>4. CASE CallsReceived(read)
    <3> DEFINE c == Kept(read)
    <3>1. /\ calls' = c /\ results' = <<>> /\ conv' = Append(conv, Uses(c)) /\ step' = "tools"
      BY <2>4 DEF CallsReceived
    <3>2. c \in Seq(Call) /\ Len(c) <= MaxToolCalls
      BY <1>0, <2>2, KeptIs
    <3> HIDE DEF c
    <3>3. Uses(c) \in Talk /\ Uses(c).ids = c
      BY <3>2 DEF Uses, Talk
    <3>4. conv \in Seq(Talk) /\ CallsReturned(conv)
      BY <1>0, <2>1 DEF CallsHeld, CallsReturned
    <3> DEFINE n == Len(conv)
    <3>5. /\ conv' \in Seq(Talk) /\ n \in Nat /\ Len(conv') = n + 1 /\ conv'[n + 1] = Uses(c)
          /\ \A i \in 1 .. n : conv'[i] = conv[i]
      BY <3>1, <3>3, <3>4
    <3>6. CallsHeld'
      <4>1. ASSUME NEW i \in 1 .. n + 1, conv'[i].role = "assistant"
            PROVE  \/ i < n + 1 /\ conv'[i + 1] = Returns(conv'[i].ids)
                   \/ i = n + 1 /\ conv'[i].ids = c
        <5>1. CASE i \in 1 .. n
          <6>1. i < n /\ conv[i + 1] = Returns(conv[i].ids)
            BY <3>4, <3>5, <4>1, <5>1 DEF CallsReturned
          <6>2. i + 1 \in 1 .. n
            BY <3>5, <5>1, <6>1
          <6> QED  BY <3>5, <5>1, <6>1, <6>2
        <5>2. CASE i = n + 1
          BY <3>3, <3>5, <5>2
        <5> QED  BY <3>5, <5>1, <5>2
      <4>2. /\ results' \in Seq(Call) /\ Len(results') = 0 /\ calls' \in Seq(Call)
        BY <3>1, <3>2
      <4> QED  BY <3>1, <3>5, <4>1, <4>2 DEF CallsHeld
    <3>7. TurnTypeOK'
      <4>1. Len(results') = 0 /\ Len(calls') <= MaxToolCalls /\ Len(calls') \in Nat
        BY <3>1, <3>2
      <4> QED  BY <1>0, <2>1, <3>1, <4>1 DEF TurnTypeOK
    <3> QED  BY <1>0, <1>b, <2>1, <3>1, <3>6, <3>7 DEF TalkInv
  <2> QED  BY <2>2, <2>3, <2>4
<1>8. CASE ToolRuns
  <2>1. /\ step = "tools" /\ step' = "tools" /\ Len(results) < Len(calls)
        /\ UNCHANGED <<provider, turn, conv, round, request, calls, asked>>
        /\ results' = Append(results, NextCall) /\ fallback' \in {fallback, asked}
        /\ waits' \subseteq sent'
    BY <1>0, <1>8 DEF ToolRuns, ToolBlocked, ToolExecuted, Answered, MeshTakes, MeshRefuses, TurnTypeOK
  <2>2. /\ calls \in Seq(Call) /\ results \in Seq(Call) /\ Len(results) \in Nat /\ Len(calls) \in Nat
        /\ \A k \in 1 .. Len(results) : results[k] = calls[k]
    BY <1>0 DEF CallsHeld
  <2> DEFINE n == Len(results)
  <2>3. n + 1 \in 1 .. Len(calls) /\ NextCall = calls[n + 1] /\ NextCall \in Call
    <3>1. n + 1 \in 1 .. Len(calls)
      BY <2>1, <2>2
    <3>2. calls[n + 1] \in Call
      BY <2>2, <3>1
    <3> QED  BY <3>1, <3>2 DEF NextCall
  <2>4. /\ results' \in Seq(Call) /\ Len(results') = n + 1 /\ results'[n + 1] = calls[n + 1]
        /\ \A k \in 1 .. n : results'[k] = results[k]
    BY <2>1, <2>2, <2>3
  <2>5. \A k \in 1 .. Len(results') : results'[k] = calls'[k]
    BY <2>1, <2>2, <2>4
  <2>6. CallsHeld'
    BY <1>0, <2>1, <2>4, <2>5 DEF CallsHeld
  <2>7. TurnTypeOK'
    BY <1>0, <2>1, <2>2, <2>4 DEF TurnTypeOK
  <2> QED  BY <1>0, <1>a, <2>1, <2>6, <2>7 DEF TalkInv
<1>9. CASE ToolsDone
  <2>1. /\ step = "tools" /\ step' = "build" /\ Len(results) = Len(calls)
        /\ conv' = Append(conv, Returns(results)) /\ calls' = <<>> /\ results' = <<>>
        /\ round' = round + 1
        /\ UNCHANGED <<provider, turn, fallback, request, asked, sent, waits>>
    BY <1>9 DEF ToolsDone
  <2>2. /\ conv \in Seq(Talk) /\ calls \in Seq(Call) /\ results \in Seq(Call)
        /\ \A k \in 1 .. Len(results) : results[k] = calls[k]
        /\ \A i \in 1 .. Len(conv) : conv[i].role = "assistant" =>
              \/ i < Len(conv) /\ conv[i + 1] = Returns(conv[i].ids)
              \/ i = Len(conv) /\ conv[i].ids = calls
    BY <1>0 DEF CallsHeld
  <2>3. results = calls
    BY <2>1, <2>2, SeqEqual
  <2>4. Returns(results) \in Talk /\ Returns(results).role # "assistant"
    BY <2>2 DEF Returns, Talk
  <2> DEFINE n == Len(conv)
  <2>5. /\ conv' \in Seq(Talk) /\ n \in Nat /\ Len(conv') = n + 1 /\ conv'[n + 1] = Returns(results)
        /\ \A i \in 1 .. n : conv'[i] = conv[i]
    BY <2>1, <2>2, <2>4
  <2>6. ASSUME NEW i \in 1 .. n + 1, conv'[i].role = "assistant"
        PROVE  i < n + 1 /\ conv'[i + 1] = Returns(conv'[i].ids)
    <3>1. i \in 1 .. n
      BY <2>4, <2>5, <2>6
    <3>2. CASE i < n
      <4>1. i + 1 \in 1 .. n /\ conv[i + 1] = Returns(conv[i].ids)
        BY <2>2, <2>5, <2>6, <3>1, <3>2
      <4> QED  BY <2>5, <3>1, <4>1
    <3>3. CASE i = n
      <4>1. conv[i].ids = calls
        BY <2>2, <2>5, <2>6, <3>1, <3>3
      <4> QED  BY <2>3, <2>5, <3>1, <3>3, <4>1
    <3> QED  BY <2>5, <3>1, <3>2, <3>3
  <2>7. CallsHeld'
    <3>1. calls' \in Seq(Call) /\ results' \in Seq(Call) /\ Len(results') = 0
      BY <2>1
    <3> QED  BY <2>1, <2>5, <2>6, <3>1 DEF CallsHeld
  <2>8. TurnTypeOK'
    <3>1. Len(calls') = 0 /\ Len(results') = 0
      BY <2>1
    <3> QED  BY <1>0, <2>1, <3>1, ToolTurnAssumption DEF TurnTypeOK
  <2> QED  BY <1>0, <1>a, <2>1, <2>7, <2>8 DEF TalkInv
<1>10. CASE Replies
  <2>1. /\ step = "reply" /\ step' = "idle" /\ turn' = NoTurn /\ conv' = <<>> /\ round' = 0
        /\ UNCHANGED <<provider, fallback, request, calls, results, waits, asked, sent>>
    BY <1>10 DEF Replies
  <2>2. calls' = <<>> /\ results' = <<>>
    BY <1>0, <2>1 DEF CallsHeld
  <2>3. CallsHeld'
    BY <2>1, <2>2, NothingHeld
  <2>4. TurnTypeOK'
    BY <1>0, <2>1 DEF TurnTypeOK, NoTurn
  <2> QED  BY <1>0, <1>a, <2>1, <2>3, <2>4 DEF TalkInv
<1>11. CASE \/ \E c \in waits : ResultDropped(c)
            \/ \E p \in Provider : ProviderSet(p)
            \/ UNCHANGED turnVars
  <2>1. /\ UNCHANGED <<turn, step, conv, round, fallback, request, calls, results, asked, sent>>
        /\ provider' \in Provider /\ waits' \subseteq waits
    BY <1>0, <1>11 DEF ResultDropped, ProviderSet, turnVars, TurnTypeOK
  <2>2. CallsHeld'
    BY <1>0, <2>1, CallsStay
  <2>3. TurnTypeOK'
    BY <1>0, <2>1 DEF TurnTypeOK
  <2> QED  BY <1>0, <1>a, <2>1, <2>2, <2>3 DEF TalkInv
<1>12. ASSUME NEW a \in Ask, AskArrives(a) PROVE TalkInv'
  <2>1. a.kind \in {"user", "proactive"}
    BY ToolTurnAssumption
  <2> QED  BY <1>1, <1>12, <2>1 DEF AskArrives
<1>13. ASSUME NEW c, NEW form, ResultArrives(c, form) PROVE TalkInv'
  <2> DEFINE m == [kind |-> "result", system |-> FALSE, words |-> ResultWords(c, form)]
  <2>1. m.kind = "result" /\ MessageTaken(m) /\ waits' \subseteq waits
    BY <1>13 DEF ResultArrives
  <2> QED  BY <1>1, <2>1
<1> QED
  BY <1>2, <1>3, <1>4, <1>5, <1>6, <1>7, <1>8, <1>9, <1>10, <1>11, <1>12, <1>13
  DEF TurnNext, AgentStep

\* Every request asks the service about a conversation in which each call has its result, in the
\* order of the calls and right after them (build_tool_results, convert_messages_openai), for any
\* replies of the model, any number of rounds and calls, and any switches of the provider.
THEOREM CallsAnswered == TurnSpec => [](TurnTypeOK /\ EveryCallAnswered)
<1>1. TalkInv => TurnTypeOK /\ EveryCallAnswered
  BY DEF TalkInv
<1> QED  BY <1>1, TalkInvInit, TalkInvStep, PTL DEF TurnSpec
=============================================================================
