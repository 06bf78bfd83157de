----------------------------- MODULE Links_proofs -----------------------------
(***************************************************************************)
(* Proofs about a board's connections, each for every value of their       *)
(* constants: what Feishu is told has been handled (FeishuLink), that      *)
(* every open I2C port has its holder (EnvSensors), what makes a job vanish*)
(* (Cron), that s_connected is true (Wifi); and the last of these for all  *)
(* of them side by side, as the module MCLinks runs them.                  *)
(***************************************************************************)
EXTENDS MCLinks, FiniteSetTheorems, SequenceTheorems, TLAPS

-----------------------------------------------------------------------------
(* FeishuLink. *)

Fragment == [msg : FsMsg \cup {NoMsg}, at : 0 .. FsParts]
Buffer   == [1 .. FsParts -> FsMsg \cup {NoMsg}]

\* A control frame comes without a number.
IsData(f) == f.msg # NoMsg

\* Fragment a is still to come before the one at i.
Coming(a, i) == \E h \in 1 .. Len(inFlight) : h < i /\ IsData(inFlight[h]) /\ inFlight[h].at = a

\* Fragment a of m has been received, or there was no memory for the frame.
Received(m, a) ==
    /\ \A h \in 1 .. Len(inFlight) : IsData(inFlight[h]) => a < inFlight[h].at
    /\ rxBuf = <<>> \/ rxBuf[a] = m

\* What is in flight is of one message and in order, and what is before it in the frame is
\* before it in flight or has been received.
OneFrame(m) ==
    /\ \A i \in 1 .. Len(inFlight) :
          IF IsData(inFlight[i]) THEN inFlight[i].msg = m /\ inFlight[i].at > 0
          ELSE inFlight[i].at = 0
    /\ \A h, i \in 1 .. Len(inFlight) :
          h < i /\ IsData(inFlight[h]) /\ IsData(inFlight[i]) => inFlight[h].at < inFlight[i].at
    /\ \A i \in 1 .. Len(inFlight) : IsData(inFlight[i]) =>
          \A a \in 1 .. FsParts : a < inFlight[i].at => Coming(a, i) \/ Received(m, a)

\* What has been handled, or was not for want of memory.
FsSeen == handled \cup unparsed

\* The inductive invariant.
FsInv ==
    /\ inFlight \in Seq(Fragment)
    /\ rxBuf \in Buffer \cup {<<>>}
    /\ inFlight # <<>> => \E m \in FsMsg : OneFrame(m)
    /\ ackTasks \subseteq FsSeen /\ acked \subseteq FsSeen
    /\ rxTask.pc = "ack" => rxTask.msg \in FsSeen
    /\ ~mixed

LEMMA FsInvInit == FsInit => FsInv
BY DEF FsInit, FsInv, FsSeen, Quiet

\* A frame that is sent is in order.
LEMMA SentInOrder ==
    ASSUME NEW m \in FsMsg, FsSends(m)
    PROVE  inFlight' \in Seq(Fragment) /\ OneFrame(m)'
<1> USE FsAssumption
<1> DEFINE frags == [i \in 1 .. FsParts |-> [msg |-> m, at |-> i]]
           first == <<frags[1], [msg |-> NoMsg, at |-> 0]>>
<1>1. frags \in Seq(Fragment) /\ Len(frags) = FsParts /\ m # NoMsg
  BY DEF Fragment
<1>2. \A i \in 1 .. FsParts : frags[i].msg = m /\ frags[i].at = i
  OBVIOUS
<1>3. CASE inFlight' = frags
  <2>1. Len(inFlight') = FsParts
    BY <1>1, <1>3
  <2> HIDE DEF frags
  <2>2. \A i \in 1 .. FsParts : inFlight'[i].msg = m /\ inFlight'[i].at = i
    BY <1>2, <1>3
  <2>3. \A i \in 1 .. FsParts : \A a \in 1 .. FsParts : a < i => Coming(a, i)'
    BY <1>1, <2>1, <2>2 DEF Coming, IsData
  <2> QED  BY <1>1, <1>3, <2>1, <2>2, <2>3 DEF OneFrame, IsData
<1>4. CASE inFlight' = first \o Tail(frags)
  <2>1. /\ first \in Seq(Fragment) /\ Len(first) = 2 /\ first[1] = frags[1]
        /\ first[2].msg = NoMsg /\ first[2].at = 0
    BY <1>1 DEF Fragment
  <2>2. /\ Tail(frags) \in Seq(Fragment) /\ Len(Tail(frags)) = FsParts - 1
        /\ \A i \in 1 .. FsParts - 1 : Tail(frags)[i] = frags[i + 1]
    BY <1>1
  <2> HIDE DEF frags, first
  <2>a. /\ inFlight' \in Seq(Fragment) /\ Len(inFlight') = Len(first) + Len(Tail(frags))
        /\ \A i \in 1 .. Len(first) + Len(Tail(frags)) :
              inFlight'[i] = IF i <= Len(first) THEN first[i] ELSE Tail(frags)[i - Len(first)]
    BY <1>4, <2>1, <2>2, ConcatProperties
  <2>3. inFlight' \in Seq(Fragment) /\ Len(inFlight') = FsParts + 1
    BY <2>a, <2>1, <2>2
  <2>4. inFlight'[1] = frags[1] /\ inFlight'[2] = first[2]
    BY <2>a, <2>1, <2>2
  <2>5. \A i \in 3 .. FsParts + 1 : inFlight'[i] = frags[i - 1]
    BY <2>a, <2>1, <2>2
  <2>6. /\ inFlight'[1].msg = m /\ inFlight'[1].at = 1
        /\ inFlight'[2].msg = NoMsg /\ inFlight'[2].at = 0
        /\ \A i \in 3 .. FsParts + 1 : inFlight'[i].msg = m /\ inFlight'[i].at = i - 1
    BY <1>2, <2>1, <2>4, <2>5
  <2>7. \A i \in 1 .. FsParts + 1 : i # 2 =>
           \A a \in 1 .. FsParts : a < inFlight'[i].at => Coming(a, i)'
    <3> SUFFICES ASSUME NEW i \in 1 .. FsParts + 1, i # 2, NEW a \in 1 .. FsParts,
                        a < inFlight'[i].at
                 PROVE  Coming(a, i)'
      OBVIOUS
    <3>1. i >= 3 /\ a < i - 1
      BY <2>6
    <3>2. CASE a = 1
      BY <1>1, <2>3, <2>6, <3>1, <3>2 DEF Coming, IsData
    <3>3. CASE a # 1
      <4>1. a + 1 \in 3 .. FsParts + 1 /\ a + 1 < i
        BY <3>1, <3>3
      <4>2. inFlight'[a + 1].msg = m /\ inFlight'[a + 1].at = a
        BY <2>6, <4>1
      <4> QED  BY <1>1, <2>3, <4>1, <4>2 DEF Coming, IsData
    <3> QED  BY <3>2, <3>3
  <2>8. \A i \in 1 .. FsParts + 1 : IF i = 2 THEN inFlight'[i].msg = NoMsg /\ inFlight'[i].at = 0
                                    ELSE inFlight'[i].msg = m /\ inFlight'[i].at > 0
    BY <2>6
  <2>9. \A h, i \in 1 .. FsParts + 1 :
           h < i /\ h # 2 /\ i # 2 => inFlight'[h].at < inFlight'[i].at
    BY <2>6
  <2>10. \A i \in 1 .. FsParts + 1 : IsData(inFlight'[i]) <=> i # 2
    BY <1>1, <2>8 DEF IsData
  <2> QED  BY <2>3, <2>7, <2>8, <2>9, <2>10 DEF OneFrame, IsData
<1>5. inFlight' = frags \/ inFlight' = first \o Tail(frags)
  BY Zenon DEF FsSends
<1> HIDE DEF frags, first
<1> QED  BY <1>3, <1>4, <1>5

\* The fragment that comes first: what follows it is still one frame, and the last one
\* completes a buffer that is all of the one message.
LEMMA FragmentInOrder ==
    ASSUME FsInv, FragmentComes
    PROVE  FsInv'
<1> USE FsAssumption
<1>0. PICK m \in FsMsg : OneFrame(m)
  BY DEF FragmentComes, FsInv
<1> DEFINE f == Head(inFlight)
<1>1. /\ inFlight \in Seq(Fragment) /\ inFlight # <<>> /\ inFlight' = Tail(inFlight)
      /\ UNCHANGED <<ackTasks, handled, unparsed, acked>>
  BY DEF FragmentComes, FsInv
<1>2. /\ inFlight' \in Seq(Fragment) /\ Len(inFlight') = Len(inFlight) - 1 /\ Len(inFlight) > 0
      /\ \A i \in 1 .. Len(inFlight') : inFlight'[i] = inFlight[i + 1]
      /\ f = inFlight[1] /\ f \in Fragment /\ 1 \in 1 .. Len(inFlight)
  BY <1>1
<1>3. /\ f.msg \in {m, NoMsg} /\ m # NoMsg
      /\ f.msg = m => f.at \in 1 .. FsParts
      /\ f.msg = NoMsg => f.at = 0
  BY <1>0, <1>2 DEF OneFrame, IsData, Fragment
\* The buffer after the fragment, before it is handed on.
<1> DEFINE After(b) == CASE f.msg = NoMsg -> b = rxBuf
                         [] f.at = 1      -> b \in NewBuffers(f.msg)
                         [] rxBuf = <<>>  -> b = <<>>
                         [] OTHER         -> b = [rxBuf EXCEPT ![f.at] = f.msg]
<1> HIDE DEF f
<1>4. PICK b : /\ After(b)
               /\ IF f.at = FsParts /\ b # <<>>
                  THEN /\ rxBuf' = <<>>
                       /\ mixed' = (mixed \/ \E i \in 1 .. FsParts : b[i] # f.msg)
                       /\ rxTask' = [pc |-> "handle", msg |-> f.msg]
                  ELSE rxBuf' = b /\ UNCHANGED <<mixed, rxTask>>
  BY DEF FragmentComes, f
<1>5. b \in Buffer \cup {<<>>}
  BY <1>0, <1>3, <1>4 DEF FsInv, NewBuffers, Buffer
<1>6. f.msg = m => b = <<>> \/ b[f.at] = m
  BY <1>3, <1>4 DEF FsInv, NewBuffers, Buffer
<1>7. ASSUME NEW a \in 1 .. FsParts, \A h \in 1 .. Len(inFlight) : IsData(inFlight[h]) => a < inFlight[h].at,
             rxBuf = <<>> \/ rxBuf[a] = m
      PROVE  b = <<>> \/ b[a] = m
  <2>1. f.msg = m => a < f.at
    BY <1>2, <1>3, <1>7 DEF IsData
  <2> QED  BY <1>3, <1>4, <1>7, <2>1 DEF FsInv, NewBuffers, Buffer
<1>8. rxBuf' \in {b, <<>>}
  BY <1>4
<1>9. OneFrame(m)'
  <2>1. \A i \in 1 .. Len(inFlight') : i + 1 \in 1 .. Len(inFlight) /\ inFlight'[i] = inFlight[i + 1]
    BY <1>2
  <2>2. ASSUME NEW i \in 1 .. Len(inFlight'), IsData(inFlight'[i]), NEW a \in 1 .. FsParts,
               a < inFlight'[i].at
        PROVE  Coming(a, i)' \/ Received(m, a)'
    <3>1. Coming(a, i + 1) \/ Received(m, a)
      BY <1>0, <2>1, <2>2 DEF OneFrame
    <3>2. CASE Received(m, a)
      <4>1. rxBuf' = <<>> \/ rxBuf'[a] = m
        BY <1>7, <1>8, <3>2 DEF Received
      <4> QED  BY <2>1, <3>2, <4>1 DEF Received, IsData
    <3>3. CASE Coming(a, i + 1)
      <4>1. PICK h \in 1 .. Len(inFlight) : h < i + 1 /\ IsData(inFlight[h]) /\ inFlight[h].at = a
        BY <3>3 DEF Coming
      <4>2. CASE h = 1
        <5>1. f.msg = m /\ f.at = a
          BY <1>2, <1>3, <4>1, <4>2 DEF IsData
        <5>2. \A g \in 1 .. Len(inFlight') : IsData(inFlight'[g]) => a < inFlight'[g].at
          BY <1>0, <1>2, <2>1, <4>1, <4>2, SMTT(60) DEF OneFrame
        <5> QED  BY <1>6, <1>8, <5>1, <5>2 DEF Received, IsData
      <4>3. CASE h # 1
        <5>1. h - 1 \in 1 .. Len(inFlight') /\ h - 1 < i /\ inFlight'[h - 1] = inFlight[h]
          BY <1>2, <4>1, <4>3
        <5> QED  BY <4>1, <5>1 DEF Coming, IsData
      <4> QED  BY <4>2, <4>3
    <3> QED  BY <3>1, <3>2, <3>3
  <2>3. \A i \in 1 .. Len(inFlight') :
           IF IsData(inFlight'[i]) THEN inFlight'[i].msg = m /\ inFlight'[i].at > 0
           ELSE inFlight'[i].at = 0
    BY <1>0, <2>1 DEF OneFrame
  <2>4. \A h, i \in 1 .. Len(inFlight') :
           h < i /\ IsData(inFlight'[h]) /\ IsData(inFlight'[i]) => inFlight'[h].at < inFlight'[i].at
    <3> SUFFICES ASSUME NEW h \in 1 .. Len(inFlight'), NEW i \in 1 .. Len(inFlight'),
                        h < i, IsData(inFlight'[h]), IsData(inFlight'[i])
                 PROVE  inFlight'[h].at < inFlight'[i].at
      OBVIOUS
    <3>1. h + 1 < i + 1
      OBVIOUS
    <3> QED  BY <1>0, <2>1, <3>1 DEF OneFrame
  <2> QED  BY <2>2, <2>3, <2>4 DEF OneFrame, IsData
<1>10. ~mixed'
  <2>1. CASE f.at = FsParts /\ b # <<>>
    <3>1. f.msg = m
      BY <1>3, <2>1
    <3>2. ASSUME NEW a \in 1 .. FsParts PROVE b[a] = m
      <4>1. CASE a = f.at
        BY <1>6, <2>1, <3>1, <4>1
      <4>2. CASE a # f.at
        <5>1. a < f.at
          BY <2>1, <4>2
        <5>2. ~Coming(a, 1)
          BY DEF Coming
        <5>3. Received(m, a)
          BY <1>0, <1>2, <1>3, <3>1, <5>1, <5>2 DEF OneFrame, IsData
        <5> QED  BY <1>7, <2>1, <5>3 DEF Received
      <4> QED  BY <4>1, <4>2
    <3> QED  BY <1>4, <2>1, <3>1, <3>2 DEF FsInv
  <2>2. CASE ~(f.at = FsParts /\ b # <<>>)
    BY <1>4, <2>2 DEF FsInv
  <2> QED  BY <2>1, <2>2
<1>11. rxTask'.pc = "ack" => rxTask'.msg \in FsSeen'
  BY <1>1, <1>4 DEF FsInv, FsSeen
<1>12. ackTasks' \subseteq FsSeen' /\ acked' \subseteq FsSeen'
  BY <1>1 DEF FsInv, FsSeen
<1> QED  BY <1>2, <1>5, <1>8, <1>9, <1>10, <1>11, <1>12 DEF FsInv

LEMMA FsInvStep == FsInv /\ [FsNext]_fsVars => FsInv'
<1> SUFFICES ASSUME FsInv, [FsNext]_fsVars PROVE FsInv'
  OBVIOUS
<1>1. CASE FragmentComes
  BY <1>1, FragmentInOrder
<1>2. ASSUME NEW m \in FsMsg, FsSends(m) PROVE FsInv'
  <2>1. UNCHANGED <<rxBuf, rxTask, handled, unparsed, mixed, ackTasks, acked>>
    BY <1>2 DEF FsSends, fsRx
  <2>2. inFlight' \in Seq(Fragment) /\ \E n \in FsMsg : OneFrame(n)'
    BY <1>2, SentInOrder
  <2> QED  BY <2>1, <2>2 DEF FsInv, FsSeen
<1>3. ASSUME inFlight' = inFlight \/ inFlight' = <<>>, rxBuf' = rxBuf \/ inFlight' = <<>>,
             rxBuf' \in {rxBuf, <<>>},
             acked' \cup ackTasks' \subseteq FsSeen', rxTask'.pc = "ack" => rxTask'.msg \in FsSeen',
             mixed' = mixed
      PROVE  FsInv'
  <2>1. inFlight' # <<>> => \E m \in FsMsg : OneFrame(m)'
    <3> SUFFICES ASSUME inFlight' # <<>> PROVE \E m \in FsMsg : OneFrame(m)'
      OBVIOUS
    <3>1. inFlight' = inFlight /\ rxBuf' = rxBuf
      BY <1>3
    <3>2. PICK m \in FsMsg : OneFrame(m)
      BY <3>1 DEF FsInv
    <3> QED  BY <3>1, <3>2 DEF OneFrame, Coming, Received
  <2>2. inFlight' \in Seq(Fragment)
    <3>1. inFlight \in Seq(Fragment) /\ <<>> \in Seq(Fragment)
      BY DEF FsInv
    <3>2. inFlight' = inFlight \/ inFlight' = <<>>
      BY <1>3
    <3> QED  BY <3>1, <3>2
  <2>3. rxBuf' \in Buffer \cup {<<>>}
    BY <1>3 DEF FsInv
  <2>4. ackTasks' \subseteq FsSeen' /\ acked' \subseteq FsSeen' /\ ~mixed'
    BY <1>3 DEF FsInv
  <2> QED  BY <1>3, <2>1, <2>2, <2>3, <2>4, Zenon DEF FsInv
<1>4. CASE WsConfigured \/ WsStarted \/ WsSeen \/ WsGivesUp \/ WireUp \/ WireTold
  <2>1. UNCHANGED <<inFlight, rxBuf, rxTask, handled, unparsed, mixed, ackTasks, acked>>
    BY <1>4 DEF WsConfigured, WsStarted, WsSeen, WsGivesUp, WireUp, WireTold, fsRx
  <2> QED  BY <1>3, <2>1 DEF FsInv, FsSeen
<1>5. CASE WsStopped \/ WireDown
  <2>1. inFlight' = <<>> /\ UNCHANGED <<rxBuf, rxTask, handled, unparsed, mixed, ackTasks, acked>>
    BY <1>5 DEF WsStopped, WireDown, fsRx
  <2> QED  BY <1>3, <2>1 DEF FsInv, FsSeen
<1>6. CASE FrameHandled
  <2>1. /\ FsSeen' = FsSeen \cup {rxTask.msg} /\ rxTask' = [rxTask EXCEPT !.pc = "ack"]
        /\ UNCHANGED <<inFlight, rxBuf, mixed, ackTasks, acked>>
    BY <1>6 DEF FrameHandled, FsSeen
  <2>2. rxTask'.msg = rxTask.msg
    BY <2>1
  <2> QED  BY <1>3, <2>1, <2>2 DEF FsInv, FsSeen
<1>7. CASE FrameAcked
  <2>1. /\ rxTask.pc = "ack" /\ ackTasks' \subseteq ackTasks \cup {rxTask.msg} /\ rxTask'.pc = "idle"
        /\ UNCHANGED <<inFlight, rxBuf, handled, unparsed, mixed, acked>>
    BY <1>7 DEF FrameAcked, Quiet
  <2> QED  BY <1>3, <2>1 DEF FsInv, FsSeen
<1>8. ASSUME NEW m \in FsMsg, AckSent(m) PROVE FsInv'
  <2>1. /\ m \in ackTasks /\ ackTasks' \subseteq ackTasks /\ acked' \subseteq acked \cup {m}
        /\ UNCHANGED <<inFlight, rxBuf, rxTask, handled, unparsed, mixed>>
    BY <1>8 DEF AckSent, fsRx
  <2> QED  BY <1>3, <2>1 DEF FsInv, FsSeen
<1>9. CASE FsReboot
  <2>1. /\ inFlight' = <<>> /\ rxBuf' = <<>> /\ rxTask'.pc = "idle" /\ ackTasks' = {}
        /\ UNCHANGED <<handled, unparsed, acked, mixed>>
    BY <1>9 DEF FsReboot, Quiet
  <2> QED  BY <1>3, <2>1 DEF FsInv, FsSeen
<1>10. CASE UNCHANGED fsVars
  <2>1. UNCHANGED <<inFlight, rxBuf, rxTask, handled, unparsed, mixed, ackTasks, acked>>
    BY <1>10 DEF fsVars
  <2> QED  BY <1>3, <2>1 DEF FsInv, FsSeen
<1> QED
  BY <1>1, <1>2, <1>4, <1>5, <1>6, <1>7, <1>8, <1>9, <1>10 DEF FsNext, WsTaskStep, RxStep

\* What Feishu was told, or is about to be told, has been handled, or was not for want of
\* memory, and nothing handled is made of two messages (feishu_bot.c), for any number of messages, fragments, connections lost
\* and reboots.
THEOREM AckedHolds == FsSpec => []AckedIsHandled
<1>1. FsInv => AckedIsHandled
  BY DEF FsInv, FsSeen, AckedIsHandled
<1> QED  BY <1>1, FsInvInit, FsInvStep, PTL DEF FsSpec
-----------------------------------------------------------------------------
(* EnvSensors. *)

Owner  == Sensor \cup {"free", "air", "diagnosis"}
Handle == [bus : Place \cup {NoPlace}, dev : BOOLEAN, at : Place \cup {NoPlace}]

\* The ports pt that are a sensor's are those on the handles e, and the others' are h's.
HeldBy(pt, e) == \A p \in Port, s \in Sensor : pt[p] = s <=> e[s].bus.port = p
HeldAs(pt, who, h) == \A p \in Port : pt[p] = who <=> h.bus.port = p

\* The task a is between taking the mutex and giving it back.
Locked(a) == doing[a][1] \in {"open", "make", "read", "check"}

\* A sensor that is about to be opened is closed.  The agent has closed all that it will still
\* open, and those it has opened have their devices.
MakesRight(a) == \A s \in Sensor : doing[a] = <<"make", s>> => env[s].bus = NoPlace
AgentRight ==
    /\ \A s \in Sensor : doing["agent"] = <<"read", s>> => \A t \in Sensor : env[t].dev
    /\ doing["agent"] = <<"make", "aht">> => \A t \in Sensor : env[t].bus = NoPlace
    /\ doing["agent"] = <<"make", "sgp">> => env["aht"].dev /\ env["gy"].bus = NoPlace
    /\ doing["agent"] = <<"make", "gy">> => env["aht"].dev /\ env["sgp"].dev

Diagnoses == \A p \in Port : ports[p] = "diagnosis" <=> doing["agent"] = <<"diagnose", p>>
ReadsOpen == \A a \in EnvTask, s \in Sensor : doing[a] = <<"read", s>> => env[s].dev

\* The inductive invariant.
EnvInv ==
    /\ ports \in [Port -> Owner] /\ env \in [Sensor -> Handle] /\ airDev \in Handle
    /\ want \in [Sensor -> Place] /\ doing = [a \in EnvTask |-> doing[a]]
    /\ HeldBy(ports, env) /\ HeldAs(ports, "air", airDev) /\ Diagnoses
    /\ \A a \in EnvTask : Locked(a) => envLock = a
    /\ \A a \in EnvTask : MakesRight(a)
    /\ ReadsOpen /\ AgentRight

LEMMA NoPlaceIsNone == NoPlace.port \notin Port /\ NoPlace \notin Place
BY DEF NoPlace, Port, Place, Pins

LEMMA ClosedIsHandle == Closed \in Handle /\ Closed.bus = NoPlace
BY DEF Closed, Handle

\* What is freed goes from its port only, and its holder no longer refers to it.
LEMMA FreedPorts ==
    ASSUME NEW pt \in [Port -> Owner], NEW h \in Handle
    PROVE  /\ Freed(h, pt) \in [Port -> Owner]
           /\ \A p \in Port : Freed(h, pt)[p] = IF h.bus.port = p THEN "free" ELSE pt[p]
<1>1. CASE h.bus = NoPlace
  BY <1>1, NoPlaceIsNone DEF Freed
<1>2. CASE h.bus # NoPlace
  <2>1. h.bus \in Place
    BY <1>2 DEF Handle
  <2>2. h.bus.port \in Port
    BY <2>1 DEF Place
  <2>3. Freed(h, pt) = [pt EXCEPT ![h.bus.port] = "free"]
    BY <1>2 DEF Freed
  <2>4. "free" \in Owner
    BY DEF Owner
  <2> QED  BY <2>2, <2>3, <2>4
<1> QED  BY <1>1, <1>2

LEMMA WordsDiffer ==
    /\ "free" \in Owner /\ "air" \in Owner /\ "diagnosis" \in Owner /\ Sensor \subseteq Owner
    /\ "free" \notin Sensor /\ "air" \notin Sensor /\ "diagnosis" \notin Sensor
    /\ "free" # "air" /\ "free" # "diagnosis" /\ "air" # "diagnosis"
BY DEF Owner, Sensor

\* A sensor is closed, and its bus freed.
LEMMA ClosingHolds ==
    ASSUME ports \in [Port -> Owner], env \in [Sensor -> Handle], HeldBy(ports, env),
           NEW s \in Sensor, ports' = Freed(env[s], ports), env' = [env EXCEPT ![s] = Closed]
    PROVE  /\ ports' \in [Port -> Owner] /\ env' \in [Sensor -> Handle] /\ HeldBy(ports', env')
           /\ \A p \in Port : \A who \in {"air", "diagnosis"} : ports'[p] = who <=> ports[p] = who
<1>1. env[s] \in Handle
  OBVIOUS
<1>2. /\ ports' \in [Port -> Owner]
      /\ \A p \in Port : ports'[p] = IF env[s].bus.port = p THEN "free" ELSE ports[p]
  BY <1>1, FreedPorts
<1>3. env' \in [Sensor -> Handle] /\ env'[s] = Closed /\ \A t \in Sensor : t # s => env'[t] = env[t]
  BY ClosedIsHandle
<1>4. \A p \in Port : env[s].bus.port = p => ports[p] = s
  BY DEF HeldBy
<1>5. ASSUME NEW p \in Port, NEW t \in Sensor PROVE ports'[p] = t <=> env'[t].bus.port = p
  <2>1. ports[p] = t <=> env[t].bus.port = p
    BY DEF HeldBy
  <2>2. ports[p] = s <=> env[s].bus.port = p
    BY DEF HeldBy
  <2>3. CASE t = s
    BY <1>2, <1>3, <2>2, <2>3, ClosedIsHandle, NoPlaceIsNone, WordsDiffer
  <2>4. CASE t # s
    BY <1>2, <1>3, <2>1, <2>2, <2>4, WordsDiffer
  <2> QED  BY <2>3, <2>4
<1>6. HeldBy(ports', env')
  BY <1>5 DEF HeldBy
<1>7. \A p \in Port : \A who \in {"air", "diagnosis"} : ports'[p] = who <=> ports[p] = who
  BY <1>2, <1>4, WordsDiffer
<1> QED  BY <1>2, <1>3, <1>6, <1>7

\* A sensor that was closed is opened on a free port.
LEMMA OpeningHolds ==
    ASSUME ports \in [Port -> Owner], env \in [Sensor -> Handle], HeldBy(ports, env),
           NEW s \in Sensor, env[s].bus = NoPlace, NEW at \in Port, ports[at] = "free",
           ports' = [ports EXCEPT ![at] = s], env' \in [Sensor -> Handle],
           env'[s].bus.port = at, \A t \in Sensor : t # s => env'[t].bus = env[t].bus
    PROVE  /\ ports' \in [Port -> Owner] /\ HeldBy(ports', env')
           /\ \A p \in Port : \A who \in {"air", "diagnosis"} : ports'[p] = who <=> ports[p] = who
<1>1. /\ ports' \in [Port -> Owner]
      /\ \A p \in Port : ports'[p] = IF at = p THEN s ELSE ports[p]
  BY WordsDiffer
<1>3. ASSUME NEW p \in Port, NEW t \in Sensor PROVE ports'[p] = t <=> env'[t].bus.port = p
  <2>1. (ports[p] = t <=> env[t].bus.port = p) /\ (ports[p] = s <=> env[s].bus.port = p)
    BY DEF HeldBy
  <2>2. ports[p] # s
    BY <2>1, NoPlaceIsNone
  <2> QED  BY <1>1, <2>1, <2>2, WordsDiffer
<1>4. \A p \in Port : \A who \in {"air", "diagnosis"} : ports'[p] = who <=> ports[p] = who
  BY <1>1, WordsDiffer
<1> QED  BY <1>1, <1>3, <1>4 DEF HeldBy

\* All sensors are closed, as the agent does it.
LEMMA ClosingAllHolds ==
    ASSUME ports \in [Port -> Owner], env \in [Sensor -> Handle], HeldBy(ports, env)
    PROVE  /\ AllFreed \in [Port -> Owner]
           /\ [s \in Sensor |-> Closed] \in [Sensor -> Handle]
           /\ HeldBy(AllFreed, [s \in Sensor |-> Closed])
           /\ \A p \in Port : \A who \in {"air", "diagnosis"} : AllFreed[p] = who <=> ports[p] = who
           /\ \A p \in Port : ports[p] = "free" => AllFreed[p] = "free"
<1> DEFINE p1 == Freed(env["gy"], ports)
           p2 == Freed(env["sgp"], p1)
           p3 == Freed(env["aht"], p2)
           e3 == [s \in Sensor |-> Closed]
<1>0. env["gy"] \in Handle /\ env["sgp"] \in Handle /\ env["aht"] \in Handle
  BY DEF Sensor
<1>1. /\ p1 \in [Port -> Owner]
      /\ \A p \in Port : p1[p] = IF env["gy"].bus.port = p THEN "free" ELSE ports[p]
  BY <1>0, FreedPorts
<1> HIDE DEF p1
<1>2. /\ p2 \in [Port -> Owner]
      /\ \A p \in Port : p2[p] = IF env["sgp"].bus.port = p THEN "free" ELSE p1[p]
  BY <1>0, <1>1, FreedPorts
<1> HIDE DEF p2
<1>3. /\ p3 \in [Port -> Owner]
      /\ \A p \in Port : p3[p] = IF env["aht"].bus.port = p THEN "free" ELSE p2[p]
  BY <1>0, <1>2, FreedPorts
<1> HIDE DEF p3
<1>4. p3 = AllFreed
  BY DEF p1, p2, p3, AllFreed
<1>5. \A p \in Port : p3[p] = IF \E s \in Sensor : env[s].bus.port = p THEN "free" ELSE ports[p]
  BY <1>1, <1>2, <1>3 DEF Sensor
<1>6. \A p \in Port, s \in Sensor : ports[p] = s => env[s].bus.port = p
  BY DEF HeldBy
<1>7. \A p \in Port, s \in Sensor : p3[p] # s
  BY <1>5, <1>6, WordsDiffer
<1>8. e3 \in [Sensor -> Handle] /\ \A s \in Sensor : e3[s].bus.port \notin Port
  BY ClosedIsHandle, NoPlaceIsNone
<1> HIDE DEF e3
<1>9. HeldBy(p3, e3)
  BY <1>7, <1>8 DEF HeldBy
<1>10. \A p \in Port : \A who \in {"air", "diagnosis"} : p3[p] = who <=> ports[p] = who
  <2>1. \A p \in Port, s \in Sensor : env[s].bus.port = p => ports[p] = s
    BY DEF HeldBy
  <2> QED  BY <1>5, <2>1, WordsDiffer
<1>11. \A p \in Port : ports[p] = "free" => p3[p] = "free"
  BY <1>5
<1> QED  BY <1>3, <1>4, <1>8, <1>9, <1>10, <1>11 DEF e3

LEMMA HomeIsPlace == Home \in [Sensor -> Place]
<1>1. \A s \in Sensor : Home[s].port \in Port /\ Home[s].pins = "home"
  BY DEF Home, Sensor, Port
<1>2. \A s \in Sensor : Home[s] \in Place
  BY <1>1 DEF Home, Place, Pins
<1> QED  BY <1>2 DEF Home

\* A task that has the mutex moves the sensors: whatever it does to them, the others are not
\* about to open or to read any.
LEMMA LockedStep ==
    ASSUME EnvInv, NEW a \in EnvTask, Locked(a), NEW to,
           doing' = [doing EXCEPT ![a] = to],
           \/ to[1] \in {"open", "make", "read", "check"} /\ envLock' = envLock
           \/ to = EnvIdle /\ envLock' = "free",
           want' = want, airDev' = airDev,
           ports' \in [Port -> Owner], env' \in [Sensor -> Handle], HeldBy(ports', env'),
           \A p \in Port : \A who \in {"air", "diagnosis"} : ports'[p] = who <=> ports[p] = who,
           \A s \in Sensor : to = <<"make", s>> => env'[s].bus = NoPlace,
           \A s \in Sensor : to = <<"read", s>> => env'[s].dev,
           a = "agent" => AgentRight'
    PROVE  EnvInv'
<1>1. /\ envLock = a /\ doing'[a] = to
      /\ \A b \in EnvTask \ {a} : doing'[b] = doing[b] /\ ~Locked(b)
      /\ doing' = [b \in EnvTask |-> doing'[b]]
  BY DEF EnvInv
<1>2. \A b \in EnvTask \ {a} : \A s \in Sensor : doing'[b] # <<"make", s>> /\ doing'[b] # <<"read", s>>
  BY <1>1 DEF Locked
<1>3. \A b \in EnvTask : Locked(b)' => envLock' = b
  <2>1. ASSUME NEW b \in EnvTask \ {a} PROVE ~Locked(b)'
    BY <1>1, <2>1 DEF Locked
  <2>2. to = EnvIdle => ~Locked(a)'
    BY <1>1 DEF Locked, EnvIdle
  <2> QED  BY <1>1, <2>1, <2>2
<1>4. \A b \in EnvTask : MakesRight(b)'
  BY <1>1, <1>2 DEF MakesRight
<1>5. ReadsOpen'
  BY <1>1, <1>2 DEF ReadsOpen
<1>6. AgentRight'
  <2>1. CASE a = "agent"
    BY <2>1
  <2>2. CASE a # "agent"
    <3>1. "agent" \in EnvTask \ {a}
      BY <2>2 DEF EnvTask
    <3>2. \A s \in Sensor : doing'["agent"] # <<"make", s>> /\ doing'["agent"] # <<"read", s>>
      BY <1>2, <3>1
    <3> QED  BY <3>2 DEF AgentRight, Sensor
  <2> QED  BY <2>1, <2>2
<1>7. Diagnoses'
  <2>1. \A p \in Port : doing[a] # <<"diagnose", p>> /\ doing'[a] # <<"diagnose", p>>
    BY <1>1 DEF Locked, EnvIdle
  <2>2. "agent" \in EnvTask
    BY DEF EnvTask
  <2>3. \A p \in Port : doing'["agent"] = <<"diagnose", p>> <=> doing["agent"] = <<"diagnose", p>>
    BY <1>1, <2>1, <2>2
  <2> QED  BY <2>3 DEF Diagnoses, EnvInv
<1>8. HeldAs(ports, "air", airDev)'
  BY DEF HeldAs, EnvInv
<1> QED  BY <1>1, <1>3, <1>4, <1>5, <1>6, <1>7, <1>8 DEF EnvInv
LEMMA EnvInvInit == EnvInit => EnvInv
<1> SUFFICES ASSUME EnvInit PROVE EnvInv
  OBVIOUS
<1>1. /\ ports = [p \in Port |-> "free"] /\ env = [s \in Sensor |-> Closed] /\ airDev = Closed
      /\ doing = [a \in EnvTask |-> EnvIdle] /\ want = Home
  BY DEF EnvInit
<1>2. "agent" \in EnvTask /\ \A a \in EnvTask : doing[a] = EnvIdle
  BY <1>1 DEF EnvTask
<1>3. \A a \in EnvTask : ~Locked(a)
  BY <1>2 DEF Locked, EnvIdle
<1>4. /\ \A a \in EnvTask, s \in Sensor : doing[a] # <<"make", s>> /\ doing[a] # <<"read", s>>
      /\ \A p \in Port : doing["agent"] # <<"diagnose", p>>
  BY <1>2 DEF EnvIdle
<1>5. ports \in [Port -> Owner] /\ env \in [Sensor -> Handle] /\ airDev \in Handle
  BY <1>1, ClosedIsHandle, WordsDiffer
<1>6. HeldBy(ports, env) /\ HeldAs(ports, "air", airDev) /\ Diagnoses
  BY <1>1, <1>4, ClosedIsHandle, NoPlaceIsNone, WordsDiffer DEF HeldBy, HeldAs, Diagnoses
<1>7. AgentRight /\ ReadsOpen /\ \A a \in EnvTask : MakesRight(a)
  BY <1>2, <1>4 DEF AgentRight, ReadsOpen, MakesRight, Sensor
<1> QED  BY <1>1, <1>3, <1>5, <1>6, <1>7, HomeIsPlace DEF EnvInv

\* Where the sensors and the ports stay as they are.
LEMMA StillHeld ==
    ASSUME EnvInv, UNCHANGED <<ports, env>>
    PROVE  /\ ports' \in [Port -> Owner] /\ env' \in [Sensor -> Handle] /\ HeldBy(ports', env')
           /\ \A p \in Port : \A who \in {"air", "diagnosis"} : ports'[p] = who <=> ports[p] = who
BY DEF EnvInv

\* Reader a goes on from the sensor s.
LEMMA GoesOnRight ==
    ASSUME EnvInv, NEW a \in Reader, Locked(a), NEW s \in Sensor, ReaderGoesOn(a, s),
           want' = want, airDev' = airDev,
           ports' \in [Port -> Owner], env' \in [Sensor -> Handle], HeldBy(ports', env'),
           \A p \in Port : \A who \in {"air", "diagnosis"} : ports'[p] = who <=> ports[p] = who
    PROVE  EnvInv'
<1>0. a \in EnvTask /\ a # "agent"
  BY EnvAssumption DEF EnvTask
<1>1. CASE s = "gy"
  <2>1. doing' = [doing EXCEPT ![a] = EnvIdle] /\ envLock' = "free"
    BY <1>1 DEF ReaderGoesOn, EnvUnlocks
  <2>2. \A t \in Sensor : EnvIdle # <<"make", t>> /\ EnvIdle # <<"read", t>>
    BY DEF EnvIdle
  <2> QED  BY <1>0, <2>1, <2>2, LockedStep
<1>2. CASE s # "gy"
  <2> DEFINE to == <<"open", Next3(s)>>
  <2>1. doing' = [doing EXCEPT ![a] = to] /\ envLock' = envLock
    BY <1>2 DEF ReaderGoesOn, GoesTo
  <2>2. \A t \in Sensor : to # <<"make", t>> /\ to # <<"read", t>>
    OBVIOUS
  <2>3. to[1] = "open"
    OBVIOUS
  <2> HIDE DEF to
  <2> QED  BY <1>0, <2>1, <2>2, <2>3, LockedStep
<1> QED  BY <1>1, <1>2

LEMMA ReaderOpensRight ==
    ASSUME EnvInv, NEW a \in Reader, NEW s \in Sensor, ReaderOpens(a, s) PROVE EnvInv'
<1>0. a \in EnvTask /\ a # "agent" /\ Locked(a)
  BY EnvAssumption DEF EnvTask, ReaderOpens, Locked
<1>1. CASE env[s].dev /\ env[s].at = Home[s]
  <2> DEFINE to == <<"read", s>>
  <2>1. /\ doing' = [doing EXCEPT ![a] = to]
        /\ ports' = ports /\ env' = env /\ airDev' = airDev /\ envLock' = envLock /\ want' = want
    BY <1>1 DEF ReaderOpens, GoesTo
  <2>2. \A t \in Sensor : to # <<"make", t>> /\ (to = <<"read", t>> => t = s)
    OBVIOUS
  <2>5. to[1] = "read"
    OBVIOUS
  <2> HIDE DEF to
  <2>3. \A t \in Sensor : to = <<"read", t>> => env'[t].dev
    BY <1>1, <2>1, <2>2
  <2>4. /\ ports' \in [Port -> Owner] /\ env' \in [Sensor -> Handle] /\ HeldBy(ports', env')
        /\ \A p \in Port : \A who \in {"air", "diagnosis"} : ports'[p] = who <=> ports[p] = who
    BY <2>1, StillHeld
  <2>6. \/ to[1] \in {"open", "make", "read", "check"} /\ envLock' = envLock
        \/ to = EnvIdle /\ envLock' = "free"
    BY <2>1, <2>5
  <2> QED  BY <1>0, <2>1, <2>2, <2>3, <2>4, <2>6, LockedStep
<1>2. CASE ~(env[s].dev /\ env[s].at = Home[s])
  <2> DEFINE to == <<"make", s>>
  <2>1. /\ doing' = [doing EXCEPT ![a] = to]
        /\ ports' = Freed(env[s], ports) /\ env' = [env EXCEPT ![s] = Closed]
        /\ airDev' = airDev /\ envLock' = envLock /\ want' = want
    BY <1>2, Zenon DEF ReaderOpens, GoesTo
  <2>2. \A t \in Sensor : to # <<"read", t>> /\ (to = <<"make", t>> => t = s)
    OBVIOUS
  <2>5. to[1] = "make"
    OBVIOUS
  <2> HIDE DEF to
  <2>3. /\ ports \in [Port -> Owner] /\ env \in [Sensor -> Handle] /\ HeldBy(ports, env)
    BY DEF EnvInv
  <2>4. /\ ports' \in [Port -> Owner] /\ env' \in [Sensor -> Handle] /\ HeldBy(ports', env')
        /\ \A p \in Port : \A who \in {"air", "diagnosis"} : ports'[p] = who <=> ports[p] = who
    BY <2>1, <2>3, ClosingHolds
  <2>6. \A t \in Sensor : to = <<"make", t>> => env'[t].bus = NoPlace
    BY <2>1, <2>2, <2>3, ClosedIsHandle
  <2>7. \/ to[1] \in {"open", "make", "read", "check"} /\ envLock' = envLock
        \/ to = EnvIdle /\ envLock' = "free"
    BY <2>1, <2>5
  <2> QED  BY <1>0, <2>1, <2>2, <2>4, <2>6, <2>7, LockedStep
<1> QED  BY <1>1, <1>2
\* A bus that is made on a free port and on which no device answers leaves no trace.
LEMMA ProbeLeaves ==
    ASSUME NEW pt \in [Port -> Owner], NEW place \in Place, NEW who \in Owner,
           pt[place.port] = "free"
    PROVE  Freed(Probed(place), [pt EXCEPT ![place.port] = who]) = pt
<1>1. Probed(place).bus = place /\ place # NoPlace /\ place.port \in Port
  BY NoPlaceIsNone DEF Probed, Place
<1>2. Freed(Probed(place), [pt EXCEPT ![place.port] = who])
        = [[pt EXCEPT ![place.port] = who] EXCEPT ![place.port] = "free"]
  BY <1>1 DEF Freed
<1> QED  BY <1>1, <1>2

LEMMA OpenedIsHandle ==
    ASSUME NEW place \in Place
    PROVE  Opened(place) \in Handle /\ Opened(place).bus = place /\ Opened(place).dev
BY DEF Opened, Handle

LEMMA ReaderMakesRight ==
    ASSUME EnvInv, NEW a \in Reader, NEW s \in Sensor, ReaderMakes(a, s) PROVE EnvInv'
<1>0. /\ a \in EnvTask /\ a # "agent" /\ Locked(a)
      /\ env[s].bus = NoPlace
      /\ Home[s] \in Place /\ Home[s].port \in Port
      /\ ports \in [Port -> Owner] /\ env \in [Sensor -> Handle] /\ HeldBy(ports, env)
  <2>1. a \in EnvTask /\ a # "agent" /\ doing[a] = <<"make", s>>
    BY EnvAssumption DEF EnvTask, ReaderMakes
  <2>2. Locked(a)
    BY <2>1 DEF Locked
  <2>3. env[s].bus = NoPlace
    BY <2>1 DEF EnvInv, MakesRight
  <2>4. Home[s] \in Place /\ Home[s].port \in Port
    BY HomeIsPlace DEF Place
  <2> QED  BY <2>1, <2>2, <2>3, <2>4 DEF EnvInv
<1> DEFINE at == Home[s].port
<1>1. CASE ports[at] = "free" /\ Responds(s, Home[s])
  <2> DEFINE to == <<"read", s>>
  <2>1. /\ doing' = [doing EXCEPT ![a] = to]
        /\ ports' = [ports EXCEPT ![at] = s] /\ env' = [env EXCEPT ![s] = Opened(Home[s])]
        /\ airDev' = airDev /\ envLock' = envLock /\ want' = want
    BY <1>1 DEF ReaderMakes, GoesTo
  <2>2. \A t \in Sensor : to # <<"make", t>> /\ (to = <<"read", t>> => t = s)
    OBVIOUS
  <2>3. to[1] = "read"
    OBVIOUS
  <2> HIDE DEF to
  <2>4. /\ env' \in [Sensor -> Handle] /\ env'[s].bus = Home[s] /\ env'[s].dev
        /\ \A t \in Sensor : t # s => env'[t].bus = env[t].bus
    BY <1>0, <2>1, OpenedIsHandle
  <2>5. /\ ports' \in [Port -> Owner] /\ HeldBy(ports', env')
        /\ \A p \in Port : \A who \in {"air", "diagnosis"} : ports'[p] = who <=> ports[p] = who
    BY <1>0, <1>1, <2>1, <2>4, OpeningHolds
  <2>6. \/ to[1] \in {"open", "make", "read", "check"} /\ envLock' = envLock
        \/ to = EnvIdle /\ envLock' = "free"
    BY <2>1, <2>3
  <2>7. \A t \in Sensor : to = <<"read", t>> => env'[t].dev
    BY <2>2, <2>4
  <2>8. \A t \in Sensor : to = <<"make", t>> => env'[t].bus = NoPlace
    BY <2>2
  <2>9. a = "agent" => AgentRight'
    BY <1>0
  <2>10. /\ ports' \in [Port -> Owner] /\ env' \in [Sensor -> Handle] /\ HeldBy(ports', env')
         /\ \A p \in Port : \A who \in {"air", "diagnosis"} : ports'[p] = who <=> ports[p] = who
    BY <2>4, <2>5
  <2>11. doing' = [doing EXCEPT ![a] = to] /\ want' = want /\ airDev' = airDev
    BY <2>1
  <2>12. a \in EnvTask /\ Locked(a)
    BY <1>0
  <2> QED  BY <2>6, <2>7, <2>8, <2>9, <2>10, <2>11, <2>12, LockedStep
<1>2. CASE ~(ports[at] = "free" /\ Responds(s, Home[s]))
  <2>1. /\ ports' = IF ports[at] = "free" THEN Freed(Probed(Home[s]), [ports EXCEPT ![at] = s]) ELSE ports
        /\ ReaderGoesOn(a, s)
        /\ env' = env /\ airDev' = airDev /\ want' = want
    BY <1>2, Zenon DEF ReaderMakes
  <2>2. s \in Owner
    BY WordsDiffer
  <2>3. ports' = ports
    BY <1>0, <2>1, <2>2, ProbeLeaves
  <2>4. /\ ports' \in [Port -> Owner] /\ env' \in [Sensor -> Handle] /\ HeldBy(ports', env')
        /\ \A p \in Port : \A who \in {"air", "diagnosis"} : ports'[p] = who <=> ports[p] = who
    BY <2>1, <2>3, StillHeld
  <2> QED  BY <1>0, <2>1, <2>4, GoesOnRight
<1> QED  BY <1>1, <1>2

LEMMA ReaderReadsRight ==
    ASSUME EnvInv, NEW a \in Reader, NEW s \in Sensor, ReaderReads(a, s) PROVE EnvInv'
<1>0. Locked(a) /\ ReaderGoesOn(a, s) /\ airDev' = airDev /\ want' = want
  BY DEF ReaderReads, Locked
<1>1. \/ ports' = ports /\ env' = env
      \/ ports' = Freed(env[s], ports) /\ env' = [env EXCEPT ![s] = Closed]
  BY Zenon DEF ReaderReads
<1>2. ports \in [Port -> Owner] /\ env \in [Sensor -> Handle] /\ HeldBy(ports, env)
  BY DEF EnvInv
<1>3. /\ ports' \in [Port -> Owner] /\ env' \in [Sensor -> Handle] /\ HeldBy(ports', env')
      /\ \A p \in Port : \A who \in {"air", "diagnosis"} : ports'[p] = who <=> ports[p] = who
  <2>1. CASE ports' = ports /\ env' = env
    BY <2>1, StillHeld
  <2>2. CASE ports' = Freed(env[s], ports) /\ env' = [env EXCEPT ![s] = Closed]
    BY <1>2, <2>2, ClosingHolds
  <2> QED  BY <1>1, <2>1, <2>2
<1> QED  BY <1>0, <1>3, GoesOnRight

\* The agent goes on, with the mutex.
LEMMA AgentGoesOn ==
    ASSUME EnvInv, Locked("agent"), NEW what \in {"make", "read"}, NEW s \in Sensor,
           GoesTo("agent", what, s), envLock' = envLock, want' = want, airDev' = airDev,
           ports' \in [Port -> Owner], env' \in [Sensor -> Handle], HeldBy(ports', env'),
           \A p \in Port : \A who \in {"air", "diagnosis"} : ports'[p] = who <=> ports[p] = who,
           what = "make" => env'[s].bus = NoPlace,
           what = "read" => \A t \in Sensor : env'[t].dev,
           what = "make" /\ s = "aht" => \A t \in Sensor : env'[t].bus = NoPlace,
           what = "make" /\ s = "sgp" => env'["aht"].dev /\ env'["gy"].bus = NoPlace,
           what = "make" /\ s = "gy" => env'["aht"].dev /\ env'["sgp"].dev
    PROVE  EnvInv'
<1> DEFINE to == <<what, s>>
<1>0. "agent" \in EnvTask
  BY DEF EnvTask
<1>1. doing' = [doing EXCEPT !["agent"] = to]
  BY DEF GoesTo
<1>2. \A t \in Sensor : /\ to = <<"make", t>> => what = "make" /\ t = s
                        /\ to = <<"read", t>> => what = "read" /\ t = s
  OBVIOUS
<1>3. to[1] = what
  OBVIOUS
<1> HIDE DEF to
<1>4. doing'["agent"] = to
  BY <1>0, <1>1 DEF EnvInv
<1>5. AgentRight'
  BY <1>2, <1>4 DEF AgentRight, Sensor
<1>6. \/ to[1] \in {"open", "make", "read", "check"} /\ envLock' = envLock
      \/ to = EnvIdle /\ envLock' = "free"
  BY <1>3
<1>7. \A t \in Sensor : to = <<"make", t>> => env'[t].bus = NoPlace
  BY <1>2
<1>8. \A t \in Sensor : to = <<"read", t>> => env'[t].dev
  BY <1>2
<1> QED  BY <1>0, <1>1, <1>5, <1>6, <1>7, <1>8, LockedStep

\* The agent gives the mutex back.
LEMMA AgentStops ==
    ASSUME EnvInv, Locked("agent"), EnvUnlocks("agent"), want' = want, airDev' = airDev,
           ports' \in [Port -> Owner], env' \in [Sensor -> Handle], HeldBy(ports', env'),
           \A p \in Port : \A who \in {"air", "diagnosis"} : ports'[p] = who <=> ports[p] = who
    PROVE  EnvInv'
<1>0. "agent" \in EnvTask
  BY DEF EnvTask
<1>1. doing' = [doing EXCEPT !["agent"] = EnvIdle] /\ envLock' = "free"
  BY DEF EnvUnlocks
<1>2. \A t \in Sensor : EnvIdle # <<"make", t>> /\ EnvIdle # <<"read", t>>
  BY DEF EnvIdle
<1>3. doing'["agent"] = EnvIdle
  BY <1>0, <1>1 DEF EnvInv
<1>4. AgentRight'
  BY <1>2, <1>3 DEF AgentRight, Sensor
<1> QED  BY <1>0, <1>1, <1>2, <1>4, LockedStep
LEMMA AgentChecksRight == ASSUME EnvInv, AgentChecks PROVE EnvInv'
<1>0. /\ Locked("agent") /\ envLock' = envLock /\ want' = want /\ airDev' = airDev
      /\ ports \in [Port -> Owner] /\ env \in [Sensor -> Handle] /\ HeldBy(ports, env)
      /\ "aht" \in Sensor
  <2>1. doing["agent"] = <<"check", "all">> /\ envLock' = envLock /\ want' = want /\ airDev' = airDev
    BY DEF AgentChecks
  <2>2. Locked("agent")
    BY <2>1 DEF Locked
  <2>3. ports \in [Port -> Owner] /\ env \in [Sensor -> Handle] /\ HeldBy(ports, env)
    BY DEF EnvInv
  <2> QED  BY <2>1, <2>2, <2>3 DEF Sensor
<1>1. CASE \A s \in Sensor : env[s].dev /\ env[s].at = want[s]
  <2>1. GoesTo("agent", "read", "aht") /\ ports' = ports /\ env' = env
    BY <1>1 DEF AgentChecks
  <2>2. /\ ports' \in [Port -> Owner] /\ env' \in [Sensor -> Handle] /\ HeldBy(ports', env')
        /\ \A p \in Port : \A who \in {"air", "diagnosis"} : ports'[p] = who <=> ports[p] = who
    BY <2>1, StillHeld
  <2>3. \A t \in Sensor : env'[t].dev
    BY <1>1, <2>1
  <2> QED  BY <1>0, <2>1, <2>2, <2>3, AgentGoesOn
<1>2. CASE ~\A s \in Sensor : env[s].dev /\ env[s].at = want[s]
  <2>1. GoesTo("agent", "make", "aht") /\ ports' = AllFreed /\ env' = [s \in Sensor |-> Closed]
    BY <1>2, Zenon DEF AgentChecks
  <2>2. /\ ports' \in [Port -> Owner] /\ env' \in [Sensor -> Handle] /\ HeldBy(ports', env')
        /\ \A p \in Port : \A who \in {"air", "diagnosis"} : ports'[p] = who <=> ports[p] = who
    BY <1>0, <2>1, ClosingAllHolds
  <2>3. \A t \in Sensor : env'[t].bus = NoPlace
    BY <2>1, ClosedIsHandle
  <2> QED  BY <1>0, <2>1, <2>2, <2>3, AgentGoesOn
<1> QED  BY <1>1, <1>2

LEMMA AgentMakesRight == ASSUME EnvInv, NEW s \in Sensor, AgentMakes(s) PROVE EnvInv'
<1> DEFINE place == want[s]
           at == place.port
           mine == [Opened(place) EXCEPT !.at = NoPlace]
           made == [env EXCEPT ![s] = mine]
<1>0. /\ Locked("agent") /\ want' = want /\ airDev' = airDev
      /\ ports \in [Port -> Owner] /\ env \in [Sensor -> Handle] /\ HeldBy(ports, env)
      /\ place \in Place /\ at \in Port
      /\ doing["agent"] = <<"make", s>>
  <2>1. doing["agent"] = <<"make", s>> /\ want' = want /\ airDev' = airDev
    BY DEF AgentMakes
  <2>2. Locked("agent")
    BY <2>1 DEF Locked
  <2>3. ports \in [Port -> Owner] /\ env \in [Sensor -> Handle] /\ HeldBy(ports, env)
    BY DEF EnvInv
  <2>4. place \in Place
    BY DEF EnvInv
  <2>5. at \in Port
    BY <2>4 DEF Place
  <2> QED  BY <2>1, <2>2, <2>3, <2>4, <2>5
<1>1. env[s].bus = NoPlace
  <2>1. "agent" \in EnvTask
    BY DEF EnvTask
  <2> QED  BY <1>0, <2>1 DEF EnvInv, MakesRight
<1>2. CASE ports[at] = "free" /\ Responds(s, place)
  <2>1. /\ ports' = [ports EXCEPT ![at] = s]
        /\ env' = IF s = "gy" THEN [t \in Sensor |-> [made[t] EXCEPT !.at = want[t]]] ELSE made
        /\ IF s = "gy" THEN GoesTo("agent", "read", "aht") ELSE GoesTo("agent", "make", Next3(s))
        /\ envLock' = envLock
    BY <1>2 DEF AgentMakes
  <2>2. mine \in Handle /\ mine.bus = place /\ mine.dev
    BY <1>0 DEF Opened, Handle
  <2> HIDE DEF mine
  <2>3. /\ made \in [Sensor -> Handle] /\ made[s].bus = place /\ made[s].dev
        /\ \A t \in Sensor : t # s => made[t] = env[t]
    BY <1>0, <2>2
  <2> HIDE DEF made
  <2>4. \A t \in Sensor : /\ [made[t] EXCEPT !.at = want[t]] \in Handle
                          /\ [made[t] EXCEPT !.at = want[t]].bus = made[t].bus
                          /\ [made[t] EXCEPT !.at = want[t]].dev = made[t].dev
    <3>1. want \in [Sensor -> Place]
      BY DEF EnvInv
    <3> QED  BY <2>3, <3>1 DEF Handle
  <2>5. \A t \in Sensor : env'[t] \in Handle /\ env'[t].bus = made[t].bus /\ env'[t].dev = made[t].dev
    BY <2>1, <2>3, <2>4
  <2>6. env' \in [Sensor -> Handle]
    BY <2>1, <2>3, <2>5
  <2>7. /\ ports' \in [Port -> Owner] /\ HeldBy(ports', env')
        /\ \A p \in Port : \A who \in {"air", "diagnosis"} : ports'[p] = who <=> ports[p] = who
    <3>1. env'[s].bus.port = at /\ \A t \in Sensor : t # s => env'[t].bus = env[t].bus
      BY <2>3, <2>5
    <3> QED  BY <1>0, <1>1, <1>2, <2>1, <2>6, <3>1, OpeningHolds
  <2>8. env'[s].dev /\ \A t \in Sensor : t # s => env'[t].dev = env[t].dev /\ env'[t].bus = env[t].bus
    BY <2>3, <2>5
  <2>9. CASE s = "aht"
    <3>1. env["sgp"].bus = NoPlace /\ env["gy"].bus = NoPlace
      BY <1>0, <2>9 DEF EnvInv, AgentRight, Sensor
    <3>2. env'["sgp"].bus = NoPlace /\ env'["gy"].bus = NoPlace /\ env'["aht"].dev
      BY <2>8, <2>9, <3>1 DEF Sensor
    <3>3. GoesTo("agent", "make", "sgp")
      BY <2>1, <2>9 DEF Next3
    <3> QED  BY <1>0, <2>1, <2>6, <2>7, <3>2, <3>3, AgentGoesOn DEF Sensor
  <2>10. CASE s = "sgp"
    <3>1. env["aht"].dev /\ env["gy"].bus = NoPlace
      BY <1>0, <2>10 DEF EnvInv, AgentRight
    <3>2. env'["aht"].dev /\ env'["gy"].bus = NoPlace /\ env'["sgp"].dev
      BY <2>8, <2>10, <3>1 DEF Sensor
    <3>3. GoesTo("agent", "make", "gy")
      BY <2>1, <2>10 DEF Next3
    <3> QED  BY <1>0, <2>1, <2>6, <2>7, <3>2, <3>3, AgentGoesOn DEF Sensor
  <2>11. CASE s = "gy"
    <3>1. env["aht"].dev /\ env["sgp"].dev
      BY <1>0, <2>11 DEF EnvInv, AgentRight
    <3>2. \A t \in Sensor : env'[t].dev
      BY <2>8, <2>11, <3>1 DEF Sensor
    <3>3. GoesTo("agent", "read", "aht") /\ "aht" \in Sensor
      BY <2>1, <2>11 DEF Sensor
    <3> QED  BY <1>0, <2>1, <2>6, <2>7, <3>2, <3>3, AgentGoesOn
  <2> QED  BY <2>9, <2>10, <2>11 DEF Sensor
<1>3. CASE ~(ports[at] = "free" /\ Responds(s, place))
  <2>1. /\ ports' = IF ports[at] = "free"
                    THEN Freed(Probed(place), [AllFreed EXCEPT ![at] = s]) ELSE AllFreed
        /\ env' = [t \in Sensor |-> Closed]
        /\ EnvUnlocks("agent")
    BY <1>3, Zenon DEF AgentMakes
  <2>2. /\ AllFreed \in [Port -> Owner]
        /\ [t \in Sensor |-> Closed] \in [Sensor -> Handle]
        /\ HeldBy(AllFreed, [t \in Sensor |-> Closed])
        /\ \A p \in Port : \A who \in {"air", "diagnosis"} : AllFreed[p] = who <=> ports[p] = who
        /\ \A p \in Port : ports[p] = "free" => AllFreed[p] = "free"
    BY <1>0, ClosingAllHolds
  <2>3. ports' = AllFreed
    <3>1. s \in Owner
      BY WordsDiffer
    <3> QED  BY <1>0, <2>1, <2>2, <3>1, ProbeLeaves
  <2>4. /\ ports' \in [Port -> Owner] /\ env' \in [Sensor -> Handle] /\ HeldBy(ports', env')
        /\ \A p \in Port : \A who \in {"air", "diagnosis"} : ports'[p] = who <=> ports[p] = who
    BY <2>1, <2>2, <2>3
  <2> QED  BY <1>0, <2>1, <2>4, AgentStops
<1> QED  BY <1>2, <1>3

LEMMA AgentReadsRight == ASSUME EnvInv, NEW s \in Sensor, AgentReads(s) PROVE EnvInv'
<1>0. /\ Locked("agent") /\ want' = want /\ airDev' = airDev /\ ports' = ports /\ env' = env
      /\ doing["agent"] = <<"read", s>>
  BY DEF AgentReads, Locked
<1>1. /\ ports' \in [Port -> Owner] /\ env' \in [Sensor -> Handle] /\ HeldBy(ports', env')
      /\ \A p \in Port : \A who \in {"air", "diagnosis"} : ports'[p] = who <=> ports[p] = who
  BY <1>0, StillHeld
<1>2. CASE EnvUnlocks("agent")
  BY <1>0, <1>1, <1>2, AgentStops
<1>3. CASE GoesTo("agent", "read", Next3(s)) /\ envLock' = envLock
  <2>1. \A t \in Sensor : env'[t].dev
    BY <1>0 DEF EnvInv, AgentRight
  <2>2. Next3(s) \in Sensor
    BY DEF Next3, Sensor
  <2> QED  BY <1>0, <1>1, <1>3, <2>1, <2>2, AgentGoesOn
<1> QED  BY <1>2, <1>3, Zenon DEF AgentReads
\* The mutex is taken: nobody else is about to open or to read a sensor.
LEMMA LocksRight ==
    ASSUME EnvInv, NEW a \in EnvTask, envLock = "free", envLock' = a, NEW to,
           doing' = [doing EXCEPT ![a] = to], to \in {<<"open", "aht">>, <<"check", "all">>},
           \A p \in Port : doing[a] # <<"diagnose", p>>,
           ports' = ports, env' = env, airDev' = airDev, want' = want
    PROVE  EnvInv'
<1>0. "free" \notin EnvTask /\ "agent" \in EnvTask
  BY EnvAssumption DEF EnvTask
<1>1. \A b \in EnvTask : ~Locked(b)
  BY <1>0 DEF EnvInv
<1>2. /\ doing'[a] = to /\ doing' = [b \in EnvTask |-> doing'[b]]
      /\ \A b \in EnvTask : b # a => doing'[b] = doing[b]
  BY DEF EnvInv
<1>3. \A b \in EnvTask : Locked(b)' => envLock' = b
  BY <1>1, <1>2 DEF Locked
<1>4. \A b \in EnvTask, s \in Sensor : doing'[b] # <<"make", s>> /\ doing'[b] # <<"read", s>>
  <2> SUFFICES ASSUME NEW b \in EnvTask, NEW s \in Sensor
               PROVE  doing'[b] # <<"make", s>> /\ doing'[b] # <<"read", s>>
    OBVIOUS
  <2>1. CASE b = a
    <3>1. doing'[b][1] \in {"open", "check"}
      BY <1>2, <2>1
    <3> QED  BY <3>1
  <2>2. CASE b # a
    BY <1>1, <1>2, <2>2 DEF Locked
  <2> QED  BY <2>1, <2>2
<1>5. Diagnoses'
  <2>1. \A p \in Port : to # <<"diagnose", p>>
    OBVIOUS
  <2>2. \A p \in Port : doing'["agent"] = <<"diagnose", p>> <=> doing["agent"] = <<"diagnose", p>>
    BY <1>0, <1>2, <2>1
  <2> QED  BY <2>2 DEF EnvInv, Diagnoses
<1>6. AgentRight' /\ ReadsOpen' /\ \A b \in EnvTask : MakesRight(b)'
  BY <1>0, <1>4 DEF AgentRight, ReadsOpen, MakesRight, Sensor
<1>7. HeldBy(ports, env)' /\ HeldAs(ports, "air", airDev)'
  BY DEF EnvInv
<1> QED  BY <1>2, <1>3, <1>5, <1>6, <1>7 DEF EnvInv

\* The agent goes on without the mutex, and the sensors stay.
LEMMA OutsideRight ==
    ASSUME EnvInv, ~Locked("agent"), NEW to, doing' = [doing EXCEPT !["agent"] = to],
           to[1] \in {"idle", "lock", "diagnose"},
           env' = env, envLock' = envLock, airDev' = airDev, want' \in [Sensor -> Place],
           ports' \in [Port -> Owner], HeldBy(ports', env'), HeldAs(ports', "air", airDev'),
           \A p \in Port : ports'[p] = "diagnosis" <=> to = <<"diagnose", p>>
    PROVE  EnvInv'
<1>0. "agent" \in EnvTask
  BY DEF EnvTask
<1>1. /\ doing'["agent"] = to /\ doing' = [b \in EnvTask |-> doing'[b]]
      /\ \A b \in EnvTask : b # "agent" => doing'[b] = doing[b]
  BY <1>0 DEF EnvInv
<1>2. \A s \in Sensor : to # <<"make", s>> /\ to # <<"read", s>>
  OBVIOUS
<1>3. ~Locked("agent")'
  BY <1>1 DEF Locked
<1>4. \A b \in EnvTask : Locked(b)' => envLock' = b
  BY <1>1, <1>3 DEF Locked, EnvInv
<1>5. \A b \in EnvTask : MakesRight(b)'
  BY <1>1, <1>2 DEF MakesRight, EnvInv
<1>6. ReadsOpen'
  BY <1>1, <1>2 DEF ReadsOpen, EnvInv
<1>7. AgentRight' /\ Diagnoses'
  BY <1>1, <1>2 DEF AgentRight, Diagnoses, Sensor
<1>8. HeldBy(ports, env)' /\ HeldAs(ports, "air", airDev)'
  OBVIOUS
<1>9. env' \in [Sensor -> Handle] /\ airDev' \in Handle
  BY DEF EnvInv
<1> QED  BY <1>1, <1>4, <1>5, <1>6, <1>7, <1>8, <1>9 DEF EnvInv

LEMMA AirAskedRight ==
    ASSUME EnvInv, NEW place \in Place, AirAsked(place) PROVE EnvInv'
<1> DEFINE left == Freed(airDev, ports)
<1>0. /\ ports \in [Port -> Owner] /\ airDev \in Handle /\ HeldAs(ports, "air", airDev)
      /\ doing' = doing /\ env' = env /\ envLock' = envLock /\ want' = want
      /\ place.port \in Port
  BY DEF AirAsked, EnvInv, Place
<1>1. /\ left \in [Port -> Owner]
      /\ \A p \in Port : left[p] = IF airDev.bus.port = p THEN "free" ELSE ports[p]
  BY <1>0, FreedPorts
<1>2. \A p \in Port : left[p] # "air" /\ \A who \in Owner : who # "free" /\ who # "air" => (left[p] = who <=> ports[p] = who)
  BY <1>0, <1>1, WordsDiffer DEF HeldAs
<1>3. \/ ports' = ports /\ airDev' = airDev
      \/ left[place.port] = "free" /\ ports' = [left EXCEPT ![place.port] = "air"] /\ airDev' = Opened(place)
      \/ ports' = left /\ airDev' = Closed
  <2>1. CASE airDev.dev /\ airDev.at = place
    BY <2>1 DEF AirAsked
  <2>2. CASE ~(airDev.dev /\ airDev.at = place) /\ left[place.port] = "free" /\ Responds("sgp", place)
    BY <2>2 DEF AirAsked
  <2>3. CASE ~(airDev.dev /\ airDev.at = place) /\ ~(left[place.port] = "free" /\ Responds("sgp", place))
    <3>1. /\ airDev' = Closed
          /\ ports' = IF left[place.port] = "free"
                      THEN Freed(Probed(place), [left EXCEPT ![place.port] = "air"]) ELSE left
      BY <2>3, Zenon DEF AirAsked
    <3> HIDE DEF left
    <3>2. ports' = left
      BY <1>1, <3>1, ProbeLeaves, WordsDiffer
    <3> QED  BY <3>1, <3>2
  <2> QED  BY <2>1, <2>2, <2>3
<1> HIDE DEF left
<1>4. /\ ports' \in [Port -> Owner] /\ airDev' \in Handle /\ HeldAs(ports', "air", airDev')
      /\ \A p \in Port : \A who \in Owner : who # "free" /\ who # "air" => (ports'[p] = who <=> ports[p] = who)
  <2>1. CASE ports' = ports /\ airDev' = airDev
    BY <1>0, <2>1
  <2>2. CASE left[place.port] = "free" /\ ports' = [left EXCEPT ![place.port] = "air"] /\ airDev' = Opened(place)
    <3>1. airDev' \in Handle /\ airDev'.bus = place
      BY <2>2, OpenedIsHandle
    <3> QED  BY <1>0, <1>1, <1>2, <2>2, <3>1, WordsDiffer DEF HeldAs
  <2>3. CASE ports' = left /\ airDev' = Closed
    BY <1>1, <1>2, <2>3, ClosedIsHandle, NoPlaceIsNone DEF HeldAs
  <2> QED  BY <1>3, <2>1, <2>2, <2>3
<1>5. HeldBy(ports', env')
  <2>1. \A p \in Port, s \in Sensor : ports'[p] = s <=> ports[p] = s
    BY <1>4, WordsDiffer
  <2> QED  BY <1>0, <2>1 DEF HeldBy, EnvInv
<1>6. Diagnoses'
  BY <1>0, <1>4, WordsDiffer DEF Diagnoses, EnvInv
<1>7. /\ AgentRight' /\ ReadsOpen' /\ \A b \in EnvTask : MakesRight(b)'
      /\ \A b \in EnvTask : Locked(b)' => envLock' = b
  BY <1>0 DEF AgentRight, ReadsOpen, MakesRight, Locked, EnvInv
<1> QED  BY <1>0, <1>4, <1>5, <1>6, <1>7 DEF EnvInv

LEMMA DiagnosisAskedRight ==
    ASSUME EnvInv, NEW place \in Place, DiagnosisAsked(place) PROVE EnvInv'
<1>0. /\ ports \in [Port -> Owner] /\ HeldBy(ports, env) /\ HeldAs(ports, "air", airDev)
      /\ want \in [Sensor -> Place] /\ Diagnoses
  BY DEF EnvInv
<1> DEFINE at == place.port
           to == <<"diagnose", at>>
<1>1. /\ doing["agent"] = EnvIdle /\ ports[at] = "free" /\ ports' = [ports EXCEPT ![at] = "diagnosis"]
      /\ doing' = [doing EXCEPT !["agent"] = to]
      /\ env' = env /\ envLock' = envLock /\ airDev' = airDev /\ want' = want
  BY DEF DiagnosisAsked, GoesTo
<1>2. at \in Port
  BY DEF Place
<1>3. ~Locked("agent") /\ \A p \in Port : ports[p] # "diagnosis"
  BY <1>0, <1>1 DEF Locked, EnvIdle, Diagnoses
<1>4. to[1] \in {"idle", "lock", "diagnose"} /\ \A p \in Port : to = <<"diagnose", p>> <=> p = at
  OBVIOUS
<1> HIDE DEF to, at
<1>5. /\ ports' \in [Port -> Owner]
      /\ \A p \in Port : ports'[p] = IF p = at THEN "diagnosis" ELSE ports[p]
  BY <1>0, <1>1, <1>2, WordsDiffer
<1>6. HeldBy(ports', env')
  BY <1>0, <1>1, <1>5, WordsDiffer DEF HeldBy
<1>7. HeldAs(ports', "air", airDev')
  BY <1>0, <1>1, <1>5, WordsDiffer DEF HeldAs
<1>8. \A p \in Port : ports'[p] = "diagnosis" <=> to = <<"diagnose", p>>
  BY <1>3, <1>4, <1>5
<1>9. want' \in [Sensor -> Place]
  BY <1>0, <1>1
<1> QED  BY <1>1, <1>3, <1>4, <1>5, <1>6, <1>7, <1>8, <1>9, OutsideRight

LEMMA DiagnosisEndsRight ==
    ASSUME EnvInv, NEW p \in Port, DiagnosisEnds(p) PROVE EnvInv'
<1>0. /\ ports \in [Port -> Owner] /\ HeldBy(ports, env) /\ HeldAs(ports, "air", airDev)
      /\ want \in [Sensor -> Place] /\ Diagnoses
  BY DEF EnvInv
<1>1. /\ doing["agent"] = <<"diagnose", p>> /\ ports' = [ports EXCEPT ![p] = "free"]
      /\ doing' = [doing EXCEPT !["agent"] = EnvIdle]
      /\ env' = env /\ envLock' = envLock /\ airDev' = airDev /\ want' = want
  BY DEF DiagnosisEnds
<1>2. ~Locked("agent") /\ ports[p] = "diagnosis" /\ \A q \in Port : ports[q] = "diagnosis" => q = p
  BY <1>0, <1>1 DEF Locked, Diagnoses
<1>3. EnvIdle[1] \in {"idle", "lock", "diagnose"} /\ \A q \in Port : EnvIdle # <<"diagnose", q>>
  BY DEF EnvIdle
<1>4. /\ ports' \in [Port -> Owner]
      /\ \A q \in Port : ports'[q] = IF q = p THEN "free" ELSE ports[q]
  BY <1>0, <1>1, WordsDiffer
<1>5. HeldBy(ports', env')
  BY <1>0, <1>1, <1>2, <1>4, WordsDiffer DEF HeldBy
<1>6. HeldAs(ports', "air", airDev')
  BY <1>0, <1>1, <1>2, <1>4, WordsDiffer DEF HeldAs
<1>7. \A q \in Port : ports'[q] = "diagnosis" <=> EnvIdle = <<"diagnose", q>>
  BY <1>2, <1>3, <1>4
<1>8. want' \in [Sensor -> Place]
  BY <1>0, <1>1
<1> QED  BY <1>1, <1>2, <1>3, <1>4, <1>5, <1>6, <1>7, <1>8, OutsideRight

\* What the agent's task does outside the mutex.
LEMMA AgentWaitsRight ==
    ASSUME EnvInv, AgentTooLate \/ \E places \in SensorPlaces : EnvironmentAsked(places)
    PROVE  EnvInv'
<1>0. /\ ports \in [Port -> Owner] /\ HeldBy(ports, env) /\ HeldAs(ports, "air", airDev)
      /\ want \in [Sensor -> Place] /\ Diagnoses
  BY DEF EnvInv
<1>1. PICK to \in {EnvIdle, <<"lock", "all">>} :
         /\ doing["agent"] \in {EnvIdle, <<"lock", "all">>}
         /\ doing' = [doing EXCEPT !["agent"] = to]
         /\ ports' = ports /\ env' = env /\ envLock' = envLock /\ airDev' = airDev
         /\ want' = want \/ want' \in SensorPlaces
  BY DEF AgentTooLate, EnvironmentAsked, GoesTo
<1>2. /\ to[1] \in {"idle", "lock", "diagnose"}
      /\ \A p \in Port : to # <<"diagnose", p>> /\ doing["agent"] # <<"diagnose", p>>
      /\ ~Locked("agent")
  BY <1>1 DEF EnvIdle, Locked
<1>3. want' \in [Sensor -> Place]
  BY <1>0, <1>1, EnvAssumption
<1>4. \A p \in Port : ports'[p] = "diagnosis" <=> to = <<"diagnose", p>>
  BY <1>0, <1>1, <1>2 DEF Diagnoses
<1>5. ports' \in [Port -> Owner] /\ HeldBy(ports', env') /\ HeldAs(ports', "air", airDev')
  BY <1>0, <1>1
<1> QED  BY <1>1, <1>2, <1>3, <1>4, <1>5, OutsideRight

\* Nothing that the invariant speaks of changes.
LEMMA EnvStands ==
    ASSUME EnvInv, UNCHANGED <<ports, env, airDev, envLock, doing, want>> PROVE EnvInv'
BY DEF EnvInv, AgentRight, ReadsOpen, MakesRight, Locked, HeldBy, HeldAs, Diagnoses

LEMMA EnvInvStep == EnvInv /\ [EnvNext]_envVars => EnvInv'
<1> SUFFICES ASSUME EnvInv, [EnvNext]_envVars PROVE EnvInv'
  OBVIOUS
<1>1. ASSUME NEW a \in Reader, ReaderLocks(a) PROVE EnvInv'
  <2>1. a \in EnvTask /\ a # "agent"
    BY EnvAssumption DEF EnvTask
  <2>2. /\ envLock = "free" /\ envLock' = a /\ doing' = [doing EXCEPT ![a] = <<"open", "aht">>]
        /\ doing[a] = EnvIdle
        /\ ports' = ports /\ env' = env /\ airDev' = airDev /\ want' = want
    BY <1>1, <2>1 DEF ReaderLocks, EnvLocks, GoesTo
  <2>3. \A p \in Port : doing[a] # <<"diagnose", p>>
    BY <2>2 DEF EnvIdle
  <2> QED  BY <2>1, <2>2, <2>3, LocksRight
<1>2. CASE AgentLocks
  <2>1. /\ envLock = "free" /\ envLock' = "agent"
        /\ doing' = [doing EXCEPT !["agent"] = <<"check", "all">>]
        /\ doing["agent"] = <<"lock", "all">> /\ "agent" \in EnvTask
        /\ ports' = ports /\ env' = env /\ airDev' = airDev /\ want' = want
    BY <1>2 DEF AgentLocks, EnvLocks, GoesTo, EnvTask
  <2>2. \A p \in Port : doing["agent"] # <<"diagnose", p>>
    BY <2>1
  <2> QED  BY <2>1, <2>2, LocksRight
<1>3. ASSUME NEW a \in Reader, NEW s \in Sensor,
             ReaderOpens(a, s) \/ ReaderMakes(a, s) \/ ReaderReads(a, s)
      PROVE  EnvInv'
  BY <1>3, ReaderOpensRight, ReaderMakesRight, ReaderReadsRight
<1>4. ASSUME NEW s \in Sensor, AgentMakes(s) \/ AgentReads(s) PROVE EnvInv'
  BY <1>4, AgentMakesRight, AgentReadsRight
<1>5. ASSUME NEW p \in Port, DiagnosisEnds(p) PROVE EnvInv'
  BY <1>5, DiagnosisEndsRight
<1>6. ASSUME NEW places \in SensorPlaces, AirAsked(places["sgp"]) \/ DiagnosisAsked(places["aht"])
      PROVE  EnvInv'
  <2>1. places["sgp"] \in Place /\ places["aht"] \in Place
    BY EnvAssumption DEF Sensor
  <2> QED  BY <1>6, <2>1, AirAskedRight, DiagnosisAskedRight
<1>7. ASSUME NEW s \in Sensor, SensorOff(s) \/ SensorOn(s) PROVE EnvInv'
  <2>1. UNCHANGED <<ports, env, airDev, envLock, doing, want>>
    BY <1>7 DEF SensorOff, SensorOn
  <2> QED  BY <2>1, EnvStands
<1>8. CASE UNCHANGED envVars
  <2>1. UNCHANGED <<ports, env, airDev, envLock, doing, want>>
    BY <1>8 DEF envVars
  <2> QED  BY <2>1, EnvStands
<1>9. CASE AgentChecks
  BY <1>9, AgentChecksRight
<1>10. CASE AgentTooLate \/ \E places \in SensorPlaces : EnvironmentAsked(places)
  BY <1>10, AgentWaitsRight
<1> QED
  BY <1>1, <1>2, <1>3, <1>4, <1>5, <1>6, <1>7, <1>8, <1>9, <1>10
  DEF EnvNext, ReaderStep, EnvAgentStep, PowerReturns

\* Every open I2C port is on the handle that can close it, and who is about to read a sensor
\* has its device (tool_environment.c, tool_sgp30.c, tool_aht10.c), for any number of readers
\* and whatever places the agent names.
THEOREM PortsHold == EnvSpec => []PortsAreHeld
<1>1. ASSUME EnvInv PROVE PortsAreHeld
  <2>1. \A p \in Port, s \in Sensor : ports[p] = s <=> env[s].bus.port = p
    BY <1>1 DEF EnvInv, HeldBy
  <2>2. \A p \in Port : ports[p] = "air" <=> airDev.bus.port = p
    BY <1>1 DEF EnvInv, HeldAs
  <2>3. \A p \in Port : ports[p] = "diagnosis" <=> doing["agent"] = <<"diagnose", p>>
    BY <1>1 DEF EnvInv, Diagnoses
  <2>4. ASSUME NEW a \in EnvTask, NEW s \in Sensor, doing[a] = <<"read", s>>
        PROVE  env[s].dev /\ envLock = a
    <3>1. Locked(a)
      BY <2>4 DEF Locked
    <3> QED  BY <1>1, <2>4, <3>1 DEF EnvInv, ReadsOpen
  <2> QED  BY <2>1, <2>2, <2>3, <2>4 DEF PortsAreHeld
<1> QED  BY <1>1, EnvInvInit, EnvInvStep, PTL DEF EnvSpec

\* What the agent has opened so far is where its call wants it, so that the places recorded
\* at the end are those of the buses.
AgentPlaced ==
    /\ doing["agent"] \in {<<"make", "sgp">>, <<"make", "gy">>} => env["aht"].bus = want["aht"]
    /\ doing["agent"] = <<"make", "gy">> => env["sgp"].bus = want["sgp"]

\* Inductive together with EnvInv.
EnvKinds ==
    /\ \A s \in Sensor : env[s].at \in {NoPlace, env[s].bus}
    /\ envLock \in EnvTask \cup {"free"} /\ seen \in [Sensor -> BOOLEAN]
    /\ sensors \in [Sensor -> {"off", "cold", "ready"}]
    /\ AgentPlaced

LEMMA EnvKindsInit == EnvInit => EnvKinds
<1> SUFFICES ASSUME EnvInit PROVE EnvKinds
  OBVIOUS
<1>1. \A s \in Sensor : env[s].at \in {NoPlace, env[s].bus}
  BY DEF EnvInit, Closed
<1>2. doing["agent"] = EnvIdle
  BY DEF EnvInit, EnvTask
<1>3. AgentPlaced
  BY <1>2 DEF AgentPlaced, EnvIdle
<1> QED  BY <1>1, <1>3 DEF EnvInit, EnvKinds

\* A task that is at a sensor has the mutex, so that the agent has not.
LEMMA ReaderAlone ==
    ASSUME EnvInv, NEW a \in Reader, doing[a][1] \in {"open", "make", "read"}
    PROVE  a # "agent" /\ a \in EnvTask /\ doing["agent"][1] \notin {"open", "make", "read", "check"}
<1>1. a # "agent" /\ a \in EnvTask /\ "agent" \in EnvTask
  BY EnvAssumption DEF EnvTask
<1>2. envLock = a
  BY <1>1 DEF EnvInv, Locked
<1> QED  BY <1>1, <1>2 DEF EnvInv, Locked

\* What a reader does at its sensor.
LEMMA ReaderKinds ==
    ASSUME EnvInv, EnvKinds, NEW a \in Reader, NEW s \in Sensor,
           ReaderOpens(a, s) \/ ReaderMakes(a, s) \/ ReaderReads(a, s)
    PROVE  EnvKinds'
<1>1. doing[a] \in {<<"open", s>>, <<"make", s>>, <<"read", s>>}
  BY DEF ReaderOpens, ReaderMakes, ReaderReads
<1>2. a # "agent" /\ a \in EnvTask /\ doing["agent"][1] # "make"
  BY <1>1, ReaderAlone
<1>3. doing'["agent"] = doing["agent"] /\ envLock' \in {envLock, "free"}
  <2>1. doing = [b \in EnvTask |-> doing[b]]
    BY DEF EnvInv
  <2>2. CASE ReaderOpens(a, s)
    <3>1. PICK to : doing' = [doing EXCEPT ![a] = to]
      BY <2>2 DEF ReaderOpens, GoesTo
    <3>2. envLock' = envLock
      BY <2>2 DEF ReaderOpens
    <3> QED  BY <1>2, <2>1, <3>1, <3>2
  <2>3. CASE ReaderMakes(a, s)
    <3>1. \E to : doing' = [doing EXCEPT ![a] = to] /\ envLock' \in {envLock, "free"}
      BY <2>3 DEF ReaderMakes, ReaderGoesOn, EnvUnlocks, GoesTo
    <3> QED  BY <1>2, <2>1, <3>1
  <2>4. CASE ReaderReads(a, s)
    <3>1. \E to : doing' = [doing EXCEPT ![a] = to] /\ envLock' \in {envLock, "free"}
      BY <2>4 DEF ReaderReads, ReaderGoesOn, EnvUnlocks, GoesTo
    <3> QED  BY <1>2, <2>1, <3>1
  <2> QED  BY <2>2, <2>3, <2>4
<1>4. AgentPlaced'
  <2>1. doing'["agent"] # <<"make", "sgp">> /\ doing'["agent"] # <<"make", "gy">>
    BY <1>2, <1>3
  <2> QED  BY <2>1 DEF AgentPlaced
<1>5. /\ env' = env \/ env' = [env EXCEPT ![s] = Closed] \/ env' = [env EXCEPT ![s] = Opened(Home[s])]
      /\ seen' = seen \/ seen' = [seen EXCEPT ![s] = TRUE] \/ seen' = [seen EXCEPT ![s] = FALSE]
      /\ sensors' = sensors \/ sensors' = [sensors EXCEPT ![s] = "ready"]
  <2>2. CASE ReaderOpens(a, s)
    BY <2>2 DEF ReaderOpens
  <2>3. CASE ReaderMakes(a, s)
    BY <2>3 DEF ReaderMakes
  <2>4. CASE ReaderReads(a, s)
    BY <2>4 DEF ReaderReads
  <2> QED  BY <2>2, <2>3, <2>4
<1>6. \A t \in Sensor : env'[t].at \in {NoPlace, env'[t].bus}
  <2>1. env \in [Sensor -> Handle]
    BY DEF EnvInv
  <2>2. Closed.at = NoPlace /\ Opened(Home[s]).at = Opened(Home[s]).bus
    BY DEF Closed, Opened
  <2> QED  BY <1>5, <2>1, <2>2 DEF EnvKinds
<1>7. seen' \in [Sensor -> BOOLEAN] /\ sensors' \in [Sensor -> {"off", "cold", "ready"}]
  BY <1>5 DEF EnvKinds
<1>8. envLock' \in EnvTask \cup {"free"}
  BY <1>3 DEF EnvKinds
<1> QED  BY <1>4, <1>6, <1>7, <1>8 DEF EnvKinds

\* The agent's call opens the next sensor at its place, or gives all up.
LEMMA AgentMakesKinds ==
    ASSUME EnvInv, EnvKinds, NEW s \in Sensor, AgentMakes(s)
    PROVE  EnvKinds'
<1> DEFINE place == want[s]
           mine  == [Opened(place) EXCEPT !.at = NoPlace]
           made  == [env EXCEPT ![s] = mine]
<1>1. /\ doing["agent"] = <<"make", s>> /\ want' = want /\ seen' = seen
      /\ doing = [b \in EnvTask |-> doing[b]] /\ "agent" \in EnvTask
      /\ env \in [Sensor -> Handle]
  BY DEF AgentMakes, EnvInv, EnvTask
<1>2. CASE ports[place.port] = "free" /\ Responds(s, place)
  <2>1. /\ env' = IF s = "gy" THEN [t \in Sensor |-> [made[t] EXCEPT !.at = want[t]]] ELSE made
        /\ sensors' = [sensors EXCEPT ![s] = "ready"] /\ envLock' = envLock
        /\ IF s = "gy" THEN GoesTo("agent", "read", "aht") ELSE GoesTo("agent", "make", Next3(s))
    BY <1>2 DEF AgentMakes
  <2>2. mine \in [bus : {place}, dev : {TRUE}, at : {NoPlace}]
    BY DEF Opened
  <2>3. mine.bus = place /\ mine.at = NoPlace
    BY <2>2
  <2> HIDE DEF mine
  <2>4. /\ made[s].bus = place /\ made[s].at = NoPlace
        /\ \A t \in Sensor : t # s => made[t] = env[t]
    BY <1>1, <2>3
  <2>5. ASSUME s # "gy"
        PROVE  /\ \A t \in Sensor : env'[t].at \in {NoPlace, env'[t].bus}
               /\ AgentPlaced'
    <3>1. env' = made
      BY <2>1, <2>5
    <3> HIDE DEF made
    <3>2. doing'["agent"] = <<"make", Next3(s)>>
      BY <1>1, <2>1, <2>5 DEF GoesTo
    <3>3. \A t \in Sensor : env'[t].at \in {NoPlace, env'[t].bus}
      BY <2>4, <3>1 DEF EnvKinds
    <3>4. CASE s = "aht"
      <4>1. env'["aht"].bus = want'["aht"]
        BY <1>1, <2>4, <3>1, <3>4
      <4>2. doing'["agent"] = <<"make", "sgp">>
        BY <3>2, <3>4 DEF Next3
      <4>3. doing'["agent"] # <<"make", "gy">>
        BY <4>2
      <4> QED  BY <3>3, <4>1, <4>3 DEF AgentPlaced
    <3>5. CASE s = "sgp"
      <4>1. env["aht"].bus = want["aht"]
        BY <1>1, <3>5 DEF EnvKinds, AgentPlaced
      <4>2. env'["aht"].bus = want["aht"] /\ env'["sgp"].bus = want["sgp"]
        BY <2>4, <3>1, <3>5, <4>1 DEF Sensor
      <4>3. env'["aht"].bus = want'["aht"] /\ env'["sgp"].bus = want'["sgp"]
        BY <1>1, <4>2
      <4> QED  BY <3>3, <4>3 DEF AgentPlaced
    <3> QED  BY <2>5, <3>3, <3>4, <3>5 DEF Sensor
  <2>6. ASSUME s = "gy"
        PROVE  /\ \A t \in Sensor : env'[t].at \in {NoPlace, env'[t].bus}
               /\ AgentPlaced'
    <3>1. env["aht"].bus = want["aht"] /\ env["sgp"].bus = want["sgp"]
      BY <1>1, <2>6 DEF EnvKinds, AgentPlaced
    <3>2. \A t \in Sensor : made[t].bus = want[t]
      BY <2>4, <2>6, <3>1 DEF Sensor
    <3>3. made \in [Sensor -> Handle]
      <4>1. want[s] \in Place
        BY DEF EnvInv
      <4>2. mine \in Handle
        BY <2>2, <4>1 DEF Handle
      <4> QED  BY <1>1, <4>2
    <3> HIDE DEF made
    <3>4. \A t \in Sensor : [made[t] EXCEPT !.at = want[t]].at = want[t]
                            /\ [made[t] EXCEPT !.at = want[t]].bus = want[t]
      BY <3>2, <3>3 DEF Handle
    <3>5. \A t \in Sensor : env'[t].at = want[t] /\ env'[t].bus = want[t]
      BY <2>1, <2>6, <3>4
    <3>6. doing'["agent"] = <<"read", "aht">>
      BY <1>1, <2>1, <2>6 DEF GoesTo
    <3> QED  BY <3>5, <3>6 DEF AgentPlaced
  <2> QED  BY <1>1, <2>1, <2>5, <2>6 DEF EnvKinds
<1>3. CASE ~(ports[place.port] = "free" /\ Responds(s, place))
  <2>1. env' = [t \in Sensor |-> Closed] /\ EnvUnlocks("agent") /\ sensors' = sensors
    BY <1>3, Zenon DEF AgentMakes
  <2>2. doing'["agent"] = EnvIdle /\ envLock' = "free"
    BY <1>1, <2>1 DEF EnvUnlocks
  <2>3. AgentPlaced'
    BY <2>2 DEF AgentPlaced, EnvIdle
  <2>4. \A t \in Sensor : env'[t].at \in {NoPlace, env'[t].bus}
    BY <2>1 DEF Closed
  <2> QED  BY <1>1, <2>1, <2>2, <2>3, <2>4 DEF EnvKinds
<1> QED  BY <1>2, <1>3

\* Whatever else leaves the sensors' handles as they are, or closes them all.
LEMMA OthersKinds ==
    ASSUME EnvKinds,
           envLock' \in EnvTask \cup {"free"}, seen' = seen,
           sensors' \in [Sensor -> {"off", "cold", "ready"}],
           env' = env \/ env' = [s \in Sensor |-> Closed],
           \/ doing'["agent"] \notin {<<"make", "sgp">>, <<"make", "gy">>}
           \/ env' = env /\ doing'["agent"] = doing["agent"] /\ want' = want
    PROVE  EnvKinds'
<1>1. \A s \in Sensor : env'[s].at \in {NoPlace, env'[s].bus}
  BY DEF EnvKinds, Closed
<1>2. AgentPlaced'
  BY DEF EnvKinds, AgentPlaced
<1> QED  BY <1>1, <1>2 DEF EnvKinds

LEMMA EnvKindsStep == EnvInv /\ EnvKinds /\ [EnvNext]_envVars => EnvKinds'
<1> SUFFICES ASSUME EnvInv, EnvKinds, [EnvNext]_envVars PROVE EnvKinds'
  OBVIOUS
<1>0. /\ "agent" \in EnvTask /\ Reader \subseteq EnvTask /\ "agent" \notin Reader
      /\ doing = [b \in EnvTask |-> doing[b]]
      /\ envLock \in EnvTask \cup {"free"} /\ sensors \in [Sensor -> {"off", "cold", "ready"}]
  BY EnvAssumption DEF EnvTask, EnvInv, EnvKinds
<1>1. ASSUME NEW a \in Reader, ReaderLocks(a) PROVE EnvKinds'
  <2>1. /\ envLock' = a /\ doing'["agent"] = doing["agent"]
        /\ env' = env /\ want' = want /\ seen' = seen /\ sensors' = sensors
    BY <1>0, <1>1 DEF ReaderLocks, EnvLocks, GoesTo
  <2> QED  BY <1>0, <2>1, OthersKinds
<1>2. CASE AgentLocks \/ AgentTooLate \/ AgentChecks
  <2>1. /\ envLock' \in {envLock, "agent"} /\ want' = want /\ seen' = seen /\ sensors' = sensors
        /\ env' = env \/ env' = [s \in Sensor |-> Closed]
    BY <1>2 DEF AgentLocks, AgentTooLate, AgentChecks, EnvLocks
  <2>2. doing'["agent"] \in {<<"check", "all">>, EnvIdle, <<"read", "aht">>, <<"make", "aht">>}
    BY <1>0, <1>2 DEF AgentLocks, AgentTooLate, AgentChecks, EnvLocks, GoesTo
  <2>3. doing'["agent"] \notin {<<"make", "sgp">>, <<"make", "gy">>}
    BY <2>2 DEF EnvIdle
  <2> QED  BY <1>0, <2>1, <2>3, OthersKinds
<1>3. ASSUME NEW s \in Sensor, AgentReads(s) PROVE EnvKinds'
  <2>1. /\ envLock' \in {envLock, "free"} /\ env' = env /\ want' = want /\ seen' = seen
        /\ sensors' = sensors
    BY <1>3 DEF AgentReads, EnvUnlocks
  <2>2. doing'["agent"] \in {<<"read", Next3(s)>>, EnvIdle}
    BY <1>0, <1>3 DEF AgentReads, EnvUnlocks, GoesTo
  <2>3. doing'["agent"] \notin {<<"make", "sgp">>, <<"make", "gy">>}
    BY <2>2 DEF EnvIdle
  <2> QED  BY <1>0, <2>1, <2>3, OthersKinds
<1>4. ASSUME NEW p \in Port, DiagnosisEnds(p) PROVE EnvKinds'
  <2>1. /\ envLock' = envLock /\ env' = env /\ want' = want /\ seen' = seen
        /\ sensors' \in {sensors, [sensors EXCEPT !["aht"] = "ready"],
                        [sensors EXCEPT !["gy"] = "ready"]}
    BY <1>4 DEF DiagnosisEnds
  <2>2. doing'["agent"] = EnvIdle
    BY <1>0, <1>4 DEF DiagnosisEnds
  <2>3. doing'["agent"] \notin {<<"make", "sgp">>, <<"make", "gy">>}
    BY <2>2 DEF EnvIdle
  <2>4. sensors' \in [Sensor -> {"off", "cold", "ready"}]
    BY <1>0, <2>1
  <2> QED  BY <1>0, <2>1, <2>3, <2>4, OthersKinds
<1>5. ASSUME NEW places \in SensorPlaces,
             EnvironmentAsked(places) \/ AirAsked(places["sgp"]) \/ DiagnosisAsked(places["aht"])
      PROVE  EnvKinds'
  <2>1. /\ envLock' = envLock /\ env' = env /\ seen' = seen
        /\ sensors' \in {sensors, [sensors EXCEPT !["sgp"] = "ready"]}
        /\ doing["agent"] = EnvIdle
    BY <1>5 DEF EnvironmentAsked, AirAsked, DiagnosisAsked
  <2>2. \/ doing' = doing
        \/ \E at : doing' = [doing EXCEPT !["agent"] = <<"lock", at>>]
        \/ \E at : doing' = [doing EXCEPT !["agent"] = <<"diagnose", at>>]
    BY <1>5 DEF EnvironmentAsked, AirAsked, DiagnosisAsked, GoesTo
  <2>3. doing'["agent"] \notin {<<"make", "sgp">>, <<"make", "gy">>}
    BY <1>0, <2>1, <2>2 DEF EnvIdle
  <2>4. sensors' \in [Sensor -> {"off", "cold", "ready"}]
    BY <1>0, <2>1
  <2> QED  BY <1>0, <2>1, <2>3, <2>4, OthersKinds
<1>6. ASSUME NEW s \in Sensor, SensorOff(s) \/ SensorOn(s) PROVE EnvKinds'
  <2>1. /\ UNCHANGED <<envLock, env, seen, doing, want>>
        /\ sensors' \in {[sensors EXCEPT ![s] = "off"], [sensors EXCEPT ![s] = "cold"]}
    BY <1>6 DEF SensorOff, SensorOn
  <2>2. sensors' \in [Sensor -> {"off", "cold", "ready"}]
    BY <1>0, <2>1
  <2> QED  BY <1>0, <2>1, <2>2, OthersKinds
<1>7. CASE UNCHANGED envVars
  <2>1. UNCHANGED <<envLock, env, seen, doing, want, sensors>>
    BY <1>7 DEF envVars
  <2> QED  BY <1>0, <2>1, OthersKinds
<1> QED
  BY <1>1, <1>2, <1>3, <1>4, <1>5, <1>6, <1>7, ReaderKinds, AgentMakesKinds
  DEF EnvNext, ReaderStep, EnvAgentStep, PowerReturns

\* The types of the sensors' state, and that a place recorded for a sensor is the one of its
\* bus (tool_environment.c).
LEMMA EnvShowsTypes == EnvInv /\ EnvKinds => EnvTypeOK
BY DEF EnvInv, EnvKinds, EnvTypeOK, Handle, Owner
-----------------------------------------------------------------------------
(* Wifi. *)

StaEvent == {"start", "down", "ip"}

\* What s_connected will say when the events have been handled: the last one that speaks of
\* a connection decides.
Says(evs, up) ==
    \/ \E i \in 1 .. Len(evs) :
          evs[i] = "ip" /\ \A j \in 1 .. Len(evs) : j > i => evs[j] = "start"
    \/ (\A j \in 1 .. Len(evs) : evs[j] = "start") /\ up

\* The starts of the station that are still to be handled.
StartsIn(evs) == {i \in 1 .. Len(evs) : evs[i] = "start"}
Starts(evs)   == Cardinality(StartsIn(evs))

\* ... and the one that the scan under way may cause.
ToCome == IF scanning = "yes" THEN Starts(staEvents) + 1 ELSE Starts(staEvents)

\* The start of the boot is still to be handled; it is the first event.
BootStart == staEvents # <<>> /\ Head(staEvents) = "start" /\ wifiBits = {}

\* Every start but the one of the boot, or of the portal, belongs to a scan.
StartsCounted ==
    /\ stage = "join" => portalTries = 0 /\ ToCome <= scans + 1 /\ (ToCome <= scans \/ BootStart)
    /\ stage = "portal" => portalTries + ToCome <= 1 + scans

\* The inductive invariant.
WifiInv ==
    /\ WifiTypeOK
    /\ portalTries \in Nat /\ scans \in Nat
    /\ Says(staEvents, wifiUp) <=> sta = "linked"
    /\ StartsCounted
    /\ stage = "portal" => ~reconnect

\* The last event decides.
LEMMA SaysLast ==
    ASSUME NEW evs \in Seq(StaEvent), NEW up \in BOOLEAN
    PROVE  /\ Says(Append(evs, "ip"), up)
           /\ ~Says(Append(evs, "down"), up)
           /\ Says(Append(evs, "start"), up) <=> Says(evs, up)
<1> DEFINE app(e) == Append(evs, e)
<1>1. \A e \in StaEvent : /\ Len(app(e)) = Len(evs) + 1 /\ app(e)[Len(evs) + 1] = e
                          /\ \A i \in 1 .. Len(evs) : app(e)[i] = evs[i]
  OBVIOUS
<1>2. Len(evs) \in Nat
  OBVIOUS
<1> HIDE DEF app
<1>3. Says(app("ip"), up)
  <2>1. Len(evs) + 1 \in 1 .. Len(app("ip"))
    BY <1>1, <1>2 DEF StaEvent
  <2>2. \A j \in 1 .. Len(app("ip")) : ~(j > Len(evs) + 1)
    BY <1>1, <1>2 DEF StaEvent
  <2> QED  BY <1>1, <2>1, <2>2 DEF Says, StaEvent
<1>4. ~Says(app("down"), up)
  <2>1. Len(evs) + 1 \in 1 .. Len(app("down")) /\ app("down")[Len(evs) + 1] = "down"
    BY <1>1, <1>2 DEF StaEvent
  <2>2. \A i \in 1 .. Len(app("down")) : app("down")[i] = "ip" => Len(evs) + 1 > i
    BY <1>1, <1>2, <2>1 DEF StaEvent
  <2> QED  BY <2>1, <2>2 DEF Says
<1>5. Says(app("start"), up) <=> Says(evs, up)
  <2>1. /\ Len(app("start")) = Len(evs) + 1 /\ app("start")[Len(evs) + 1] = "start"
        /\ \A i \in 1 .. Len(evs) : app("start")[i] = evs[i]
    BY <1>1 DEF StaEvent
  <2>2. \A i \in 1 .. Len(evs) + 1 : i \in 1 .. Len(evs) \/ i = Len(evs) + 1
    BY <1>2
  <2>3. 1 .. Len(evs) \subseteq 1 .. Len(evs) + 1 /\ Len(evs) + 1 \in 1 .. Len(evs) + 1
    BY <1>2
  <2> QED  BY <2>1, <2>2, <2>3 DEF Says
<1> QED  BY <1>3, <1>4, <1>5 DEF app

\* The first one, when it is handled, sets s_connected, or is a start.
LEMMA SaysRest ==
    ASSUME NEW evs \in Seq(StaEvent), evs # <<>>, NEW up \in BOOLEAN, NEW now \in BOOLEAN,
           Head(evs) = "start" => now = up,
           Head(evs) = "down" => now = FALSE,
           Head(evs) = "ip" => now = TRUE
    PROVE  Says(Tail(evs), now) <=> Says(evs, up)
<1> DEFINE n == Len(evs)
           t == Tail(evs)
<1>1. /\ n \in Nat \ {0} /\ Len(t) = n - 1 /\ Head(evs) = evs[1]
      /\ \A i \in 1 .. n - 1 : t[i] = evs[i + 1]
      /\ \A i \in 1 .. n : evs[i] \in StaEvent
  OBVIOUS
<1> HIDE DEF n, t
<1>2. /\ \A i \in 1 .. n - 1 : i + 1 \in 1 .. n
      /\ \A i \in 1 .. n : i = 1 \/ (i - 1 \in 1 .. n - 1 /\ i = i - 1 + 1)
      /\ 1 \in 1 .. n
  BY <1>1
<1>3. \A i \in 2 .. n : i - 1 \in 1 .. n - 1 /\ t[i - 1] = evs[i]
  BY <1>1
<1>4. (\A j \in 1 .. n - 1 : t[j] = "start") <=> \A j \in 2 .. n : evs[j] = "start"
  <2>1. \A j \in 1 .. n - 1 : j + 1 \in 2 .. n /\ t[j] = evs[j + 1]
    BY <1>1
  <2> QED  BY <1>3, <2>1
<1>5. (\E i \in 1 .. n - 1 : t[i] = "ip" /\ \A j \in 1 .. n - 1 : j > i => t[j] = "start")
      <=> \E i \in 2 .. n : evs[i] = "ip" /\ \A j \in 1 .. n : j > i => evs[j] = "start"
  <2>1. ASSUME NEW i \in 1 .. n - 1, t[i] = "ip", \A j \in 1 .. n - 1 : j > i => t[j] = "start"
        PROVE  /\ i + 1 \in 2 .. n /\ evs[i + 1] = "ip"
               /\ \A j \in 1 .. n : j > i + 1 => evs[j] = "start"
    <3>1. i + 1 \in 2 .. n /\ evs[i + 1] = "ip"
      BY <1>1, <2>1
    <3>2. ASSUME NEW j \in 1 .. n, j > i + 1 PROVE evs[j] = "start"
      <4>1. j \in 2 .. n /\ j - 1 > i
        BY <1>1, <3>2
      <4> QED  BY <1>3, <2>1, <4>1
    <3> QED  BY <3>1, <3>2
  <2>2. ASSUME NEW i \in 2 .. n, evs[i] = "ip", \A j \in 1 .. n : j > i => evs[j] = "start"
        PROVE  /\ i - 1 \in 1 .. n - 1 /\ t[i - 1] = "ip"
               /\ \A j \in 1 .. n - 1 : j > i - 1 => t[j] = "start"
    <3>1. i - 1 \in 1 .. n - 1 /\ t[i - 1] = "ip"
      BY <1>3, <2>2
    <3>2. ASSUME NEW j \in 1 .. n - 1, j > i - 1 PROVE t[j] = "start"
      <4>1. j + 1 \in 1 .. n /\ j + 1 > i /\ t[j] = evs[j + 1]
        BY <1>1, <3>2
      <4> QED  BY <2>2, <4>1
    <3> QED  BY <3>1, <3>2
  <2> QED  BY <2>1, <2>2
<1>6. Says(t, now) <=>
         \/ \E i \in 2 .. n : evs[i] = "ip" /\ \A j \in 1 .. n : j > i => evs[j] = "start"
         \/ (\A j \in 2 .. n : evs[j] = "start") /\ now
  BY <1>1, <1>4, <1>5 DEF Says
<1>7. Says(evs, up) <=>
         \/ \E i \in 1 .. n : evs[i] = "ip" /\ \A j \in 1 .. n : j > i => evs[j] = "start"
         \/ (\A j \in 1 .. n : evs[j] = "start") /\ up
  BY DEF Says, n
<1>8. 2 .. n \subseteq 1 .. n /\ \A i \in 1 .. n : i = 1 \/ i \in 2 .. n
  BY <1>1
<1>9. \A j \in 1 .. n : j > 1 <=> j \in 2 .. n
  BY <1>1
<1>10. evs[1] \in StaEvent /\ evs[1] = Head(evs)
  BY <1>1, <1>2
<1> DEFINE later == \E i \in 2 .. n :
                       evs[i] = "ip" /\ \A j \in 1 .. n : j > i => evs[j] = "start"
           quiet == \A j \in 2 .. n : evs[j] = "start"
<1>11. (\A j \in 1 .. n : j > 1 => evs[j] = "start") <=> quiet
  BY <1>8, <1>9
<1>12. (\E i \in 1 .. n : evs[i] = "ip" /\ \A j \in 1 .. n : j > i => evs[j] = "start")
       <=> later \/ (evs[1] = "ip" /\ quiet)
  BY <1>2, <1>8, <1>11
<1>13. (\A j \in 1 .. n : evs[j] = "start") <=> evs[1] = "start" /\ quiet
  BY <1>2, <1>8
<1>14. Says(evs, up) <=>
          later \/ (Head(evs) = "ip" /\ quiet) \/ (Head(evs) = "start" /\ quiet /\ up)
  BY <1>7, <1>10, <1>12, <1>13
<1>15. Says(t, now) <=> later \/ (quiet /\ now)
  BY <1>6
<1> HIDE DEF later, quiet
<1>16. Head(evs) \in StaEvent
  BY <1>10
<1> QED  BY <1>14, <1>15, <1>16 DEF StaEvent, t

\* How many starts there are.
LEMMA StartsAppend ==
    ASSUME NEW evs \in Seq(StaEvent), NEW e \in StaEvent
    PROVE  /\ Starts(evs) \in Nat
           /\ Starts(Append(evs, e)) = IF e = "start" THEN Starts(evs) + 1 ELSE Starts(evs)
<1> DEFINE n == Len(evs)
           a == Append(evs, e)
<1>1. n \in Nat /\ Len(a) = n + 1 /\ a[n + 1] = e /\ \A i \in 1 .. n : a[i] = evs[i]
  OBVIOUS
<1> HIDE DEF a
<1>2. IsFiniteSet(1 .. n)
  BY <1>1, FS_Interval
<1>3. StartsIn(evs) \subseteq 1 .. n /\ IsFiniteSet(StartsIn(evs)) /\ Starts(evs) \in Nat
  BY <1>2, FS_Subset, FS_CardinalityType DEF StartsIn, Starts
<1>4. n + 1 \notin StartsIn(evs)
  BY <1>1, <1>3
<1>5. 1 .. n + 1 = (1 .. n) \cup {n + 1}
  BY <1>1
<1>6. CASE e = "start"
  <2>1. StartsIn(a) = StartsIn(evs) \cup {n + 1}
    BY <1>1, <1>5, <1>6 DEF StartsIn
  <2> QED  BY <1>3, <1>4, <1>6, <2>1, FS_AddElement DEF Starts, a
<1>7. CASE e # "start"
  <2>1. StartsIn(a) = StartsIn(evs)
    BY <1>1, <1>5, <1>7 DEF StartsIn
  <2> QED  BY <1>3, <1>7, <2>1 DEF Starts, a
<1> QED  BY <1>6, <1>7

LEMMA StartsTail ==
    ASSUME NEW evs \in Seq(StaEvent), evs # <<>>
    PROVE  Starts(evs) = IF Head(evs) = "start" THEN Starts(Tail(evs)) + 1 ELSE Starts(Tail(evs))
<1> DEFINE n == Len(evs)
           t == Tail(evs)
<1>1. /\ n \in Nat \ {0} /\ t \in Seq(StaEvent) /\ Len(t) = n - 1 /\ Head(evs) = evs[1]
      /\ \A i \in 1 .. n - 1 : t[i] = evs[i + 1]
  OBVIOUS
<1> HIDE DEF n, t
<1>2. StartsIn(t) \subseteq 1 .. n - 1 /\ IsFiniteSet(StartsIn(t)) /\ Starts(t) \in Nat
  <2>1. IsFiniteSet(1 .. n - 1)
    BY <1>1, FS_Interval
  <2>2. StartsIn(t) \subseteq 1 .. n - 1
    BY <1>1 DEF StartsIn
  <2> QED  BY <2>1, <2>2, FS_Subset, FS_CardinalityType DEF Starts
<1> DEFINE later == {i \in 2 .. n : evs[i] = "start"}
           shift == [i \in StartsIn(t) |-> i + 1]
<1>3. shift \in Bijection(StartsIn(t), later)
  <2>1. \A i \in StartsIn(t) : i + 1 \in later
    <3> SUFFICES ASSUME NEW i \in StartsIn(t) PROVE i + 1 \in later
      OBVIOUS
    <3>1. i \in 1 .. n - 1 /\ t[i] = "start"
      BY <1>1 DEF StartsIn
    <3> QED  BY <1>1, <3>1
  <2>2. \A k \in later : \E i \in StartsIn(t) : shift[i] = k
    <3> SUFFICES ASSUME NEW k \in later PROVE \E i \in StartsIn(t) : shift[i] = k
      OBVIOUS
    <3>1. k - 1 \in 1 .. n - 1 /\ t[k - 1] = evs[k] /\ k - 1 + 1 = k
      BY <1>1
    <3>2. k - 1 \in StartsIn(t)
      BY <1>1, <3>1 DEF StartsIn
    <3> QED  BY <3>1, <3>2
  <2>3. \A i, k \in StartsIn(t) : shift[i] = shift[k] => i = k
    BY <1>2
  <2>4. shift \in [StartsIn(t) -> later]
    BY <2>1
  <2> QED  BY <2>2, <2>3, <2>4 DEF Bijection, Injection, Surjection, IsInjective
<1>4. ExistsBijection(StartsIn(t), later)
  BY <1>3 DEF ExistsBijection
<1>5. IsFiniteSet(later) /\ Cardinality(later) = Starts(t)
  BY <1>2, <1>4, FS_Bijection DEF Starts
<1>6. 1 .. n = {1} \cup 2 .. n /\ 1 \notin 2 .. n
  BY <1>1
<1>7. CASE Head(evs) = "start"
  <2>1. StartsIn(evs) = later \cup {1} /\ 1 \notin later
    BY <1>1, <1>6, <1>7 DEF StartsIn, n
  <2> QED  BY <1>5, <1>7, <2>1, FS_AddElement DEF Starts, t
<1>8. CASE Head(evs) # "start"
  <2>1. StartsIn(evs) = later
    BY <1>1, <1>6, <1>8 DEF StartsIn, n
  <2> QED  BY <1>5, <1>8, <2>1 DEF Starts, t
<1> QED  BY <1>7, <1>8

\* No start in no event.
LEMMA StartsNone == Starts(<<>>) = 0 /\ Starts(<<"start">>) = 1
<1>1. StartsIn(<<>>) = {} /\ StartsIn(<<"start">>) = {1}
  BY DEF StartsIn
<1>2. Cardinality({}) = 0 /\ IsFiniteSet({})
  BY FS_EmptySet
<1>3. Cardinality({} \cup {1}) = 1
  BY <1>2, FS_AddElement
<1> QED  BY <1>1, <1>2, <1>3 DEF Starts

\* What a disconnection, or one with a start after it, makes of the events.
LEMMA QueueGrows ==
    ASSUME NEW evs \in Seq(StaEvent)
    PROVE  /\ evs \o <<>> = evs
           /\ evs \o <<"down">> = Append(evs, "down")
           /\ evs \o <<"start">> = Append(evs, "start")
           /\ evs \o <<"down", "start">> = Append(Append(evs, "down"), "start")
<1>1. Append(Append(evs, "down"), "start") = evs \o <<"down", "start">>
  BY DEF StaEvent
<1> QED  BY <1>1 DEF StaEvent

\* The connection is cut by the driver: it is told if there was one, or an attempt.
LEMMA CutRight ==
    ASSUME NEW evs \in Seq(StaEvent), NEW up \in BOOLEAN,
           sta \in {"idle", "trying", "linked"}, Says(evs, up) <=> sta = "linked"
    PROVE  /\ evs \o Disconnected \in Seq(StaEvent)
           /\ ~Says(evs \o Disconnected, up)
           /\ Starts(evs \o Disconnected) = Starts(evs)
           /\ \A e \in StaEvent : evs # <<>> /\ Head(evs) = e =>
                 evs \o Disconnected # <<>> /\ Head(evs \o Disconnected) = e
<1>1. CASE sta = "idle"
  <2>1. evs \o Disconnected = evs
    BY <1>1, QueueGrows DEF Disconnected
  <2> QED  BY <1>1, <2>1
<1>2. CASE sta # "idle"
  <2>1. evs \o Disconnected = Append(evs, "down")
    BY <1>2, QueueGrows DEF Disconnected
  <2>2. "down" \in StaEvent
    BY DEF StaEvent
  <2>3. Append(evs, "down") \in Seq(StaEvent)
    BY <2>2
  <2>4. ~Says(Append(evs, "down"), up)
    BY SaysLast
  <2>5. Starts(Append(evs, "down")) = Starts(evs)
    BY <2>2, StartsAppend
  <2>6. evs # <<>> => Append(evs, "down") # <<>> /\ Head(Append(evs, "down")) = Head(evs)
    OBVIOUS
  <2> QED  BY <2>1, <2>3, <2>4, <2>5, <2>6
<1> QED  BY <1>1, <1>2

\* The next event is taken.
LEMMA TakeRight ==
    ASSUME WifiInv, staEvents # <<>>, NEW now \in BOOLEAN,
           Head(staEvents) = "start" => now = wifiUp,
           Head(staEvents) = "down" => now = FALSE,
           Head(staEvents) = "ip" => now = TRUE
    PROVE  /\ Tail(staEvents) \in Seq(StaEvent)
           /\ Says(Tail(staEvents), now) <=> sta = "linked"
           /\ Starts(Tail(staEvents)) \in Nat
           /\ Starts(staEvents) = IF Head(staEvents) = "start" THEN Starts(Tail(staEvents)) + 1
                                  ELSE Starts(Tail(staEvents))
<1>1. staEvents \in Seq(StaEvent) /\ wifiUp \in BOOLEAN /\ (Says(staEvents, wifiUp) <=> sta = "linked")
  BY DEF WifiInv, WifiTypeOK, StaEvent
<1>2. Tail(staEvents) \in Seq(StaEvent)
  BY <1>1
<1>3. Says(Tail(staEvents), now) <=> Says(staEvents, wifiUp)
  BY <1>1, SaysRest
<1>4. Starts(Tail(staEvents)) \in Nat
  BY <1>2, StartsAppend DEF StaEvent
<1> QED  BY <1>1, <1>2, <1>3, <1>4, StartsTail

LEMMA WifiInvInit == WifiInit => WifiInv
<1> SUFFICES ASSUME WifiInit PROVE WifiInv
  OBVIOUS
<1>1. WifiTypeOK
  <2>1. /\ stage = "join" /\ sta = "idle" /\ staEvents = <<"start">> /\ scanning = "no"
        /\ wifiBits = {} /\ retries = 0 /\ sleepers = 0 /\ leavers = 0
    BY DEF WifiInit
  <2>2. air \in BOOLEAN /\ reconnect \in BOOLEAN /\ wifiUp \in BOOLEAN /\ handle \in BOOLEAN
    BY DEF WifiInit
  <2>3. 0 \in 0 .. MaxRetry /\ <<"start">> \in Seq({"start", "down", "ip"})
    BY WifiAssumption
  <2> QED  BY <2>1, <2>2, <2>3 DEF WifiTypeOK
<1>2. staEvents = <<"start">> /\ wifiUp = FALSE /\ sta = "idle" /\ scanning = "no"
      /\ wifiBits = {} /\ stage = "join" /\ portalTries = 0 /\ scans = 0
  BY DEF WifiInit
<1>3. ~Says(staEvents, wifiUp)
  BY <1>2 DEF Says
<1>4. BootStart
  BY <1>2 DEF BootStart
<1>5. ToCome = 1
  BY <1>2, StartsNone DEF ToCome
<1>6. StartsCounted
  BY <1>2, <1>4, <1>5 DEF StartsCounted
<1> QED  BY <1>1, <1>2, <1>3, <1>6 DEF WifiInv

\* The handler takes a start.
LEMMA StaStartsRight ==
    ASSUME WifiInv, StaStarts
    PROVE  WifiInv'
<1>0. WifiTypeOK /\ portalTries \in Nat /\ scans \in Nat /\ StartsCounted
  BY DEF WifiInv
<1>1. /\ staEvents # <<>> /\ Head(staEvents) = "start" /\ staEvents' = Tail(staEvents)
      /\ sta' = Connected
      /\ portalTries' = IF stage = "portal" THEN portalTries + 1 ELSE portalTries
      /\ stage' = stage /\ air' = air /\ reconnect' = reconnect /\ wifiUp' = wifiUp
      /\ retries' = retries /\ handle' = handle /\ wifiBits' = wifiBits
      /\ sleepers' = sleepers /\ leavers' = leavers /\ scanning' = scanning /\ scans' = scans
  BY DEF StaStarts, flags, tasks, bounds
<1>2. /\ Tail(staEvents) \in Seq(StaEvent)
      /\ Says(Tail(staEvents), wifiUp) <=> sta = "linked"
      /\ Starts(Tail(staEvents)) \in Nat /\ Starts(staEvents) = Starts(Tail(staEvents)) + 1
  BY <1>0, <1>1, TakeRight DEF WifiTypeOK
<1>3. sta' \in {"idle", "trying", "linked"} /\ (sta' = "linked" <=> sta = "linked")
  BY <1>0, <1>1 DEF Connected, WifiTypeOK
<1>4. WifiTypeOK'
  BY <1>0, <1>1, <1>2, <1>3 DEF WifiTypeOK, StaEvent
<1>5. ToCome' \in Nat /\ ToCome = ToCome' + 1
  BY <1>1, <1>2 DEF ToCome
<1>6. StartsCounted'
  <2>1. ASSUME stage' = "join"
        PROVE  portalTries' = 0 /\ ToCome' <= scans'
    <3>1. portalTries = 0 /\ ToCome <= scans + 1
      BY <1>0, <1>1, <2>1 DEF StartsCounted
    <3>2. portalTries' = portalTries /\ scans' = scans
      BY <1>1, <2>1
    <3>3. ToCome' \in Nat /\ ToCome = ToCome' + 1 /\ scans \in Nat
      BY <1>0, <1>5
    <3> QED  BY <3>1, <3>2, <3>3 DEF ToCome
  <2>2. ASSUME stage' = "portal" PROVE portalTries' + ToCome' <= 1 + scans'
    <3>1. portalTries + ToCome <= 1 + scans
      BY <1>0, <1>1, <2>2 DEF StartsCounted
    <3>2. portalTries' = portalTries + 1 /\ scans' = scans /\ portalTries \in Nat
      BY <1>0, <1>1, <2>2
    <3>3. ToCome' \in Nat /\ ToCome = ToCome' + 1 /\ scans \in Nat
      BY <1>0, <1>5
    <3> QED  BY <3>1, <3>2, <3>3 DEF ToCome
  <2>4. ToCome' <= scans' => ToCome' <= scans' + 1
    BY <1>0, <1>1, <1>5
  <2> QED  BY <2>1, <2>2, <2>4 DEF StartsCounted
<1>7. portalTries' \in Nat
  BY <1>0, <1>1
<1> QED  BY <1>0, <1>1, <1>2, <1>3, <1>4, <1>6, <1>7 DEF WifiInv

\* The handler takes a disconnection, or an address.
LEMMA StaHandledRight ==
    ASSUME WifiInv, StaDown \/ StaGotIp
    PROVE  WifiInv'
<1>0. WifiTypeOK /\ portalTries \in Nat /\ scans \in Nat /\ StartsCounted
  BY DEF WifiInv
<1>1. /\ staEvents # <<>> /\ Head(staEvents) \in {"down", "ip"} /\ staEvents' = Tail(staEvents)
      /\ wifiUp' = (Head(staEvents) = "ip")
      /\ stage' = stage /\ air' = air /\ sta' = sta /\ reconnect' = reconnect
      /\ leavers' = leavers /\ scanning' = scanning /\ portalTries' = portalTries
      /\ scans' = scans
  BY DEF StaDown, StaGotIp, bounds, tasks, noted
<1>2. /\ Tail(staEvents) \in Seq(StaEvent)
      /\ Says(Tail(staEvents), wifiUp') <=> sta = "linked"
      /\ Starts(Tail(staEvents)) \in Nat /\ Starts(staEvents) = Starts(Tail(staEvents))
  BY <1>0, <1>1, TakeRight DEF WifiTypeOK
<1>3. /\ retries' \in 0 .. MaxRetry /\ handle' \in BOOLEAN /\ sleepers' \in Nat
      /\ wifiBits' \subseteq {"connected", "fail"}
  <2>1. CASE StaDown
    <3>1. retries' \in 0 .. MaxRetry
      BY <1>0, <2>1, WifiAssumption DEF StaDown, WifiTypeOK
    <3>2. handle' \in BOOLEAN
      BY <1>0, <2>1 DEF StaDown, WifiTypeOK
    <3>3. sleepers' \in Nat
      BY <1>0, <2>1 DEF StaDown, WifiTypeOK
    <3>4. wifiBits' \subseteq {"connected", "fail"}
      BY <1>0, <2>1 DEF StaDown, WifiTypeOK
    <3> QED  BY <3>1, <3>2, <3>3, <3>4
  <2>2. CASE StaGotIp
    <3>1. retries' = 0 /\ handle' = FALSE /\ sleepers' = sleepers
          /\ wifiBits' = wifiBits \cup {"connected"}
      BY <2>2 DEF StaGotIp, tasks
    <3>2. 0 \in 0 .. MaxRetry
      BY WifiAssumption
    <3>3. handle' \in BOOLEAN
      BY <3>1
    <3> QED  BY <1>0, <3>1, <3>2, <3>3 DEF WifiTypeOK
  <2> QED  BY <2>1, <2>2
<1>4. WifiTypeOK'
  BY <1>0, <1>1, <1>2, <1>3 DEF WifiTypeOK, StaEvent
<1>5. ToCome' = ToCome /\ ToCome \in Nat /\ ~BootStart
  BY <1>1, <1>2 DEF ToCome, BootStart
<1>6. StartsCounted'
  BY <1>0, <1>1, <1>5 DEF StartsCounted
<1> QED  BY <1>0, <1>1, <1>2, <1>4, <1>6 DEF WifiInv

\* What leaves the events, the boot and the scan alone, and the station linked or not.
LEMMA StationStands ==
    ASSUME WifiInv, WifiTypeOK', portalTries' = portalTries,
           sta' = "linked" <=> sta = "linked",
           UNCHANGED <<stage, staEvents, reconnect, wifiUp, wifiBits, scanning, scans>>
    PROVE  WifiInv'
<1>1. /\ stage' = stage /\ staEvents' = staEvents /\ reconnect' = reconnect
      /\ wifiUp' = wifiUp /\ wifiBits' = wifiBits /\ scanning' = scanning /\ scans' = scans
  OBVIOUS
<1>2. ToCome' = ToCome /\ BootStart' = BootStart
  BY <1>1 DEF ToCome, BootStart
<1>3. StartsCounted'
  BY <1>1, <1>2 DEF WifiInv, StartsCounted
<1> QED  BY <1>1, <1>3 DEF WifiInv

\* The task looks, or ends.  In the portal it does not try.
LEMMA RetryRight ==
    ASSUME WifiInv, RetryLooks \/ RetryEnds
    PROVE  WifiInv'
<1>0. WifiTypeOK /\ (stage = "portal" => ~reconnect)
  BY DEF WifiInv, StartsCounted
<1>1. CASE RetryLooks
  <2>1. sta' \in {sta, Connected} /\ portalTries' = portalTries
    BY <1>0, <1>1 DEF RetryLooks, MayRetry
  <2>2. sta' \in {"idle", "trying", "linked"} /\ (sta' = "linked" <=> sta = "linked")
    BY <1>0, <2>1 DEF Connected, WifiTypeOK
  <2>3. sleepers' \in Nat /\ leavers' \in Nat
    BY <1>0, <1>1 DEF RetryLooks, WifiTypeOK
  <2>4. UNCHANGED <<stage, air, staEvents, reconnect, wifiUp, retries, handle, wifiBits, scanning, scans>>
    BY <1>1 DEF RetryLooks, flags, bounds
  <2>5. WifiTypeOK'
    BY <1>0, <2>2, <2>3, <2>4 DEF WifiTypeOK
  <2> QED  BY <2>1, <2>2, <2>4, <2>5, StationStands
<1>2. CASE RetryEnds
  <2>1. leavers' \in Nat
    BY <1>0, <1>2 DEF RetryEnds, WifiTypeOK
  <2>4. handle' \in BOOLEAN
    BY <1>2 DEF RetryEnds
  <2>2. UNCHANGED <<stage, air, sta, staEvents, reconnect, wifiUp, retries, wifiBits, sleepers,
                    scanning, portalTries, scans>>
    BY <1>2 DEF RetryEnds, noted, bounds
  <2>3. WifiTypeOK'
    BY <1>0, <2>1, <2>2, <2>4 DEF WifiTypeOK
  <2> QED  BY <2>2, <2>3, StationStands
<1> QED  BY <1>1, <1>2

\* The driver tells how the attempt ended.
LEMMA AttemptRight ==
    ASSUME WifiInv, AttemptEnds
    PROVE  WifiInv'
<1>0. WifiTypeOK /\ StartsCounted /\ staEvents \in Seq(StaEvent) /\ wifiUp \in BOOLEAN
  BY DEF WifiInv, WifiTypeOK, StaEvent
<1>1. PICK e \in {"ip", "down"} :
         /\ staEvents' = Append(staEvents, e)
         /\ sta' = IF e = "ip" THEN "linked" ELSE "idle"
         /\ UNCHANGED <<stage, air, reconnect, wifiUp, retries, handle, wifiBits, sleepers, leavers,
                        scanning, portalTries, scans>>
  BY DEF AttemptEnds, flags, tasks, noted, bounds
<1>2. Says(staEvents', wifiUp) <=> sta' = "linked"
  BY <1>0, <1>1, SaysLast
<1>3. staEvents' \in Seq(StaEvent) /\ Starts(staEvents') = Starts(staEvents)
  BY <1>0, <1>1, StartsAppend DEF StaEvent
<1>4. WifiTypeOK'
  BY <1>0, <1>1, <1>3 DEF WifiTypeOK, StaEvent
<1>5. staEvents # <<>> => staEvents' # <<>> /\ Head(staEvents') = Head(staEvents)
  BY <1>0, <1>1
<1>6. ToCome' = ToCome /\ (BootStart => BootStart')
  BY <1>1, <1>3, <1>5 DEF ToCome, BootStart
<1>7. StartsCounted'
  BY <1>0, <1>1, <1>6 DEF StartsCounted
<1> QED  BY <1>1, <1>2, <1>4, <1>7 DEF WifiInv

\* The access point goes, or a scan begins.
LEMMA CutsRight ==
    ASSUME WifiInv, AirGoes \/ ScanBegins
    PROVE  WifiInv'
<1>0. /\ WifiTypeOK /\ StartsCounted /\ staEvents \in Seq(StaEvent) /\ wifiUp \in BOOLEAN
      /\ portalTries \in Nat /\ scans \in Nat
      /\ sta \in {"idle", "trying", "linked"} /\ (Says(staEvents, wifiUp) <=> sta = "linked")
  BY DEF WifiInv, WifiTypeOK, StaEvent
<1>1. /\ sta' = "idle" /\ staEvents' = staEvents \o Disconnected
      /\ UNCHANGED <<stage, reconnect, wifiUp, retries, handle, wifiBits, sleepers, leavers,
                     portalTries>>
  BY DEF AirGoes, ScanBegins, flags, tasks, noted, bounds
<1>2. /\ staEvents' \in Seq(StaEvent) /\ ~Says(staEvents', wifiUp)
      /\ Starts(staEvents') = Starts(staEvents)
      /\ staEvents # <<>> /\ Head(staEvents) = "start" =>
            staEvents' # <<>> /\ Head(staEvents') = "start"
  BY <1>0, <1>1, CutRight DEF StaEvent
<1>3. Starts(staEvents) \in Nat
  BY <1>0, StartsAppend DEF StaEvent
<1>4. /\ air' \in BOOLEAN /\ scanning' \in {"no", "yes", "again"} /\ scans' \in Nat
      /\ ToCome' - scans' = ToCome - scans /\ ToCome \in Nat /\ ToCome' \in Nat
  <2>1. CASE AirGoes
    <3>1. air' = FALSE /\ scanning' = scanning /\ scans' = scans
      BY <2>1 DEF AirGoes
    <3>2. air' \in BOOLEAN
      BY <3>1
    <3>3. ToCome' = ToCome /\ ToCome \in Nat
      BY <1>2, <1>3, <3>1 DEF ToCome
    <3> QED  BY <1>0, <3>1, <3>2, <3>3 DEF WifiTypeOK
  <2>2. CASE ScanBegins
    <3>1. scanning = "no" /\ scanning' = "yes" /\ scans' = scans + 1 /\ air' = air
      BY <2>2 DEF ScanBegins
    <3> QED  BY <1>0, <1>2, <1>3, <3>1 DEF ToCome, WifiTypeOK
  <2> QED  BY <2>1, <2>2
<1>5. WifiTypeOK'
  BY <1>0, <1>1, <1>2, <1>4 DEF WifiTypeOK, StaEvent
<1>6. BootStart => BootStart'
  BY <1>1, <1>2 DEF BootStart
<1>7. StartsCounted'
  <2>1. ASSUME stage' = "join"
        PROVE  /\ portalTries' = 0 /\ ToCome' <= scans' + 1
               /\ ToCome' <= scans' \/ BootStart'
    <3>1. portalTries = 0 /\ ToCome <= scans + 1 /\ (ToCome <= scans \/ BootStart)
      BY <1>0, <1>1, <2>1 DEF StartsCounted
    <3>2. portalTries' = portalTries
      BY <1>1
    <3>3. /\ ToCome' - scans' = ToCome - scans /\ ToCome \in Nat /\ ToCome' \in Nat
          /\ scans \in Nat /\ scans' \in Nat
      BY <1>0, <1>4
    <3>4. ToCome' <= scans' + 1 /\ (ToCome <= scans => ToCome' <= scans')
      BY <3>1, <3>3 DEF ToCome
    <3> QED  BY <1>6, <3>1, <3>2, <3>4
  <2>2. ASSUME stage' = "portal" PROVE portalTries' + ToCome' <= 1 + scans'
    <3>1. portalTries + ToCome <= 1 + scans /\ portalTries' = portalTries
      BY <1>0, <1>1, <2>2 DEF StartsCounted
    <3>2. /\ ToCome' - scans' <= ToCome - scans /\ ToCome \in Nat /\ ToCome' \in Nat
          /\ scans \in Nat /\ scans' \in Nat /\ portalTries \in Nat
      BY <1>0, <1>1, <1>4 DEF ToCome
    <3> QED  BY <3>1, <3>2 DEF ToCome
  <2> QED  BY <2>1, <2>2 DEF StartsCounted
<1> QED  BY <1>0, <1>1, <1>2, <1>4, <1>5, <1>7 DEF WifiInv

\* The services are started.
LEMMA JoinSucceedsRight ==
    ASSUME WifiInv, JoinSucceeds
    PROVE  WifiInv'
<1>1. stage' = "run"
      /\ UNCHANGED <<air, sta, staEvents, reconnect, wifiUp, retries, handle, wifiBits, sleepers,
                     leavers, scanning, portalTries, scans>>
  BY DEF JoinSucceeds, flags, tasks, noted, bounds
<1>2. WifiTypeOK'
  BY <1>1 DEF WifiInv, WifiTypeOK
<1>3. StartsCounted'
  BY <1>1 DEF StartsCounted
<1> QED  BY <1>1, <1>2, <1>3 DEF WifiInv

\* The station is stopped for the portal, whose start comes after all the others.
LEMMA JoinFailsRight ==
    ASSUME WifiInv, JoinFails
    PROVE  WifiInv'
<1> DEFINE cut == staEvents \o Disconnected
<1>0. /\ WifiTypeOK /\ StartsCounted /\ staEvents \in Seq(StaEvent) /\ wifiUp \in BOOLEAN
      /\ portalTries \in Nat /\ scans \in Nat
      /\ sta \in {"idle", "trying", "linked"} /\ (Says(staEvents, wifiUp) <=> sta = "linked")
  BY DEF WifiInv, WifiTypeOK, StaEvent
<1>1. /\ stage = "join" /\ stage' = "portal" /\ ("fail" \in wifiBits \/ staEvents = <<>>)
      /\ reconnect' = FALSE /\ handle' = FALSE /\ wifiUp' = FALSE /\ retries' = 0
      /\ wifiBits' = {} /\ sta' = "idle" /\ staEvents' = cut \o <<"start">>
      /\ UNCHANGED <<air, sleepers, leavers, scanning, portalTries, scans>>
  BY DEF JoinFails, tasks, noted, bounds
<1>2. cut \in Seq(StaEvent) /\ ~Says(cut, wifiUp) /\ Starts(cut) = Starts(staEvents)
  BY <1>0, CutRight
<1>3. Starts(staEvents) \in Nat
  BY <1>0, StartsAppend DEF StaEvent
<1> HIDE DEF cut
<1>4. ~Says(cut, FALSE)
  BY <1>2 DEF Says
<1>5. staEvents' = Append(cut, "start") /\ staEvents' \in Seq(StaEvent)
  BY <1>1, <1>2, QueueGrows DEF StaEvent
<1>6. ~Says(staEvents', wifiUp')
  <2>1. Says(Append(cut, "start"), FALSE) <=> Says(cut, FALSE)
    BY <1>2, SaysLast
  <2> QED  BY <1>1, <1>4, <1>5, <2>1
<1>7. Starts(staEvents') = Starts(staEvents) + 1
  BY <1>2, <1>5, StartsAppend DEF StaEvent
<1>8. ~BootStart
  BY <1>1 DEF BootStart
<1>9. portalTries = 0 /\ ToCome <= scans /\ ToCome' = ToCome + 1 /\ ToCome \in Nat
  BY <1>0, <1>1, <1>3, <1>7, <1>8 DEF StartsCounted, ToCome
<1>10. StartsCounted'
  BY <1>0, <1>1, <1>9 DEF StartsCounted
<1>11. WifiTypeOK'
  <2>1. 0 \in 0 .. MaxRetry
    BY WifiAssumption
  <2>2. reconnect' \in BOOLEAN /\ handle' \in BOOLEAN /\ wifiUp' \in BOOLEAN
    BY <1>1
  <2> QED  BY <1>0, <1>1, <1>5, <2>1, <2>2 DEF WifiTypeOK, StaEvent
<1> QED  BY <1>0, <1>1, <1>6, <1>10, <1>11 DEF WifiInv

\* The board restarts.
LEMMA PortalEndsRight ==
    ASSUME WifiInv, PortalEnds
    PROVE  WifiInv'
<1>0. air \in BOOLEAN /\ scans \in Nat
  BY DEF WifiInv, WifiTypeOK
<1>1. /\ stage' = "join" /\ sta' = "idle" /\ staEvents' = <<"start">>
      /\ reconnect' = TRUE /\ wifiUp' = FALSE /\ retries' = 0 /\ handle' = FALSE
      /\ sleepers' = 0 /\ leavers' = 0 /\ wifiBits' = {} /\ scanning' = "no"
      /\ portalTries' = 0 /\ air' = air /\ scans' = scans
  BY DEF PortalEnds
<1>2. WifiTypeOK'
  <2>1. 0 \in 0 .. MaxRetry /\ <<"start">> \in Seq({"start", "down", "ip"})
    BY WifiAssumption
  <2>2. air' \in BOOLEAN /\ reconnect' \in BOOLEAN /\ handle' \in BOOLEAN /\ wifiUp' \in BOOLEAN
    BY <1>0, <1>1
  <2> QED  BY <1>1, <2>1, <2>2 DEF WifiTypeOK
<1>3. ~Says(staEvents', wifiUp')
  BY <1>1 DEF Says
<1>4. BootStart'
  BY <1>1 DEF BootStart
<1>5. ToCome' = 1
  BY <1>1, StartsNone DEF ToCome
<1>6. StartsCounted'
  BY <1>0, <1>1, <1>4, <1>5 DEF StartsCounted
<1> QED  BY <1>0, <1>1, <1>2, <1>3, <1>6 DEF WifiInv

\* The driver is restarted for a scan.
LEMMA ScanRestartsRight ==
    ASSUME WifiInv, ScanRestarts
    PROVE  WifiInv'
<1>0. /\ WifiTypeOK /\ StartsCounted /\ staEvents \in Seq(StaEvent) /\ wifiUp \in BOOLEAN
      /\ portalTries \in Nat /\ scans \in Nat
  BY DEF WifiInv, WifiTypeOK, StaEvent
<1> DEFINE cut == Append(staEvents, "down")
<1>1. /\ scanning = "yes" /\ scanning' = "again" /\ sta' = "idle"
      /\ staEvents' = staEvents \o <<"down", "start">>
      /\ UNCHANGED <<stage, air, reconnect, wifiUp, retries, handle, wifiBits, sleepers,
                     leavers, portalTries, scans>>
  BY DEF ScanRestarts, flags, tasks, noted, bounds
<1>2. /\ cut \in Seq(StaEvent) /\ Starts(cut) = Starts(staEvents) /\ Starts(cut) \in Nat
      /\ ~Says(cut, wifiUp)
  BY <1>0, StartsAppend, SaysLast DEF StaEvent
<1>3. staEvents' = Append(cut, "start")
  BY <1>0, <1>1, QueueGrows
<1>4. staEvents # <<>> => staEvents' # <<>> /\ Head(staEvents') = Head(staEvents)
  BY <1>0, <1>3
<1> HIDE DEF cut
<1>5. staEvents' \in Seq(StaEvent) /\ Starts(staEvents') = Starts(staEvents) + 1
  BY <1>2, <1>3, StartsAppend DEF StaEvent
<1>6. ~Says(staEvents', wifiUp')
  <2>1. ~Says(Append(cut, "start"), wifiUp)
    BY <1>0, <1>2, SaysLast
  <2> QED  BY <1>1, <1>3, <2>1
<1>7. ToCome' = ToCome /\ (BootStart => BootStart')
  BY <1>1, <1>4, <1>5 DEF ToCome, BootStart
<1>8. StartsCounted'
  BY <1>0, <1>1, <1>7 DEF StartsCounted
<1>9. WifiTypeOK'
  BY <1>0, <1>1, <1>5 DEF WifiTypeOK, StaEvent
<1> QED  BY <1>0, <1>1, <1>6, <1>8, <1>9 DEF WifiInv

\* The scan is over.
LEMMA ScanEndsRight ==
    ASSUME WifiInv, ScanEnds
    PROVE  WifiInv'
<1>0. /\ WifiTypeOK /\ StartsCounted /\ staEvents \in Seq(StaEvent)
      /\ portalTries \in Nat /\ scans \in Nat
  BY DEF WifiInv, WifiTypeOK, StaEvent
<1>1. /\ scanning' = "no" /\ sta' \in {sta, Connected}
      /\ UNCHANGED <<stage, air, staEvents, reconnect, wifiUp, retries, handle, wifiBits, sleepers,
                     leavers, portalTries, scans>>
  BY DEF ScanEnds, flags, tasks, bounds
<1>2. sta' \in {"idle", "trying", "linked"} /\ (sta' = "linked" <=> sta = "linked")
  BY <1>0, <1>1 DEF Connected, WifiTypeOK
<1>3. Starts(staEvents) \in Nat
  BY <1>0, StartsAppend DEF StaEvent
<1>4. ToCome' <= ToCome /\ ToCome \in Nat /\ ToCome' \in Nat /\ BootStart' = BootStart
  BY <1>1, <1>3 DEF ToCome, BootStart
<1>5. StartsCounted'
  <2>1. ASSUME stage' = "join"
        PROVE  /\ portalTries' = 0 /\ ToCome' <= scans' + 1
               /\ ToCome' <= scans' \/ BootStart'
    BY <1>0, <1>1, <1>4, <2>1 DEF StartsCounted
  <2>2. ASSUME stage' = "portal" PROVE portalTries' + ToCome' <= 1 + scans'
    <3>1. portalTries + ToCome <= 1 + scans /\ portalTries' = portalTries
      BY <1>0, <1>1, <2>2 DEF StartsCounted
    <3>2. /\ ToCome' - scans' <= ToCome - scans /\ ToCome \in Nat /\ ToCome' \in Nat
          /\ scans \in Nat /\ scans' \in Nat /\ portalTries \in Nat
      BY <1>0, <1>1, <1>4 DEF ToCome
    <3> QED  BY <3>1, <3>2 DEF ToCome
  <2> QED  BY <2>1, <2>2 DEF StartsCounted
<1>6. WifiTypeOK'
  BY <1>0, <1>1, <1>2 DEF WifiTypeOK
<1> QED  BY <1>0, <1>1, <1>2, <1>5, <1>6 DEF WifiInv

LEMMA WifiInvStep == WifiInv /\ [WifiNext]_wifiVars => WifiInv'
<1> SUFFICES ASSUME WifiInv, [WifiNext]_wifiVars PROVE WifiInv'
  OBVIOUS
<1>1. CASE WifiEvent
  BY <1>1, StaStartsRight, StaHandledRight DEF WifiEvent
<1>2. CASE AirComes
  <2>1. UNCHANGED <<stage, sta, staEvents, reconnect, wifiUp, retries, handle, wifiBits, sleepers,
                    leavers, scanning, portalTries, scans>> /\ air' = TRUE
    BY <1>2 DEF AirComes, flags, tasks, noted, bounds
  <2>2. WifiTypeOK'
    BY <2>1 DEF WifiInv, WifiTypeOK
  <2> QED  BY <2>1, <2>2, StationStands
<1>3. CASE UNCHANGED wifiVars
  <2>1. UNCHANGED <<stage, air, sta, staEvents, reconnect, wifiUp, retries, handle, wifiBits, sleepers,
                    leavers, scanning, portalTries, scans>>
    BY <1>3 DEF wifiVars
  <2>2. WifiTypeOK'
    BY <2>1 DEF WifiInv, WifiTypeOK
  <2> QED  BY <2>1, <2>2, StationStands
<1> QED
  BY <1>1, <1>2, <1>3, RetryRight, AttemptRight, CutsRight, JoinSucceedsRight, JoinFailsRight,
     PortalEndsRight, ScanRestartsRight, ScanEndsRight DEF WifiNext

LEMMA WifiInvShows == WifiInv => WifiTypeOK /\ ConnectedIsTrue
<1> SUFFICES ASSUME WifiInv PROVE ConnectedIsTrue
  BY DEF WifiInv
<1>1. ASSUME staEvents = <<>> PROVE wifiUp <=> sta = "linked"
  <2>1. Says(staEvents, wifiUp) <=> wifiUp
    BY <1>1 DEF Says
  <2> QED  BY <2>1 DEF WifiInv
<1>2. ASSUME stage = "portal" PROVE portalTries <= 1 + scans
  <2>1. Starts(staEvents) \in Nat
    BY StartsAppend DEF WifiInv, WifiTypeOK, StaEvent
  <2>2. ToCome \in Nat /\ portalTries \in Nat /\ scans \in Nat
    BY <2>1 DEF ToCome, WifiInv
  <2> QED  BY <1>2, <2>2 DEF WifiInv, StartsCounted
<1> QED  BY <1>1, <1>2 DEF ConnectedIsTrue

\* s_connected says how the station is, as far as its events have been handled, and the portal
\* tries to join no oftener than once and once for each scan (wifi_manager.c).
THEOREM ConnectedHolds == WifiSpec => [](WifiTypeOK /\ ConnectedIsTrue)
BY WifiInvInit, WifiInvStep, WifiInvShows, PTL DEF WifiSpec
-----------------------------------------------------------------------------
(* Cron. *)

\* The first n places of js hold jobs.
Filled(js, n) ==
    /\ js \in [Places -> Job \cup {NoJob}] /\ n \in 0 .. CronPlaces
    /\ \A k \in Places : k < n => js[k] \in Job

\* The ids in the first n places, and those in a list.
Ids(js, n) == {js[k].id : k \in {p \in Places : p < n}}
Named(js)  == {js[i].id : i \in 1 .. Len(js)}

JobLists == {js \in Seq(Job) : Len(js) <= CronPlaces}

\* The first h places hold jobs, and nobody counts or holds a place beyond them: the count,
\* the agent's new one, from either of the two that it may be made of, and the task's.
Reached(h) ==
    /\ Filled(jobs, h) /\ count \in Int /\ count <= h
    /\ agent.pc = "counts" => /\ agent.seen \in Int /\ agent.seen + agent.by <= h
                              /\ count + agent.by <= h
    /\ cronTask.pc = "push" => cronTask.at \in Places /\ cronTask.at < h
    /\ cronTask.pc = "drop" => cronTask.seen \in Int /\ cronTask.seen <= h

CronTypes ==
    /\ agent.pc \in {"idle", "counts", "saves"}
    /\ agent.pc = "counts" => agent.by \in {1, -1} /\ (agent.by = 1 => added < MaxAdds)
    /\ agent.pc = "saves" => agent.copy \in JobLists
    /\ cronTask.pc \in {"asleep", "pass", "push", "drop", "save"}
    /\ cronTask.pc \in {"pass", "push", "drop"} => cronTask.now \in Nat
    /\ cronTask.pc = "pass" => cronTask.from \in Nat
    /\ cronTask.pc = "drop" => cronTask.at \in Nat
    /\ cronTask.pc = "save" => cronTask.copy \in JobLists
    /\ cronFile \in JobLists
    /\ added \in 0 .. MaxAdds /\ over \subseteq JobId
    /\ time \in Nat /\ synced \in BOOLEAN
    /\ crossed \in BOOLEAN /\ torn \in BOOLEAN /\ lost \in BOOLEAN

\* While no change of the agent has crossed one of the task, each of them counts what the other
\* has left, and the place that the task waits at holds the job that it has fired.
Uncrossed ==
    /\ count >= 0
    /\ agent.pc = "counts" => /\ count = agent.seen /\ cronTask.pc # "drop"
                              /\ agent.by = 1 => jobs[count].id = added + 1
                              /\ agent.by = -1 => count >= 1
    /\ cronTask.pc = "push" => /\ cronTask.at < count
                               /\ jobs[cronTask.at].kind = "at" => jobs[cronTask.at].id \in over
    /\ cronTask.pc = "drop" => count = cronTask.seen /\ count >= 1

\* The places that will be counted when a removal or deletion that has begun is over.
Standing ==
    IF (agent.pc = "counts" /\ agent.by = -1) \/ cronTask.pc = "drop" THEN count - 1 ELSE count

\* What a reboot will find, unless that is noted as lost.
ToBeFound == IF agent.pc = "saves" THEN agent.copy ELSE cronFile

\* No job is missing in the array.
AllThere == 1 .. added \subseteq over \cup Ids(jobs, Standing)

\* No job is missing in what the file holds or will hold, or in the copy that the task is
\* about to write.
AllKept ==
    /\ 1 .. added \subseteq over \cup Named(ToBeFound)
    /\ (cronTask.pc = "save" /\ agent.pc # "saves") =>
          1 .. added \subseteq over \cup Named(cronTask.copy)

\* The inductive invariant.
CronInv ==
    /\ CronTypes
    /\ \E h \in 0 .. CronPlaces : Reached(h)
    /\ ~crossed => Uncrossed
    /\ (~crossed /\ ~lost) => AllThere
    /\ (~crossed /\ ~lost /\ ~torn) => AllKept

\* The time of day is not below zero.
LEMMA ModBounds ==
    ASSUME NEW d \in Nat \ {0}, NEW n \in Nat
    PROVE  n % d \in 0 .. n
<1> DEFINE q == n \div d
           r == n % d
<1>1. n = d * q + r /\ r \in 0 .. d - 1 /\ q \in Int
  OBVIOUS
<1> HIDE DEF q, r
<1>2. CASE q >= 0
  <2>1. d * q >= 0
    BY <1>1, <1>2
  <2> QED  BY <1>1, <2>1 DEF r
<1>3. CASE q < 0
  <2>1. d * q <= -d
    <3>1. d * (q + 1) <= 0
      BY <1>1, <1>3
    <3>2. d * (q + 1) = d * q + d
      BY <1>1
    <3> QED  BY <1>1, <3>1, <3>2
  <2> QED  BY <1>1, <2>1
<1> QED  BY <1>1, <1>2, <1>3

LEMMA NextDailyIsTime ==
    ASSUME NEW when \in Nat, NEW now \in Nat
    PROVE  NextDaily(when, now) \in Nat
<1>1. Day \in Nat \ {0}
  BY CronAssumption
<1>2. now % Day \in 0 .. now
  BY <1>1, ModBounds
<1>3. now - (now % Day) + when \in Nat
  BY <1>2
<1> QED  BY <1>1, <1>3 DEF NextDaily

\* A job that is made or made again is one, with the id it was to have.
LEMMA NewJobIsJob ==
    ASSUME NEW id \in JobId, NEW r, r.kind \in {"every", "at", "daily"}, r.when \in Nat,
           r.del \in BOOLEAN, NEW now \in Nat
    PROVE  NewJob(id, r, now) \in Job /\ NewJob(id, r, now).id = id
<1>1. NextDaily(r.when, now) \in Nat
  BY NextDailyIsTime
<1>2. CASE r.kind = "every"
  BY <1>2 DEF NewJob, Job
<1>3. CASE r.kind = "daily"
  BY <1>1, <1>3 DEF NewJob, Job
<1>4. CASE r.kind = "at"
  BY <1>4 DEF NewJob, Job
<1> QED  BY <1>2, <1>3, <1>4

LEMMA AfterFiringIsJob ==
    ASSUME NEW job \in Job, NEW now \in Nat
    PROVE  AfterFiring(job, now) \in Job /\ AfterFiring(job, now).id = job.id
<1>1. NextDaily(job.when, now) \in Nat
  BY NextDailyIsTime DEF Job
<1>2. CASE job.kind = "every"
  BY <1>2 DEF AfterFiring, Job
<1>3. CASE job.kind = "daily"
  BY <1>1, <1>3 DEF AfterFiring, Job
<1>4. CASE job.kind = "at"
  BY <1>4 DEF AfterFiring, Job
<1> QED  BY <1>2, <1>3, <1>4 DEF Job

\* A place without a job holds none that was added.
LEMMA NoJobIsNone == NoJob \notin Job
BY DEF NoJob, Job, JobId

\* The copy that a save takes, of a count that may be below zero.
LEMMA TableIsList ==
    ASSUME NEW js, NEW h, Filled(js, h), NEW n \in Int, n <= h
    PROVE  Table(js, n) \in JobLists /\ Named(Table(js, n)) = Ids(js, n)
<1> USE CronAssumption
<1>1. h \in 0 .. CronPlaces /\ \A k \in Places : k < n => js[k] \in Job
  <2>1. h \in 0 .. CronPlaces /\ \A k \in Places : k < h => js[k] \in Job
    BY DEF Filled
  <2>2. \A k \in Places : k < n => k < h
    BY <2>1 DEF Places
  <2> QED  BY <2>1, <2>2
<1>2. \A k \in 1 .. n : k - 1 \in Places /\ k - 1 < n
  BY <1>1 DEF Places
<1> DEFINE len == IF n < 0 THEN 0 ELSE n
<1>3. len \in 0 .. CronPlaces /\ 1 .. n = 1 .. len
  BY <1>1
<1> HIDE DEF len
<1>4. Table(js, n) \in [1 .. len -> Job]
  <2>1. Table(js, n) \in [1 .. n -> Job]
    BY <1>1, <1>2 DEF Table
  <2> QED  BY <1>3, <2>1
<1>5. Table(js, n) \in Seq(Job) /\ Len(Table(js, n)) = len
  BY <1>3, <1>4
<1>6. \A p \in Places : p < n => p + 1 \in 1 .. n /\ js[p] = Table(js, n)[p + 1]
  BY <1>1 DEF Places, Table
<1>7. \A k \in 1 .. n : Table(js, n)[k] = js[k - 1]
  BY DEF Table
<1>8. Named(Table(js, n)) \subseteq Ids(js, n)
  BY <1>2, <1>3, <1>5, <1>7 DEF Named, Ids
<1>9. Ids(js, n) \subseteq Named(Table(js, n))
  BY <1>3, <1>5, <1>6 DEF Named, Ids
<1> QED  BY <1>3, <1>5, <1>8, <1>9 DEF JobLists

\* Shifting leaves jobs where there were some.
LEMMA ShiftFills ==
    ASSUME NEW js, NEW h, Filled(js, h), NEW n \in Int, n <= h, NEW k \in Places
    PROVE  Filled(Shifted(js, n, k), h)
<1> USE CronAssumption
<1> DEFINE s == Shifted(js, n, k)
<1>1. /\ js \in [Places -> Job \cup {NoJob}] /\ h \in 0 .. CronPlaces
      /\ \A p \in Places : p < h => js[p] \in Job
  BY DEF Filled
<1>2. /\ \A p \in Places : s[p] = IF p >= k /\ p < n - 1 THEN js[p + 1] ELSE js[p]
      /\ s = [p \in Places |-> s[p]]
  BY DEF Shifted
<1> HIDE DEF s
<1>3. \A p \in Places : p < n - 1 => p + 1 \in Places /\ p + 1 < h
  BY <1>1 DEF Places
<1>4. \A p \in Places : s[p] \in Job \cup {NoJob} /\ (p < h => s[p] \in Job)
  <2> SUFFICES ASSUME NEW p \in Places
               PROVE  s[p] \in Job \cup {NoJob} /\ (p < h => s[p] \in Job)
    OBVIOUS
  <2>1. CASE p >= k /\ p < n - 1
    BY <1>1, <1>2, <1>3, <2>1
  <2>2. CASE ~(p >= k /\ p < n - 1)
    BY <1>1, <1>2, <2>2
  <2> QED  BY <2>1, <2>2
<1> QED  BY <1>1, <1>2, <1>4 DEF s, Filled

\* It takes out the job at its place and no other.
LEMMA ShiftTakesOne ==
    ASSUME NEW js, NEW n \in 0 .. CronPlaces, NEW k \in Places, k < n
    PROVE  Ids(js, n) \subseteq {js[k].id} \cup Ids(Shifted(js, n, k), n - 1)
<1> USE CronAssumption
<1> DEFINE s == Shifted(js, n, k)
<1>1. \A p \in Places : s[p] = IF p >= k /\ p < n - 1 THEN js[p + 1] ELSE js[p]
  BY DEF Shifted
<1> HIDE DEF s
<1>2. ASSUME NEW p \in Places, p < n
      PROVE  js[p].id \in {js[k].id} \cup Ids(s, n - 1)
  <2>1. CASE p = k
    BY <2>1
  <2>2. CASE p < k
    <3>1. p < n - 1 /\ s[p] = js[p]
      BY <1>1, <2>2 DEF Places
    <3> QED  BY <3>1 DEF Ids
  <2>3. CASE p > k
    <3>1. p - 1 \in Places /\ p - 1 >= k /\ p - 1 < n - 1 /\ p - 1 + 1 = p
      BY <1>2, <2>3 DEF Places
    <3>2. s[p - 1] = js[p]
      BY <1>1, <3>1
    <3> QED  BY <3>1, <3>2 DEF Ids
  <2> QED  BY <2>1, <2>2, <2>3 DEF Places
<1> QED  BY <1>2 DEF Ids, s

\* More places hold no fewer ids.
LEMMA IdsGrow ==
    ASSUME NEW js, NEW m \in Int, NEW n \in Int, m <= n
    PROVE  Ids(js, m) \subseteq Ids(js, n)
<1>1. \A p \in Places : p < m => p < n
  BY CronAssumption DEF Places
<1> QED  BY <1>1 DEF Ids

LEMMA CronInvInit == CronInit => CronInv
<1> SUFFICES ASSUME CronInit PROVE CronInv
  OBVIOUS
<1> USE CronAssumption
<1>1. Filled(jobs, 0)
  BY DEF CronInit, Filled, Places
<1>2. <<>> \in JobLists
  BY DEF JobLists
<1>3. count = 0 /\ agent.pc = "idle" /\ cronTask.pc = "asleep" /\ added = 0 /\ cronFile = <<>>
  BY DEF CronInit
<1>4. Reached(0) /\ 0 \in 0 .. CronPlaces
  BY <1>1, <1>3 DEF Reached
<1>5. Uncrossed
  BY <1>3 DEF Uncrossed
<1>6. 1 .. added = {}
  BY <1>3
<1>7. AllThere /\ AllKept
  BY <1>6 DEF AllThere, AllKept
<1>8. CronTypes
  <2>1. /\ over \subseteq JobId /\ time \in Nat /\ synced \in BOOLEAN
        /\ crossed \in BOOLEAN /\ torn \in BOOLEAN /\ lost \in BOOLEAN
    BY DEF CronInit
  <2> QED  BY <1>2, <1>3, <2>1 DEF CronTypes
<1> QED  BY <1>4, <1>5, <1>7, <1>8 DEF CronInv

\* The clock.
LEMMA NowIsTime == CronInv => Now \in Nat
BY DEF CronInv, CronTypes, Now

\* Nothing that the invariant speaks of changes, but the clock.
LEMMA CronStands ==
    ASSUME CronInv, time' \in Nat, synced' \in BOOLEAN,
           UNCHANGED <<jobs, count, cronFile, cronTask, agent, history, broken>>
    PROVE  CronInv'
<1>1. \A h : Reached(h) => Reached(h)'
  BY DEF Reached
<1>2. (Uncrossed => Uncrossed') /\ (AllThere => AllThere') /\ (AllKept => AllKept')
  BY DEF Uncrossed, AllThere, AllKept, Standing, ToBeFound, history
<1>3. CronTypes'
  BY DEF CronInv, CronTypes, history, broken
<1> QED  BY <1>1, <1>2, <1>3 DEF CronInv, broken

\* What the tool keeps of a request is one.
LEMMA KeptIsRequest ==
    ASSUME NEW r \in CronRequests
    PROVE  /\ Kept(r).kind \in {"every", "at", "daily"} /\ Kept(r).when \in Nat
           /\ Kept(r).del \in BOOLEAN
<1>1. r \in [kind : {"every", "at", "daily"}, when : Nat, del : BOOLEAN]
  BY CronAssumption
<1> DEFINE w == r.when \div 2
<1>2. w \in Nat
  BY <1>1
<1>3. Kept(r) = [r EXCEPT !.when = w]
  BY DEF Kept
<1> HIDE DEF w
<1> QED  BY <1>1, <1>2, <1>3

\* A job is written to the place past the count.
LEMMA AddRight ==
    ASSUME CronInv, NEW r \in CronRequests, CronAdd(r)
    PROVE  CronInv'
<1> USE CronAssumption
<1> DEFINE job == NewJob(added + 1, Kept(r), Now)
<1>1. /\ agent.pc = "idle" /\ added < MaxAdds /\ count < CronPlaces
      /\ jobs' = IF count \in Places THEN [jobs EXCEPT ![count] = job] ELSE jobs
      /\ agent' = [pc |-> "counts", seen |-> count, by |-> 1]
      /\ crossed' = (crossed \/ cronTask.pc = "drop")
      /\ UNCHANGED <<count, cronFile, cronTask, time, synced, added, over, torn, lost>>
  BY DEF CronAdd, clock, history
<1>2. CronTypes /\ Now \in Nat /\ added \in 0 .. MaxAdds
  BY NowIsTime DEF CronInv, CronTypes
<1>3. job \in Job /\ job.id = added + 1
  <2>1. added + 1 \in JobId
    BY <1>1, <1>2 DEF JobId
  <2> QED  BY <1>2, <2>1, KeptIsRequest, NewJobIsJob
<1> HIDE DEF job
<1>4. PICK h \in 0 .. CronPlaces : Reached(h)
  BY DEF CronInv
<1>5. /\ jobs \in [Places -> Job \cup {NoJob}] /\ count \in Int /\ count <= h
      /\ \A k \in Places : k < h => jobs[k] \in Job
  BY <1>4 DEF Reached, Filled
<1>6. /\ \A k \in Places : jobs'[k] = IF k = count THEN job ELSE jobs[k]
      /\ jobs' \in [Places -> Job \cup {NoJob}]
  BY <1>1, <1>3, <1>5
<1>7. agent'.pc = "counts" /\ agent'.seen = count /\ agent'.by = 1
  BY <1>1
<1>8. PICK g \in 0 .. CronPlaces : h <= g /\ count + 1 <= g /\ (g = h \/ (g = h + 1 /\ h = count))
  <2>1. CASE count = h
    BY <1>1, <1>5, <2>1
  <2>2. CASE count # h
    BY <1>5, <2>2
  <2> QED  BY <2>1, <2>2
<1>9. Reached(g)'
  <2>1. \A k \in Places : k < g => k < h \/ k = count
    BY <1>5, <1>8 DEF Places
  <2>2. Filled(jobs', g)
    BY <1>3, <1>5, <1>6, <2>1 DEF Filled
  <2>3. /\ cronTask.pc = "push" => cronTask.at \in Places /\ cronTask.at < g
        /\ cronTask.pc = "drop" => cronTask.seen \in Int /\ cronTask.seen <= g
    BY <1>4, <1>8 DEF Reached, Places
  <2>4. count' = count /\ cronTask' = cronTask /\ count <= g
    BY <1>1, <1>5, <1>8
  <2> QED  BY <1>5, <1>7, <1>8, <2>2, <2>3, <2>4 DEF Reached
<1>10. CronTypes'
  BY <1>1, <1>2, <1>7 DEF CronTypes
<1>11. ASSUME ~crossed'
       PROVE  Uncrossed' /\ (AllThere => AllThere') /\ (AllKept => AllKept')
  <2>1. Uncrossed /\ cronTask.pc # "drop"
    BY <1>1, <1>11 DEF CronInv
  <2>2. count \in Places
    BY <1>1, <1>5, <2>1 DEF Uncrossed, Places
  <2>3. cronTask.pc = "push" => /\ cronTask.at \in Places /\ cronTask.at < count
                                /\ jobs'[cronTask.at] = jobs[cronTask.at]
    BY <1>4, <1>5, <1>6, <2>1 DEF Uncrossed, Reached, Places
  <2>4. Uncrossed'
    BY <1>1, <1>3, <1>6, <1>7, <2>1, <2>2, <2>3 DEF Uncrossed
  <2>5. Standing = count /\ Standing' = count
    BY <1>1, <1>7, <2>1 DEF Standing
  <2>6. Ids(jobs', count) = Ids(jobs, count)
    <3>1. \A k \in Places : k < count => jobs'[k] = jobs[k]
      BY <1>5, <1>6 DEF Places
    <3> QED  BY <3>1 DEF Ids
  <2> QED  BY <1>1, <1>7, <2>4, <2>5, <2>6 DEF AllThere, AllKept, ToBeFound
<1> QED  BY <1>1, <1>9, <1>10, <1>11 DEF CronInv

\* A job is shifted out.
LEMMA RemoveRight ==
    ASSUME CronInv, NEW id \in JobId, CronRemove(id)
    PROVE  CronInv'
<1> USE CronAssumption
<1>1. /\ agent.pc = "idle" /\ over' = over \cup {id}
      /\ agent' = [pc |-> "counts", seen |-> count, by |-> -1]
      /\ UNCHANGED <<count, cronFile, cronTask, time, synced, added, torn, lost>>
  BY DEF CronRemove, clock
<1>2. PICK k \in Holding(id) :
         /\ jobs' = Shifted(jobs, count, k)
         /\ crossed' = (crossed \/ cronTask.pc = "drop" \/ (cronTask.pc = "push" /\ k <= cronTask.at))
  BY DEF CronRemove
<1>3. k \in Places /\ k < count /\ jobs[k].id = id
  BY DEF Holding, Listed
<1>4. PICK h \in 0 .. CronPlaces : Reached(h)
  BY DEF CronInv
<1>5. /\ Filled(jobs, h) /\ count \in 0 .. CronPlaces /\ count >= 1 /\ count <= h
  BY <1>3, <1>4 DEF Reached, Places
<1>6. agent'.pc = "counts" /\ agent'.seen = count /\ agent'.by = -1
  BY <1>1
<1>7. Reached(h)'
  <2>1. Filled(jobs', h)
    BY <1>2, <1>3, <1>5, ShiftFills
  <2> QED  BY <1>1, <1>4, <1>5, <1>6, <2>1 DEF Reached
<1>8. CronTypes'
  <2>1. CronTypes
    BY DEF CronInv
  <2> QED  BY <1>1, <1>2, <1>6, <2>1 DEF CronTypes
<1>9. ASSUME ~crossed'
      PROVE  Uncrossed' /\ (AllThere => AllThere') /\ (AllKept => AllKept')
  <2>1. Uncrossed /\ ~(cronTask.pc = "drop") /\ (cronTask.pc = "push" => ~(k <= cronTask.at))
    BY <1>2, <1>9 DEF CronInv
  <2>2. cronTask.pc = "push" => /\ cronTask.at \in Places /\ cronTask.at < count
                                /\ jobs'[cronTask.at] = jobs[cronTask.at]
    <3>1. cronTask.pc = "push" => cronTask.at \in Places /\ cronTask.at < k
      BY <1>3, <1>4, <2>1 DEF Reached, Places
    <3> QED  BY <1>2, <1>3, <1>5, <3>1 DEF Shifted, Places
  <2>3. Uncrossed'
    BY <1>1, <1>5, <1>6, <2>1, <2>2 DEF Uncrossed
  <2>4. Standing = count /\ Standing' = count - 1
    BY <1>1, <1>6, <2>1 DEF Standing
  <2>5. Ids(jobs, count) \subseteq {id} \cup Ids(jobs', count - 1)
    BY <1>2, <1>3, <1>5, ShiftTakesOne
  <2> QED  BY <1>1, <1>6, <2>3, <2>4, <2>5 DEF AllThere, AllKept, ToBeFound
<1> QED  BY <1>1, <1>2, <1>4, <1>7, <1>8, <1>9 DEF CronInv

\* The agent counts, and takes its copy.
LEMMA CountsRight ==
    ASSUME CronInv, AgentCounts
    PROVE  CronInv'
<1> USE CronAssumption
<1>1. /\ agent.pc = "counts" /\ count' \in {count + agent.by, agent.seen + agent.by}
      /\ added' = IF agent.by = 1 THEN added + 1 ELSE added
      /\ crossed' = (crossed \/ (cronTask.pc = "push" /\ count' <= cronTask.at))
      /\ agent' = [pc |-> "saves", copy |-> Table(jobs, count')]
      /\ UNCHANGED <<jobs, cronFile, cronTask, time, synced, over, torn, lost>>
  BY DEF AgentCounts, clock
<1>2. CronTypes /\ agent.by \in {1, -1} /\ added \in 0 .. MaxAdds /\ (agent.by = 1 => added < MaxAdds)
  BY <1>1 DEF CronInv, CronTypes
<1>3. PICK h \in 0 .. CronPlaces : Reached(h)
  BY DEF CronInv
<1>4. Filled(jobs, h) /\ count \in Int /\ agent.seen \in Int /\ count' \in Int /\ count' <= h
  BY <1>1, <1>2, <1>3 DEF Reached
<1>5. agent'.pc = "saves" /\ agent'.copy = Table(jobs, count')
  BY <1>1
<1>6. Table(jobs, count') \in JobLists /\ Named(Table(jobs, count')) = Ids(jobs, count')
  BY <1>4, TableIsList
<1>7. Reached(h)'
  BY <1>1, <1>3, <1>4, <1>5 DEF Reached
<1>8. CronTypes'
  <2>1. added' \in 0 .. MaxAdds
    BY <1>1, <1>2
  <2> QED  BY <1>1, <1>2, <1>5, <1>6, <2>1 DEF CronTypes
<1>9. ASSUME ~crossed'
      PROVE  Uncrossed' /\ (AllThere => AllThere' /\ AllKept')
  <2>1. /\ Uncrossed /\ cronTask.pc # "drop" /\ count = agent.seen /\ count' = count + agent.by
        /\ cronTask.pc = "push" => ~(count' <= cronTask.at)
    BY <1>1, <1>9 DEF CronInv, Uncrossed
  <2>2. count' >= 0
    BY <1>2, <1>4, <2>1, <1>1 DEF Uncrossed
  <2>3. cronTask.pc = "push" => cronTask.at < count'
    BY <1>3, <1>4, <2>1 DEF Reached, Places
  <2>4. Uncrossed'
    BY <1>1, <1>5, <2>1, <2>2, <2>3 DEF Uncrossed
  <2>5. Standing' = count'
    BY <1>1, <1>5, <2>1 DEF Standing
  <2>6. ASSUME AllThere PROVE 1 .. added' \subseteq over \cup Ids(jobs, count')
    <3>1. CASE agent.by = -1
      <4>1. Standing = count' /\ added' = added
        BY <1>1, <1>2, <1>4, <2>1, <3>1 DEF Standing
      <4> QED  BY <2>6, <4>1 DEF AllThere
    <3>2. CASE agent.by = 1
      <4>1. Standing = count /\ added' = added + 1 /\ count' = count + 1 /\ jobs[count].id = added + 1
        BY <1>1, <2>1, <3>2 DEF Standing, Uncrossed
      <4>2. count \in Places /\ count < count'
        BY <1>3, <1>4, <2>1, <4>1 DEF Uncrossed, Places
      <4>3. added' \in Ids(jobs, count')
        BY <4>1, <4>2 DEF Ids
      <4>4. Ids(jobs, count) \subseteq Ids(jobs, count')
        BY <1>4, <4>2, IdsGrow
      <4>5. 1 .. added' \subseteq (1 .. added) \cup {added'}
        BY <1>2, <4>1
      <4> QED  BY <2>6, <4>1, <4>3, <4>4, <4>5 DEF AllThere
    <3> QED  BY <1>2, <3>1, <3>2
  <2> QED  BY <1>1, <1>5, <1>6, <2>4, <2>5, <2>6 DEF AllThere, AllKept, ToBeFound
<1> QED  BY <1>1, <1>3, <1>7, <1>8, <1>9 DEF CronInv

\* The file is a list whatever becomes of the write.
LEMMA WriteRight ==
    ASSUME NEW copy \in JobLists, cronFile \in JobLists, torn \in BOOLEAN, Write(copy)
    PROVE  /\ cronFile' \in JobLists /\ torn' \in BOOLEAN
           /\ torn => torn'
           /\ ~torn' => cronFile' = copy /\ ~(agent.pc = "saves" /\ cronTask.pc = "save")
<1>1. <<>> \in JobLists
  BY CronAssumption DEF JobLists
<1> QED  BY <1>1 DEF Write

\* The agent's save is over.
LEMMA AgentSavesRight ==
    ASSUME CronInv, AgentSaves
    PROVE  CronInv'
<1>1. /\ agent.pc = "saves" /\ agent' = [pc |-> "idle"]
      /\ Write(agent.copy)
      /\ UNCHANGED <<jobs, count, cronTask, time, synced, added, over, crossed, lost>>
  BY DEF AgentSaves, clock, history
<1>2. CronTypes
  BY DEF CronInv
<1>3. /\ cronFile' \in JobLists /\ torn' \in BOOLEAN /\ (torn => torn')
      /\ ~torn' => cronFile' = agent.copy /\ ~(agent.pc = "saves" /\ cronTask.pc = "save")
  BY <1>1, <1>2, WriteRight DEF CronTypes
<1>4. agent'.pc = "idle"
  BY <1>1
<1>5. CronTypes'
  BY <1>1, <1>2, <1>3, <1>4 DEF CronTypes
<1>6. \A h : Reached(h) => Reached(h)'
  BY <1>1, <1>4 DEF Reached
<1>7. (Uncrossed => Uncrossed') /\ (AllThere => AllThere')
  BY <1>1, <1>4 DEF Uncrossed, AllThere, Standing
<1>8. ~torn' /\ AllKept => AllKept'
  BY <1>1, <1>3, <1>4 DEF AllKept, ToBeFound
<1> QED  BY <1>1, <1>3, <1>5, <1>6, <1>7, <1>8 DEF CronInv

\* The task's save is over.
LEMMA CronSavesRight ==
    ASSUME CronInv, CronSaves
    PROVE  CronInv'
<1>1. /\ cronTask.pc = "save" /\ cronTask' = [pc |-> "asleep"]
      /\ Write(cronTask.copy)
      /\ UNCHANGED <<jobs, count, agent, time, synced, added, over, crossed, lost>>
  BY DEF CronSaves, clock, history
<1>2. CronTypes
  BY DEF CronInv
<1>3. /\ cronFile' \in JobLists /\ torn' \in BOOLEAN /\ (torn => torn')
      /\ ~torn' => cronFile' = cronTask.copy /\ ~(agent.pc = "saves" /\ cronTask.pc = "save")
  BY <1>1, <1>2, WriteRight DEF CronTypes
<1>4. cronTask'.pc = "asleep"
  BY <1>1
<1>5. CronTypes'
  BY <1>1, <1>2, <1>3, <1>4 DEF CronTypes
<1>6. \A h : Reached(h) => Reached(h)'
  BY <1>1, <1>4 DEF Reached
<1>7. (Uncrossed => Uncrossed') /\ (AllThere => AllThere')
  BY <1>1, <1>4 DEF Uncrossed, AllThere, Standing
<1>8. ~torn' /\ AllKept => AllKept'
  BY <1>1, <1>3, <1>4 DEF AllKept, ToBeFound
<1> QED  BY <1>1, <1>3, <1>5, <1>6, <1>7, <1>8 DEF CronInv

\* The task begins a pass.
LEMMA WakesRight ==
    ASSUME CronInv, CronWakes
    PROVE  CronInv'
<1>1. /\ cronTask.pc = "asleep"
      /\ cronTask' = [pc |-> "pass", from |-> 0, now |-> Now, changed |-> FALSE]
      /\ UNCHANGED <<jobs, count, cronFile, agent, time, synced, added, over, crossed, torn, lost>>
  BY DEF CronWakes, clock, history, broken
<1>2. cronTask'.pc = "pass" /\ cronTask'.from = 0 /\ cronTask'.now = Now
  BY <1>1
<1>3. CronTypes'
  BY <1>1, <1>2, NowIsTime DEF CronInv, CronTypes
<1>4. \A h : Reached(h) => Reached(h)'
  BY <1>1, <1>2 DEF Reached
<1>5. (Uncrossed => Uncrossed') /\ (AllThere => AllThere') /\ (AllKept => AllKept')
  BY <1>1, <1>2 DEF Uncrossed, AllThere, AllKept, Standing, ToBeFound
<1> QED  BY <1>1, <1>3, <1>4, <1>5 DEF CronInv

\* The task finds a job that is due, or ends its pass.
LEMMA ScansRight ==
    ASSUME CronInv, CronScans
    PROVE  CronInv'
<1> DEFINE due == {k \in Listed : k >= cronTask.from /\ Due(k, cronTask.now)}
<1>1. /\ cronTask.pc = "pass"
      /\ UNCHANGED <<jobs, count, cronFile, agent, time, synced, added, crossed, torn, lost>>
  BY DEF CronScans, clock, broken
<1>2. CronTypes /\ cronTask.now \in Nat /\ over \subseteq JobId
  BY <1>1 DEF CronInv, CronTypes
<1>3. PICK h \in 0 .. CronPlaces : Reached(h)
  BY DEF CronInv
<1>4. Filled(jobs, h) /\ count \in Int /\ count <= h
  BY <1>3 DEF Reached
<1>5. CASE \E k \in due :
             /\ cronTask' = [pc |-> "push", at |-> k, now |-> cronTask.now]
             /\ over' = IF jobs[k].kind = "at" THEN over \cup {jobs[k].id} ELSE over
  <2>1. PICK k \in Listed :
             /\ cronTask' = [pc |-> "push", at |-> k, now |-> cronTask.now]
             /\ over' = IF jobs[k].kind = "at" THEN over \cup {jobs[k].id} ELSE over
    BY <1>5
  <2>2. cronTask'.pc = "push" /\ cronTask'.at = k /\ cronTask'.now = cronTask.now
    BY <2>1
  <2>3. k \in Places /\ k < count /\ k < h
    BY <1>4 DEF Listed, Places, Filled
  <2>4. jobs[k] \in Job /\ jobs[k].id \in JobId
    BY <1>4, <2>3 DEF Filled, Job
  <2>5. over \subseteq over' /\ over' \subseteq JobId
        /\ (jobs[k].kind = "at" => jobs[k].id \in over')
    BY <1>2, <2>1, <2>4
  <2>6. CronTypes'
    BY <1>1, <1>2, <2>2, <2>5 DEF CronTypes
  <2>7. Reached(h)'
    BY <1>1, <1>3, <2>2, <2>3 DEF Reached
  <2>8. Uncrossed => Uncrossed'
    BY <1>1, <2>2, <2>3, <2>5 DEF Uncrossed
  <2>9. (AllThere => AllThere') /\ (AllKept => AllKept')
    BY <1>1, <2>2, <2>5 DEF AllThere, AllKept, Standing, ToBeFound
  <2> QED  BY <1>1, <1>3, <2>6, <2>7, <2>8, <2>9 DEF CronInv
<1>6. CASE /\ cronTask' = IF cronTask.changed THEN [pc |-> "save", copy |-> Table(jobs, count)]
                          ELSE [pc |-> "asleep"]
           /\ over' = over
  <2>1. \/ cronTask'.pc = "save" /\ cronTask'.copy = Table(jobs, count)
        \/ cronTask'.pc = "asleep"
    BY <1>6
  <2>2. Table(jobs, count) \in JobLists /\ Named(Table(jobs, count)) = Ids(jobs, count)
    BY <1>4, TableIsList
  <2>3. CronTypes'
    BY <1>1, <1>2, <1>6, <2>1, <2>2 DEF CronTypes
  <2>4. \A g : Reached(g) => Reached(g)'
    BY <1>1, <2>1 DEF Reached
  <2>5. (Uncrossed => Uncrossed') /\ (AllThere => AllThere')
    BY <1>1, <1>6, <2>1 DEF Uncrossed, AllThere, Standing
  <2>6. Ids(jobs, Standing) \subseteq Ids(jobs, count)
    BY <1>4, IdsGrow DEF Standing
  <2>7. AllThere /\ AllKept => AllKept'
    BY <1>1, <1>6, <2>1, <2>2, <2>6 DEF AllThere, AllKept, ToBeFound
  <2> QED  BY <1>1, <2>3, <2>4, <2>5, <2>7 DEF CronInv
<1> QED  BY <1>5, <1>6 DEF CronScans

\* The job at the place where the task has waited counts as run: it is shifted out only if it
\* is a one-shot, and while nothing has crossed that has fired.
LEMMA PushedRight ==
    ASSUME CronInv, CronPushed
    PROVE  CronInv'
<1> USE CronAssumption
<1> DEFINE k   == cronTask.at
           job == jobs[k]
<1>1. /\ cronTask.pc = "push"
      /\ UNCHANGED <<count, cronFile, agent, time, synced, added, over, torn, lost>>
  BY DEF CronPushed, clock, history
<1>2. PICK h \in 0 .. CronPlaces : Reached(h)
  BY DEF CronInv
<1>3. /\ Filled(jobs, h) /\ count \in Int /\ count <= h
      /\ k \in Places /\ k < h /\ k \in Nat
  BY <1>1, <1>2 DEF Reached, Places
<1>4. CronTypes /\ cronTask.now \in Nat /\ job \in Job
  BY <1>1, <1>3 DEF CronInv, CronTypes, Filled
<1>5. CASE job.kind = "at" /\ job.del
  <2>1. /\ jobs' = Shifted(jobs, count, k)
        /\ cronTask' = [pc |-> "drop", at |-> k, seen |-> count, now |-> cronTask.now]
        /\ crossed' = (crossed \/ agent.pc = "counts")
    BY <1>5 DEF CronPushed
  <2>2. cronTask'.pc = "drop" /\ cronTask'.at = k /\ cronTask'.seen = count
        /\ cronTask'.now = cronTask.now
    BY <2>1
  <2>3. Filled(jobs', h)
    BY <1>3, <2>1, ShiftFills
  <2>4. Reached(h)'
    BY <1>1, <1>2, <1>3, <2>2, <2>3 DEF Reached
  <2>5. CronTypes'
    BY <1>1, <1>3, <1>4, <2>1, <2>2 DEF CronTypes
  <2>6. ASSUME ~crossed'
        PROVE  Uncrossed' /\ (AllThere => AllThere') /\ (AllKept => AllKept')
    <3>1. Uncrossed /\ agent.pc # "counts"
      BY <2>1, <2>6 DEF CronInv
    <3>2. k < count /\ job.id \in over /\ count \in 0 .. CronPlaces /\ count >= 1
      BY <1>1, <1>3, <1>5, <3>1 DEF Uncrossed
    <3>3. Uncrossed'
      BY <1>1, <2>2, <3>1, <3>2 DEF Uncrossed
    <3>4. Standing = count /\ Standing' = count - 1
      BY <1>1, <2>2, <3>1 DEF Standing
    <3>5. Ids(jobs, count) \subseteq {job.id} \cup Ids(jobs', count - 1)
      BY <1>3, <2>1, <3>2, ShiftTakesOne
    <3> QED  BY <1>1, <2>2, <3>2, <3>3, <3>4, <3>5 DEF AllThere, AllKept, ToBeFound
  <2> QED  BY <1>1, <1>2, <2>1, <2>4, <2>5, <2>6 DEF CronInv
<1>6. CASE ~(job.kind = "at" /\ job.del)
  <2> DEFINE fired == AfterFiring(job, cronTask.now)
  <2>1. /\ jobs' = [jobs EXCEPT ![k] = fired] /\ crossed' = crossed
        /\ cronTask' = [pc |-> "pass", from |-> k + 1, now |-> cronTask.now, changed |-> TRUE]
    BY <1>6 DEF CronPushed, GoOn
  <2>2. fired \in Job /\ fired.id = job.id
    BY <1>4, AfterFiringIsJob
  <2> HIDE DEF fired
  <2>3. cronTask'.pc = "pass" /\ cronTask'.from = k + 1 /\ cronTask'.now = cronTask.now
    BY <2>1
  <2>4. /\ \A p \in Places : jobs'[p] = IF p = k THEN fired ELSE jobs[p]
        /\ jobs' \in [Places -> Job \cup {NoJob}]
    BY <1>3, <2>1, <2>2 DEF Filled
  <2>5. Filled(jobs', h)
    BY <1>3, <2>2, <2>4 DEF Filled
  <2>6. Reached(h)'
    BY <1>1, <1>2, <1>3, <2>3, <2>5 DEF Reached
  <2>7. CronTypes'
    BY <1>1, <1>3, <1>4, <2>1, <2>3 DEF CronTypes
  <2>8. \A p \in Places : jobs'[p].id = jobs[p].id
    BY <2>2, <2>4
  <2>9. \A n : Ids(jobs', n) = Ids(jobs, n)
    BY <2>8 DEF Ids
  <2>10. ASSUME Uncrossed PROVE Uncrossed'
    <3>1. agent.pc = "counts" /\ agent.by = 1 => count \in Places
      <4>1. agent.pc = "counts" /\ agent.by = 1 => count + 1 <= h
        BY <1>2 DEF Reached
      <4> QED  BY <1>3, <2>10, <4>1 DEF Uncrossed, Places
    <3> QED  BY <1>1, <2>3, <2>8, <2>10, <3>1 DEF Uncrossed
  <2>11. (AllThere => AllThere') /\ (AllKept => AllKept')
    BY <1>1, <2>3, <2>9 DEF AllThere, AllKept, Standing, ToBeFound
  <2> QED  BY <1>1, <1>2, <2>1, <2>6, <2>7, <2>10, <2>11 DEF CronInv
<1> QED  BY <1>5, <1>6

\* The task counts what it has shifted out.
LEMMA DropsRight ==
    ASSUME CronInv, CronDrops
    PROVE  CronInv'
<1>1. /\ cronTask.pc = "drop" /\ count' \in {count - 1, cronTask.seen - 1}
      /\ cronTask' = [pc |-> "pass", from |-> cronTask.at, now |-> cronTask.now, changed |-> TRUE]
      /\ UNCHANGED <<jobs, cronFile, agent, time, synced, added, over, crossed, torn, lost>>
  BY DEF CronDrops, GoOn, clock, history, broken
<1>2. cronTask'.pc = "pass" /\ cronTask'.from = cronTask.at /\ cronTask'.now = cronTask.now
  BY <1>1
<1>3. CronTypes'
  BY <1>1, <1>2 DEF CronInv, CronTypes
<1>4. PICK h \in 0 .. CronPlaces : Reached(h)
  BY DEF CronInv
<1>5. Reached(h)'
  <2>1. /\ count \in Int /\ count <= h /\ cronTask.seen \in Int /\ cronTask.seen <= h
        /\ Filled(jobs, h) /\ h \in Int
    BY <1>1, <1>4, CronAssumption DEF Reached
  <2>2. PICK old \in Int : old <= h /\ count' = old - 1
    BY <1>1, <2>1
  <2>3. PICK c \in Int : c = old - 1
    BY <2>2
  <2>4. c + 1 <= h /\ c <= h /\ c - 1 <= h
    BY <2>1, <2>2, <2>3
  <2>5. count' = c
    BY <2>2, <2>3
  <2>6. agent.pc = "counts" => agent.by = 1 \/ agent.by = -1
    BY DEF CronInv, CronTypes
  <2>7. agent.pc = "counts" => count' + agent.by <= h
    <3>1. CASE agent.by = 1
      BY <2>4, <2>5, <3>1
    <3>2. CASE agent.by = -1
      <4>1. c + (-1) <= h
        BY <2>1, <2>2, <2>3
      <4> QED  BY <2>5, <3>2, <4>1
    <3> QED  BY <2>6, <3>1, <3>2
  <2> QED  BY <1>1, <1>2, <1>4, <2>1, <2>4, <2>5, <2>7 DEF Reached
<1>6. ASSUME Uncrossed
      PROVE  Uncrossed' /\ (AllThere => AllThere')
  <2>1. agent.pc # "counts" /\ count >= 1 /\ count \in Int /\ count' = count - 1
    BY <1>1, <1>4, <1>6 DEF Uncrossed, Reached
  <2>2. Standing' = Standing
    BY <1>1, <1>2, <2>1 DEF Standing
  <2> QED  BY <1>1, <1>2, <2>1, <2>2 DEF Uncrossed, AllThere
<1>7. AllKept => AllKept'
  BY <1>1, <1>2 DEF AllKept, ToBeFound
<1> QED  BY <1>1, <1>3, <1>4, <1>5, <1>6, <1>7 DEF CronInv

\* After a reboot the array is what the file holds, unless it holds more than is accepted.
LEMMA CronRebootRight ==
    ASSUME CronInv, CronReboot
    PROVE  CronInv'
<1> USE CronAssumption
<1> DEFINE now == IF synced' THEN time ELSE 0
<1>0. /\ cronFile \in JobLists /\ time \in Nat /\ added \in 0 .. MaxAdds /\ over \subseteq JobId
      /\ lost \in BOOLEAN /\ torn \in BOOLEAN /\ crossed \in BOOLEAN
  BY DEF CronInv, CronTypes
<1>1. /\ synced' \in BOOLEAN /\ count' = Len(Loaded)
      /\ jobs' = [k \in Places |-> IF k < count' THEN Started(Loaded[k + 1], now) ELSE NoJob]
      /\ cronTask' = [pc |-> "asleep"] /\ agent' = [pc |-> "idle"]
      /\ lost' = (lost \/ torn \/ agent.pc = "saves" \/ Len(cronFile) > FileHolds)
      /\ torn' = FALSE
      /\ UNCHANGED <<cronFile, time, added, over, crossed>>
  BY DEF CronReboot, history
<1>2. now \in Nat
  BY <1>0, <1>1
<1> HIDE DEF now
<1>3. Loaded \in JobLists /\ <<>> \in JobLists
  BY <1>0 DEF Loaded, JobLists
<1>4. ASSUME NEW job \in Job
      PROVE  Started(job, now) \in Job /\ Started(job, now).id = job.id
  <2>1. /\ job.id \in JobId /\ job.kind \in {"every", "at", "daily"} /\ job.when \in Nat
        /\ job.del \in BOOLEAN
    BY DEF Job
  <2>2. NewJob(job.id, job, now) \in Job /\ NewJob(job.id, job, now).id = job.id
    BY <1>2, <2>1, NewJobIsJob
  <2> QED  BY <2>2 DEF Started
<1>5. /\ Loaded \in Seq(Job) /\ Len(Loaded) \in 0 .. CronPlaces
      /\ \A i \in 1 .. Len(Loaded) : Loaded[i] \in Job
  BY <1>3 DEF JobLists
<1>6. \A k \in Places : k < count' =>
         /\ k + 1 \in 1 .. Len(Loaded)
         /\ jobs'[k] = Started(Loaded[k + 1], now)
  BY <1>1, <1>5 DEF Places
<1>7. \A k \in Places : k < count' => jobs'[k] \in Job /\ jobs'[k].id = Loaded[k + 1].id
  BY <1>4, <1>5, <1>6
<1>8. Filled(jobs', count')
  <2>1. \A k \in Places : jobs'[k] \in Job \cup {NoJob}
    BY <1>1, <1>7
  <2>2. jobs' = [k \in Places |-> jobs'[k]]
    BY <1>1
  <2> QED  BY <1>1, <1>5, <1>7, <2>1, <2>2 DEF Filled
<1>9. Named(Loaded) \subseteq Ids(jobs', count')
  <2> SUFFICES ASSUME NEW i \in 1 .. Len(Loaded) PROVE Loaded[i].id \in Ids(jobs', count')
    BY DEF Named
  <2>1. i - 1 \in Places /\ i - 1 < count' /\ i - 1 + 1 = i
    BY <1>1, <1>5 DEF Places
  <2> QED  BY <1>7, <2>1 DEF Ids
<1>10. cronTask'.pc = "asleep" /\ agent'.pc = "idle" /\ count' \in 0 .. CronPlaces
  BY <1>1, <1>5
<1>11. CronTypes'
  BY <1>0, <1>1, <1>10 DEF CronTypes
<1>12. PICK h \in 0 .. CronPlaces : h = count'
  BY <1>10
<1>13. Reached(h)'
  BY <1>8, <1>10, <1>12 DEF Reached
<1>14. Uncrossed'
  BY <1>10 DEF Uncrossed
<1>15. ASSUME ~crossed', ~lost' PROVE AllThere' /\ AllKept'
  <2>1. ~crossed /\ ~lost /\ ~torn /\ agent.pc # "saves" /\ Loaded = cronFile
    BY <1>0, <1>1, <1>15, <1>3 DEF Loaded, JobLists
  <2>2. 1 .. added \subseteq over \cup Named(cronFile)
    BY <2>1 DEF CronInv, AllKept, ToBeFound
  <2>3. 1 .. added \subseteq over \cup Ids(jobs', count')
    BY <1>9, <2>1, <2>2
  <2>4. Standing' = count'
    BY <1>10 DEF Standing
  <2> QED  BY <1>1, <1>10, <2>2, <2>3, <2>4 DEF AllThere, AllKept, ToBeFound
<1> QED  BY <1>11, <1>13, <1>14, <1>15 DEF CronInv

LEMMA CronInvStep == CronInv /\ [CronNext]_cronVars => CronInv'
<1> SUFFICES ASSUME CronInv, [CronNext]_cronVars PROVE CronInv'
  OBVIOUS
<1>1. ASSUME NEW r \in CronRequests, CronAdd(r) PROVE CronInv'
  BY <1>1, AddRight
<1>2. ASSUME NEW id \in JobId, CronRemove(id) PROVE CronInv'
  BY <1>2, RemoveRight
<1>3. CASE AgentCounts \/ AgentSaves
  BY <1>3, CountsRight, AgentSavesRight
<1>4. CASE CronStep
  BY <1>4, WakesRight, ScansRight, PushedRight, DropsRight, CronSavesRight DEF CronStep
<1>5. CASE CronTick
  <2>1. time' \in Nat
    BY <1>5 DEF CronInv, CronTypes, CronTick
  <2> QED  BY <1>5, <2>1, CronStands DEF CronInv, CronTypes, CronTick
<1>6. CASE ClockSet
  BY <1>6, CronStands DEF CronInv, CronTypes, ClockSet
<1>7. CASE CronReboot
  BY <1>7, CronRebootRight
<1>8. CASE UNCHANGED cronVars
  BY <1>8, CronStands DEF CronInv, CronTypes, cronVars, history, broken
<1> QED  BY <1>1, <1>2, <1>3, <1>4, <1>5, <1>6, <1>7, <1>8 DEF CronNext

LEMMA CronShowsTypes == CronInv => CronTypeOK
<1> SUFFICES ASSUME CronInv PROVE CronTypeOK
  OBVIOUS
<1>1. PICK h \in 0 .. CronPlaces : Reached(h)
  BY DEF CronInv
<1>2. /\ jobs \in [Places -> Job \cup {NoJob}] /\ count \in Int /\ count <= h
      /\ \A k \in Places : k < h => jobs[k] \in Job
  BY <1>1 DEF Reached, Filled
<1>3. count <= CronPlaces
  BY <1>2, CronAssumption
<1>4. \A k \in Listed : jobs[k] # NoJob
  BY <1>2, NoJobIsNone DEF Listed, Places
<1> QED  BY <1>2, <1>3, <1>4 DEF CronInv, CronTypes, CronTypeOK

\* Agent and cron task change the array of jobs without a lock (cron_service.c).  A job that was
\* added and not removed stays in it until it has fired as a one-shot, through every save and
\* through every reboot but those that find the file spoilt, too long or being written, until a
\* change by the agent crosses one by the task in one of the ways that set `crossed`.
THEOREM NoneVanishes == CronSpec => []OnlyCrossingsLose
<1>1. ASSUME CronInv PROVE OnlyCrossingsLose
  <2> SUFFICES ASSUME NEW id \in 1 .. added, id \notin over, ~lost, ~crossed
               PROVE  Holding(id) # {}
    BY DEF OnlyCrossingsLose, NoJobVanishes
  <2>1. count \in Int
    BY <1>1 DEF CronInv, Reached
  <2>2. id \in Ids(jobs, count)
    <3>1. id \in Ids(jobs, Standing)
      BY <1>1 DEF CronInv, AllThere
    <3>2. Ids(jobs, Standing) \subseteq Ids(jobs, count)
      BY <2>1, IdsGrow DEF Standing
    <3> QED  BY <3>1, <3>2
  <2> QED  BY <2>2 DEF Ids, Holding, Listed
<1> QED  BY <1>1, CronInvStep, CronInvInit, PTL DEF CronSpec
-----------------------------------------------------------------------------
(* The components side by side. *)

\* A step of them all is a step of each, or leaves it alone.
LEMMA LinksStepEach ==
    ASSUME [LinksNext]_linksVars
    PROVE  [FsNext]_fsVars /\ [WifiNext]_wifiVars /\ [EnvNext]_envVars /\ [CronNext]_cronVars
BY DEF LinksNext, linksVars, IsPart, NotLink, NotWifi, NotEnv, NotCron

\* A behaviour of the connections side by side is a behaviour of each (of the sensors, but for
\* their fairness).
THEOREM LinksAreEach ==
    LinksSpec => FsSpec /\ WifiSpec /\ EnvInit /\ [][EnvNext]_envVars /\ CronSpec
<1>1. LinksInit => FsInit /\ WifiInit /\ EnvInit /\ CronInit
  BY DEF LinksInit
<1>2. [LinksNext]_linksVars =>
         [FsNext]_fsVars /\ [WifiNext]_wifiVars /\ [EnvNext]_envVars /\ [CronNext]_cronVars
  BY LinksStepEach
<1> QED  BY <1>1, <1>2, PTL DEF LinksSpec, FsSpec, WifiSpec, CronSpec

\* The types of Wi-Fi, sensors and cron service, and that s_connected says how the station is
\* (wifi_manager.c), when they run side by side.
THEOREM LinksSound == LinksSpec => []StationIsTrue
<1>1. LinksInit => WifiInv /\ EnvInv /\ EnvKinds /\ CronInv
  BY WifiInvInit, EnvInvInit, EnvKindsInit, CronInvInit DEF LinksInit
<1>2. /\ WifiInv /\ EnvInv /\ EnvKinds /\ CronInv
      /\ [LinksNext]_linksVars
      => (WifiInv /\ EnvInv /\ EnvKinds /\ CronInv)'
  BY LinksStepEach, WifiInvStep, EnvInvStep, EnvKindsStep, CronInvStep
<1>3. WifiInv /\ EnvInv /\ EnvKinds /\ CronInv => StationIsTrue
  BY WifiInvShows, EnvShowsTypes, CronShowsTypes DEF StationIsTrue
<1> QED  BY <1>1, <1>2, <1>3, PTL DEF LinksSpec
=============================================================================
