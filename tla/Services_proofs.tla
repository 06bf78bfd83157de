--------------------------- MODULE Services_proofs ---------------------------
(***************************************************************************)
(* Proofs about the services of one board, each for every value of its     *)
(* constants: the skill summary, the context of a subagent, the parts of a *)
(* Feishu text, the target of the proactive checks; the keys of the cache, *)
(* its count of bytes and the map it implements; the settings, the history *)
(* of a chat; and at the end all of them side by side, as the module       *)
(* MCServices runs them.                                                   *)
(***************************************************************************)
EXTENDS MCServices, ToolTurn_proofs, Extrema, SequenceTheorems, TLAPS

-----------------------------------------------------------------------------
(* Skills. *)

\* What a task of the file tools may be doing.
Doing == [pc : {"idle"}] \cup [pc : {"edit"}, file : SkillPath, text : Text]
         \cup [pc : {"write"}, file : SkillPath, text : Text, edit : BOOLEAN]
         \cup [pc : {"drop"}] \cup [pc : {"built"}, shows : [SkillFile -> Text]]

\* The task t will drop the summary, or has emptied a skill file and will go on to drop it.
WillDrop(t) == doing[t].pc = "drop" \/ (doing[t].pc = "write" /\ doing[t].file \in SkillFile)

\* The inductive invariant: an old summary has somebody who will drop it.
SkillInv ==
    /\ doing \in [SkillTask -> Doing]
    /\ content \in [SkillPath -> Text]
    /\ writes \in 0 .. MaxWrites
    /\ ~summary.there \/ summary.shows = Shown \/ outrun \/ cut \/ \E t \in SkillTask : WillDrop(t)

LEMMA SkillInvInit == SkillInit => SkillInv
<1> SUFFICES ASSUME SkillInit PROVE SkillInv
  OBVIOUS
<1>1. {0} \in Text
  BY SkillAssumption DEF Text
<1> QED  BY <1>1, SkillAssumption DEF SkillInit, SkillInv, Doing, NoSummary, AtRest

LEMMA SkillInvStep == SkillInv /\ [SkillNext]_skillVars => SkillInv'
<1> SUFFICES ASSUME SkillInv, [SkillNext]_skillVars PROVE SkillInv'
  OBVIOUS
<1> USE SkillAssumption
<1>1. ASSUME NEW t \in SkillTask, NEW f \in SkillPath, WriteOpens(t, f)
      PROVE  SkillInv'
  <2>1. writes' \in 0 .. MaxWrites /\ {writes'} \in Text /\ {} \in Text
    BY <1>1 DEF WriteOpens, SkillInv, Text
  <2>2. /\ doing' = [doing EXCEPT ![t] = [pc |-> "write", file |-> f, text |-> {writes'},
                                          edit |-> FALSE]]
        /\ content' = [content EXCEPT ![f] = {}]
        /\ doing[t] = AtRest
        /\ UNCHANGED <<summary, outrun, cut>>
    BY <1>1 DEF WriteOpens, Goes
  <2>3. [pc |-> "write", file |-> f, text |-> {writes'}, edit |-> FALSE] \in Doing
    BY <2>1 DEF Doing
  <2>4. doing' \in [SkillTask -> Doing] /\ content' \in [SkillPath -> Text]
    BY <2>1, <2>2, <2>3 DEF SkillInv
  <2>5. CASE f \in SkillFile
    <3>1. WillDrop(t)'
      BY <2>2, <2>5 DEF WillDrop, SkillInv
    <3> QED  BY <2>1, <2>4, <3>1 DEF SkillInv
  <2>6. CASE f \notin SkillFile
    <3>1. Shown' = Shown
      BY <2>2, <2>6 DEF Shown, SkillInv, SkillPath
    <3>2. ASSUME NEW u \in SkillTask, WillDrop(u) PROVE WillDrop(u)'
      BY <2>2, <3>2 DEF WillDrop, SkillInv, AtRest
    <3> QED  BY <2>1, <2>2, <2>4, <3>1, <3>2 DEF SkillInv
  <2> QED  BY <2>5, <2>6
<1>2. ASSUME NEW t \in SkillTask, NEW f \in SkillPath, EditReads(t, f)
      PROVE  SkillInv'
  <2>1. writes' \in 0 .. MaxWrites /\ content[f] \cup {writes'} \in Text
    BY <1>2 DEF EditReads, SkillInv, Text
  <2>2. /\ doing' = [doing EXCEPT ![t] = [pc |-> "edit", file |-> f,
                                          text |-> content[f] \cup {writes'}]]
        /\ doing[t] = AtRest
        /\ UNCHANGED <<content, summary, outrun, cut>>
    BY <1>2 DEF EditReads, Goes
  <2>3. doing' \in [SkillTask -> Doing]
    BY <2>1, <2>2 DEF SkillInv, Doing
  <2>4. Shown' = Shown
    BY <2>2 DEF Shown
  <2>5. ASSUME NEW u \in SkillTask, WillDrop(u) PROVE WillDrop(u)'
    BY <2>2, <2>5 DEF WillDrop, SkillInv, AtRest
  <2> QED  BY <2>1, <2>2, <2>3, <2>4, <2>5 DEF SkillInv
<1>3. ASSUME NEW t \in SkillTask, EditOpens(t)
      PROVE  SkillInv'
  <2>1. /\ doing[t] \in [pc : {"edit"}, file : SkillPath, text : Text]
        /\ {} \in Text
    BY <1>3 DEF EditOpens, SkillInv, Doing, Text
  <2>2. /\ doing' = [doing EXCEPT ![t] = [pc |-> "write", file |-> doing[t].file,
                                          text |-> doing[t].text, edit |-> TRUE]]
        /\ content' = [content EXCEPT ![doing[t].file] = {}]
        /\ UNCHANGED <<summary, writes, outrun, cut>>
    BY <1>3 DEF EditOpens, Goes
  <2>3. doing' \in [SkillTask -> Doing] /\ content' \in [SkillPath -> Text]
    BY <2>1, <2>2 DEF SkillInv, Doing
  <2>4. CASE doing[t].file \in SkillFile
    <3>1. WillDrop(t)'
      BY <2>1, <2>2, <2>4 DEF WillDrop, SkillInv
    <3> QED  BY <2>2, <2>3, <3>1 DEF SkillInv
  <2>5. CASE doing[t].file \notin SkillFile
    <3>1. Shown' = Shown
      BY <2>1, <2>2, <2>5 DEF Shown, SkillInv, SkillPath
    <3>2. ASSUME NEW u \in SkillTask, WillDrop(u) PROVE WillDrop(u)'
      BY <2>1, <2>2, <3>2 DEF WillDrop, SkillInv
    <3> QED  BY <2>2, <2>3, <3>1, <3>2 DEF SkillInv
  <2> QED  BY <2>4, <2>5
<1>4. ASSUME NEW t \in SkillTask, WriteEnds(t)
      PROVE  SkillInv'
  <2>1. /\ doing[t] \in [pc : {"write"}, file : SkillPath, text : Text, edit : BOOLEAN]
        /\ {} \in Text
    BY <1>4 DEF WriteEnds, SkillInv, Doing, Text
  <2>2. PICK whole \in BOOLEAN :
          /\ content' = [content EXCEPT ![doing[t].file] = IF whole THEN doing[t].text ELSE {}]
          /\ doing' = [doing EXCEPT ![t] = AfterWrite(t, whole)]
          /\ cut' = (cut \/ (~whole /\ ~doing[t].edit /\ doing[t].file \in SkillFile))
    BY <1>4 DEF WriteEnds, Goes
  <2>3. UNCHANGED <<summary, writes, outrun>>
    BY <1>4 DEF WriteEnds
  <2>4. AfterWrite(t, whole) \in Doing
    BY DEF AfterWrite, AtRest, Doing
  <2>5. doing' \in [SkillTask -> Doing] /\ content' \in [SkillPath -> Text]
    BY <2>1, <2>2, <2>4 DEF SkillInv
  <2>6. CASE doing[t].file \in SkillFile
    <3>1. cut' \/ WillDrop(t)'
      BY <2>1, <2>2, <2>6 DEF WillDrop, SkillInv, AfterWrite
    <3> QED  BY <2>3, <2>5, <3>1 DEF SkillInv
  <2>7. CASE doing[t].file \notin SkillFile
    <3>1. Shown' = Shown
      BY <2>1, <2>2, <2>7 DEF Shown, SkillInv, SkillPath
    <3>2. ASSUME NEW u \in SkillTask, WillDrop(u) PROVE WillDrop(u)'
      BY <2>1, <2>2, <2>7, <3>2 DEF WillDrop, SkillInv
    <3> QED  BY <2>2, <2>3, <2>5, <3>1, <3>2 DEF SkillInv
  <2> QED  BY <2>6, <2>7
<1>5. ASSUME NEW t \in SkillTask, SummaryDropped(t)
      PROVE  SkillInv'
  BY <1>5 DEF SummaryDropped, Goes, SkillInv, NoSummary, AtRest, Doing
<1>6. ASSUME NEW t \in SkillTask, SummaryCached(t)
      PROVE  SkillInv'
  <2>1. doing' \in [SkillTask -> Doing]
    BY <1>6 DEF SummaryCached, Goes, SkillInv, AtRest, Doing
  <2>2. Shown' = Shown
    BY <1>6 DEF SummaryCached, Shown
  <2>3. outrun' \/ summary'.shows = Shown
    BY <1>6 DEF SummaryCached
  <2> QED  BY <1>6, <2>1, <2>2, <2>3 DEF SummaryCached, SkillInv
<1>7. ASSUME NEW t \in SkillTask, SummaryBuilt(t)
      PROVE  SkillInv'
  <2>1. Shown \in [SkillFile -> Text] /\ Shown' = Shown
    BY <1>7 DEF Shown, SkillInv, SkillPath, SummaryBuilt
  <2>2. doing' \in [SkillTask -> Doing]
    BY <1>7, <2>1 DEF SummaryBuilt, Goes, SkillInv, Doing
  <2> QED  BY <1>7, <2>1, <2>2 DEF SummaryBuilt, SkillInv
<1>8. CASE SummaryForgotten
  BY <1>8 DEF SummaryForgotten, SkillInv, NoSummary
<1>9. CASE UNCHANGED skillVars
  BY <1>9 DEF skillVars, SkillInv, Shown, WillDrop
<1> QED
  BY <1>1, <1>2, <1>3, <1>4, <1>5, <1>6, <1>7, <1>8, <1>9 DEF SkillNext, SkillTaskStep

\* Unless a summary was outrun or a file cut, a prompt shows the skill files as they are once
\* no task is writing one (skill_loader.c, tool_files.c), for any number of tasks and files.
THEOREM SummaryHolds == SkillSpec => []SummaryIsTrue
<1>1. SkillInv => SummaryIsTrue
  BY DEF SkillInv, SummaryIsTrue, WillDrop
<1> QED  BY <1>1, SkillInvInit, SkillInvStep, PTL DEF SkillSpec

-----------------------------------------------------------------------------
(* Subagent. *)

SubRecord ==
    [pc : {"unborn"}] \cup [pc : {"think"}, iter : Nat]
    \cup [pc : {"give", "look", "ended"}, result : Answers]

\* What a context's life allows: who frees it, and that somebody will.
ContextOK(x) ==
    LET on == caller.pc # "idle" /\ caller.on = x
    IN  /\ subTask[x].pc = "unborn" /\ x > spawns =>
              freed[x] = 0 /\ ~on /\ x \notin abandoned /\ x \notin subCrossed
        /\ subTask[x].pc = "unborn" /\ x <= spawns => freed[x] = 1 /\ ~on /\ x \notin subCrossed
        /\ subTask[x].pc # "unborn" => x <= spawns
        /\ subTask[x].pc \in {"think", "give"} =>
              freed[x] = 0 /\ (on \/ x \in abandoned) /\ x \notin subCrossed
        /\ subTask[x].pc = "look" =>
              IF on \/ x \in abandoned THEN freed[x] = 0 /\ x \notin subCrossed
              ELSE freed[x] = 1 /\ x \in subCrossed
        /\ subTask[x].pc = "ended" =>
              IF on THEN freed[x] = 0 /\ (x \in subCrossed <=> caller.pc = "abandon")
              ELSE IF x \notin subCrossed THEN freed[x] = 1
              ELSE IF x \in abandoned THEN freed[x] = 0 ELSE freed[x] \in {1, 2}
        /\ x \in given <=> subTask[x].pc \in {"look", "ended"}
        /\ on => x \notin abandoned

\* The inductive invariant.
SubInv ==
    /\ spawns \in 0 .. MaxSpawns
    /\ caller \in [pc : {"idle"}] \cup [pc : {"wait", "abandon"}, on : Context]
    /\ subTask \in [Context -> SubRecord]
    /\ freed \in [Context -> Nat]
    /\ \A x \in Context : ContextOK(x)

LEMMA SubInvInit == SubInit => SubInv
BY SubAssumption DEF SubInit, SubInv, SubRecord, Unborn, ContextOK, Context

LEMMA SubInvStep == SubInv /\ [SubNext]_subVars => SubInv'
<1> SUFFICES ASSUME SubInv, [SubNext]_subVars PROVE SubInv'
  OBVIOUS
<1> USE SubAssumption DEF Context
<1>0. /\ spawns \in 0 .. MaxSpawns
      /\ subTask \in [Context -> SubRecord] /\ freed \in [Context -> Nat]
      /\ \A x \in Context : ContextOK(x)
  BY DEF SubInv
<1>1. CASE Spawn
  <2>0. spawns' = spawns + 1 /\ caller.pc = "idle" /\ spawns < MaxSpawns
        /\ UNCHANGED <<given, abandoned, subCrossed>>
    BY <1>1 DEF Spawn
  <2>1. spawns' = spawns + 1 /\ spawns' \in Context /\ spawns' \in 0 .. MaxSpawns
    BY <1>0, <2>0
  <2>2. ContextOK(spawns + 1)
    BY <1>0, <2>1
  <2>3. subTask[spawns + 1].pc = "unborn"
    <3>1. subTask[spawns + 1].pc \in {"unborn", "think", "give", "look", "ended"}
      BY <1>0, <2>1 DEF SubRecord
    <3> QED  BY <1>0, <2>0, <2>2, <3>1 DEF ContextOK
  <2>4. /\ freed[spawns + 1] = 0 /\ spawns + 1 \notin abandoned /\ spawns + 1 \notin given
        /\ spawns + 1 \notin subCrossed
    BY <1>0, <2>0, <2>2, <2>3 DEF ContextOK
  <2>5. CASE /\ caller' = [pc |-> "wait", on |-> spawns']
             /\ Step(spawns', [pc |-> "think", iter |-> 0])
             /\ UNCHANGED freed
    <3>1. subTask' = [subTask EXCEPT ![spawns + 1] = [pc |-> "think", iter |-> 0]]
          /\ caller'.pc = "wait" /\ caller'.on = spawns + 1
      BY <2>0, <2>5 DEF Step
    <3>2. subTask' \in [Context -> SubRecord]
      BY <1>0, <2>1, <3>1 DEF SubRecord
    <3>3. ASSUME NEW x \in Context PROVE ContextOK(x)'
      <4>1. ContextOK(x)
        BY <1>0
      <4>2. CASE x = spawns + 1
        BY <1>0, <2>0, <2>1, <2>4, <2>5, <3>1, <4>2 DEF ContextOK
      <4>3. CASE x # spawns + 1
        <5>1. subTask'[x] = subTask[x] /\ caller'.on # x
          BY <1>0, <3>1, <4>3
        <5> QED  BY <1>0, <2>0, <2>1, <2>5, <4>1, <4>3, <5>1 DEF ContextOK
      <4> QED  BY <4>2, <4>3
    <3> QED  BY <1>0, <2>1, <2>5, <3>2, <3>3 DEF SubInv
  <2>6. CASE Freeing(spawns') /\ UNCHANGED <<caller, subTask>>
    <3>1. freed' = [freed EXCEPT ![spawns + 1] = 1]
      <4>1. freed' = [freed EXCEPT ![spawns'] = freed[spawns'] + 1]
        BY <2>6 DEF Freeing
      <4>2. freed[spawns'] + 1 = 1
        BY <2>0, <2>4
      <4> QED  BY <2>0, <4>1, <4>2
    <3>2. freed' \in [Context -> Nat]
      BY <1>0, <3>1
    <3>3. ASSUME NEW x \in Context PROVE ContextOK(x)'
      <4>1. ContextOK(x)
        BY <1>0
      <4>2. CASE x = spawns + 1
        <5>1. freed'[x] = 1 /\ subTask'[x].pc = "unborn" /\ x <= spawns' /\ caller'.pc = "idle"
          BY <1>0, <2>0, <2>1, <2>3, <2>6, <3>1, <4>2
        <5> QED  BY <2>0, <2>4, <2>6, <4>2, <5>1 DEF ContextOK
      <4>3. CASE x # spawns + 1
        <5>1. freed'[x] = freed[x] /\ (x > spawns <=> x > spawns') /\ (x <= spawns <=> x <= spawns')
          BY <1>0, <2>0, <3>1, <4>3
        <5> QED  BY <2>0, <2>6, <4>1, <5>1 DEF ContextOK
      <4> QED  BY <4>2, <4>3
    <3> QED  BY <1>0, <2>1, <2>6, <3>2, <3>3 DEF SubInv
  <2> QED  BY <1>1, <2>5, <2>6 DEF Spawn
<1>2. CASE Collect
  <2>0. caller.on \in Context /\ caller.pc = "wait" /\ caller.on \in given
    BY <1>2 DEF Collect, SubInv
  <2>1. /\ caller.on \in Context /\ caller.pc = "wait" /\ subTask[caller.on].pc \in {"look", "ended"}
        /\ caller.on \notin abandoned /\ caller.on \notin subCrossed
    BY <1>0, <2>0 DEF ContextOK
  <2>2. freed[caller.on] = 0
    BY <1>0, <2>1 DEF ContextOK
  <2>3. freed' = [freed EXCEPT ![caller.on] = 1] /\ freed' \in [Context -> Nat]
    BY <1>0, <1>2, <2>1, <2>2 DEF Collect, Freeing
  <2>4. caller'.pc = "idle" /\ UNCHANGED <<spawns, subTask, given, abandoned>>
    BY <1>2 DEF Collect
  <2>6. subCrossed' = IF subTask[caller.on].pc = "look" THEN subCrossed \cup {caller.on} ELSE subCrossed
    BY <1>2 DEF Collect, CollectCrosses
  <2>5. ASSUME NEW x \in Context PROVE ContextOK(x)'
    <3>1. ContextOK(x)
      BY <1>0
    <3> QED  BY <1>0, <2>1, <2>3, <2>4, <2>6, <3>1 DEF ContextOK
  <2> QED  BY <1>0, <1>2, <2>3, <2>4, <2>5 DEF Collect, SubInv
<1>3. CASE TimeOut
  <2>1. caller.on \in Context /\ caller.pc = "wait" /\ caller.on \notin given
    BY <1>3 DEF TimeOut, SubInv
  <2>2. ASSUME NEW x \in Context PROVE ContextOK(x)'
    BY <1>3, <2>1 DEF TimeOut, SubInv, ContextOK
  <2> QED  BY <1>3, <2>1, <2>2 DEF TimeOut, SubInv
<1>4. CASE Abandon
  <2>1. caller.on \in Context /\ caller.pc = "abandon"
    BY <1>4 DEF Abandon, SubInv
  <2>2. ASSUME NEW x \in Context PROVE ContextOK(x)'
    BY <1>4, <2>1 DEF Abandon, SubInv, ContextOK, SubRecord
  <2> QED  BY <1>4, <2>1, <2>2 DEF Abandon, SubInv
<1>5. ASSUME NEW x \in Context, SubThinks(x) PROVE SubInv'
  <2>1. subTask[x].pc = "think" /\ subTask[x].iter \in Nat
    BY <1>5 DEF SubThinks, SubInv, SubRecord
  <2>2. \E to \in SubRecord : to.pc \in {"think", "give"} /\ Step(x, to)
    <3>1. /\ [pc |-> "give", result |-> "llm failed"] \in SubRecord
          /\ [pc |-> "give", result |-> "answer"] \in SubRecord
          /\ [pc |-> "give", result |-> "iterations"] \in SubRecord
          /\ [pc |-> "think", iter |-> subTask[x].iter + 1] \in SubRecord
      BY <2>1 DEF SubRecord, Answers
    <3>2. \/ Step(x, [pc |-> "give", result |-> "llm failed"])
          \/ Step(x, [pc |-> "give", result |-> "answer"])
          \/ Step(x, [pc |-> "give", result |-> "iterations"])
          \/ Step(x, [pc |-> "think", iter |-> subTask[x].iter + 1])
      BY <1>5, Zenon DEF SubThinks
    <3> QED  BY <3>1, <3>2
  <2>3. PICK to \in SubRecord : to.pc \in {"think", "give"} /\ subTask' = [subTask EXCEPT ![x] = to]
    BY <2>2 DEF Step
  <2>4. UNCHANGED <<spawns, caller, given, abandoned, freed, subCrossed>>
    BY <1>5 DEF SubThinks
  <2>5. ASSUME NEW y \in Context PROVE ContextOK(y)'
    BY <2>1, <2>3, <2>4 DEF SubInv, ContextOK
  <2> QED  BY <2>3, <2>4, <2>5 DEF SubInv
<1>6. ASSUME NEW x \in Context, SubGives(x) PROVE SubInv'
  <2>1. subTask[x] \in [pc : {"give"}, result : Answers]
    BY <1>6 DEF SubGives, SubInv, SubRecord
  <2>2. /\ subTask' = [subTask EXCEPT ![x] = [subTask[x] EXCEPT !.pc = "look"]]
        /\ given' = given \cup {x}
        /\ UNCHANGED <<spawns, caller, abandoned, freed, subCrossed>>
    BY <1>6 DEF SubGives, Step
  <2>3. [subTask[x] EXCEPT !.pc = "look"] \in SubRecord
    BY <2>1 DEF SubRecord
  <2>4. ASSUME NEW y \in Context PROVE ContextOK(y)'
    BY <2>1, <2>2 DEF SubInv, ContextOK
  <2> QED  BY <2>2, <2>3, <2>4 DEF SubInv
<1>7. ASSUME NEW x \in Context, SubLooks(x) PROVE SubInv'
  <2>1. subTask[x] \in [pc : {"look"}, result : Answers] /\ ContextOK(x)
    BY <1>7 DEF SubLooks, SubInv, SubRecord
  <2>2. /\ subTask' = [subTask EXCEPT ![x] = [subTask[x] EXCEPT !.pc = "ended"]]
        /\ UNCHANGED <<spawns, caller, given, abandoned>>
        /\ subCrossed' = IF caller = [pc |-> "abandon", on |-> x] THEN subCrossed \cup {x} ELSE subCrossed
    BY <1>7 DEF SubLooks, Step
  <2>6. /\ freed' = freed \/ freed' = [freed EXCEPT ![x] = freed[x] + 1]
        /\ freed[x] = 0 => freed' = IF x \in abandoned THEN [freed EXCEPT ![x] = freed[x] + 1] ELSE freed
    BY <1>0, <1>7 DEF SubLooks, Freeing, FlagRead
  <2>7. caller = [pc |-> "abandon", on |-> x] <=> caller.pc = "abandon" /\ caller.on = x
    BY DEF SubInv
  <2>3. [subTask[x] EXCEPT !.pc = "ended"] \in SubRecord
    BY <2>1 DEF SubRecord
  <2>4. freed' \in [Context -> Nat]
    BY <2>6 DEF SubInv
  <2>5. ASSUME NEW y \in Context PROVE ContextOK(y)'
    <3>1. ContextOK(y)
      BY <1>0
    <3>2. CASE y = x
      <4>1. subTask'[x].pc = "ended" /\ (x \in given' <=> x \in given)
        BY <1>0, <2>1, <2>2
      <4>2. freed'[x] = freed[x] \/ freed'[x] = freed[x] + 1
        BY <1>0, <2>6
      <4>3. freed[x] = 0 => freed'[x] = IF x \in abandoned THEN 1 ELSE 0
        BY <1>0, <2>6
      <4>4. x \in subCrossed' <=> x \in subCrossed \/ (caller.pc = "abandon" /\ caller.on = x)
        BY <2>2, <2>7
      <4> QED  BY <2>1, <2>2, <3>2, <4>1, <4>2, <4>3, <4>4 DEF ContextOK
    <3>3. CASE y # x
      <4>1. /\ subTask'[y] = subTask[y] /\ freed'[y] = freed[y]
            /\ (y \in subCrossed' <=> y \in subCrossed)
        BY <1>0, <2>2, <2>6, <3>3
      <4> QED  BY <2>2, <3>1, <4>1 DEF ContextOK
    <3> QED  BY <3>2, <3>3
  <2> QED  BY <2>2, <2>3, <2>4, <2>5 DEF SubInv
<1>8. CASE UNCHANGED subVars
  BY <1>8 DEF subVars, SubInv, ContextOK
<1> QED
  BY <1>1, <1>2, <1>3, <1>4, <1>5, <1>6, <1>7, <1>8 DEF SubNext, CallerStep, SubStep

\* A context is not freed while its caller waits or its task works, and in the end exactly once,
\* but for those whose caller went on between the task's give of the semaphore and its read of the
\* flag, and those whose task read the flag between the caller's timeout and the setting of it
\* (tool_subagent.c), for any number of calls, rounds and tools and however the two interleave.
THEOREM FreedOnce == SubSpec => []ContextFreedOnce
<1>1. SubInv => ContextFreedOnce
  BY SubAssumption DEF SubInv, ContextFreedOnce, ContextOK, Live, Context, SubRecord
<1> QED  BY <1>1, SubInvInit, SubInvStep, PTL DEF SubSpec

-----------------------------------------------------------------------------
(* FeishuSend. *)

\* Where a sender may stand.
SenderRecord ==
    [pc : {"free"}] \cup [pc : {"call", "post"}, text : 1 .. MaxTexts, next : Nat, len : Nat]
    \cup [pc : {"fetch"}, text : 1 .. MaxTexts, next : Nat, len : Nat, app : FsApp \cup {NoApp}]

\* A sequence of numbers that grows.
Grows(q) == q \in Seq(Nat) /\ \A i, j \in 1 .. Len(q) : i < j => q[i] < q[j]

\* All numbers of the sequence are below the bound.
Below(q, n) == \A i \in 1 .. Len(q) : q[i] < n

\* The inductive invariant: a text is in one sender's hands only, and what was sent of it is
\* below the part that comes next.
SendInv ==
    /\ texts \in 0 .. MaxTexts
    /\ sender \in [FsSender -> SenderRecord]
    /\ parts \in [1 .. MaxTexts -> Seq(Nat)]
    /\ \A t \in 1 .. MaxTexts : Grows(parts[t]) /\ (t > texts => parts[t] = <<>>)
    /\ \A s \in FsSender : sender[s].pc # "free" =>
          /\ sender[s].text <= texts
          /\ Below(parts[sender[s].text], sender[s].next)
    /\ \A s, r \in FsSender : sender[s].pc # "free" /\ sender[r].pc # "free"
                                /\ sender[s].text = sender[r].text => s = r

\* Appending a greater number keeps a sequence growing.
LEMMA AppendGrows ==
    ASSUME NEW q, NEW n \in Nat, Grows(q), Below(q, n)
    PROVE  Grows(Append(q, n)) /\ Below(Append(q, n), n + 1)
<1>1. q \in Seq(Nat) /\ Append(q, n) \in Seq(Nat) /\ Len(Append(q, n)) = Len(q) + 1
  BY DEF Grows
<1>2. \A i \in 1 .. Len(q) : Append(q, n)[i] = q[i] /\ q[i] \in Nat
  BY <1>1
<1>3. Append(q, n)[Len(q) + 1] = n
  BY <1>1
<1>4. Len(q) \in Nat
  BY <1>1
<1> QED  BY <1>1, <1>2, <1>3, <1>4 DEF Grows, Below

\* A step in which a sender goes on with its text or becomes free, and nothing is sent.
LEMMA GoesOn ==
    ASSUME SendInv, NEW s \in FsSender, NEW to \in SenderRecord, Sending(s, to),
           UNCHANGED <<texts, parts>>, sender[s].pc # "free",
           to.pc # "free" => to.text = sender[s].text /\ to.next >= sender[s].next
    PROVE  SendInv'
<1>1. /\ sender' = [sender EXCEPT ![s] = to] /\ sender' \in [FsSender -> SenderRecord]
      /\ sender[s].next \in Nat /\ sender[s].text \in 1 .. MaxTexts
  BY DEF Sending, SendInv, SenderRecord
<1>2. to.pc # "free" => Below(parts[to.text], to.next)
  <2>1. ASSUME to.pc # "free" PROVE to.next \in Nat /\ parts[sender[s].text] \in Seq(Nat)
    BY <1>1, <2>1 DEF SenderRecord, SendInv
  <2> QED  BY <1>1, <2>1 DEF SendInv, Below
<1> QED  BY <1>1, <1>2 DEF SendInv

LEMMA OnwardType ==
    ASSUME SendInv, NEW s \in FsSender, sender[s].pc # "free"
    PROVE  /\ Onward(s) \in SenderRecord
           /\ Onward(s).pc # "free" => Onward(s).text = sender[s].text
                                        /\ Onward(s).next = sender[s].next + 1
BY DEF SendInv, SenderRecord, Onward, FreeSender

LEMMA SendInvInit == FsSendInit => SendInv
BY FsSendAssumption DEF FsSendInit, SendInv, SenderRecord, FreeSender, Grows

LEMMA SendInvStep == SendInv /\ app \in FsApp /\ [FsSendNext]_fsSendVars => SendInv' /\ app' \in FsApp
<1> SUFFICES ASSUME SendInv, app \in FsApp, [FsSendNext]_fsSendVars PROVE SendInv' /\ app' \in FsApp
  OBVIOUS
<1> USE FsSendAssumption
<1>1. ASSUME NEW s \in FsSender, NEW n \in TextParts, SendBegins(s, n) PROVE SendInv'
  <2>1. /\ sender[s].pc = "free" /\ texts' = texts + 1 /\ texts' \in 1 .. MaxTexts
        /\ sender' = [sender EXCEPT ![s] = [pc |-> "call", text |-> texts', next |-> 1, len |-> n]]
        /\ UNCHANGED parts
    BY <1>1 DEF SendBegins, Sending, SendInv, FreeSender
  <2>2. sender' \in [FsSender -> SenderRecord]
    BY <2>1 DEF SendInv, SenderRecord
  <2>3. parts[texts'] = <<>>
    BY <2>1 DEF SendInv
  <2>4. Below(parts[texts'], 1)
    BY <2>3 DEF Below
  <2>5. \A r \in FsSender : sender[r].pc # "free" => sender[r].text <= texts /\ sender[r].text \in Nat
    BY DEF SendInv, SenderRecord
  <2> QED  BY <2>1, <2>2, <2>4, <2>5 DEF SendInv
<1>2. ASSUME NEW s \in FsSender, HasToken(s) PROVE SendInv'
  <2>1. sender[s] \in [pc : {"call"}, text : 1 .. MaxTexts, next : Nat, len : Nat]
    BY <1>2 DEF HasToken, SendInv, SenderRecord
  <2>2. [sender[s] EXCEPT !.pc = "post"] \in SenderRecord
    BY <2>1 DEF SenderRecord
  <2> QED  BY <1>2, <2>1, <2>2, GoesOn DEF HasToken
<1>3. ASSUME NEW s \in FsSender, AsksToken(s) PROVE SendInv'
  <2>1. sender[s] \in [pc : {"call"}, text : 1 .. MaxTexts, next : Nat, len : Nat]
    BY <1>3 DEF AsksToken, SendInv, SenderRecord
  <2> DEFINE to == [pc |-> "fetch", text |-> sender[s].text, next |-> sender[s].next,
                    len |-> sender[s].len, app |-> app]
  <2>2. to \in SenderRecord /\ to.text = sender[s].text /\ to.next >= sender[s].next
    BY <2>1 DEF SenderRecord
  <2>3. Sending(s, to) /\ UNCHANGED <<texts, parts>>
    BY <1>3 DEF AsksToken
  <2> HIDE DEF to
  <2> QED  BY <2>1, <2>2, <2>3, GoesOn
<1>4. ASSUME NEW s \in FsSender, GetsToken(s) PROVE SendInv'
  <2>1. sender[s] \in [pc : {"fetch"}, text : 1 .. MaxTexts, next : Nat, len : Nat,
                       app : FsApp \cup {NoApp}]
    BY <1>4 DEF GetsToken, SendInv, SenderRecord
  <2> DEFINE to == [pc |-> "post", text |-> sender[s].text, next |-> sender[s].next,
                    len |-> sender[s].len]
  <2>2. to \in SenderRecord /\ to.text = sender[s].text /\ to.next >= sender[s].next
    BY <2>1 DEF SenderRecord
  <2>3. Sending(s, to) \/ Sending(s, Onward(s))
    BY <1>4 DEF GetsToken
  <2>4. UNCHANGED <<texts, parts>>
    BY <1>4 DEF GetsToken
  <2> HIDE DEF to
  <2>5. CASE Sending(s, to)
    BY <2>1, <2>2, <2>4, <2>5, GoesOn
  <2>6. CASE Sending(s, Onward(s))
    BY <2>1, <2>4, <2>6, OnwardType, GoesOn
  <2> QED  BY <2>3, <2>5, <2>6
<1>5. ASSUME NEW s \in FsSender, PartSent(s) PROVE SendInv'
  <2>1. sender[s] \in [pc : {"post"}, text : 1 .. MaxTexts, next : Nat, len : Nat]
    BY <1>5 DEF PartSent, SendInv, SenderRecord
  <2>2. Sending(s, Onward(s)) /\ UNCHANGED texts
    BY <1>5 DEF PartSent
  <2>3. CASE parts' = parts
    BY <2>1, <2>2, <2>3, OnwardType, GoesOn
  <2>4. CASE parts' = [parts EXCEPT ![sender[s].text] = Append(@, sender[s].next)]
    <3> DEFINE t == sender[s].text
               n == sender[s].next
    <3>1. t \in 1 .. MaxTexts /\ t <= texts /\ n \in Nat /\ Grows(parts[t]) /\ Below(parts[t], n)
      BY <2>1 DEF SendInv
    <3>2. Grows(Append(parts[t], n)) /\ Below(Append(parts[t], n), n + 1)
      BY <3>1, AppendGrows
    <3>3. parts' = [parts EXCEPT ![t] = Append(parts[t], n)]
      BY <2>4
    <3>4. parts' \in [1 .. MaxTexts -> Seq(Nat)] /\ parts'[t] = Append(parts[t], n)
      BY <3>1, <3>2, <3>3 DEF SendInv, Grows
    <3>5. \A u \in 1 .. MaxTexts : u # t => parts'[u] = parts[u]
      BY <3>3 DEF SendInv
    <3>6. \A u \in 1 .. MaxTexts : Grows(parts'[u]) /\ (u > texts' => parts'[u] = <<>>)
      <4>1. texts' = texts /\ texts \in Nat /\ t <= texts
        BY <2>2, <3>1 DEF SendInv
      <4>2. ASSUME NEW u \in 1 .. MaxTexts PROVE Grows(parts'[u]) /\ (u > texts => parts'[u] = <<>>)
        <5>1. CASE u = t
          <6>1. Grows(parts'[u])
            BY <3>2, <3>4, <5>1, Zenon
          <6>2. ~(u > texts)
            BY <3>1, <4>1, <5>1
          <6> QED  BY <6>1, <6>2
        <5>2. CASE u # t
          BY <3>5, <5>2 DEF SendInv
        <5> QED  BY <5>1, <5>2
      <4> QED  BY <4>1, <4>2
    <3>7. sender' = [sender EXCEPT ![s] = Onward(s)] /\ sender' \in [FsSender -> SenderRecord]
      BY <2>1, <2>2, OnwardType DEF Sending, SendInv
    <3>8. ASSUME NEW r \in FsSender, sender'[r].pc # "free"
          PROVE  sender'[r].text <= texts' /\ Below(parts'[sender'[r].text], sender'[r].next)
      <4>1. CASE r = s
        <5>1. sender'[r].text = t /\ sender'[r].next = n + 1
          BY <2>1, <3>7, <3>8, <4>1, OnwardType DEF SendInv
        <5> QED  BY <2>2, <3>1, <3>2, <3>4, <5>1
      <4>2. CASE r # s
        <5>1. sender'[r] = sender[r] /\ sender[r].text \in 1 .. MaxTexts /\ sender[r].text # t
          BY <2>1, <3>7, <3>8, <4>2 DEF SendInv, SenderRecord
        <5> QED  BY <2>2, <3>5, <3>8, <5>1 DEF SendInv
      <4> QED  BY <4>1, <4>2
    <3>9. \A r \in FsSender : sender'[r].pc # "free" =>
             sender[r].pc # "free" /\ sender'[r].text = sender[r].text
      BY <2>1, <3>7, OnwardType DEF SendInv
    <3> QED  BY <2>2, <3>4, <3>6, <3>7, <3>8, <3>9 DEF SendInv
  <2> QED  BY <1>5, <2>3, <2>4 DEF PartSent
<1>6. CASE TokenExpires \/ TokenDropped \/ (\E a \in FsApp : AppSet(a)) \/ UNCHANGED fsSendVars
  BY <1>6 DEF TokenExpires, TokenDropped, AppSet, fsSendVars, SendInv
<1>7. app' \in FsApp
  BY DEF FsSendNext, FsSendStep, SendBegins, HasToken, AsksToken, GetsToken, PartSent,
         TokenExpires, TokenDropped, AppSet, fsSendVars
<1> QED  BY <1>1, <1>2, <1>3, <1>4, <1>5, <1>6, <1>7 DEF FsSendNext, FsSendStep

\* The parts of a text arrive in order and none twice (feishu_send_message), for any number of
\* senders, texts and parts, whatever becomes of the token and the application.
THEOREM PartsOrdered == FsSendSpec => []PartsInOrder
<1> DEFINE Inv == SendInv /\ app \in FsApp
<1>1. FsSendInit => Inv
  BY SendInvInit DEF FsSendInit
<1>2. Inv /\ [FsSendNext]_fsSendVars => Inv'
  BY SendInvStep
<1>3. Inv => PartsInOrder
  BY DEF SendInv, PartsInOrder, Grows
<1> HIDE DEF Inv
<1> QED  BY <1>1, <1>2, <1>3, PTL DEF FsSendSpec

-----------------------------------------------------------------------------
(* Checks. *)

Talker == [pc : {"rest"}] \cup [pc : {"channel", "chat", "save", "saved"}, contact : Contact]

\* As long as no two writers have met there is one at most, it writes the contact noted last,
\* and each string is there as soon as it has been written.
WholeTarget ==
    /\ \A n, m \in Noter : noting[n].pc # "rest" /\ noting[m].pc # "rest" => n = m
    /\ \A n \in Noter : noting[n].pc # "rest" => noting[n].contact = lastNoted
    /\ \A n \in Noter : noting[n].pc = "channel" => target = NoTarget
    /\ \A n \in Noter : noting[n].pc = "chat" => target = <<lastNoted[1], "">>
    /\ ~unsaved => \A n \in Noter : noting[n].pc = "saved" => flash[1] = lastNoted[1]
    /\ ~Writing /\ notes > 0 => target = lastNoted /\ hasTarget
    /\ (\A n \in Noter : noting[n].pc = "rest") /\ notes > 0 /\ ~unsaved => flash = lastNoted

\* A check that read the channel when nobody was writing, with no contact noted since, has
\* the channel of the target as it still is.
LookOK(c) ==
    checking[c].pc = "chat" =>
       /\ checking[c].notes \in 0 .. notes
       /\ checking[c].clean /\ checking[c].notes = notes
             => ~Writing /\ checking[c].channel = target[1] /\ notes > 0

\* Before the first contact there is nothing.
NobodyYet ==
    /\ \A n \in Noter : noting[n].pc = "rest"
    /\ ~hasTarget /\ flash = NoTarget /\ target = NoTarget

\* The inductive invariant.
ChecksInv ==
    /\ notes \in Nat /\ hasTarget \in BOOLEAN
    /\ noting \in [Noter -> Talker] /\ checking = [c \in Checker |-> checking[c]]
    /\ notes > 0 => lastNoted \in Contact
    /\ notes = 0 => NobodyYet
    /\ ~overlapped => WholeTarget
    /\ \A c \in Checker : LookOK(c)
    /\ ~mixedCheck

LEMMA ContactIsPair ==
    ASSUME NEW c \in Contact
    PROVE  c = <<c[1], c[2]>> /\ c[1] # "" /\ c[2] # ""
<1> DEFINE S == STRING \ {""}
<1>1. c \in S \X S
  BY ChecksAssumption
<1> HIDE DEF S
<1>2. c = <<c[1], c[2]>> /\ c[1] \in S /\ c[2] \in S
  BY <1>1
<1> QED  BY <1>2 DEF S

\* A writer at ease is one at rest.
LEMMA AtEaseRests == AtEase.pc = "rest"
BY DEF AtEase

LEMMA ChecksInvInit == ChecksInit => ChecksInv
<1> SUFFICES ASSUME ChecksInit PROVE ChecksInv
  OBVIOUS
<1>1. \A n \in Noter : noting[n].pc = "rest"
  BY DEF ChecksInit, AtEase
<1>2. \A c \in Checker : checking[c].pc = "rest"
  BY DEF ChecksInit, AtEase
<1>3. noting \in [Noter -> Talker] /\ checking = [c \in Checker |-> checking[c]]
  BY DEF ChecksInit, AtEase, Talker
<1>4. /\ NobodyYet /\ ~overlapped /\ ~mixedCheck
      /\ hasTarget \in BOOLEAN /\ notes \in Nat
  BY <1>1 DEF ChecksInit, NobodyYet
<1>5. ~(notes > 0)
  BY DEF ChecksInit
<1>6. WholeTarget
  <2>1. ~\E n \in Noter : noting[n].pc # "rest"
    BY <1>1
  <2>2. \A n \in Noter : /\ noting[n].pc # "channel" /\ noting[n].pc # "chat"
                         /\ noting[n].pc # "saved"
    BY <1>1
  <2> QED  BY <2>1, <2>2, <1>5, Zenon DEF WholeTarget
<1>7. \A c \in Checker : LookOK(c)
  BY <1>2 DEF LookOK
<1> QED  BY <1>3, <1>4, <1>5, <1>6, <1>7, Zenon DEF ChecksInv

LEMMA ChecksInvStep == ChecksInv /\ [ChecksNext]_checkVars => ChecksInv'
<1> SUFFICES ASSUME ChecksInv, [ChecksNext]_checkVars PROVE ChecksInv'
  OBVIOUS
<1>0. /\ notes \in Nat /\ hasTarget \in BOOLEAN
      /\ noting \in [Noter -> Talker] /\ checking = [c \in Checker |-> checking[c]]
      /\ notes > 0 => lastNoted \in Contact
      /\ notes = 0 => NobodyYet
      /\ ~overlapped => WholeTarget
      /\ \A c \in Checker : LookOK(c)
      /\ ~mixedCheck
  BY DEF ChecksInv
<1>a. ASSUME NEW n \in Noter, noting[n].pc # "rest"
      PROVE  noting[n] \in [pc : {"channel", "chat", "save", "saved"}, contact : Contact] /\ notes > 0
  <2>1. notes # 0
    BY <1>0, <1>a DEF NobodyYet
  <2>2. noting[n] \in Talker
    BY <1>0
  <2> QED  BY <1>0, <1>a, <2>1, <2>2 DEF Talker
<1>1. ASSUME NEW n \in Noter, NEW c \in Contact, NoteBegins(n, c) PROVE ChecksInv'
  <2>1. /\ notes' = notes + 1 /\ target' = NoTarget /\ lastNoted' = c
        /\ noting' = [noting EXCEPT ![n] = [pc |-> "channel", contact |-> c]]
        /\ UNCHANGED <<hasTarget, flash, checking, mixedCheck>>
        /\ overlapped' = \E o \in Noter \ {n} : noting[o] # AtEase
    BY <1>1 DEF NoteBegins, Noted
  <2>2. noting' \in [Noter -> Talker] /\ noting'[n].pc = "channel" /\ noting'[n].contact = c
    BY <1>0, <2>1 DEF Talker
  <2>3. Writing'
    BY <2>2 DEF Writing
  <2>4. notes' \in Nat /\ notes' > 0
    BY <1>0, <2>1
  <2>5. ~overlapped' => WholeTarget'
    <3> SUFFICES ASSUME ~overlapped' PROVE WholeTarget'
      OBVIOUS
    <3>1. \A o \in Noter : o # n => noting'[o].pc = "rest"
      BY <1>0, <2>1 DEF AtEase
    <3>2. \A o \in Noter : noting'[o].pc # "rest" => o = n
      BY <3>1
    <3> QED  BY <2>1, <2>2, <2>3, <3>2 DEF WholeTarget
  <2>6. ASSUME NEW d \in Checker PROVE LookOK(d)'
    BY <1>0, <2>1 DEF LookOK
  <2> QED  BY <1>0, <2>1, <2>2, <2>4, <2>5, <2>6 DEF ChecksInv
<1>2. ASSUME NEW n \in Noter, NoteSteps(n) PROVE ChecksInv'
  <2> DEFINE c == noting[n].contact
             to == [noting[n] EXCEPT !.pc = IF noting[n].pc = "channel" THEN "chat" ELSE "save"]
  <2>1. /\ noting[n].pc \in {"channel", "chat"} /\ noting[n].pc # "rest"
        /\ UNCHANGED <<flash, checking, lastNoted, overlapped, unsaved, mixedCheck, notes>>
    BY <1>2 DEF NoteSteps
  <2>2. noting' = [noting EXCEPT ![n] = to]
    BY <1>2, <2>1 DEF NoteSteps, Noted
  <2>3. noting[n] \in [pc : {"channel", "chat", "save", "saved"}, contact : Contact] /\ notes > 0
    BY <1>a, <2>1
  <2>4. /\ to \in Talker /\ to.contact = c
        /\ to.pc = IF noting[n].pc = "channel" THEN "chat" ELSE "save"
    BY <2>3 DEF Talker
  <2> HIDE DEF to
  <2>5. /\ noting' \in [Noter -> Talker] /\ noting'[n] = to
        /\ \A o \in Noter : o # n => noting'[o] = noting[o]
    BY <1>0, <2>2, <2>4
  <2>6. Writing
    BY <2>1 DEF Writing
  <2>7. ASSUME NEW d \in Checker PROVE LookOK(d)'
    BY <1>0, <2>1, <2>6 DEF LookOK
  <2>8. hasTarget' \in BOOLEAN
    BY <1>0, <1>2 DEF NoteSteps
  <2>9. ~overlapped => WholeTarget'
    <3> SUFFICES ASSUME ~overlapped PROVE WholeTarget'
      OBVIOUS
    <3>1. WholeTarget /\ c = lastNoted /\ lastNoted \in Contact
      BY <1>0, <2>1, <2>3 DEF WholeTarget
    <3>2. \A o \in Noter : noting'[o].pc # "rest" => o = n
      BY <2>1, <2>5, <3>1 DEF WholeTarget
    <3>3. lastNoted = <<lastNoted[1], lastNoted[2]>>
      BY <3>1, ContactIsPair
    <3>4. CASE noting[n].pc = "channel"
      <4>1. target' = <<lastNoted[1], target[2]>> /\ target = NoTarget
        BY <1>2, <2>1, <3>1, <3>4 DEF NoteSteps, WholeTarget
      <4>2. target' = <<lastNoted[1], "">>
        BY <4>1 DEF NoTarget
      <4>3. Writing'
        BY <2>4, <2>5, <3>4 DEF Writing
      <4> QED  BY <2>1, <2>4, <2>5, <3>1, <3>2, <3>4, <4>2, <4>3 DEF WholeTarget
    <3>5. CASE noting[n].pc = "chat"
      <4>1. target' = <<target[1], lastNoted[2]>> /\ target = <<lastNoted[1], "">> /\ hasTarget' = TRUE
        BY <1>2, <2>1, <3>1, <3>5 DEF NoteSteps, WholeTarget
      <4>2. target[1] = lastNoted[1]
        BY <4>1
      <4>3. target' = lastNoted
        BY <3>3, <4>1, <4>2
      <4> QED  BY <2>1, <2>4, <2>5, <3>1, <3>2, <3>5, <4>1, <4>3 DEF WholeTarget
    <3> QED  BY <2>1, <3>4, <3>5
  <2> QED  BY <1>0, <2>1, <2>3, <2>5, <2>7, <2>8, <2>9 DEF ChecksInv
<1>3. ASSUME NEW n \in Noter, NoteSaves(n) PROVE ChecksInv'
  <2> DEFINE to == IF noting[n].pc = "save" THEN [noting[n] EXCEPT !.pc = "saved"] ELSE AtEase
  <2>1. /\ noting[n].pc \in {"save", "saved"} /\ noting[n].pc # "rest"
        /\ UNCHANGED <<target, hasTarget, checking, lastNoted, overlapped, mixedCheck, notes>>
    BY <1>3 DEF NoteSaves
  <2>2. noting' = [noting EXCEPT ![n] = to]
    BY <1>3 DEF NoteSaves, Noted
  <2>3. noting[n] \in [pc : {"channel", "chat", "save", "saved"}, contact : Contact] /\ notes > 0
    BY <1>a, <2>1
  <2>4. /\ to \in Talker
        /\ noting[n].pc = "save" => to.pc = "saved" /\ to.contact = noting[n].contact
        /\ noting[n].pc = "saved" => to.pc = "rest"
    BY <2>1, <2>3 DEF Talker, AtEase
  <2> HIDE DEF to
  <2>5. /\ noting' \in [Noter -> Talker] /\ noting'[n] = to
        /\ \A o \in Noter : o # n => noting'[o] = noting[o]
    BY <1>0, <2>2, <2>4
  <2>6. Writing' <=> Writing
    BY <2>1, <2>4, <2>5 DEF Writing
  <2>7. ASSUME NEW d \in Checker PROVE LookOK(d)'
    BY <1>0, <2>1, <2>6 DEF LookOK
  <2>8. ~overlapped => WholeTarget'
    <3> SUFFICES ASSUME ~overlapped PROVE WholeTarget'
      OBVIOUS
    <3>1. WholeTarget /\ noting[n].contact = lastNoted /\ lastNoted \in Contact
      BY <1>0, <2>1, <2>3 DEF WholeTarget
    <3>2. \A o \in Noter : noting[o].pc # "rest" => o = n
      BY <2>1, <3>1 DEF WholeTarget
    <3>3. lastNoted = <<lastNoted[1], lastNoted[2]>>
      BY <3>1, ContactIsPair
    <3>4. ~Writing
      BY <2>1, <3>2 DEF Writing
    <3>5. target = lastNoted /\ hasTarget
      BY <2>3, <3>1, <3>4 DEF WholeTarget
    <3>6. \A o \in Noter : noting'[o].pc # "rest" => o = n
      BY <2>5, <3>2
    <3>7. CASE noting[n].pc = "save"
      <4>1. unsaved' \/ flash' = <<lastNoted[1], flash[2]>>
        BY <1>3, <3>5, <3>7 DEF NoteSaves
      <4>2. unsaved' \/ flash'[1] = lastNoted[1]
        BY <4>1
      <4> QED  BY <2>1, <2>4, <2>5, <2>6, <3>1, <3>4, <3>5, <3>6, <3>7, <4>2 DEF WholeTarget
    <3>8. CASE noting[n].pc = "saved"
      <4>1. unsaved' \/ (flash' = <<flash[1], lastNoted[2]>> /\ flash[1] = lastNoted[1])
        BY <1>3, <3>1, <3>5, <3>8 DEF NoteSaves, WholeTarget
      <4>2. unsaved' \/ flash' = lastNoted
        BY <3>3, <4>1
      <4>3. \A o \in Noter : noting'[o].pc = "rest"
        BY <2>4, <2>5, <3>6, <3>8
      <4> QED  BY <2>1, <2>6, <3>4, <3>5, <4>2, <4>3 DEF WholeTarget
    <3> QED  BY <2>1, <3>7, <3>8
  <2> QED  BY <1>0, <2>1, <2>3, <2>5, <2>7, <2>8 DEF ChecksInv
<1>4. ASSUME NEW c \in Checker, CheckReads(c) PROVE ChecksInv'
  <2>1. /\ hasTarget
        /\ checking' = [checking EXCEPT ![c] = [pc |-> "chat", channel |-> target[1],
                                                notes |-> notes, clean |-> ~Writing]]
        /\ UNCHANGED <<target, hasTarget, flash, noting, lastNoted, overlapped, unsaved, notes, mixedCheck>>
    BY <1>4 DEF CheckReads, targetVars
  <2>2. notes > 0
    BY <1>0, <2>1 DEF NobodyYet
  <2>3. Writing' <=> Writing
    BY <2>1 DEF Writing
  <2>4. ASSUME NEW d \in Checker PROVE LookOK(d)'
    <3>1. CASE d = c
      <4>1. /\ checking'[d].channel = target[1] /\ checking'[d].notes = notes
            /\ checking'[d].clean <=> ~Writing
        BY <1>0, <2>1, <3>1
      <4> QED  BY <1>0, <2>1, <2>2, <2>3, <4>1 DEF LookOK
    <3>2. CASE d # c
      <4>1. checking'[d] = checking[d]
        BY <1>0, <2>1, <3>2
      <4> QED  BY <1>0, <2>1, <2>3, <4>1 DEF LookOK
    <3> QED  BY <3>1, <3>2
  <2>5. (WholeTarget => WholeTarget') /\ (NobodyYet => NobodyYet')
    BY <2>1, <2>3 DEF WholeTarget, NobodyYet
  <2>6. checking' = [d \in Checker |-> checking'[d]]
    BY <1>0, <2>1
  <2> QED  BY <1>0, <2>1, <2>4, <2>5, <2>6 DEF ChecksInv
<1>5. ASSUME NEW c \in Checker, CheckAsks(c) PROVE ChecksInv'
  <2>1. /\ checking[c].pc = "chat" /\ checking' = [checking EXCEPT ![c] = AtEase]
        /\ mixedCheck' = (mixedCheck \/ (/\ <<checking[c].channel, target[2]>> \notin Contact
                                         /\ checking[c].clean /\ checking[c].notes = notes
                                         /\ ~overlapped))
        /\ UNCHANGED <<target, hasTarget, flash, noting, lastNoted, overlapped, unsaved, notes>>
    BY <1>5 DEF CheckAsks, targetVars
  <2>2. Writing' <=> Writing
    BY <2>1 DEF Writing
  <2>3. ASSUME checking[c].clean, checking[c].notes = notes, ~overlapped
        PROVE  <<checking[c].channel, target[2]>> \in Contact
    <3>1. ~Writing /\ checking[c].channel = target[1] /\ notes > 0
      BY <1>0, <2>1, <2>3 DEF LookOK
    <3>2. target = lastNoted /\ lastNoted \in Contact
      BY <1>0, <2>3, <3>1 DEF WholeTarget
    <3>3. target = <<target[1], target[2]>>
      BY <3>2, ContactIsPair
    <3> QED  BY <3>1, <3>2, <3>3
  <2>4. ~mixedCheck'
    BY <1>0, <2>1, <2>3
  <2>5. ASSUME NEW d \in Checker PROVE LookOK(d)'
    <3>1. CASE d = c
      <4>1. checking'[d].pc = "rest"
        BY <1>0, <2>1, <3>1 DEF AtEase
      <4> QED  BY <4>1 DEF LookOK
    <3>2. CASE d # c
      <4>1. checking'[d] = checking[d]
        BY <1>0, <2>1, <3>2
      <4> QED  BY <1>0, <2>1, <2>2, <4>1 DEF LookOK
    <3> QED  BY <3>1, <3>2
  <2>6. (WholeTarget => WholeTarget') /\ (NobodyYet => NobodyYet')
    BY <2>1, <2>2 DEF WholeTarget, NobodyYet
  <2>7. checking' = [d \in Checker |-> checking'[d]]
    BY <1>0, <2>1
  <2> QED  BY <1>0, <2>1, <2>4, <2>5, <2>6, <2>7 DEF ChecksInv
<1>6. CASE ChecksReboot
  <2>1. /\ \A n \in Noter : noting'[n].pc = "rest"
        /\ \A c \in Checker : checking'[c].pc = "rest"
        /\ noting' \in [Noter -> Talker] /\ checking' = [c \in Checker |-> checking'[c]]
        /\ UNCHANGED <<flash, lastNoted, unsaved, mixedCheck, notes>>
    BY <1>6 DEF ChecksReboot, AtEase, Talker
  <2>2. ~overlapped' => ~overlapped /\ ~unsaved /\ \A n \in Noter : noting[n].pc = "rest"
    <3>1. overlapped' = (overlapped \/ unsaved \/ \E n \in Noter : noting[n] # AtEase)
      BY <1>6 DEF ChecksReboot
    <3> QED  BY <3>1, AtEaseRests, Zenon
  <2>3. ~overlapped' /\ notes > 0 => flash = lastNoted /\ lastNoted \in Contact
    BY <1>0, <2>2 DEF WholeTarget
  <2>4. CASE flash[1] # "" /\ flash[2] # ""
    <3>1. target' = flash /\ hasTarget' = TRUE
      BY <1>6, <2>4 DEF ChecksReboot
    <3>2. notes > 0
      <4>1. notes = 0 => flash[1] = ""
        <5>1. NoTarget[1] = ""
          BY DEF NoTarget
        <5> QED  BY <1>0, <5>1 DEF NobodyYet
      <4>2. notes # 0
        BY <2>4, <4>1, Zenon
      <4>3. notes \in Nat
        BY <1>0
      <4> QED  BY <4>2, <4>3
    <3>3. ~overlapped' => WholeTarget'
      BY <2>1, <2>3, <3>1 DEF WholeTarget
    <3> QED  BY <1>0, <2>1, <3>1, <3>2, <3>3 DEF ChecksInv, LookOK
  <2>5. CASE ~(flash[1] # "" /\ flash[2] # "")
    <3>1. target' = NoTarget /\ hasTarget' = FALSE
      BY <1>6, <2>5, Zenon DEF ChecksReboot
    <3>2. ~overlapped' => ~(notes > 0)
      BY <2>3, <2>5, ContactIsPair
    <3>3. ~overlapped' => WholeTarget'
      BY <2>1, <3>2 DEF WholeTarget
    <3>4. notes' = 0 => NobodyYet'
      BY <1>0, <2>1, <3>1 DEF NobodyYet
    <3> QED  BY <1>0, <2>1, <3>1, <3>3, <3>4 DEF ChecksInv, LookOK
  <2> QED  BY <2>4, <2>5
<1>7. CASE BeatFires \/ BeatStep \/ UNCHANGED checkVars
  <2>1. UNCHANGED <<target, hasTarget, flash, noting, lastNoted, overlapped, unsaved, notes,
                    checking, mixedCheck>>
    BY <1>7 DEF BeatFires, BeatStep, BeatSends, BeatEnds, checkVars, targetVars
  <2>2. Writing' <=> Writing
    BY <2>1 DEF Writing
  <2>3. /\ (WholeTarget => WholeTarget') /\ (NobodyYet => NobodyYet')
        /\ \A c \in Checker : LookOK(c) => LookOK(c)'
    BY <2>1, <2>2 DEF WholeTarget, NobodyYet, LookOK
  <2> QED  BY <1>0, <2>1, <2>3 DEF ChecksInv
<1> QED
  BY <1>1, <1>2, <1>3, <1>4, <1>5, <1>6, <1>7 DEF ChecksNext, NoteStep

\* Unless two writers or a reboot and a writer met, or NVS refused a key, the target is the
\* contact noted last, in memory and in flash, and checks go to pairs that somebody talks on (proactive_service.c),
\* for any number of writers, readers, contacts and reboots.
THEOREM TargetHolds == ChecksSpec => []TargetIsContact
<1>1. ASSUME ChecksInv PROVE TargetIsContact
  <2>1. ASSUME \A n \in Noter : noting[n] = AtEase, notes > 0, ~overlapped
        PROVE  target = lastNoted /\ hasTarget /\ (unsaved \/ flash = lastNoted)
    <3>1. \A n \in Noter : noting[n].pc = "rest"
      BY <2>1, AtEaseRests
    <3>2. WholeTarget
      BY <1>1, <2>1 DEF ChecksInv
    <3>3. ~Writing
      BY <3>1 DEF Writing
    <3> QED  BY <2>1, <3>1, <3>2, <3>3 DEF WholeTarget
  <2> QED  BY <1>1, <2>1 DEF ChecksInv, TargetIsContact
<1> QED  BY <1>1, ChecksInvInit, ChecksInvStep, PTL DEF ChecksSpec

-----------------------------------------------------------------------------
(* The cache. *)

\* The inductive invariant: the types, and that the put with the mutex is a put under way.
CacheInv ==
    /\ entries \in [Place -> Entry \cup {Unused}]
    /\ putting \in [CacheUser -> Asked \cup {Unused}]
    /\ holder \in [used : {TRUE}, user : CacheUser, place : Place \cup {NoPlace}] \cup {Unused}
    /\ clock \in Nat
    /\ holder.used => putting[holder.user].used
    /\ KeyOnce

\* Entries only go: what is left is where it was.
Dropped == /\ entries' \in [Place -> Entry \cup {Unused}]
           /\ InUse' \subseteq InUse
           /\ \A i \in InUse' : entries'[i].key = entries[i].key

LEMMA FreedDrops ==
    ASSUME entries \in [Place -> Entry \cup {Unused}], NEW I, entries' = Freed(I)
    PROVE  /\ Dropped
           /\ InUse' \cap I = {}
<1>1. entries' \in [Place -> Entry \cup {Unused}]
  BY DEF Freed
<1>2. \A i \in InUse' : i \notin I /\ i \in InUse /\ entries'[i] = entries[i]
  BY DEF Freed, InUse, Unused
<1> QED  BY <1>1, <1>2 DEF Dropped

\* With fewer entries, and the same put under the mutex, no key comes to be twice.
LEMMA DroppedKeeps ==
    ASSUME CacheInv, Dropped,
           \/ ~holder'.used
           \/ holder' = holder /\ putting'[holder.user] = putting[holder.user]
    PROVE  KeyOnce'
<1>1. \A i, j \in InUse' : entries'[i].key = entries'[j].key => i = j
  BY DEF CacheInv, KeyOnce, Dropped
<1>2. CASE ~holder'.used
  BY <1>1, <1>2 DEF KeyOnce
<1>3. CASE holder' = holder /\ putting'[holder.user] = putting[holder.user] /\ holder.used
  <2>1. Find(putting[holder.user].key) = {} /\ (holder.place # NoPlace => holder.place \notin InUse)
    BY <1>3 DEF CacheInv, KeyOnce
  <2>2. Find(putting[holder.user].key)' = {}
    BY <1>3, <2>1 DEF Find, Dropped
  <2> QED  BY <1>1, <1>3, <2>1, <2>2 DEF KeyOnce, Dropped
<1> QED  BY <1>2, <1>3

LEMMA CacheInvInit == CacheInit => CacheInv
<1> SUFFICES ASSUME CacheInit PROVE CacheInv
  OBVIOUS
<1>1. entries \in [Place -> Entry \cup {Unused}] /\ InUse = {}
  BY DEF CacheInit, InUse, Unused
<1>2. putting \in [CacheUser -> Asked \cup {Unused}] /\ holder = Unused /\ clock \in Nat
  BY DEF CacheInit
<1>3. ~holder.used
  BY <1>2 DEF Unused
<1> QED  BY <1>1, <1>2, <1>3 DEF CacheInv, KeyOnce

\* Who holds the mutex is a user, and its put is one.
LEMMA HolderPuts ==
    ASSUME CacheInv, holder.used
    PROVE  holder.user \in CacheUser /\ putting[holder.user] \in Asked
<1>1. holder # Unused
  BY DEF Unused
<1>2. holder \in [used : {TRUE}, user : CacheUser, place : Place \cup {NoPlace}]
  BY <1>1 DEF CacheInv
<1>3. holder.user \in CacheUser
  BY <1>2
<1>4. putting[holder.user].used /\ putting[holder.user] \in Asked \cup {Unused}
  BY <1>3 DEF CacheInv
<1>5. putting[holder.user] # Unused
  BY <1>4 DEF Unused
<1> QED  BY <1>3, <1>4, <1>5

LEMMA CacheInvStep == CacheInv /\ [CacheNext]_cacheVars => CacheInv'
<1> SUFFICES ASSUME CacheInv, [CacheNext]_cacheVars PROVE CacheInv'
  OBVIOUS
<1>0. /\ entries \in [Place -> Entry \cup {Unused}]
      /\ putting \in [CacheUser -> Asked \cup {Unused}]
      /\ holder \in [used : {TRUE}, user : CacheUser, place : Place \cup {NoPlace}] \cup {Unused}
      /\ clock \in Nat
      /\ holder.used => putting[holder.user].used
      /\ KeyOnce
  BY DEF CacheInv
<1>1. ASSUME NEW c \in CacheUser, NEW k \in CacheKey, NEW v \in CacheValue, NEW ttl \in CacheTtl,
             CachePutAsked(c, k, v, ttl)
      PROVE  CacheInv'
  <2>1. /\ ~putting[c].used
        /\ putting' = [putting EXCEPT ![c] =
              [used |-> TRUE, key |-> k, value |-> v, expires |-> clock + ttl, now |-> clock]]
        /\ UNCHANGED <<entries, holder, clock>>
    BY <1>1 DEF CachePutAsked
  <2>2. clock + ttl \in Nat
    BY <1>0, CacheAssumption
  <2>3. putting' \in [CacheUser -> Asked \cup {Unused}]
    BY <1>0, <2>1, <2>2 DEF Asked
  <2>4. Dropped
    BY <1>0, <2>1 DEF Dropped, InUse
  <2>5. ASSUME holder.used PROVE putting'[holder.user] = putting[holder.user]
    <3>1. holder.user \in CacheUser /\ holder.user # c
      BY <1>0, <2>1, <2>5, HolderPuts
    <3> QED  BY <1>0, <2>1, <3>1
  <2>6. KeyOnce'
    BY <2>1, <2>4, <2>5, DroppedKeeps
  <2> QED  BY <1>0, <2>1, <2>3, <2>5, <2>6 DEF CacheInv
<1>2. ASSUME NEW c \in CacheUser, CachePutLocks(c) PROVE CacheInv'
  <2> DEFINE old == Find(putting[c].key)
             at == IF old = {} THEN NoPlace ELSE CHOOSE i \in old : TRUE
  <2>1. /\ putting[c].used /\ ~holder.used /\ entries' = Freed(old)
        /\ holder' = [used |-> TRUE, user |-> c, place |-> at]
        /\ UNCHANGED <<putting, clock>>
    BY <1>2 DEF CachePutLocks
  <2>2. old \subseteq Place /\ at \in old \cup {NoPlace}
    BY DEF Find, InUse
  <2>3. Dropped /\ InUse' \cap old = {}
    <3> HIDE DEF old
    <3> QED  BY <1>0, <2>1, FreedDrops
  <2>4. \A i, j \in InUse' : entries'[i].key = entries'[j].key => i = j
    BY <1>0, <2>3 DEF KeyOnce, Dropped
  <2>5. Find(putting[c].key)' = {}
    BY <2>1, <2>3 DEF Find, Dropped
  <2>6. holder'.used /\ holder'.user = c /\ holder'.place = at
    BY <2>1
  <2>7. at # NoPlace => at \notin InUse'
    BY <2>2, <2>3
  <2> HIDE DEF old, at
  <2>8. KeyOnce'
    BY <2>1, <2>4, <2>5, <2>6, <2>7 DEF KeyOnce
  <2>9. holder' \in [used : {TRUE}, user : CacheUser, place : Place \cup {NoPlace}]
    BY <2>1, <2>2
  <2> QED  BY <1>0, <2>1, <2>3, <2>6, <2>8, <2>9 DEF CacheInv, Dropped
<1>3. CASE CachePutEvicts
  <2> DEFINE victim == Victim(putting[holder.user].now)
  <2>1. entries' = Freed(victim) /\ UNCHANGED <<putting, holder, clock>>
    BY <1>3 DEF CachePutEvicts
  <2> HIDE DEF victim
  <2>2. Dropped
    BY <1>0, <2>1, FreedDrops
  <2>3. KeyOnce'
    BY <2>1, <2>2, DroppedKeeps
  <2> QED  BY <1>0, <2>1, <2>2, <2>3 DEF CacheInv, Dropped
<1>4. CASE CachePutStores
  <2> DEFINE p == putting[holder.user]
             e == [used |-> TRUE, key |-> p.key, value |-> p.value, expires |-> p.expires,
                   access |-> p.now]
  <2>1. /\ holder.used /\ holder' = Unused /\ clock' = clock
        /\ putting' = [putting EXCEPT ![holder.user] = Unused]
    BY <1>4 DEF CachePutStores
  <2>a. (\E I : entries' = Freed(I)) \/ \E i : entries' = [entries EXCEPT ![i] = e]
    BY <1>4, Zenon DEF CachePutStores
  <2>2. holder.user \in CacheUser /\ p \in Asked
    BY <2>1, HolderPuts
  <2>3. e \in Entry /\ e.key = p.key
    BY <2>2 DEF Asked, Entry
  <2>4. putting' \in [CacheUser -> Asked \cup {Unused}] /\ ~holder'.used
    BY <1>0, <2>1 DEF Unused
  <2>5. CASE \E I : entries' = Freed(I)
    <3>1. Dropped
      BY <1>0, <2>5, FreedDrops
    <3>2. KeyOnce'
      BY <2>4, <3>1, DroppedKeeps
    <3> QED  BY <1>0, <2>1, <2>4, <3>1, <3>2 DEF CacheInv, Dropped
  <2>6. CASE \E i : entries' = [entries EXCEPT ![i] = e]
    <3>1. PICK i : entries' = [entries EXCEPT ![i] = e]
      BY <2>6
    <3>2. Find(p.key) = {} /\ \A a, b \in InUse : entries[a].key = entries[b].key => a = b
      BY <1>0, <2>1 DEF KeyOnce
    <3> HIDE DEF e, p
    <3>3. entries' \in [Place -> Entry \cup {Unused}]
      BY <1>0, <2>3, <3>1
    <3>4. \A a \in InUse' : a # i => a \in InUse /\ entries'[a] = entries[a] /\ entries[a].key # p.key
      BY <1>0, <3>1, <3>2 DEF InUse, Find
    <3>5. \A a \in InUse' : a = i => entries'[a].key = p.key
      BY <1>0, <2>3, <3>1 DEF InUse
    <3>6. KeyOnce'
      BY <2>4, <3>2, <3>4, <3>5 DEF KeyOnce
    <3> QED  BY <1>0, <2>1, <2>4, <3>3, <3>6 DEF CacheInv
  <2> QED  BY <2>a, <2>5, <2>6
<1>5. ASSUME NEW k \in CacheKey, CacheGet(k) PROVE CacheInv'
  <2> DEFINE found == Find(k)
             dead == found \cap Expired(clock)
  <2>1. /\ ~holder.used /\ UNCHANGED <<putting, holder, clock>>
        /\ entries' = [i \in Place |-> CASE i \in dead -> Unused
                                         [] i \in found \ dead -> [entries[i] EXCEPT !.access = clock]
                                         [] OTHER -> entries[i]]
    BY <1>5 DEF CacheGet
  <2>2. \A i \in found : i \in Place /\ entries[i] \in Entry /\ entries[i].used
    BY <1>0 DEF Find, InUse, Unused
  <2> HIDE DEF found, dead
  <2>3. \A i \in Place : \/ entries'[i] = Unused
                         \/ entries'[i] = entries[i]
                         \/ i \in found /\ entries'[i] = [entries[i] EXCEPT !.access = clock]
    <3> SUFFICES ASSUME NEW i \in Place
                 PROVE  \/ entries'[i] = Unused
                        \/ entries'[i] = entries[i]
                        \/ i \in found /\ entries'[i] = [entries[i] EXCEPT !.access = clock]
      OBVIOUS
    <3>1. entries'[i] = CASE i \in dead -> Unused
                          [] i \in found \ dead -> [entries[i] EXCEPT !.access = clock]
                          [] OTHER -> entries[i]
      BY <2>1, Zenon
    <3>2. CASE i \in dead
      BY <3>1, <3>2
    <3>3. CASE i \in found \ dead
      BY <3>1, <3>3
    <3>4. CASE i \notin dead /\ i \notin found
      BY <3>1, <3>4
    <3> QED  BY <3>2, <3>3, <3>4
  <2>4. \A i \in found : LET e == [entries[i] EXCEPT !.access = clock]
                         IN  e \in Entry /\ e.key = entries[i].key
    BY <1>0, <2>2 DEF Entry
  <2>5. \A i \in Place : \/ entries'[i] = Unused
                         \/ entries'[i] = entries[i]
                         \/ i \in InUse /\ entries'[i] \in Entry /\ entries'[i].key = entries[i].key
    BY <2>2, <2>3, <2>4 DEF InUse
  <2>6. Dropped
    <3>1. entries' \in [Place -> Entry \cup {Unused}]
      BY <1>0, <2>1, <2>5
    <3>2. \A i \in InUse' : i \in InUse /\ entries'[i].key = entries[i].key
      BY <2>5 DEF InUse, Unused
    <3> QED  BY <3>1, <3>2 DEF Dropped
  <2>7. KeyOnce'
    BY <2>1, <2>6, DroppedKeeps
  <2> QED  BY <1>0, <2>1, <2>6, <2>7 DEF CacheInv, Dropped
<1>6. ASSUME NEW K, CacheDelete(K) PROVE CacheInv'
  <2>1. ~holder.used /\ UNCHANGED <<putting, holder, clock>>
    BY <1>6 DEF CacheDelete
  <2>2. PICK I : entries' = Freed(I)
    BY <1>6 DEF CacheDelete
  <2>3. Dropped
    BY <1>0, <2>2, FreedDrops
  <2>4. KeyOnce'
    BY <2>1, <2>3, DroppedKeeps
  <2> QED  BY <1>0, <2>1, <2>3, <2>4 DEF CacheInv, Dropped
<1>7. CASE CacheClear
  <2>1. /\ ~holder.used /\ UNCHANGED <<putting, holder, clock>>
        /\ entries' = [i \in Place |-> Unused]
    BY <1>7 DEF CacheClear
  <2>2. Dropped
    BY <2>1 DEF Dropped, InUse, Unused
  <2>3. KeyOnce'
    BY <2>1, <2>2, DroppedKeeps
  <2> QED  BY <1>0, <2>1, <2>2, <2>3 DEF CacheInv, Dropped
<1>8. CASE CacheTick \/ UNCHANGED cacheVars
  <2>1. UNCHANGED <<entries, putting, holder>> /\ clock' \in Nat
    BY <1>0, <1>8 DEF CacheTick, cacheVars
  <2>2. Dropped
    BY <1>0, <2>1 DEF Dropped, InUse
  <2>3. KeyOnce'
    BY <2>1, <2>2, DroppedKeeps
  <2> QED  BY <1>0, <2>1, <2>3 DEF CacheInv
<1> QED
  BY <1>1, <1>2, <1>3, <1>4, <1>5, <1>6, <1>7, <1>8 DEF CacheNext

\* No key is ever in two places of the table (cache_store.c), for any number of tasks, keys,
\* values and places: a get has one entry to answer with.
THEOREM KeysOnce == CacheSpec => []KeyOnce
<1>1. CacheInv => KeyOnce
  BY DEF CacheInv
<1> QED  BY <1>1, CacheInvInit, CacheInvStep, PTL DEF CacheSpec

-----------------------------------------------------------------------------
(* The bytes of the cache. *)

\* What the places in I of the table e count for.
Weights(e, I) == [i \in Place |-> IF i \in I THEN CacheSize[e[i].value] ELSE 0]

\* n is the sum of the weights w: f adds them up place by place.
AddsUp(f, w) == /\ f \in [0 .. CachePlaces -> Nat] /\ f[0] = 0
                /\ \A i \in Place : f[i] = f[i - 1] + w[i]
Sums(n, w)   == \E f : AddsUp(f, w) /\ n = f[CachePlaces]

\* Two weightings, and one that gives each place what they give it together.
Joins(u, v, w) == \A i \in Place : u[i] \in Nat /\ v[i] \in Nat /\ w[i] = u[i] + v[i]

\* The bytes of places in use are a sum: the recursion runs through the table.
LEMMA BytesSum ==
    ASSUME entries \in [Place -> Entry \cup {Unused}], NEW I \in SUBSET InUse
    PROVE  Sums(Bytes(I), Weights(entries, I))
<1> DEFINE N == CachePlaces
           w == Weights(entries, I)
           IsUp(f) == f = [i \in 0 .. N |-> IF i = 0 THEN 0 ELSE
                             f[i - 1] + IF i \in I THEN CacheSize[entries[i].value] ELSE 0]
           g == [i \in 0 .. N |-> [s \in Nat |-> IF i = 0 THEN 0 ELSE s + w[i]]]
<1>1. N \in Nat \ {0} /\ Place = 1 .. N
  BY CacheAssumption DEF Place
<1>2. \A i \in Place : w[i] \in Nat
  <2> SUFFICES ASSUME NEW i \in Place, i \in I PROVE CacheSize[entries[i].value] \in Nat
    BY DEF Weights
  <2>1. entries[i].used /\ entries[i] \in Entry
    BY DEF InUse, Unused
  <2>2. entries[i].value \in CacheValue
    BY <2>1 DEF Entry
  <2> QED  BY <2>2, CacheAssumption
<1>3. \A i \in 0 .. N : i # 0 => i \in Place /\ i - 1 \in 0 .. N
  BY <1>1
<1>4. \A i \in Place : w[i] = IF i \in I THEN CacheSize[entries[i].value] ELSE 0
  BY DEF Weights
<1> HIDE DEF N, w
<1>5. g \in [0 .. N -> [Nat -> Nat]]
  BY <1>2, <1>3
<1> HIDE DEF g
<1>6. PICK f \in [0 .. N -> Nat] : Computes(f, 0, N, 0, g)
  <2>1. 0 \in Nat /\ N \in Nat /\ 0 <= N
    BY <1>1
  <2> QED  BY <1>5, <2>1, Recursion, Zenon
<1>7. ASSUME NEW i \in 0 .. N PROVE f[i] = IF i = 0 THEN 0 ELSE f[i - 1] + w[i]
  BY <1>3, <1>6 DEF Computes, g
<1>8. IsUp(f)
  <2>1. f = [i \in 0 .. N |-> f[i]]
    OBVIOUS
  <2>2. \A i \in 0 .. N : f[i] = IF i = 0 THEN 0 ELSE
                             f[i - 1] + IF i \in I THEN CacheSize[entries[i].value] ELSE 0
    BY <1>3, <1>4, <1>7
  <2> QED  BY <2>1, <2>2
<1> DEFINE up == CHOOSE h : IsUp(h)
<1>9. IsUp(up)
  <2> HIDE DEF IsUp
  <2> QED  BY <1>8
<1>10. Bytes(I) = up[N]
  BY DEF Bytes, N
<1> HIDE DEF up
<1>11. /\ DOMAIN up = 0 .. N /\ up = [i \in 0 .. N |-> up[i]]
       /\ \A i \in 0 .. N : up[i] = IF i = 0 THEN 0 ELSE up[i - 1] + w[i]
  <2>1. \A i \in 0 .. N : up[i] = IF i = 0 THEN 0 ELSE
                             up[i - 1] + IF i \in I THEN CacheSize[entries[i].value] ELSE 0
    BY <1>9
  <2> QED  BY <1>3, <1>4, <1>9, <2>1
<1> DEFINE Bad == {i \in 0 .. N : up[i] # f[i]}
<1>12. Bad = {}
  <2> SUFFICES ASSUME Bad # {} PROVE FALSE
    OBVIOUS
  <2>1. Bad \in SUBSET Nat
    OBVIOUS
  <2>2. PICK m \in Bad : \A k \in Bad : m <= k
    <3> HIDE DEF Bad
    <3> QED  BY <2>1, LeastElement
  <2>3. m \in 0 .. N /\ up[m] # f[m] /\ m # 0
    <3>1. 0 \in 0 .. N
      BY <1>1
    <3> QED  BY <1>7, <1>11, <3>1
  <2>4. m - 1 \in 0 .. N /\ ~(m <= m - 1)
    BY <1>3, <2>3
  <2>5. up[m - 1] = f[m - 1]
    BY <2>2, <2>4
  <2> QED  BY <1>7, <1>11, <2>3, <2>5
<1>13. AddsUp(f, w)
  <2>1. f[0] = 0 /\ \A i \in Place : f[i] = f[i - 1] + w[i]
    BY <1>1, <1>7
  <2> QED  BY <2>1 DEF AddsUp, N
<1>14. up[N] = f[N]
  BY <1>1, <1>12
<1> QED  BY <1>10, <1>13, <1>14 DEF Sums, N, w

\* Sums add up.
LEMMA SumsAdd ==
    ASSUME NEW a, NEW b, NEW c, NEW u, NEW v, NEW w, Sums(a, u), Sums(b, v), Sums(c, w),
           Joins(u, v, w)
    PROVE  a \in Nat /\ b \in Nat /\ c = a + b
<1>1. CachePlaces \in Nat /\ Place = 1 .. CachePlaces
  BY CacheAssumption DEF Place
<1>2. PICK f : AddsUp(f, u) /\ a = f[CachePlaces]
  BY DEF Sums
<1>3. PICK g : AddsUp(g, v) /\ b = g[CachePlaces]
  BY DEF Sums
<1>4. PICK h : AddsUp(h, w) /\ c = h[CachePlaces]
  BY DEF Sums
<1>5. \A i \in 0 .. CachePlaces : f[i] \in Nat /\ g[i] \in Nat /\ h[i] \in Nat
  BY <1>2, <1>3, <1>4 DEF AddsUp
<1> DEFINE Bad == {i \in 0 .. CachePlaces : h[i] # f[i] + g[i]}
<1>6. Bad = {}
  <2> SUFFICES ASSUME Bad # {} PROVE FALSE
    OBVIOUS
  <2>1. Bad \in SUBSET Nat
    OBVIOUS
  <2>2. PICK m \in Bad : \A k \in Bad : m <= k
    <3> HIDE DEF Bad
    <3> QED  BY <2>1, LeastElement
  <2>3. m \in 0 .. CachePlaces /\ h[m] # f[m] + g[m]
    OBVIOUS
  <2>4. m # 0
    BY <1>2, <1>3, <1>4, <2>3 DEF AddsUp
  <2>5. m \in Place /\ m - 1 \in 0 .. CachePlaces /\ ~(m <= m - 1)
    BY <1>1, <2>3, <2>4
  <2>6. h[m - 1] = f[m - 1] + g[m - 1]
    BY <2>2, <2>5
  <2>7. /\ f[m] = f[m - 1] + u[m] /\ g[m] = g[m - 1] + v[m] /\ h[m] = h[m - 1] + w[m]
        /\ w[m] = u[m] + v[m] /\ u[m] \in Nat /\ v[m] \in Nat
    BY <1>2, <1>3, <1>4, <2>5 DEF AddsUp, Joins
  <2> HIDE DEF Bad
  <2> QED  BY <1>5, <2>3, <2>5, <2>6, <2>7
<1>7. CachePlaces \in 0 .. CachePlaces
  BY <1>1
<1> QED  BY <1>2, <1>3, <1>4, <1>5, <1>6, <1>7

\* One place sums up to what it counts for.
LEMMA OneSums ==
    ASSUME NEW i \in Place, NEW s \in Nat
    PROVE  Sums(s, [j \in Place |-> IF j = i THEN s ELSE 0])
<1> DEFINE f == [j \in 0 .. CachePlaces |-> IF j < i THEN 0 ELSE s]
           w == [j \in Place |-> IF j = i THEN s ELSE 0]
<1>1. CachePlaces \in Nat /\ Place = 1 .. CachePlaces /\ i \in 1 .. CachePlaces
  BY CacheAssumption DEF Place
<1>2. f \in [0 .. CachePlaces -> Nat] /\ f[0] = 0 /\ f[CachePlaces] = s
  BY <1>1
<1>3. \A j \in Place : f[j] = f[j - 1] + w[j]
  BY <1>1
<1> HIDE DEF f, w
<1>4. AddsUp(f, w)
  BY <1>2, <1>3 DEF AddsUp
<1> QED  BY <1>2, <1>4 DEF Sums, w

\* The places in use add up, in this state and in the next.
LEMMA UsedSum == CacheInv => Sums(Bytes(InUse), Weights(entries, InUse))
BY BytesSum DEF CacheInv

LEMMA UsedSumNext == CacheInv' => Sums(Bytes(InUse), Weights(entries, InUse))'
BY UsedSum, PTL

LEMMA WeightsAre ==
    /\ CacheInv => \A i \in InUse : CacheSize[entries[i].value] \in Nat
    /\ \A e, I : \A i \in Place : Weights(e, I)[i] = IF i \in I THEN CacheSize[e[i].value] ELSE 0
<1>1. ASSUME CacheInv, NEW i \in InUse PROVE CacheSize[entries[i].value] \in Nat
  <2>1. i \in Place /\ entries[i].used /\ entries[i] \in Entry
    BY <1>1 DEF CacheInv, InUse, Unused
  <2>2. entries[i].value \in CacheValue
    BY <2>1 DEF Entry
  <2> QED  BY <2>2, CacheAssumption
<1> QED  BY <1>1 DEF Weights

\* No places count for nothing.
LEMMA NothingSums ==
    ASSUME NEW e, NEW n, Sums(n, Weights(e, {}))
    PROVE  n = 0
<1> DEFINE w == Weights(e, {})
<1>1. Joins(w, w, w)
  BY WeightsAre DEF Joins
<1> HIDE DEF w
<1>2. n \in Nat /\ n = n + n
  BY <1>1, SumsAdd, Zenon DEF w
<1> QED  BY <1>2

\* When entries go, their bytes go.
LEMMA BytesDropped ==
    ASSUME CacheInv, CacheInv', NEW D \in SUBSET InUse, InUse' = InUse \ D,
           \A i \in InUse' : entries'[i].value = entries[i].value
    PROVE  /\ Bytes(InUse)' = Bytes(InUse) - Bytes(D)
           /\ Bytes(D) \in Nat /\ Bytes(InUse)' \in Nat
<1>1. Sums(Bytes(D), Weights(entries, D))
  BY BytesSum DEF CacheInv
<1>2. Sums(Bytes(InUse), Weights(entries, InUse))
  BY UsedSum
<1>3. Sums(Bytes(InUse)', Weights(entries', InUse'))
  BY UsedSumNext
<1>4. Joins(Weights(entries, D), Weights(entries', InUse'), Weights(entries, InUse))
  BY WeightsAre DEF Joins
<1>5. Bytes(D) \in Nat /\ Bytes(InUse)' \in Nat /\ Bytes(InUse) = Bytes(D) + Bytes(InUse)'
  BY <1>1, <1>2, <1>3, <1>4, SumsAdd, Zenon
<1> DEFINE a == Bytes(D)
           b == Bytes(InUse)'
           c == Bytes(InUse)
<1>6. a \in Nat /\ b \in Nat /\ c = a + b
  BY <1>5
<1> HIDE DEF a, b, c
<1>7. b = c - a
  BY <1>6
<1> QED  BY <1>6, <1>7 DEF a, b, c

\* An entry that is stored at a place that is free, or that what is in D leaves, adds its bytes.
LEMMA BytesStored ==
    ASSUME CacheInv, CacheInv', NEW i \in Place, NEW e \in Entry, NEW D \in SUBSET InUse,
           D \subseteq {i}, i \notin InUse \ D, entries' = [entries EXCEPT ![i] = e]
    PROVE  Bytes(InUse)' = Bytes(InUse) - Bytes(D) + CacheSize[e.value]
<1> DEFINE R == InUse \ D
           s == CacheSize[e.value]
           one == [j \in Place |-> IF j = i THEN s ELSE 0]
<1>1. Sums(Bytes(D), Weights(entries, D)) /\ Sums(Bytes(R), Weights(entries, R))
  BY BytesSum DEF CacheInv
<1>2. Sums(Bytes(InUse), Weights(entries, InUse))
  BY UsedSum
<1>3. Sums(Bytes(InUse)', Weights(entries', InUse'))
  BY UsedSumNext
<1>4. s \in Nat
  BY CacheAssumption DEF Entry
<1>5. Sums(s, one)
  BY <1>4, OneSums
<1>6. /\ InUse' = R \cup {i} /\ i \notin R /\ R \subseteq InUse /\ InUse \subseteq Place
      /\ entries'[i] = e /\ \A j \in R : entries'[j] = entries[j]
  <2>1. /\ e.used /\ entries'[i] = e /\ \A j \in Place : j # i => entries'[j] = entries[j]
    BY DEF CacheInv, Entry
  <2> QED  BY <2>1 DEF InUse
<1>7. ASSUME NEW j \in Place
      PROVE  /\ Weights(entries, D)[j] \in Nat /\ Weights(entries, R)[j] \in Nat
             /\ Weights(entries, InUse)[j] = Weights(entries, D)[j] + Weights(entries, R)[j]
             /\ one[j] \in Nat
             /\ Weights(entries', InUse')[j] = Weights(entries, R)[j] + one[j]
  <2>1. \A k \in InUse : CacheSize[entries[k].value] \in Nat
    BY WeightsAre
  <2>2. one[j] = IF j = i THEN s ELSE 0
    OBVIOUS
  <2>3. Weights(entries', InUse')[j] = IF j \in InUse' THEN CacheSize[entries'[j].value] ELSE 0
    BY Zenon DEF Weights
  <2>4. Weights(entries, R)[j] = IF j \in R THEN CacheSize[entries[j].value] ELSE 0
    BY Zenon DEF Weights
  <2>5. Weights(entries, D)[j] = IF j \in D THEN CacheSize[entries[j].value] ELSE 0
    BY Zenon DEF Weights
  <2>6. Weights(entries, InUse)[j] = IF j \in InUse THEN CacheSize[entries[j].value] ELSE 0
    BY Zenon DEF Weights
  <2>7. j = i => CacheSize[entries'[j].value] = s
    BY <1>6
  <2> HIDE DEF one, s
  <2> QED  BY <1>4, <1>6, <2>1, <2>2, <2>3, <2>4, <2>5, <2>6, <2>7
<1>a. /\ Joins(Weights(entries, D), Weights(entries, R), Weights(entries, InUse))
      /\ Joins(Weights(entries, R), one, Weights(entries', InUse'))
  BY <1>7 DEF Joins
<1> HIDE DEF R, s, one
<1>8. Bytes(D) \in Nat /\ Bytes(R) \in Nat /\ Bytes(InUse) = Bytes(D) + Bytes(R)
  BY <1>1, <1>2, <1>a, SumsAdd, Zenon
<1>9. Bytes(InUse)' = Bytes(R) + s
  BY <1>1, <1>3, <1>5, <1>a, SumsAdd, Zenon
<1> DEFINE a == Bytes(D)
           b == Bytes(R)
           c == Bytes(InUse)
           d == Bytes(InUse)'
<1>10. a \in Nat /\ b \in Nat /\ c = a + b /\ d = b + s
  BY <1>8, <1>9
<1> HIDE DEF a, b, c, d
<1>11. d = c - a + s
  BY <1>4, <1>10
<1> QED  BY <1>11 DEF a, c, d, s

\* The inductive invariant.
BytesInv == CacheInv /\ BytesCounted /\ total \in 0 .. CacheTotal

\* Taking entries out and their bytes off the count keeps it.
LEMMA DropCounted ==
    ASSUME BytesInv, CacheInv', NEW D \in SUBSET InUse, InUse' = InUse \ D,
           \A i \in InUse' : entries'[i].value = entries[i].value, total' = total - Bytes(D)
    PROVE  BytesInv'
<1>1. /\ Bytes(InUse)' = Bytes(InUse) - Bytes(D)
      /\ Bytes(D) \in Nat /\ Bytes(InUse)' \in Nat
  BY BytesDropped DEF BytesInv
<1>2. total = Bytes(InUse) /\ total \in 0 .. CacheTotal /\ CacheTotal \in Nat
  BY CacheAssumption DEF BytesInv, BytesCounted
<1>3. total' = Bytes(InUse)'
  BY <1>1, <1>2
<1> DEFINE a == Bytes(D)
<1>4. a \in Nat /\ total' = total - a /\ total' \in Nat
  BY <1>1, <1>3
<1> HIDE DEF a
<1>5. total' \in 0 .. CacheTotal
  BY <1>2, <1>4
<1> QED  BY <1>3, <1>5 DEF BytesInv, BytesCounted

LEMMA FreedCounted ==
    ASSUME BytesInv, CacheInv', NEW D \in SUBSET InUse, entries' = Freed(D),
           total' = total - Bytes(D)
    PROVE  BytesInv'
<1>1. InUse' = InUse \ D /\ \A i \in InUse' : entries'[i] = entries[i]
  BY DEF Freed, InUse, Unused
<1> QED  BY <1>1, DropCounted

\* A victim is one place in use, or none.
LEMMA VictimIs ==
    ASSUME BytesInv, NEW now
    PROVE  Victim(now) \in SUBSET InUse /\ \A i \in Victim(now) : Victim(now) \subseteq {i}
<1>1. ASSUME NEW I \in SUBSET InUse
      PROVE  Lowest(I) \in SUBSET InUse /\ \A i \in Lowest(I) : Lowest(I) \subseteq {i}
  <2>1. InUse \subseteq Place /\ Place \subseteq Nat
    BY DEF InUse, Place
  <2>2. \A i, j \in Lowest(I) : i = j
    BY <2>1 DEF Lowest
  <2> QED  BY <2>2 DEF Lowest
<1> DEFINE old == {i \in InUse : \A j \in InUse : entries[i].access <= entries[j].access}
<1>2. Expired(now) \in SUBSET InUse /\ old \in SUBSET InUse
  BY DEF Expired
<1>3. Victim(now) = IF Expired(now) # {} THEN Lowest(Expired(now)) ELSE Lowest(old)
  BY DEF Victim
<1> HIDE DEF old
<1> QED  BY <1>1, <1>2, <1>3

LEMMA StoresCounted ==
    ASSUME BytesInv, CacheInv', CachePutStores
    PROVE  BytesInv'
<1> DEFINE p == putting[holder.user]
           free == Lowest(Place \ InUse)
           victim == IF holder.place = NoPlace /\ free = {} THEN Victim(p.now) ELSE {}
           place == CASE holder.place # NoPlace -> {holder.place}
                      [] free # {} -> free
                      [] OTHER -> victim
           e == [used |-> TRUE, key |-> p.key, value |-> p.value, expires |-> p.expires,
                 access |-> p.now]
           left == total - Bytes(victim)
<1>1. /\ holder.used
      /\ IF left + CacheSize[p.value] > CacheTotal
         THEN entries' = Freed(victim) /\ total' = left
         ELSE /\ \E i \in place : entries' = [entries EXCEPT ![i] = e]
              /\ total' = left + CacheSize[p.value]
  BY Zenon DEF CachePutStores
<1>2. p \in Asked /\ holder.place \in Place \cup {NoPlace}
  <2>1. holder # Unused
    BY <1>1 DEF Unused
  <2> QED  BY <1>1, <2>1, HolderPuts DEF BytesInv, CacheInv
<1>3. e \in Entry /\ e.value = p.value /\ CacheSize[p.value] \in Nat
  BY <1>2, CacheAssumption DEF Asked, Entry
<1>4. victim \in SUBSET InUse
  BY VictimIs
<1>5. CASE entries' = Freed(victim) /\ total' = left
  <2> HIDE DEF victim
  <2> QED  BY <1>4, <1>5, FreedCounted DEF left
<1>6. ASSUME NEW i \in place, entries' = [entries EXCEPT ![i] = e],
             total' = left + CacheSize[p.value], ~(left + CacheSize[p.value] > CacheTotal)
      PROVE  BytesInv'
  <2>1. i \in Place /\ victim \subseteq {i} /\ i \notin InUse \ victim
    <3>1. CASE holder.place # NoPlace
      <4>1. victim = {} /\ holder.place \notin InUse
        BY <1>1, <3>1 DEF BytesInv, CacheInv, KeyOnce
      <4>2. i \in {holder.place} \/ (i \in free /\ free # {})
        BY <3>1
      <4> QED  BY <1>2, <4>1, <4>2 DEF Lowest
    <3>2. CASE holder.place = NoPlace /\ free # {}
      <4>1. victim = {} /\ i \in free
        BY <3>2
      <4> QED  BY <4>1 DEF Lowest
    <3>3. CASE holder.place = NoPlace /\ free = {}
      <4>1. victim = Victim(p.now) /\ i \in victim
        BY <3>3
      <4> QED  BY <1>4, <4>1, VictimIs DEF InUse
    <3> QED  BY <3>1, <3>2, <3>3
  <2>2. CacheInv /\ total = Bytes(InUse) /\ total \in 0 .. CacheTotal /\ CacheTotal \in Nat
    BY CacheAssumption DEF BytesInv, BytesCounted
  <2> HIDE DEF victim, place, e
  <2>3. Bytes(InUse)' = Bytes(InUse) - Bytes(victim) + CacheSize[p.value]
    BY <1>3, <1>4, <1>6, <2>1, <2>2, BytesStored
  <2>4. total' = Bytes(InUse)'
    BY <1>6, <2>2, <2>3
  <2>5. total' \in Nat
    <3>1. Sums(Bytes(InUse)', Weights(entries', InUse'))
      BY UsedSumNext
    <3> QED  BY <2>4, <3>1, CacheAssumption DEF Sums, AddsUp
  <2> DEFINE b == left + CacheSize[p.value]
  <2>6. total' = b /\ ~(b > CacheTotal)
    BY <1>6
  <2> HIDE DEF b
  <2>7. total' \in 0 .. CacheTotal
    BY <2>2, <2>5, <2>6
  <2> QED  BY <2>4, <2>7 DEF BytesInv, BytesCounted
<1> HIDE DEF place, e
<1> QED  BY <1>1, <1>5, <1>6

LEMMA BytesInvStep == BytesInv /\ [CacheNext]_cacheVars => BytesInv'
<1> SUFFICES ASSUME BytesInv, [CacheNext]_cacheVars PROVE BytesInv'
  OBVIOUS
<1>0. CacheInv' /\ CacheInv /\ BytesCounted /\ total \in 0 .. CacheTotal
  BY CacheInvStep DEF BytesInv
<1>1. CASE UNCHANGED <<entries, total>>
  <2>1. Bytes(InUse)' = Bytes(InUse)
    BY <1>1 DEF Bytes, InUse
  <2> QED  BY <1>0, <1>1, <2>1 DEF BytesInv, BytesCounted
<1>2. ASSUME NEW D \in SUBSET InUse, entries' = Freed(D), total' = total - Bytes(D)
      PROVE  BytesInv'
  BY <1>0, <1>2, FreedCounted
<1>3. CASE \E c \in CacheUser, k \in CacheKey, v \in CacheValue, ttl \in CacheTtl :
              CachePutAsked(c, k, v, ttl)
  BY <1>1, <1>3 DEF CachePutAsked
<1>4. CASE \E c \in CacheUser : CachePutLocks(c)
  <2>1. PICK c \in CacheUser : CachePutLocks(c)
    BY <1>4
  <2>2. Find(putting[c].key) \in SUBSET InUse
    BY DEF Find
  <2> QED  BY <1>2, <2>1, <2>2 DEF CachePutLocks
<1>5. CASE CachePutEvicts
  <2>1. Victim(putting[holder.user].now) \in SUBSET InUse
    BY VictimIs
  <2> QED  BY <1>2, <1>5, <2>1 DEF CachePutEvicts
<1>6. CASE CachePutStores
  BY <1>0, <1>6, StoresCounted
<1>7. ASSUME NEW k \in CacheKey, CacheGet(k) PROVE BytesInv'
  <2> DEFINE found == Find(k)
             dead == found \cap Expired(clock)
  <2>1. /\ total' = total - Bytes(dead)
        /\ entries' = [i \in Place |-> CASE i \in dead -> Unused
                                         [] i \in found \ dead -> [entries[i] EXCEPT !.access = clock]
                                         [] OTHER -> entries[i]]
    BY <1>7 DEF CacheGet
  <2>2. found \subseteq InUse /\ dead \in SUBSET InUse /\ dead \subseteq found
    BY DEF Find
  <2>3. \A i \in InUse : i \in Place /\ entries[i] \in Entry /\ entries[i].used
    BY <1>0 DEF CacheInv, InUse, Unused
  <2> HIDE DEF found, dead
  <2>4. \A i \in Place : IF i \in dead THEN entries'[i] = Unused
                         ELSE \/ entries'[i] = entries[i]
                              \/ i \in found /\ entries'[i] = [entries[i] EXCEPT !.access = clock]
    <3> SUFFICES ASSUME NEW i \in Place
                 PROVE  IF i \in dead THEN entries'[i] = Unused
                        ELSE \/ entries'[i] = entries[i]
                             \/ i \in found /\ entries'[i] = [entries[i] EXCEPT !.access = clock]
      OBVIOUS
    <3>1. entries'[i] = CASE i \in dead -> Unused
                          [] i \in found \ dead -> [entries[i] EXCEPT !.access = clock]
                          [] OTHER -> entries[i]
      BY <2>1, Zenon
    <3>2. CASE i \in dead
      BY <3>1, <3>2
    <3>3. CASE i \in found \ dead
      BY <3>1, <3>3
    <3>4. CASE i \notin dead /\ i \notin found
      BY <3>1, <3>4
    <3> QED  BY <3>2, <3>3, <3>4
  <2>5. \A i \in found : LET e == [entries[i] EXCEPT !.access = clock]
                         IN  e.used /\ e.value = entries[i].value
    BY <2>2, <2>3 DEF Entry
  <2>6. InUse' = InUse \ dead
    <3>0. Unused.used = FALSE
      BY DEF Unused
    <3>1. ASSUME NEW i \in Place PROVE entries'[i].used <=> entries[i].used /\ i \notin dead
      <4>1. CASE i \in dead
        BY <2>4, <3>0, <4>1
      <4>2. CASE i \notin dead /\ entries'[i] = entries[i]
        BY <4>2
      <4>3. CASE i \in found /\ i \notin dead /\ entries'[i] = [entries[i] EXCEPT !.access = clock]
        BY <2>2, <2>3, <2>5, <4>3
      <4> QED  BY <2>4, <4>1, <4>2, <4>3
    <3>2. InUse' = {i \in Place : entries'[i].used} /\ InUse = {i \in Place : entries[i].used}
      BY DEF InUse
    <3>3. \A i : i \in InUse' <=> i \in InUse \ dead
      BY <3>1, <3>2
    <3> QED  BY <3>3
  <2>7. \A i \in InUse' : entries'[i].value = entries[i].value
    BY <2>2, <2>3, <2>4, <2>5, <2>6
  <2> QED  BY <1>0, <2>1, <2>2, <2>6, <2>7, DropCounted
<1>8. CASE \E K : CacheDelete(K)
  <2>1. PICK K : CacheDelete(K)
    BY <1>8
  <2>2. {i \in InUse : entries[i].key \in K} \in SUBSET InUse
    OBVIOUS
  <2> QED  BY <1>2, <2>1, <2>2 DEF CacheDelete
<1>9. CASE CacheClear
  <2>1. InUse' = {} /\ total' = 0
    BY <1>9 DEF CacheClear, InUse, Unused
  <2>2. Sums(Bytes(InUse)', Weights(entries', {}))
    BY <1>0, <2>1, UsedSumNext
  <2>3. Bytes(InUse)' = 0
    BY <2>2, NothingSums
  <2> QED  BY <1>0, <2>1, <2>3, CacheAssumption DEF BytesInv, BytesCounted
<1>10. CASE CacheTick \/ UNCHANGED cacheVars
  BY <1>1, <1>10 DEF CacheTick, cacheVars
<1> QED
  BY <1>3, <1>4, <1>5, <1>6, <1>7, <1>8, <1>9, <1>10 DEF CacheNext

LEMMA BytesInvInit == CacheInit => BytesInv
<1> SUFFICES ASSUME CacheInit PROVE BytesInv
  OBVIOUS
<1>1. CacheInv /\ InUse = {} /\ total = 0
  BY CacheInvInit DEF CacheInit, InUse, Unused
<1>2. Sums(Bytes({}), Weights(entries, {}))
  BY <1>1, UsedSum
<1>3. Bytes({}) = 0
  BY <1>2, NothingSums
<1> QED  BY <1>1, <1>3, CacheAssumption DEF BytesInv, BytesCounted

\* The bytes the cache has counted are those of its entries, and within its limit, however entries
\* come and go: put over, evicted, run out, deleted with others of their group (cache_store.c).
THEOREM BytesHold == CacheSpec => [](BytesCounted /\ total \in 0 .. CacheTotal)
<1>1. BytesInv => BytesCounted /\ total \in 0 .. CacheTotal
  BY DEF BytesInv
<1> QED  BY <1>1, BytesInvInit, BytesInvStep, PTL DEF CacheSpec
-----------------------------------------------------------------------------
(* The cache as a map. *)

\* The places that answer for k at time now, in the table e.
Answering(e, now, k) == {i \in Place : e[i].used /\ e[i].key = k /\ now < e[i].expires}

\* What the users of the cache may count on, as CacheMap has it.
Showing == [k \in CacheKey |-> LET I == {i \in Find(k) : Alive(i)}
                            IN  IF I = {} THEN NoValue ELSE entries[CHOOSE i \in I : TRUE].value]

\* A table in which no key is twice.
Table(e) == /\ e \in [Place -> Entry \cup {Unused}]
            /\ \A i, j \in Place : e[i].used /\ e[j].used /\ e[i].key = e[j].key => i = j

\* Such a table and the map K of it at time now.
Shows(K, e, now) ==
    /\ K \in [CacheKey -> CacheValue \cup {NoValue}]
    /\ \A k \in CacheKey : Answering(e, now, k) = {} => K[k] = NoValue
    /\ \A k \in CacheKey : \A i \in Answering(e, now, k) : K[k] = e[i].value

LEMMA ValueShown ==
    ASSUME NEW e, Table(e), NEW now \in Nat, NEW k, NEW I, I = Answering(e, now, k),
           NEW v, v = IF I = {} THEN NoValue ELSE e[CHOOSE i \in I : TRUE].value
    PROVE  /\ v \in CacheValue \cup {NoValue}
           /\ I = {} => v = NoValue
           /\ \A i \in I : v = e[i].value
<1>1. \A i \in I : i \in Place /\ e[i] \in Entry /\ e[i].used /\ e[i].key = k
  BY DEF Answering, Table, Unused
<1>2. CASE I = {}
  BY <1>2
<1>3. CASE I # {}
  <2>1. PICK i \in I : v = e[i].value
    BY <1>3
  <2>2. \A j \in I : j = i
    BY <1>1, <2>1 DEF Table
  <2> QED  BY <1>1, <1>3, <2>1, <2>2 DEF Entry
<1> QED  BY <1>2, <1>3

LEMMA KeptShows == CacheInv => Shows(Showing, entries, clock)
<1> SUFFICES ASSUME CacheInv PROVE Shows(Showing, entries, clock)
  OBVIOUS
<1>1. Table(entries) /\ clock \in Nat
  BY DEF CacheInv, Table, KeyOnce, InUse
<1>2. ASSUME NEW k \in CacheKey PROVE {i \in Find(k) : Alive(i)} = Answering(entries, clock, k)
  <2>1. ASSUME NEW i \in Place, entries[i].used PROVE entries[i].expires \in Nat
    <3>1. entries[i] \in Entry
      BY <1>1, <2>1 DEF Table, Unused
    <3> QED  BY <3>1 DEF Entry
  <2>2. ASSUME NEW i \in Place, entries[i].used
        PROVE  Alive(i) <=> clock < entries[i].expires
    BY <1>1, <2>1, <2>2 DEF Alive, Expired, InUse
  <2> QED  BY <2>2 DEF Answering, Find, InUse
<1>3. ASSUME NEW k \in CacheKey
      PROVE  /\ Showing[k] \in CacheValue \cup {NoValue}
             /\ Answering(entries, clock, k) = {} => Showing[k] = NoValue
             /\ \A i \in Answering(entries, clock, k) : Showing[k] = entries[i].value
  <2> DEFINE I == {i \in Find(k) : Alive(i)}
  <2>1. Showing[k] = IF I = {} THEN NoValue ELSE entries[CHOOSE i \in I : TRUE].value
    BY Zenon DEF Showing
  <2>2. I = Answering(entries, clock, k)
    BY <1>2
  <2> HIDE DEF I
  <2> DEFINE v == Showing[k]
  <2> HIDE DEF v
  <2>3. v = IF I = {} THEN NoValue ELSE entries[CHOOSE i \in I : TRUE].value
    BY <2>1 DEF v
  <2>4. /\ v \in CacheValue \cup {NoValue}
        /\ I = {} => v = NoValue
        /\ \A i \in I : v = entries[i].value
    <3> HIDE DEF I
    <3>1. Table(entries) /\ clock \in Nat
      BY <1>1
    <3> QED  BY <3>1, <2>2, <2>3, ValueShown
  <2> QED  BY <2>2, <2>4 DEF v
<1>4. Showing \in [CacheKey -> CacheValue \cup {NoValue}]
  BY <1>3, Zenon DEF Showing
<1> QED  BY <1>3, <1>4 DEF Shows


LEMMA KeptShowsNext == CacheInv' => Shows(Showing, entries, clock)'
BY KeptShows, PTL

\* The steps of CacheMap, by what they make of the map.
LEMMA Forgets ==
    ASSUME Showing' \in [CacheKey -> CacheValue \cup {NoValue}], UNCHANGED cacheAnswer,
           \A k \in CacheKey : Showing'[k] \in {Showing[k], NoValue}
    PROVE  Promise!Next
<1>1. Promise!Forget
  BY Zenon DEF Promise!Forget, Promise!Lose, Showing
<1> QED  BY <1>1 DEF Promise!Next

LEMMA Puts ==
    ASSUME Showing' \in [CacheKey -> CacheValue \cup {NoValue}], UNCHANGED cacheAnswer,
           NEW k \in CacheKey, NEW v \in CacheValue, Showing'[k] = v,
           \A j \in CacheKey \ {k} : Showing'[j] \in {Showing[j], NoValue}
    PROVE  Promise!Next
<1>1. Promise!Put(k, v)
  BY Zenon DEF Promise!Put, Promise!Lose, Showing
<1> QED  BY <1>1 DEF Promise!Next

LEMMA Gets ==
    ASSUME Showing' \in [CacheKey -> CacheValue \cup {NoValue}],
           NEW k \in CacheKey, cacheAnswer' = <<k, Showing'[k]>>, Showing'[k] \in {Showing[k], NoValue},
           \A j \in CacheKey \ {k} : Showing'[j] = Showing[j]
    PROVE  Promise!Next
<1>1. Promise!Get(k)
  BY Zenon DEF Promise!Get, Promise!Lose, Showing
<1> QED  BY <1>1 DEF Promise!Next

\* What answered for k and no longer does, or still does as before.
Only(k) == \A i \in Answering(entries', clock', k) :
              i \in Answering(entries, clock, k) /\ entries'[i].value = entries[i].value

LEMMA OnlyKept ==
    ASSUME Shows(Showing, entries, clock), Shows(Showing, entries, clock)', NEW k \in CacheKey, Only(k)
    PROVE  Showing'[k] \in {Showing[k], NoValue}
<1>1. CASE Answering(entries', clock', k) = {}
  BY <1>1 DEF Shows
<1>2. CASE Answering(entries', clock', k) # {}
  <2>1. PICK i \in Answering(entries', clock', k) : TRUE
    BY <1>2
  <2>2. Showing'[k] = entries'[i].value /\ Showing[k] = entries[i].value
    BY <2>1 DEF Shows, Only
  <2> QED  BY <2>1, <2>2 DEF Only
<1> QED  BY <1>1, <1>2

LEMMA OnlyForgets ==
    ASSUME CacheInv, CacheInv', \A k \in CacheKey : Only(k), UNCHANGED cacheAnswer
    PROVE  Promise!Next
<1>1. Shows(Showing, entries, clock) /\ Shows(Showing, entries, clock)'
  BY KeptShows, KeptShowsNext
<1>2. Showing' \in [CacheKey -> CacheValue \cup {NoValue}]
  BY <1>1 DEF Shows
<1>3. \A k \in CacheKey : Showing'[k] \in {Showing[k], NoValue}
  BY <1>1, OnlyKept
<1> QED  BY <1>2, <1>3, Forgets

LEMMA FreedForgets ==
    ASSUME CacheInv, CacheInv', NEW I, entries' = Freed(I), UNCHANGED <<clock, cacheAnswer>>
    PROVE  Promise!Next
<1>1. ASSUME NEW k \in CacheKey PROVE Only(k)
  BY DEF Only, Answering, Freed, Unused
<1> QED  BY <1>1, OnlyForgets

\* A put that stores.
LEMMA StoreMaps ==
    ASSUME CacheInv, CacheInv', CachePutStores
    PROVE  Promise!Next
<1> DEFINE p == putting[holder.user]
           e == [used |-> TRUE, key |-> p.key, value |-> p.value, expires |-> p.expires,
                 access |-> p.now]
<1>1. holder.used /\ UNCHANGED <<clock, cacheAnswer>>
  BY DEF CachePutStores
<1>2. (\E I : entries' = Freed(I)) \/ \E i : entries' = [entries EXCEPT ![i] = e]
  BY Zenon DEF CachePutStores
<1>3. CASE \E I : entries' = Freed(I)
  BY <1>1, <1>3, FreedForgets
<1>4. CASE \E i : entries' = [entries EXCEPT ![i] = e]
  <2>1. PICK i : entries' = [entries EXCEPT ![i] = e]
    BY <1>4
  <2>2. p \in Asked
    BY <1>1, HolderPuts
  <2>3. e.key = p.key /\ e.value = p.value /\ p.key \in CacheKey /\ p.value \in CacheValue
    BY <2>2 DEF Asked
  <2>4. Find(p.key) = {}
    BY <1>1 DEF CacheInv, KeyOnce
  <2>5. entries \in [Place -> Entry \cup {Unused}]
    BY DEF CacheInv
  <2> HIDE DEF p, e
  <2>6. \A a \in Place : a # i => entries'[a] = entries[a]
    BY <2>1, <2>5
  <2>7. i \in Place => entries'[i] = e
    BY <2>1, <2>5
  <2>8. ASSUME NEW k \in CacheKey \ {p.key} PROVE Only(k)
    BY <1>1, <2>3, <2>6, <2>7 DEF Only, Answering
  <2>9. ASSUME NEW a \in Answering(entries', clock', p.key) PROVE entries'[a].value = p.value
    <3>1. a \in Place /\ entries'[a].used /\ entries'[a].key = p.key
      BY DEF Answering
    <3>2. a = i
      BY <2>4, <2>6, <3>1 DEF Find, InUse
    <3> QED  BY <2>3, <2>7, <3>1, <3>2
  <2>10. Shows(Showing, entries, clock) /\ Shows(Showing, entries, clock)'
    BY KeptShows, KeptShowsNext
  <2>11. Showing' \in [CacheKey -> CacheValue \cup {NoValue}]
    BY <2>10 DEF Shows
  <2>12. \A k \in CacheKey \ {p.key} : Showing'[k] \in {Showing[k], NoValue}
    BY <2>8, <2>10, OnlyKept
  <2>13. Showing'[p.key] \in {p.value, NoValue}
    BY <2>3, <2>9, <2>10 DEF Shows
  <2>14. CASE Showing'[p.key] = p.value
    BY <1>1, <2>3, <2>11, <2>12, <2>14, Puts
  <2>15. CASE Showing'[p.key] = NoValue
    <3>1. \A k \in CacheKey : Showing'[k] \in {Showing[k], NoValue}
      BY <2>12, <2>15
    <3> QED  BY <1>1, <2>11, <3>1, Forgets
  <2> QED  BY <2>13, <2>14, <2>15
<1> QED  BY <1>2, <1>3, <1>4

\* A get answers with what the map has, or with a miss where it has lost the key.
LEMMA GetMaps ==
    ASSUME CacheInv, CacheInv', NEW k \in CacheKey, CacheGet(k)
    PROVE  Promise!Next
<1> DEFINE found == Find(k)
           dead == found \cap Expired(clock)
<1>1. /\ UNCHANGED clock
      /\ entries' = [i \in Place |-> CASE i \in dead -> Unused
                                       [] i \in found \ dead -> [entries[i] EXCEPT !.access = clock]
                                       [] OTHER -> entries[i]]
      /\ cacheAnswer' = <<k, IF found \ dead = {} THEN NoValue
                             ELSE entries[CHOOSE i \in found : TRUE].value>>
  BY DEF CacheGet
<1>2. entries \in [Place -> Entry \cup {Unused}] /\ clock \in Nat
  BY DEF CacheInv
<1>3. \A i \in found : i \in Place /\ entries[i] \in Entry /\ entries[i].used /\ entries[i].key = k
  BY <1>2 DEF Find, InUse, Unused
<1>4. \A i, j \in found : i = j
  BY DEF CacheInv, KeyOnce, Find
<1>5. \A i \in found : i \in dead <=> clock >= entries[i].expires
  BY <1>3 DEF Expired, Find
<1>6. \A i \in Place \ found : ~(entries[i].used /\ entries[i].key = k)
  BY DEF Find, InUse
<1> HIDE DEF found, dead
<1>7. \A i \in Place \ found : entries'[i] = entries[i]
  <2> SUFFICES ASSUME NEW i \in Place \ found PROVE entries'[i] = entries[i]
    OBVIOUS
  <2>1. entries'[i] = CASE i \in dead -> Unused
                        [] i \in found \ dead -> [entries[i] EXCEPT !.access = clock]
                        [] OTHER -> entries[i]
    BY <1>1, Zenon
  <2>2. i \notin dead
    BY DEF dead
  <2> QED  BY <2>1, <2>2
<1>8. \A i \in dead : ~entries'[i].used
  <2> SUFFICES ASSUME NEW i \in dead PROVE ~entries'[i].used
    OBVIOUS
  <2>1. i \in Place
    BY <1>3 DEF dead
  <2>2. entries'[i] = CASE i \in dead -> Unused
                        [] i \in found \ dead -> [entries[i] EXCEPT !.access = clock]
                        [] OTHER -> entries[i]
    BY <1>1, <2>1, Zenon
  <2> QED  BY <2>2 DEF Unused
<1>9. \A i \in found \ dead : /\ entries'[i].used /\ entries'[i].key = k
                              /\ entries'[i].value = entries[i].value
                              /\ entries'[i].expires = entries[i].expires
  <2> SUFFICES ASSUME NEW i \in found \ dead
               PROVE  /\ entries'[i].used /\ entries'[i].key = k
                      /\ entries'[i].value = entries[i].value
                      /\ entries'[i].expires = entries[i].expires
    OBVIOUS
  <2>1. i \in Place /\ entries[i] \in Entry /\ entries[i].key = k
    BY <1>3
  <2>2. entries'[i] = CASE i \in dead -> Unused
                        [] i \in found \ dead -> [entries[i] EXCEPT !.access = clock]
                        [] OTHER -> entries[i]
    BY <1>1, <2>1, Zenon
  <2>3. entries'[i] = [entries[i] EXCEPT !.access = clock]
    BY <2>2
  <2> QED  BY <2>1, <2>3 DEF Entry
<1>10. Shows(Showing, entries, clock) /\ Shows(Showing, entries, clock)'
  BY KeptShows, KeptShowsNext
<1>11. ASSUME NEW j \in CacheKey \ {k} PROVE Showing'[j] = Showing[j]
  <2>1. ASSUME NEW i \in Place
        PROVE  \/ entries'[i] = entries[i]
               \/ /\ entries[i].used => entries[i].key = k
                  /\ entries'[i].used => entries'[i].key = k
    BY <1>3, <1>7, <1>8, <1>9
  <2>2. Answering(entries', clock', j) = Answering(entries, clock, j)
    BY <1>1, <2>1 DEF Answering
  <2>3. \A i \in Answering(entries, clock, j) : entries'[i] = entries[i]
    BY <2>1 DEF Answering
  <2> QED  BY <1>10, <2>2, <2>3 DEF Shows
<1>12. Only(k)
  <2> SUFFICES ASSUME NEW i \in Answering(entries', clock', k)
               PROVE  i \in Answering(entries, clock, k) /\ entries'[i].value = entries[i].value
    BY DEF Only
  <2>1. i \in Place /\ entries'[i].used /\ entries'[i].key = k /\ clock < entries'[i].expires
    BY <1>1 DEF Answering
  <2>2. i \in found \ dead
    BY <1>6, <1>7, <1>8, <2>1
  <2> QED  BY <1>3, <1>9, <2>1, <2>2 DEF Answering
<1>13. Showing'[k] = IF found \ dead = {} THEN NoValue ELSE entries[CHOOSE i \in found : TRUE].value
  <2>1. CASE found \ dead = {}
    <3>1. Answering(entries', clock', k) = {}
      BY <1>6, <1>7, <1>8, <2>1 DEF Answering
    <3> QED  BY <1>10, <2>1, <3>1 DEF Shows
  <2>2. CASE found \ dead # {}
    <3>1. PICK i \in found \ dead : TRUE
      BY <2>2
    <3>2. (CHOOSE h \in found : TRUE) = i
      BY <1>4, <3>1
    <3>3. entries[i].expires \in Nat
      BY <1>3, <3>1 DEF Entry
    <3>4. i \in Answering(entries', clock', k)
      BY <1>1, <1>2, <1>3, <1>5, <1>9, <3>1, <3>3 DEF Answering
    <3>5. Showing'[k] = entries'[i].value
      BY <1>10, <3>4 DEF Shows
    <3> QED  BY <1>9, <2>2, <3>1, <3>2, <3>5
  <2> QED  BY <2>1, <2>2
<1>14. Showing'[k] \in {Showing[k], NoValue}
  BY <1>10, <1>12, OnlyKept
<1>15. Showing' \in [CacheKey -> CacheValue \cup {NoValue}]
  BY <1>10 DEF Shows
<1>16. cacheAnswer' = <<k, Showing'[k]>>
  BY <1>1, <1>13
<1> QED  BY <1>11, <1>14, <1>15, <1>16, Gets

LEMMA CacheMaps ==
    CacheInv /\ CacheInv' /\ [CacheNext]_cacheVars => [Promise!Next]_<<Showing, cacheAnswer>>
<1> SUFFICES ASSUME CacheInv, CacheInv', [CacheNext]_cacheVars
             PROVE  [Promise!Next]_<<Showing, cacheAnswer>>
  OBVIOUS
<1>1. CASE UNCHANGED <<entries, clock, cacheAnswer>>
  <2>1. \A k \in CacheKey : Only(k)
    BY <1>1 DEF Only
  <2> QED  BY <1>1, <2>1, OnlyForgets
<1>2. ASSUME NEW I, entries' = Freed(I), UNCHANGED <<clock, cacheAnswer>>
      PROVE  Promise!Next
  BY <1>2, FreedForgets
<1>3. CASE \E c \in CacheUser, k \in CacheKey, v \in CacheValue, ttl \in CacheTtl :
              CachePutAsked(c, k, v, ttl)
  BY <1>1, <1>3 DEF CachePutAsked
<1>4. CASE \E c \in CacheUser : CachePutLocks(c)
  BY <1>2, <1>4 DEF CachePutLocks
<1>5. CASE CachePutEvicts
  BY <1>2, <1>5 DEF CachePutEvicts
<1>6. CASE CachePutStores
  BY <1>6, StoreMaps
<1>7. CASE \E k \in CacheKey : CacheGet(k)
  BY <1>7, GetMaps
<1>8. CASE \E K : CacheDelete(K)
  BY <1>2, <1>8 DEF CacheDelete
<1>9. CASE CacheClear
  <2>1. entries' = Freed(Place) /\ UNCHANGED <<clock, cacheAnswer>>
    BY <1>9 DEF CacheClear, Freed
  <2> QED  BY <1>2, <2>1
<1>10. CASE CacheTick
  <2>1. clock \in Nat /\ clock' = clock + 1 /\ UNCHANGED <<entries, cacheAnswer>>
    BY <1>10 DEF CacheTick, CacheInv
  <2>2. ASSUME NEW k \in CacheKey PROVE Only(k)
    <3>1. ASSUME NEW i \in Place, entries[i].used PROVE entries[i].expires \in Nat
      <4>1. entries[i] \in Entry
        BY <3>1 DEF CacheInv, Unused
      <4> QED  BY <4>1 DEF Entry
    <3> QED  BY <2>1, <3>1 DEF Only, Answering
  <2> QED  BY <2>1, <2>2, OnlyForgets
<1>11. CASE UNCHANGED cacheVars
  BY <1>1, <1>11 DEF cacheVars
<1> QED
  BY <1>3, <1>4, <1>5, <1>6, <1>7, <1>8, <1>9, <1>10, <1>11 DEF CacheNext

LEMMA KeptInit == CacheInit => Promise!Init
<1> SUFFICES ASSUME CacheInit PROVE Promise!Init
  OBVIOUS
<1>1. ASSUME NEW k PROVE {i \in Find(k) : Alive(i)} = {}
  BY DEF CacheInit, Find, InUse, Unused
<1>2. cacheAnswer = NoValue
  BY DEF CacheInit
<1>3. Showing = [k \in CacheKey |-> NoValue]
  BY <1>1 DEF Showing
<1> QED  BY <1>2, <1>3, Zenon DEF Promise!Init, Showing

\* Whatever the interleaving of the tasks, the table with its times to live and its evictions is a
\* map that forgets: what cache_get answers is what was put last under that key, or a miss, for
\* any number of tasks, keys, values and places (cache_store.c).
THEOREM CacheKeepsMap == CacheSpec => CacheIsMap
<1>1. CacheSpec => []CacheInv
  BY CacheInvInit, CacheInvStep, PTL DEF CacheSpec
<1>2. CacheInv /\ CacheInv' /\ [CacheNext]_cacheVars => [Promise!Next]_<<Showing, cacheAnswer>>
  BY CacheMaps
<1> QED  BY <1>1, <1>2, KeptInit, PTL DEF CacheSpec, CacheIsMap, Promise!Spec, Showing

-----------------------------------------------------------------------------
(* Settings. *)

\* What one key may hold, and a sequence of keys with their values to write.
OneKey == [key : SetKey, value : Known \cup {Missing}]

\* A command or a form under way.
Request == [pc : {"write"}, all : Seq(OneKey), todo : Seq(OneKey),
            kind : {"set", "reset", "form"}, live : BOOLEAN]

\* No key is written twice.
KeysApart(s) == \A i, j \in 1 .. Len(s) : s[i].key = s[j].key => i = j

\* What is written so far of what w has to write is stored, unless the other came between.
WriterRight(w) ==
    LET r == writer[w]
        n == Len(r.all) - Len(r.todo)
    IN  /\ r \in Request
        /\ KeysApart(r.all) /\ Len(r.all) > 0 /\ n >= 0
        /\ \A i \in 1 .. Len(r.todo) : r.todo[i] = r.all[n + i]
        /\ r.kind = "form" <=> w = "portal"
        /\ n > 0 => ~pristine
        /\ ~crossed => \A i \in 1 .. n : stored[r.all[i].key] = Stored(r.all[i].value, r.kind)
        /\ \A i \in 1 .. Len(r.all) : /\ wanted[r.all[i].key] = {}
                                      /\ r.all[i].key = "amap" => r.all[i].value # Empty

\* The inductive invariant.
SetInv ==
    /\ SettingsTypeOK
    /\ DOMAIN writer = Writer
    /\ \A w \in Writer : Busy(w) => WriterRight(w)
    /\ Busy("console") /\ Busy("portal") => crossed
    /\ stored["amap"] # Empty
    /\ \A k \in SetKey : \A v \in wanted[k] : stored[k] = v
    /\ pristine => inUse = Used(stored)

\* A host is stored that the proxy can read.
HostIs(st) == Legible(st, "host") /\ st["host"] # Empty

\* What a key that is stored legibly and not empty is used as, and what takes its place.
LEMMA UsedAt ==
    ASSUME NEW st, NEW k \in SetKey
    PROVE  Used(st)[k] =
             CASE k \in {"ssid", "password"} /\ ~Legible(st, "ssid") -> Preset(k)
               [] k \in {"ssid", "password"} /\ Legible(st, "ssid") /\ Legible(st, k) -> st[k]
               [] k \in {"ssid", "password"} /\ Legible(st, "ssid") /\ ~Legible(st, k) -> Empty
               [] k \in {"host", "port"} /\ HostIs(st) -> OrPreset(st, k)
               [] k \in {"host", "port"} /\ ~HostIs(st) -> Preset(k)
               [] k = "amap" /\ Legible(st, k) -> st[k]
               [] k = "amap" /\ ~Legible(st, k) -> Preset(k)
               [] OTHER -> OrPreset(st, k)
<1>1. CASE k \in {"ssid", "password"}
  <2>1. Used(st)[k] = WifiUsed(st)[k]
    BY <1>1 DEF Used
  <2> QED  BY <1>1, <2>1 DEF WifiUsed
<1>2. CASE k \in {"host", "port"}
  <2>1. Used(st)[k] = ProxyUsed(st)[k]
    BY <1>2 DEF Used
  <2> QED  BY <1>2, <2>1 DEF ProxyUsed, HostIs
<1>3. CASE k \in {"api_key", "model"}
  <2>1. Used(st)[k] = LlmUsed(st)[k]
    BY <1>3 DEF Used
  <2> QED  BY <1>3, <2>1 DEF LlmUsed
<1>4. CASE k = "app_id"
  <2>1. Used(st)[k] = FeishuUsed(st)[k]
    BY <1>4 DEF Used
  <2> QED  BY <1>4, <2>1 DEF FeishuUsed
<1>5. CASE k = "tavily"
  <2>1. Used(st)[k] = SearchUsed(st)[k]
    BY <1>5 DEF Used
  <2> QED  BY <1>5, <2>1 DEF SearchUsed
<1>6. CASE k = "amap"
  <2>1. Used(st)[k] = AmapUsed(st)[k]
    BY <1>6 DEF Used
  <2> QED  BY <1>6, <2>1 DEF AmapUsed
<1> QED  BY <1>1, <1>2, <1>3, <1>4, <1>5, <1>6 DEF SetKey

LEMMA PresetKnown == \A k \in SetKey : Preset(k) \in Known
<1>1. Empty \in Known
  BY DEF Known, Written
<1> QED  BY <1>1 DEF Known, Preset

LEMMA UsedKnown ==
    ASSUME NEW st \in [SetKey -> Known \cup {Missing}]
    PROVE  Used(st) \in [SetKey -> Known]
<1>2. Empty \in Known
  BY DEF Known, Written
<1>1. \A k \in SetKey : Preset(k) \in Known
  BY PresetKnown
<1>3. \A k \in SetKey : Legible(st, k) => st[k] \in Known
  BY DEF Legible
<1>4. \A k \in SetKey : OrPreset(st, k) \in Known
  BY <1>1, <1>3 DEF OrPreset
<1>5. \A k \in SetKey : Used(st)[k] \in Known
  BY <1>1, <1>2, <1>3, <1>4, UsedAt DEF SetKey
<1> QED  BY <1>5, Zenon DEF Used

\* SetSurvives, of what a board that has just booted uses.
LEMMA UsedShows ==
    ASSUME NEW st \in [SetKey -> Known \cup {Missing}], NEW k \in SetKey
    PROVE  \/ st[k] \notin {Missing, Empty} /\ Used(st)[k] = st[k]
           \/ st[k] \in {Missing, Empty} /\ Used(st)[k] = Preset(k)
           \/ {<<k, st[k]>>, <<Lead(k), st[Lead(k)]>>} \cap TooLong # {}
           \/ st[Lead(k)] \in {Missing, Empty} /\ k \in {"ssid", "password", "port"}
           \/ st[k] \in {Missing, Empty} /\ k = "password"
           \/ st[k] = Empty /\ k = "amap"
<1>2. \A j \in SetKey : <<j, Empty>> \notin TooLong
  BY SettingsAssumption
<1>3. CASE k \in {"ssid", "password"}
  BY <1>2, <1>3, UsedAt DEF Lead, Legible, SetKey
<1>4. CASE k \in {"host", "port"}
  <2>1. Lead(k) = "host" /\ "host" \in SetKey
    BY <1>4 DEF Lead, SetKey
  <2>2. Used(st)[k] = IF HostIs(st) THEN OrPreset(st, k) ELSE Preset(k)
    BY <1>4, UsedAt DEF SetKey
  <2>3. CASE HostIs(st)
    BY <2>1, <2>2, <2>3 DEF Legible, OrPreset
  <2>4. CASE ~HostIs(st)
    BY <1>4, <2>1, <2>2, <2>4 DEF Legible, HostIs
  <2> QED  BY <2>3, <2>4
<1>5. CASE k = "amap"
  BY <1>2, <1>5, UsedAt DEF Lead, Legible
<1>6. CASE k \in {"api_key", "model", "app_id", "tavily"}
  <2>1. Used(st)[k] = OrPreset(st, k)
    BY <1>6, UsedAt
  <2> QED  BY <1>2, <2>1 DEF Legible, OrPreset
<1> QED  BY <1>3, <1>4, <1>5, <1>6 DEF SetKey

LEMMA UsedIsStored ==
    ASSUME NEW st \in [SetKey -> Known \cup {Missing}], NEW k \in SetKey,
           st[Lead(k)] \notin {Missing, Empty}, <<Lead(k), st[Lead(k)]>> \notin TooLong
    PROVE  /\ st[k] \in SetText /\ <<k, st[k]>> \notin TooLong => Used(st)[k] = st[k]
           /\ st[k] \in {Empty, Missing} /\ Lead(k) # "ssid" /\ ~(k = "amap" /\ st[k] = Empty)
              => Used(st)[k] = Preset(k)
<1>2. Missing \notin SetText /\ Empty \notin SetText /\ \A j \in SetKey : <<j, Empty>> \notin TooLong
  BY SettingsAssumption
<1>3. CASE k \in {"ssid", "password"}
  BY <1>2, <1>3, UsedAt DEF Lead, Legible, SetKey
<1>4. CASE k \in {"host", "port"}
  <2>1. Lead(k) = "host" /\ "host" \in SetKey
    BY <1>4 DEF Lead, SetKey
  <2>2. HostIs(st)
    BY <2>1 DEF HostIs, Legible
  <2>3. Used(st)[k] = OrPreset(st, k)
    BY <1>4, <2>2, UsedAt DEF SetKey
  <2> QED  BY <1>2, <2>3 DEF Legible, OrPreset
<1>5. CASE k = "amap"
  BY <1>2, <1>5, UsedAt DEF Lead, Legible
<1>6. CASE k \in {"api_key", "model", "app_id", "tavily"}
  <2>1. Used(st)[k] = OrPreset(st, k)
    BY <1>6, UsedAt
  <2> QED  BY <1>2, <2>1 DEF Legible, OrPreset
<1> QED  BY <1>3, <1>4, <1>5, <1>6 DEF SetKey

LEMMA SetInvShows == SetInv => SetSurvives
<1> SUFFICES ASSUME SetInv PROVE SetSurvives
  OBVIOUS
<1>1. stored \in [SetKey -> Known \cup {Missing}] /\ stored["amap"] # Empty
  BY DEF SetInv, SettingsTypeOK
<1>2. pristine => inUse = Used(stored)
  BY DEF SetInv
<1>3. pristine => ShownIsUsed
  <2> SUFFICES ASSUME pristine, NEW k \in SetKey \ {"app_id"}
               PROVE  \/ inUse[k] = DisplayedAs(k)
                      \/ {<<k, stored[k]>>, <<Lead(k), stored[Lead(k)]>>} \cap TooLong # {}
                      \/ <<k, stored[k]>> \in NotShown
                      \/ stored[k] \in {Missing, Empty} /\ Preset(k) # Build[k]
                      \/ stored[Lead(k)] \in {Missing, Empty} /\ k \in {"ssid", "password", "port"}
                      \/ stored[k] \in {Missing, Empty} /\ k = "password"
    BY DEF ShownIsUsed
  <2> QED  BY <1>1, <1>2, UsedShows DEF DisplayedAs
<1>4. ASSUME NEW k \in SetKey, NEW v \in wanted[k], pristine,
             stored[Lead(k)] \notin {Missing, Empty}, <<Lead(k), stored[Lead(k)]>> \notin TooLong
      PROVE  CASE v \in SetText /\ <<k, v>> \notin TooLong -> inUse[k] = v
               [] v \in {Empty, Missing} /\ Lead(k) # "ssid" -> inUse[k] = Preset(k)
               [] OTHER -> TRUE
  <2>1. stored[k] = v
    BY DEF SetInv
  <2>2. /\ v \in SetText /\ <<k, v>> \notin TooLong => inUse[k] = v
        /\ v \in {Empty, Missing} /\ Lead(k) # "ssid" => inUse[k] = Preset(k)
    BY <1>1, <1>2, <1>4, <2>1, UsedIsStored
  <2>3. ~(v \in SetText /\ v \in {Empty, Missing})
    BY SettingsAssumption
  <2> QED  BY <2>2, <2>3
<1> QED  BY <1>3, <1>4 DEF SetSurvives

LEMMA SetInvInit == SettingsInit => SetInv
<1> SUFFICES ASSUME SettingsInit PROVE SetInv
  OBVIOUS
<1>1. \A k \in SetKey : Preset(k) \in Known
  BY PresetKnown
<1>2. SettingsTypeOK
  <2>1. inUse \in [SetKey -> Known]
    BY <1>1 DEF SettingsInit
  <2>2. stored \in [SetKey -> Known \cup {Missing}] /\ wanted \in [SetKey -> SUBSET (Known \cup {Missing})]
    BY DEF SettingsInit
  <2>3. crossed = FALSE /\ pristine = TRUE /\ commands \in 0 .. MaxCommands /\ resets \in 0 .. MaxResets
    BY SettingsAssumption DEF SettingsInit
  <2> QED  BY <2>1, <2>2, <2>3 DEF SettingsTypeOK
<1>3. \A w \in Writer : ~Busy(w)
  BY DEF SettingsInit, Busy
<1>4. stored["amap"] # Empty /\ \A k \in SetKey : stored[k] = Missing /\ wanted[k] = {}
  BY DEF SettingsInit, SetKey, Missing, Empty
<1>5. inUse = Used(stored)
  <2>1. \A k \in SetKey : ~Legible(stored, k) /\ OrPreset(stored, k) = Preset(k)
    BY <1>4 DEF Legible, OrPreset
  <2>2. \A k \in SetKey : Used(stored)[k] = Preset(k)
    BY <1>1, <1>4, <2>1, UsedAt DEF SetKey
  <2>3. Used(stored) \in [SetKey -> Known]
    BY <1>2, UsedKnown DEF SettingsTypeOK
  <2> QED  BY <2>2, <2>3 DEF SettingsInit
<1> QED  BY <1>2, <1>3, <1>4, <1>5 DEF SetInv, SettingsInit, Writer

-----------------------------------------------------------------------------
(* A command or form begins. *)

\* What may be written: each key once, and no empty key for the weather service.
ToWrite(todo) == /\ todo \in Seq(OneKey) /\ Len(todo) > 0 /\ KeysApart(todo)
                 /\ \A i \in 1 .. Len(todo) : todo[i].key = "amap" => todo[i].value # Empty

LEMMA TodoOf ==
    ASSUME NEW n \in Nat \ {0}, NEW keys \in [1 .. n -> SetKey],
           \A i, j \in 1 .. n : keys[i] = keys[j] => i = j,
           NEW todo, DOMAIN todo = 1 .. n, todo \in [1 .. n -> OneKey],
           \A i \in 1 .. n : todo[i].key = keys[i] /\ (keys[i] = "amap" => todo[i].value # Empty)
    PROVE  ToWrite(todo)
<1>1. todo \in Seq(OneKey)
  BY SeqDef
<1>2. Len(todo) = n
  BY <1>1, LenProperties
<1> QED  BY <1>1, <1>2 DEF ToWrite, KeysApart

LEMMA AlikeOf ==
    ASSUME NEW n \in Nat \ {0}, NEW keys \in [1 .. n -> SetKey],
           \A i, j \in 1 .. n : keys[i] = keys[j] => i = j,
           NEW value \in Known \cup {Missing}, \A i \in 1 .. n : keys[i] = "amap" => value # Empty
    PROVE  ToWrite(Alike(keys, value))
<1> DEFINE todo == Alike(keys, value)
<1>1. DOMAIN todo = 1 .. n /\ \A i \in 1 .. n : todo[i] = [key |-> keys[i], value |-> value]
  BY DEF Alike
<1>2. todo \in [1 .. n -> OneKey]
  BY DEF Alike, OneKey
<1>3. \A i \in 1 .. n : todo[i].key = keys[i] /\ (keys[i] = "amap" => todo[i].value # Empty)
  BY <1>1
<1> HIDE DEF todo
<1> QED  BY <1>1, <1>2, <1>3, TodoOf DEF todo

LEMMA BeginsRight ==
    ASSUME SetInv, NEW w \in Writer, NEW todo, ToWrite(todo),
           NEW kind \in {"set", "reset", "form"}, kind = "form" <=> w = "portal",
           NEW live \in BOOLEAN, Begins(w, todo, kind, live)
    PROVE  SetInv'
<1> DEFINE r == [pc |-> "write", all |-> todo, todo |-> todo, kind |-> kind, live |-> live]
<1>1. /\ ~Busy(w) /\ commands < MaxCommands /\ commands' = commands + 1
      /\ writer' = [writer EXCEPT ![w] = r]
      /\ crossed' = (\E o \in Others(w) : Busy(o))
      /\ wanted' = [k \in SetKey |-> IF k \in KeysOf(todo) THEN {} ELSE wanted[k]]
      /\ UNCHANGED <<stored, inUse, pristine, resets>>
  BY DEF Begins
<1>2. SettingsTypeOK /\ DOMAIN writer = Writer
  BY DEF SetInv
<1>3. todo \in Seq(OneKey) /\ Len(todo) \in Nat \ {0} /\ DOMAIN todo = 1 .. Len(todo)
  BY LenProperties DEF ToWrite
<1>4. \A k \in SetKey : wanted'[k] \subseteq wanted[k]
  BY <1>1
<1>5. SettingsTypeOK'
  <2>1. crossed' \in BOOLEAN
    BY <1>1
  <2>2. commands' \in 0 .. MaxCommands
    BY <1>1, <1>2, SettingsAssumption DEF SettingsTypeOK
  <2>3. wanted' \in [SetKey -> SUBSET (Known \cup {Missing})]
    BY <1>1, <1>2 DEF SettingsTypeOK
  <2> QED  BY <1>1, <1>2, <2>1, <2>2, <2>3 DEF SettingsTypeOK
<1>6. r \in Request /\ r # Idle /\ r.all = todo /\ r.todo = todo /\ r.kind = kind
  BY <1>3 DEF Request, Idle
<1> HIDE DEF r
<1>7. writer'[w] = r /\ DOMAIN writer' = Writer /\ \A o \in Others(w) : writer'[o] = writer[o]
  BY <1>1, <1>2 DEF Others
<1>8. WriterRight(w)'
  <2>1. \A i \in 1 .. Len(todo) : todo[i].key \in SetKey /\ wanted'[todo[i].key] = {}
    <3>1. \A i \in 1 .. Len(todo) : todo[i] \in OneKey
      BY <1>3, ElementOfSeq
    <3>2. \A i \in 1 .. Len(todo) : todo[i].key \in SetKey /\ todo[i].key \in KeysOf(todo)
      BY <1>3, <3>1 DEF OneKey, KeysOf
    <3> QED  BY <1>1, <3>2
  <2>2. Len(todo) - Len(todo) = 0 /\ \A i \in 1 .. Len(todo) : 0 + i = i
    BY <1>3
  <2>3. KeysApart(todo) /\ Len(todo) > 0 /\ (kind = "form" <=> w = "portal")
        /\ \A i \in 1 .. Len(todo) : todo[i].key = "amap" => todo[i].value # Empty
    BY DEF ToWrite
  <2>4. ASSUME NEW x, x = r
        PROVE  LET n == Len(x.all) - Len(x.todo)
               IN  /\ x \in Request
                   /\ KeysApart(x.all) /\ Len(x.all) > 0 /\ n >= 0
                   /\ \A i \in 1 .. Len(x.todo) : x.todo[i] = x.all[n + i]
                   /\ x.kind = "form" <=> w = "portal"
                   /\ n > 0 => ~pristine'
                   /\ ~crossed' => \A i \in 1 .. n : stored'[x.all[i].key] = Stored(x.all[i].value, x.kind)
                   /\ \A i \in 1 .. Len(x.all) : /\ wanted'[x.all[i].key] = {}
                                                 /\ x.all[i].key = "amap" => x.all[i].value # Empty
    <3>1. x.all = todo /\ x.todo = todo /\ x.kind = kind /\ x \in Request
      BY <1>6, <2>4
    <3>2. \A i \in 1 .. 0 : FALSE
      OBVIOUS
    <3> QED  BY <1>3, <2>1, <2>2, <2>3, <3>1, <3>2
  <2> QED  BY <1>7, <2>4, Zenon DEF WriterRight
<1>9. ASSUME NEW o \in Others(w), Busy(o)' PROVE WriterRight(o)'
  <2>1. o \in Writer /\ Busy(o) /\ writer'[o] = writer[o] /\ crossed'
    BY <1>1, <1>7, <1>9 DEF Others, Busy
  <2>2. WriterRight(o)
    BY <2>1 DEF SetInv
  <2>3. \A i \in 1 .. Len(writer[o].all) :
           writer[o].all[i].key \in SetKey /\ wanted'[writer[o].all[i].key] = {}
    <3>1. writer[o].all \in Seq(OneKey)
      BY <2>2 DEF WriterRight, Request
    <3>2. \A i \in 1 .. Len(writer[o].all) : writer[o].all[i].key \in SetKey
      <4>1. \A i \in 1 .. Len(writer[o].all) : writer[o].all[i] \in OneKey
        BY <3>1, ElementOfSeq
      <4> QED  BY <4>1 DEF OneKey
    <3> QED  BY <1>4, <2>2, <3>2 DEF WriterRight
  <2> QED  BY <1>1, <2>1, <2>2, <2>3 DEF WriterRight
<1>10. Busy("console")' /\ Busy("portal")' => crossed'
  BY <1>1, <1>7 DEF Busy, Others, Writer
<1>11. \A k \in SetKey : \A v \in wanted'[k] : stored'[k] = v
  BY <1>1, <1>4 DEF SetInv
<1>12. \A o \in Writer : Busy(o)' => WriterRight(o)'
  BY <1>8, <1>9 DEF Others
<1>13. stored'["amap"] # Empty /\ (pristine' => inUse' = Used(stored'))
  BY <1>1 DEF SetInv
<1> QED  BY <1>5, <1>7, <1>10, <1>11, <1>12, <1>13 DEF SetInv

LEMMA KnownValues == /\ \A v \in Written : v \in Known /\ v # Missing
                     /\ \A k \in SetKey : Build[k] \in Known
                     /\ Empty \in Written
BY SettingsAssumption DEF Known, Written, Empty, Missing

LEMMA ConsoleBegins ==
    ASSUME SetInv,
           \/ \E v \in Written : ConsoleSets(v)
           \/ ProxyClear
           \/ ConfigReset
    PROVE  SetInv'
<1>1. "console" \in Writer /\ "console" # "portal" /\ Missing # Empty
  BY DEF Writer, Missing, Empty
<1>2. ASSUME NEW todo, ToWrite(todo), NEW live \in BOOLEAN,
             Begins("console", todo, "set", live) \/ Begins("console", todo, "reset", live)
      PROVE  SetInv'
  BY <1>1, <1>2, BeginsRight
<1>3. ASSUME NEW v \in Known \cup {Missing}
      PROVE  /\ ToWrite(Alike(<<"ssid", "password">>, v))
             /\ ToWrite(Alike(<<"host", "port">>, v))
  <2>1. /\ <<"ssid", "password">> \in [1 .. 2 -> SetKey]
        /\ <<"host", "port">> \in [1 .. 2 -> SetKey]
    BY DEF SetKey
  <2>2. ASSUME NEW keys \in {<<"ssid", "password">>, <<"host", "port">>}
        PROVE  /\ \A i, j \in 1 .. 2 : keys[i] = keys[j] => i = j
               /\ \A i \in 1 .. 2 : keys[i] # "amap"
    OBVIOUS
  <2>3. ASSUME NEW keys \in {<<"ssid", "password">>, <<"host", "port">>} PROVE ToWrite(Alike(keys, v))
    <3>1. 2 \in Nat \ {0} /\ v \in Known \cup {Missing} /\ keys \in [1 .. 2 -> SetKey]
          /\ \A i \in 1 .. 2 : keys[i] = "amap" => v # Empty
      BY <2>1, <2>2
    <3> QED  BY <2>2, <3>1, AlikeOf, Zenon
  <2> QED  BY <2>3
<1>4. ASSUME NEW v \in Known \cup {Missing}, NEW k \in {"api_key", "model", "app_id", "tavily", "amap"},
             k = "amap" => v # Empty
      PROVE  ToWrite(Alike(<<k>>, v))
  <2> DEFINE keys == <<k>>
  <2>1. keys \in [1 .. 1 -> SetKey] /\ keys[1] = k
    BY DEF SetKey
  <2>2. /\ \A i, j \in 1 .. 1 : keys[i] = keys[j] => i = j
        /\ \A i \in 1 .. 1 : keys[i] = "amap" => v # Empty
    BY <1>4, <2>1
  <2> HIDE DEF keys
  <2>3. ToWrite(Alike(keys, v))
    <3>1. 1 \in Nat \ {0} /\ v \in Known \cup {Missing}
      OBVIOUS
    <3> QED  BY <2>1, <2>2, <3>1, AlikeOf, Zenon
  <2> QED  BY <2>3 DEF keys
<1>5. ToWrite(Alike(<<"ssid", "password", "api_key", "model", "host", "port", "tavily", "amap">>, Missing))
  <2> DEFINE keys == <<"ssid", "password", "api_key", "model", "host", "port", "tavily", "amap">>
  <2>1. keys \in [1 .. 8 -> SetKey]
    BY DEF SetKey
  <2>2. \A i, j \in 1 .. 8 : keys[i] = keys[j] => i = j
    OBVIOUS
  <2> HIDE DEF keys
  <2>3. ToWrite(Alike(keys, Missing))
    <3>1. 8 \in Nat \ {0} /\ Missing \in Known \cup {Missing}
          /\ \A i \in 1 .. 8 : keys[i] = "amap" => Missing # Empty
      BY <1>1
    <3> QED  BY <2>1, <2>2, <3>1, AlikeOf, Zenon
  <2> QED  BY <2>3 DEF keys
<1>6. CASE \E v \in Written : ConsoleSets(v)
  <2>1. PICK v \in Written : ConsoleSets(v)
    BY <1>6
  <2>2. v \in Known \cup {Missing}
    BY KnownValues
  <2> QED  BY <1>2, <1>3, <1>4, <2>1, <2>2
      DEF ConsoleSets, WifiSet, LlmSet, FeishuSet, ProxySet, SearchSet, AmapSet, Typed
<1>7. CASE ProxyClear
  BY <1>2, <1>3, <1>7 DEF ProxyClear, Typed
<1>8. CASE ConfigReset
  BY <1>2, <1>5, <1>8 DEF ConfigReset
<1> QED  BY <1>6, <1>7, <1>8

LEMMA FormBegins ==
    ASSUME SetInv, NEW changed, NEW v \in Written, FormSaved(changed, v)
    PROVE  SetInv'
<1> DEFINE todo == [i \in DOMAIN Form |-> [key |-> Form[i],
                      value |-> IF Form[i] \in changed THEN v ELSE InForm(Form[i])]]
<1>1. Form \in [1 .. 8 -> SetKey] /\ DOMAIN Form = 1 .. 8
  BY DEF Form, SetKey
<1>2. /\ \A i, j \in 1 .. 8 : Form[i] = Form[j] => i = j
      /\ \A i \in 1 .. 8 : Form[i] # "amap"
  BY DEF Form
<1>3. \A i \in 1 .. 8 : InForm(Form[i]) \in Known
  BY <1>1, KnownValues DEF InForm, SetInv, SettingsTypeOK
<1>4. \A i \in 1 .. 8 : todo[i] = [key |-> Form[i],
                                   value |-> IF Form[i] \in changed THEN v ELSE InForm(Form[i])]
  BY <1>1
<1>5. v \in Known
  BY KnownValues
<1>6. \A i \in 1 .. 8 : todo[i] \in OneKey /\ todo[i].key = Form[i]
  BY <1>1, <1>3, <1>4, <1>5 DEF OneKey
<1>7. DOMAIN todo = 1 .. 8 /\ todo \in [1 .. 8 -> OneKey]
  BY <1>1, <1>6
<1>8. Begins("portal", todo, "form", FALSE)
  BY DEF FormSaved
<1> HIDE DEF todo
<1>9. ToWrite(todo)
  <2>1. \A i \in 1 .. 8 : todo[i].key = Form[i] /\ (Form[i] = "amap" => todo[i].value # Empty)
    BY <1>2, <1>6
  <2>2. 8 \in Nat \ {0}
    OBVIOUS
  <2> QED  BY <1>1, <1>2, <1>7, <2>1, <2>2, TodoOf, Zenon
<1> QED  BY <1>8, <1>9, BeginsRight DEF Writer

-----------------------------------------------------------------------------
(* Writing, and the ends of commands and forms. *)

\* A writer at work, and what its sequences hold.
LEMMA AtWork ==
    ASSUME SetInv, NEW w \in Writer, Busy(w)
    PROVE  /\ WriterRight(w) /\ writer[w] \in Request
           /\ writer[w].all \in Seq(OneKey) /\ writer[w].todo \in Seq(OneKey)
           /\ Len(writer[w].all) \in Nat /\ Len(writer[w].todo) \in Nat
           /\ DOMAIN writer[w].all = 1 .. Len(writer[w].all)
           /\ \A i \in 1 .. Len(writer[w].all) : writer[w].all[i] \in OneKey
           /\ \A i \in 1 .. Len(writer[w].todo) : writer[w].todo[i] \in OneKey
<1>1. WriterRight(w)
  BY DEF SetInv
<1>2. writer[w] \in Request
  BY <1>1 DEF WriterRight
<1>3. writer[w].all \in Seq(OneKey) /\ writer[w].todo \in Seq(OneKey)
  BY <1>2 DEF Request
<1> QED  BY <1>1, <1>2, <1>3, LenProperties, ElementOfSeq

LEMMA StoredKnown ==
    ASSUME NEW one \in OneKey, NEW kind
    PROVE  /\ Stored(one.value, kind) \in Known \cup {Missing}
           /\ one.value # Empty => Stored(one.value, kind) # Empty
           /\ kind # "form" => Stored(one.value, kind) = one.value
BY DEF Stored, OneKey, Missing, Empty

LEMMA OneLess ==
    ASSUME NEW a \in Nat, NEW b \in Nat, b >= 1, a - b >= 0
    PROVE  a - b \in Nat /\ a - b + 1 \in 1 .. a /\ 1 \in 1 .. b /\ a - (b - 1) = a - b + 1
OBVIOUS

LEMMA WritesOneRight ==
    ASSUME SetInv, NEW w \in Writer, WritesOne(w)
    PROVE  SetInv'
<1> DEFINE r == writer[w]
           n == Len(r.all) - Len(r.todo)
           one == Head(r.todo)
           x == [r EXCEPT !.todo = Tail(@)]
<1>1. /\ Busy(w) /\ r.todo # <<>>
      /\ stored' = [stored EXCEPT ![one.key] = Stored(one.value, r.kind)]
      /\ writer' = [writer EXCEPT ![w] = x]
      /\ pristine' = FALSE
      /\ UNCHANGED <<inUse, crossed, wanted, commands, resets>>
  BY DEF WritesOne
<1>2. SettingsTypeOK /\ DOMAIN writer = Writer
  BY DEF SetInv
<1>3. /\ WriterRight(w) /\ r \in Request
      /\ r.all \in Seq(OneKey) /\ r.todo \in Seq(OneKey)
      /\ Len(r.all) \in Nat /\ Len(r.todo) \in Nat
      /\ \A i \in 1 .. Len(r.all) : r.all[i] \in OneKey
      /\ \A i \in 1 .. Len(r.todo) : r.todo[i] \in OneKey
  BY <1>1, AtWork
<1>4. /\ Len(r.todo) >= 1 /\ one = r.todo[1] /\ Tail(r.todo) \in Seq(OneKey)
      /\ Len(Tail(r.todo)) = Len(r.todo) - 1
      /\ \A i \in 1 .. Len(Tail(r.todo)) : Tail(r.todo)[i] = r.todo[i + 1]
  BY <1>1, <1>3, HeadTailProperties, EmptySeq
<1>5. /\ KeysApart(r.all) /\ Len(r.all) > 0 /\ n >= 0
      /\ \A i \in 1 .. Len(r.todo) : r.todo[i] = r.all[n + i]
      /\ r.kind = "form" <=> w = "portal"
      /\ ~crossed => \A i \in 1 .. n : stored[r.all[i].key] = Stored(r.all[i].value, r.kind)
      /\ \A i \in 1 .. Len(r.all) : /\ wanted[r.all[i].key] = {}
                                    /\ r.all[i].key = "amap" => r.all[i].value # Empty
  BY <1>3 DEF WriterRight
<1>6. n \in Nat /\ n + 1 \in 1 .. Len(r.all) /\ one = r.all[n + 1] /\ one \in OneKey
  <2> HIDE DEF r
  <2>1. n \in Nat /\ n + 1 \in 1 .. Len(r.all) /\ 1 \in 1 .. Len(r.todo)
    BY <1>3, <1>4, <1>5, OneLess
  <2>2. r.todo[1] = r.all[n + 1]
    BY <1>5, <2>1, Zenon
  <2> QED  BY <1>3, <1>4, <2>1, <2>2
<1>7. x \in Request /\ x.all = r.all /\ x.kind = r.kind /\ x.todo = Tail(r.todo) /\ x # Idle
  BY <1>3, <1>4 DEF Request, Idle
<1> HIDE DEF x, one, n
<1>8. Len(x.all) - Len(x.todo) = n + 1
  <2>1. Len(x.todo) = Len(r.todo) - 1 /\ Len(x.all) = Len(r.all)
    BY <1>4, <1>7
  <2> HIDE DEF r
  <2> QED  BY <1>3, <1>4, <1>5, <2>1, OneLess DEF n
<1>9. writer'[w] = x /\ DOMAIN writer' = Writer /\ \A o \in Others(w) : writer'[o] = writer[o]
  BY <1>1, <1>2 DEF Others
<1>10. /\ Stored(one.value, r.kind) \in Known \cup {Missing} /\ one.key \in SetKey
       /\ one.key = "amap" => Stored(one.value, r.kind) # Empty
       /\ wanted[one.key] = {}
  BY <1>5, <1>6, StoredKnown DEF OneKey
<1>11. stored \in [SetKey -> Known \cup {Missing}]
  BY <1>2 DEF SettingsTypeOK
<1>12. /\ stored' \in [SetKey -> Known \cup {Missing}]
       /\ stored'[one.key] = Stored(one.value, r.kind)
       /\ \A k \in SetKey : k # one.key => stored'[k] = stored[k]
  BY <1>1, <1>10, <1>11
<1>13. SettingsTypeOK'
  BY <1>1, <1>2, <1>12 DEF SettingsTypeOK
<1>14. WriterRight(w)'
  <2>1. \A i \in 1 .. Len(x.todo) : x.todo[i] = x.all[n + 1 + i]
    <3> SUFFICES ASSUME NEW i \in 1 .. Len(x.todo) PROVE x.todo[i] = x.all[n + 1 + i]
      OBVIOUS
    <3>1. i + 1 \in 1 .. Len(r.todo) /\ n + (i + 1) = n + 1 + i
      <4>1. Len(x.todo) = Len(r.todo) - 1
        BY <1>4, <1>7
      <4> HIDE DEF r
      <4> QED  BY <1>3, <1>6, <4>1
    <3>2. x.todo[i] = r.todo[i + 1]
      BY <1>4, <1>7
    <3> QED  BY <1>5, <1>7, <3>1, <3>2
  <2>2. ~crossed' => \A i \in 1 .. n + 1 : stored'[x.all[i].key] = Stored(x.all[i].value, x.kind)
    <3> SUFFICES ASSUME ~crossed, NEW i \in 1 .. n + 1
                 PROVE  stored'[x.all[i].key] = Stored(x.all[i].value, x.kind)
      BY <1>1
    <3>1. CASE i = n + 1
      BY <1>6, <1>7, <1>12, <3>1
    <3>2. CASE i \in 1 .. n
      <4>1. i \in 1 .. Len(r.all) /\ i # n + 1
        BY <1>3, <1>6, <3>2
      <4>2. r.all[i].key # one.key /\ r.all[i].key \in SetKey
        BY <1>3, <1>5, <1>6, <4>1 DEF KeysApart, OneKey
      <4> QED  BY <1>5, <1>7, <1>12, <3>2, <4>2
    <3> QED  BY <1>6, <3>1, <3>2
  <2>3. /\ x \in Request /\ KeysApart(x.all) /\ Len(x.all) > 0 /\ n + 1 >= 0
        /\ (x.kind = "form" <=> w = "portal")
        /\ \A i \in 1 .. Len(x.all) : /\ wanted'[x.all[i].key] = {}
                                      /\ x.all[i].key = "amap" => x.all[i].value # Empty
    BY <1>1, <1>5, <1>6, <1>7
  <2> QED  BY <1>1, <1>8, <1>9, <2>1, <2>2, <2>3 DEF WriterRight
<1>15. ASSUME NEW o \in Others(w), Busy(o)' PROVE WriterRight(o)'
  <2>1. o \in Writer /\ Busy(o) /\ writer'[o] = writer[o]
    BY <1>9, <1>15 DEF Others, Busy
  <2>2. WriterRight(o) /\ crossed
    BY <1>1, <2>1, <1>15 DEF SetInv, Others, Writer
  <2> QED  BY <1>1, <2>1, <2>2 DEF WriterRight
<1>16. \A o \in Writer : Busy(o)' => WriterRight(o)'
  BY <1>14, <1>15 DEF Others
<1>17. Busy("console")' /\ Busy("portal")' => crossed'
  <2>1. \A o \in Writer : Busy(o)' => Busy(o)
    BY <1>1, <1>9 DEF Busy, Others
  <2> QED  BY <1>1, <2>1 DEF SetInv, Writer
<1>18. \A k \in SetKey : \A v \in wanted'[k] : stored'[k] = v
  BY <1>1, <1>10, <1>12 DEF SetInv
<1>19. stored'["amap"] # Empty
  BY <1>10, <1>12 DEF SetInv, SetKey
<1> QED  BY <1>1, <1>9, <1>13, <1>16, <1>17, <1>18, <1>19 DEF SetInv

\* What was written under a key.
LEMMA ValueWritten ==
    ASSUME NEW s \in Seq(OneKey), KeysApart(s), NEW k \in KeysOf(s)
    PROVE  \E i \in 1 .. Len(s) : s[i].key = k /\ ValueOf(s, k) = s[i].value /\ s[i] \in OneKey
<1>1. DOMAIN s = 1 .. Len(s) /\ \A i \in 1 .. Len(s) : s[i] \in OneKey
  BY LenProperties, ElementOfSeq
<1>2. PICK i \in 1 .. Len(s) : s[i].key = k
  BY <1>1 DEF KeysOf
<1>3. \A r \in ToSet(s) : r.key = k => r = s[i]
  BY <1>1, <1>2 DEF ToSet, KeysApart
<1>4. s[i] \in ToSet(s)
  BY <1>1 DEF ToSet
<1>5. (CHOOSE r \in ToSet(s) : r.key = k) = s[i]
  BY <1>2, <1>3, <1>4
<1> QED  BY <1>1, <1>2, <1>5 DEF ValueOf

\* When all is written and the other writer did not come between, the board has it.
LEMMA AllWritten ==
    ASSUME SetInv, NEW w \in Writer, Busy(w), writer[w].todo = <<>>
    PROVE  /\ ~pristine
           /\ \A k \in KeysOf(writer[w].all) :
                 /\ k \in SetKey /\ ValueOf(writer[w].all, k) \in Known \cup {Missing}
                 /\ ~crossed => stored[k] = Stored(ValueOf(writer[w].all, k), writer[w].kind)
<1> DEFINE r == writer[w]
<1>1. /\ WriterRight(w) /\ r.all \in Seq(OneKey)
      /\ Len(r.all) \in Nat
  BY AtWork
<1>2. Len(r.todo) = 0 /\ Len(r.all) - 0 = Len(r.all)
  BY <1>1, EmptySeq
<1>3. KeysApart(r.all) /\ Len(r.all) > 0 /\ ~pristine
      /\ (~crossed => \A i \in 1 .. Len(r.all) : stored[r.all[i].key] = Stored(r.all[i].value, r.kind))
  BY <1>1, <1>2 DEF WriterRight
<1>4. ASSUME NEW k \in KeysOf(r.all)
      PROVE  /\ k \in SetKey /\ ValueOf(r.all, k) \in Known \cup {Missing}
             /\ ~crossed => stored[k] = Stored(ValueOf(r.all, k), r.kind)
  <2>1. PICK i \in 1 .. Len(r.all) :
           r.all[i].key = k /\ ValueOf(r.all, k) = r.all[i].value /\ r.all[i] \in OneKey
    BY <1>1, <1>3, ValueWritten
  <2> QED  BY <1>3, <2>1 DEF OneKey
<1> QED  BY <1>3, <1>4

LEMMA CommandEndsRight ==
    ASSUME SetInv, CommandEnds
    PROVE  SetInv'
<1> DEFINE r == writer["console"]
           done == r.all
<1>1. /\ Busy("console") /\ r.todo = <<>>
      /\ writer' = [writer EXCEPT !["console"] = Idle]
      /\ wanted' = [k \in SetKey |-> IF k \in KeysOf(done) /\ ~crossed
                                      THEN {ValueOf(done, k)} ELSE wanted[k]]
      /\ inUse' = [k \in SetKey |->
            IF k \in KeysOf(done) /\ r.live
            THEN Fitted(k, ValueOf(done, k)) ELSE inUse[k]]
      /\ UNCHANGED <<stored, crossed, pristine, commands, resets>>
  BY DEF CommandEnds
<1>2. SettingsTypeOK /\ DOMAIN writer = Writer /\ "console" \in Writer
  BY DEF SetInv, Writer
<1>3. /\ ~pristine
      /\ \A k \in KeysOf(done) : /\ k \in SetKey /\ ValueOf(done, k) \in Known \cup {Missing}
                                 /\ ~crossed => stored[k] = Stored(ValueOf(done, k), r.kind)
  BY <1>1, <1>2, AllWritten
<1>4. r.kind # "form"
  BY <1>1, <1>2, AtWork DEF WriterRight
<1>5. \A k \in KeysOf(done) : ~crossed => stored[k] = ValueOf(done, k)
  BY <1>3, <1>4 DEF Stored
<1> HIDE DEF done
<1>6. SettingsTypeOK'
  <2>1. wanted' \in [SetKey -> SUBSET (Known \cup {Missing})]
    BY <1>1, <1>2, <1>3 DEF SettingsTypeOK
  <2>2. inUse' \in [SetKey -> Known]
    <3>1. \A k \in KeysOf(done) : Fitted(k, ValueOf(done, k)) \in Known
      BY <1>3, KnownValues DEF Fitted, Known
    <3> QED  BY <1>1, <1>2, <1>3, <3>1 DEF SettingsTypeOK
  <2> QED  BY <1>1, <1>2, <2>1, <2>2 DEF SettingsTypeOK
<1>7. /\ DOMAIN writer' = Writer /\ ~Busy("console")'
      /\ \A o \in Others("console") : writer'[o] = writer[o]
  BY <1>1, <1>2 DEF Others, Busy
<1>8. ASSUME NEW o \in Writer, Busy(o)' PROVE WriterRight(o)'
  <2>1. o # "console" /\ Busy(o) /\ writer'[o] = writer[o]
    BY <1>7, <1>8 DEF Others, Busy
  <2>2. WriterRight(o) /\ crossed
    BY <1>1, <2>1 DEF SetInv, Writer
  <2>3. wanted' = wanted
    BY <1>1, <1>2, <2>2 DEF SettingsTypeOK
  <2> QED  BY <1>1, <2>1, <2>2, <2>3 DEF WriterRight
<1>9. \A k \in SetKey : \A v \in wanted'[k] : stored'[k] = v
  BY <1>1, <1>5 DEF SetInv
<1> QED  BY <1>1, <1>3, <1>6, <1>7, <1>8, <1>9 DEF SetInv

\* A board that boots uses what is stored, and nobody writes.
LEMMA BootedRight ==
    ASSUME SetInv, Booted, UNCHANGED <<stored, commands>>, resets' \in 0 .. MaxResets,
           wanted' \in [SetKey -> SUBSET (Known \cup {Missing})],
           \A k \in SetKey : \A v \in wanted'[k] : stored[k] = v
    PROVE  SetInv'
<1>1. SettingsTypeOK
  BY DEF SetInv
<1>2. inUse' = Used(stored) /\ inUse' \in [SetKey -> Known]
  BY <1>1, UsedKnown DEF Booted, SettingsTypeOK
<1>3. crossed' = FALSE /\ pristine' = TRUE
  BY DEF Booted
<1>4. SettingsTypeOK'
  BY <1>1, <1>2, <1>3 DEF SettingsTypeOK
<1>5. DOMAIN writer' = Writer /\ \A w \in Writer : ~Busy(w)'
  BY DEF Booted, Busy
<1> QED  BY <1>2, <1>4, <1>5 DEF SetInv, Writer

LEMMA FormEndsRight ==
    ASSUME SetInv, FormEnds
    PROVE  SetInv'
<1> DEFINE r == writer["portal"]
           done == r.all
<1>1. /\ Busy("portal") /\ r.todo = <<>> /\ Booted
      /\ wanted' = [k \in SetKey |-> IF k \in KeysOf(done) /\ ~crossed
                                      THEN {Stored(ValueOf(done, k), "form")} ELSE wanted[k]]
      /\ UNCHANGED <<stored, commands, resets>>
  BY DEF FormEnds
<1>2. "portal" \in Writer
  BY DEF Writer
<1>3. \A k \in KeysOf(done) : /\ k \in SetKey /\ ValueOf(done, k) \in Known \cup {Missing}
                              /\ ~crossed => stored[k] = Stored(ValueOf(done, k), r.kind)
  BY <1>1, <1>2, AllWritten
<1>4. r.kind = "form"
  BY <1>1, <1>2, AtWork DEF WriterRight
<1> HIDE DEF done
<1>5. wanted \in [SetKey -> SUBSET (Known \cup {Missing})] /\ resets \in 0 .. MaxResets
  BY DEF SetInv, SettingsTypeOK
<1>6. \A k \in KeysOf(done) : Stored(ValueOf(done, k), "form") \in Known \cup {Missing}
  BY <1>3 DEF Stored
<1>7. wanted' \in [SetKey -> SUBSET (Known \cup {Missing})]
  BY <1>1, <1>5, <1>6
<1>8. \A k \in SetKey : \A v \in wanted'[k] : stored[k] = v
  BY <1>1, <1>3, <1>4 DEF SetInv
<1> QED  BY <1>1, <1>5, <1>7, <1>8, BootedRight

LEMMA SettingsRebootRight ==
    ASSUME SetInv, SettingsReboot
    PROVE  SetInv'
<1>1. SettingsTypeOK /\ \A k \in SetKey : \A v \in wanted[k] : stored[k] = v
  BY DEF SetInv
<1>2. resets' \in 0 .. MaxResets
  BY <1>1, SettingsAssumption DEF SettingsReboot, SettingsTypeOK
<1> QED  BY <1>1, <1>2, BootedRight DEF SettingsReboot, SettingsTypeOK

LEMMA SetInvStep == SetInv /\ [SettingsNext]_settingsVars => SetInv'
<1> SUFFICES ASSUME SetInv, [SettingsNext]_settingsVars PROVE SetInv'
  OBVIOUS
<1>1. CASE UNCHANGED settingsVars
  <2>1. UNCHANGED <<stored, inUse, writer, crossed, wanted, pristine, commands, resets>>
    BY <1>1 DEF settingsVars
  <2>2. ASSUME NEW w \in Writer, Busy(w)' PROVE WriterRight(w)'
    <3>1. WriterRight(w)
      BY <2>1, <2>2 DEF SetInv, Busy
    <3> QED  BY <2>1, <3>1 DEF WriterRight
  <2>3. SettingsTypeOK'
    BY <2>1 DEF SetInv, SettingsTypeOK
  <2>4. Busy("console")' /\ Busy("portal")' => crossed'
    BY <2>1 DEF SetInv, Busy
  <2> QED  BY <2>1, <2>2, <2>3, <2>4 DEF SetInv
<1>2. CASE \E v \in Written : ConsoleSets(v)
  BY <1>2, ConsoleBegins
<1>3. CASE ProxyClear \/ ConfigReset
  BY <1>3, ConsoleBegins
<1>4. CASE \E changed \in {{}} \cup {{k} : k \in ToSet(Form)}, v \in Written : FormSaved(changed, v)
  BY <1>4, FormBegins
<1>5. CASE \E w \in Writer : WritesOne(w)
  BY <1>5, WritesOneRight
<1>6. CASE CommandEnds \/ FormEnds \/ SettingsReboot
  BY <1>6, CommandEndsRight, FormEndsRight, SettingsRebootRight
<1> QED  BY <1>1, <1>2, <1>3, <1>4, <1>5, <1>6 DEF SettingsNext

LEMMA AlwaysSet == SettingsSpec => []SetInv
BY SetInvInit, SetInvStep, PTL DEF SettingsSpec

\* After a boot, what the last complete command or form asked for is in use, or the build's value
\* where it was cleared, and config_show displays it (serial_cli.c, wifi_onboard.c), for any
\* values, defaults of the build, and number of commands, forms and resets.
THEOREM SettingsSurvive == SettingsSpec => []SetSurvives
BY AlwaysSet, SetInvShows, PTL

-----------------------------------------------------------------------------
(***************************************************************************)
(* The history.  The ring has, from its oldest place on, the last of what  *)
(* parsed so far (RingHolds), one line or piece of the file after the      *)
(* other; and the messages among the last elements are the last of the     *)
(* messages.                                                               *)
(***************************************************************************)

\* A place of the ring, which goes round.
Round(n) == IF n < MaxMsgs THEN n ELSE n - MaxMsgs

LEMMA RoundIs == ASSUME NEW n \in 0 .. 2 * MaxMsgs - 1 PROVE n % MaxMsgs = Round(n) /\ Round(n) \in 0 .. MaxMsgs - 1
<1>1. MaxMsgs \in Nat \ {0}
  BY SessionAssumption DEF SessionAssumption
<1>2. ASSUME NEW m \in Nat \ {0}, NEW k \in 0 .. m - 1 PROVE k % m = k
  OBVIOUS
<1>3. ASSUME NEW m \in Nat \ {0}, NEW k \in m .. 2 * m - 1 PROVE k % m = k - m
  OBVIOUS
<1>4. CASE n < MaxMsgs
  BY <1>1, <1>2, <1>4 DEF Round
<1>5. CASE n >= MaxMsgs
  BY <1>1, <1>3, <1>5 DEF Round
<1> QED  BY <1>1, <1>4, <1>5

RingState(T) == [at : [0 .. MaxMsgs - 1 -> T \cup {Resting}], count : 0 .. MaxMsgs, write : 0 .. MaxMsgs - 1]
Oldest(r) == IF r.count < MaxMsgs THEN 0 ELSE r.write

\* What one element of the file does to the ring and to what parsed.
Entered(r, line) == [at |-> [r.at EXCEPT ![r.write] = line],
                    count |-> IF r.count < MaxMsgs THEN r.count + 1 ELSE r.count,
                    write |-> (r.write + 1) % MaxMsgs]
Takes(r, line)  == IF line.as = "noise" THEN r ELSE Entered(r, line)
Reads(k, line)  == IF line.as # "noise" THEN Append(k, line) ELSE k

RingHolds(T, r, k) ==
    /\ r \in RingState(T) /\ k \in Seq(T)
    /\ r.count <= Len(k)
    /\ r.count < MaxMsgs => r.write = r.count /\ Len(k) = r.count
    /\ \A j \in 1 .. r.count : r.at[Round(Oldest(r) + j - 1)] = k[Len(k) - r.count + j]

LEMMA EmptyRingHolds ==
    ASSUME NEW T
    PROVE  RingHolds(T, [at |-> [i \in 0 .. MaxMsgs - 1 |-> Resting], count |-> 0, write |-> 0], <<>>)
<1> DEFINE e == [at |-> [i \in 0 .. MaxMsgs - 1 |-> Resting], count |-> 0, write |-> 0]
<1>1. MaxMsgs \in Nat /\ MaxMsgs >= 1
  BY SessionAssumption DEF SessionAssumption
<1>2. e \in RingState(T) /\ e.count = 0 /\ e.write = 0
  BY <1>1 DEF RingState
<1> HIDE DEF e
<1>3. <<>> \in Seq(T) /\ Len(<<>>) = 0
  OBVIOUS
<1>4. RingHolds(T, e, <<>>)
  BY <1>1, <1>2, <1>3 DEF RingHolds
<1> QED  BY <1>4 DEF e

\* The ring takes in a line.
LEMMA RingTakes ==
    ASSUME NEW T \in SUBSET SessionLine, NEW r, NEW k, NEW line \in T, RingHolds(T, r, k)
    PROVE  RingHolds(T, Takes(r, line), Reads(k, line))
<1>1. MaxMsgs \in Nat /\ MaxMsgs >= 1
  BY SessionAssumption DEF SessionAssumption
<1>2. CASE line.as = "noise"
  <2>1. Takes(r, line) = r /\ Reads(k, line) = k
    BY <1>1, <1>2 DEF Takes, Reads
  <2> QED  BY <2>1
<1>3. CASE line.as # "noise"
  <2> DEFINE n == Entered(r, line)
             m == Append(k, line)
             w == r.write
             c == r.count
             L == Len(k)
  <2>1. Takes(r, line) = n /\ Reads(k, line) = m
    BY <1>1, <1>3 DEF Takes, Reads
  <2>2. /\ r.at \in [0 .. MaxMsgs - 1 -> T \cup {Resting}]
        /\ c \in 0 .. MaxMsgs /\ w \in 0 .. MaxMsgs - 1
        /\ k \in Seq(T) /\ L \in Nat /\ c <= L
        /\ c < MaxMsgs => w = c /\ L = c
        /\ \A j \in 1 .. c : r.at[Round(Oldest(r) + j - 1)] = k[L - c + j]
    BY DEF RingHolds, RingState
  <2>3. /\ m \in Seq(T) /\ Len(m) = L + 1 /\ m[L + 1] = line
        /\ \A i \in 1 .. L : m[i] = k[i]
    BY <2>2
  <2>4. (w + 1) % MaxMsgs = Round(w + 1) /\ Round(w + 1) \in 0 .. MaxMsgs - 1
    <3>1. w + 1 \in 0 .. 2 * MaxMsgs - 1
      BY <1>1, <2>2
    <3> QED  BY <3>1, RoundIs
  <2>5. /\ n.at = [r.at EXCEPT ![w] = line] /\ n.write = Round(w + 1)
        /\ n.count = IF c < MaxMsgs THEN c + 1 ELSE c
        /\ n = [at |-> n.at, count |-> n.count, write |-> n.write]
    BY <2>4 DEF Entered
  <2> HIDE DEF n, m, w, c, L
  <2>6. /\ n.at \in [0 .. MaxMsgs - 1 -> T \cup {Resting}]
        /\ n.at[w] = line
        /\ \A i \in 0 .. MaxMsgs - 1 : i # w => n.at[i] = r.at[i]
    BY <2>2, <2>5
  <2>7. n \in RingState(T)
    <3>1. n.count \in 0 .. MaxMsgs /\ n.write \in 0 .. MaxMsgs - 1
      BY <1>1, <2>2, <2>4, <2>5
    <3>2. [at |-> n.at, count |-> n.count, write |-> n.write] \in RingState(T)
      BY <2>6, <3>1 DEF RingState
    <3> QED  BY <2>5, <3>2
  <2>8. n.count <= Len(m) /\ (n.count < MaxMsgs => n.write = n.count /\ Len(m) = n.count)
    BY <1>1, <2>2, <2>3, <2>5 DEF Round
  <2>9. ASSUME NEW j \in 1 .. n.count
        PROVE  n.at[Round(Oldest(n) + j - 1)] = m[Len(m) - n.count + j]
    <3>1. CASE c < MaxMsgs
      <4>1. n.count = c + 1 /\ w = c /\ L = c /\ j \in 1 .. c + 1
        BY <2>2, <2>5, <2>9, <3>1
      <4>2. Oldest(n) = 0
        BY <1>1, <2>2, <2>5, <4>1 DEF Oldest, Round
      <4>3. Oldest(r) = 0
        BY <3>1 DEF Oldest, c
      <4>4. Round(j - 1) = j - 1
        BY <1>1, <2>2, <3>1, <4>1 DEF Round
      <4>5. Len(m) - n.count + j = j
        BY <2>2, <2>3, <4>1
      <4>6. CASE j = c + 1
        BY <2>2, <2>3, <2>6, <4>1, <4>2, <4>4, <4>5, <4>6
      <4>7. CASE j # c + 1
        <5>1. j \in 1 .. c /\ j - 1 # w /\ j - 1 \in 0 .. MaxMsgs - 1 /\ L - c + j = j
          BY <1>1, <2>2, <3>1, <4>1, <4>7
        <5>2. 0 + j - 1 = j - 1
          BY <5>1
        <5>3. r.at[j - 1] = k[j]
          BY <2>2, <4>3, <4>4, <5>1, <5>2
        <5>4. m[j] = k[j]
          BY <2>3, <4>1, <5>1
        <5> QED  BY <2>6, <4>2, <4>4, <4>5, <5>1, <5>2, <5>3, <5>4
      <4> QED  BY <4>6, <4>7
    <3>2. CASE c = MaxMsgs
      <4>1. n.count = c /\ j \in 1 .. c /\ Len(m) - n.count + j = L - c + (j + 1)
        BY <1>1, <2>2, <2>3, <2>5, <2>9, <3>2
      <4>2. Oldest(n) = Round(w + 1) /\ Oldest(r) = w
        BY <1>1, <2>5, <3>2, <4>1 DEF Oldest, c, w
      <4>3. CASE j = c
        <5>1. Round(Round(w + 1) + j - 1) = w
          BY <1>1, <2>2, <3>2, <4>3 DEF Round
        <5>2. L - c + (j + 1) = L + 1
          BY <2>2, <4>3
        <5> QED  BY <2>3, <2>6, <4>1, <4>2, <5>1, <5>2
      <4>4. CASE j # c
        <5> DEFINE p == Round(Round(w + 1) + j - 1)
        <5>1. p = Round(w + (j + 1) - 1) /\ p \in 0 .. MaxMsgs - 1 /\ p # w
          BY <1>1, <2>2, <3>2, <4>1, <4>4 DEF Round
        <5>2. j + 1 \in 1 .. c
          BY <2>2, <4>1, <4>4
        <5> HIDE DEF p
        <5>3. r.at[p] = k[L - c + (j + 1)]
          BY <2>2, <4>2, <5>1, <5>2
        <5>4. L - c + (j + 1) \in 1 .. L
          BY <2>2, <4>1, <4>4
        <5>5. n.at[p] = m[L - c + (j + 1)]
          BY <2>3, <2>6, <5>1, <5>3, <5>4
        <5> QED  BY <4>1, <4>2, <5>5 DEF p
      <4> QED  BY <4>3, <4>4
    <3> QED  BY <1>1, <2>2, <3>1, <3>2
  <2> QED  BY <2>1, <2>3, <2>7, <2>8, <2>9 DEF RingHolds
<1> QED  BY <1>1, <1>2, <1>3

\* What the ring is read out as when it is r: the last of what parsed.
ReadOut(r) == [i \in 1 .. r.count |->
                  r.at[((IF r.count < MaxMsgs THEN 0 ELSE r.write) + i - 1) % MaxMsgs]]

LEMMA RingReadsLast ==
    ASSUME NEW T, NEW r, NEW k, RingHolds(T, r, k)
    PROVE  /\ ReadOut(r) = LastOf(k) /\ ReadOut(r) \in Seq(T) /\ k \in Seq(T)
           /\ \E first \in 1 .. Len(k) + 1 :
                 /\ Len(LastOf(k)) = Len(k) - first + 1
                 /\ \A i \in 1 .. Len(LastOf(k)) : LastOf(k)[i] = k[first - 1 + i]
<1>1. MaxMsgs \in Nat /\ MaxMsgs >= 1
  BY SessionAssumption DEF SessionAssumption
<1> DEFINE c == r.count
           L == Len(k)
           first == IF L > MaxMsgs THEN L - MaxMsgs + 1 ELSE 1
<1>2. /\ c \in 0 .. MaxMsgs /\ r.write \in 0 .. MaxMsgs - 1
      /\ k \in Seq(T) /\ L \in Nat /\ c <= L
      /\ c < MaxMsgs => L = c
      /\ \A j \in 1 .. c : r.at[Round(Oldest(r) + j - 1)] = k[L - c + j]
  BY DEF RingHolds, RingState
<1>3. first = L - c + 1 /\ first \in 1 .. L + 1
  <2> HIDE DEF c, L
  <2>1. CASE c < MaxMsgs
    BY <1>1, <1>2, <2>1
  <2>2. CASE c = MaxMsgs
    BY <1>1, <1>2, <2>2
  <2> QED  BY <1>1, <1>2, <2>1, <2>2
<1>4. LastOf(k) = SubSeq(k, first, L)
  BY DEF LastOf
<1> HIDE DEF first
<1>5. /\ LastOf(k) \in Seq(T) /\ Len(LastOf(k)) = c
      /\ \A i \in 1 .. c : LastOf(k)[i] = k[L - c + i]
  <2>1. /\ SubSeq(k, first, L) \in Seq(T)
        /\ Len(SubSeq(k, first, L)) = IF first <= L THEN L - first + 1 ELSE 0
        /\ \A i \in 1 .. L - first + 1 : SubSeq(k, first, L)[i] = k[first + i - 1]
    <3>1. first \in 1 .. Len(k) + 1 /\ L \in first - 1 .. Len(k)
      BY <1>2, <1>3
    <3> HIDE DEF L
    <3> QED  BY <1>2, <3>1, SubSeqProperties
  <2> HIDE DEF c, L
  <2>2. \A i \in 1 .. c : i \in 1 .. L - first + 1 /\ first + i - 1 = L - c + i
    BY <1>2, <1>3
  <2>3. (IF first <= L THEN L - first + 1 ELSE 0) = c
    BY <1>2, <1>3
  <2> QED  BY <1>4, <2>1, <2>2, <2>3
<1>6. ASSUME NEW i \in 1 .. c PROVE ReadOut(r)[i] = k[L - c + i]
  <2> DEFINE n == Oldest(r) + i - 1
  <2>1. ReadOut(r)[i] = r.at[n % MaxMsgs]
    BY DEF ReadOut, Oldest
  <2>2. n \in 0 .. 2 * MaxMsgs - 1
    <3>1. Oldest(r) \in 0 .. MaxMsgs - 1
      BY <1>1, <1>2 DEF Oldest
    <3> HIDE DEF c
    <3> QED  BY <1>1, <1>2, <3>1
  <2>3. n % MaxMsgs = Round(n)
    BY <2>2, RoundIs
  <2>4. r.at[Round(n)] = k[L - c + i]
    BY <1>2
  <2> QED  BY <2>1, <2>3, <2>4
<1>7. LastOf(k) = [i \in 1 .. c |-> k[L - c + i]]
  <2>1. DOMAIN LastOf(k) = 1 .. c /\ LastOf(k) = [i \in DOMAIN LastOf(k) |-> LastOf(k)[i]]
    BY <1>5
  <2> HIDE DEF c, L
  <2> QED  BY <1>5, <2>1
<1>8. ReadOut(r) = [i \in 1 .. c |-> k[L - c + i]]
  <2>1. DOMAIN ReadOut(r) = 1 .. c /\ ReadOut(r) = [i \in DOMAIN ReadOut(r) |-> ReadOut(r)[i]]
    BY DEF ReadOut
  <2> HIDE DEF c, L
  <2> QED  BY <1>6, <2>1
<1>9. Len(LastOf(k)) = L - first + 1 /\ \A i \in 1 .. Len(LastOf(k)) : LastOf(k)[i] = k[first - 1 + i]
  <2> HIDE DEF c, L
  <2>1. c = L - first + 1 /\ \A i \in 1 .. c : L - c + i = first - 1 + i
    BY <1>2, <1>3
  <2> QED  BY <1>5, <2>1
<1> QED  BY <1>2, <1>3, <1>5, <1>7, <1>8, <1>9

\* The reading loop of the code, and what parses, element by element.
LEMMA ReadingLoop ==
    ASSUME NEW T \in SUBSET SessionLine, NEW lines \in Seq(T)
    PROVE  RingHolds(T, Ring(lines), Parsed(lines))
<1> DEFINE n == Len(lines)
           empty == [at |-> [i \in 0 .. MaxMsgs - 1 |-> Resting], count |-> 0, write |-> 0]
           IsRing(f) == f = [i \in 0 .. n |-> IF i = 0 THEN empty ELSE Takes(f[i - 1], lines[i])]
           IsText(f) == f = [i \in 0 .. n |-> IF i = 0 THEN <<>> ELSE Reads(f[i - 1], lines[i])]
<1>1. n \in Nat /\ \A i \in 1 .. n : lines[i] \in T
  OBVIOUS
<1> HIDE DEF n
<1>2. RingHolds(T, empty, <<>>)
  BY EmptyRingHolds
<1> HIDE DEF empty
<1>3. empty \in RingState(T)
  BY <1>2 DEF RingHolds
<1> DEFINE S == {s \in RingState(T) \X Seq(T) : RingHolds(T, s[1], s[2])}
           a == <<empty, <<>> >>
           g == [i \in 0 .. n |-> [s \in S |-> IF i = 0 THEN a ELSE <<Takes(s[1], lines[i]), Reads(s[2], lines[i])>>]]
<1>4. a \in S
  <2>1. a[1] = empty /\ a[2] = <<>> /\ <<>> \in Seq(T)
    OBVIOUS
  <2>2. a \in RingState(T) \X Seq(T)
    BY <1>3, <2>1
  <2> HIDE DEF a
  <2> QED  BY <1>2, <2>1, <2>2
<1>5. ASSUME NEW i \in 1 .. n, NEW s \in S
      PROVE  <<Takes(s[1], lines[i]), Reads(s[2], lines[i])>> \in S
  <2>1. RingHolds(T, s[1], s[2]) /\ lines[i] \in T
    BY <1>1
  <2>2. RingHolds(T, Takes(s[1], lines[i]), Reads(s[2], lines[i]))
    BY <2>1, RingTakes
  <2>3. Takes(s[1], lines[i]) \in RingState(T) /\ Reads(s[2], lines[i]) \in Seq(T)
    BY <2>2 DEF RingHolds
  <2> QED  BY <2>2, <2>3
<1> HIDE DEF S, a
<1>6. g \in [0 .. n -> [S -> S]]
  BY <1>1, <1>4, <1>5
<1> HIDE DEF g
<1>7. PICK f \in [0 .. n -> S] : Computes(f, 0, n, a, g)
  <2>1. 0 \in Nat /\ 0 <= n
    BY <1>1
  <2> QED  BY <1>1, <1>4, <1>6, <2>1, Recursion, Zenon
<1>8. ASSUME NEW i \in 0 .. n
      PROVE  f[i] = IF i = 0 THEN a ELSE <<Takes(f[i - 1][1], lines[i]), Reads(f[i - 1][2], lines[i])>>
  <2>1. CASE i = 0
    BY <1>7, <2>1 DEF Computes
  <2>2. CASE i # 0
    <3>1. f[i - 1] \in S
      BY <1>1, <2>2
    <3> QED  BY <1>7, <2>2, <3>1 DEF g, Computes
  <2> QED  BY <2>1, <2>2
<1>9. IsRing([i \in 0 .. n |-> f[i][1]])
  <2>1. ASSUME NEW i \in 0 .. n, i # 0 PROVE i - 1 \in 0 .. n
    BY <1>1, <2>1
  <2> QED  BY <1>8, <2>1 DEF a
<1>10. IsText([i \in 0 .. n |-> f[i][2]])
  <2>1. ASSUME NEW i \in 0 .. n, i # 0 PROVE i - 1 \in 0 .. n
    BY <1>1, <2>1
  <2> QED  BY <1>8, <2>1 DEF a
<1> DEFINE ring == CHOOSE e : IsRing(e)
           text == CHOOSE e : IsText(e)
<1>11. IsRing(ring) /\ IsText(text)
  <2> HIDE DEF IsRing, IsText
  <2> QED  BY <1>9, <1>10
<1>12. Ring(lines) = ring[n] /\ Parsed(lines) = text[n]
  BY DEF Ring, Parsed, Takes, Entered, Reads, n, empty
<1> HIDE DEF ring, text
<1> DEFINE Bad == {i \in 0 .. n : ~RingHolds(T, ring[i], text[i])}
<1>13. ASSUME NEW i \in 1 .. n, RingHolds(T, ring[i - 1], text[i - 1])
       PROVE  RingHolds(T, ring[i], text[i])
  <2>1. i \in 0 .. n /\ i # 0
    BY <1>1
  <2>2. ring[i] = Takes(ring[i - 1], lines[i]) /\ text[i] = Reads(text[i - 1], lines[i])
    BY <1>11, <2>1
  <2>3. lines[i] \in T
    BY <1>1
  <2> QED  BY <1>13, <2>2, <2>3, RingTakes
<1>14. 0 \in 0 .. n /\ RingHolds(T, ring[0], text[0])
  <2>1. 0 \in 0 .. n
    BY <1>1
  <2>2. ring[0] = empty /\ text[0] = <<>>
    BY <1>11, <2>1
  <2> QED  BY <1>2, <2>1, <2>2
<1>15. Bad = {}
  <2> SUFFICES ASSUME Bad # {} PROVE FALSE
    OBVIOUS
  <2>1. Bad \in SUBSET Nat
    BY <1>1
  <2>2. PICK m \in Bad : \A k \in Bad : m <= k
    <3> HIDE DEF Bad
    <3> QED  BY <2>1, LeastElement
  <2>3. m \in 0 .. n /\ ~RingHolds(T, ring[m], text[m])
    OBVIOUS
  <2>4. m # 0
    BY <1>14, <2>3
  <2>5. m \in 1 .. n /\ m - 1 \in 0 .. n /\ ~(m <= m - 1)
    BY <1>1, <2>3, <2>4
  <2>6. RingHolds(T, ring[m - 1], text[m - 1])
    BY <2>2, <2>5
  <2> QED  BY <1>13, <2>3, <2>5, <2>6
<1>16. n \in 0 .. n
  BY <1>1
<1> QED  BY <1>12, <1>15, <1>16

\* What the messages among some elements are made of, element by element.
Keeps(k, e) == IF e.as = "message" THEN Append(k, e) ELSE k

\* Sequences that are put together.
Joined(s, t) == s \o t

LEMMA JoinedEmpty == ASSUME NEW T, NEW s \in Seq(T) PROVE Joined(s, <<>>) = s
BY DEF Joined

LEMMA JoinedEnd ==
    ASSUME NEW T, NEW s \in Seq(T), NEW t \in Seq(T)
    PROVE  t = SubSeq(Joined(s, t), Len(Joined(s, t)) - Len(t) + 1, Len(Joined(s, t)))
BY DEF Joined

LEMMA KeepsJoined ==
    ASSUME NEW T, NEW s \in Seq(T), NEW t \in Seq(T), NEW e \in T
    PROVE  Keeps(Joined(s, t), e) = Joined(s, Keeps(t, e))
<1>1. CASE e.as = "message"
  <2>1. Append(s \o t, e) = s \o Append(t, e)
    OBVIOUS
  <2> QED  BY <1>1, <2>1 DEF Keeps, Joined
<1>2. CASE e.as # "message"
  BY <1>2 DEF Keeps
<1> QED  BY <1>1, <1>2

LEMMA MessagesAre ==
    ASSUME NEW T, NEW s \in Seq(T)
    PROVE  \E f \in [0 .. Len(s) -> Seq(T)] :
              /\ f[0] = <<>> /\ Messages(s) = f[Len(s)]
              /\ \A i \in 1 .. Len(s) : f[i] = Keeps(f[i - 1], s[i])
<1> DEFINE n == Len(s)
           Is(f) == f = [i \in 0 .. n |-> IF i = 0 THEN <<>> ELSE Keeps(f[i - 1], s[i])]
           g == [i \in 0 .. n |-> [k \in Seq(T) |-> IF i = 0 THEN <<>> ELSE Keeps(k, s[i])]]
<1>1. n \in Nat /\ (\A i \in 1 .. n : s[i] \in T) /\ <<>> \in Seq(T)
  OBVIOUS
<1> HIDE DEF n
<1>2. \A i \in 1 .. n, k \in Seq(T) : Keeps(k, s[i]) \in Seq(T)
  BY <1>1 DEF Keeps
<1>3. g \in [0 .. n -> [Seq(T) -> Seq(T)]]
  BY <1>1, <1>2
<1> HIDE DEF g
<1>4. PICK f \in [0 .. n -> Seq(T)] : Computes(f, 0, n, <<>>, g)
  <2>1. 0 \in Nat /\ 0 <= n
    BY <1>1
  <2> QED  BY <1>1, <1>3, <2>1, Recursion, Zenon
<1>5. \A i \in 0 .. n : f[i] = IF i = 0 THEN <<>> ELSE Keeps(f[i - 1], s[i])
  <2> SUFFICES ASSUME NEW i \in 0 .. n
               PROVE  f[i] = IF i = 0 THEN <<>> ELSE Keeps(f[i - 1], s[i])
    OBVIOUS
  <2>1. CASE i = 0
    BY <1>4, <2>1 DEF Computes
  <2>2. CASE i # 0
    <3>1. i - 1 \in 0 .. n
      BY <1>1, <2>2
    <3>2. f[i - 1] \in Seq(T)
      BY <3>1
    <3> QED  BY <1>4, <2>2, <3>2 DEF g, Computes
  <2> QED  BY <2>1, <2>2
<1>6. Is([i \in 0 .. n |-> f[i]])
  <2>1. \A i \in 0 .. n : i # 0 => i - 1 \in 0 .. n
    BY <1>1
  <2> QED  BY <1>5, <2>1
<1> DEFINE h == CHOOSE e : Is(e)
<1>7. Is(h)
  <2> HIDE DEF Is
  <2> QED  BY <1>6
<1>8. Messages(s) = h[n]
  BY DEF Messages, Keeps, n
<1> HIDE DEF h
<1>9. \A i \in 0 .. n : i # 0 => i - 1 \in 0 .. n
  BY <1>1
<1>10. h[0] = <<>> /\ \A i \in 1 .. n : h[i] = Keeps(h[i - 1], s[i])
  <2>1. 0 \in 0 .. n /\ \A i \in 1 .. n : i \in 0 .. n /\ i # 0
    BY <1>1
  <2> QED  BY <1>7, <2>1
<1> DEFINE Bad == {i \in 0 .. n : h[i] \notin Seq(T)}
<1>11. Bad = {}
  <2> SUFFICES ASSUME Bad # {} PROVE FALSE
    OBVIOUS
  <2>1. Bad \in SUBSET Nat
    OBVIOUS
  <2>2. PICK m \in Bad : \A k \in Bad : m <= k
    <3> HIDE DEF Bad
    <3> QED  BY <2>1, LeastElement
  <2>3. m \in 0 .. n /\ h[m] \notin Seq(T)
    OBVIOUS
  <2>4. m # 0
    BY <1>1, <1>10, <2>3
  <2>5. m \in 1 .. n /\ m - 1 \in 0 .. n /\ ~(m <= m - 1)
    BY <1>1, <2>3, <2>4
  <2>6. h[m - 1] \in Seq(T)
    BY <2>2, <2>5
  <2> QED  BY <1>2, <1>10, <2>3, <2>5, <2>6
<1>12. h = [i \in 0 .. n |-> h[i]]
  BY <1>7
<1>13. h \in [0 .. n -> Seq(T)]
  BY <1>11, <1>12
<1> QED  BY <1>8, <1>10, <1>13 DEF n

\* The messages among the last elements are the last of the messages.
LEMMA LastMessages ==
    ASSUME NEW T, NEW s \in Seq(T), NEW q \in Seq(T), NEW first \in 1 .. Len(s) + 1,
           Len(q) = Len(s) - first + 1, \A i \in 1 .. Len(q) : q[i] = s[first - 1 + i]
    PROVE  /\ Messages(q) = SubSeq(Messages(s), Len(Messages(s)) - Len(Messages(q)) + 1, Len(Messages(s)))
           /\ Messages(q) \in Seq(T)
<1> DEFINE n == Len(s)
           m == Len(q)
           b == first - 1
<1>1. n \in Nat /\ m \in Nat /\ b \in 0 .. n /\ b + m = n /\ first = b + 1
  OBVIOUS
<1>2. \A i \in 1 .. m : q[i] = s[b + i] /\ q[i] \in T
  OBVIOUS
<1>3. PICK f \in [0 .. n -> Seq(T)] :
         /\ f[0] = <<>> /\ Messages(s) = f[n]
         /\ \A i \in 1 .. n : f[i] = Keeps(f[i - 1], s[i])
  BY MessagesAre
<1>4. PICK g \in [0 .. m -> Seq(T)] :
         /\ g[0] = <<>> /\ Messages(q) = g[m]
         /\ \A i \in 1 .. m : g[i] = Keeps(g[i - 1], q[i])
  BY MessagesAre
<1> HIDE DEF n, m, b
<1> DEFINE Bad == {i \in 0 .. m : f[b + i] # Joined(f[b], g[i])}
<1>5. Bad = {}
  <2> SUFFICES ASSUME Bad # {} PROVE FALSE
    OBVIOUS
  <2>1. Bad \in SUBSET Nat
    OBVIOUS
  <2>2. PICK k \in Bad : \A j \in Bad : k <= j
    <3> HIDE DEF Bad
    <3> QED  BY <2>1, LeastElement
  <2>3. k \in 0 .. m /\ f[b + k] # Joined(f[b], g[k])
    OBVIOUS
  <2>4. k # 0
    <3>1. f[b] \in Seq(T) /\ b + 0 = b
      BY <1>1, <1>3
    <3>2. Joined(f[b], <<>>) = f[b]
      BY <3>1, JoinedEmpty
    <3> QED  BY <1>4, <2>3, <3>1, <3>2
  <2>5. k \in 1 .. m /\ k - 1 \in 0 .. m /\ ~(k <= k - 1) /\ b + (k - 1) = b + k - 1
        /\ b + k \in 1 .. n /\ b + k - 1 \in 0 .. n /\ b \in 0 .. n
    BY <1>1, <2>3, <2>4
  <2>6. f[b + k - 1] = Joined(f[b], g[k - 1])
    BY <2>2, <2>5
  <2>7. f[b + k] = Keeps(f[b + k - 1], q[k]) /\ g[k] = Keeps(g[k - 1], q[k])
    BY <1>2, <1>3, <1>4, <2>5
  <2>8. f[b] \in Seq(T) /\ g[k - 1] \in Seq(T) /\ q[k] \in T
    BY <1>2, <1>3, <1>4, <2>5
  <2>9. Keeps(Joined(f[b], g[k - 1]), q[k]) = Joined(f[b], Keeps(g[k - 1], q[k]))
    BY <2>8, KeepsJoined
  <2> QED  BY <2>3, <2>6, <2>7, <2>9
<1>6. f[n] = Joined(f[b], g[m]) /\ f[b] \in Seq(T) /\ g[m] \in Seq(T) /\ f[n] \in Seq(T)
  <2>1. m \in 0 .. m /\ b + m = n /\ n \in 0 .. n
    BY <1>1
  <2> QED  BY <1>1, <1>3, <1>4, <1>5, <2>1
<1> DEFINE x == f[b]
           y == g[m]
<1>7. y = SubSeq(Joined(x, y), Len(Joined(x, y)) - Len(y) + 1, Len(Joined(x, y)))
  BY <1>6, JoinedEnd
<1> QED  BY <1>3, <1>4, <1>6, <1>7

\* The inductive invariant: neither file has a line of a turn that was cleared, and the turn that
\* is under way is none of these.
Unwiped(c) == {l \in SessionLine : l.turn \notin wiped[c]}

SeenInv ==
    /\ turnOf.pc \in {"rest", "user", "assistant"} /\ turns \in 0 .. MaxTurns
    /\ fileOf \in [SessionChat -> Seq(SessionLine)] /\ legacyOf \in [SessionChat -> Seq(SessionLine)]
    /\ wiped \in [SessionChat -> SUBSET (0 .. turns)]
    /\ \A c \in SessionChat : fileOf[c] \in Seq(Unwiped(c)) /\ legacyOf[c] \in Seq(Unwiped(c))
    /\ turnOf.pc # "rest" =>
          /\ turnOf = [pc |-> turnOf.pc, chat |-> turnOf.chat, turn |-> turnOf.turn, history |-> turnOf.history]
          /\ turnOf.turn = turns /\ turnOf.chat \in SessionChat
          /\ \A c \in SessionChat : turns \notin wiped[c]

\* What is written in a turn that was not cleared is of that turn.
LEMMA PiecesIs ==
    ASSUME NEW role \in {"user", "assistant"}, NEW line \in PiecesOf(role), NEW c,
           turnOf.turn \in 0 .. MaxTurns, turnOf.turn \notin wiped[c]
    PROVE  line \in Seq(SessionLine) /\ line \in Seq(Unwiped(c))
<1> DEFINE one(as, size) == [turn |-> turnOf.turn, role |-> role, as |-> as, size |-> size]
<1>1. \A as \in Kind, size \in LineSize \cup {0} :
         one(as, size) \in SessionLine /\ one(as, size) \in Unwiped(c)
  BY DEF SessionLine, Unwiped
<1>2. "message" \in Kind /\ "noise" \in Kind /\ "piece" \in Kind
  BY DEF Kind
<1>3. CASE line \in {<<one("message", size)>> : size \in LineSize}
  <2>1. PICK size \in LineSize : line = <<one("message", size)>>
    BY <1>3
  <2>2. one("message", size) \in SessionLine /\ one("message", size) \in Unwiped(c)
    BY <1>1, <1>2
  <2> HIDE DEF one
  <2> QED  BY <2>1, <2>2
<1>4. CASE line \in {<<one("noise", 0)>> \o [i \in 1 .. n |-> one("piece", 0)] : n \in 0 .. MaxPieces}
  <2>1. PICK n \in 0 .. MaxPieces : line = <<one("noise", 0)>> \o [i \in 1 .. n |-> one("piece", 0)]
    BY <1>4
  <2>2. /\ one("noise", 0) \in SessionLine /\ one("noise", 0) \in Unwiped(c)
        /\ one("piece", 0) \in SessionLine /\ one("piece", 0) \in Unwiped(c)
    BY <1>1, <1>2
  <2> DEFINE p == one("noise", 0)
             r == one("piece", 0)
             s == [i \in 1 .. n |-> r]
  <2>3. n \in Nat
    OBVIOUS
  <2> HIDE DEF p, r
  <2>4. s \in Seq(SessionLine) /\ s \in Seq(Unwiped(c)) /\ <<p>> \in Seq(SessionLine) /\ <<p>> \in Seq(Unwiped(c))
    BY <2>2, <2>3, IsASeq DEF p, r
  <2> HIDE DEF s
  <2>5. line = <<p>> \o s
    BY <2>1 DEF p, r, s
  <2> QED  BY <2>4, <2>5, ConcatProperties
<1> QED  BY <1>3, <1>4 DEF PiecesOf

LEMMA SeenInvInit == SessionInit => SeenInv
<1> SUFFICES ASSUME SessionInit PROVE SeenInv
  OBVIOUS
<1>1. MaxTurns \in Nat
  BY SessionAssumption, Zenon DEF SessionAssumption
<1>2. /\ fileOf = [c \in SessionChat |-> <<>>] /\ legacyOf = LegacyLines
      /\ turnOf = Resting /\ wiped = [c \in SessionChat |-> {}] /\ turns = 0
  BY DEF SessionInit
<1> DEFINE Old == [turn : {0}, role : {"user", "assistant"}, as : Kind, size : LineSize \cup {0}]
<1>3. Old \subseteq SessionLine
  BY <1>1 DEF SessionLine
<1>4. LegacyLines \in [SessionChat -> Seq(Old)]
  BY SessionAssumption, Zenon DEF SessionAssumption
<1> HIDE DEF Old
<1>5. ASSUME NEW c \in SessionChat
      PROVE  LegacyLines[c] \in Seq(SessionLine) /\ LegacyLines[c] \in Seq(Unwiped(c))
  <2>1. LegacyLines[c] \in Seq(Old)
    BY <1>4
  <2>2. Unwiped(c) = SessionLine
    BY <1>2 DEF Unwiped
  <2> QED  BY <1>3, <2>1, <2>2, SeqMonotonic
<1>6. LegacyLines \in [SessionChat -> Seq(SessionLine)]
  BY <1>4, <1>5
<1>7. \A c \in SessionChat : fileOf[c] \in Seq(Unwiped(c)) /\ legacyOf[c] \in Seq(Unwiped(c))
  BY <1>2, <1>5
<1>8. turnOf.pc = "rest"
  BY <1>2 DEF Resting
<1> QED  BY <1>1, <1>2, <1>6, <1>7, <1>8 DEF SeenInv

LEMMA SeenInvStep == SeenInv /\ [SessionNext]_sessionVars => SeenInv'
<1> SUFFICES ASSUME SeenInv, [SessionNext]_sessionVars PROVE SeenInv'
  OBVIOUS
<1>1. MaxTurns \in Nat /\ turns \in 0 .. MaxTurns
  <2>1. MaxTurns \in Nat
    BY SessionAssumption, Zenon DEF SessionAssumption
  <2> QED  BY <2>1 DEF SeenInv
<1>2. /\ fileOf \in [SessionChat -> Seq(SessionLine)] /\ legacyOf \in [SessionChat -> Seq(SessionLine)]
      /\ wiped \in [SessionChat -> SUBSET (0 .. turns)]
      /\ \A c \in SessionChat : fileOf[c] \in Seq(Unwiped(c)) /\ legacyOf[c] \in Seq(Unwiped(c))
      /\ turnOf.pc \in {"rest", "user", "assistant"}
      /\ turnOf.pc # "rest" => turnOf = [pc |-> turnOf.pc, chat |-> turnOf.chat, turn |-> turnOf.turn,
                                         history |-> turnOf.history]
      /\ turnOf.pc # "rest" => /\ turnOf.turn = turns /\ turnOf.chat \in SessionChat
                               /\ \A c \in SessionChat : turns \notin wiped[c]
  BY DEF SeenInv
<1>3. ASSUME NEW c \in SessionChat, TurnBegins(c) PROVE SeenInv'
  <2>1. /\ turns' = turns + 1 /\ turns < MaxTurns
        /\ turnOf' = [pc |-> "user", chat |-> c, turn |-> turns', history |-> History(c)]
        /\ UNCHANGED <<fileOf, legacyOf, wiped>>
    BY <1>3 DEF TurnBegins
  <2>2. turns' \in 0 .. MaxTurns /\ 0 .. turns \subseteq 0 .. turns' /\ turns' \notin 0 .. turns
    BY <1>1, <2>1
  <2>3. wiped' \in [SessionChat -> SUBSET (0 .. turns')] /\ \A d \in SessionChat : turns' \notin wiped'[d]
    BY <1>2, <2>1, <2>2
  <2>4. turnOf'.pc = "user" /\ turnOf'.chat = c /\ turnOf'.turn = turns'
    BY <2>1
  <2>5. \A d \in SessionChat : Unwiped(d)' = Unwiped(d)
    BY <2>1 DEF Unwiped
  <2> QED  BY <1>2, <1>3, <2>1, <2>2, <2>3, <2>4, <2>5 DEF SeenInv
\* Saving a line of the turn that is under way, or of none.
<1>4. ASSUME NEW role \in {"user", "assistant"}, turnOf.pc # "rest", Saved(role) \/ UNCHANGED fileOf,
             UNCHANGED <<legacyOf, wiped, turns>>,
             turnOf' = Resting \/ turnOf' = [turnOf EXCEPT !.pc = "assistant"]
      PROVE  SeenInv'
  <2>1. \A d \in SessionChat : Unwiped(d)' = Unwiped(d)
    BY <1>4 DEF Unwiped
  <2>2. \/ turnOf' = Resting /\ turnOf'.pc = "rest"
        \/ /\ turnOf'.pc = "assistant" /\ turnOf'.turn = turnOf.turn /\ turnOf'.chat = turnOf.chat
           /\ turnOf' = [pc |-> turnOf'.pc, chat |-> turnOf'.chat, turn |-> turnOf'.turn,
                         history |-> turnOf'.history]
    <3>1. CASE turnOf' = Resting
      BY <3>1 DEF Resting
    <3>2. CASE turnOf' = [turnOf EXCEPT !.pc = "assistant"]
      <4> DEFINE p == turnOf.pc  c == turnOf.chat  t == turnOf.turn  h == turnOf.history
      <4>1. turnOf = [pc |-> p, chat |-> c, turn |-> t, history |-> h]
        BY <1>2, <1>4
      <4> HIDE DEF p, c, t, h
      <4>2. turnOf' = [pc |-> "assistant", chat |-> c, turn |-> t, history |-> h]
        BY <3>2, <4>1
      <4> QED  BY <4>2 DEF c, t
    <3> QED  BY <1>4, <3>1, <3>2
  <2>3. /\ fileOf' \in [SessionChat -> Seq(SessionLine)]
        /\ \A d \in SessionChat : fileOf'[d] \in Seq(Unwiped(d))
    <3>1. CASE UNCHANGED fileOf
      BY <1>2, <3>1
    <3>2. ASSUME NEW line \in PiecesOf(role),
                 fileOf' = [fileOf EXCEPT ![turnOf.chat] = @ \o line]
          PROVE  /\ fileOf' \in [SessionChat -> Seq(SessionLine)]
                 /\ \A d \in SessionChat : fileOf'[d] \in Seq(Unwiped(d))
      <4> DEFINE c == turnOf.chat
      <4>1. c \in SessionChat /\ turnOf.turn = turns /\ turns \notin wiped[c]
        BY <1>2, <1>4
      <4>2. line \in Seq(SessionLine) /\ line \in Seq(Unwiped(c))
        BY <1>1, <1>4, <4>1, PiecesIs
      <4>3. fileOf' = [fileOf EXCEPT ![c] = fileOf[c] \o line]
        BY <3>2
      <4> HIDE DEF c
      <4>4. fileOf[c] \o line \in Seq(SessionLine) /\ fileOf[c] \o line \in Seq(Unwiped(c))
        BY <1>2, <4>1, <4>2, ConcatProperties
      <4> QED  BY <1>2, <4>1, <4>3, <4>4
    <3> QED  BY <1>4, <3>1, <3>2 DEF Saved
  <2> QED  BY <1>1, <1>2, <1>4, <2>1, <2>2, <2>3 DEF SeenInv
<1>5. CASE UserSaved
  BY <1>4, <1>5 DEF UserSaved
<1>6. CASE AssistantSaved
  BY <1>4, <1>6 DEF AssistantSaved
<1>7. ASSUME NEW c \in SessionChat, SessionClear(c) PROVE SeenInv'
  <2> DEFINE W == IF turnOf.pc # "rest" THEN 0 .. turns - 1 ELSE 0 .. turns
  <2>1. /\ fileOf' = [fileOf EXCEPT ![c] = <<>>] /\ legacyOf' = [legacyOf EXCEPT ![c] = <<>>]
        /\ wiped' = [wiped EXCEPT ![c] = W]
        /\ UNCHANGED <<turnOf, turns>>
    BY <1>7 DEF SessionClear
  <2>2. W \subseteq 0 .. turns /\ (turnOf.pc # "rest" => turns \notin W)
    BY <1>1
  <2> HIDE DEF W
  <2>3. /\ wiped' \in [SessionChat -> SUBSET (0 .. turns)] /\ wiped'[c] = W
        /\ \A d \in SessionChat : d # c => wiped'[d] = wiped[d]
    BY <1>2, <2>1, <2>2
  <2>4. /\ fileOf' \in [SessionChat -> Seq(SessionLine)] /\ legacyOf' \in [SessionChat -> Seq(SessionLine)]
        /\ fileOf'[c] = <<>> /\ legacyOf'[c] = <<>>
        /\ \A d \in SessionChat : d # c => fileOf'[d] = fileOf[d] /\ legacyOf'[d] = legacyOf[d]
    BY <1>2, <2>1
  <2>5. ASSUME NEW d \in SessionChat
        PROVE  fileOf'[d] \in Seq(Unwiped(d)') /\ legacyOf'[d] \in Seq(Unwiped(d)')
    <3>1. CASE d = c
      BY <2>4, <3>1
    <3>2. CASE d # c
      <4>1. Unwiped(d)' = Unwiped(d)
        BY <2>3, <3>2 DEF Unwiped
      <4> QED  BY <1>2, <2>4, <3>2, <4>1
    <3> QED  BY <3>1, <3>2
  <2> QED  BY <1>1, <1>2, <2>1, <2>2, <2>3, <2>4, <2>5 DEF SeenInv
<1>8. CASE UNCHANGED sessionVars
  <2>1. UNCHANGED <<fileOf, legacyOf, turnOf, wiped, turns>>
    BY <1>8 DEF sessionVars
  <2>2. \A d \in SessionChat : Unwiped(d)' = Unwiped(d)
    BY <2>1 DEF Unwiped
  <2> QED  BY <1>1, <1>2, <2>1, <2>2 DEF SeenInv
<1> QED  BY <1>3, <1>5, <1>6, <1>7, <1>8 DEF SessionNext

\* What is opened is read into the last of what parses, and none of it was cleared.
LEMMA SeenIsRecent == SeenInv => HistoryIsRecent
<1> SUFFICES ASSUME SeenInv, NEW c \in SessionChat
             PROVE  LET parsed   == Parsed(Opened(c))
                        messages == Messages(parsed)
                        kept     == RingRead(Opened(c))
                    IN  /\ kept = Messages(LastOf(parsed))
                        /\ kept = SubSeq(messages, Len(messages) - Len(kept) + 1, Len(messages))
                        /\ History(c) \in {<<>>, kept}
                        /\ \A i \in 1 .. Len(History(c)) : History(c)[i].turn \notin wiped[c]
  BY DEF HistoryIsRecent
<1> DEFINE parsed == Parsed(Opened(c))
           kept   == RingRead(Opened(c))
<1>1. Opened(c) \in Seq(Unwiped(c)) /\ Unwiped(c) \in SUBSET SessionLine
  BY DEF Opened, SeenInv, Unwiped
<1>2. RingHolds(Unwiped(c), Ring(Opened(c)), parsed)
  BY <1>1, ReadingLoop
<1>3. FromOldest(Opened(c)) = ReadOut(Ring(Opened(c)))
  BY DEF FromOldest, ReadOut
<1> HIDE DEF parsed
<1>4. /\ FromOldest(Opened(c)) = LastOf(parsed) /\ LastOf(parsed) \in Seq(Unwiped(c))
      /\ parsed \in Seq(Unwiped(c))
  BY <1>2, <1>3, RingReadsLast
<1>5. PICK first \in 1 .. Len(parsed) + 1 :
         /\ Len(LastOf(parsed)) = Len(parsed) - first + 1
         /\ \A i \in 1 .. Len(LastOf(parsed)) : LastOf(parsed)[i] = parsed[first - 1 + i]
  BY <1>2, RingReadsLast
<1>6. kept = Messages(LastOf(parsed))
  BY <1>4 DEF RingRead
<1>7. /\ kept = SubSeq(Messages(parsed), Len(Messages(parsed)) - Len(kept) + 1, Len(Messages(parsed)))
      /\ kept \in Seq(Unwiped(c))
  <2> HIDE DEF kept
  <2> DEFINE q == LastOf(parsed)
  <2>1. q \in Seq(Unwiped(c)) /\ Len(q) = Len(parsed) - first + 1
        /\ \A i \in 1 .. Len(q) : q[i] = parsed[first - 1 + i]
    BY <1>4, <1>5
  <2>2. kept = Messages(q)
    BY <1>6
  <2> HIDE DEF q
  <2> QED  BY <1>4, <2>1, <2>2, LastMessages
<1>8. History(c) \in {<<>>, kept}
  BY DEF History
<1> HIDE DEF kept
<1>9. ASSUME NEW i \in 1 .. Len(History(c)) PROVE History(c)[i].turn \notin wiped[c]
  <2>1. History(c) \in Seq(Unwiped(c))
    BY <1>7, <1>8
  <2>2. History(c)[i] \in Unwiped(c)
    BY <2>1
  <2> QED  BY <2>2 DEF Unwiped
<1> QED  BY <1>6, <1>7, <1>8, <1>9 DEF kept, parsed

\* The history of a turn is what is a message of the last lines and pieces that parse: the most
\* recent messages in their order, and nothing of it is from before the last clear
\* (session_get_history_json, session_clear), for any number of chats, lines, pieces and turns, any
\* sizes of lines and any size of the ring.
THEOREM HistoryRecent == SessionSpec => []HistoryIsRecent
BY SeenInvInit, SeenInvStep, SeenIsRecent, PTL DEF SessionSpec

-----------------------------------------------------------------------------
(* The services side by side. *)

\* A summary that is there has a text for every skill file.
SkillTypes ==
    /\ SkillInv
    /\ summary \in {NoSummary} \cup [there : {TRUE}, shows : [SkillFile -> Text]]
    /\ outrun \in BOOLEAN /\ cut \in BOOLEAN

LEMMA SkillTypesInit == SkillInit => SkillTypes
BY SkillInvInit DEF SkillInit, SkillTypes

LEMMA SkillTypesStep == SkillTypes /\ [SkillNext]_skillVars => SkillTypes'
<1> SUFFICES ASSUME SkillTypes, [SkillNext]_skillVars PROVE SkillTypes'
  OBVIOUS
<1>0. SkillInv /\ SkillInv' /\ doing \in [SkillTask -> Doing]
  BY SkillInvStep DEF SkillTypes, SkillInv
<1>1. CASE UNCHANGED <<summary, outrun, cut>>
  BY <1>0, <1>1 DEF SkillTypes
<1>2. ASSUME NEW t \in SkillTask, WriteEnds(t) PROVE SkillTypes'
  <2>1. UNCHANGED <<summary, outrun>> /\ cut' \in BOOLEAN
    BY <1>2 DEF WriteEnds, SkillTypes
  <2> QED  BY <1>0, <2>1 DEF SkillTypes
<1>3. ASSUME NEW t \in SkillTask, SummaryCached(t) PROVE SkillTypes'
  <2>1. doing[t].shows \in [SkillFile -> Text]
    BY <1>0, <1>3 DEF SummaryCached, Doing
  <2>2. /\ summary' = [there |-> TRUE, shows |-> doing[t].shows]
        /\ outrun' \in BOOLEAN /\ cut' = cut
    BY <1>3 DEF SummaryCached, SkillTypes
  <2> QED  BY <1>0, <2>1, <2>2 DEF SkillTypes
<1>4. CASE SummaryForgotten \/ \E t \in SkillTask : SummaryDropped(t)
  BY <1>0, <1>4 DEF SummaryForgotten, SummaryDropped, SkillTypes
<1> QED
  BY <1>1, <1>2, <1>3, <1>4
  DEF SkillNext, SkillTaskStep, skillVars, WriteOpens, EditReads, EditOpens, SummaryBuilt

LEMMA SkillShowsTypes == SkillTypes => SkillTypeOK
<1> SUFFICES ASSUME SkillTypes PROVE SkillTypeOK
  OBVIOUS
<1>1. summary.there => summary.shows \in [SkillFile -> Text]
  <2>1. CASE summary = NoSummary
    BY <2>1 DEF NoSummary
  <2>2. CASE summary \in [there : {TRUE}, shows : [SkillFile -> Text]]
    BY <2>2
  <2> QED  BY <2>1, <2>2 DEF SkillTypes
<1>2. \A t \in SkillTask : doing[t].pc \in {"idle", "edit", "write", "drop", "built"}
  BY DEF SkillTypes, SkillInv, Doing
<1> QED  BY <1>1, <1>2 DEF SkillTypes, SkillInv, SkillTypeOK

\* Whose semaphore was given has a result, also where the caller and the task cross.
SubTypes ==
    /\ spawns \in 0 .. MaxSpawns
    /\ caller \in [pc : {"idle"}] \cup [pc : {"wait", "abandon"}, on : Context]
    /\ subTask \in [Context -> SubRecord]
    /\ given \subseteq Context /\ abandoned \subseteq Context /\ subCrossed \subseteq Context
    /\ subRan \subseteq SubTool /\ subAnswer \in [Context -> Answers]
    /\ \A x \in Context : /\ x \in given => subTask[x].pc \in {"look", "ended"}
                          /\ subTask[x].pc # "unborn" => x <= spawns

LEMMA SubTypesInit == SubInit => SubTypes
BY SubAssumption DEF SubInit, SubTypes, SubRecord, Unborn, Context, Answers

LEMMA SubTypesStep == SubTypes /\ [SubNext]_subVars => SubTypes'
<1> SUFFICES ASSUME SubTypes, [SubNext]_subVars PROVE SubTypes'
  OBVIOUS
<1>0. /\ spawns \in 0 .. MaxSpawns /\ MaxSpawns \in Nat /\ Context = 1 .. MaxSpawns
      /\ caller \in [pc : {"idle"}] \cup [pc : {"wait", "abandon"}, on : Context]
      /\ subTask \in [Context -> SubRecord]
      /\ given \subseteq Context /\ abandoned \subseteq Context /\ subCrossed \subseteq Context
      /\ subRan \subseteq SubTool
      /\ subAnswer \in [Context -> Answers]
      /\ \A x \in Context : /\ x \in given => subTask[x].pc \in {"look", "ended"}
                            /\ subTask[x].pc # "unborn" => x <= spawns
  BY SubAssumption DEF SubTypes, Context
<1>1. CASE Spawn
  <2> DEFINE n == spawns + 1
  <2>1. n \in Context /\ spawns' = n /\ spawns' \in 0 .. MaxSpawns /\ ~(n <= spawns)
    <3>1. spawns' = n /\ spawns < MaxSpawns
      BY <1>1 DEF Spawn
    <3> QED  BY <1>0, <3>1
  <2>2. n \notin given
    BY <1>0, <2>1
  <2>3. \A x \in Context : x <= spawns => x <= spawns'
    BY <1>0, <2>1
  <2>4. UNCHANGED <<given, abandoned, subCrossed, subRan>>
    BY <1>1 DEF Spawn
  <2> HIDE DEF n
  <2>5. CASE /\ caller' = [pc |-> "wait", on |-> spawns']
             /\ Step(spawns', [pc |-> "think", iter |-> 0])
             /\ UNCHANGED subAnswer
    <3>1. subTask' = [subTask EXCEPT ![n] = [pc |-> "think", iter |-> 0]]
      BY <2>1, <2>5 DEF Step
    <3>2. [pc |-> "think", iter |-> 0] \in SubRecord
      BY DEF SubRecord
    <3>3. subTask' \in [Context -> SubRecord]
      BY <1>0, <3>1, <3>2
    <3>4. \A x \in Context : /\ x \in given => subTask'[x].pc \in {"look", "ended"}
                             /\ subTask'[x].pc # "unborn" => x <= spawns'
      <4>1. \A x \in Context : x # n => subTask'[x] = subTask[x]
        BY <1>0, <3>1
      <4>2. n <= spawns'
        BY <1>0, <2>1
      <4> QED  BY <1>0, <2>2, <2>3, <4>1, <4>2
    <3> QED  BY <1>0, <2>1, <2>4, <2>5, <3>3, <3>4 DEF SubTypes
  <2>6. CASE /\ subAnswer' = [subAnswer EXCEPT ![spawns'] = "setup failed"]
             /\ UNCHANGED <<caller, subTask>>
    <3>1. subAnswer' \in [Context -> Answers]
      BY <1>0, <2>6 DEF Answers
    <3> QED  BY <1>0, <2>1, <2>3, <2>4, <2>6, <3>1 DEF SubTypes
  <2> QED  BY <1>1, <2>5, <2>6 DEF Spawn
<1>2. CASE CallerStep
  <2>1. caller.on \in Context
    BY <1>0, <1>2 DEF CallerStep, Collect, TimeOut, Abandon
  <2>2. /\ UNCHANGED <<spawns, subTask, given, subRan>>
        /\ caller' \in [pc : {"idle"}] \cup [pc : {"wait", "abandon"}, on : Context]
        /\ abandoned' \subseteq Context /\ subCrossed' \subseteq Context
    <3>1. /\ [pc |-> "idle"] \in [pc : {"idle"}]
          /\ [pc |-> "abandon", on |-> caller.on] \in [pc : {"wait", "abandon"}, on : Context]
          /\ abandoned \cup {caller.on} \subseteq Context /\ subCrossed \cup {caller.on} \subseteq Context
      BY <1>0, <2>1
    <3> QED  BY <1>0, <1>2, <3>1 DEF CallerStep, Collect, CollectCrosses, TimeOut, Abandon
  <2>3. subAnswer' \in [Context -> Answers]
    <3>1. CASE Collect
      <4>1. subTask[caller.on].pc \in {"look", "ended"} /\ subTask[caller.on] \in SubRecord
        BY <1>0, <2>1, <3>1 DEF Collect
      <4>2. subTask[caller.on].result \in Answers
        BY <4>1 DEF SubRecord
      <4> QED  BY <1>0, <3>1, <4>2 DEF Collect
    <3>2. CASE TimeOut \/ Abandon
      BY <1>0, <3>2 DEF TimeOut, Abandon, Answers
    <3> QED  BY <1>2, <3>1, <3>2 DEF CallerStep
  <2> QED  BY <1>0, <2>2, <2>3 DEF SubTypes
<1>3. ASSUME NEW x \in Context, NEW to \in SubRecord, Step(x, to), subTask[x].pc # "unborn",
             to.pc # "unborn", given' \subseteq given \cup {x},
             x \in given' => to.pc \in {"look", "ended"},
             subRan' \subseteq SubTool, subCrossed' \subseteq subCrossed \cup {x},
             UNCHANGED <<spawns, caller, abandoned, subAnswer>>
      PROVE  SubTypes'
  <2>1. subTask' \in [Context -> SubRecord] /\ subTask'[x] = to
    BY <1>0, <1>3 DEF Step
  <2>2. \A y \in Context : y # x => subTask'[y] = subTask[y]
    BY <1>0, <1>3 DEF Step
  <2>3. \A y \in Context : /\ y \in given' => subTask'[y].pc \in {"look", "ended"}
                           /\ subTask'[y].pc # "unborn" => y <= spawns'
    BY <1>0, <1>3, <2>1, <2>2
  <2> QED  BY <1>0, <1>3, <2>1, <2>3 DEF SubTypes
<1>4. ASSUME NEW x \in Context, SubThinks(x) PROVE SubTypes'
  <2>1. subTask[x].pc = "think" /\ subTask[x].iter \in Nat
    BY <1>0, <1>4 DEF SubThinks, SubRecord
  <2>2. x \notin given
    BY <1>0, <2>1
  <2>3. \E to \in SubRecord : to.pc # "unborn" /\ Step(x, to)
    <3>1. /\ [pc |-> "give", result |-> "llm failed"] \in SubRecord
          /\ [pc |-> "give", result |-> "answer"] \in SubRecord
          /\ [pc |-> "give", result |-> "iterations"] \in SubRecord
          /\ [pc |-> "think", iter |-> subTask[x].iter + 1] \in SubRecord
      BY <2>1 DEF SubRecord, Answers
    <3>2. \/ Step(x, [pc |-> "give", result |-> "llm failed"])
          \/ Step(x, [pc |-> "give", result |-> "answer"])
          \/ Step(x, [pc |-> "give", result |-> "iterations"])
          \/ Step(x, [pc |-> "think", iter |-> subTask[x].iter + 1])
      BY <1>4, Zenon DEF SubThinks
    <3> QED  BY <3>1, <3>2
  <2>4. subRan' \subseteq SubTool
    <3>1. subRan' = subRan \/ \E tools \in SUBSET SubTool : subRan' = subRan \cup (tools \cap SubAllowed)
      BY <1>4 DEF SubThinks, Runs
    <3> QED  BY <1>0, <3>1
  <2>5. UNCHANGED <<spawns, caller, given, abandoned, subCrossed, subAnswer>>
    BY <1>4 DEF SubThinks
  <2> QED  BY <1>3, <2>1, <2>2, <2>3, <2>4, <2>5
<1>5. ASSUME NEW x \in Context, SubGives(x) \/ SubLooks(x) PROVE SubTypes'
  <2>1. subTask[x] \in [pc : {"give", "look"}, result : Answers]
    BY <1>0, <1>5 DEF SubGives, SubLooks, SubRecord
  <2>2. /\ [subTask[x] EXCEPT !.pc = "look"] \in SubRecord
        /\ [subTask[x] EXCEPT !.pc = "look"].pc = "look"
        /\ [subTask[x] EXCEPT !.pc = "ended"] \in SubRecord
        /\ [subTask[x] EXCEPT !.pc = "ended"].pc = "ended"
    BY <2>1 DEF SubRecord
  <2>3. /\ given' \subseteq given \cup {x} /\ UNCHANGED <<spawns, caller, abandoned, subAnswer, subRan>>
        /\ subCrossed' \subseteq subCrossed \cup {x}
        /\ \/ Step(x, [subTask[x] EXCEPT !.pc = "look"])
           \/ Step(x, [subTask[x] EXCEPT !.pc = "ended"])
    BY <1>5 DEF SubGives, SubLooks
  <2> QED  BY <1>0, <1>3, <2>1, <2>2, <2>3
<1>6. CASE UNCHANGED subVars
  BY <1>0, <1>6 DEF subVars, SubTypes
<1> QED  BY <1>1, <1>2, <1>4, <1>5, <1>6 DEF SubNext, SubStep

LEMMA SubShowsTypes == SubTypes => SubTypeOK
BY DEF SubTypes, SubTypeOK, SubRecord

\* The counters, the worker of the heartbeat, and where the readers stand.
CheckTypes ==
    /\ ChecksInv /\ overlapped \in BOOLEAN /\ unsaved \in BOOLEAN /\ mixedCheck \in BOOLEAN
    /\ notes <= MaxNotes
    /\ \A c \in Checker : checking[c].pc \in {"rest", "chat"}
    /\ worker \in {"none", "push", "end"} /\ beatWorker \in BOOLEAN
    /\ beats \in 0 .. MaxBeats /\ noteBoots \in 0 .. MaxNoteBoots

LEMMA CheckTypesInit == ChecksInit => CheckTypes
<1> SUFFICES ASSUME ChecksInit PROVE CheckTypes
  OBVIOUS
<1>1. \A c \in Checker : checking[c].pc = "rest"
  BY DEF ChecksInit, AtEase
<1>2. ChecksInv
  BY ChecksInvInit
<1>3. /\ notes <= MaxNotes /\ beats \in 0 .. MaxBeats /\ noteBoots \in 0 .. MaxNoteBoots
      /\ worker = "none"
  <2>1. MaxNotes \in Nat /\ MaxBeats \in Nat /\ MaxNoteBoots \in Nat
    BY ChecksAssumption, Zenon
  <2>2. notes = 0 /\ beats = 0 /\ noteBoots = 0 /\ worker = "none"
    BY DEF ChecksInit
  <2> QED  BY <2>1, <2>2
<1>4. overlapped \in BOOLEAN /\ unsaved \in BOOLEAN /\ mixedCheck \in BOOLEAN /\ beatWorker \in BOOLEAN
  BY Zenon DEF ChecksInit
<1> QED  BY <1>1, <1>2, <1>3, <1>4 DEF CheckTypes

LEMMA CheckTypesStep == CheckTypes /\ [ChecksNext]_checkVars => CheckTypes'
<1> SUFFICES ASSUME CheckTypes, [ChecksNext]_checkVars PROVE CheckTypes'
  OBVIOUS
<1>0. /\ ChecksInv /\ ChecksInv' /\ notes \in Nat /\ notes <= MaxNotes
      /\ overlapped \in BOOLEAN /\ unsaved \in BOOLEAN /\ mixedCheck \in BOOLEAN
      /\ checking = [c \in Checker |-> checking[c]]
      /\ \A c \in Checker : checking[c].pc \in {"rest", "chat"}
      /\ worker \in {"none", "push", "end"} /\ beatWorker \in BOOLEAN
      /\ beats \in 0 .. MaxBeats /\ noteBoots \in 0 .. MaxNoteBoots
      /\ MaxNotes \in Nat /\ MaxBeats \in Nat /\ MaxNoteBoots \in Nat
  BY ChecksInvStep, ChecksAssumption DEF CheckTypes, ChecksInv
<1>1. ASSUME NEW n \in Noter, NEW c \in Contact, NoteBegins(n, c) PROVE CheckTypes'
  <2>1. /\ notes' = notes + 1 /\ notes < MaxNotes /\ unsaved' = FALSE
        /\ UNCHANGED <<mixedCheck, checking, beatVars, noteBoots>>
    BY <1>1 DEF NoteBegins
  <2>2. overlapped' \in BOOLEAN
    BY <1>1, Zenon DEF NoteBegins
  <2>3. notes' <= MaxNotes
    BY <1>0, <2>1
  <2> QED  BY <1>0, <2>1, <2>2, <2>3 DEF CheckTypes, beatVars
<1>2. CASE NoteStep
  <2>1. UNCHANGED <<notes, overlapped, mixedCheck, checking, beatVars, noteBoots>>
    BY <1>2 DEF NoteStep, NoteSteps, NoteSaves
  <2>2. unsaved' \in BOOLEAN
    BY <1>0, <1>2 DEF NoteStep, NoteSteps, NoteSaves
  <2> QED  BY <1>0, <2>1, <2>2 DEF CheckTypes, beatVars
<1>3. ASSUME NEW c \in Checker, CheckReads(c) \/ CheckAsks(c) PROVE CheckTypes'
  <2>1. UNCHANGED <<notes, overlapped, unsaved, beatVars, noteBoots>>
    BY <1>3 DEF CheckReads, CheckAsks, targetVars
  <2>2. \E to : checking' = [checking EXCEPT ![c] = to] /\ to.pc \in {"rest", "chat"}
    BY <1>3 DEF CheckReads, CheckAsks, AtEase
  <2>3. \A d \in Checker : checking'[d].pc \in {"rest", "chat"}
    BY <1>0, <2>2
  <2>4. mixedCheck' \in BOOLEAN
    <3>1. mixedCheck' = mixedCheck \/ mixedCheck' \in BOOLEAN
      BY <1>3, Zenon DEF CheckReads, CheckAsks
    <3> QED  BY <1>0, <3>1, Zenon
  <2> QED  BY <1>0, <2>1, <2>3, <2>4 DEF CheckTypes, beatVars
<1>4. CASE BeatFires \/ BeatStep
  <2>1. /\ UNCHANGED <<notes, overlapped, unsaved, mixedCheck, checking, noteBoots>>
        /\ worker' \in {"none", "push", "end"} /\ beatWorker' \in BOOLEAN /\ beats' \in 0 .. MaxBeats
    <3>1. CASE BeatFires
      <4>1. beats' = beats + 1 /\ beats < MaxBeats
        BY <3>1 DEF BeatFires
      <4>2. beats' \in 0 .. MaxBeats
        BY <1>0, <4>1
      <4>3. \/ beatWorker' = beatWorker /\ worker' = worker
            \/ beatWorker' = TRUE /\ worker' = "push"
        BY <3>1 DEF BeatFires
      <4>4. UNCHANGED <<notes, overlapped, unsaved, mixedCheck, checking, noteBoots>>
        BY <3>1 DEF BeatFires, targetVars
      <4> QED  BY <1>0, <4>2, <4>3, <4>4
    <3>2. CASE BeatStep
      BY <1>0, <3>2 DEF BeatStep, BeatSends, BeatEnds, targetVars
    <3> QED  BY <1>4, <3>1, <3>2
  <2> QED  BY <1>0, <2>1 DEF CheckTypes
<1>5. CASE ChecksReboot
  <2>1. /\ UNCHANGED <<notes, beats, unsaved, mixedCheck>> /\ overlapped' \in BOOLEAN /\ noteBoots' \in 0 .. MaxNoteBoots
        /\ worker' = "none" /\ beatWorker' = FALSE
    <3>1. noteBoots' = noteBoots + 1 /\ noteBoots < MaxNoteBoots
      BY <1>5 DEF ChecksReboot
    <3>2. noteBoots' \in 0 .. MaxNoteBoots
      BY <1>0, <3>1
    <3>3. overlapped' = (overlapped \/ unsaved \/ \E n \in Noter : noting[n] # AtEase)
      BY <1>5 DEF ChecksReboot
    <3>4. overlapped' \in BOOLEAN
      BY <3>3, Zenon
    <3>5. UNCHANGED <<notes, beats, unsaved, mixedCheck>> /\ worker' = "none" /\ beatWorker' = FALSE
      BY <1>5 DEF ChecksReboot
    <3> QED  BY <3>2, <3>4, <3>5
  <2>2. \A c \in Checker : checking'[c].pc = "rest"
    BY <1>5 DEF ChecksReboot, AtEase
  <2> QED  BY <1>0, <2>1, <2>2 DEF CheckTypes
<1>6. CASE UNCHANGED checkVars
  BY <1>0, <1>6 DEF checkVars, targetVars, beatVars, CheckTypes
<1> QED  BY <1>1, <1>2, <1>3, <1>4, <1>5, <1>6 DEF ChecksNext

LEMMA CheckShowsTypes == CheckTypes => ChecksTypeOK
<1> SUFFICES ASSUME CheckTypes PROVE ChecksTypeOK
  OBVIOUS
<1>1. \A n \in Noter : noting[n].pc \in {"rest", "channel", "chat", "save", "saved"}
  BY DEF CheckTypes, ChecksInv, Talker
<1>2. notes \in 0 .. MaxNotes
  <2>1. MaxNotes \in Nat
    BY ChecksAssumption, Zenon
  <2>2. notes \in Nat /\ notes <= MaxNotes
    BY DEF CheckTypes, ChecksInv
  <2> QED  BY <2>1, <2>2
<1>3. hasTarget \in BOOLEAN /\ overlapped \in BOOLEAN /\ unsaved \in BOOLEAN /\ mixedCheck \in BOOLEAN
  BY Zenon DEF CheckTypes, ChecksInv
<1> QED  BY <1>1, <1>2, <1>3 DEF CheckTypes, ChecksTypeOK

LEMMA CacheShowsTypes == BytesInv => CacheTypeOK /\ BytesCounted /\ KeyOnce
BY DEF BytesInv, CacheInv, CacheTypeOK

\* A step of them all is a step of each, or leaves it alone.
LEMMA ServicesStepEach ==
    ASSUME [ServicesNext]_servicesVars
    PROVE  /\ [CacheNext]_cacheVars /\ [SkillNext]_skillVars /\ [SessionNext]_sessionVars
           /\ [SubNext]_subVars /\ [TurnNext]_turnVars /\ [SettingsNext]_settingsVars
           /\ [ChecksNext]_checkVars
BY DEF ServicesNext, servicesVars, IsPart, NotCache, NotSkills, NotSession, NotSub, NotTurn,
       NotSend, NotSettings, NotChecks

\* The invariants of the services together.
ServicesInv == BytesInv /\ SkillTypes /\ SeenInv /\ SubTypes /\ TalkInv /\ SetInv /\ CheckTypes

\* The types of the services when they are side by side, however the caller of a subagent and its
\* task cross; and in the cache the bytes are counted right and no key is twice (cache_store.c).
THEOREM ServicesAreSound == ServicesSpec => []ServicesSound
<1>1. ServicesInit => ServicesInv
  BY BytesInvInit, SkillTypesInit, SeenInvInit, SubTypesInit, TalkInvInit, SetInvInit, CheckTypesInit
  DEF ServicesInit, ServicesInv
<1>2. ServicesInv /\ [ServicesNext]_servicesVars => ServicesInv'
  BY ServicesStepEach, BytesInvStep, SkillTypesStep, SeenInvStep, SubTypesStep, TalkInvStep,
     SetInvStep, CheckTypesStep
  DEF ServicesInv
<1>3. ServicesInv => ServicesSound
  <2> SUFFICES ASSUME ServicesInv PROVE ServicesSound
    OBVIOUS
  <2>1. SessionTypeOK /\ TurnTypeOK /\ SettingsTypeOK
    BY DEF ServicesInv, SeenInv, SessionTypeOK, TalkInv, SetInv
  <2> QED
    BY <2>1, CacheShowsTypes, SkillShowsTypes, SubShowsTypes, CheckShowsTypes
    DEF ServicesInv, ServicesSound
<1> QED  BY <1>1, <1>2, <1>3, PTL DEF ServicesSpec

LEMMA SendStepEach == [ServicesNext]_servicesVars => [FsSendNext]_fsSendVars
BY DEF ServicesNext, servicesVars, IsPart, NotCache, NotSkills, NotSession, NotSub, NotTurn,
       NotSend, NotSettings, NotChecks

\* A behaviour of the services side by side is a behaviour of each (of the turn, but for its
\* fairness): each keeps running while the others stay where they began.
THEOREM ServicesAreEach ==
    ServicesSpec => /\ CacheSpec /\ SkillSpec /\ SessionSpec /\ SubSpec
                    /\ TurnInit /\ [][TurnNext]_turnVars
                    /\ FsSendSpec /\ SettingsSpec /\ ChecksSpec
<1>1. ServicesInit => /\ CacheInit /\ SkillInit /\ SessionInit /\ SubInit
                      /\ TurnInit /\ FsSendInit /\ SettingsInit /\ ChecksInit
  BY DEF ServicesInit
<1>2. [ServicesNext]_servicesVars =>
         /\ [CacheNext]_cacheVars /\ [SkillNext]_skillVars /\ [SessionNext]_sessionVars
         /\ [SubNext]_subVars /\ [TurnNext]_turnVars /\ [FsSendNext]_fsSendVars
         /\ [SettingsNext]_settingsVars /\ [ChecksNext]_checkVars
  BY ServicesStepEach, SendStepEach
<1> QED
  BY <1>1, <1>2, PTL
  DEF ServicesSpec, CacheSpec, SkillSpec, SessionSpec, SubSpec, FsSendSpec, SettingsSpec,
      ChecksSpec

\* So what holds of each holds of them all: the prompt shows the skill files, a turn reads the
\* right history, its calls are answered and its reply is its own, the context of a subagent is
\* freed, parts arrive in order, settings survive, the target is a contact, and the cache is a map
\* that forgets.
THEOREM ServicesHold ==
    ServicesSpec => /\ [](/\ SummaryIsTrue /\ HistoryIsRecent /\ EveryCallAnswered /\ ReplyIsOwn
                          /\ ContextFreedOnce /\ PartsInOrder /\ SetSurvives /\ TargetIsContact)
                    /\ CacheIsMap
<1>1. TalkInv => EveryCallAnswered
  BY DEF TalkInv
<1>2. TurnInv => ReplyIsOwn
  BY DEF TurnInv
<1>3. TurnInit /\ [][TurnNext]_turnVars => [](EveryCallAnswered /\ ReplyIsOwn)
  BY <1>1, <1>2, TalkInvInit, TalkInvStep, TurnInvInit, TurnInvStep, PTL
<1> QED
  BY <1>3, ServicesAreEach, SummaryHolds, HistoryRecent, PartsOrdered, SettingsSurvive,
     TargetHolds, CacheKeepsMap, FreedOnce, PTL
=============================================================================
