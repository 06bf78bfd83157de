-------------------------- MODULE Automation_proofs --------------------------
(***************************************************************************)
(* Proofs about Automation for every number of slots, steps and readings   *)
(* and every threshold, interval and bound.                                *)
(*                                                                         *)
(* rule_task works on a copy while the slots change under it.  What keeps  *)
(* it honest is that ids are never given out twice: TaskOK says that the   *)
(* rule being worked on is in the task's slot or in none, and how the copy *)
(* and the action relate to what the rule did last; LateOK that a rule     *)
(* which acted after its removal is neither in a slot nor in the task's    *)
(* hand; IdsOK that removed rules are in no slot and on no line of the     *)
(* file, from which a reboot would bring them back.  That the file has the *)
(* rules that are active rests on where loading puts a line: the number of *)
(* lines up to it, which is another one for each (LinePlaces).             *)
(***************************************************************************)
EXTENDS Automation, Extrema, FiniteSetTheorems

RuleTypes ==
    /\ rules \in [Slot -> Rule \cup {NoRule}]
    /\ \A s, t \in Slot : Used(s) /\ Holds(t, rules[s].id) => s = t
    /\ file \in [Slot -> [id : RuleId, enabled : BOOLEAN] \cup {NoRule}]
    /\ saved \in {"whole", "torn", "failed"}
    /\ created \in 0 .. MaxCreates
    /\ removed \subseteq RuleId
    /\ fired \in [RuleId -> Firing]
    /\ late \in [RuleId -> Nat]
    /\ reboots \in Nat

TaskType ==
    \/ task = [pc |-> "asleep"]
    \/ task \in [pc : {"scan"}, from : 1 .. MaxRules + 1]
    \/ task \in [pc : {"read"}, slot : Slot, copy : Rule]
    \/ task \in [pc : {"act"}, slot : Slot, copy : Rule, branch : {-1, 1}]

WorkTypes ==
    /\ workflows \in [1 .. MaxWorkflows -> 0 .. MaxCreates]
    /\ runs \subseteq [id : RuleId, left : 0 .. MaxSteps]
    /\ dropped \subseteq RuleId

IdsOK ==
    /\ \A s \in Slot : Used(s) => rules[s].id <= created /\ rules[s].id \notin removed
    /\ \A s \in Slot : file[s] # NoRule => file[s].id <= created /\ file[s].id \notin removed
    /\ \A s, t \in Slot :
          file[s] # NoRule /\ file[t] # NoRule /\ file[s].id = file[t].id => s = t
    /\ \A id \in removed : id <= created
    /\ \A id \in RuleId : id > created => fired[id] = NotYet /\ late[id] = 0

Working == task.pc \in {"read", "act"}

TaskOK ==
    /\ Working => /\ task.copy.id <= created
                  /\ \A s \in Slot : Holds(s, task.copy.id) => s = task.slot
    /\ task.pc = "read" => task.copy.branch = fired[task.copy.id].branch
    /\ task.pc = "act" =>
          /\ task.branch = fired[task.copy.id].branch
          /\ Holds(task.slot, task.copy.id)
             => rules[task.slot].checkAge = fired[task.copy.id].check

LateOK ==
    \A id \in RuleId :
       /\ late[id] <= 1
       /\ late[id] = 1 => /\ \A s \in Slot : ~Holds(s, id)
                          /\ ~(task.pc = "read" /\ task.copy.id = id)

WorkOK ==
    /\ \A r, q \in runs : r.id = q.id => r = q
    /\ \A v, w \in 1 .. MaxWorkflows :
          workflows[v] # 0 /\ workflows[v] = workflows[w] => v = w
    /\ \A r \in runs : r.id <= created
    /\ \A w \in 1 .. MaxWorkflows : workflows[w] <= created
    /\ \A id \in dropped : id <= created
    /\ SlotIsTask

RulesInv == RuleTypes /\ TaskType /\ IdsOK /\ TaskOK /\ LateOK /\ MemoryIsTrue
WorkInv  == WorkTypes /\ WorkOK
Inv      == RulesInv /\ WorkInv

-----------------------------------------------------------------------------
(* Small facts. *)

\* Ages saturate: Older stays within them, and leaves the largest as it is.
LEMMA AgeFacts ==
    /\ Cap \in Nat /\ Cap \in Age /\ 0 \in Age
    /\ \A age \in Age : Older(age) \in Age
    /\ Older(Cap) = Cap
<1>1. Cap \in Nat
  BY AutomationAssumption DEF AutomationAssumption, Cap
<1> QED  BY <1>1 DEF Age, Older

\* The first of some slots is one of them.
LEMMA FirstMember ==
    ASSUME NEW S, S # {}, S \in SUBSET Slot \/ S \in SUBSET (1 .. MaxWorkflows)
    PROVE  First(S) \in S
<1>1. S \in SUBSET Nat
  BY AutomationAssumption DEF Slot, AutomationAssumption
<1>2. \E x \in S : \A y \in S : x <= y
  BY <1>1, LeastElement
<1> QED  BY <1>2 DEF First

\* The initial record of a rule.
LEMMA NewRuleType ==
    ASSUME NEW id \in RuleId, NEW enabled \in BOOLEAN
    PROVE  /\ NewRule(id, enabled) \in Rule
           /\ NewRule(id, enabled) # NoRule
           /\ NewRule(id, enabled).id = id
BY AgeFacts DEF NewRule, Rule, NoRule, RuleId

\* A rule is not the empty slot.
LEMMA RuleIsNoGap == \A r \in Rule : r # NoRule /\ r.id \in RuleId /\ r.id # 0
BY DEF Rule, NoRule, RuleId

\* What a slot holds is a rule.
LEMMA UsedRule ==
    ASSUME RuleTypes, NEW s \in Slot, Used(s)
    PROVE  rules[s] \in Rule
BY DEF RuleTypes, Used

\* Rewriting the file leaves lines of the given rules, each once, or fails and leaves
\* the old file.
LEMMA PersistFile ==
    ASSUME RuleTypes, IdsOK,
           NEW rs \in [Slot -> Rule \cup {NoRule}],
           \A s, t \in Slot : rs[s] # NoRule /\ rs[t] # NoRule /\ rs[s].id = rs[t].id => s = t,
           Persist(rs)
    PROVE  /\ file' \in [Slot -> [id : RuleId, enabled : BOOLEAN] \cup {NoRule}]
           /\ saved' \in {"whole", "torn", "failed"}
           /\ \A s, t \in Slot :
                 file'[s] # NoRule /\ file'[t] # NoRule /\ file'[s].id = file'[t].id => s = t
           /\ \/ \A s \in Slot : file'[s] # NoRule =>
                    \E t \in Slot : rs[t] # NoRule /\ rs[t].id = file'[s].id
              \/ file' = file /\ saved' = "failed"
<1>1. CASE file' = Stored(rs) /\ saved' = "whole"
  <2>1. \A s \in Slot : file'[s] = Line(rs[s])
    BY <1>1 DEF Stored
  <2>2. \A s \in Slot : rs[s] # NoRule =>
           /\ Line(rs[s]) \in [id : RuleId, enabled : BOOLEAN]
           /\ Line(rs[s]).id = rs[s].id
    BY DEF Line, Rule
  <2>3. \A s \in Slot : rs[s] = NoRule => Line(rs[s]) = NoRule
    BY DEF Line
  <2>4. file' \in [Slot -> [id : RuleId, enabled : BOOLEAN] \cup {NoRule}]
    BY <1>1, <2>1, <2>2, <2>3 DEF Stored
  <2>5. \A s \in Slot : file'[s] # NoRule => rs[s] # NoRule /\ rs[s].id = file'[s].id
    BY <2>1, <2>2, <2>3
  <2> QED  BY <1>1, <2>4, <2>5
<1>2. CASE file' = NoLines /\ saved' = "torn"
  BY <1>2 DEF NoLines
<1>3. CASE UNCHANGED file /\ saved' = "failed"
  BY <1>3 DEF RuleTypes, IdsOK
<1> QED  BY <1>1, <1>2, <1>3 DEF Persist

-----------------------------------------------------------------------------
(* The halves that do not disturb each other. *)

\* What rules do leaves the workflows as they are.
LEMMA RulesKeepWork ==
    ASSUME WorkInv, UNCHANGED workVars, created \in Nat, created' \in Nat, created <= created'
    PROVE  WorkInv'
<1>1. UNCHANGED <<workflows, runs, dropped>>
  BY DEF workVars
<1>2. WorkTypes'
  BY <1>1 DEF WorkInv, WorkTypes
<1>3. (\A r \in runs : r.id \in Nat) /\ (\A id \in dropped : id \in Nat)
      /\ (\A w \in 1 .. MaxWorkflows : workflows[w] \in Nat)
  BY DEF WorkInv, WorkTypes, RuleId
<1>4. SlotIsTask'
  BY <1>1 DEF WorkInv, WorkOK, SlotIsTask
<1>5. /\ \A r \in runs' : r.id <= created'
      /\ \A w \in 1 .. MaxWorkflows : workflows'[w] <= created'
      /\ \A id \in dropped' : id <= created'
  BY <1>1, <1>3 DEF WorkInv, WorkOK
<1> QED  BY <1>1, <1>2, <1>4, <1>5 DEF WorkInv, WorkOK

\* What workflows do leaves the rules as they are.
LEMMA WorkKeepsRules ==
    ASSUME RulesInv, UNCHANGED <<ruleVars, reboots>>,
           created' \in 0 .. MaxCreates, created <= created'
    PROVE  RulesInv'
<1>1. UNCHANGED <<rules, file, saved, task, removed, fired, late, reboots>>
  BY DEF ruleVars
<1>2. created \in Nat /\ created' \in Nat
  BY AutomationAssumption DEF RulesInv, RuleTypes, AutomationAssumption
<1>3. RuleTypes' /\ TaskType'
  BY <1>1 DEF RulesInv, RuleTypes, TaskType, Used, Holds
<1>4. IdsOK'
  <2>1. \A s \in Slot : Used(s) => rules[s].id \in Nat
    BY UsedRule, RuleIsNoGap DEF RulesInv, RuleId
  <2>2. \A s \in Slot : file[s] # NoRule => file[s].id \in Nat
    BY DEF RulesInv, RuleTypes, RuleId
  <2>3. \A id \in removed : id \in Nat
    BY DEF RulesInv, RuleTypes, RuleId
  <2>4. \A id \in RuleId : id \in Nat
    BY DEF RuleId
  <2> QED  BY <1>1, <1>2, <2>1, <2>2, <2>3, <2>4 DEF RulesInv, IdsOK, Used
<1>5. TaskOK'
  <2>1. Working => task.copy.id \in Nat
    BY RuleIsNoGap DEF RulesInv, TaskType, Working, RuleId
  <2> QED  BY <1>1, <1>2, <2>1 DEF RulesInv, TaskOK, Working, Holds, Used
<1>6. LateOK' /\ MemoryIsTrue'
  BY <1>1 DEF RulesInv, LateOK, MemoryIsTrue, Holds, Used
<1> QED  BY <1>3, <1>4, <1>5, <1>6 DEF RulesInv

-----------------------------------------------------------------------------
(* The actions of rules. *)

LEMMA InitRules == Init => RulesInv
<1> SUFFICES ASSUME Init PROVE RulesInv
  OBVIOUS
<1>1. RuleTypes
  BY AgeFacts, AutomationAssumption
  DEF Init, RuleTypes, Used, Holds, NotYet, Firing, AutomationAssumption
<1>2. \A s \in Slot : ~Used(s) /\ file[s] = NoRule
  BY DEF Init, Used
<1> QED  BY <1>1, <1>2, AutomationAssumption
         DEF Init, RulesInv, TaskType, IdsOK, TaskOK, Working, LateOK, MemoryIsTrue, Holds,
             AutomationAssumption

LEMMA CreateRuleKeeps == ASSUME RulesInv, CreateRule PROVE RulesInv'
<1> USE DEF RulesInv
<1> DEFINE new == First(FreeSlots)  id == created + 1
<1>1. PICK enabled \in BOOLEAN :
         /\ rules' = [rules EXCEPT ![new] = NewRule(id, enabled)]
         /\ Persist([rules EXCEPT ![new] = NewRule(id, enabled)])
  BY DEF CreateRule
<1>2. /\ created' = id /\ created < MaxCreates
      /\ UNCHANGED <<task, removed, fired, late, workVars, reboots>>
  BY DEF CreateRule
<1>3. new \in Slot /\ ~Used(new)
  <2>1. FreeSlots # {} /\ FreeSlots \in SUBSET Slot
    BY DEF CreateRule, FreeSlots
  <2> QED  BY <2>1, FirstMember DEF FreeSlots
<1>4. created \in Nat /\ MaxCreates \in Nat /\ id \in RuleId /\ id \in Nat
  BY <1>2, AutomationAssumption DEF RuleTypes, RuleId, AutomationAssumption
<1>5. /\ NewRule(id, enabled) \in Rule
      /\ NewRule(id, enabled) # NoRule
      /\ NewRule(id, enabled).id = id
  BY <1>4, NewRuleType
<1> HIDE DEF new, id
<1>6. /\ \A s \in Slot : s # new => rules'[s] = rules[s]
      /\ rules'[new] = NewRule(id, enabled)
      /\ rules' \in [Slot -> Rule \cup {NoRule}]
  BY <1>1, <1>3, <1>5 DEF RuleTypes
<1>7. \A s \in Slot : Used(s) => /\ rules[s].id \in Nat /\ rules[s].id < id
                                 /\ rules[s] \in Rule
  <2>1. ASSUME NEW s \in Slot, Used(s) PROVE rules[s].id \in Nat /\ rules[s] \in Rule
    BY <2>1, UsedRule, RuleIsNoGap DEF RuleId
  <2> QED  BY <2>1, <1>4 DEF IdsOK, id
<1>8. \A s, t \in Slot :
        rules'[s] # NoRule /\ rules'[t] # NoRule /\ rules'[s].id = rules'[t].id => s = t
  <2>1. ASSUME NEW s \in Slot, NEW t \in Slot, s # new, t # new,
               rules'[s] # NoRule, rules'[t] # NoRule, rules'[s].id = rules'[t].id
        PROVE  s = t
    BY <2>1, <1>6 DEF RuleTypes, Used, Holds
  <2>2. \A s \in Slot : s # new /\ rules'[s] # NoRule => rules'[s].id # id
    BY <1>6, <1>7, <1>4 DEF Used
  <2> QED  BY <2>1, <2>2, <1>5, <1>6
<1>9. /\ file' \in [Slot -> [id : RuleId, enabled : BOOLEAN] \cup {NoRule}]
      /\ saved' \in {"whole", "torn", "failed"}
      /\ \A s, t \in Slot :
           file'[s] # NoRule /\ file'[t] # NoRule /\ file'[s].id = file'[t].id => s = t
      /\ \/ \A s \in Slot : file'[s] # NoRule =>
              \E t \in Slot : rules'[t] # NoRule /\ rules'[t].id = file'[s].id
         \/ file' = file /\ saved' = "failed"
  BY <1>1, <1>6, <1>8, PersistFile
<1>10. created' \in 0 .. MaxCreates
  BY <1>2, <1>4 DEF id
<1>11. RuleTypes' /\ TaskType'
  BY <1>2, <1>6, <1>8, <1>9, <1>10 DEF RuleTypes, TaskType, Used, Holds
<1>12. IdsOK'
  <2>1. \A i \in removed : i \in Nat /\ i <= created /\ i <= id /\ i # id
    BY <1>4 DEF RuleTypes, RuleId, IdsOK, id
  <2>2. \A s \in Slot : rules'[s] # NoRule => rules'[s].id <= id /\ rules'[s].id \notin removed
    BY <1>5, <1>6, <1>7, <1>4, <2>1 DEF IdsOK, Used
  <2>3. \A s \in Slot : file'[s] # NoRule => file'[s].id <= id /\ file'[s].id \notin removed
    <3>1. CASE file' = file
      BY <3>1, <1>4 DEF IdsOK, RuleTypes, RuleId, id
    <3> QED  BY <3>1, <2>2, <1>9
  <2>4. \A i \in RuleId : i > id => i > created
    BY <1>4 DEF RuleId, id
  <2> QED  BY <1>2, <1>9, <2>1, <2>2, <2>3, <2>4 DEF IdsOK, Used
<1>13. TaskOK'
  <2>1. Working => task.copy.id \in Nat /\ task.copy.id # id /\ task.copy.id <= id
    BY <1>4, RuleIsNoGap DEF TaskType, TaskOK, Working, RuleId, id
  <2>2. Working => \A s \in Slot : rules'[s] # NoRule /\ rules'[s].id = task.copy.id
                                   => rules[s] = rules'[s]
    BY <2>1, <1>5, <1>6
  <2> QED  BY <1>2, <2>1, <2>2, <1>6 DEF TaskOK, Working, Holds, Used, TaskType
<1>14. LateOK'
  <2>1. ASSUME NEW i \in RuleId, late[i] = 1 PROVE i # id
    BY <2>1, <1>4 DEF IdsOK, RuleId, id
  <2> QED  BY <1>2, <1>5, <1>6, <2>1 DEF LateOK, Holds, Used
<1>15. MemoryIsTrue'
  <2>1. fired[id] = NotYet
    BY <1>4 DEF IdsOK, id
  <2>2. NewRule(id, enabled).branch = 0 /\ NewRule(id, enabled).actAge = Cap
    BY DEF NewRule
  <2> QED  BY <1>2, <1>5, <1>6, <2>1, <2>2 DEF MemoryIsTrue, NotYet, Used
<1> QED  BY <1>11, <1>12, <1>13, <1>14, <1>15

LEMMA RemoveRuleKeeps ==
    ASSUME RulesInv, NEW id \in RuleId, RemoveRule(id)
    PROVE  RulesInv'
<1> USE DEF RulesInv
<1>1. PICK s \in Slot :
         /\ Holds(s, id)
         /\ rules' = [rules EXCEPT ![s] = NoRule]
         /\ Persist([rules EXCEPT ![s] = NoRule])
         /\ removed' = IF saved' = "failed" THEN removed ELSE removed \cup {id}
         /\ UNCHANGED <<task, fired, late, workVars, created, reboots>>
  BY DEF RemoveRule
<1>2. /\ rules' \in [Slot -> Rule \cup {NoRule}]
      /\ rules'[s] = NoRule
      /\ \A t \in Slot : t # s => rules'[t] = rules[t]
  BY <1>1 DEF RuleTypes
<1>3. /\ \A t, u \in Slot :
           rules'[t] # NoRule /\ rules'[u] # NoRule /\ rules'[t].id = rules'[u].id => t = u
      /\ \A t \in Slot : rules'[t] # NoRule => rules'[t].id # id
  BY <1>1, <1>2 DEF RuleTypes, Used, Holds
<1>4. /\ file' \in [Slot -> [id : RuleId, enabled : BOOLEAN] \cup {NoRule}]
      /\ saved' \in {"whole", "torn", "failed"}
      /\ \A t, u \in Slot :
           file'[t] # NoRule /\ file'[u] # NoRule /\ file'[t].id = file'[u].id => t = u
      /\ \/ \A t \in Slot : file'[t] # NoRule =>
              \E u \in Slot : rules'[u] # NoRule /\ rules'[u].id = file'[t].id
         \/ file' = file /\ saved' = "failed"
  BY <1>1, <1>2, <1>3, PersistFile
<1>5. RuleTypes' /\ TaskType'
  BY <1>1, <1>2, <1>3, <1>4 DEF RuleTypes, TaskType, Used, Holds
<1>6. IdsOK'
  <2>1. \A t \in Slot : rules'[t] # NoRule => /\ rules'[t].id <= created
                                              /\ rules'[t].id \notin removed'
    BY <1>1, <1>2, <1>3 DEF IdsOK, Used
  <2>2. \A t \in Slot : file'[t] # NoRule => /\ file'[t].id <= created
                                             /\ file'[t].id \notin removed'
    <3>1. CASE file' = file /\ saved' = "failed"
      BY <3>1, <1>1 DEF IdsOK
    <3> QED  BY <3>1, <2>1, <1>4
  <2>3. \A i \in removed' : i <= created
    BY <1>1 DEF IdsOK, Holds, Used
  <2> QED  BY <1>1, <1>4, <2>1, <2>2, <2>3 DEF IdsOK, Used
<1>7. \A t \in Slot : rules'[t] # NoRule => rules'[t] = rules[t]
  BY <1>2
<1>8. TaskOK'
  BY <1>1, <1>2, <1>7 DEF TaskOK, Working, Holds, Used, TaskType
<1>9. LateOK' /\ MemoryIsTrue'
  BY <1>1, <1>2, <1>7 DEF LateOK, MemoryIsTrue, Holds, Used
<1> QED  BY <1>5, <1>6, <1>8, <1>9

\* Waking up, and going on after a reading that called for nothing, only moves the task.
LEMMA ScanningKeeps ==
    ASSUME RulesInv,
           UNCHANGED <<rules, file, saved, removed, fired, late, created, reboots>>,
           \/ task' = [pc |-> "asleep"]
           \/ \E k \in 1 .. MaxRules + 1 : task' = [pc |-> "scan", from |-> k],
           task.pc # "act"
    PROVE  RulesInv'
<1> USE DEF RulesInv
<1>1. /\ task'.pc \in {"asleep", "scan"}
      /\ task'.pc # "read" /\ task'.pc # "act"
      /\ TaskType'
  BY DEF TaskType
<1>2. RuleTypes' /\ IdsOK'
  BY DEF RuleTypes, IdsOK, Used, Holds
<1>3. TaskOK' /\ LateOK' /\ MemoryIsTrue'
  BY <1>1 DEF TaskOK, LateOK, MemoryIsTrue, Working, Used, Holds
<1> QED  BY <1>1, <1>2, <1>3

LEMMA WakeKeeps == ASSUME RulesInv, Wake PROVE RulesInv'
<1>1. 1 \in 1 .. MaxRules + 1
  BY AutomationAssumption DEF AutomationAssumption
<1> QED  BY <1>1, ScanningKeeps DEF Wake

LEMMA ScanOnType ==
    ASSUME NEW s \in Slot
    PROVE  s + 1 \in 1 .. MaxRules + 1
BY AutomationAssumption DEF Slot, AutomationAssumption

LEMMA ReadGivesUpKeeps ==
    ASSUME RulesInv, ReadFails \/ \E v \in Value : ReadSkips(v)
    PROVE  RulesInv'
<1>1. /\ task.pc = "read" /\ ScanOn(task.slot)
      /\ UNCHANGED <<rules, file, saved, removed, fired, late, created, reboots>>
  BY DEF ReadFails, ReadSkips
<1>2. task.slot \in Slot
  BY <1>1 DEF RulesInv, TaskType
<1> QED  BY <1>1, <1>2, ScanOnType, ScanningKeeps DEF ScanOn

LEMMA ScanKeeps == ASSUME RulesInv, Scan PROVE RulesInv'
<1> USE DEF RulesInv
<1> DEFINE s == First(DueFrom(task.from))
<1>1. CASE DueFrom(task.from) = {} /\ task' = [pc |-> "asleep"] /\ UNCHANGED rules
  BY <1>1, ScanningKeeps DEF Scan
<1>2. CASE /\ DueFrom(task.from) # {}
           /\ rules' = [rules EXCEPT ![s].checkAge = 0]
           /\ task' = [pc |-> "read", slot |-> s, copy |-> rules[s]]
  <2>1. s \in Slot /\ Due(s)
    BY <1>2, FirstMember DEF DueFrom
  <2>2. rules[s] \in Rule /\ Used(s)
    BY <2>1, UsedRule DEF Due
  <2> HIDE DEF s
  <2>3. UNCHANGED <<file, saved, removed, fired, late, created, reboots>>
    BY DEF Scan
  <2>4. /\ \A t \in Slot : t # s => rules'[t] = rules[t]
        /\ rules'[s] = [rules[s] EXCEPT !.checkAge = 0]
        /\ rules' \in [Slot -> Rule \cup {NoRule}]
        /\ rules'[s] # NoRule
    <3>1. [rules[s] EXCEPT !.checkAge = 0] \in Rule
      BY <2>2, AgeFacts DEF Rule
    <3> QED  BY <1>2, <2>1, <3>1, RuleIsNoGap DEF RuleTypes
  <2>5. /\ \A t \in Slot : rules'[t] # NoRule <=> rules[t] # NoRule
        /\ \A t \in Slot : rules[t] # NoRule => /\ rules'[t].id = rules[t].id
                                                /\ rules'[t].branch = rules[t].branch
                                                /\ rules'[t].actAge = rules[t].actAge
    <3>1. /\ rules'[s].id = rules[s].id
          /\ rules'[s].branch = rules[s].branch
          /\ rules'[s].actAge = rules[s].actAge
      BY <2>2, <2>4 DEF Rule
    <3> QED  BY <2>2, <2>4, <3>1 DEF Used
  <2>6. /\ task'.pc = "read" /\ task'.slot = s /\ task'.copy = rules[s]
        /\ task' \in [pc : {"read"}, slot : Slot, copy : Rule]
    BY <1>2, <2>1, <2>2
  <2>7. RuleTypes' /\ TaskType'
    BY <2>3, <2>4, <2>5, <2>6 DEF RuleTypes, TaskType, Used, Holds
  <2>8. IdsOK'
    BY <2>3, <2>5 DEF IdsOK, Used
  <2>9. TaskOK'
    <3>1. rules[s].id <= created
      BY <2>1, <2>2 DEF IdsOK
    <3>2. \A t \in Slot : rules'[t] # NoRule /\ rules'[t].id = rules[s].id => t = s
      BY <2>1, <2>2, <2>5 DEF RuleTypes, Holds, Used
    <3>3. rules[s].branch = fired[rules[s].id].branch
      BY <2>1, <2>2 DEF MemoryIsTrue, Scan
    <3> QED  BY <2>3, <2>6, <3>1, <3>2, <3>3 DEF TaskOK, Working, Holds, Used
  <2>10. LateOK'
    BY <2>1, <2>2, <2>3, <2>5, <2>6 DEF LateOK, Holds, Used
  <2>11. MemoryIsTrue'
    <3>1. task.pc # "act"
      BY DEF Scan
    <3> QED  BY <2>3, <2>5, <2>6, <3>1 DEF MemoryIsTrue, Used
  <2> QED  BY <2>7, <2>8, <2>9, <2>10, <2>11
<1> QED  BY <1>1, <1>2 DEF Scan

LEMMA FireKeeps ==
    ASSUME RulesInv, NEW v \in Value, Fire(v)
    PROVE  RulesInv'
<1> USE DEF RulesInv
<1> DEFINE id == task.copy.id
           check == IF Holds(task.slot, id) THEN rules[task.slot].checkAge ELSE Cap
<1>1. /\ task.pc = "read"
      /\ task' = [pc |-> "act", slot |-> task.slot, copy |-> task.copy, branch |-> Branch(v)]
      /\ fired' = [fired EXCEPT ![id] = [branch |-> Branch(v), age |-> 0, check |-> check]]
      /\ late' = LateBy(id)
      /\ UNCHANGED <<rules, file, saved, removed, created, reboots>>
  BY DEF Fire
<1>2. task.slot \in Slot /\ task.copy \in Rule /\ id \in RuleId
  BY <1>1, RuleIsNoGap DEF TaskType
<1>3. Branch(v) \in {-1, 1} /\ check \in Age
  BY <1>2, AgeFacts, UsedRule DEF Branch, Holds, Rule
<1>4. \A s \in Slot : Holds(s, id) => s = task.slot
  BY <1>1 DEF TaskOK, Working
<1>5. /\ task'.pc = "act" /\ task'.slot = task.slot /\ task'.copy = task.copy
      /\ task'.branch = Branch(v)
      /\ task' \in [pc : {"act"}, slot : Slot, copy : Rule, branch : {-1, 1}]
  BY <1>1, <1>2, <1>3
<1> HIDE DEF check, id
<1>6. /\ fired' \in [RuleId -> Firing]
      /\ fired'[id] = [branch |-> Branch(v), age |-> 0, check |-> check]
      /\ \A i \in RuleId : i # id => fired'[i] = fired[i]
  BY <1>1, <1>2, <1>3, AgeFacts DEF RuleTypes, Firing
<1>7. /\ late' \in [RuleId -> Nat]
      /\ \A i \in RuleId : i # id => late'[i] = late[i]
      /\ (\E s \in Slot : Holds(s, id)) => late'[id] = late[id]
      /\ ~(\E s \in Slot : Holds(s, id)) => late'[id] = late[id] + 1
  <2>1. late' = [late EXCEPT ![id] =
                   late[id] + IF \E s \in Slot : Holds(s, id) THEN 0 ELSE 1]
    BY <1>1 DEF LateBy
  <2>2. late[id] \in Nat
    BY <1>2 DEF RuleTypes
  <2> QED  BY <1>2, <2>1, <2>2 DEF RuleTypes
<1>8. id <= created
  BY <1>1 DEF TaskOK, Working, id
<1>9. RuleTypes' /\ TaskType'
  BY <1>1, <1>5, <1>6, <1>7 DEF RuleTypes, TaskType, Used, Holds
<1>10. IdsOK'
  <2>1. \A i \in RuleId : i > created => i # id
    BY <1>2, <1>8 DEF RuleTypes, RuleId
  <2> QED  BY <1>1, <1>6, <1>7, <2>1 DEF IdsOK, Used
<1>11. TaskOK'
  BY <1>1, <1>4, <1>5, <1>6, <1>8 DEF TaskOK, Working, Holds, Used, id, check
<1>12. LateOK'
  <2>1. late[id] \in Nat /\ late[id] # 1 /\ late[id] <= 1
    BY <1>1, <1>2 DEF LateOK, RuleTypes, id
  <2>2. late'[id] <= 1 /\ (late'[id] = 1 => \A s \in Slot :
                                            ~(rules'[s] # NoRule /\ rules'[s].id = id))
    BY <1>1, <1>7, <2>1 DEF Holds, Used
  <2> QED  BY <1>1, <1>5, <1>7, <2>2 DEF LateOK, Holds, Used
<1>13. MemoryIsTrue'
  <2>1. \A s \in Slot : Used(s) => rules[s].id \in RuleId
    BY UsedRule, RuleIsNoGap
  <2> QED  BY <1>1, <1>5, <1>6, <2>1 DEF MemoryIsTrue, Used, id
<1> QED  BY <1>9, <1>10, <1>11, <1>12, <1>13

LEMMA ActEndsKeeps == ASSUME RulesInv, ActEnds PROVE RulesInv'
<1> USE DEF RulesInv
<1> DEFINE id == task.copy.id  s == task.slot
<1>1. /\ task.pc = "act"
      /\ rules' = IF Holds(s, id) THEN Remember(s) ELSE rules
      /\ task' = [pc |-> "scan", from |-> s + 1]
      /\ UNCHANGED <<file, saved, removed, fired, late, created, reboots>>
  BY DEF ActEnds, ScanOn
<1>2. s \in Slot /\ task.branch \in {-1, 1} /\ id \in RuleId
  BY <1>1, RuleIsNoGap DEF TaskType
<1>3. task'.pc = "scan" /\ TaskType'
  BY <1>1, <1>2, ScanOnType DEF TaskType
<1>4. /\ \A t \in Slot : t # s => rules'[t] = rules[t]
      /\ ~Holds(s, id) => rules' = rules
      /\ Holds(s, id) => rules'[s] = [rules[s] EXCEPT !.actAge = rules[s].checkAge,
                                                      !.branch = task.branch]
      /\ rules' \in [Slot -> Rule \cup {NoRule}]
      /\ Holds(s, id) => rules'[s] # NoRule /\ rules'[s].id = rules[s].id
  <2>1. CASE Holds(s, id)
    <3>1. rules[s] \in Rule
      BY <1>2, <2>1, UsedRule DEF Holds
    <3>2. [rules[s] EXCEPT !.actAge = rules[s].checkAge, !.branch = task.branch] \in Rule
      BY <1>2, <3>1 DEF Rule
    <3>3. rules' = [rules EXCEPT ![s] = [rules[s] EXCEPT !.actAge = rules[s].checkAge,
                                                         !.branch = task.branch]]
      BY <1>1, <1>2, <2>1, <3>1 DEF Remember, RuleTypes, Rule
    <3>4. rules'[s] \in Rule /\ rules'[s].id = rules[s].id
      BY <1>2, <3>1, <3>2, <3>3 DEF RuleTypes, Rule
    <3> QED  BY <1>2, <2>1, <3>2, <3>3, <3>4, RuleIsNoGap DEF RuleTypes
  <2>2. CASE ~Holds(s, id)
    BY <1>1, <2>2 DEF RuleTypes
  <2> QED  BY <2>1, <2>2
<1>5. /\ \A t \in Slot : rules'[t] # NoRule <=> rules[t] # NoRule
      /\ \A t \in Slot : rules[t] # NoRule => rules'[t].id = rules[t].id
  BY <1>2, <1>4 DEF Holds, Used
<1>6. RuleTypes'
  BY <1>1, <1>4, <1>5 DEF RuleTypes, Used, Holds
<1>7. IdsOK' /\ LateOK' /\ TaskOK'
  BY <1>1, <1>3, <1>5 DEF IdsOK, LateOK, TaskOK, Working, Used, Holds
<1>8. MemoryIsTrue'
  <2>1. ASSUME NEW t \in Slot, rules'[t] # NoRule
        PROVE  /\ rules'[t].branch = fired[rules'[t].id].branch
               /\ rules'[t].actAge = fired[rules'[t].id].check
    <3>1. CASE rules[t].id = id
      <4>1. Holds(t, id) /\ t = s
        BY <1>1, <1>5, <2>1, <3>1 DEF Holds, Used, TaskOK, Working
      <4>2. rules[s] \in Rule
        BY <1>2, <4>1, UsedRule DEF Holds
      <4> QED  BY <1>1, <1>4, <4>1, <4>2 DEF TaskOK, Rule, Holds
    <3>2. CASE rules[t].id # id
      <4>1. t # s \/ ~Holds(s, id)
        BY <3>2 DEF Holds
      <4>2. rules'[t] = rules[t]
        BY <1>4, <4>1
      <4> QED  BY <2>1, <3>2, <4>2 DEF MemoryIsTrue, Used
    <3> QED  BY <3>1, <3>2
  <2> QED  BY <1>1, <1>3, <2>1 DEF MemoryIsTrue, Used
<1> QED  BY <1>3, <1>6, <1>7, <1>8

\* A tick ages the rules and what is known of their actions alike.
LEMMA TickAges ==
    ASSUME RuleTypes, Tick
    PROVE  /\ rules' \in [Slot -> Rule \cup {NoRule}]
           /\ fired' \in [RuleId -> Firing]
           /\ \A s \in Slot : rules'[s] # NoRule <=> rules[s] # NoRule
           /\ \A s \in Slot : rules[s] # NoRule =>
                 /\ rules'[s].id = rules[s].id
                 /\ rules'[s].branch = rules[s].branch
                 /\ rules'[s].checkAge = Older(rules[s].checkAge)
                 /\ rules'[s].actAge = Older(rules[s].actAge)
           /\ \A i \in RuleId :
                 /\ fired'[i].branch = fired[i].branch
                 /\ fired'[i].check = Older(fired[i].check)
           /\ \A i \in RuleId : fired[i] = NotYet => fired'[i] = NotYet
<1>1. /\ rules' = [s \in Slot |->
            IF Used(s) THEN [rules[s] EXCEPT !.checkAge = Older(rules[s].checkAge),
                                             !.actAge = Older(rules[s].actAge)]
            ELSE NoRule]
      /\ fired' = [i \in RuleId |->
            [fired[i] EXCEPT !.age = Older(fired[i].age), !.check = Older(fired[i].check)]]
  BY DEF Tick
<1>2. \A s \in Slot : rules[s] # NoRule =>
         /\ rules[s] \in Rule
         /\ Older(rules[s].checkAge) \in Age /\ Older(rules[s].actAge) \in Age
  <2>1. \A s \in Slot : rules[s] # NoRule => rules[s] \in Rule
    BY DEF RuleTypes
  <2>2. \A r \in Rule : r.checkAge \in Age /\ r.actAge \in Age
    BY DEF Rule
  <2> QED  BY <2>1, <2>2, AgeFacts
<1>3. \A i \in RuleId :
         /\ fired[i] \in Firing
         /\ Older(fired[i].age) \in Age /\ Older(fired[i].check) \in Age
  <2>1. \A i \in RuleId : fired[i] \in Firing
    BY DEF RuleTypes
  <2>2. \A f \in Firing : f.age \in Age /\ f.check \in Age
    BY DEF Firing
  <2> QED  BY <2>1, <2>2, AgeFacts
<1>4. \A s \in Slot : rules[s] # NoRule =>
         /\ rules'[s] \in Rule
         /\ rules'[s].id = rules[s].id
         /\ rules'[s].branch = rules[s].branch
         /\ rules'[s].checkAge = Older(rules[s].checkAge)
         /\ rules'[s].actAge = Older(rules[s].actAge)
  <2> SUFFICES ASSUME NEW s \in Slot, rules[s] # NoRule
               PROVE  /\ rules'[s] \in Rule
                      /\ rules'[s].id = rules[s].id
                      /\ rules'[s].branch = rules[s].branch
                      /\ rules'[s].checkAge = Older(rules[s].checkAge)
                      /\ rules'[s].actAge = Older(rules[s].actAge)
    OBVIOUS
  <2>1. rules'[s] = [rules[s] EXCEPT !.checkAge = Older(rules[s].checkAge),
                                     !.actAge = Older(rules[s].actAge)]
    BY <1>1 DEF Used
  <2>2. rules[s] \in Rule /\ Older(rules[s].checkAge) \in Age /\ Older(rules[s].actAge) \in Age
    BY <1>2
  <2> QED  BY <2>1, <2>2 DEF Rule
<1>5. \A i \in RuleId :
         /\ fired'[i] \in Firing
         /\ fired'[i].branch = fired[i].branch
         /\ fired'[i].check = Older(fired[i].check)
         /\ fired'[i].age = Older(fired[i].age)
  <2> SUFFICES ASSUME NEW i \in RuleId
               PROVE  /\ fired'[i] \in Firing
                      /\ fired'[i].branch = fired[i].branch
                      /\ fired'[i].check = Older(fired[i].check)
                      /\ fired'[i].age = Older(fired[i].age)
    OBVIOUS
  <2>1. fired'[i] = [fired[i] EXCEPT !.age = Older(fired[i].age),
                                     !.check = Older(fired[i].check)]
    BY <1>1
  <2>2. fired[i] \in Firing /\ Older(fired[i].age) \in Age /\ Older(fired[i].check) \in Age
    BY <1>3
  <2> QED  BY <2>1, <2>2 DEF Firing
<1>6. \A s \in Slot : rules[s] = NoRule => rules'[s] = NoRule
  BY <1>1 DEF Used
<1>7. rules' \in [Slot -> Rule \cup {NoRule}] /\ fired' \in [RuleId -> Firing]
  BY <1>1, <1>4, <1>5, <1>6
<1>8. \A s \in Slot : rules'[s] # NoRule <=> rules[s] # NoRule
  BY <1>4, <1>6, RuleIsNoGap
<1>9. \A i \in RuleId : fired[i] = NotYet => fired'[i] = NotYet
  <2> SUFFICES ASSUME NEW i \in RuleId, fired[i] = NotYet PROVE fired'[i] = NotYet
    OBVIOUS
  <2>1. fired[i].branch = 0 /\ fired[i].age = Cap /\ fired[i].check = Cap
    BY DEF NotYet
  <2>2. fired'[i].branch = 0 /\ fired'[i].age = Cap /\ fired'[i].check = Cap
    BY <2>1, <1>5, AgeFacts
  <2>3. fired'[i] \in [branch : {-1, 0, 1}, age : Age, check : Age]
    BY <1>5 DEF Firing
  <2> QED  BY <2>2, <2>3 DEF NotYet
<1> QED  BY <1>4, <1>5, <1>7, <1>8, <1>9

LEMMA TickKeeps == ASSUME RulesInv, Tick PROVE RulesInv'
<1> USE DEF RulesInv
<1>1. UNCHANGED <<file, saved, task, removed, late, created, reboots>>
  BY DEF Tick
<1>2. /\ rules' \in [Slot -> Rule \cup {NoRule}]
      /\ fired' \in [RuleId -> Firing]
  BY TickAges
<1>3. \A s \in Slot : rules'[s] # NoRule <=> rules[s] # NoRule
  BY TickAges
<1>4. \A s \in Slot : rules[s] # NoRule =>
         /\ rules'[s].id = rules[s].id
         /\ rules'[s].branch = rules[s].branch
         /\ rules'[s].checkAge = Older(rules[s].checkAge)
         /\ rules'[s].actAge = Older(rules[s].actAge)
  BY TickAges
<1>5. \A i \in RuleId : /\ fired'[i].branch = fired[i].branch
                        /\ fired'[i].check = Older(fired[i].check)
  BY TickAges
<1>6. \A i \in RuleId : fired[i] = NotYet => fired'[i] = NotYet
  BY TickAges
<1>7. RuleTypes' /\ TaskType'
  BY <1>1, <1>2, <1>3, <1>4 DEF RuleTypes, TaskType, Used, Holds
<1>8. IdsOK'
  BY <1>1, <1>3, <1>4, <1>6 DEF IdsOK, Used
<1>9. LateOK'
  BY <1>1, <1>3, <1>4 DEF LateOK, Used, Holds
<1>10. \A s \in Slot, i \in RuleId :
          (rules'[s] # NoRule /\ rules'[s].id = i) <=> (rules[s] # NoRule /\ rules[s].id = i)
  BY <1>3, <1>4
<1>11. TaskOK'
  <2>1. Working => task.slot \in Slot /\ task.copy.id \in RuleId
    BY RuleIsNoGap DEF TaskType, Working
  <2>2. Working => \A s \in Slot : rules'[s] # NoRule /\ rules'[s].id = task.copy.id
                                   => s = task.slot
    BY <1>10, <2>1 DEF TaskOK, Holds, Used
  <2>3. task.pc = "act" /\ rules'[task.slot] # NoRule /\ rules'[task.slot].id = task.copy.id
        => rules'[task.slot].checkAge = fired'[task.copy.id].check
    BY <1>4, <1>5, <1>10, <2>1 DEF TaskOK, Working, Holds, Used
  <2>4. task.pc = "read" => task.copy.branch = fired'[task.copy.id].branch
    BY <1>5, <2>1 DEF TaskOK, Working
  <2>5. task.pc = "act" => task.branch = fired'[task.copy.id].branch
    BY <1>5, <2>1 DEF TaskOK, Working
  <2>6. Working => task.copy.id <= created
    BY DEF TaskOK
  <2> HIDE DEF RulesInv
  <2> QED  BY <1>1, <2>2, <2>3, <2>4, <2>5, <2>6 DEF TaskOK, Working, Holds, Used
<1>12. MemoryIsTrue'
  <2>1. \A s \in Slot : rules[s] # NoRule => rules[s].id \in RuleId
    BY UsedRule, RuleIsNoGap DEF Used
  <2> QED  BY <1>1, <1>3, <1>4, <1>5, <2>1 DEF MemoryIsTrue, Used
<1> QED  BY <1>7, <1>8, <1>9, <1>11, <1>12

\* A slot filled from the file holds the initial record of a line, and no line fills
\* two slots.
LEMMA LoadedRules ==
    ASSUME RuleTypes, IdsOK
    PROVE  /\ Loaded \in [Slot -> Rule \cup {NoRule}]
           /\ \A s \in Slot : Loaded[s] # NoRule =>
                 /\ Loaded[s].branch = 0 /\ Loaded[s].actAge = Cap
                 /\ \E t \in Slot : file[t] # NoRule /\ Loaded[s].id = file[t].id
           /\ \A s, t \in Slot :
                 Loaded[s] # NoRule /\ Loaded[t] # NoRule /\ Loaded[s].id = Loaded[t].id
                 => s = t
<1> DEFINE lines == {t \in Slot : file[t] # NoRule}
           mine(s) == {t \in lines : Cardinality({u \in lines : u <= t}) = s}
           line(s) == First(mine(s))
<1>1. \A s \in Slot : Loaded[s] = IF mine(s) = {} THEN NoRule
                                  ELSE NewRule(file[line(s)].id, file[line(s)].enabled)
  BY DEF Loaded
<1>2. ASSUME NEW s \in Slot, mine(s) # {}
      PROVE  /\ line(s) \in lines
             /\ Cardinality({u \in lines : u <= line(s)}) = s
  <2>1. mine(s) \in SUBSET Slot
    OBVIOUS
  <2>2. line(s) \in mine(s)
    BY <1>2, <2>1, FirstMember
  <2> QED  BY <2>2
<1>3. ASSUME NEW s \in Slot, mine(s) # {}
      PROVE  /\ Loaded[s] \in Rule /\ Loaded[s] # NoRule
             /\ Loaded[s].id = file[line(s)].id
             /\ Loaded[s].branch = 0 /\ Loaded[s].actAge = Cap
  <2>1. file[line(s)].id \in RuleId /\ file[line(s)].enabled \in BOOLEAN
    BY <1>2, <1>3 DEF RuleTypes
  <2>2. Loaded[s] = NewRule(file[line(s)].id, file[line(s)].enabled)
    BY <1>1, <1>3
  <2> HIDE DEF line, mine
  <2> QED  BY <2>1, <2>2, NewRuleType DEF NewRule
<1>4. \A s \in Slot : Loaded[s] # NoRule => mine(s) # {}
  BY <1>1
<1>5. Loaded \in [Slot -> Rule \cup {NoRule}]
  <2>1. DOMAIN Loaded = Slot /\ Loaded = [s \in Slot |-> Loaded[s]]
    BY DEF Loaded
  <2>2. \A s \in Slot : Loaded[s] \in Rule \cup {NoRule}
    BY <1>1, <1>3
  <2> HIDE DEF line, mine
  <2> QED  BY <2>1, <2>2
<1>6. ASSUME NEW s \in Slot, NEW t \in Slot,
             Loaded[s] # NoRule, Loaded[t] # NoRule, Loaded[s].id = Loaded[t].id
      PROVE  s = t
  <2>1. /\ line(s) \in Slot /\ file[line(s)] # NoRule
        /\ line(t) \in Slot /\ file[line(t)] # NoRule
        /\ file[line(s)].id = file[line(t)].id
    BY <1>2, <1>3, <1>4, <1>6
  <2>2. line(s) = line(t)
    BY <2>1 DEF IdsOK
  <2> QED  BY <1>2, <1>4, <1>6, <2>2
<1>7. \A s \in Slot : Loaded[s] # NoRule =>
         \E t \in Slot : file[t] # NoRule /\ Loaded[s].id = file[t].id
  BY <1>2, <1>3, <1>4
<1> HIDE DEF line, mine
<1> QED  BY <1>3, <1>4, <1>5, <1>6, <1>7

LEMMA RebootKeepsRules == ASSUME RulesInv, Reboot PROVE RulesInv'
<1> USE DEF RulesInv
<1>1. /\ task' = [pc |-> "asleep"]
      /\ fired' = [i \in RuleId |-> NotYet]
      /\ late' = [i \in RuleId |-> 0]
      /\ reboots' = reboots + 1
      /\ UNCHANGED <<created, removed>>
      /\ \/ UNCHANGED <<file, saved>> /\ rules' = Loaded
         \/ file' = NoLines /\ saved' = "torn" /\ rules' = NoLines
  BY DEF Reboot
<1>2. /\ rules' \in [Slot -> Rule \cup {NoRule}]
      /\ \A s \in Slot : rules'[s] # NoRule =>
            /\ rules'[s].branch = 0 /\ rules'[s].actAge = Cap
            /\ \E t \in Slot : file[t] # NoRule /\ rules'[s].id = file[t].id
      /\ \A s, t \in Slot :
            rules'[s] # NoRule /\ rules'[t] # NoRule /\ rules'[s].id = rules'[t].id => s = t
  <2>1. CASE rules' = Loaded
    BY <2>1, LoadedRules
  <2>2. CASE rules' = NoLines
    BY <2>2 DEF NoLines
  <2> QED  BY <1>1, <2>1, <2>2
<1>3. /\ file' \in [Slot -> [id : RuleId, enabled : BOOLEAN] \cup {NoRule}]
      /\ saved' \in {"whole", "torn", "failed"}
      /\ \A s \in Slot : file'[s] # NoRule => file'[s] = file[s]
  BY <1>1 DEF NoLines, RuleTypes
<1>4. fired' \in [RuleId -> Firing] /\ late' \in [RuleId -> Nat] /\ reboots' \in Nat
  BY <1>1, AgeFacts DEF NotYet, Firing, RuleTypes
<1>5. RuleTypes' /\ TaskType'
  BY <1>1, <1>2, <1>3, <1>4 DEF RuleTypes, TaskType, Used, Holds
<1>6. IdsOK'
  BY <1>1, <1>2, <1>3 DEF IdsOK, Used
<1>7. TaskOK' /\ LateOK'
  BY <1>1 DEF TaskOK, Working, LateOK
<1>8. MemoryIsTrue'
  <2>1. \A s \in Slot : rules'[s] # NoRule => rules'[s].id \in RuleId
    BY <1>2, RuleIsNoGap
  <2> QED  BY <1>1, <1>2, <2>1 DEF MemoryIsTrue, Used, NotYet
<1> QED  BY <1>5, <1>6, <1>7, <1>8

-----------------------------------------------------------------------------
(* The actions of workflows. *)

\* Which ids the slots hold and which the tasks have.
InSlots == {workflows[w] : w \in 1 .. MaxWorkflows} \ {0}
Running == {r.id : r \in runs}

LEMMA InitWork == Init => WorkInv
BY AutomationAssumption
DEF Init, WorkInv, WorkTypes, WorkOK, SlotIsTask, AutomationAssumption

LEMMA CreateWorkflowKeeps == ASSUME Inv, CreateWorkflow PROVE WorkInv'
<1> DEFINE new == First(FreeWorkflows)  id == created + 1
<1>1. PICK steps \in 1 .. MaxSteps : runs' = runs \cup {[id |-> id, left |-> steps]}
  BY DEF CreateWorkflow
<1>2. /\ created' = id /\ created < MaxCreates
      /\ workflows' = [workflows EXCEPT ![new] = id]
      /\ UNCHANGED dropped
  BY DEF CreateWorkflow
<1>3. new \in 1 .. MaxWorkflows /\ workflows[new] = 0
  <2>1. FreeWorkflows # {} /\ FreeWorkflows \in SUBSET (1 .. MaxWorkflows)
    BY DEF CreateWorkflow, FreeWorkflows
  <2> QED  BY <2>1, FirstMember DEF FreeWorkflows
<1>4. created \in Nat /\ MaxCreates \in Nat /\ id \in RuleId /\ id \in Nat /\ id # 0
  BY <1>2, AutomationAssumption DEF Inv, RulesInv, RuleTypes, RuleId, AutomationAssumption
<1> DEFINE run == [id |-> id, left |-> steps]
<1>5. run \in [id : RuleId, left : 0 .. MaxSteps] /\ run.id = id
  BY <1>4, AutomationAssumption DEF AutomationAssumption
<1>6. /\ \A r \in runs : r.id \in Nat /\ r.id < id
      /\ \A i \in dropped : i \in Nat /\ i < id
      /\ \A w \in 1 .. MaxWorkflows : workflows[w] \in Nat /\ workflows[w] < id
  <2>1. /\ \A r \in runs : r.id \in Nat /\ r.id <= created
        /\ \A i \in dropped : i \in Nat /\ i <= created
        /\ \A w \in 1 .. MaxWorkflows : workflows[w] \in Nat /\ workflows[w] <= created
    BY DEF Inv, WorkInv, WorkTypes, WorkOK, RuleId
  <2> QED  BY <1>4, <2>1
<1>7. id \in 0 .. MaxCreates
  BY <1>2, <1>4
<1>8. created <= id
  BY <1>4
<1>9. runs' = runs \cup {run}
  BY <1>1
<1> HIDE DEF new, id, run
<1>10. /\ workflows' \in [1 .. MaxWorkflows -> 0 .. MaxCreates]
       /\ workflows'[new] = id
       /\ \A w \in 1 .. MaxWorkflows : w # new => workflows'[w] = workflows[w]
  BY <1>2, <1>3, <1>7 DEF Inv, WorkInv, WorkTypes
<1>11. WorkTypes'
  BY <1>2, <1>5, <1>9, <1>10 DEF Inv, WorkInv, WorkTypes
<1>12. \A r, q \in runs' : r.id = q.id => r = q
  BY <1>5, <1>6, <1>9, <1>4 DEF Inv, WorkInv, WorkOK
<1>13. \A v, w \in 1 .. MaxWorkflows :
          workflows'[v] # 0 /\ workflows'[v] = workflows'[w] => v = w
  <2>1. \A v \in 1 .. MaxWorkflows : v # new => workflows'[v] # id
    BY <1>4, <1>6, <1>10
  <2> QED  BY <2>1, <1>10 DEF Inv, WorkInv, WorkOK
<1>14. /\ \A r \in runs' : r.id <= id
       /\ \A w \in 1 .. MaxWorkflows : workflows'[w] <= id
       /\ \A i \in dropped : i <= id
  BY <1>4, <1>5, <1>6, <1>9, <1>10
<1>15. SlotIsTask'
  <2>1. InSlots = Running \ dropped
    BY DEF Inv, WorkInv, WorkOK, SlotIsTask, InSlots, Running
  <2>2. InSlots' = InSlots \cup {id}
    BY <1>3, <1>4, <1>10 DEF InSlots
  <2>3. Running' = Running \cup {id}
    BY <1>5, <1>9 DEF Running
  <2>4. id \notin dropped
    BY <1>4, <1>6
  <2> QED  BY <1>2, <2>1, <2>2, <2>3, <2>4 DEF SlotIsTask, InSlots, Running
<1> QED  BY <1>2, <1>11, <1>12, <1>13, <1>14, <1>15 DEF WorkInv, WorkOK

LEMMA RemoveWorkflowKeeps ==
    ASSUME Inv, NEW id \in RuleId, RemoveWorkflow(id)
    PROVE  WorkInv'
<1>1. PICK w \in 1 .. MaxWorkflows :
         /\ id # 0 /\ workflows[w] = id
         /\ workflows' = [workflows EXCEPT ![w] = 0]
         /\ dropped' = dropped \cup {id}
         /\ UNCHANGED <<runs, created>>
  BY DEF RemoveWorkflow
<1>2. /\ 0 \in 0 .. MaxCreates
      /\ created \in Nat
  BY AutomationAssumption DEF Inv, RulesInv, RuleTypes, AutomationAssumption
<1>3. /\ workflows' \in [1 .. MaxWorkflows -> 0 .. MaxCreates]
      /\ workflows'[w] = 0
      /\ \A v \in 1 .. MaxWorkflows : v # w => workflows'[v] = workflows[v]
  BY <1>1, <1>2 DEF Inv, WorkInv, WorkTypes
<1>4. WorkTypes'
  BY <1>1, <1>3 DEF Inv, WorkInv, WorkTypes
<1>5. \A v, u \in 1 .. MaxWorkflows :
         workflows'[v] # 0 /\ workflows'[v] = workflows'[u] => v = u
  BY <1>3 DEF Inv, WorkInv, WorkOK
<1>6. /\ \A v \in 1 .. MaxWorkflows : workflows'[v] <= created
      /\ \A i \in dropped' : i <= created
  BY <1>1, <1>2, <1>3 DEF Inv, WorkInv, WorkOK
<1>7. SlotIsTask'
  <2>1. InSlots = Running \ dropped
    BY DEF Inv, WorkInv, WorkOK, SlotIsTask, InSlots, Running
  <2>2. \A v \in 1 .. MaxWorkflows : v # w => workflows[v] # id
    BY <1>1 DEF Inv, WorkInv, WorkOK
  <2>3. InSlots' = InSlots \ {id}
    BY <1>1, <1>3, <2>2 DEF InSlots
  <2>4. Running' = Running
    BY <1>1 DEF Running
  <2> QED  BY <1>1, <2>1, <2>3, <2>4 DEF SlotIsTask, InSlots, Running
<1> QED  BY <1>1, <1>4, <1>5, <1>6, <1>7 DEF Inv, WorkInv, WorkOK

LEMMA StepEndsKeeps ==
    ASSUME Inv, NEW r \in runs, StepEnds(r)
    PROVE  WorkInv'
<1>1. PICK left \in {r.left - 1, 0} : runs' = (runs \ {r}) \cup {[r EXCEPT !.left = left]}
  BY DEF StepEnds
<1>2. r.left > 0 /\ UNCHANGED <<workflows, dropped, created>>
  BY DEF StepEnds
<1>3. r \in [id : RuleId, left : 0 .. MaxSteps]
  BY DEF Inv, WorkInv, WorkTypes
<1> DEFINE next == [r EXCEPT !.left = left]
<1>4. next \in [id : RuleId, left : 0 .. MaxSteps] /\ next.id = r.id
  BY <1>2, <1>3, AutomationAssumption DEF AutomationAssumption
<1>5. runs' = (runs \ {r}) \cup {next}
  BY <1>1
<1> HIDE DEF next
<1>6. WorkTypes'
  BY <1>2, <1>4, <1>5 DEF Inv, WorkInv, WorkTypes
<1>7. \A q \in runs : q # r => q.id # r.id
  BY DEF Inv, WorkInv, WorkOK
<1>8. \A p, q \in runs' : p.id = q.id => p = q
  BY <1>4, <1>5, <1>7 DEF Inv, WorkInv, WorkOK
<1>9. \A q \in runs' : q.id <= created
  BY <1>4, <1>5 DEF Inv, WorkInv, WorkOK
<1>10. Running' = Running
  BY <1>4, <1>5 DEF Running
<1>11. SlotIsTask'
  <2>1. InSlots = Running \ dropped
    BY DEF Inv, WorkInv, WorkOK, SlotIsTask, InSlots, Running
  <2>2. InSlots' = InSlots
    BY <1>2 DEF InSlots
  <2>3. InSlots' = Running' \ dropped'
    BY <1>2, <1>10, <2>1, <2>2
  <2> QED  BY <2>3 DEF SlotIsTask, InSlots, Running
<1> QED  BY <1>2, <1>6, <1>8, <1>9, <1>11 DEF Inv, WorkInv, WorkOK

LEMMA WorkflowEndsKeeps ==
    ASSUME Inv, NEW r \in runs, WorkflowEnds(r)
    PROVE  WorkInv'
<1>1. /\ runs' = runs \ {r}
      /\ workflows' = [w \in 1 .. MaxWorkflows |->
                          IF workflows[w] = r.id THEN 0 ELSE workflows[w]]
      /\ UNCHANGED <<dropped, created>>
  BY DEF WorkflowEnds
<1>2. 0 \in 0 .. MaxCreates /\ created \in Nat
  BY AutomationAssumption DEF Inv, RulesInv, RuleTypes, AutomationAssumption
<1>3. \A w \in 1 .. MaxWorkflows :
         /\ workflows[w] = r.id => workflows'[w] = 0
         /\ workflows[w] # r.id => workflows'[w] = workflows[w]
  BY <1>1
<1>4. WorkTypes'
  BY <1>1, <1>2 DEF Inv, WorkInv, WorkTypes
<1>5. \A v, w \in 1 .. MaxWorkflows :
         workflows'[v] # 0 /\ workflows'[v] = workflows'[w] => v = w
  BY <1>3 DEF Inv, WorkInv, WorkOK
<1>6. /\ \A p, q \in runs' : p.id = q.id => p = q
      /\ \A q \in runs' : q.id <= created
      /\ \A w \in 1 .. MaxWorkflows : workflows'[w] <= created
  BY <1>1, <1>2, <1>3 DEF Inv, WorkInv, WorkOK
<1>7. SlotIsTask'
  <2>1. InSlots = Running \ dropped
    BY DEF Inv, WorkInv, WorkOK, SlotIsTask, InSlots, Running
  <2>2. InSlots' = InSlots \ {r.id}
    BY <1>3 DEF InSlots
  <2>3. \A q \in runs : q # r => q.id # r.id
    BY DEF Inv, WorkInv, WorkOK
  <2>4. Running' = Running \ {r.id}
    BY <1>1, <2>3 DEF Running
  <2> QED  BY <1>1, <2>1, <2>2, <2>4 DEF SlotIsTask, InSlots, Running
<1> QED  BY <1>1, <1>4, <1>5, <1>6, <1>7 DEF Inv, WorkInv, WorkOK

LEMMA RebootKeepsWork == ASSUME Inv, Reboot PROVE WorkInv'
<1>1. /\ workflows' = [w \in 1 .. MaxWorkflows |-> 0]
      /\ runs' = {}
      /\ UNCHANGED <<created, dropped>>
  BY DEF Reboot
<1>2. 0 \in 0 .. MaxCreates /\ created \in Nat /\ MaxWorkflows \in Nat \ {0}
  BY AutomationAssumption DEF Inv, RulesInv, RuleTypes, AutomationAssumption
<1>3. WorkTypes'
  BY <1>1, <1>2 DEF Inv, WorkInv, WorkTypes
<1>4. SlotIsTask'
  BY <1>1 DEF SlotIsTask
<1> QED  BY <1>1, <1>2, <1>3, <1>4 DEF Inv, WorkInv, WorkOK

-----------------------------------------------------------------------------
(* The invariant, and what it says. *)

\* Every step keeps the invariant: the rules' half by the lemma of its action, and the
\* other half because the action does not touch it.
LEMMA NextInv == ASSUME Inv, [Next]_vars PROVE Inv'
<1>1. created \in Nat
  BY AutomationAssumption DEF Inv, RulesInv, RuleTypes, AutomationAssumption
<1>2. ASSUME RulesInv', UNCHANGED workVars, created' = created \/ created' = created + 1
      PROVE  Inv'
  BY <1>1, <1>2, RulesKeepWork DEF Inv
<1>3. ASSUME WorkInv', UNCHANGED <<ruleVars, reboots>>, created' = created
      PROVE  Inv'
  <2>1. created' \in 0 .. MaxCreates /\ created <= created'
    BY <1>1, <1>3 DEF Inv, RulesInv, RuleTypes
  <2> QED  BY <1>3, <2>1, WorkKeepsRules DEF Inv
<1>4. CASE CreateRule
  BY <1>2, <1>4, CreateRuleKeeps DEF CreateRule, Inv
<1>5. CASE CreateWorkflow
  <2>1. created' \in 0 .. MaxCreates /\ created <= created'
    BY <1>1, <1>5, AutomationAssumption DEF CreateWorkflow, AutomationAssumption
  <2>2. UNCHANGED <<ruleVars, reboots>>
    BY <1>5 DEF CreateWorkflow
  <2> QED  BY <1>5, <2>1, <2>2, CreateWorkflowKeeps, WorkKeepsRules DEF Inv
<1>6. ASSUME NEW id \in RuleId, RemoveRule(id) PROVE Inv'
  BY <1>2, <1>6, RemoveRuleKeeps DEF RemoveRule, Inv
<1>7. ASSUME NEW id \in RuleId, RemoveWorkflow(id) PROVE Inv'
  BY <1>3, <1>7, RemoveWorkflowKeeps DEF RemoveWorkflow
<1>8. CASE RuleTask
  <2>1. CASE Wake
    BY <1>2, <2>1, WakeKeeps DEF Wake, Inv
  <2>2. CASE Scan
    BY <1>2, <2>2, ScanKeeps DEF Scan, Inv
  <2>3. CASE ReadFails
    BY <1>2, <2>3, ReadGivesUpKeeps DEF ReadFails, Inv
  <2>4. ASSUME NEW v \in Value, ReadSkips(v) PROVE Inv'
    BY <1>2, <2>4, ReadGivesUpKeeps DEF ReadSkips, Inv
  <2>5. ASSUME NEW v \in Value, Fire(v) PROVE Inv'
    BY <1>2, <2>5, FireKeeps DEF Fire, Inv
  <2>6. CASE ActEnds
    BY <1>2, <2>6, ActEndsKeeps DEF ActEnds, Inv
  <2> QED  BY <1>8, <2>1, <2>2, <2>3, <2>4, <2>5, <2>6 DEF RuleTask, ReadEnds
<1>9. ASSUME NEW r \in runs, WorkflowTask(r) PROVE Inv'
  <2>1. CASE StepEnds(r)
    BY <1>3, <2>1, StepEndsKeeps DEF StepEnds
  <2>2. CASE WorkflowEnds(r)
    BY <1>3, <2>2, WorkflowEndsKeeps DEF WorkflowEnds
  <2> QED  BY <1>9, <2>1, <2>2 DEF WorkflowTask
<1>10. CASE Tick
  BY <1>2, <1>10, TickKeeps DEF Tick, Inv
<1>11. CASE Reboot
  BY <1>11, RebootKeepsRules, RebootKeepsWork DEF Inv
<1>12. CASE UNCHANGED vars
  <2>1. UNCHANGED ruleVars /\ UNCHANGED workVars /\ UNCHANGED <<created, reboots>>
    BY <1>12 DEF vars
  <2>2. created' \in 0 .. MaxCreates /\ created <= created'
    BY <1>1, <2>1 DEF Inv, RulesInv, RuleTypes
  <2> QED  BY <1>2, <2>1, <2>2, WorkKeepsRules DEF Inv
<1> QED  BY <1>4, <1>5, <1>6, <1>7, <1>8, <1>9, <1>10, <1>11, <1>12 DEF Next

LEMMA SpecInv == Spec => []Inv
<1>1. Init => Inv
  BY InitRules, InitWork DEF Inv
<1> QED  BY <1>1, NextInv, PTL DEF Spec

LEMMA InvImplies ==
    Inv => TypeOK /\ RemovedIsGone /\ OneLateAction /\ MemoryIsTrue /\ SlotIsTask
<1> SUFFICES ASSUME Inv
             PROVE  TypeOK /\ RemovedIsGone /\ OneLateAction /\ MemoryIsTrue /\ SlotIsTask
  OBVIOUS
<1>1. TypeOK
  BY DEF Inv, RulesInv, WorkInv, RuleTypes, TaskType, WorkTypes, TypeOK
<1>2. RemovedIsGone
  BY DEF Inv, RulesInv, IdsOK, RemovedIsGone
<1>3. OneLateAction
  BY DEF Inv, RulesInv, LateOK, OneLateAction
<1> QED  BY <1>1, <1>2, <1>3 DEF Inv, RulesInv, WorkInv, WorkOK

\* Every variable keeps its type, and no rule is ever in two slots, whatever order the
\* slots are filled, emptied and read back from the file in.
THEOREM RulesTypeCorrect == Spec => []TypeOK
BY SpecInv, InvImplies, PTL

\* A rule whose removal was acknowledged and saved never comes back into a slot: not by
\* the task that worked on it when it was removed, nor by a reboot, before which the
\* file may have been rewritten, cut short or left alone any number of times.
THEOREM RemovedStaysGone == Spec => []RemovedIsGone
BY SpecInv, InvImplies, PTL

\* The task, which acts without the lock, begins at most one action for a rule after
\* its removal.
THEOREM ActsLateOnce == Spec => []OneLateAction
BY SpecInv, InvImplies, PTL

\* What the engine remembers of a rule's last action is what that rule last did, though
\* the slot may have gone to another rule while the action was on its way.
THEOREM MemoryHolds == Spec => []MemoryIsTrue
BY SpecInv, InvImplies, PTL

\* The slots of workflows are held exactly by the tasks that run and were not removed:
\* none is lost, and no task gives back a slot that is another's.
THEOREM SlotsMatchTasks == Spec => []SlotIsTask
BY SpecInv, InvImplies, PTL

\* No rule goes over to its other action on a reading within the hysteresis band, for
\* any threshold and width of the band: TaskOK ties the copy the task decides on to
\* what the rule did last.
THEOREM BandHolds == Spec => BandIsKept
<1> DEFINE Kept ==
      \A id \in RuleId : \A v \in Value :
         Fire(v) /\ task.copy.id = id /\ fired[id].branch = -Branch(v)
         => v <= Threshold - Hysteresis \/ v >= Threshold + Hysteresis
<1>1. Inv /\ [Next]_vars => Kept
  <2> SUFFICES ASSUME Inv, NEW id \in RuleId, NEW v \in Value, Fire(v),
                      task.copy.id = id, fired[id].branch = -Branch(v)
               PROVE  v <= Threshold - Hysteresis \/ v >= Threshold + Hysteresis
    OBVIOUS
  <2>1. v \in Int /\ Threshold \in Int /\ Hysteresis \in Nat
    BY AutomationAssumption DEF AutomationAssumption
  <2>2. task.copy.branch = -Branch(v)
    BY DEF Fire, Inv, RulesInv, TaskOK
  <2>3. ~KeepsBranch(task.copy, v)
    BY DEF Fire
  <2>4. CASE Branch(v) = -1
    <3>1. task.copy.branch = 1
      <4>1. -Branch(v) = 0 - Branch(v)
        BY DEF Branch
      <4> QED  BY <2>2, <2>4, <4>1
    <3>2. ~(v > Threshold - Hysteresis)
      BY <2>3, <2>4, <3>1 DEF KeepsBranch
    <3> QED  BY <2>1, <3>2
  <2>5. CASE Branch(v) = 1
    BY <2>1, <2>2, <2>3, <2>5 DEF KeepsBranch
  <2> QED  BY <2>4, <2>5 DEF Branch
<1> QED  BY <1>1, SpecInv, PTL DEF Spec, BandIsKept

-----------------------------------------------------------------------------
(* The file and the slots. *)

\* The lines of the file, and those up to one slot, which say where a line goes.
Lines   == {t \in Slot : file[t] # NoRule}
UpTo(t) == {u \in Lines : u <= t}
Mine(s) == {t \in Lines : Cardinality(UpTo(t)) = s}

\* Loading moves the lines together: every line has a slot of its own, and a slot stays empty
\* exactly when some line is missing.
LEMMA LinePlaces ==
    /\ \A s \in Slot : Loaded[s] = IF Mine(s) = {} THEN NoRule
                                   ELSE NewRule(file[First(Mine(s))].id, file[First(Mine(s))].enabled)
    /\ \A t \in Lines : Cardinality(UpTo(t)) \in Slot /\ Mine(Cardinality(UpTo(t))) = {t}
    /\ Lines = Slot <=> \A s \in Slot : Mine(s) # {}
<1>1. \A s \in Slot : Loaded[s] = IF Mine(s) = {} THEN NoRule
                                  ELSE NewRule(file[First(Mine(s))].id, file[First(Mine(s))].enabled)
  BY DEF Loaded, Mine, UpTo, Lines
<1>2. MaxRules \in Nat /\ MaxRules >= 1 /\ Slot = 1 .. MaxRules
  BY AutomationAssumption DEF AutomationAssumption, Slot
<1>3. IsFiniteSet(Slot) /\ Cardinality(Slot) = MaxRules
  BY <1>2, FS_Interval
<1>4. Lines \in SUBSET Slot
  BY DEF Lines
<1>5. /\ IsFiniteSet(Lines) /\ Cardinality(Lines) <= MaxRules
      /\ Cardinality(Lines) = MaxRules => Lines = Slot
  BY <1>3, <1>4, FS_Subset
<1>6. ASSUME NEW t \in Slot
      PROVE  /\ IsFiniteSet(UpTo(t)) /\ Cardinality(UpTo(t)) <= Cardinality(Lines)
             /\ Cardinality(UpTo(t)) \in Nat /\ Cardinality(Lines) \in Nat
  <2>1. UpTo(t) \in SUBSET Lines
    BY DEF UpTo
  <2> QED  BY <1>5, <2>1, FS_Subset, FS_CardinalityType
<1>7. ASSUME NEW t \in Lines PROVE Cardinality(UpTo(t)) \in Slot
  <2>1. t \in UpTo(t) /\ t \in Slot
    BY <1>2, <1>4 DEF UpTo
  <2>2. Cardinality(UpTo(t)) # 0
    BY <1>6, <2>1, FS_EmptySet
  <2> QED  BY <1>2, <1>5, <1>6, <2>1, <2>2
<1>8. ASSUME NEW t \in Lines, NEW u \in Lines, u < t
      PROVE  Cardinality(UpTo(u)) # Cardinality(UpTo(t))
  <2>1. t \in Slot /\ u \in Slot /\ t \in Nat /\ u \in Nat
    BY <1>2, <1>4
  <2>2. UpTo(u) \in SUBSET UpTo(t)
    <3>1. ASSUME NEW v \in Lines, v <= u PROVE v <= t
      <4>1. v \in Nat
        BY <1>2, <1>4
      <4> QED  BY <1>8, <2>1, <3>1, <4>1
    <3> QED  BY <3>1 DEF UpTo
  <2>3. t \in UpTo(t) /\ t \notin UpTo(u)
    BY <1>8, <2>1 DEF UpTo
  <2> QED  BY <1>6, <2>1, <2>2, <2>3, FS_Subset
<1>9. ASSUME NEW t \in Lines PROVE Mine(Cardinality(UpTo(t))) = {t}
  <2>1. ASSUME NEW u \in Lines, Cardinality(UpTo(u)) = Cardinality(UpTo(t)) PROVE u = t
    <3>1. u \in Nat /\ t \in Nat
      BY <1>2, <1>4
    <3>2. ~(u < t) /\ ~(t < u)
      BY <1>8, <2>1
    <3> QED  BY <3>1, <3>2
  <2> QED  BY <2>1 DEF Mine
<1>10. ASSUME Lines = Slot, NEW s \in Slot PROVE Mine(s) # {}
  <2>1. UpTo(s) = 1 .. s
    BY <1>2, <1>10 DEF UpTo
  <2>2. Cardinality(1 .. s) = s
    <3>1. s \in Int /\ 1 \in Int /\ s >= 1
      BY <1>2
    <3>2. Cardinality(1 .. s) = IF 1 > s THEN 0 ELSE s - 1 + 1
      BY <3>1, FS_Interval
    <3> QED  BY <3>1, <3>2
  <2> QED  BY <1>10, <2>1, <2>2 DEF Mine
<1>11. ASSUME Lines # Slot PROVE MaxRules \in Slot /\ Mine(MaxRules) = {}
  <2>1. Cardinality(Lines) # MaxRules
    BY <1>5, <1>11
  <2>2. ASSUME NEW t \in Lines PROVE Cardinality(UpTo(t)) # MaxRules
    <3>1. t \in Slot
      BY <1>4
    <3> QED  BY <1>2, <1>5, <1>6, <2>1, <3>1
  <2> QED  BY <1>2, <2>2 DEF Mine
<1> QED  BY <1>1, <1>7, <1>9, <1>10, <1>11

\* What is loaded has the ids of the lines, no others, and a gap when there is a gap in the file.
LEMMA LoadedIds ==
    ASSUME RuleTypes, IdsOK
    PROVE  {Loaded[s].id : s \in Slot} = {file[s].id : s \in Slot}
<1>1. ASSUME NEW s \in Slot PROVE \E t \in Slot : file[t].id = Loaded[s].id
  <2>1. CASE Loaded[s] # NoRule
    BY <2>1, LoadedRules
  <2>2. CASE Loaded[s] = NoRule
    <3>1. Mine(s) = {}
      <4>1. ASSUME Mine(s) # {} PROVE FALSE
        <5>1. Mine(s) \in SUBSET Slot
          BY DEF Mine, Lines
        <5>2. First(Mine(s)) \in Mine(s)
          BY <4>1, <5>1, FirstMember
        <5>3. file[First(Mine(s))] \in [id : RuleId, enabled : BOOLEAN]
          BY <5>2 DEF Mine, Lines, RuleTypes
        <5>4. NewRule(file[First(Mine(s))].id, file[First(Mine(s))].enabled) # NoRule
          BY <5>3, NewRuleType
        <5> QED  BY <2>2, <4>1, <5>4, LinePlaces
      <4> QED  BY <4>1
    <3>2. PICK t \in Slot : file[t] = NoRule
      BY <3>1, LinePlaces DEF Lines
    <3> QED  BY <2>2, <3>2
  <2> QED  BY <2>1, <2>2
<1>2. ASSUME NEW t \in Slot PROVE \E s \in Slot : file[t].id = Loaded[s].id
  <2>1. CASE file[t] # NoRule
    <3> DEFINE s == Cardinality(UpTo(t))
    <3>1. t \in Lines
      BY <2>1 DEF Lines
    <3>2. s \in Slot /\ Mine(s) = {t}
      BY <3>1, LinePlaces
    <3>3. First(Mine(s)) = t
      <4>1. Mine(s) \in SUBSET Slot /\ Mine(s) # {}
        BY <3>2
      <4>2. First(Mine(s)) \in Mine(s)
        BY <4>1, FirstMember
      <4> QED  BY <3>2, <4>2
    <3> HIDE DEF s
    <3>4. Loaded[s] = NewRule(file[t].id, file[t].enabled)
      BY <3>2, <3>3, LinePlaces
    <3>5. file[t].id \in RuleId /\ file[t].enabled \in BOOLEAN
      BY <2>1 DEF RuleTypes
    <3> QED  BY <3>2, <3>4, <3>5, NewRuleType
  <2>2. CASE file[t] = NoRule
    <3>1. PICK s \in Slot : Mine(s) = {}
      BY <2>2, LinePlaces DEF Lines
    <3>2. Loaded[s] = NoRule
      BY <3>1, LinePlaces
    <3> QED  BY <2>2, <3>2
  <2> QED  BY <2>1, <2>2
<1>3. \A s \in Slot : Loaded[s].id \in {file[t].id : t \in Slot}
  BY <1>1
<1>4. \A t \in Slot : file[t].id \in {Loaded[s].id : s \in Slot}
  BY <1>2
<1> QED  BY <1>3, <1>4

\* The slots keep their ids, and the file is not touched.
LEMMA IdsStay ==
    ASSUME SavedIsActive, UNCHANGED <<file, saved>>, \A s \in Slot : rules'[s].id = rules[s].id
    PROVE  SavedIsActive'
BY DEF SavedIsActive

\* A rewrite of the file, when it is whole, leaves the ids of the rules in it.
LEMMA PersistIds ==
    ASSUME NEW rs \in [Slot -> Rule \cup {NoRule}], rules' = rs, Persist(rs)
    PROVE  SavedIsActive'
<1>1. CASE file' = Stored(rs) /\ saved' = "whole"
  <2>1. \A s \in Slot : file'[s] = Line(rs[s])
    BY <1>1 DEF Stored
  <2>2. \A s \in Slot : Line(rs[s]).id = rs[s].id
    BY DEF Line, Rule, NoRule
  <2> QED  BY <2>1, <2>2 DEF SavedIsActive
<1>2. CASE saved' # "whole"
  BY <1>2 DEF SavedIsActive
<1>3. CASE UNCHANGED file /\ saved' = "failed"
  BY <1>3 DEF SavedIsActive
<1> QED  BY <1>1, <1>2, <1>3 DEF Persist

LEMMA NextSaved == ASSUME Inv, SavedIsActive, [Next]_vars PROVE SavedIsActive'
<1>0. /\ RuleTypes /\ IdsOK /\ rules \in [Slot -> Rule \cup {NoRule}]
      /\ \A s \in Slot : Used(s) => rules[s] \in Rule
  BY UsedRule DEF Inv, RulesInv, RuleTypes
<1>1. CASE CreateRule
  <2> DEFINE new == First(FreeSlots)
  <2>1. PICK enabled \in BOOLEAN :
           /\ rules' = [rules EXCEPT ![new] = NewRule(created + 1, enabled)]
           /\ Persist([rules EXCEPT ![new] = NewRule(created + 1, enabled)])
    BY <1>1 DEF CreateRule
  <2>2. created + 1 \in RuleId
    BY <1>0, <1>1, AutomationAssumption DEF CreateRule, RuleTypes, RuleId, AutomationAssumption
  <2>3. NewRule(created + 1, enabled) \in Rule
    BY <2>2, NewRuleType
  <2> HIDE DEF new
  <2>4. rules' \in [Slot -> Rule \cup {NoRule}]
    BY <1>0, <2>1, <2>3
  <2> QED  BY <2>1, <2>4, PersistIds
<1>2. ASSUME NEW id \in RuleId, RemoveRule(id) PROVE SavedIsActive'
  <2>1. PICK s \in Slot : /\ rules' = [rules EXCEPT ![s] = NoRule]
                          /\ Persist([rules EXCEPT ![s] = NoRule])
    BY <1>2 DEF RemoveRule
  <2>2. rules' \in [Slot -> Rule \cup {NoRule}]
    BY <1>0, <2>1
  <2> QED  BY <2>1, <2>2, PersistIds
<1>3. CASE \/ CreateWorkflow \/ \E id \in RuleId : RemoveWorkflow(id)
           \/ \E r \in runs : WorkflowTask(r)
           \/ Wake \/ ReadEnds \/ UNCHANGED vars
  <2>1. UNCHANGED <<rules, file, saved>>
    BY <1>3 DEF CreateWorkflow, RemoveWorkflow, WorkflowTask, StepEnds, WorkflowEnds, Wake, ReadEnds,
                ReadFails, ReadSkips, Fire, vars, ruleVars
  <2> QED  BY <2>1, IdsStay
<1>4. CASE Scan
  <2>1. UNCHANGED <<file, saved>>
    BY <1>4 DEF Scan
  <2> DEFINE s == First(DueFrom(task.from))
  <2>2. CASE UNCHANGED rules
    BY <2>1, <2>2, IdsStay
  <2>3. CASE DueFrom(task.from) # {} /\ rules' = [rules EXCEPT ![s].checkAge = 0]
    <3>1. s \in Slot /\ Used(s)
      BY <2>3, FirstMember DEF DueFrom, Due
    <3> HIDE DEF s
    <3>2. /\ \A t \in Slot : t # s => rules'[t] = rules[t]
          /\ rules'[s] = [rules[s] EXCEPT !.checkAge = 0]
      BY <1>0, <2>3, <3>1
    <3>3. rules'[s].id = rules[s].id
      BY <1>0, <3>1, <3>2 DEF Rule
    <3> QED  BY <2>1, <3>2, <3>3, IdsStay
  <2> QED  BY <1>4, <2>2, <2>3 DEF Scan
<1>5. CASE ActEnds
  <2>1. UNCHANGED <<file, saved>> /\ task.pc = "act"
        /\ rules' = IF Holds(task.slot, task.copy.id) THEN Remember(task.slot) ELSE rules
    BY <1>5 DEF ActEnds
  <2>2. CASE ~Holds(task.slot, task.copy.id)
    BY <2>1, <2>2, IdsStay
  <2>3. CASE Holds(task.slot, task.copy.id)
    <3> DEFINE s == task.slot
    <3>1. s \in Slot /\ Used(s)
      BY <2>1, <2>3 DEF Inv, RulesInv, TaskType, Holds
    <3>2. rules' = [rules EXCEPT ![s].actAge = rules[s].checkAge, ![s].branch = task.branch]
      BY <2>1, <2>3 DEF Remember
    <3> HIDE DEF s
    <3>3. /\ \A t \in Slot : t # s => rules'[t] = rules[t]
          /\ rules'[s] = [rules[s] EXCEPT !.actAge = rules[s].checkAge, !.branch = task.branch]
      BY <1>0, <3>1, <3>2
    <3>4. rules'[s].id = rules[s].id
      BY <1>0, <3>1, <3>3 DEF Rule
    <3> QED  BY <2>1, <3>3, <3>4, IdsStay
  <2> QED  BY <2>2, <2>3
<1>6. CASE Tick
  <2>1. UNCHANGED <<file, saved>>
    BY <1>6 DEF Tick
  <2>2. ASSUME NEW s \in Slot PROVE rules'[s].id = rules[s].id
    <3>1. rules'[s] = IF Used(s) THEN [rules[s] EXCEPT !.checkAge = Older(@), !.actAge = Older(@)]
                      ELSE NoRule
      BY <1>6 DEF Tick
    <3> QED  BY <1>0, <3>1 DEF Rule, Used
  <2> QED  BY <2>1, <2>2, IdsStay
<1>7. CASE Reboot
  <2>1. CASE UNCHANGED <<file, saved>> /\ rules' = Loaded
    <3>1. {rules'[s].id : s \in Slot} = {file'[s].id : s \in Slot}
      BY <1>0, <2>1, LoadedIds
    <3> QED  BY <3>1 DEF SavedIsActive
  <2>2. CASE saved' = "torn"
    BY <2>2 DEF SavedIsActive
  <2> QED  BY <1>7, <2>1, <2>2 DEF Reboot
<1> QED  BY <1>1, <1>2, <1>3, <1>4, <1>5, <1>6, <1>7 DEF Next, RuleTask

\* After a whole rewrite the file holds the rules that are active, and a reboot, which moves the
\* lines together, brings back those and no others, for any number of slots.
THEOREM SavedHolds == Spec => []SavedIsActive
<1>1. Init => SavedIsActive
  BY DEF Init, SavedIsActive
<1> QED  BY <1>1, NextSaved, SpecInv, PTL DEF Spec
=============================================================================
