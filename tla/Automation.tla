------------------------------ MODULE Automation ------------------------------
(***************************************************************************)
(* automation/automation_engine.c: workflows, each run once by a task of   *)
(* its own (workflow_task), and condition-action rules, all checked by one *)
(* rule_task that gives the lock up while it waits for the mesh.  Rules    *)
(* are rewritten to a file whenever one is created or removed and read     *)
(* back after a reboot.                                                    *)
(*                                                                         *)
(* An operation that keeps s_lock from its first read to its last write is *)
(* one action.  What a mesh call does is left to MeshCommand: here it      *)
(* takes any time and succeeds or fails.  Time is kept as ages, in ticks,  *)
(* that stop at the largest delay anything compares them with; an age that *)
(* was never started is such a largest one.                                *)
(***************************************************************************)
EXTENDS Integers, FiniteSets

CONSTANTS MaxRules,      \* AUTOMATION_MAX_RULES
          MaxWorkflows,  \* AUTOMATION_MAX_WORKFLOWS
          MaxSteps,      \* AUTOMATION_MAX_STEPS
          Value,         \* the readings, all scaled the same
          Threshold, Hysteresis,
          Interval, Cooldown,  \* of every rule, in ticks
          MaxCreates,    \* bound: rules and workflows ever created
          MaxReboots     \* bound: reboots

ASSUME AutomationAssumption ==
    /\ MaxRules \in Nat \ {0} /\ MaxWorkflows \in Nat \ {0} /\ MaxSteps \in Nat \ {0}
    /\ Value \subseteq Int
    /\ Threshold \in Int /\ Hysteresis \in Nat
    /\ Interval \in Nat \ {0} /\ Cooldown \in Nat
    /\ MaxCreates \in Nat /\ MaxReboots \in Nat

VARIABLES
    rules,      \* s_rules: per slot a rule, or NoRule
    file,       \* automation.json: the lines it holds, by the slot they came from
    saved,      \* how the last rewrite of the file went
    task,       \* where rule_task stands
    workflows,  \* s_workflows: per slot the id of the workflow, 0 when unused
    runs,       \* the workflow_tasks that exist
    created,    \* history: ids given out so far
    removed,    \* history: ids whose removal was acknowledged, with the file saved
    dropped,    \* history: workflows removed while their task ran
    fired,      \* history: per id, the last action its rule took since boot
    late,       \* history: per id, actions begun after a removal since boot
    reboots

ruleVars == <<rules, file, saved, task, removed, fired, late>>
workVars == <<workflows, runs, dropped>>
vars == <<ruleVars, workVars, created, reboots>>

Slot   == 1 .. MaxRules
RuleId == 1 .. MaxCreates
Cap    == IF Interval > Cooldown THEN Interval ELSE Cooldown
Age    == 0 .. Cap
Older(age) == IF age < Cap THEN age + 1 ELSE age

NoRule  == [id |-> 0]
Rule    == [id : RuleId, enabled : BOOLEAN, checkAge : Age, actAge : Age, branch : {-1, 0, 1}]
NewRule(id, enabled) ==
    [id |-> id, enabled |-> enabled, checkAge |-> Cap, actAge |-> Cap, branch |-> 0]

\* What a rule did last: which branch, how long ago, and how long ago the check that
\* led to it began.
NotYet == [branch |-> 0, age |-> Cap, check |-> Cap]
Firing == [branch : {-1, 0, 1}, age : Age, check : Age]

Used(s)    == rules[s] # NoRule
Holds(s, id) == Used(s) /\ rules[s].id = id
FreeSlots  == {s \in Slot : ~Used(s)}
First(S)   == CHOOSE s \in S : \A t \in S : s <= t

Init ==
    /\ rules = [s \in Slot |-> NoRule]
    /\ file = [s \in Slot |-> NoRule]
    /\ saved = "whole"
    /\ task = [pc |-> "asleep"]
    /\ workflows = [w \in 1 .. MaxWorkflows |-> 0]
    /\ runs = {}
    /\ created = 0
    /\ removed = {}
    /\ dropped = {}
    /\ fired = [id \in RuleId |-> NotYet]
    /\ late = [id \in RuleId |-> 0]
    /\ reboots = 0

-----------------------------------------------------------------------------
(* The file. *)

Line(r) == IF r = NoRule THEN NoRule ELSE [id |-> r.id, enabled |-> r.enabled]
NoLines == [s \in Slot |-> NoRule]

\* Mutant: a disabled rule is not worth a line.
StoredEnabledOnly(rs) ==
    [s \in Slot |-> IF rs[s] # NoRule /\ ~rs[s].enabled THEN NoRule ELSE Line(rs[s])]

Stored(rs) == [s \in Slot |-> Line(rs[s])]

\* persist_rules_locked.  fopen may fail, and the old file stays; fputs and fclose are
\* not checked, so a file cut short, which no longer parses, counts as saved.
Persist(rs) ==
    \/ file' = Stored(rs) /\ saved' = "whole"
    \/ file' = NoLines /\ saved' = "torn"
    \/ UNCHANGED file /\ saved' = "failed"

-----------------------------------------------------------------------------
(* Rules: automation_engine_create_rule and automation_engine_remove. *)

CreateRule ==
    /\ created < MaxCreates
    /\ FreeSlots # {}
    /\ \E enabled \in BOOLEAN :
          LET rs == [rules EXCEPT ![First(FreeSlots)] = NewRule(created + 1, enabled)]
          IN  rules' = rs /\ Persist(rs)
    /\ created' = created + 1
    /\ UNCHANGED <<task, removed, fired, late, workVars, reboots>>

\* Mutant: the file is written before the rule is taken out.
RemoveRuleAfterSave(id) ==
    \E s \in Slot :
       /\ Holds(s, id)
       /\ Persist(rules)
       /\ rules' = [rules EXCEPT ![s] = NoRule]
       /\ removed' = IF saved' = "failed" THEN removed ELSE removed \cup {id}
       /\ UNCHANGED <<task, fired, late, workVars, created, reboots>>

RemoveRule(id) ==
    \E s \in Slot :
       /\ Holds(s, id)
       /\ LET rs == [rules EXCEPT ![s] = NoRule]
          IN  rules' = rs /\ Persist(rs)
       /\ removed' = IF saved' = "failed" THEN removed ELSE removed \cup {id}
       /\ UNCHANGED <<task, fired, late, workVars, created, reboots>>

-----------------------------------------------------------------------------
(* rule_task. *)

Wake ==
    /\ task.pc = "asleep"
    /\ task' = [pc |-> "scan", from |-> 1]
    /\ UNCHANGED <<rules, file, saved, removed, fired, late, workVars, created, reboots>>

Due(s) == Used(s) /\ rules[s].enabled /\ rules[s].checkAge >= Interval

DueFrom(k) == {s \in Slot : s >= k /\ Due(s)}

\* Under the lock: on to the next rule that is due, of which the task takes a copy, or
\* to the end of the array and to sleep.
Scan ==
    /\ task.pc = "scan"
    /\ LET due == DueFrom(task.from)
           s   == First(due)
       IN  \/ /\ due # {}
              /\ rules' = [rules EXCEPT ![s].checkAge = 0]
              /\ task' = [pc |-> "read", slot |-> s, copy |-> rules[s]]
           \/ /\ due = {}
              /\ task' = [pc |-> "asleep"]
              /\ UNCHANGED rules
    /\ UNCHANGED <<file, saved, removed, fired, late, workVars, created, reboots>>

\* Mutant: every pass begins again at the first rule.
ScanFromStart(s) == task' = [pc |-> "scan", from |-> 1]

ScanOn(s) == task' = [pc |-> "scan", from |-> s + 1]

ReadFails ==
    /\ task.pc = "read"
    /\ ScanOn(task.slot)
    /\ UNCHANGED <<rules, file, saved, removed, fired, late, workVars, created, reboots>>

Branch(v) == IF v > Threshold THEN 1 ELSE -1

\* Mutant: the band is only kept on the way down.
KeepsBranchDownOnly(copy, v) ==
    copy.branch = 1 /\ Branch(v) = -1 /\ v > Threshold - Hysteresis

\* Within the hysteresis band the rule stays on the side it acted for last.
KeepsBranch(copy, v) ==
    \/ copy.branch = 1 /\ Branch(v) = -1 /\ v > Threshold - Hysteresis
    \/ copy.branch = -1 /\ Branch(v) = 1 /\ v < Threshold + Hysteresis

\* Both the cooldown's ends are the times at which a check began.
Cooling(copy) == copy.actAge < Cooldown

\* One more action of a rule that is no longer there.
LateBy(id) == [late EXCEPT ![id] = @ + IF \E s \in Slot : Holds(s, id) THEN 0 ELSE 1]

ReadSkips(v) ==
    /\ task.pc = "read"
    /\ KeepsBranch(task.copy, v) \/ Cooling(task.copy)
    /\ ScanOn(task.slot)
    /\ UNCHANGED <<rules, file, saved, removed, fired, late, workVars, created, reboots>>

\* The reading calls for an action: the mesh call begins.
Fire(v) ==
    /\ task.pc = "read"
    /\ ~KeepsBranch(task.copy, v) /\ ~Cooling(task.copy)
    /\ task' = [pc |-> "act", slot |-> task.slot, copy |-> task.copy, branch |-> Branch(v)]
    /\ LET id == task.copy.id
       IN  fired' = [fired EXCEPT ![id] =
              [branch |-> Branch(v), age |-> 0,
               check |-> IF Holds(task.slot, id) THEN rules[task.slot].checkAge ELSE Cap]]
    /\ late' = LateBy(task.copy.id)
    /\ UNCHANGED <<rules, file, saved, removed, workVars, created, reboots>>

\* What the engine remembers of the action: the time its check began, and the branch.
Remember(s) == [rules EXCEPT ![s].actAge = rules[s].checkAge, ![s].branch = task.branch]

\* Mutant: whatever rule is in the slot now is taken for the one that acted.
ActEndsUnchecked ==
    /\ task.pc = "act"
    /\ rules' = IF Used(task.slot) THEN Remember(task.slot) ELSE rules
    /\ ScanOn(task.slot)
    /\ UNCHANGED <<file, saved, removed, fired, late, workVars, created, reboots>>

\* Mutant: a failed action is tried again before the lock is taken.
ActEndsOrRetries ==
    /\ task.pc = "act"
    /\ \/ /\ rules' = IF Holds(task.slot, task.copy.id) THEN Remember(task.slot) ELSE rules
          /\ ScanOn(task.slot)
          /\ UNCHANGED late
       \/ late' = LateBy(task.copy.id) /\ UNCHANGED <<rules, task>>
    /\ UNCHANGED <<file, saved, removed, fired, workVars, created, reboots>>

\* The mesh call has returned, with whatever result; it is remembered if the rule is
\* still in its slot.
ActEnds ==
    /\ task.pc = "act"
    /\ rules' = IF Holds(task.slot, task.copy.id) THEN Remember(task.slot) ELSE rules
    /\ ScanOn(task.slot)
    /\ UNCHANGED <<file, saved, removed, fired, late, workVars, created, reboots>>

-----------------------------------------------------------------------------
(* Workflows. *)

FreeWorkflows == {w \in 1 .. MaxWorkflows : workflows[w] = 0}

\* The new task has a copy of the steps, so only their number is kept.
CreateWorkflow ==
    /\ created < MaxCreates
    /\ FreeWorkflows # {}
    /\ created' = created + 1
    /\ workflows' = [workflows EXCEPT ![First(FreeWorkflows)] = created + 1]
    /\ \E steps \in 1 .. MaxSteps :
          runs' = runs \cup {[id |-> created + 1, left |-> steps]}
    /\ UNCHANGED <<ruleVars, dropped, reboots>>

\* Only the slot is given back: the task goes on.
RemoveWorkflow(id) ==
    \E w \in 1 .. MaxWorkflows :
       /\ id # 0 /\ workflows[w] = id
       /\ workflows' = [workflows EXCEPT ![w] = 0]
       /\ dropped' = dropped \cup {id}
       /\ UNCHANGED <<ruleVars, runs, created, reboots>>

\* A step's mesh call returns: on to the next one, or past all of them.
StepEnds(r) ==
    /\ r.left > 0
    /\ \E left \in {r.left - 1, 0} : runs' = (runs \ {r}) \cup {[r EXCEPT !.left = left]}
    /\ UNCHANGED <<ruleVars, workflows, dropped, created, reboots>>

\* Mutant: the slot given back is the first in use.
WorkflowEndsAnySlot(r) ==
    /\ r.left = 0
    /\ runs' = runs \ {r}
    /\ workflows' = [w \in 1 .. MaxWorkflows |->
          IF workflows[w] # 0 /\ \A v \in 1 .. w - 1 : workflows[v] = 0 THEN 0
          ELSE workflows[w]]
    /\ UNCHANGED <<ruleVars, dropped, created, reboots>>

\* The task gives back the slot that still has its id, and ends.
WorkflowEnds(r) ==
    /\ r.left = 0
    /\ runs' = runs \ {r}
    /\ workflows' = [w \in 1 .. MaxWorkflows |->
                        IF workflows[w] = r.id THEN 0 ELSE workflows[w]]
    /\ UNCHANGED <<ruleVars, dropped, created, reboots>>

-----------------------------------------------------------------------------
(* Time and reboots. *)

Tick ==
    /\ rules' = [s \in Slot |->
          IF Used(s) THEN [rules[s] EXCEPT !.checkAge = Older(@), !.actAge = Older(@)]
          ELSE NoRule]
    /\ fired' = [id \in RuleId |->
          [fired[id] EXCEPT !.age = Older(@), !.check = Older(@)]]
    /\ UNCHANGED <<file, saved, task, removed, late, workVars, created, reboots>>

\* Mutant: every slot is filled from the first line.
LoadedFirstLine ==
    [s \in Slot |->
       LET lines == {t \in Slot : file[t] # NoRule}
       IN  IF lines = {} THEN NoRule
           ELSE NewRule(file[First(lines)].id, file[First(lines)].enabled)]

\* load_rules_locked puts the rules of the file into the first slots, in order.
Loaded ==
    [s \in Slot |->
       LET lines == {t \in Slot : file[t] # NoRule}
           mine  == {t \in lines : Cardinality({u \in lines : u <= t}) = s}
       IN  IF mine = {} THEN NoRule
           ELSE NewRule(file[First(mine)].id, file[First(mine)].enabled)]

\* A reboot, perhaps in the middle of a rewrite of the file, which is then cut short.
Reboot ==
    /\ reboots < MaxReboots
    /\ reboots' = reboots + 1
    /\ \/ UNCHANGED <<file, saved>> /\ rules' = Loaded
       \/ file' = NoLines /\ saved' = "torn" /\ rules' = NoLines
    /\ task' = [pc |-> "asleep"]
    /\ workflows' = [w \in 1 .. MaxWorkflows |-> 0]
    /\ runs' = {}
    /\ fired' = [id \in RuleId |-> NotYet]
    /\ late' = [id \in RuleId |-> 0]
    /\ UNCHANGED <<created, removed, dropped>>

-----------------------------------------------------------------------------

ReadEnds == ReadFails \/ \E v \in Value : ReadSkips(v) \/ Fire(v)

RuleTask == Wake \/ Scan \/ ReadEnds \/ ActEnds

WorkflowTask(r) == StepEnds(r) \/ WorkflowEnds(r)

Next ==
    \/ CreateRule \/ CreateWorkflow
    \/ \E id \in RuleId : RemoveRule(id) \/ RemoveWorkflow(id)
    \/ RuleTask
    \/ \E r \in runs : WorkflowTask(r)
    \/ Tick
    \/ Reboot

Spec == Init /\ [][Next]_vars

\* Tasks are scheduled, mesh calls return (CallsReturn of MeshCommand), time passes.
FairSpec ==
    /\ Spec
    /\ WF_vars(RuleTask)
    /\ \A id \in RuleId : WF_vars(\E r \in runs : r.id = id /\ WorkflowTask(r))
    /\ WF_vars(Tick)
-----------------------------------------------------------------------------
(* Properties. *)

\* Types of every variable; no id is in two slots.
TypeOK ==
    /\ rules \in [Slot -> Rule \cup {NoRule}]
    /\ \A s, t \in Slot : Used(s) /\ Holds(t, rules[s].id) => s = t
    /\ file \in [Slot -> [id : RuleId, enabled : BOOLEAN] \cup {NoRule}]
    /\ saved \in {"whole", "torn", "failed"}
    /\ \/ task = [pc |-> "asleep"]
       \/ task \in [pc : {"scan"}, from : 1 .. MaxRules + 1]
       \/ task \in [pc : {"read"}, slot : Slot, copy : Rule]
       \/ task \in [pc : {"act"}, slot : Slot, copy : Rule, branch : {-1, 1}]
    /\ workflows \in [1 .. MaxWorkflows -> 0 .. MaxCreates]
    /\ runs \subseteq [id : RuleId, left : 0 .. MaxSteps]
    /\ created \in 0 .. MaxCreates
    /\ removed \subseteq RuleId /\ dropped \subseteq RuleId
    /\ fired \in [RuleId -> Firing]
    /\ late \in [RuleId -> Nat]
    /\ reboots \in Nat

\* A rule whose removal was acknowledged and saved is in no slot again: neither a task
\* that was working on it nor a reboot brings it back.
RemovedIsGone == \A s \in Slot : Used(s) => rules[s].id \notin removed

\* After a whole rewrite the file holds the rules that are active, so that a reboot
\* brings back those and no others.
SavedIsActive == saved = "whole" => {file[s].id : s \in Slot} = {rules[s].id : s \in Slot}

\* rule_task works on a copy and without the lock, so it may act for a rule that has
\* been removed meanwhile, but only once (until a reboot may bring it back).
OneLateAction == \A id \in RuleId : late[id] <= 1

\* What the engine remembers of a rule's last action, and bases hysteresis and cooldown
\* on, is what that rule did, although slots change hands while the task acts.
MemoryIsTrue ==
    \A s \in Slot : Used(s) /\ ~(task.pc = "act" /\ task.copy.id = rules[s].id) =>
       /\ rules[s].branch = fired[rules[s].id].branch
       /\ rules[s].actAge = fired[rules[s].id].check

\* A rule goes over to its other action only on a reading outside the hysteresis band,
\* whatever was skipped, failed or removed since its last action.
BandIsKept ==
    [][\A id \in RuleId : \A v \in Value :
         Fire(v) /\ task.copy.id = id /\ fired[id].branch = -Branch(v)
         => v <= Threshold - Hysteresis \/ v >= Threshold + Hysteresis]_vars

\* A slot is held exactly by the workflows that run and were not removed: none leaks, and
\* no task gives back a slot that has passed to another workflow.
SlotIsTask ==
    {workflows[w] : w \in 1 .. MaxWorkflows} \ {0} = {r.id : r \in runs} \ dropped

\* The rule_task serves all rules one after the other: a rule that stays enabled is
\* checked again and again, whatever the others do.
Checking(id) == task.pc = "read" /\ task.copy.id = id
EveryRuleIsChecked ==
    \A id \in RuleId :
       []<>(Checking(id) \/ ~\E s \in Slot : Holds(s, id) /\ rules[s].enabled)
=============================================================================
