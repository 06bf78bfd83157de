------------------------------- MODULE Subagent -------------------------------
(***************************************************************************)
(* tools/tool_subagent.c: spawn_subagent runs a conversation of its own in *)
(* a new task, on the other core, and waits for it.  At the timeout the    *)
(* caller goes away and leaves the context to the task.  Who frees it is   *)
(* agreed on by the flag timeout_abandoned, which the task reads after it  *)
(* has given the semaphore: two steps, between which the caller may go on. *)
(***************************************************************************)
EXTENDS Integers, FiniteSets

CONSTANTS SubIters,     \* ESPAGENT_SUBAGENT_MAX_TOOL_ITER
          SubTool,      \* tool names the LLM may ask for
          SubAllowed,   \* those of subagent_tool_allowed
          MaxSpawns     \* bound: calls of spawn_subagent

ASSUME SubAssumption ==
    /\ SubIters \in Nat \ {0} /\ SubAllowed \subseteq SubTool
    /\ MaxSpawns \in Nat

VARIABLES
    spawns,     \* calls so far; the contexts are numbered alike
    caller,     \* where spawn_subagent stands
    subTask,    \* per context, where its task stands
    given,      \* contexts whose semaphore has been given
    abandoned,  \* contexts with timeout_abandoned set
    freed,      \* per context, how often it was freed
    subCrossed, \* history: contexts of which the caller freed one between its task's give and
                \* read of the flag, or the task read the flag between its caller's timeout
                \* and the setting of it
    subRan,     \* history: tools run for subagents
    subAnswer   \* history: per context, what the caller told the LLM

subVars == <<spawns, caller, subTask, given, abandoned, freed, subCrossed, subRan,
             subAnswer>>

Context  == 1 .. MaxSpawns
Unborn   == [pc |-> "unborn"]
Answers  == {"none", "setup failed", "timed out", "answer", "llm failed", "iterations"}
Live(x)  == subTask[x].pc \notin {"unborn", "ended"}

SubInit ==
    /\ spawns = 0
    /\ caller = [pc |-> "idle"]
    /\ subTask = [x \in Context |-> Unborn]
    /\ given = {} /\ abandoned = {}
    /\ freed = [x \in Context |-> 0]
    /\ subCrossed = {}
    /\ subRan = {}
    /\ subAnswer = [x \in Context |-> "none"]

Freeing(x) == freed' = [freed EXCEPT ![x] = @ + 1]
Step(x, to) == subTask' = [subTask EXCEPT ![x] = to]

-----------------------------------------------------------------------------
(* The caller. *)

\* The context is made and the task created; if anything fails the context is freed.
Spawn ==
    /\ caller.pc = "idle" /\ spawns < MaxSpawns
    /\ spawns' = spawns + 1
    /\ \/ /\ caller' = [pc |-> "wait", on |-> spawns']
          /\ Step(spawns', [pc |-> "think", iter |-> 0])
          /\ UNCHANGED <<freed, subAnswer>>
       \/ /\ Freeing(spawns')
          /\ subAnswer' = [subAnswer EXCEPT ![spawns'] = "setup failed"]
          /\ UNCHANGED <<caller, subTask>>
    /\ UNCHANGED <<given, abandoned, subCrossed, subRan>>

CollectCrosses ==
    subCrossed' = IF subTask[caller.on].pc = "look" THEN subCrossed \cup {caller.on} ELSE subCrossed

\* Mutant: a caller that got the result leaves the context.
CollectOnly ==
    /\ caller.pc = "wait" /\ caller.on \in given
    /\ subAnswer' = [subAnswer EXCEPT ![caller.on] = subTask[caller.on].result]
    /\ CollectCrosses
    /\ caller' = [pc |-> "idle"]
    /\ UNCHANGED <<spawns, subTask, given, abandoned, freed, subRan>>

\* The semaphore was given in time: the result is taken and the context freed, which the
\* task may not have looked at yet.
Collect ==
    /\ caller.pc = "wait" /\ caller.on \in given
    /\ subAnswer' = [subAnswer EXCEPT ![caller.on] = subTask[caller.on].result]
    /\ CollectCrosses
    /\ Freeing(caller.on)
    /\ caller' = [pc |-> "idle"]
    /\ UNCHANGED <<spawns, subTask, given, abandoned, subRan>>

\* After two minutes without the semaphore.
TimeOut ==
    /\ caller.pc = "wait" /\ caller.on \notin given
    /\ caller' = [pc |-> "abandon", on |-> caller.on]
    /\ UNCHANGED <<spawns, subTask, given, abandoned, freed, subCrossed, subRan, subAnswer>>

Abandon ==
    /\ caller.pc = "abandon"
    /\ abandoned' = abandoned \cup {caller.on}
    /\ subAnswer' = [subAnswer EXCEPT ![caller.on] = "timed out"]
    /\ caller' = [pc |-> "idle"]
    /\ UNCHANGED <<spawns, subTask, given, freed, subCrossed, subRan>>

-----------------------------------------------------------------------------
(* The task. *)

\* A tool that is not on the list is answered with an error and not run.
Runs(tools) == subRan' = subRan \cup (tools \cap SubAllowed)

\* One round with the LLM: it fails, answers, or wants tools.
SubThinks(x) ==
    /\ subTask[x].pc = "think"
    /\ LET n == subTask[x].iter
       IN  \/ Step(x, [pc |-> "give", result |-> "llm failed"]) /\ UNCHANGED subRan
           \/ Step(x, [pc |-> "give", result |-> "answer"]) /\ UNCHANGED subRan
           \/ \E tools \in SUBSET SubTool \ {{}} :
                 /\ Runs(tools)
                 /\ Step(x, IF n + 1 < SubIters THEN [pc |-> "think", iter |-> n + 1]
                            ELSE [pc |-> "give", result |-> "iterations"])
    /\ UNCHANGED <<spawns, caller, given, abandoned, freed, subCrossed, subAnswer>>

SubGives(x) ==
    /\ subTask[x].pc = "give"
    /\ given' = given \cup {x}
    /\ Step(x, [subTask[x] EXCEPT !.pc = "look"])
    /\ UNCHANGED <<spawns, caller, abandoned, freed, subCrossed, subRan, subAnswer>>

\* The flag of a context that has been freed is whatever the heap holds there.
FlagRead(x) == IF freed[x] > 0 THEN BOOLEAN ELSE {x \in abandoned}

SubLooks(x) ==
    /\ subTask[x].pc = "look"
    /\ \E flag \in FlagRead(x) :
          IF flag THEN Freeing(x) ELSE UNCHANGED freed
    /\ subCrossed' = IF caller = [pc |-> "abandon", on |-> x] THEN subCrossed \cup {x} ELSE subCrossed
    /\ Step(x, [subTask[x] EXCEPT !.pc = "ended"])
    /\ UNCHANGED <<spawns, caller, given, abandoned, subRan, subAnswer>>

SubStep == \E x \in Context : SubThinks(x) \/ SubGives(x) \/ SubLooks(x)
CallerStep == Collect \/ TimeOut \/ Abandon

SubNext == Spawn \/ CallerStep \/ SubStep

SubSpec == SubInit /\ [][SubNext]_subVars

-----------------------------------------------------------------------------
(* Properties. *)

SubTypeOK ==
    /\ spawns \in 0 .. MaxSpawns
    /\ caller.pc \in {"idle", "wait", "abandon"}
    /\ \A x \in Context : subTask[x].pc \in {"unborn", "think", "give", "look", "ended"}
    /\ given \subseteq Context /\ abandoned \subseteq Context /\ subCrossed \subseteq Context
    /\ subRan \subseteq SubTool
    /\ subAnswer \in [Context -> Answers]

\* Nobody frees a context while its caller waits or its task works.  In the end it has
\* been freed once, by its caller or by its task ("Subagent caller timed out; task owns
\* cleanup"), unless the two crossed: then one that timed out is never freed, and one
\* whose result was collected is freed at least once, and again when the task reads a
\* set flag in what its caller has freed.
ContextFreedOnce ==
    \A x \in 1 .. spawns :
       LET waited == caller.pc # "idle" /\ caller.on = x
       IN  /\ waited \/ subTask[x].pc \in {"think", "give"} => freed[x] = 0
           /\ ~waited /\ ~Live(x) =>
                 IF x \notin subCrossed THEN freed[x] = 1
                 ELSE IF x \in abandoned THEN freed[x] = 0
                 ELSE freed[x] \in {1, 2}
=============================================================================
