--------------------------------- MODULE Cron ---------------------------------
(***************************************************************************)
(* cron/cron_service.c and the tools cron_add and cron_remove: an array of *)
(* jobs that the cron task and the agent both change, without a lock, and  *)
(* a file that each of them rewrites after it did.                         *)
(*                                                                         *)
(* The cron task holds a job by its place in the array while it waits for  *)
(* room in the inbound queue.  Removing a job shifts the later ones down   *)
(* and leaves the places past the count as they are; adding one writes the *)
(* place past the count.  The count follows in a step of its own, on both  *)
(* sides, and is one that the other may have changed in between, or that   *)
(* was read before it did.  A save takes a copy of the array first and     *)
(* writes it later, so that two of them can cross.                         *)
(***************************************************************************)
EXTENDS Integers, Sequences

CONSTANTS CronPlaces,     \* MAX_CRON_JOBS
          CronRequests,   \* what cron_add is asked for: kind, when (in half ticks), del
          Day,            \* ticks of a day
          FileHolds,      \* jobs whose text fits the 8192 bytes that a load accepts
          MaxTime,        \* bound: ticks
          MaxAdds,        \* bound: jobs added in all
          MaxCronBoots    \* bound: reboots

ASSUME CronAssumption ==
    /\ CronPlaces \in Nat \ {0} /\ Day \in Nat \ {0} /\ FileHolds \in Nat
    /\ CronRequests \subseteq [kind : {"every", "at", "daily"}, when : Nat, del : BOOLEAN]
    /\ MaxTime \in Nat /\ MaxAdds \in Nat /\ MaxCronBoots \in Nat

VARIABLES
    jobs,      \* s_jobs
    count,     \* s_job_count
    cronFile,  \* cron.json: the jobs it lists; <<>> as well when it does not parse
    cronTask,  \* where the cron task stands
    agent,     \* where the agent's cron_add or cron_remove stands
    time,      \* seconds since 1970, in ticks
    synced,    \* the clock has been set since boot
    added,     \* history: ids of jobs that were added
    over,      \* history: ids that cron_remove took out, and of one-shots that have fired
    crossed,   \* history: a change of the array by the agent has crossed one by the task
    torn,      \* history: since boot a save has failed or two saves have crossed
    lost,      \* history: a reboot came after such saves, in one, or refused the file
    cronBoots

cronVars == <<jobs, count, cronFile, cronTask, agent, time, synced, added, over,
              crossed, torn, lost, cronBoots>>
clock    == <<time, synced>>
history  == <<added, over>>
broken   == <<crossed, torn, lost>>

Places == 0 .. CronPlaces - 1
JobId  == 1 .. MaxAdds
NoJob  == [id |-> 0, kind |-> "every", when |-> 0, del |-> FALSE, enabled |-> FALSE, next |-> 0]
Job    == [id : JobId, kind : {"every", "at", "daily"}, when : Nat, del : BOOLEAN,
           enabled : BOOLEAN, next : Nat]

Table(js, n) == [k \in 1 .. n |-> js[k - 1]]
Listed       == {k \in Places : k < count}
Holding(id)  == {k \in Listed : jobs[k].id = id}

\* The clock stands at 1970 until it is set.
Now == IF synced THEN time ELSE 0

CronInit ==
    /\ jobs = [k \in Places |-> NoJob] /\ count = 0
    /\ cronFile = <<>>
    /\ cronTask = [pc |-> "asleep"]
    /\ agent = [pc |-> "idle"]
    /\ time = 1 /\ synced \in BOOLEAN
    /\ added = 0 /\ over = {}
    /\ crossed = FALSE /\ torn = FALSE /\ lost = FALSE /\ cronBoots = 0

-----------------------------------------------------------------------------
(* When a job runs next. *)

\* Mutant: the time of day that is just now counts as still to come.
NextDailyToday(when, now) ==
    LET today == now - (now % Day) + when
    IN  IF today < now THEN today + Day ELSE today

\* The next time of day `when` after `now`.
NextDaily(when, now) ==
    LET today == now - (now % Day) + when
    IN  IF today <= now THEN today + Day ELSE today

\* What the tool keeps of a request: any number is taken, and its whole part kept, which of
\* an interval above zero may be zero.
Kept(r) == [r EXCEPT !.when = @ \div 2]

\* A new job; a one-shot whose time has passed is stored disabled.
NewJob(id, r, now) ==
    LET passed == r.kind = "at" /\ r.when <= now
    IN  [id |-> id, kind |-> r.kind, when |-> r.when, del |-> r.del, enabled |-> ~passed,
         next |-> CASE r.kind = "every" -> now + r.when
                    [] r.kind = "daily" -> NextDaily(r.when, now)
                    [] r.kind = "at"    -> IF passed THEN 0 ELSE r.when]

\* The job after it fired in a pass that began at `now`, when it stays in the array.
AfterFiring(job, now) ==
    CASE job.kind = "every" -> [job EXCEPT !.next = now + job.when]
      [] job.kind = "daily" -> [job EXCEPT !.next = NextDaily(job.when, now)]
      [] job.kind = "at"    -> [job EXCEPT !.enabled = FALSE, !.next = 0]

\* Mutant: the loop begins one place too far.
ShiftedLate(js, n, k) == [p \in Places |-> IF p > k /\ p < n - 1 THEN js[p + 1] ELSE js[p]]

Shifted(js, n, k) == [p \in Places |-> IF p >= k /\ p < n - 1 THEN js[p + 1] ELSE js[p]]

-----------------------------------------------------------------------------
(* The agent's tools. *)

\* cron_add, up to the place past the count.  A count below zero, which a race can leave,
\* puts the job before the array.
CronAdd(r) ==
    /\ agent.pc = "idle" /\ added < MaxAdds
    /\ r.kind = "every" => r.when > 0
    /\ r.kind = "at" => Kept(r).when > Now
    /\ count < CronPlaces
    /\ jobs' = IF count \in Places THEN [jobs EXCEPT ![count] = NewJob(added + 1, Kept(r), Now)]
               ELSE jobs
    /\ agent' = [pc |-> "counts", seen |-> count, by |-> 1]
    /\ crossed' = (crossed \/ cronTask.pc = "drop")
    /\ UNCHANGED <<count, cronFile, cronTask, clock, history, torn, lost, cronBoots>>

\* cron_remove, up to the end of the shift.
CronRemove(id) ==
    /\ agent.pc = "idle"
    /\ \E k \in Holding(id) :
          /\ \A j \in Holding(id) : k <= j
          /\ jobs' = Shifted(jobs, count, k)
          /\ crossed' = (crossed \/ cronTask.pc = "drop" \/ (cronTask.pc = "push" /\ k <= cronTask.at))
    /\ over' = over \cup {id}
    /\ agent' = [pc |-> "counts", seen |-> count, by |-> -1]
    /\ UNCHANGED <<count, cronFile, cronTask, clock, added, torn, lost, cronBoots>>

\* The new count, from the one it is now or from the one that was read before, and the copy.
AgentCounts ==
    /\ agent.pc = "counts"
    /\ count' \in {count + agent.by, agent.seen + agent.by}
    /\ added' = IF agent.by = 1 THEN added + 1 ELSE added
    /\ crossed' = (crossed \/ (cronTask.pc = "push" /\ count' <= cronTask.at))
    /\ agent' = [pc |-> "saves", copy |-> Table(jobs, count')]
    /\ UNCHANGED <<jobs, cronFile, cronTask, clock, over, torn, lost, cronBoots>>

\* Bound: a save fails while the file has not been spoilt yet.
MaySpoil == ~torn /\ ~lost

\* The end of cron_save_jobs: the file may not open, or may be cut short.
Write(copy) ==
    \/ cronFile' = copy /\ torn' = (torn \/ (agent.pc = "saves" /\ cronTask.pc = "save"))
    \/ MaySpoil /\ cronFile' \in {cronFile, <<>>} /\ torn' = TRUE

AgentSaves ==
    /\ agent.pc = "saves"
    /\ Write(agent.copy)
    /\ agent' = [pc |-> "idle"]
    /\ UNCHANGED <<jobs, count, cronTask, clock, history, crossed, lost, cronBoots>>

-----------------------------------------------------------------------------
(* The cron task. *)

CronWakes ==
    /\ cronTask.pc = "asleep"
    /\ cronTask' = [pc |-> "pass", from |-> 0, now |-> Now, changed |-> FALSE]
    /\ UNCHANGED <<jobs, count, cronFile, agent, clock, history, broken, cronBoots>>

Due(k, now) == jobs[k].enabled /\ jobs[k].next > 0 /\ jobs[k].next <= now

\* On to the next due job, of which a message is made, or to the end of the pass.
CronScans ==
    /\ cronTask.pc = "pass"
    /\ LET due == {k \in Listed : k >= cronTask.from /\ Due(k, cronTask.now)}
       IN  \/ \E k \in due :
                 /\ \A j \in due : k <= j
                 /\ cronTask' = [pc |-> "push", at |-> k, now |-> cronTask.now]
                 /\ over' = IF jobs[k].kind = "at" THEN over \cup {jobs[k].id} ELSE over
           \/ /\ due = {}
              /\ cronTask' = IF cronTask.changed THEN [pc |-> "save", copy |-> Table(jobs, count)]
                             ELSE [pc |-> "asleep"]
              /\ UNCHANGED over
    /\ UNCHANGED <<jobs, count, cronFile, agent, clock, added, broken, cronBoots>>

GoOn(k) == cronTask' = [pc |-> "pass", from |-> k, now |-> cronTask.now, changed |-> TRUE]

\* The push has succeeded, or failed after its second: either way the job at that place
\* of the array, whichever it is by now, counts as run, and is shifted out if it is a
\* one-shot to be deleted.
CronPushed ==
    /\ cronTask.pc = "push"
    /\ LET k == cronTask.at
           job == jobs[k]
       IN  IF job.kind = "at" /\ job.del
           THEN /\ jobs' = Shifted(jobs, count, k)
                /\ cronTask' = [pc |-> "drop", at |-> k, seen |-> count, now |-> cronTask.now]
                /\ crossed' = (crossed \/ agent.pc = "counts")
           ELSE /\ jobs' = [jobs EXCEPT ![k] = AfterFiring(job, cronTask.now)]
                /\ GoOn(k + 1)
                /\ UNCHANGED crossed
    /\ UNCHANGED <<count, cronFile, agent, clock, history, torn, lost, cronBoots>>

\* The count after a deletion, in the same two ways, and the same place again.
CronDrops ==
    /\ cronTask.pc = "drop"
    /\ count' \in {count - 1, cronTask.seen - 1}
    /\ GoOn(cronTask.at)
    /\ UNCHANGED <<jobs, cronFile, agent, clock, history, broken, cronBoots>>

CronSaves ==
    /\ cronTask.pc = "save"
    /\ Write(cronTask.copy)
    /\ cronTask' = [pc |-> "asleep"]
    /\ UNCHANGED <<jobs, count, agent, clock, history, crossed, lost, cronBoots>>

-----------------------------------------------------------------------------
(* The clock, and reboots. *)

CronTick ==
    /\ time < MaxTime
    /\ time' = time + 1
    /\ UNCHANGED <<jobs, count, cronFile, cronTask, agent, synced, history, broken, cronBoots>>

ClockSet ==
    /\ ~synced
    /\ synced' = TRUE
    /\ UNCHANGED <<jobs, count, cronFile, cronTask, agent, time, history, broken, cronBoots>>

\* cron_load_jobs and the start of the service, which gives a time to every enabled job
\* that has none.
Loaded == IF Len(cronFile) > FileHolds THEN <<>> ELSE cronFile
Started(job, now) ==
    IF job.enabled /\ job.next = 0 /\ (job.kind = "at" => job.when > now)
    THEN NewJob(job.id, job, now) ELSE job

CronReboot ==
    /\ cronBoots < MaxCronBoots
    /\ cronBoots' = cronBoots + 1
    /\ synced' \in BOOLEAN
    /\ LET now == IF synced' THEN time ELSE 0
       IN  /\ count' = Len(Loaded)
           /\ jobs' = [k \in Places |-> IF k < count' THEN Started(Loaded[k + 1], now) ELSE NoJob]
    /\ cronTask' = [pc |-> "asleep"]
    /\ agent' = [pc |-> "idle"]
    /\ lost' = (lost \/ torn \/ agent.pc = "saves" \/ Len(cronFile) > FileHolds) /\ torn' = FALSE
    /\ UNCHANGED <<cronFile, time, history, crossed>>

-----------------------------------------------------------------------------

CronStep == CronWakes \/ CronScans \/ CronPushed \/ CronDrops \/ CronSaves

CronNext ==
    \/ \E r \in CronRequests : CronAdd(r)
    \/ \E id \in JobId : CronRemove(id)
    \/ AgentCounts \/ AgentSaves
    \/ CronStep
    \/ CronTick \/ ClockSet \/ CronReboot

CronSpec == CronInit /\ [][CronNext]_cronVars

-----------------------------------------------------------------------------
(* Properties. *)

\* Types; the count stays within the array, but a race can bring it below zero.
CronTypeOK ==
    /\ jobs \in [Places -> Job \cup {NoJob}]
    /\ count \in Int /\ count <= CronPlaces
    /\ \A k \in Listed : jobs[k] # NoJob
    /\ cronTask.pc \in {"asleep", "pass", "push", "drop", "save"}
    /\ agent.pc \in {"idle", "counts", "saves"}
    /\ added \in 0 .. MaxAdds /\ over \subseteq JobId

\* A job that was added and not removed is in the array, or is a one-shot that has fired:
\* "Remove job after firing" (cron_service.h).  Excepted is what a file that was not
\* written or not accepted loses at a reboot.
NoJobVanishes ==
    \A id \in 1 .. added : id \in over \/ Holding(id) # {} \/ lost

\* The same of the code as it is, where agent and cron task change the array without a lock
\* (cron_service.c): a job vanishes only after a change by the agent crossed one by the task.
\* That is a removal at or below the place at which the task waits in its push, or a deletion
\* by the task between a change by the agent and its new count or the other way round.  Jobs
\* added or removed at any other moment of a pass are safe, and saves that fail or cross lose
\* nothing before the next reboot.
OnlyCrossingsLose == crossed \/ NoJobVanishes

\* An interval of less than a second is kept as zero: such a job is due at every moment.
AlwaysDue(job) == job.kind = "every" /\ job.when = 0
FiresSuch      == cronTask.pc = "push" /\ AlwaysDue(jobs[cronTask.at])

\* No job stays due for ever (cron_process_due_jobs), whatever other jobs do and whether or not
\* the inbound queue takes the messages: again and again none is, but for those that are due at
\* every moment, and if there are such the task is firing one.
DueIsFired ==
    []<>(\A id \in JobId : \A k \in Holding(id) :
            ~Due(k, Now) \/ (AlwaysDue(jobs[k]) /\ FiresSuch))
=============================================================================
