------------------------------ MODULE CronManager ------------------------------
(***************************************************************************)
(* Scheduled jobs of the TypeScript client: CronManager of                 *)
(* packages/core/src/cron/cron-manager.ts with its default driver,         *)
(* TimerScheduleDriver of timer-driver.ts.  All of it runs in one thread;  *)
(* what interleaves is the code between awaits, with jobs that take any    *)
(* time and with calls of schedule and cancel, also for an id that is in   *)
(* use or was cancelled while its job runs.                                *)
(*                                                                         *)
(* A registration is what one call of schedule makes: the manager's        *)
(* CronJobState and the driver's entry.  Both know each other by id only.  *)
(* A registration has at most one timer at a time, and the timer's         *)
(* callback waits for the job before it sets the next.                     *)
(***************************************************************************)
EXTENDS Naturals, Sequences, FiniteSets

CONSTANTS
    CronIds,
    MaxRegistered    \* bound: calls of schedule

VARIABLES
    registry,        \* the registrations so far: id, kind of schedule, overlap policy
    jobs, entries, timers,    \* the maps, from ids to registrations, 0 for none
    chain,           \* by registration: what its timer does
    running, queued, \* the registrations with that flag set
    runs,            \* the runs under way: of a registration, begun by a timer or a queue
    cronDisposed     \* history: how many registrations the last dispose came after

cronMaps == <<jobs, entries, timers>>
cronVars == <<registry, cronMaps, chain, running, queued, runs, cronDisposed>>

\* A timer is armed, its callback awaits the job or goes on, or it is over: cleared, fired
\* without a next one, or lapsed when the schedule has no next time.
ChainStates == {"armed", "awaiting", "settled", "over", "lapsed"}
Registrations == DOMAIN registry
IdOf(r) == registry[r].id

CronInit ==
    /\ registry = <<>> /\ chain = <<>>
    /\ jobs = [i \in CronIds |-> 0] /\ entries = jobs /\ timers = jobs
    /\ running = {} /\ queued = {} /\ runs = {}
    /\ cronDisposed = 0

-----------------------------------------------------------------------------
\* scheduleNext, when the schedule has a next time and when it has none.
ArmTimer(r, id, chainNow) ==
    /\ timers' = [timers EXCEPT ![id] = r]
    /\ chain' = [chainNow EXCEPT ![r] = "armed"]

Lapse(r, id, chainNow) ==
    /\ timers' = [timers EXCEPT ![id] = 0] /\ entries' = [entries EXCEPT ![id] = 0]
    /\ chain' = [chainNow EXCEPT ![r] = "lapsed"]

\* A one-shot time that has passed is refused; a cron expression without a next time is not.
\* Nothing refuses a call after dispose: a job under way may schedule while AgentOs.dispose()
\* awaits what it disposes of after the cron manager.
schedule(id, kind, overlap) ==
    LET r == Len(registry) + 1
        all == Append(chain, "over")
    IN /\ r <= MaxRegistered
       /\ registry' = Append(registry, [id |-> id, kind |-> kind, overlap |-> overlap])
       /\ \/ ArmTimer(r, id, all) /\ entries' = [entries EXCEPT ![id] = r]
          \/ kind = "cron" /\ Lapse(r, id, all)
       /\ jobs' = [jobs EXCEPT ![id] = r]
       /\ UNCHANGED <<running, queued, runs, cronDisposed>>

\* driver.cancel for ids: only a timer that the map still holds is cleared.
DriverCancel(ids) ==
    LET held == {timers[i] : i \in ids}
    IN /\ chain' = [r \in Registrations |-> IF r \in held THEN "over" ELSE chain[r]]
       /\ timers' = [i \in CronIds |-> IF i \in ids THEN 0 ELSE timers[i]]
       /\ entries' = [i \in CronIds |-> IF i \in ids THEN 0 ELSE entries[i]]

cancel(id) ==
    /\ jobs[id] # 0
    /\ DriverCancel({id})
    /\ jobs' = [jobs EXCEPT ![id] = 0]
    /\ UNCHANGED <<registry, running, queued, runs, cronDisposed>>

dispose ==
    /\ cronDisposed' = Len(registry)
    /\ DriverCancel(CronIds)
    /\ jobs' = [i \in CronIds |-> 0]
    /\ UNCHANGED <<registry, running, queued, runs>>

-----------------------------------------------------------------------------
\* executeJob up to its first await, with the flags as they are by then; `run' is the run
\* that begins if one does.
Policy(id, now) ==
    CASE jobs[id] = 0 -> "return"
      [] jobs[id] # 0 /\ (jobs[id] \notin now \/ registry[jobs[id]].overlap = "allow") -> "run"
      [] jobs[id] # 0 /\ jobs[id] \in now /\ registry[jobs[id]].overlap = "skip" -> "return"
      [] jobs[id] # 0 /\ jobs[id] \in now /\ registry[jobs[id]].overlap = "queue" -> "queue"

executeJob_NoPolicy(id, run, runningNow, queuedNow, runsNow) ==
    /\ running' = runningNow \cup ({jobs[id]} \ {0})
    /\ runs' = IF jobs[id] = 0 THEN runsNow ELSE runsNow \cup {run}
    /\ queued' = queuedNow

executeJob(id, run, runningNow, queuedNow, runsNow) ==
    LET policy == Policy(id, runningNow)
    IN /\ running' = IF policy = "run" THEN runningNow \cup {jobs[id]} ELSE runningNow
       /\ runs' = IF policy = "run" THEN runsNow \cup {run} ELSE runsNow
       /\ queued' = IF policy = "queue" THEN queuedNow \cup {jobs[id]} ELSE queuedNow

Run(id, by, source) == [reg |-> jobs[id], by |-> by, source |-> source]

\* The callback of a timer up to `await entry.callback()'.
JobTimerFires(r) ==
    LET id == IdOf(r)
    IN /\ chain[r] = "armed"
       /\ timers' = [timers EXCEPT ![id] = 0]
       /\ executeJob(id, Run(id, "timer", r), running, queued, runs)
       /\ chain' = [chain EXCEPT ![r] = IF runs' # runs THEN "awaiting" ELSE "settled"]
       /\ UNCHANGED <<registry, jobs, entries, cronDisposed>>

\* The end of runAction, well or with an error, and the finally block of executeJob.
RunEnds(run) ==
    LET r == run.reg
        id == IdOf(r)
    IN /\ IF r \in queued
          THEN executeJob(id, Run(id, "queue", r), running \ {r}, queued \ {r}, runs \ {run})
          ELSE running' = running \ {r} /\ runs' = runs \ {run} /\ UNCHANGED queued
       /\ chain' = IF run.by = "timer" THEN [chain EXCEPT ![run.source] = "settled"] ELSE chain
       /\ UNCHANGED <<registry, cronMaps, cronDisposed>>

\* The rest of the timer's callback.
TimerGoesOn_Always(r) ==
    /\ chain[r] = "settled" /\ ArmTimer(r, IdOf(r), chain)
    /\ UNCHANGED <<registry, jobs, entries, running, queued, runs, cronDisposed>>

TimerGoesOn_Once(r) ==
    /\ chain[r] = "settled"
    /\ entries' = [entries EXCEPT ![IdOf(r)] = 0]
    /\ chain' = [chain EXCEPT ![r] = "over"]
    /\ UNCHANGED <<registry, jobs, timers, running, queued, runs, cronDisposed>>

TimerGoesOn(r) ==
    LET id == IdOf(r)
    IN /\ chain[r] = "settled"
       /\ IF registry[r].kind = "cron" /\ entries[id] # 0
          THEN (ArmTimer(r, id, chain) /\ UNCHANGED entries) \/ Lapse(r, id, chain)
          ELSE /\ entries' = [entries EXCEPT ![id] = 0]
               /\ chain' = [chain EXCEPT ![r] = "over"]
               /\ UNCHANGED timers
       /\ UNCHANGED <<registry, jobs, running, queued, runs, cronDisposed>>

CronNext ==
    \/ \E id \in CronIds, kind \in {"cron", "date"}, overlap \in {"allow", "skip", "queue"} :
          schedule(id, kind, overlap)
    \/ \E id \in CronIds : cancel(id)
    \/ dispose
    \/ \E r \in Registrations : JobTimerFires(r) \/ TimerGoesOn(r)
    \/ \E run \in runs : RunEnds(run)

CronSpec == CronInit /\ [][CronNext]_cronVars

-----------------------------------------------------------------------------
CronTypeOK ==
    /\ Len(registry) <= MaxRegistered /\ DOMAIN chain = Registrations
    /\ \A r \in Registrations : chain[r] \in ChainStates
    /\ \A m \in {jobs, entries, timers} : \A i \in CronIds : m[i] \in {0} \cup Registrations
    /\ running \cup queued \subseteq Registrations
    /\ \A run \in runs : run.reg \in Registrations /\ run.source \in Registrations

RunsOf(r) == {run \in runs : run.reg = r}

(* Unless it allows overlap, a registration has one run at a time, and its *)
(* flag says exactly whether it has one: with timers that were forgotten,  *)
(* an id that is used again, and runs begun from the queue of an earlier   *)
(* registration (executeJob's overlap policy).                             *)
RunsDoNotOverlap ==
    \A r \in Registrations : registry[r].overlap # "allow" =>
        Cardinality(RunsOf(r)) = IF r \in running THEN 1 ELSE 0

(* A run that was put off has a run under way whose end will look at the   *)
(* flag: a job is not forgotten in the queue (executeJob's finally block). *)
QueuedHasARun == \A r \in queued : RunsOf(r) # {}

UsedOnce(id) == Cardinality({r \in Registrations : IdOf(r) = id}) = 1

(* A recurring job whose id is not used twice goes on until it is          *)
(* cancelled: it is never left registered without a timer or a callback    *)
(* that will set one, and its timer is one that cancel finds               *)
(* (TimerScheduleDriver).                                                  *)
RecurringGoesOn ==
    \A id \in CronIds : UsedOnce(id) /\ jobs[id] # 0 /\ registry[jobs[id]].kind = "cron" =>
        \/ chain[jobs[id]] = "lapsed"
        \/ /\ entries[id] = jobs[id]
           /\ chain[jobs[id]] \in {"armed", "awaiting", "settled"}
           /\ chain[jobs[id]] = "armed" => timers[id] = jobs[id]

(* What dispose ended stays ended, whatever is scheduled afterwards: no    *)
(* job registered before it begins another run, by a timer that the maps   *)
(* had forgotten, by a run that was under way or from a queue; and none of *)
(* its timers is set again, unless its id was given to a new job since,    *)
(* whose entry the old callback takes for its own (CronManager.dispose,    *)
(* TimerScheduleDriver.dispose).                                           *)
DisposedIsQuiet ==
    [][\A r \in 1..cronDisposed :
          /\ \A run \in runs' \ runs : run.reg # r
          /\ chain'[r] = "armed" =>
                chain[r] = "armed" \/ \E q \in Registrations : q > cronDisposed /\ IdOf(q) = IdOf(r)]_cronVars

(* Every job keeps its overlap policy: RunsDoNotOverlap and QueuedHasARun  *)
(* (executeJob and its finally block).                                     *)
OverlapPolicyIsKept == RunsDoNotOverlap /\ QueuedHasARun
================================================================================
