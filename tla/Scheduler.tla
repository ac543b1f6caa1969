----------------------------- MODULE Scheduler -----------------------------
(***************************************************************************)
(* services/scheduler/scheduler.go: processes that compete for a lease in  *)
(* Redis, the holder of which publishes a task for every due cron job.     *)
(*                                                                         *)
(* Time is kept in countdowns, so that it has no end.  A unit passes for   *)
(* all of them at once, between any two calls of a tick that has the       *)
(* lease: nothing stops a tick from outlasting it.  Ticks that are due,    *)
(* and the calls for the lease itself, take no time.                       *)
(***************************************************************************)
EXTENDS Calls

CONSTANTS
    Schedulers,      \* the processes
    Jobs,            \* the enabled rows of scheduled_jobs
    BadCron,         \* those with a cron expression that does not parse
    None,            \* no holder, no job
    Gone,            \* the instance ID of a process that has ended
    LeaderTTL,       \* length of the lease, in units of time
    CheckInterval,   \* time between two ticks
    Period,          \* time between two instants of a cron expression
    MaxDisruptions   \* bound: crashes and signals

ASSUME SchedulerAssumption ==
    /\ None \notin Schedulers \cup Jobs \cup {Gone}
    /\ Gone \notin Schedulers
    /\ BadCron \subseteq Jobs
    /\ {LeaderTTL, CheckInterval, Period} \subseteq Nat \ {0}
    /\ MaxDisruptions \in Nat

VARIABLES
    lease,       \* time until scheduler:leader expires; 0 when there is no such key
    holder,      \* the value of scheduler:leader
    dueIn,       \* dueIn[j]: time until next_run_at of j; 0 when it is due or NULL
    cronIn,      \* cronIn[j]: time until the next instant of j's cron expression
    phase,       \* phase[s]: the call s makes next
    tickIn,      \* tickIn[s]: time until the ticker of s fires
    ticked,      \* ticked[s]: a tick waits in the channel of the ticker
    cancelled,   \* cancelled[s]: the context of Run is done
    todo,        \* todo[s]: the due jobs s has loaded and not yet begun
    job,         \* job[s]: the job runJob is called with
    nextRun,     \* nextRun[s]: time until the next run computed from runJob's now
    age,         \* history: age[s]: time since the tick of s got the lease
    crossed,     \* history: processes whose tick was under way with that of another
    owed,        \* history: jobs with an instant after which nothing was published
    idle,        \* history: time without a leader although a process was running
    disruptions  \* how much of MaxDisruptions is used

tableVars == <<dueIn, cronIn>>
leaseVars == <<lease, holder>>
timerVars == <<tickIn, ticked, cancelled>>
tickVars == <<todo, job, nextRun>>
pastVars == <<age, crossed, owed, idle>>
vars == <<tableVars, leaseVars, timerVars, tickVars, phase, pastVars, disruptions, faults>>

Phases == {"stopped", "wait", "acquire", "renew", "load", "publish", "update"}

\* What idle is counted up to.
IdleBound == (LeaderTTL + CheckInterval) * (MaxFaults + 1)

TypeOK ==
    /\ lease \in 0 .. LeaderTTL
    /\ holder \in Schedulers \cup {Gone, None}
    /\ lease = 0 <=> holder = None
    /\ dueIn \in [Jobs -> 0 .. Period]
    /\ cronIn \in [Jobs \ BadCron -> 1 .. Period]
    /\ phase \in [Schedulers -> Phases]
    /\ tickIn \in [Schedulers -> 1 .. CheckInterval]
    /\ ticked \in [Schedulers -> BOOLEAN]
    /\ cancelled \in [Schedulers -> BOOLEAN]
    /\ todo \in [Schedulers -> SUBSET Jobs]
    /\ job \in [Schedulers -> Jobs \cup {None}]
    /\ nextRun \in [Schedulers -> 0 .. Period]
    /\ age \in [Schedulers -> 0 .. LeaderTTL]
    /\ crossed \subseteq Schedulers
    /\ owed \subseteq Jobs
    /\ idle \in 0 .. IdleBound + 1
    /\ disruptions \in 0 .. MaxDisruptions
    /\ faults \in 0 .. MaxFaults

\* The jobs are new, with next_run_at NULL or now, and nothing runs.
Init ==
    /\ lease = 0
    /\ holder = None
    /\ dueIn = [j \in Jobs |-> 0]
    /\ cronIn \in [Jobs \ BadCron -> 1 .. Period]
    /\ phase = [s \in Schedulers |-> "stopped"]
    /\ tickIn = [s \in Schedulers |-> CheckInterval]
    /\ ticked = [s \in Schedulers |-> FALSE]
    /\ cancelled = [s \in Schedulers |-> FALSE]
    /\ todo = [s \in Schedulers |-> {}]
    /\ job = [s \in Schedulers |-> None]
    /\ nextRun = [s \in Schedulers |-> 0]
    /\ age = [s \in Schedulers |-> 0]
    /\ crossed = {}
    /\ owed = Jobs
    /\ idle = 0
    /\ disruptions = 0
    /\ faults = 0

-----------------------------------------------------------------------------
Live(s) == ~cancelled[s]
Goto(s, p) == phase' = [phase EXCEPT ![s] = p]
Firing(s) == phase[s] \in {"load", "publish", "update"}

\* acquireOrRenewLeadership returns true, or false.
Lead(s) ==
    /\ Goto(s, "load")
    /\ idle' = 0
    /\ crossed' = LET others == {r \in Schedulers : Firing(r)}
                  IN  IF others = {} THEN crossed ELSE crossed \cup others \cup {s}
    /\ UNCHANGED age

Follow(s) ==
    /\ Goto(s, "wait")
    /\ UNCHANGED <<age, crossed, idle>>

\* The tick of s is over.
Over(s) ==
    /\ todo' = [todo EXCEPT ![s] = {}]
    /\ job' = [job EXCEPT ![s] = None]
    /\ nextRun' = [nextRun EXCEPT ![s] = 0]
    /\ age' = [age EXCEPT ![s] = 0]
    /\ crossed' = crossed \ {s}

\* The key scheduler:leader is written or extended.
Write(s) ==
    /\ lease' = LeaderTTL
    /\ holder' = s

\* Run begins with a tick, and its ticker starts.
Start(s) ==
    /\ phase[s] = "stopped"
    /\ Goto(s, "acquire")
    /\ UNCHANGED <<tableVars, leaseVars, timerVars, tickVars, pastVars, disruptions, faults>>

\* The select of Run receives a tick, also when the context is done.
Tick(s) ==
    /\ phase[s] = "wait"
    /\ ticked[s]
    /\ ticked' = [ticked EXCEPT ![s] = FALSE]
    /\ Goto(s, "acquire")
    /\ UNCHANGED <<tableVars, leaseVars, tickIn, cancelled, tickVars, pastVars, disruptions, faults>>

\* Mutant: SET without NX.
AcquireAlways(s) ==
    /\ phase[s] = "acquire"
    /\ \/ Succeeds(Live(s)) /\ Write(s) /\ Lead(s)
       \/ Fails(Live(s)) /\ Follow(s) /\ UNCHANGED leaseVars
    /\ UNCHANGED <<tableVars, timerVars, tickVars, owed, disruptions>>

\* SET NX: the key is written when there is none; an error ends the tick.
Acquire(s) ==
    /\ phase[s] = "acquire"
    /\ \/ /\ lease = 0
          /\ Succeeds(Live(s))
          /\ Write(s)
          /\ Lead(s)
       \/ /\ lease > 0
          /\ Succeeds(Live(s))
          /\ Goto(s, "renew")
          /\ UNCHANGED <<leaseVars, age, crossed, idle>>
       \/ /\ Fails(Live(s))
          /\ UNCHANGED leaseVars \/ (Live(s) /\ lease = 0 /\ Write(s))
          /\ Follow(s)
    /\ UNCHANGED <<tableVars, timerVars, tickVars, owed, disruptions>>

\* Mutant: the script extends the lease whoever holds it.
RenewForOthers(s) ==
    /\ phase[s] = "renew"
    /\ UNCHANGED holder
    /\ \/ /\ Succeeds(Live(s))
          /\ lease' = IF lease > 0 THEN LeaderTTL ELSE 0
          /\ IF holder = s THEN Lead(s) ELSE Follow(s)
       \/ Fails(Live(s)) /\ Follow(s) /\ UNCHANGED lease
    /\ UNCHANGED <<tableVars, timerVars, tickVars, owed, disruptions>>

\* The script extends the lease of the instance that holds it.
Renew(s) ==
    /\ phase[s] = "renew"
    /\ \/ /\ holder = s
          /\ Succeeds(Live(s))
          /\ Write(s)
          /\ Lead(s)
       \/ /\ holder # s
          /\ Succeeds(Live(s))
          /\ Follow(s)
          /\ UNCHANGED leaseVars
       \/ /\ Fails(Live(s))
          /\ UNCHANGED leaseVars \/ (Live(s) /\ holder = s /\ Write(s))
          /\ Follow(s)
    /\ UNCHANGED <<tableVars, timerVars, tickVars, owed, disruptions>>

-----------------------------------------------------------------------------
(* processDueJobs *)

\* The loop over the jobs that are left: runJob reads the time and publishes, or
\* the tick is over.  The order of the jobs is left open.
Proceed(s, left) ==
    \/ /\ left = {}
       /\ Goto(s, "wait")
       /\ Over(s)
    \/ \E j \in left :
       /\ Goto(s, "publish")
       /\ todo' = [todo EXCEPT ![s] = left \ {j}]
       /\ job' = [job EXCEPT ![s] = j]
       /\ nextRun' = [nextRun EXCEPT ![s] = IF j \in BadCron THEN 0 ELSE cronIn[j]]
       /\ UNCHANGED <<age, crossed>>

\* Mutant: all enabled jobs are loaded.
LoadAllJobs(s) ==
    /\ phase[s] = "load"
    /\ \/ Succeeds(Live(s)) /\ Proceed(s, Jobs)
       \/ Fails(Live(s)) /\ Proceed(s, {})
    /\ UNCHANGED <<tableVars, leaseVars, timerVars, owed, idle, disruptions>>

LoadDueJobs(s) ==
    /\ phase[s] = "load"
    /\ \/ Succeeds(Live(s)) /\ Proceed(s, {j \in Jobs : dueIn[j] = 0})
       \/ Fails(Live(s)) /\ Proceed(s, {})
    /\ UNCHANGED <<tableVars, leaseVars, timerVars, owed, idle, disruptions>>

\* Mutant: an error ends the loop over the jobs.
PublishTaskOrStop(s) ==
    /\ phase[s] = "publish"
    /\ \E ok, written \in BOOLEAN :
          /\ Publish(Live(s), ok, written)
          /\ owed' = IF written THEN owed \ {job[s]} ELSE owed
          /\ IF ok /\ job[s] \notin BadCron
             THEN Goto(s, "update") /\ UNCHANGED <<tickVars, age, crossed>>
             ELSE Proceed(s, {})
    /\ UNCHANGED <<tableVars, leaseVars, timerVars, idle, disruptions>>

\* Publish first, then parse the cron expression: either error leaves the row of
\* the job alone, and the loop goes on.
PublishTask(s) ==
    /\ phase[s] = "publish"
    /\ \E ok, written \in BOOLEAN :
          /\ Publish(Live(s), ok, written)
          /\ owed' = IF written THEN owed \ {job[s]} ELSE owed
          /\ IF ok /\ job[s] \notin BadCron
             THEN Goto(s, "update") /\ UNCHANGED <<tickVars, age, crossed>>
             ELSE Proceed(s, todo[s])
    /\ UNCHANGED <<tableVars, leaseVars, timerVars, idle, disruptions>>

\* Mutant: the next run is computed from the time of the update.
UpdateJobFromNow(s) ==
    /\ phase[s] = "update"
    /\ \/ Succeeds(Live(s)) /\ dueIn' = [dueIn EXCEPT ![job[s]] = cronIn[job[s]]]
       \/ Fails(Live(s)) /\ UNCHANGED dueIn
    /\ Proceed(s, todo[s])
    /\ UNCHANGED <<cronIn, leaseVars, timerVars, owed, idle, disruptions>>

UpdateJob(s) ==
    /\ phase[s] = "update"
    /\ LET stored == [dueIn EXCEPT ![job[s]] = nextRun[s]]
       IN  \/ Succeeds(Live(s)) /\ dueIn' = stored
           \/ Fails(Live(s)) /\ (UNCHANGED dueIn \/ (Live(s) /\ dueIn' = stored))
    /\ Proceed(s, todo[s])
    /\ UNCHANGED <<cronIn, leaseVars, timerVars, owed, idle, disruptions>>

-----------------------------------------------------------------------------
(* The process, and time *)

\* The process ends, and its ticker and context with it.  Its lease stays, under
\* an instance ID nobody has any more.
Leave(s) ==
    /\ Goto(s, "stopped")
    /\ holder' = IF holder = s THEN Gone ELSE holder
    /\ Over(s)
    /\ tickIn' = [tickIn EXCEPT ![s] = CheckInterval]
    /\ ticked' = [ticked EXCEPT ![s] = FALSE]
    /\ cancelled' = [cancelled EXCEPT ![s] = FALSE]
    /\ UNCHANGED <<tableVars, lease, owed, idle, faults>>

\* The select of Run finds the context done.
Return(s) ==
    /\ phase[s] = "wait"
    /\ cancelled[s]
    /\ Leave(s)
    /\ UNCHANGED disruptions

Disrupt ==
    /\ disruptions < MaxDisruptions
    /\ disruptions' = disruptions + 1

Crash(s) ==
    /\ phase[s] # "stopped"
    /\ Leave(s)
    /\ Disrupt

Signal(s) ==
    /\ phase[s] # "stopped"
    /\ ~cancelled[s]
    /\ cancelled' = [cancelled EXCEPT ![s] = TRUE]
    /\ Disrupt
    /\ UNCHANGED <<tableVars, leaseVars, tickIn, ticked, tickVars, phase, pastVars, faults>>

Less(n) == IF n = 0 THEN 0 ELSE n - 1

\* Nothing that takes no time is left to do.
Settled ==
    \A s \in Schedulers :
        \/ phase[s] = "stopped"
        \/ phase[s] = "wait" /\ ~ticked[s] /\ ~cancelled[s]
        \/ Firing(s)

\* A unit of time passes.
Elapse ==
    /\ Settled
    /\ lease' = Less(lease)
    /\ holder' = IF lease <= 1 THEN None ELSE holder
    /\ dueIn' = [j \in Jobs |-> Less(dueIn[j])]
    /\ cronIn' = [j \in Jobs \ BadCron |-> IF cronIn[j] = 1 THEN Period ELSE cronIn[j] - 1]
    /\ nextRun' = [s \in Schedulers |-> Less(nextRun[s])]
    /\ tickIn' = [s \in Schedulers |-> IF phase[s] = "stopped" \/ tickIn[s] = 1
                                       THEN CheckInterval ELSE tickIn[s] - 1]
    /\ ticked' = [s \in Schedulers |-> ticked[s] \/ (tickIn[s] = 1 /\ phase[s] # "stopped")]
    /\ age' = [s \in Schedulers |-> IF Firing(s) /\ age[s] < LeaderTTL THEN age[s] + 1 ELSE age[s]]
    /\ owed' = owed \cup {j \in Jobs \ BadCron : cronIn[j] = 1}
    /\ idle' = IF (\E s \in Schedulers : Firing(s)) \/ (\A s \in Schedulers : phase[s] = "stopped")
               THEN 0
               ELSE IF idle > IdleBound THEN idle ELSE idle + 1
    /\ UNCHANGED <<cancelled, phase, todo, job, crossed, disruptions, faults>>

RunStep(s) ==
    \/ Tick(s) \/ Acquire(s) \/ Renew(s)
    \/ LoadDueJobs(s) \/ PublishTask(s) \/ UpdateJob(s)
    \/ Return(s)

Next ==
    \/ \E s \in Schedulers : RunStep(s) \/ Start(s) \/ Crash(s) \/ Signal(s)
    \/ Elapse

Spec == Init /\ [][Next]_vars

\* A running process goes on, a stopped one is started again by its deployment,
\* and time passes.
Fairness ==
    /\ \A s \in Schedulers : WF_vars(RunStep(s) \/ Start(s))
    /\ WF_vars(Elapse)

FairSpec == Spec /\ Fairness

-----------------------------------------------------------------------------
(* Properties *)

\* "Multiple instances compete for a Redis lock - only one fires at a time": of
\* two processes that are between the lease and the end of their ticks, one has
\* outlasted its lease.
OneFiresAtATime ==
    \A s1, s2 \in Schedulers :
        Firing(s1) /\ Firing(s2) /\ age[s1] < LeaderTTL /\ age[s2] < LeaderTTL => s1 = s2

\* The jobs a leader has loaded are still due when it comes to publish them: its
\* list does not get stale, although processes end and the lease changes hands,
\* unless the tick of another process was under way at the same time.
LoadedIsDue ==
    \A s \in Schedulers \ crossed :
        /\ \A j \in todo[s] : dueIn[j] = 0
        /\ phase[s] = "publish" => dueIn[job[s]] = 0

\* No instant of a cron expression is skipped: as long as nothing was published
\* for the last one, the row of the job says it is due.  runJob takes the time
\* before it publishes, so that an instant that passes before next_run_at is
\* stored makes the job due again at once.
OwedIsDue ==
    \A j \in owed : dueIn[j] = 0

TakeoverLimit == (LeaderTTL + CheckInterval) * (faults + 1)

\* A leader that ends is succeeded within the length of its lease and one check
\* interval, as long as some process runs and no call fails; every call that
\* fails may cost the same time again.
TakeoverIsBounded == idle < TakeoverLimit

\* Every job is published after every instant, however leaders end, and although
\* a job with a bad cron expression is loaded, published and left due by every
\* tick.
DueJobsFire ==
    \A j \in Jobs \ BadCron : j \in owed ~> j \notin owed

-----------------------------------------------------------------------------
(* The strengthening of the safety properties that every step preserves. *)

\* A tick works on a job it has taken from its list, and nothing of it is left
\* when it is over.
TickInv ==
    \A s \in Schedulers :
        /\ phase[s] \in {"publish", "update"} => job[s] \in Jobs \ todo[s]
        /\ phase[s] \notin {"publish", "update"} => todo[s] = {}
        /\ ~Firing(s) => age[s] = 0

\* The lease is as old as the tick that took it, until it expires.
LeaseInv ==
    \A s \in Schedulers :
        Firing(s) /\ age[s] < LeaderTTL => holder = s /\ lease = LeaderTTL - age[s]

\* Ticks that are under way together know of each other.
CrossInv ==
    \A s1, s2 \in Schedulers : Firing(s1) /\ Firing(s2) /\ s1 # s2 => s1 \in crossed

\* Neither a stored next_run_at nor one that is about to be stored lies beyond
\* the next instant of its job, and when an instant has passed since the publish
\* the one to be stored is in the past.
NextRunInv ==
    /\ \A j \in Jobs \ BadCron : dueIn[j] <= cronIn[j]
    /\ \A j \in BadCron : dueIn[j] = 0
    /\ \A s \in Schedulers :
          /\ phase[s] \in {"publish", "update"} /\ job[s] \notin BadCron
                => nextRun[s] <= cronIn[job[s]]
          /\ phase[s] = "update" =>
                job[s] \notin BadCron /\ (job[s] \in owed => nextRun[s] = 0)

\* While the lease lasts there is a check interval left after it, and once it has
\* expired every process that waits ticks in time.
TakeoverInv ==
    /\ \A s \in Schedulers : Firing(s) => idle = 0
    /\ \A s \in Schedulers : phase[s] = "renew" => lease > 0
    /\ lease > 0 => idle + lease + CheckInterval <= TakeoverLimit
    /\ lease = 0 => \A s \in Schedulers : phase[s] = "wait" =>
                        ticked[s] \/ cancelled[s] \/ idle + tickIn[s] < TakeoverLimit

\* The inductive invariant.
IInv ==
    /\ TypeOK /\ TickInv /\ LeaseInv /\ CrossInv /\ NextRunInv
    /\ TakeoverInv /\ LoadedIsDue /\ OwedIsDue /\ TakeoverIsBounded

=============================================================================
