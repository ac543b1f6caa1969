-------------------------- MODULE SchedulerProofs --------------------------
(***************************************************************************)
(* The safety of the scheduler for any number of processes and jobs, any   *)
(* lengths of the lease, the check interval and the cron period, and any   *)
(* number of failing calls and disruptions.                                *)
(***************************************************************************)
EXTENDS Scheduler, TLAPS

USE CallsAssumption, SchedulerAssumption

\* The bound idle is counted up to is a number.
LEMMA IdleBoundType == IdleBound \in Nat
<1>1. LeaderTTL + CheckInterval \in Nat /\ MaxFaults + 1 \in Nat
  OBVIOUS
<1>2. \A m, n \in Nat : m * n \in Nat
  BY SMTT(30)
<1> QED
  BY <1>1, <1>2 DEF IdleBound

\* Every step keeps the types; in runJob the job is one of Jobs.
LEMMA TypeStep ==
    ASSUME TypeOK, TickInv, [Next]_vars
    PROVE  TypeOK'
<1> USE DEF TypeOK, Phases
<1>0. IdleBound \in Nat
  BY IdleBoundType
<1>1. ASSUME NEW s \in Schedulers, Start(s) PROVE TypeOK'
  BY <1>1 DEF Start, Goto, tableVars, leaseVars, timerVars, tickVars, pastVars
<1>2. ASSUME NEW s \in Schedulers, Tick(s) PROVE TypeOK'
  BY <1>2 DEF Tick, Goto, tableVars, leaseVars, tickVars, pastVars
<1>3. ASSUME NEW s \in Schedulers, Acquire(s) PROVE TypeOK'
  BY <1>0, <1>3 DEF Acquire, Lead, Follow, Write, Goto, Succeeds, Fails, tableVars, leaseVars,
       timerVars, tickVars
<1>4. ASSUME NEW s \in Schedulers, Renew(s) PROVE TypeOK'
  BY <1>0, <1>4 DEF Renew, Lead, Follow, Write, Goto, Succeeds, Fails, tableVars, leaseVars,
       timerVars, tickVars
<1> DEFINE TickTypeOK ==
        /\ phase \in [Schedulers -> Phases]
        /\ todo \in [Schedulers -> SUBSET Jobs]
        /\ job \in [Schedulers -> Jobs \cup {None}]
        /\ nextRun \in [Schedulers -> 0 .. Period]
        /\ age \in [Schedulers -> 0 .. LeaderTTL]
        /\ crossed \subseteq Schedulers
<1>p. ASSUME NEW s \in Schedulers, NEW left \in SUBSET Jobs, Proceed(s, left) PROVE TickTypeOK'
  <2>1. CASE Goto(s, "wait") /\ Over(s)
    BY <2>1 DEF Over, Goto
  <2>2. ASSUME NEW j \in left, Goto(s, "publish"), UNCHANGED <<age, crossed>>,
               todo' = [todo EXCEPT ![s] = left \ {j}],
               job' = [job EXCEPT ![s] = j],
               nextRun' = [nextRun EXCEPT ![s] = IF j \in BadCron THEN 0 ELSE cronIn[j]]
        PROVE TickTypeOK'
    <3>1. (IF j \in BadCron THEN 0 ELSE cronIn[j]) \in 0 .. Period
      BY <2>2
    <3> QED
      BY <2>2, <3>1 DEF Goto
  <2> QED
    BY <1>p, <2>1, <2>2 DEF Proceed
<1>5. ASSUME NEW s \in Schedulers, LoadDueJobs(s) PROVE TypeOK'
  <2>1. TickTypeOK'
    BY <1>p, <1>5 DEF LoadDueJobs
  <2> QED
    BY <1>5, <2>1 DEF LoadDueJobs, Succeeds, Fails, tableVars, leaseVars, timerVars
<1>6. ASSUME NEW s \in Schedulers, PublishTask(s) PROVE TypeOK'
  <2>1. CASE Goto(s, "update") /\ UNCHANGED <<tickVars, age, crossed>>
    BY <1>6, <2>1 DEF PublishTask, Publish, Goto, Succeeds, Fails, tableVars, leaseVars, timerVars, tickVars
  <2>2. CASE Proceed(s, todo[s])
    <3>1. TickTypeOK'
      BY <1>p, <2>2
    <3> QED
      BY <1>6, <3>1 DEF PublishTask, Publish, Succeeds, Fails, tableVars, leaseVars, timerVars
  <2> QED
    BY <1>6, <2>1, <2>2 DEF PublishTask
<1>7. ASSUME NEW s \in Schedulers, UpdateJob(s) PROVE TypeOK'
  <2>1. TickTypeOK'
    BY <1>p, <1>7 DEF UpdateJob
  <2>2. dueIn' \in [Jobs -> 0 .. Period] /\ faults' \in 0 .. MaxFaults
    BY <1>7 DEF UpdateJob, Succeeds, Fails
  <2> QED
    BY <1>7, <2>1, <2>2 DEF UpdateJob, leaseVars, timerVars
<1>8. ASSUME NEW s \in Schedulers, Leave(s), UNCHANGED disruptions \/ Disrupt PROVE TypeOK'
  BY <1>8 DEF Leave, Disrupt, Over, Goto, tableVars
<1>9. ASSUME NEW s \in Schedulers, Signal(s) PROVE TypeOK'
  BY <1>9 DEF Signal, Disrupt, tableVars, leaseVars, tickVars, pastVars
<1>10. ASSUME Elapse PROVE TypeOK'
  BY <1>0, <1>10, SMTT(30) DEF Elapse, Less, Firing
<1>11. ASSUME UNCHANGED vars PROVE TypeOK'
  BY <1>11 DEF vars, tableVars, leaseVars, timerVars, tickVars, pastVars
<1> QED
  BY <1>1, <1>2, <1>3, <1>4, <1>5, <1>6, <1>7, <1>8, <1>9, <1>10, <1>11, ZenonT(30)
     DEF Next, RunStep, Return, Crash


\* A tick keeps to its list of jobs.
LEMMA TickStep ==
    ASSUME TypeOK, TickInv, [Next]_vars
    PROVE  TickInv'
<1> USE DEF TypeOK, Phases, TickInv, Firing
<1>1. ASSUME NEW s \in Schedulers, Start(s) PROVE TickInv'
  BY <1>1 DEF Start, Goto, tableVars, leaseVars, timerVars, tickVars, pastVars
<1>2. ASSUME NEW s \in Schedulers, Tick(s) PROVE TickInv'
  BY <1>2 DEF Tick, Goto, tableVars, leaseVars, tickVars, pastVars
<1>3. ASSUME NEW s \in Schedulers, Acquire(s) PROVE TickInv'
  BY <1>3 DEF Acquire, Lead, Follow, Write, Goto, Succeeds, Fails, tableVars, leaseVars,
       timerVars, tickVars
<1>4. ASSUME NEW s \in Schedulers, Renew(s) PROVE TickInv'
  BY <1>4 DEF Renew, Lead, Follow, Write, Goto, Succeeds, Fails, tableVars, leaseVars,
       timerVars, tickVars
<1>5. ASSUME NEW s \in Schedulers, LoadDueJobs(s) PROVE TickInv'
  BY <1>5 DEF LoadDueJobs, Proceed, Over, Goto, Succeeds, Fails, tableVars, leaseVars,
       timerVars
<1>6. ASSUME NEW s \in Schedulers, PublishTask(s) PROVE TickInv'
  BY <1>6 DEF PublishTask, Publish, Proceed, Over, Goto, Succeeds, Fails, tableVars,
       leaseVars, timerVars, tickVars
<1>7. ASSUME NEW s \in Schedulers, UpdateJob(s) PROVE TickInv'
  BY <1>7 DEF UpdateJob, Proceed, Over, Goto, Succeeds, Fails, leaseVars, timerVars
<1>8. ASSUME NEW s \in Schedulers, Leave(s) PROVE TickInv'
  BY <1>8 DEF Leave, Over, Goto, tableVars
<1>9. ASSUME NEW s \in Schedulers, Signal(s) PROVE TickInv'
  BY <1>9 DEF Signal, tableVars, leaseVars, tickVars, pastVars
<1>10. ASSUME Elapse PROVE TickInv'
  BY <1>10 DEF Elapse, Less, Settled
<1>11. ASSUME UNCHANGED vars PROVE TickInv'
  BY <1>11 DEF vars, tableVars, leaseVars, timerVars, tickVars, pastVars
<1> QED
  BY <1>1, <1>2, <1>3, <1>4, <1>5, <1>6, <1>7, <1>8, <1>9, <1>10, <1>11, ZenonT(30)
     DEF Next, RunStep, Return, Crash

\* A process that gets the lease takes it from nobody whose tick is younger than it.
LEMMA LeaseStep ==
    ASSUME TypeOK, TickInv, LeaseInv, [Next]_vars
    PROVE  LeaseInv'
<1> USE DEF TypeOK, Phases, TickInv, LeaseInv, Firing
<1>1. ASSUME NEW s \in Schedulers, Start(s) PROVE LeaseInv'
  BY <1>1 DEF Start, Goto, tableVars, leaseVars, timerVars, tickVars, pastVars
<1>2. ASSUME NEW s \in Schedulers, Tick(s) PROVE LeaseInv'
  BY <1>2 DEF Tick, Goto, tableVars, leaseVars, tickVars, pastVars
<1>3. ASSUME NEW s \in Schedulers, Acquire(s) PROVE LeaseInv'
  BY <1>3 DEF Acquire, Lead, Follow, Write, Goto, Succeeds, Fails, tableVars, leaseVars,
       timerVars, tickVars
<1>4. ASSUME NEW s \in Schedulers, Renew(s) PROVE LeaseInv'
  BY <1>4 DEF Renew, Lead, Follow, Write, Goto, Succeeds, Fails, tableVars, leaseVars,
       timerVars, tickVars
<1>5. ASSUME NEW s \in Schedulers, LoadDueJobs(s) PROVE LeaseInv'
  BY <1>5 DEF LoadDueJobs, Proceed, Over, Goto, Succeeds, Fails, tableVars, leaseVars,
       timerVars
<1>6. ASSUME NEW s \in Schedulers, PublishTask(s) PROVE LeaseInv'
  BY <1>6 DEF PublishTask, Publish, Proceed, Over, Goto, Succeeds, Fails, tableVars,
       leaseVars, timerVars, tickVars
<1>7. ASSUME NEW s \in Schedulers, UpdateJob(s) PROVE LeaseInv'
  BY <1>7 DEF UpdateJob, Proceed, Over, Goto, Succeeds, Fails, leaseVars, timerVars
<1>8. ASSUME NEW s \in Schedulers, Leave(s) PROVE LeaseInv'
  BY <1>8 DEF Leave, Over, Goto, tableVars
<1>9. ASSUME NEW s \in Schedulers, Signal(s) PROVE LeaseInv'
  BY <1>9 DEF Signal, tableVars, leaseVars, tickVars, pastVars
<1>10. ASSUME Elapse PROVE LeaseInv'
  BY <1>10 DEF Elapse, Less, Settled
<1>11. ASSUME UNCHANGED vars PROVE LeaseInv'
  BY <1>11 DEF vars, tableVars, leaseVars, timerVars, tickVars, pastVars
<1> QED
  BY <1>1, <1>2, <1>3, <1>4, <1>5, <1>6, <1>7, <1>8, <1>9, <1>10, <1>11
     DEF Next, RunStep, Return, Crash

\* A tick that begins while others are under way takes note of them.
LEMMA CrossStep ==
    ASSUME TypeOK, CrossInv, [Next]_vars
    PROVE  CrossInv'
<1> USE DEF TypeOK, Phases, CrossInv, Firing
<1>1. ASSUME NEW s \in Schedulers, Start(s) PROVE CrossInv'
  BY <1>1 DEF Start, Goto, tableVars, leaseVars, timerVars, tickVars, pastVars
<1>2. ASSUME NEW s \in Schedulers, Tick(s) PROVE CrossInv'
  BY <1>2 DEF Tick, Goto, tableVars, leaseVars, tickVars, pastVars
<1>3. ASSUME NEW s \in Schedulers, Acquire(s) PROVE CrossInv'
  BY <1>3 DEF Acquire, Lead, Follow, Write, Goto, Succeeds, Fails, tableVars, leaseVars,
       timerVars, tickVars
<1>4. ASSUME NEW s \in Schedulers, Renew(s) PROVE CrossInv'
  BY <1>4 DEF Renew, Lead, Follow, Write, Goto, Succeeds, Fails, tableVars, leaseVars,
       timerVars, tickVars
<1>5. ASSUME NEW s \in Schedulers, LoadDueJobs(s) PROVE CrossInv'
  BY <1>5 DEF LoadDueJobs, Proceed, Over, Goto, Succeeds, Fails, tableVars, leaseVars,
       timerVars
<1>6. ASSUME NEW s \in Schedulers, PublishTask(s) PROVE CrossInv'
  BY <1>6 DEF PublishTask, Publish, Proceed, Over, Goto, Succeeds, Fails, tableVars,
       leaseVars, timerVars, tickVars
<1>7. ASSUME NEW s \in Schedulers, UpdateJob(s) PROVE CrossInv'
  BY <1>7 DEF UpdateJob, Proceed, Over, Goto, Succeeds, Fails, leaseVars, timerVars
<1>8. ASSUME NEW s \in Schedulers, Leave(s) PROVE CrossInv'
  BY <1>8 DEF Leave, Over, Goto, tableVars
<1>9. ASSUME NEW s \in Schedulers, Signal(s) PROVE CrossInv'
  BY <1>9 DEF Signal, tableVars, leaseVars, tickVars, pastVars
<1>10. ASSUME Elapse PROVE CrossInv'
  BY <1>10 DEF Elapse, Less, Settled
<1>11. ASSUME UNCHANGED vars PROVE CrossInv'
  BY <1>11, SMTT(30) DEF vars, tableVars, leaseVars, timerVars, tickVars, pastVars
<1> QED
  BY <1>1, <1>2, <1>3, <1>4, <1>5, <1>6, <1>7, <1>8, <1>9, <1>10, <1>11
     DEF Next, RunStep, Return, Crash


\* next_run_at never gets ahead of the cron expression.
LEMMA NextRunStep ==
    ASSUME TypeOK, TickInv, NextRunInv, [Next]_vars
    PROVE  NextRunInv'
<1> USE DEF TypeOK, Phases, TickInv, NextRunInv, Firing
<1>1. ASSUME NEW s \in Schedulers, Start(s) PROVE NextRunInv'
  BY <1>1 DEF Start, Goto, tableVars, leaseVars, timerVars, tickVars, pastVars
<1>2. ASSUME NEW s \in Schedulers, Tick(s) PROVE NextRunInv'
  BY <1>2 DEF Tick, Goto, tableVars, leaseVars, tickVars, pastVars
<1>3. ASSUME NEW s \in Schedulers, Acquire(s) PROVE NextRunInv'
  BY <1>3 DEF Acquire, Lead, Follow, Write, Goto, Succeeds, Fails, tableVars, leaseVars,
       timerVars, tickVars
<1>4. ASSUME NEW s \in Schedulers, Renew(s) PROVE NextRunInv'
  BY <1>4 DEF Renew, Lead, Follow, Write, Goto, Succeeds, Fails, tableVars, leaseVars,
       timerVars, tickVars
<1>5. ASSUME NEW s \in Schedulers, LoadDueJobs(s) PROVE NextRunInv'
  BY <1>5 DEF LoadDueJobs, Proceed, Over, Goto, Succeeds, Fails, tableVars, leaseVars,
       timerVars
<1>6. ASSUME NEW s \in Schedulers, PublishTask(s) PROVE NextRunInv'
  BY <1>6 DEF PublishTask, Publish, Proceed, Over, Goto, Succeeds, Fails, tableVars,
       leaseVars, timerVars, tickVars
<1>7. ASSUME NEW s \in Schedulers, UpdateJob(s) PROVE NextRunInv'
  BY <1>7 DEF UpdateJob, Proceed, Over, Goto, Succeeds, Fails, leaseVars, timerVars
<1>8. ASSUME NEW s \in Schedulers, Leave(s) PROVE NextRunInv'
  BY <1>8 DEF Leave, Over, Goto, tableVars
<1>9. ASSUME NEW s \in Schedulers, Signal(s) PROVE NextRunInv'
  BY <1>9 DEF Signal, tableVars, leaseVars, tickVars, pastVars
<1>10. ASSUME Elapse PROVE NextRunInv'
  BY <1>10 DEF Elapse, Less, Settled
<1>11. ASSUME UNCHANGED vars PROVE NextRunInv'
  BY <1>11 DEF vars, tableVars, leaseVars, timerVars, tickVars, pastVars
<1> QED
  BY <1>1, <1>2, <1>3, <1>4, <1>5, <1>6, <1>7, <1>8, <1>9, <1>10, <1>11, ZenonT(30)
     DEF Next, RunStep, Return, Crash

\* An instant that passes finds its job due, and an update does not put the job off.
LEMMA OwedStep ==
    ASSUME TypeOK, TickInv, NextRunInv, OwedIsDue, [Next]_vars
    PROVE  OwedIsDue'
<1> USE DEF TypeOK, Phases, TickInv, NextRunInv, OwedIsDue, Firing
<1>1. ASSUME NEW s \in Schedulers, Start(s) PROVE OwedIsDue'
  BY <1>1 DEF Start, Goto, tableVars, leaseVars, timerVars, tickVars, pastVars
<1>2. ASSUME NEW s \in Schedulers, Tick(s) PROVE OwedIsDue'
  BY <1>2 DEF Tick, Goto, tableVars, leaseVars, tickVars, pastVars
<1>3. ASSUME NEW s \in Schedulers, Acquire(s) PROVE OwedIsDue'
  BY <1>3 DEF Acquire, Lead, Follow, Write, Goto, Succeeds, Fails, tableVars, leaseVars,
       timerVars, tickVars
<1>4. ASSUME NEW s \in Schedulers, Renew(s) PROVE OwedIsDue'
  BY <1>4 DEF Renew, Lead, Follow, Write, Goto, Succeeds, Fails, tableVars, leaseVars,
       timerVars, tickVars
<1>5. ASSUME NEW s \in Schedulers, LoadDueJobs(s) PROVE OwedIsDue'
  BY <1>5 DEF LoadDueJobs, Proceed, Over, Goto, Succeeds, Fails, tableVars, leaseVars,
       timerVars
<1>6. ASSUME NEW s \in Schedulers, PublishTask(s) PROVE OwedIsDue'
  BY <1>6 DEF PublishTask, Publish, Proceed, Over, Goto, Succeeds, Fails, tableVars,
       leaseVars, timerVars, tickVars
<1>7. ASSUME NEW s \in Schedulers, UpdateJob(s) PROVE OwedIsDue'
  BY <1>7 DEF UpdateJob, Proceed, Over, Goto, Succeeds, Fails, leaseVars, timerVars
<1>8. ASSUME NEW s \in Schedulers, Leave(s) PROVE OwedIsDue'
  BY <1>8 DEF Leave, Over, Goto, tableVars
<1>9. ASSUME NEW s \in Schedulers, Signal(s) PROVE OwedIsDue'
  BY <1>9 DEF Signal, tableVars, leaseVars, tickVars, pastVars
<1>10. ASSUME Elapse PROVE OwedIsDue'
  <2> SUFFICES ASSUME NEW j \in owed' PROVE dueIn'[j] = 0
    BY DEF OwedIsDue
  <2>1. dueIn'[j] = IF dueIn[j] = 0 THEN 0 ELSE dueIn[j] - 1
    BY <1>10 DEF Elapse, Less
  <2>2. CASE j \in owed
    BY <2>1, <2>2
  <2>3. CASE j \in Jobs \ BadCron /\ cronIn[j] = 1
    BY <2>1, <2>3
  <2> QED
    BY <1>10, <2>2, <2>3 DEF Elapse
<1>11. ASSUME UNCHANGED vars PROVE OwedIsDue'
  BY <1>11, SMTT(30) DEF vars, tableVars, leaseVars, timerVars, tickVars, pastVars
<1> QED
  BY <1>1, <1>2, <1>3, <1>4, <1>5, <1>6, <1>7, <1>8, <1>9, <1>10, <1>11
     DEF Next, RunStep, Return, Crash

\* The only process that puts off a job on a list is one whose tick has crossed the
\* one with the list.
LEMMA LoadedStep ==
    ASSUME TypeOK, TickInv, CrossInv, LoadedIsDue, [Next]_vars
    PROVE  LoadedIsDue'
<1> USE DEF TypeOK, Phases, TickInv, CrossInv, LoadedIsDue, Firing
<1>1. ASSUME NEW s \in Schedulers, Start(s) PROVE LoadedIsDue'
  BY <1>1 DEF Start, Goto, tableVars, leaseVars, timerVars, tickVars, pastVars
<1>2. ASSUME NEW s \in Schedulers, Tick(s) PROVE LoadedIsDue'
  BY <1>2 DEF Tick, Goto, tableVars, leaseVars, tickVars, pastVars
<1>3. ASSUME NEW s \in Schedulers, Acquire(s) PROVE LoadedIsDue'
  BY <1>3 DEF Acquire, Lead, Follow, Write, Goto, Succeeds, Fails, tableVars, leaseVars,
       timerVars, tickVars
<1>4. ASSUME NEW s \in Schedulers, Renew(s) PROVE LoadedIsDue'
  BY <1>4 DEF Renew, Lead, Follow, Write, Goto, Succeeds, Fails, tableVars, leaseVars,
       timerVars, tickVars
<1>5. ASSUME NEW s \in Schedulers, LoadDueJobs(s) PROVE LoadedIsDue'
  BY <1>5 DEF LoadDueJobs, Proceed, Over, Goto, Succeeds, Fails, tableVars, leaseVars,
       timerVars
<1>6. ASSUME NEW s \in Schedulers, PublishTask(s) PROVE LoadedIsDue'
  BY <1>6 DEF PublishTask, Publish, Proceed, Over, Goto, Succeeds, Fails, tableVars,
       leaseVars, timerVars, tickVars
<1>7. ASSUME NEW s \in Schedulers, UpdateJob(s) PROVE LoadedIsDue'
  BY <1>7 DEF UpdateJob, Proceed, Over, Goto, Succeeds, Fails, leaseVars, timerVars
<1>8. ASSUME NEW s \in Schedulers, Leave(s) PROVE LoadedIsDue'
  BY <1>8 DEF Leave, Over, Goto, tableVars
<1>9. ASSUME NEW s \in Schedulers, Signal(s) PROVE LoadedIsDue'
  BY <1>9 DEF Signal, tableVars, leaseVars, tickVars, pastVars
<1>10. ASSUME Elapse PROVE LoadedIsDue'
  BY <1>10 DEF Elapse, Less, Settled
<1>11. ASSUME UNCHANGED vars PROVE LoadedIsDue'
  BY <1>11 DEF vars, tableVars, leaseVars, timerVars, tickVars, pastVars
<1> QED
  BY <1>1, <1>2, <1>3, <1>4, <1>5, <1>6, <1>7, <1>8, <1>9, <1>10, <1>11, ZenonT(30)
     DEF Next, RunStep, Return, Crash

\* The limit of the time without a leader, and what a failing call adds to it.
LEMMA LimitFacts ==
    ASSUME faults \in Nat, faults' \in {faults, faults + 1}
    PROVE  /\ TakeoverLimit \in Nat
           /\ TakeoverLimit >= LeaderTTL + CheckInterval
           /\ faults' = faults => TakeoverLimit' = TakeoverLimit
           /\ faults' = faults + 1 =>
                 TakeoverLimit' = TakeoverLimit + LeaderTTL + CheckInterval
<1> DEFINE b == LeaderTTL + CheckInterval
<1>1. b \in Nat /\ TakeoverLimit = b * (faults + 1) /\ TakeoverLimit' = b * (faults' + 1)
  BY DEF TakeoverLimit
<1>2. \A m, n \in Nat : m * (n + 1) \in Nat /\ m * (n + 1) >= m
                        /\ m * ((n + 1) + 1) = m * (n + 1) + m
  OBVIOUS
<1> HIDE DEF b
<1>3. b * (faults + 1) \in Nat /\ b * (faults + 1) >= b
      /\ b * ((faults + 1) + 1) = b * (faults + 1) + b
  BY <1>1, <1>2
<1> QED
  BY <1>1, <1>3 DEF b

\* Every step moves the counter of failures by one at most.
LEMMA FaultStep ==
    ASSUME TypeOK, [Next]_vars
    PROVE  faults \in Nat /\ faults' \in {faults, faults + 1}
<1> DEFINE Goal == faults' \in {faults, faults + 1}
<1>1. ASSUME NEW s \in Schedulers, Acquire(s) \/ Renew(s) PROVE Goal
  BY <1>1 DEF Acquire, Renew, Succeeds, Fails
<1>2. ASSUME NEW s \in Schedulers, LoadDueJobs(s) \/ UpdateJob(s) PROVE Goal
  BY <1>2 DEF LoadDueJobs, UpdateJob, Succeeds, Fails
<1>3. ASSUME NEW s \in Schedulers, PublishTask(s) PROVE Goal
  BY <1>3 DEF PublishTask, Publish, Succeeds, Fails
<1>4. ASSUME NEW s \in Schedulers, Start(s) \/ Tick(s) \/ Leave(s) \/ Signal(s) PROVE Goal
  BY <1>4 DEF Start, Tick, Leave, Signal
<1>5. ASSUME Elapse \/ UNCHANGED vars PROVE Goal
  BY <1>5 DEF Elapse, vars
<1>6. faults \in Nat
  BY SMTT(30) DEF TypeOK
<1> QED
  BY <1>1, <1>2, <1>3, <1>4, <1>5, <1>6 DEF Next, RunStep, Return, Crash

\* The time without a leader stays within its limit.
LEMMA TakeoverStep ==
    ASSUME TypeOK, TakeoverInv, TakeoverIsBounded, [Next]_vars
    PROVE  (TakeoverInv /\ TakeoverIsBounded)'
<1>0. /\ TakeoverLimit \in Nat /\ TakeoverLimit >= LeaderTTL + CheckInterval
      /\ \/ faults' = faults /\ TakeoverLimit' = TakeoverLimit
         \/ faults' = faults + 1 /\ TakeoverLimit' = TakeoverLimit + LeaderTTL + CheckInterval
  BY LimitFacts, FaultStep
<1> USE <1>0 DEF TypeOK, Phases, Firing, TakeoverInv, TakeoverIsBounded
<1>1. ASSUME NEW s \in Schedulers, Start(s) PROVE (TakeoverInv /\ TakeoverIsBounded)'
  BY <1>1 DEF Start, Goto, tableVars, leaseVars, timerVars, tickVars, pastVars
<1>2. ASSUME NEW s \in Schedulers, Tick(s) PROVE (TakeoverInv /\ TakeoverIsBounded)'
  BY <1>2 DEF Tick, Goto, tableVars, leaseVars, tickVars, pastVars
<1>3. ASSUME NEW s \in Schedulers, Acquire(s) PROVE (TakeoverInv /\ TakeoverIsBounded)'
  <2> USE DEF Goto, leaseVars, timerVars
  <2>1. UNCHANGED <<tickIn, ticked, cancelled>> /\ phase[s] = "acquire"
    BY <1>3 DEF Acquire
  <2>2. CASE Write(s) /\ Lead(s)
    BY <2>1, <2>2 DEF Write, Lead
  <2>3. CASE lease > 0 /\ Goto(s, "renew") /\ UNCHANGED <<leaseVars, age, crossed, idle>>
    BY <2>1, <2>3, SMTT(30)
  <2>4. CASE /\ Fails(Live(s))
             /\ UNCHANGED leaseVars \/ (Live(s) /\ Write(s))
             /\ Follow(s)
    <3>1. CASE ~Live(s)
      BY <2>1, <2>4, <3>1 DEF Follow, Live
    <3>2. CASE Live(s) /\ UNCHANGED leaseVars
      BY <2>1, <2>4, <3>2 DEF Follow, Fails
    <3>3. CASE Live(s) /\ Write(s)
      BY <2>1, <2>4, <3>3 DEF Follow, Fails, Write
    <3> QED
      BY <2>4, <3>1, <3>2, <3>3, ZenonT(30)
  <2> QED
    BY <1>3, <2>2, <2>3, <2>4 DEF Acquire
<1>4. ASSUME NEW s \in Schedulers, Renew(s) PROVE (TakeoverInv /\ TakeoverIsBounded)'
  BY <1>4, SMTT(30) DEF Renew, Lead, Follow, Write, Goto, Succeeds, Fails, tableVars, leaseVars,
       timerVars, tickVars
<1>5. ASSUME NEW s \in Schedulers, LoadDueJobs(s) PROVE (TakeoverInv /\ TakeoverIsBounded)'
  <2>1. /\ UNCHANGED <<lease, tickIn, ticked, cancelled, idle>> /\ Firing(s)
        /\ \E p \in {"wait", "publish"} : phase' = [phase EXCEPT ![s] = p]
    BY <1>5 DEF LoadDueJobs, Proceed, Goto, leaseVars, timerVars
  <2> QED
    BY <2>1, SMTT(30)
<1>6. ASSUME NEW s \in Schedulers, PublishTask(s) PROVE (TakeoverInv /\ TakeoverIsBounded)'
  BY <1>6, SMTT(30) DEF PublishTask, Publish, Proceed, Over, Goto, Succeeds, Fails, tableVars,
       leaseVars, timerVars, tickVars
<1>7. ASSUME NEW s \in Schedulers, UpdateJob(s) PROVE (TakeoverInv /\ TakeoverIsBounded)'
  BY <1>7, SMTT(30) DEF UpdateJob, Proceed, Over, Goto, Succeeds, Fails, leaseVars, timerVars
<1>8. ASSUME NEW s \in Schedulers, Leave(s) PROVE (TakeoverInv /\ TakeoverIsBounded)'
  BY <1>8 DEF Leave, Over, Goto, tableVars
<1>9. ASSUME NEW s \in Schedulers, Signal(s) PROVE (TakeoverInv /\ TakeoverIsBounded)'
  BY <1>9 DEF Signal, tableVars, leaseVars, tickVars, pastVars
<1>10. ASSUME Elapse PROVE (TakeoverInv /\ TakeoverIsBounded)'
  <2> USE DEF Elapse, Less
  <2>1. \A s \in Schedulers : phase'[s] = phase[s] /\ phase[s] # "renew"
    BY <1>10, ZenonT(30) DEF Settled
  <2>2. TakeoverLimit' = TakeoverLimit
    BY <1>10, SMTT(30)
  <2>3. CASE \E s \in Schedulers : Firing(s)
    BY <1>10, <2>1, <2>2, <2>3, SMTT(30)
  <2>4. CASE \A s \in Schedulers : phase[s] = "stopped"
    BY <1>10, <2>1, <2>2, <2>4, SMTT(30)
  <2>5. ASSUME NEW r \in Schedulers, phase[r] # "stopped", \A s \in Schedulers : ~Firing(s)
        PROVE  (TakeoverInv /\ TakeoverIsBounded)'
    <3>1. /\ idle' <= idle + 1 /\ idle' \in Nat
          /\ phase[r] = "wait" /\ ~ticked[r] /\ ~cancelled[r]
      BY <1>10, <2>5, SMTT(30) DEF Settled
    <3>2. TakeoverIsBounded'
      BY <1>10, <2>2, <3>1, SMTT(30)
    <3>3. lease' > 0 => idle' + lease' + CheckInterval <= TakeoverLimit'
      BY <1>10, <2>2, <3>1, SMTT(30)
    <3>4. ASSUME lease' = 0, NEW s \in Schedulers, phase'[s] = "wait"
          PROVE  ticked'[s] \/ cancelled'[s] \/ idle' + tickIn'[s] < TakeoverLimit'
      <4>1. ~ticked[s] /\ ~cancelled[s] /\ phase[s] = "wait"
        BY <1>10, <2>1, <3>4, ZenonT(30) DEF Settled
      <4>2. ticked'[s] \/ tickIn'[s] = tickIn[s] - 1
        BY <1>10, <4>1, ZenonT(30)
      <4> QED
        BY <1>10, <2>2, <3>1, <3>4, <4>1, <4>2, SMTT(30)
    <3> QED
      BY <2>1, <2>5, <3>2, <3>3, <3>4, SMTT(30)
  <2> QED
    BY <2>3, <2>4, <2>5, SMTT(30)
<1>11. ASSUME UNCHANGED vars PROVE (TakeoverInv /\ TakeoverIsBounded)'
  BY <1>11 DEF vars, tableVars, leaseVars, timerVars, tickVars, pastVars
<1> QED
  BY <1>1, <1>2, <1>3, <1>4, <1>5, <1>6, <1>7, <1>8, <1>9, <1>10, <1>11, ZenonT(30)
     DEF Next, RunStep, Return, Crash

-----------------------------------------------------------------------------
\* Every step preserves the inductive invariant.
LEMMA InvStep == IInv /\ [Next]_vars => IInv'
  BY TypeStep, TickStep, LeaseStep, CrossStep, NextRunStep, OwedStep, LoadedStep,
     TakeoverStep DEF IInv

\* The inductive invariant holds when nothing runs and all jobs are new.
LEMMA InitInv == Init => IInv
<1> SUFFICES ASSUME Init PROVE IInv
  OBVIOUS
<1> USE DEF Init, Firing
<1>1. TypeOK
  BY IdleBoundType DEF TypeOK, Phases
<1>2. TickInv /\ LeaseInv /\ CrossInv
  BY DEF TickInv, LeaseInv, CrossInv
<1>3. NextRunInv /\ LoadedIsDue /\ OwedIsDue
  BY DEF NextRunInv, LoadedIsDue, OwedIsDue
<1>4. TakeoverInv /\ TakeoverIsBounded
  <2>1. \A n \in Nat : n * (0 + 1) = n
    OBVIOUS
  <2>2. TakeoverLimit = LeaderTTL + CheckInterval
    BY <2>1 DEF TakeoverLimit
  <2> QED
    BY <2>2 DEF TakeoverInv, TakeoverIsBounded
<1> QED
  BY <1>1, <1>2, <1>3, <1>4 DEF IInv

\* The inductive invariant holds in every behaviour.
THEOREM Invariance == Spec => []IInv
  BY InitInv, InvStep, PTL DEF Spec

\* The variables of the processes, the lease and the table keep their types,
\* whatever the constants.
THEOREM TypeCorrectness == Spec => []TypeOK
<1>1. IInv => TypeOK
  BY DEF IInv
<1> QED
  BY <1>1, Invariance, PTL

\* Of two processes between the lease and the end of their ticks, one has
\* outlasted its lease: acquireOrRenewLeadership never lets two in, for any
\* length of the lease and any order of failing calls and ends of processes.
THEOREM MutualExclusion == Spec => []OneFiresAtATime
<1>1. IInv => OneFiresAtATime
  BY DEF IInv, LeaseInv, OneFiresAtATime
<1> QED
  BY <1>1, Invariance, PTL

\* The list a tick has loaded does not get stale unless ticks have crossed.
THEOREM ListsStayDue == Spec => []LoadedIsDue
<1>1. IInv => LoadedIsDue
  BY DEF IInv
<1> QED
  BY <1>1, Invariance, PTL

\* No instant of a cron expression is skipped, even when ticks have crossed:
\* runJob stores a next run that was computed from a time before the publish.
THEOREM NoInstantSkipped == Spec => []OwedIsDue
<1>1. IInv => OwedIsDue
  BY DEF IInv
<1> QED
  BY <1>1, Invariance, PTL

\* As long as some process runs, there is a leader again within the length of
\* the lease and one check interval, and as much again for every call that fails.
THEOREM BoundedTakeover == Spec => []TakeoverIsBounded
<1>1. IInv => TakeoverIsBounded
  BY DEF IInv
<1> QED
  BY <1>1, Invariance, PTL

=============================================================================
