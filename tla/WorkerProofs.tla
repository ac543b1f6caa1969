---------------------------- MODULE WorkerProofs ----------------------------
(***************************************************************************)
(* What the workers keep, whoever else writes the stores and the topics:   *)
(* the types, the group, and that what is recorded of a task is true.      *)
(***************************************************************************)
EXTENDS Worker, TLAPS

-----------------------------------------------------------------------------
(* The calls *)

\* However a call ends, the faults stay within their bound.
LEMMA CallType ==
    ASSUME faults \in 0 .. MaxFaults, NEW live, Succeeds(live) \/ Fails(live)
    PROVE  faults' \in 0 .. MaxFaults
    BY CallsAssumption DEF Succeeds, Fails

LEMMA PublishType ==
    ASSUME faults \in 0 .. MaxFaults, NEW live, NEW ok, NEW written, Publish(live, ok, written)
    PROVE  faults' \in 0 .. MaxFaults
    BY CallType DEF Publish

LEMMA SetStatusType ==
    ASSUME BackendsTypeOK, NEW live, NEW t \in Tasks, NEW s \in Statuses, NEW ok,
           SetStatus(live, t, s, ok), UNCHANGED <<meta, repoVars, topicVars>>
    PROVE  BackendsTypeOK'
<1>1. faults' \in 0 .. MaxFaults
    BY CallType DEF SetStatus, BackendsTypeOK
<1>2. status' \in [Tasks -> Statuses \cup {NotFound}]
    BY DEF SetStatus, BackendsTypeOK, StoreTypeOK
<1> QED
    BY <1>1, <1>2 DEF BackendsTypeOK, StoreTypeOK, RepoTypeOK, TopicsTypeOK, repoVars, topicVars

LEMMA SetTaskMetaType ==
    ASSUME BackendsTypeOK, NEW live, NEW t \in Tasks, NEW m \in TaskData, NEW ok,
           SetTaskMeta(live, t, m, ok), UNCHANGED <<status, repoVars, topicVars>>
    PROVE  BackendsTypeOK'
<1>1. faults' \in 0 .. MaxFaults
    BY CallType DEF SetTaskMeta, BackendsTypeOK
<1>2. meta' \in [Tasks -> TaskData \cup {NotFound}]
    BY DEF SetTaskMeta, BackendsTypeOK, StoreTypeOK
<1> QED
    BY <1>1, <1>2 DEF BackendsTypeOK, StoreTypeOK, RepoTypeOK, TopicsTypeOK, repoVars, topicVars

LEMMA NewTaskType == NewTask \in TaskData
    BY DEF NewTask, TaskData, Statuses

LEMMA CreateType ==
    ASSUME BackendsTypeOK, NEW live, NEW t \in Tasks, NEW ok,
           Create(live, t, ok), UNCHANGED <<storeVars, executions, topicVars>>
    PROVE  BackendsTypeOK'
<1>1. faults' \in 0 .. MaxFaults
    BY CallType DEF Create, BackendsTypeOK
<1>2. row' \in [Tasks -> TaskData \cup {NotFound}]
    BY NewTaskType DEF Create, BackendsTypeOK, RepoTypeOK
<1> QED
    BY <1>1, <1>2 DEF BackendsTypeOK, StoreTypeOK, RepoTypeOK, TopicsTypeOK, storeVars, topicVars

LEMMA UpdateStatusType ==
    ASSUME BackendsTypeOK, NEW live, NEW t \in Tasks, NEW s \in Statuses, NEW ok,
           UpdateStatus(live, t, s, ok), UNCHANGED <<storeVars, executions, topicVars>>
    PROVE  BackendsTypeOK'
<1>1. faults' \in 0 .. MaxFaults
    BY CallType DEF UpdateStatus, BackendsTypeOK
<1>2. row[t] \in TaskData \cup {NotFound} /\ UpdatedRow(row[t], s) \in TaskData \cup {NotFound}
    BY DEF BackendsTypeOK, RepoTypeOK, UpdatedRow, TaskData, IsTerminal
<1>3. row' \in [Tasks -> TaskData \cup {NotFound}]
    BY <1>2 DEF UpdateStatus, BackendsTypeOK, RepoTypeOK
<1> QED
    BY <1>1, <1>3 DEF BackendsTypeOK, StoreTypeOK, RepoTypeOK, TopicsTypeOK, storeVars, topicVars

LEMMA RecordExecutionType ==
    ASSUME BackendsTypeOK, NEW live, NEW t \in Tasks, NEW e \in Executions, NEW ok,
           RecordExecution(live, t, e, ok), UNCHANGED <<storeVars, row, topicVars>>
    PROVE  BackendsTypeOK'
<1>1. faults' \in 0 .. MaxFaults
    BY CallType DEF RecordExecution, BackendsTypeOK
<1>2. executions[t] \in Seq(Executions) /\ Append(executions[t], e) \in Seq(Executions)
    BY DEF BackendsTypeOK, RepoTypeOK
<1>3. executions' \in [Tasks -> Seq(Executions)]
    BY <1>2, ZenonT(30) DEF RecordExecution, BackendsTypeOK, RepoTypeOK
<1> QED
    BY <1>1, <1>3 DEF BackendsTypeOK, StoreTypeOK, RepoTypeOK, TopicsTypeOK, storeVars, topicVars

LEMMA PublishPendingType ==
    ASSUME BackendsTypeOK, NEW live, NEW t \in Tasks, NEW ok,
           PublishPending(live, t, ok), UNCHANGED <<storeVars, repoVars, work, dlq>>
    PROVE  BackendsTypeOK'
<1>1. faults' \in 0 .. MaxFaults
    BY PublishType DEF PublishPending, BackendsTypeOK
<1>2. PartitionOf[t] \in Partitions /\ Append(pending[PartitionOf[t]], t) \in Seq(Bodies)
    BY DomainAssumption DEF BackendsTypeOK, TopicsTypeOK, Bodies
<1>3. pending' \in [Partitions -> Seq(Bodies)]
    BY <1>2 DEF PublishPending, BackendsTypeOK, TopicsTypeOK
<1> QED
    BY <1>1, <1>3 DEF BackendsTypeOK, StoreTypeOK, RepoTypeOK, TopicsTypeOK, storeVars, repoVars

LEMMA PublishWorkType ==
    ASSUME BackendsTypeOK, NEW live, NEW ty \in Types, NEW t \in Tasks, NEW ok,
           PublishWork(live, ty, t, ok), UNCHANGED <<storeVars, repoVars, pending, dlq>>
    PROVE  BackendsTypeOK'
<1>1. faults' \in 0 .. MaxFaults
    BY PublishType DEF PublishWork, BackendsTypeOK
<1>2. PartitionOf[t] \in Partitions /\ work[ty] \in [Partitions -> Seq(Bodies)]
    BY DomainAssumption DEF BackendsTypeOK, TopicsTypeOK
<1>3. Append(work[ty][PartitionOf[t]], t) \in Seq(Bodies)
    BY <1>2 DEF Bodies
<1>4. work' \in [Types -> [Partitions -> Seq(Bodies)]]
    BY <1>2, <1>3 DEF PublishWork, BackendsTypeOK, TopicsTypeOK
<1> QED
    BY <1>1, <1>4 DEF BackendsTypeOK, StoreTypeOK, RepoTypeOK, TopicsTypeOK, storeVars, repoVars

LEMMA PublishDLQType ==
    ASSUME BackendsTypeOK, NEW live, NEW m \in Bodies, NEW ok,
           PublishDLQ(live, m, ok), UNCHANGED <<storeVars, repoVars, pending, work>>
    PROVE  BackendsTypeOK'
<1>1. faults' \in 0 .. MaxFaults
    BY PublishType DEF PublishDLQ, BackendsTypeOK
<1>2. dlq' \in SUBSET Bodies
    BY DEF PublishDLQ, BackendsTypeOK, TopicsTypeOK
<1> QED
    BY <1>1, <1>2 DEF BackendsTypeOK, StoreTypeOK, RepoTypeOK, TopicsTypeOK, storeVars, repoVars

\* A step that leaves the backends alone, but for a fault.
LEMMA NoCallType ==
    ASSUME BackendsTypeOK, UNCHANGED <<storeVars, repoVars, topicVars>>, faults' \in 0 .. MaxFaults
    PROVE  BackendsTypeOK'
    BY DEF BackendsTypeOK, StoreTypeOK, RepoTypeOK, TopicsTypeOK, storeVars, repoVars, topicVars

-----------------------------------------------------------------------------
(* The message in the hands of a worker *)

\* It is a message of the topic.
LEMMA WorkerHolds ==
    ASSUME WorkerInv, NEW w \in Workers, wPhase[w] = "handle"
    PROVE  /\ wInflight[w] \in Group!Messages
           /\ wInflight[w].partition \in Partitions
           /\ wInflight[w].offset \in Nat
           /\ wInflight[w].offset + 1 \in 1 .. Len(work[WorkerType][wInflight[w].partition])
           /\ Body(w) \in Bodies
<1>1. work[WorkerType] \in [Partitions -> Seq(Bodies)]
    BY WorkerAssumption DEF WorkerInv, WorkerTypeOK, BackendsTypeOK, TopicsTypeOK
<1>2. wInflight[w] # None /\ wInflight[w] \in Group!Messages
    BY DEF WorkerInv, Group!IInv, Group!LoopInv, Group!TypeOK
<1>3. wInflight[w].partition \in Partitions /\ wInflight[w].offset \in Nat
    BY <1>2 DEF Group!Messages
<1>4. wInflight[w].offset < Len(work[WorkerType][wInflight[w].partition])
    BY <1>2, <1>3, ZenonT(30) DEF WorkerInv, Group!IInv, Group!InflightInv
<1>5. work[WorkerType][wInflight[w].partition] \in Seq(Bodies)
    BY <1>1, <1>3
<1>6. wInflight[w].offset + 1 \in 1 .. Len(work[WorkerType][wInflight[w].partition])
    BY <1>3, <1>4, <1>5
<1> QED
    BY <1>2, <1>3, <1>5, <1>6 DEF Body

\* What is in the topic of the workers stays where it is.
TopicKept ==
    \A p \in Partitions : \A i \in 1 .. Len(work[WorkerType][p]) :
        work'[WorkerType][p][i] = work[WorkerType][p][i]

\* The body in the hands of a worker does not change under it.
LEMMA BodyKept ==
    ASSUME WorkerInv, TopicKept, NEW w \in Workers, step[w] # "idle", wInflight'[w] = wInflight[w]
    PROVE  Body(w)' = Body(w)
<1>1. /\ wInflight[w].partition \in Partitions
      /\ wInflight[w].offset + 1 \in 1 .. Len(work[WorkerType][wInflight[w].partition])
    BY WorkerHolds DEF WorkerInv, RecordsInv, CallInv
<1>2. work'[WorkerType][wInflight[w].partition][wInflight[w].offset + 1]
        = work[WorkerType][wInflight[w].partition][wInflight[w].offset + 1]
    BY <1>1, ZenonT(30) DEF TopicKept
<1> QED
    BY <1>2 DEF Body

\* The workers publish nothing to a topic of their own.
LEMMA WorkUntouched == WorkerNext => UNCHANGED work
    BY ZenonT(30) DEF WorkerNext, ProcessStep, Receive, Discard, CheckStatus, NoHandlerStatus, NoHandlerDLQ,
           SetRunning, HandlerSucceeds, HandlerFails, OnRetry, Backoff, FinishStatus, FinishMeta,
           FinishRecord, FinishUpdate, FinishDLQ, Commit, Exit, Die, Signal, Start, Reassign,
           Disturb, backendVars, topicVars

-----------------------------------------------------------------------------
(* Types *)

\* retry.Do makes at least one attempt, also when MaxRetries is negative.
LEMMA MaxAttemptsType == MaxAttempts \in Nat /\ MaxAttempts >= 1
    BY WorkerAssumption DEF MaxAttempts

\* What is recorded at the end of processMessage has its type.
LEMMA FinalType ==
    ASSUME WorkerInv, NEW w \in Workers
    PROVE  FinalStatus(w) \in Statuses /\ attempts[w] \in Nat /\ execErr[w] \in BOOLEAN
    BY MaxAttemptsType DEF WorkerInv, WorkerTypeOK, RunTypeOK, FinalStatus, Statuses

\* The steps of a worker keep the variables of its call in their types: neither
\* counter goes beyond the attempts that are allowed.
LEMMA RunStepType == WorkerInv /\ WorkerNext => RunTypeOK'
<1> SUFFICES ASSUME WorkerInv, WorkerNext PROVE RunTypeOK'
    OBVIOUS
<1>0. RunTypeOK /\ MaxAttempts \in Nat /\ MaxAttempts >= 1
    BY MaxAttemptsType DEF WorkerInv, WorkerTypeOK
<1> HIDE DEF MaxAttempts
<1>1. ASSUME UNCHANGED <<runVars, succeeded, exhausted, interrupted>> PROVE RunTypeOK'
    BY <1>0, <1>1 DEF RunTypeOK, runVars
<1>2. ASSUME NEW w \in Workers, Forget(w), UNCHANGED <<succeeded, exhausted, interrupted>> PROVE RunTypeOK'
    BY <1>0, <1>2 DEF RunTypeOK, Forget, Goto, Steps
<1>3. ASSUME NEW w \in Workers, NEW s \in Steps, Goto(w, s),
             UNCHANGED <<attempt, attempts, execErr, succeeded, exhausted, interrupted>>
      PROVE RunTypeOK'
    BY <1>0, <1>3 DEF RunTypeOK, Goto
<1>4. ASSUME NEW w \in Workers, SetRunning(w) PROVE RunTypeOK'
  <2>1. CASE Forget(w) /\ UNCHANGED <<succeeded, exhausted, interrupted>>
      BY <1>2, <2>1
  <2>2. CASE /\ Goto(w, "attempt") /\ attempt' = [attempt EXCEPT ![w] = 1]
             /\ UNCHANGED <<attempts, execErr, succeeded, exhausted, interrupted>>
    <3>1. 1 \in 0 .. MaxAttempts
        BY <1>0
    <3> QED
        BY <1>0, <2>2, <3>1 DEF RunTypeOK, Goto, Steps
  <2> QED
      BY <1>4, <2>1, <2>2, ZenonT(30) DEF SetRunning
<1>5. ASSUME NEW w \in Workers, step[w] = "attempt"
      PROVE Body(w) \in Tasks /\ attempt[w] \in 1 .. MaxAttempts /\ attempts[w] + 1 \in 1 .. MaxAttempts
    BY <1>0, <1>5 DEF WorkerInv, RecordsInv, CallInv, RetryInv, Finishing
<1>6. ASSUME NEW w \in Workers, HandlerSucceeds(w) PROVE RunTypeOK'
    BY <1>0, <1>5, <1>6 DEF RunTypeOK, HandlerSucceeds, Goto, Steps
<1>7. ASSUME NEW w \in Workers, HandlerFails(w) PROVE RunTypeOK'
  <2>1. /\ Body(w) \in Tasks /\ attempts[w] + 1 \in 0 .. MaxAttempts
        /\ attempts' = [attempts EXCEPT ![w] = attempts[w] + 1] /\ UNCHANGED <<attempt, succeeded, interrupted>>
      BY <1>0, <1>5, <1>7 DEF HandlerFails
  <2>2. /\ step' \in [Workers -> Steps] /\ execErr' \in [Workers -> BOOLEAN]
        /\ exhausted' \in SUBSET Tasks
      BY <1>0, <1>7, <2>1, ZenonT(30) DEF RunTypeOK, HandlerFails, Goto, Steps
  <2>3. attempts' \in [Workers -> 0 .. MaxAttempts]
      BY <1>0, <2>1 DEF RunTypeOK
  <2> QED
      BY <1>0, <2>1, <2>2, <2>3 DEF RunTypeOK
<1>8. ASSUME NEW w \in Workers, OnRetry(w) PROVE RunTypeOK'
    BY <1>0, <1>8 DEF RunTypeOK, OnRetry, Goto, Steps
<1>9. ASSUME NEW w \in Workers, Backoff(w) PROVE RunTypeOK'
  <2>1. attempt[w] + 1 \in 1 .. MaxAttempts
      BY <1>0, <1>9 DEF Backoff, WorkerInv, RecordsInv, RetryInv, Finishing
  <2>2. /\ step' \in [Workers -> Steps] /\ execErr' \in [Workers -> BOOLEAN]
        /\ interrupted' \in SUBSET Tasks
    <3>1. Body(w) \in Tasks
        BY <1>9 DEF Backoff, WorkerInv, RecordsInv, CallInv
    <3> QED
        BY <1>0, <1>9, <3>1, ZenonT(30) DEF RunTypeOK, Backoff, Goto, Steps
  <2>3. attempt' \in [Workers -> 0 .. MaxAttempts]
    <3>1. attempt[w] + 1 \in 0 .. MaxAttempts
        BY <1>0, <2>1
    <3> QED
        BY <1>0, <1>9, <3>1 DEF RunTypeOK, Backoff
  <2> QED
      BY <1>0, <1>9, <2>2, <2>3 DEF RunTypeOK, Backoff
<1>10. ASSUME NEW w \in Workers, Receive(w) \/ CheckStatus(w) \/ NoHandlerStatus(w) \/ FinishStatus(w)
                                 \/ FinishMeta(w) \/ FinishRecord(w) \/ FinishUpdate(w)
       PROVE RunTypeOK'
    BY <1>2, <1>3, <1>10, ZenonT(30) DEF Receive, CheckStatus, NoHandlerStatus, FinishStatus, FinishMeta,
                             FinishRecord, FinishUpdate, Return, Inside, Steps
<1>11. ASSUME NEW w \in Workers, Discard(w) \/ NoHandlerDLQ(w) \/ FinishDLQ(w) \/ Exit(w) \/ Die(w)
       PROVE RunTypeOK'
    BY <1>2, <1>11 DEF Discard, NoHandlerDLQ, FinishDLQ, Return, Exit, Die
<1>12. ASSUME NEW w \in Workers, Commit(w) \/ Signal(w) \/ Start(w) PROVE RunTypeOK'
    BY <1>1, <1>12 DEF Commit, Signal, Start
<1>13. CASE Reassign \/ Disturb
    BY <1>1, <1>13 DEF Reassign, Disturb
<1> QED
    BY <1>4, <1>6, <1>7, <1>8, <1>9, <1>10, <1>11, <1>12, <1>13 DEF WorkerNext, ProcessStep

\* ... and the backends.
LEMMA WorkerStepType == WorkerInv /\ WorkerNext => BackendsTypeOK'
<1> SUFFICES ASSUME WorkerInv, WorkerNext PROVE BackendsTypeOK'
    OBVIOUS
<1>0. BackendsTypeOK /\ faults \in 0 .. MaxFaults
    BY DEF WorkerInv, WorkerTypeOK, BackendsTypeOK
<1>1. ASSUME UNCHANGED backendVars PROVE BackendsTypeOK'
    BY <1>0, <1>1, NoCallType DEF backendVars
<1>2. ASSUME NEW w \in Workers, step[w] \notin {"idle", "check"} PROVE Body(w) \in Tasks
    BY <1>2 DEF WorkerInv, RecordsInv, CallInv
<1>3. ASSUME NEW w \in Workers, CheckStatus(w) PROVE BackendsTypeOK'
  <2>1. faults' \in 0 .. MaxFaults
      BY <1>0, <1>3, CallType DEF CheckStatus, GetStatus
  <2> QED
      BY <1>0, <1>3, <2>1, NoCallType DEF CheckStatus
<1>4. ASSUME NEW w \in Workers, NoHandlerStatus(w) PROVE BackendsTypeOK'
    BY <1>0, <1>2, <1>4, SetStatusType DEF NoHandlerStatus, Statuses
<1>5. ASSUME NEW w \in Workers, NoHandlerDLQ(w) PROVE BackendsTypeOK'
    BY <1>0, <1>2, <1>5, PublishDLQType DEF NoHandlerDLQ, Bodies
<1>6. ASSUME NEW w \in Workers, SetRunning(w) PROVE BackendsTypeOK'
    BY <1>0, <1>2, <1>6, SetStatusType, ZenonT(30) DEF SetRunning, Statuses
<1>7. ASSUME NEW w \in Workers, OnRetry(w) PROVE BackendsTypeOK'
    BY <1>0, <1>2, <1>7, SetStatusType DEF OnRetry, Statuses
<1>8. ASSUME NEW w \in Workers, FinishStatus(w) PROVE BackendsTypeOK'
    BY <1>0, <1>2, <1>8, SetStatusType, FinalType DEF FinishStatus
<1>9. ASSUME NEW w \in Workers, FinishMeta(w) PROVE BackendsTypeOK'
  <2>1. [status |-> FinalStatus(w), attempts |-> attempts[w], completed |-> ~execErr[w]] \in TaskData
      BY FinalType DEF TaskData
  <2> QED
      BY <1>0, <1>2, <1>9, <2>1, SetTaskMetaType DEF FinishMeta
<1>10. ASSUME NEW w \in Workers, FinishRecord(w) PROVE BackendsTypeOK'
  <2>1. [status |-> FinalStatus(w), attempt |-> attempts[w]] \in Executions
      BY FinalType DEF Executions
  <2> QED
      BY <1>0, <1>2, <1>10, <2>1, RecordExecutionType DEF FinishRecord
<1>11. ASSUME NEW w \in Workers, FinishUpdate(w) PROVE BackendsTypeOK'
    BY <1>0, <1>2, <1>11, UpdateStatusType, FinalType, ZenonT(30) DEF FinishUpdate
<1>12. ASSUME NEW w \in Workers, FinishDLQ(w) PROVE BackendsTypeOK'
    BY <1>0, <1>2, <1>12, PublishDLQType DEF FinishDLQ, Bodies
<1> QED
    BY <1>1, <1>3, <1>4, <1>5, <1>6, <1>7, <1>8, <1>9, <1>10, <1>11, <1>12, ZenonT(30)
       DEF WorkerNext, ProcessStep, Receive, Discard, HandlerSucceeds, HandlerFails, Backoff, Commit,
           Exit, Die, Signal, Start, Reassign, Disturb

-----------------------------------------------------------------------------
(* RecordsInv, by worker and by record *)

\* CallInv, RetryInv and OutcomeInv for one worker.
RunOK(w) ==
    /\ step[w] # "idle" => wPhase[w] = "handle"
    /\ step[w] \notin {"idle", "check"} => Body(w) \in Tasks
    /\ step[w] \in {"noHandler", "noHandlerDLQ"} => TypeOf[Body(w)] \notin Registered
    /\ execErr[w] => Finishing(w)
    /\ IF Finishing(w) THEN attempt[w] \in 1 .. MaxAttempts /\ attempts[w] \in 1 .. MaxAttempts
       ELSE IF step[w] = "attempt"
       THEN attempt[w] \in 1 .. MaxAttempts /\ attempts[w] = attempt[w] - 1
       ELSE IF step[w] \in {"onRetry", "backoff"}
       THEN attempt[w] \in 1 .. MaxAttempts - 1 /\ attempts[w] = attempt[w]
       ELSE attempt[w] = 0 /\ attempts[w] = 0
    /\ Finishing(w) =>
          IF execErr[w]
          THEN wCancelled[w] \/ (Body(w) \in exhausted /\ attempts[w] = MaxAttempts)
          ELSE Body(w) \in succeeded

Earned(t) == t \in exhausted \/ TypeOf[t] \notin Registered

\* DoneIsReal, DeadIsEarned and AttemptsAreCalls for each kind of record.
StatusTrue ==
    \A t \in Tasks :
        /\ status[t] = "DONE" => t \in succeeded
        /\ status[t] = "DEAD" => Earned(t)

MetaTrue ==
    \A t \in Tasks : meta[t] # NotFound =>
        /\ meta[t].status = "DONE" => t \in succeeded
        /\ meta[t].status = "DEAD" => Earned(t) /\ meta[t].attempts = MaxAttempts

RowTrue ==
    \A t \in Tasks : row[t] # NotFound =>
        /\ row[t].status = "DONE" => t \in succeeded
        /\ row[t].status = "DEAD" => Earned(t)

ExecutionsTrue ==
    \A t \in Tasks : \A i \in DOMAIN executions[t] :
        /\ executions[t][i].attempt \in 1 .. MaxAttempts
        /\ executions[t][i].status = "DONE" => t \in succeeded
        /\ executions[t][i].status = "DEAD" => Earned(t) /\ executions[t][i].attempt = MaxAttempts

LEMMA RunSplit == (\A w \in Workers : RunOK(w)) <=> CallInv /\ RetryInv /\ OutcomeInv
    BY ZenonT(30) DEF RunOK, CallInv, RetryInv, OutcomeInv

LEMMA RecordSplit ==
    StatusTrue /\ MetaTrue /\ RowTrue /\ ExecutionsTrue
        <=> DoneIsReal /\ DeadIsEarned /\ AttemptsAreCalls
<1>1. ASSUME NEW t \in Tasks, NEW s
      PROVE s \in Recorded(t) <=> \/ status[t] = s
                                  \/ meta[t] # NotFound /\ meta[t].status = s
                                  \/ row[t] # NotFound /\ row[t].status = s
                                  \/ \E i \in DOMAIN executions[t] : executions[t][i].status = s
    BY DEF Recorded
<1>2. DoneIsReal <=> \A t \in Tasks :
         /\ status[t] = "DONE" => t \in succeeded
         /\ meta[t] # NotFound /\ meta[t].status = "DONE" => t \in succeeded
         /\ row[t] # NotFound /\ row[t].status = "DONE" => t \in succeeded
         /\ \A i \in DOMAIN executions[t] : executions[t][i].status = "DONE" => t \in succeeded
    BY <1>1 DEF DoneIsReal
<1>3. DeadIsEarned <=> \A t \in Tasks :
         /\ status[t] = "DEAD" => Earned(t)
         /\ meta[t] # NotFound /\ meta[t].status = "DEAD" => Earned(t)
         /\ row[t] # NotFound /\ row[t].status = "DEAD" => Earned(t)
         /\ \A i \in DOMAIN executions[t] : executions[t][i].status = "DEAD" => Earned(t)
    BY <1>1 DEF DeadIsEarned, Earned
<1> QED
    BY <1>2, <1>3, ZenonT(30) DEF StatusTrue, MetaTrue, RowTrue, ExecutionsTrue, AttemptsAreCalls

LEMMA RecordsSplit ==
    RecordsInv <=> /\ \A w \in Workers : RunOK(w)
                   /\ StatusTrue /\ MetaTrue /\ RowTrue /\ ExecutionsTrue
    BY RunSplit, RecordSplit DEF RecordsInv

-----------------------------------------------------------------------------
(* The writes *)

\* What a handler has done is not undone.
Grow == succeeded \subseteq succeeded' /\ exhausted \subseteq exhausted'

\* A write of a status that is true, when the context lets it through, leaves
\* what is recorded true.
LEMMA SetStatusTrue ==
    ASSUME BackendsTypeOK, StatusTrue, Grow, NEW live \in BOOLEAN, NEW t \in Tasks, NEW s, NEW ok,
           SetStatus(live, t, s, ok),
           live /\ s = "DONE" => t \in succeeded,
           live /\ s = "DEAD" => Earned(t)
    PROVE  StatusTrue'
<1>1. CASE status' = status
    BY <1>1 DEF StatusTrue, Earned, Grow
<1>2. CASE live /\ status' = [status EXCEPT ![t] = s]
  <2>1. \A u \in Tasks : status'[u] = IF u = t THEN s ELSE status[u]
      BY <1>2 DEF BackendsTypeOK, StoreTypeOK
  <2> QED
      BY <1>2, <2>1 DEF StatusTrue, Earned, Grow
<1> QED
    BY <1>1, <1>2 DEF SetStatus, Succeeds

LEMMA SetTaskMetaTrue ==
    ASSUME BackendsTypeOK, MetaTrue, Grow, NEW live \in BOOLEAN, NEW t \in Tasks, NEW m, NEW ok,
           SetTaskMeta(live, t, m, ok),
           live /\ m.status = "DONE" => t \in succeeded,
           live /\ m.status = "DEAD" => Earned(t) /\ m.attempts = MaxAttempts
    PROVE  MetaTrue'
<1>1. CASE meta' = meta
    BY <1>1 DEF MetaTrue, Earned, Grow
<1>2. CASE live /\ meta' = [meta EXCEPT ![t] = m]
  <2>1. \A u \in Tasks : meta'[u] = IF u = t THEN m ELSE meta[u]
      BY <1>2 DEF BackendsTypeOK, StoreTypeOK
  <2> QED
      BY <1>2, <2>1 DEF MetaTrue, Earned, Grow
<1> QED
    BY <1>1, <1>2 DEF SetTaskMeta, Succeeds

LEMMA UpdateStatusTrue ==
    ASSUME BackendsTypeOK, RowTrue, Grow, NEW live \in BOOLEAN, NEW t \in Tasks, NEW s, NEW ok,
           UpdateStatus(live, t, s, ok),
           live /\ s = "DONE" => t \in succeeded,
           live /\ s = "DEAD" => Earned(t)
    PROVE  RowTrue'
<1>1. CASE row' = row
    BY <1>1 DEF RowTrue, Earned, Grow
<1>2. CASE live /\ row' = [row EXCEPT ![t] = UpdatedRow(row[t], s)]
  <2>1. \A u \in Tasks : row'[u] = IF u = t THEN UpdatedRow(row[t], s) ELSE row[u]
      BY <1>2 DEF BackendsTypeOK, RepoTypeOK
  <2>2. row[t] # NotFound => UpdatedRow(row[t], s).status = s
      BY DEF UpdatedRow
  <2>3. row[t] = NotFound => UpdatedRow(row[t], s) = NotFound
      BY DEF UpdatedRow
  <2> QED
      BY <1>2, <2>1, <2>2, <2>3 DEF RowTrue, Earned, Grow
<1> QED
    BY <1>1, <1>2 DEF UpdateStatus, Succeeds

LEMMA RecordExecutionTrue ==
    ASSUME BackendsTypeOK, ExecutionsTrue, Grow, NEW live \in BOOLEAN, NEW t \in Tasks,
           NEW e \in Executions, NEW ok,
           RecordExecution(live, t, e, ok),
           e.attempt \in 1 .. MaxAttempts,
           live /\ e.status = "DONE" => t \in succeeded,
           live /\ e.status = "DEAD" => Earned(t) /\ e.attempt = MaxAttempts
    PROVE  ExecutionsTrue'
<1>1. CASE executions' = executions
    BY <1>1 DEF ExecutionsTrue, Earned, Grow
<1>2. CASE live /\ executions' = [executions EXCEPT ![t] = Append(executions[t], e)]
  <2>1. \A u \in Tasks : executions[u] \in Seq(Executions)
      BY DEF BackendsTypeOK, RepoTypeOK
  <2>2. \A u \in Tasks : executions'[u] = IF u = t THEN Append(executions[t], e) ELSE executions[u]
      BY <1>2 DEF BackendsTypeOK, RepoTypeOK
  <2>3. /\ DOMAIN Append(executions[t], e) = 1 .. Len(executions[t]) + 1
        /\ \A i \in 1 .. Len(executions[t]) : Append(executions[t], e)[i] = executions[t][i]
        /\ Append(executions[t], e)[Len(executions[t]) + 1] = e
        /\ DOMAIN executions[t] = 1 .. Len(executions[t]) /\ Len(executions[t]) \in Nat
      BY <2>1
  <2> SUFFICES ASSUME NEW u \in Tasks, NEW i \in DOMAIN executions'[u]
               PROVE /\ executions'[u][i].attempt \in 1 .. MaxAttempts
                     /\ executions'[u][i].status = "DONE" => u \in succeeded'
                     /\ executions'[u][i].status = "DEAD" =>
                           Earned(u)' /\ executions'[u][i].attempt = MaxAttempts
      BY ZenonT(30) DEF ExecutionsTrue, MaxAttempts
  <2>4. CASE u = t /\ i = Len(executions[t]) + 1
    <3>1. executions'[u][i] = e
        BY <2>2, <2>3, <2>4, ZenonT(30)
    <3> QED
        BY <1>2, <2>4, <3>1, ZenonT(30) DEF Earned, Grow
  <2>5. CASE ~(u = t /\ i = Len(executions[t]) + 1)
    <3>1. i \in DOMAIN executions[u] /\ executions'[u][i] = executions[u][i]
      <4>1. CASE u # t
          BY <2>2, <4>1, ZenonT(30)
      <4>2. CASE u = t
        <5>1. i \in 1 .. Len(executions[t])
          <6>1. DOMAIN executions'[u] = 1 .. Len(executions[t]) + 1
              BY <2>2, <2>3, <4>2, ZenonT(30)
          <6> QED
              BY <2>3, <2>5, <4>2, <6>1
        <5> QED
            BY <2>2, <2>3, <4>2, <5>1, ZenonT(30)
      <4> QED
          BY <4>1, <4>2, ZenonT(30)
    <3> QED
        BY <3>1, ZenonT(30) DEF ExecutionsTrue, Earned, Grow
  <2> QED
      BY <2>4, <2>5, ZenonT(30)
<1> QED
    BY <1>1, <1>2 DEF RecordExecution, Succeeds

-----------------------------------------------------------------------------
(* The steps of the workers *)

\* A step of one worker leaves the calls of the others alone.
Alone(w) ==
    \A v \in Workers \ {w} :
        /\ step'[v] = step[v] /\ attempt'[v] = attempt[v] /\ attempts'[v] = attempts[v]
        /\ execErr'[v] = execErr[v] /\ wPhase'[v] = wPhase[v] /\ wCancelled'[v] = wCancelled[v]
        /\ wInflight'[v] = wInflight[v]

\* A call that is not touched stays as it was, and so does one that ends.
LEMMA UntouchedRun ==
    ASSUME WorkerInv, TopicKept, Grow, NEW v \in Workers, RunOK(v),
           step'[v] = step[v], attempt'[v] = attempt[v], attempts'[v] = attempts[v],
           execErr'[v] = execErr[v], step[v] # "idle" => wPhase'[v] = wPhase[v],
           wCancelled[v] => wCancelled'[v] \/ step[v] = "idle",
           step[v] # "idle" => wInflight'[v] = wInflight[v]
    PROVE  RunOK(v)'
<1>1. CASE step[v] = "idle"
    BY <1>1, ZenonT(30) DEF RunOK, Finishing, MaxAttempts
<1>2. CASE step[v] # "idle"
  <2>1. Body(v)' = Body(v)
      BY <1>2, BodyKept, ZenonT(30)
  <2> QED
      BY <1>2, <2>1, ZenonT(30) DEF RunOK, Finishing, Grow, MaxAttempts
<1> QED
    BY <1>1, <1>2, ZenonT(30)

LEMMA OthersRun ==
    ASSUME WorkerInv, TopicKept, Grow, NEW w \in Workers, Alone(w), RunOK(w)',
           \A v \in Workers : RunOK(v)
    PROVE  \A v \in Workers : RunOK(v)'
<1> SUFFICES ASSUME NEW v \in Workers, v # w PROVE RunOK(v)'
    OBVIOUS
<1> QED
    BY UntouchedRun, ZenonT(30) DEF Alone

LEMMA EndedRun ==
    ASSUME WorkerInv, NEW w \in Workers, Forget(w)
    PROVE  RunOK(w)'
    BY DEF WorkerInv, WorkerTypeOK, RunTypeOK, Forget, Goto, RunOK, Finishing, Steps

\* What RunOK says of a call that has not finished its attempts.
LEMMA RunFacts ==
    ASSUME NEW w \in Workers, RunOK(w)
    PROVE  /\ step[w] \in {"check", "running", "attempt", "onRetry", "backoff"} =>
                 wPhase[w] = "handle" /\ ~execErr[w]
           /\ step[w] \in {"running", "attempt", "onRetry", "backoff"} => Body(w) \in Tasks
           /\ step[w] \in {"check", "running"} => attempt[w] = 0 /\ attempts[w] = 0
           /\ step[w] = "attempt" => attempt[w] \in 1 .. MaxAttempts /\ attempts[w] = attempt[w] - 1
           /\ step[w] \in {"onRetry", "backoff"} =>
                 attempt[w] \in 1 .. MaxAttempts - 1 /\ attempts[w] = attempt[w]
<1>1. step[w] \in {"check", "running", "attempt", "onRetry", "backoff"} => ~Finishing(w)
    BY DEF Finishing
<1> QED
    BY <1>1, ZenonT(30) DEF RunOK

\* What has to be shown of a call that goes on with its attempts or has finished them.
LEMMA RunWritten ==
    ASSUME NEW w \in Workers, wPhase'[w] = "handle", Body(w)' \in Tasks,
           \/ /\ step'[w] = "running" /\ ~execErr'[w]
              /\ attempt'[w] = 0 /\ attempts'[w] = 0
           \/ /\ step'[w] = "attempt" /\ ~execErr'[w]
              /\ attempt'[w] \in 1 .. MaxAttempts /\ attempts'[w] = attempt'[w] - 1
           \/ /\ step'[w] \in {"onRetry", "backoff"} /\ ~execErr'[w]
              /\ attempt'[w] \in 1 .. MaxAttempts - 1 /\ attempts'[w] = attempt'[w]
           \/ /\ step'[w] = "finishStatus"
              /\ attempt'[w] \in 1 .. MaxAttempts /\ attempts'[w] \in 1 .. MaxAttempts
              /\ IF execErr'[w]
                 THEN wCancelled'[w] \/ (Body(w)' \in exhausted' /\ attempts'[w] = MaxAttempts)
                 ELSE Body(w)' \in succeeded'
    PROVE  RunOK(w)'
<1>m. MaxAttempts' = MaxAttempts
    BY DEF MaxAttempts
<1>1. CASE /\ step'[w] = "running" /\ ~execErr'[w]
           /\ attempt'[w] = 0 /\ attempts'[w] = 0
    BY <1>1, ZenonT(30) DEF RunOK, Finishing
<1>2. CASE /\ step'[w] = "attempt" /\ ~execErr'[w]
           /\ attempt'[w] \in 1 .. MaxAttempts /\ attempts'[w] = attempt'[w] - 1
    BY <1>m, <1>2 DEF RunOK, Finishing
<1>3. CASE /\ step'[w] \in {"onRetry", "backoff"} /\ ~execErr'[w]
           /\ attempt'[w] \in 1 .. MaxAttempts - 1 /\ attempts'[w] = attempt'[w]
    BY <1>m, <1>3, ZenonT(30) DEF RunOK, Finishing
<1>4. CASE /\ step'[w] = "finishStatus"
           /\ attempt'[w] \in 1 .. MaxAttempts /\ attempts'[w] \in 1 .. MaxAttempts
           /\ IF execErr'[w]
              THEN wCancelled'[w] \/ (Body(w)' \in exhausted' /\ attempts'[w] = MaxAttempts)
              ELSE Body(w)' \in succeeded'
    BY <1>m, <1>4, ZenonT(30) DEF RunOK, Finishing
<1> QED
    BY <1>1, <1>2, <1>3, <1>4, ZenonT(30)

\* What a step of a worker starts from.
LEMMA RunStart ==
    ASSUME WorkerInv
    PROVE  /\ \A w \in Workers : RunOK(w)
           /\ RunTypeOK /\ Group!TypeOK /\ MaxAttempts \in Nat /\ MaxAttempts >= 1
    BY RecordsSplit, MaxAttemptsType DEF WorkerInv, WorkerTypeOK

LEMMA MaxAttemptsFixed == MaxAttempts' = MaxAttempts
    BY DEF MaxAttempts

\* A call that ends leaves nothing behind.
LEMMA CallEnds ==
    ASSUME WorkerInv, TopicKept, NEW w \in Workers, Forget(w), UNCHANGED <<succeeded, exhausted, interrupted>>,
           \A v \in Workers \ {w} : /\ wPhase'[v] = wPhase[v] /\ wCancelled'[v] = wCancelled[v]
                                    /\ wInflight'[v] = wInflight[v]
    PROVE  Grow /\ \A v \in Workers : RunOK(v)'
<1> USE DEF wGroupVars, wLoopVars, runVars
<1>1. Alone(w) /\ Grow
    BY RunStart, ZenonT(30) DEF Alone, Grow, Forget, Goto, RunTypeOK
<1> QED
    BY RunStart, <1>1, EndedRun, OthersRun, ZenonT(30)

\* The same, when processMessage returns nil.
LEMMA CallReturns ==
    ASSUME WorkerInv, TopicKept, NEW w \in Workers, Return(w), UNCHANGED <<succeeded, exhausted, interrupted>>
    PROVE  Grow /\ \A v \in Workers : RunOK(v)'
    BY RunStart, CallEnds, ZenonT(30) DEF Return, Group!HandlerReturnsNil, Group!TypeOK

\* A call that goes on to its next step.
LEMMA CallGoesOn ==
    ASSUME WorkerInv, TopicKept, NEW w \in Workers, NEW s \in Steps, step[w] # "idle",
           step' = [step EXCEPT ![w] = s], Inside,
           (Body(w)' = Body(w) /\ step'[w] = s) => RunOK(w)'
    PROVE  Grow /\ \A v \in Workers : RunOK(v)'
<1> USE DEF wGroupVars, wLoopVars, runVars
<1>1. Alone(w) /\ Grow /\ step'[w] = s
    BY RunStart, ZenonT(30) DEF Alone, Grow, Inside, RunTypeOK
<1>2. Body(w)' = Body(w)
    BY BodyKept, ZenonT(30) DEF Inside
<1> QED
    BY RunStart, <1>1, <1>2, OthersRun

\* Subscribe hands over a message, and nothing of an earlier call is left.
LEMMA ReceiveRun ==
    ASSUME WorkerInv, TopicKept, NEW w \in Workers, Receive(w)
    PROVE  Grow /\ \A v \in Workers : RunOK(v)'
<1> USE DEF wGroupVars, wLoopVars, runVars
<1>1. PICK p \in Partitions : Group!FetchMessage(w, p)
    BY DEF Receive
<1>2. Alone(w) /\ Grow /\ step'[w] = "check" /\ wPhase'[w] = "handle"
  <2>1. /\ step' = [step EXCEPT ![w] = "check"] /\ UNCHANGED <<attempt, attempts, execErr>>
        /\ UNCHANGED <<succeeded, exhausted, interrupted>>
      BY ZenonT(30) DEF Receive, Goto
  <2>2. /\ wPhase' = [wPhase EXCEPT ![w] = "handle"] /\ UNCHANGED wCancelled
        /\ wInflight' = [wInflight EXCEPT ![w] = [partition |-> p, offset |-> wPosition[p]]]
      BY <1>1, ZenonT(30) DEF Group!FetchMessage
  <2>3. /\ step \in [Workers -> Steps] /\ wPhase \in [Workers -> Group!Phases]
        /\ wInflight \in [Workers -> Group!Messages \cup {None}]
      BY RunStart, ZenonT(30) DEF RunTypeOK, Group!TypeOK
  <2> QED
      BY <2>1, <2>2, <2>3, ZenonT(30) DEF Alone, Grow
<1>3. step[w] = "idle"
    BY RunStart, <1>1, ZenonT(30) DEF RunOK, Group!FetchMessage
<1>4. RunOK(w)'
    BY RunStart, MaxAttemptsFixed, <1>2, <1>3, ZenonT(30) DEF RunOK, Receive, Finishing
<1> QED
    BY RunStart, <1>2, <1>4, OthersRun, ZenonT(30)

\* A terminal task is skipped, any other goes on.
LEMMA CheckStatusRun ==
    ASSUME WorkerInv, TopicKept, NEW w \in Workers, CheckStatus(w)
    PROVE  Grow /\ \A v \in Workers : RunOK(v)'
<1> USE DEF wGroupVars, wLoopVars, runVars
<1>1. CASE Return(w) /\ UNCHANGED <<succeeded, exhausted, interrupted>>
    BY CallReturns, <1>1
<1>2. CASE Goto(w, IF HasHandler(w) THEN "running" ELSE "noHandler") /\ Inside
  <2> DEFINE s == IF HasHandler(w) THEN "running" ELSE "noHandler"
  <2>1. s \in Steps /\ step' = [step EXCEPT ![w] = s] /\ step[w] = "check" /\ Body(w) \in Tasks
      BY <1>2 DEF CheckStatus, Goto, Steps
  <2>2. ASSUME Body(w)' = Body(w), step'[w] = s PROVE RunOK(w)'
    <3>1. wPhase[w] = "handle" /\ ~execErr[w] /\ attempt[w] = 0 /\ attempts[w] = 0
        BY RunStart, <2>1, RunFacts, ZenonT(30)
    <3>2. UNCHANGED <<wPhase, execErr, attempt, attempts>>
        BY <1>2 DEF Inside
    <3>3. step'[w] = "running" \/ (step'[w] = "noHandler" /\ TypeOf[Body(w)] \notin Registered)
        BY <2>2, SMTT(30) DEF HasHandler
    <3> QED
        BY MaxAttemptsFixed, <2>1, <2>2, <3>1, <3>2, <3>3, ZenonT(30) DEF RunOK, Finishing
  <2> QED
      BY CallGoesOn, <1>2, <2>1, <2>2, ZenonT(30)
<1> QED
    BY <1>1, <1>2 DEF CheckStatus

\* Nothing but the step changes.
LEMMA NoHandlerRun ==
    ASSUME WorkerInv, TopicKept, NEW w \in Workers, NoHandlerStatus(w)
    PROVE  Grow /\ \A v \in Workers : RunOK(v)'
<1> USE DEF wGroupVars, wLoopVars, runVars
<1>1. step[w] = "noHandler" /\ Inside /\ step' = [step EXCEPT ![w] = "noHandlerDLQ"]
    BY DEF NoHandlerStatus, Goto
<1>2. ASSUME Body(w)' = Body(w), step'[w] = "noHandlerDLQ" PROVE RunOK(w)'
    BY RunStart, MaxAttemptsFixed, <1>1, <1>2, ZenonT(30) DEF RunOK, Inside, Finishing
<1> QED
    BY CallGoesOn, <1>1, <1>2, ZenonT(30) DEF Steps

\* retry.Do starts with its first attempt, or processMessage returns.
LEMMA SetRunningRun ==
    ASSUME WorkerInv, TopicKept, NEW w \in Workers, SetRunning(w)
    PROVE  Grow /\ \A v \in Workers : RunOK(v)'
<1> USE DEF wGroupVars, wLoopVars, runVars
<1>1. CASE Group!HandlerReturnsError(w) /\ Forget(w) /\ UNCHANGED <<succeeded, exhausted, interrupted>>
    BY RunStart, CallEnds, <1>1 DEF Group!HandlerReturnsError, Group!TypeOK
<1>2. CASE /\ Goto(w, "attempt")
           /\ attempt' = [attempt EXCEPT ![w] = 1]
           /\ UNCHANGED <<wGroupVars, attempts, execErr, succeeded, exhausted, interrupted>>
  <2>1. Alone(w) /\ Grow /\ step'[w] = "attempt" /\ attempt'[w] = 1 /\ step[w] = "running"
      BY RunStart, <1>2, ZenonT(30) DEF Alone, Grow, Goto, RunTypeOK, SetRunning
  <2>2. Body(w)' = Body(w)
      BY <1>2, <2>1, BodyKept, ZenonT(30)
  <2>3. RunOK(w)'
    <3>1. wPhase[w] = "handle" /\ Body(w) \in Tasks /\ ~execErr[w] /\ attempts[w] = 0
        BY RunStart, <2>1, RunFacts, ZenonT(30)
    <3>2. 1 \in 1 .. MaxAttempts
        BY MaxAttemptsType, SMTT(30)
    <3>3. wPhase'[w] = "handle" /\ Body(w)' \in Tasks /\ ~execErr'[w]
        BY <1>2, <2>2, <3>1, ZenonT(30)
    <3>4. attempts'[w] = attempt'[w] - 1
      <4>1. attempts'[w] = 0
          BY <1>2, <3>1, ZenonT(30)
      <4> QED
          BY <2>1, <4>1, SMTT(30)
    <3> QED
        BY <2>1, <3>2, <3>3, <3>4, RunWritten, ZenonT(30)
  <2> QED
      BY RunStart, <2>1, <2>3, OthersRun
<1> QED
    BY <1>1, <1>2, ZenonT(30) DEF SetRunning

\* The handler has succeeded, and the task is in succeeded.
LEMMA HandlerSucceedsRun ==
    ASSUME WorkerInv, TopicKept, NEW w \in Workers, HandlerSucceeds(w)
    PROVE  Grow /\ \A v \in Workers : RunOK(v)'
<1> USE DEF wGroupVars, wLoopVars, runVars
<1>1. /\ Alone(w) /\ Grow /\ step[w] = "attempt" /\ step'[w] = "finishStatus"
      /\ attempts'[w] = attempts[w] + 1 /\ succeeded' = succeeded \cup {Body(w)}
      /\ UNCHANGED <<wGroupVars, attempt, execErr>>
    BY RunStart, ZenonT(30) DEF Alone, Grow, HandlerSucceeds, Goto, RunTypeOK
<1>2. Body(w)' = Body(w)
    BY <1>1, BodyKept, ZenonT(30)
<1>3. RunOK(w)'
  <2>1. /\ wPhase[w] = "handle" /\ Body(w) \in Tasks /\ ~execErr[w]
        /\ attempt[w] \in 1 .. MaxAttempts /\ attempts[w] = attempt[w] - 1
      BY RunStart, <1>1, RunFacts, ZenonT(30)
  <2>2. attempts'[w] = attempt[w]
    <3>1. attempts'[w] = attempts[w] + 1
        BY <1>1, ZenonT(30)
    <3> QED
        BY <2>1, <3>1, MaxAttemptsType
  <2>3. /\ wPhase'[w] = "handle" /\ Body(w)' \in Tasks /\ ~execErr'[w]
        /\ Body(w)' \in succeeded' /\ attempt'[w] = attempt[w]
      BY <1>1, <1>2, <2>1, ZenonT(30)
  <2> QED
      BY <1>1, <2>1, <2>2, <2>3, RunWritten, ZenonT(30)
<1> QED
    BY RunStart, <1>1, <1>3, OthersRun, ZenonT(30)

\* The last attempt has failed, and the task is in exhausted; or there is another one.
LEMMA HandlerFailsRun ==
    ASSUME WorkerInv, TopicKept, NEW w \in Workers, HandlerFails(w)
    PROVE  Grow /\ \A v \in Workers : RunOK(v)'
<1> USE DEF wGroupVars, wLoopVars, runVars
<1>1. /\ Alone(w) /\ Grow /\ step[w] = "attempt" /\ attempts'[w] = attempts[w] + 1
      /\ UNCHANGED <<wGroupVars, attempt, succeeded>>
    BY RunStart, ZenonT(30) DEF Alone, Grow, HandlerFails, Goto, RunTypeOK
<1>2. Body(w)' = Body(w)
    BY <1>1, BodyKept, ZenonT(30)
<1>r. /\ wPhase[w] = "handle" /\ Body(w) \in Tasks /\ ~execErr[w]
      /\ attempt[w] \in 1 .. MaxAttempts /\ attempts[w] = attempt[w] - 1
    BY RunStart, <1>1, RunFacts, ZenonT(30)
<1>a. attempts'[w] = attempt[w]
  <2>1. attempts'[w] = attempts[w] + 1
      BY <1>1, ZenonT(30)
  <2> QED
      BY <1>r, <2>1, MaxAttemptsType
<1>b. wPhase'[w] = "handle" /\ Body(w)' \in Tasks /\ attempt'[w] = attempt[w]
    BY <1>1, <1>2, <1>r, ZenonT(30)
<1>3. CASE attempt[w] = MaxAttempts
  <2>1. step'[w] = "finishStatus" /\ execErr'[w] = TRUE /\ exhausted' = exhausted \cup {Body(w)}
      BY RunStart, <1>3, SMTT(30) DEF HandlerFails, Goto, RunTypeOK
  <2>2. RunOK(w)'
    <3>1. Body(w)' \in exhausted'
        BY <1>2, <2>1, ZenonT(30)
    <3> QED
        BY <1>r, <1>a, <1>b, <1>3, <2>1, <3>1, RunWritten, ZenonT(30)
  <2> QED
      BY RunStart, <1>1, <2>2, OthersRun, ZenonT(30)
<1>4. CASE attempt[w] # MaxAttempts
  <2>1. step'[w] = "onRetry" /\ UNCHANGED execErr
      BY RunStart, <1>4 DEF HandlerFails, Goto, RunTypeOK
  <2>2. attempt[w] \in 1 .. MaxAttempts - 1
      BY <1>r, <1>4, MaxAttemptsType
  <2>3. RunOK(w)'
    <3>1. ~execErr'[w]
        BY <1>r, <2>1, ZenonT(30)
    <3> QED
        BY <1>a, <1>b, <2>1, <2>2, <3>1, RunWritten
  <2> QED
      BY RunStart, <1>1, <2>3, OthersRun, ZenonT(30)
<1> QED
    BY <1>3, <1>4

\* The two counters agree.
LEMMA OnRetryRun ==
    ASSUME WorkerInv, TopicKept, NEW w \in Workers, OnRetry(w)
    PROVE  Grow /\ \A v \in Workers : RunOK(v)'
<1> USE DEF wGroupVars, wLoopVars, runVars
<1>1. /\ Alone(w) /\ Grow /\ step[w] = "onRetry" /\ step'[w] = "backoff"
      /\ attempts'[w] = attempt[w] /\ UNCHANGED <<wGroupVars, attempt, execErr>>
    BY RunStart, ZenonT(30) DEF Alone, Grow, OnRetry, Goto, RunTypeOK
<1>2. Body(w)' = Body(w)
    BY <1>1, BodyKept, ZenonT(30)
<1>3. RunOK(w)'
  <2>1. /\ wPhase[w] = "handle" /\ Body(w) \in Tasks /\ ~execErr[w]
        /\ attempt[w] \in 1 .. MaxAttempts - 1
      BY RunStart, <1>1, RunFacts, ZenonT(30)
  <2>2. /\ wPhase'[w] = "handle" /\ Body(w)' \in Tasks /\ ~execErr'[w]
        /\ step'[w] = "backoff" /\ attempt'[w] = attempt[w] /\ attempts'[w] = attempt'[w]
      BY <1>1, <1>2, <2>1, ZenonT(30)
  <2> QED
      BY <2>1, <2>2, RunWritten, ZenonT(30)
<1> QED
    BY RunStart, <1>1, <1>3, OthersRun, ZenonT(30)

\* The next attempt, or the error of a context that is done.
LEMMA BackoffRun ==
    ASSUME WorkerInv, TopicKept, NEW w \in Workers, Backoff(w)
    PROVE  Grow /\ \A v \in Workers : RunOK(v)'
<1> USE DEF wGroupVars, wLoopVars, runVars
<1>1. /\ Alone(w) /\ Grow /\ step[w] = "backoff"
      /\ UNCHANGED <<wGroupVars, attempts, succeeded, exhausted>>
    BY RunStart, ZenonT(30) DEF Alone, Grow, Backoff, Goto, RunTypeOK
<1>2. Body(w)' = Body(w)
    BY <1>1, BodyKept, ZenonT(30)
<1>3. \/ step'[w] = "attempt" /\ attempt'[w] = attempt[w] + 1 /\ UNCHANGED execErr
      \/ wCancelled[w] /\ step'[w] = "finishStatus" /\ execErr'[w] = TRUE /\ UNCHANGED attempt
  <2>1. CASE /\ attempt' = [attempt EXCEPT ![w] = @ + 1] /\ UNCHANGED execErr
             /\ step' = [step EXCEPT ![w] = "attempt"]
      BY RunStart, <2>1, ZenonT(30) DEF RunTypeOK
  <2>2. CASE /\ ~Live(w) /\ execErr' = [execErr EXCEPT ![w] = TRUE] /\ UNCHANGED attempt
             /\ step' = [step EXCEPT ![w] = "finishStatus"]
      BY RunStart, <2>2, ZenonT(30) DEF RunTypeOK, Live
  <2> QED
      BY <2>1, <2>2, ZenonT(30) DEF Backoff, Goto
<1>4. /\ wPhase[w] = "handle" /\ Body(w) \in Tasks /\ ~execErr[w]
      /\ attempt[w] \in 1 .. MaxAttempts - 1 /\ attempts[w] = attempt[w]
    BY RunStart, <1>1, RunFacts, ZenonT(30)
<1>5. RunOK(w)'
  <2>1. /\ wPhase'[w] = "handle" /\ Body(w)' \in Tasks
        /\ attempts'[w] = attempts[w] /\ wCancelled'[w] = wCancelled[w]
      BY <1>1, <1>2, <1>4, ZenonT(30)
  <2>2. CASE step'[w] = "attempt" /\ attempt'[w] = attempt[w] + 1 /\ UNCHANGED execErr
    <3>1. attempt'[w] \in 1 .. MaxAttempts /\ attempts'[w] = attempt'[w] - 1
        BY <1>4, <2>1, <2>2, MaxAttemptsType
    <3>2. ~execErr'[w]
        BY <1>4, <2>2
    <3> QED
        BY <2>1, <2>2, <3>1, <3>2, RunWritten, ZenonT(30)
  <2>3. CASE /\ wCancelled[w] /\ step'[w] = "finishStatus"
             /\ execErr'[w] = TRUE /\ UNCHANGED attempt
    <3>1. attempt'[w] \in 1 .. MaxAttempts /\ attempts'[w] \in 1 .. MaxAttempts
        BY <1>4, <2>1, <2>3, MaxAttemptsType
    <3>2. wCancelled'[w]
        BY <2>1, <2>3
    <3> QED
        BY <2>1, <2>3, <3>1, <3>2, RunWritten, ZenonT(30)
  <2> QED
      BY <1>3, <2>2, <2>3, ZenonT(30)
<1> QED
    BY RunStart, <1>1, <1>5, OthersRun

\* The writes of the result change nothing of the call.
LEMMA FinishGoesOn ==
    ASSUME WorkerInv, TopicKept, NEW w \in Workers, Finishing(w), NEW s \in Steps, Goto(w, s), Inside,
           s \in {"finishMeta", "finishRecord", "finishUpdate", "finishDLQ"}
    PROVE  Grow /\ \A v \in Workers : RunOK(v)'
<1> USE DEF wGroupVars, wLoopVars, runVars
<1>1. ASSUME Body(w)' = Body(w), step'[w] = s PROVE RunOK(w)'
    BY RunStart, MaxAttemptsFixed, <1>1, ZenonT(30) DEF RunOK, Inside, Finishing
<1> QED
    BY CallGoesOn, <1>1, ZenonT(30) DEF Goto, Finishing

\* The first three writes.
LEMMA FinishRun ==
    ASSUME WorkerInv, TopicKept, NEW w \in Workers, FinishStatus(w) \/ FinishMeta(w) \/ FinishRecord(w)
    PROVE  Grow /\ \A v \in Workers : RunOK(v)'
    BY FinishGoesOn, ZenonT(30) DEF FinishStatus, FinishMeta, FinishRecord, Finishing, Steps

\* The last write, after which a success is over.
LEMMA FinishUpdateRun ==
    ASSUME WorkerInv, TopicKept, NEW w \in Workers, FinishUpdate(w)
    PROVE  Grow /\ \A v \in Workers : RunOK(v)'
    BY CallReturns, FinishGoesOn, ZenonT(30) DEF FinishUpdate, Finishing, Steps, Inside

\* The steps that end with a return.
LEMMA LastRun ==
    ASSUME WorkerInv, TopicKept, NEW w \in Workers, Discard(w) \/ NoHandlerDLQ(w) \/ FinishDLQ(w)
    PROVE  Grow /\ \A v \in Workers : RunOK(v)'
    BY CallReturns DEF Discard, NoHandlerDLQ, FinishDLQ

\* The process stops.
LEMMA StopRun ==
    ASSUME WorkerInv, TopicKept, NEW w \in Workers, Exit(w) \/ Die(w)
    PROVE  Grow /\ \A v \in Workers : RunOK(v)'
    BY RunStart, CallEnds, ZenonT(30) DEF Exit, Die, Group!SubscribeReturnsNil, Group!SubscribeReturnsError,
                             Group!Crash, Group!Leave, Group!TypeOK

\* The steps of Subscribe outside of processMessage.
LEMMA OutsideRun ==
    ASSUME WorkerInv, TopicKept, NEW w \in Workers, Commit(w) \/ Start(w)
    PROVE  Grow /\ \A v \in Workers : RunOK(v)'
<1> USE DEF wGroupVars, wLoopVars, runVars
<1>1. Grow /\ UNCHANGED runVars
    BY SMTT(30) DEF Grow, Commit, Start
<1>2. step[w] = "idle"
    BY RunStart, ZenonT(30) DEF Commit, Start, Group!CommitMessages, Group!CommitFails, Group!Restart, RunOK
<1>3. Alone(w)
    BY RunStart, <1>1, ZenonT(30) DEF Alone, Commit, Start, Group!CommitMessages, Group!CommitFails,
                             Group!Restart, Group!TypeOK
<1>4. RunOK(w)'
    BY RunStart, <1>1, <1>2, UntouchedRun, ZenonT(30)
<1> QED
    BY RunStart, <1>1, <1>3, <1>4, OthersRun

\* A signal only cancels the context.
LEMMA SignalRun ==
    ASSUME WorkerInv, TopicKept, NEW w \in Workers, Signal(w)
    PROVE  Grow /\ \A v \in Workers : RunOK(v)'
<1> USE DEF wGroupVars, wLoopVars, runVars
<1>1. Grow /\ UNCHANGED <<runVars, wPhase, wInflight>>
    BY DEF Grow, Signal, Group!Shutdown
<1>2. \A v \in Workers : wCancelled[v] => wCancelled'[v]
    BY RunStart DEF Signal, Group!Shutdown, Group!TypeOK
<1> QED
    BY RunStart, <1>1, <1>2, UntouchedRun, ZenonT(30)

\* A rebalance does not touch the calls.
LEMMA ReassignRun ==
    ASSUME WorkerInv, TopicKept, Reassign \/ Disturb
    PROVE  Grow /\ \A v \in Workers : RunOK(v)'
<1> USE DEF wGroupVars, wLoopVars, runVars
<1>1. Grow /\ UNCHANGED <<runVars, wLoopVars>>
    BY DEF Grow, Reassign, Disturb, Group!Rebalance, Group!SpontaneousRebalance, Group!Assign,
                 Group!loopVars
<1> QED
    BY RunStart, <1>1, UntouchedRun, ZenonT(30)

\* Every step of a worker leaves the calls consistent with the loop, the counters
\* and what the handlers have done.
LEMMA WorkerRunStep ==
    ASSUME WorkerInv, WorkerNext
    PROVE  Grow /\ \A w \in Workers : RunOK(w)'
<1>1. TopicKept
    BY WorkUntouched DEF TopicKept
<1>2. CASE \E w \in Workers : ProcessStep(w) \/ Die(w) \/ Signal(w) \/ Start(w)
    BY <1>1, <1>2, ReceiveRun, CheckStatusRun, NoHandlerRun, SetRunningRun, HandlerSucceedsRun,
       HandlerFailsRun, OnRetryRun, BackoffRun, FinishRun, FinishUpdateRun, LastRun, StopRun,
       OutsideRun, SignalRun, ZenonT(30) DEF ProcessStep
<1>3. CASE Reassign \/ Disturb
    BY <1>1, <1>3, ReassignRun
<1> QED
    BY <1>2, <1>3 DEF WorkerNext

\* What a worker is about to record is true when its context lets it through.
LEMMA FinalIsTrue ==
    ASSUME WorkerInv, NEW w \in Workers, Finishing(w), Live(w)
    PROVE  /\ FinalStatus(w) = "DONE" => Body(w) \in succeeded
           /\ FinalStatus(w) = "DEAD" => Body(w) \in exhausted /\ attempts[w] = MaxAttempts
    BY DEF WorkerInv, RecordsInv, OutcomeInv, FinalStatus, Live

\* A step that writes none of the records keeps them true.
LEMMA StatusKept == StatusTrue /\ Grow /\ UNCHANGED status => StatusTrue'
    BY DEF StatusTrue, Earned, Grow

LEMMA MetaKept == MetaTrue /\ Grow /\ UNCHANGED meta => MetaTrue'
    BY ZenonT(30) DEF MetaTrue, Earned, Grow, MaxAttempts

LEMMA RowKept == RowTrue /\ Grow /\ UNCHANGED row => RowTrue'
    BY DEF RowTrue, Earned, Grow

LEMMA ExecutionsKept == ExecutionsTrue /\ Grow /\ UNCHANGED executions => ExecutionsTrue'
    BY ZenonT(30) DEF ExecutionsTrue, Earned, Grow, MaxAttempts

\* Every write of a worker is true.
LEMMA WorkerWritesTruth ==
    ASSUME WorkerInv, WorkerNext
    PROVE  StatusTrue' /\ MetaTrue' /\ RowTrue' /\ ExecutionsTrue'
<1>0. /\ StatusTrue /\ MetaTrue /\ RowTrue /\ ExecutionsTrue /\ Grow /\ BackendsTypeOK
      /\ \A w \in Workers : RunOK(w) /\ Live(w) \in BOOLEAN
    BY RecordsSplit, WorkerRunStep DEF WorkerInv, WorkerTypeOK, Live
<1> DEFINE Truth == StatusTrue' /\ MetaTrue' /\ RowTrue' /\ ExecutionsTrue'
<1> USE DEF storeVars, repoVars
<1>1. ASSUME UNCHANGED <<storeVars, repoVars>> PROVE Truth
    BY <1>0, <1>1, StatusKept, MetaKept, RowKept, ExecutionsKept
<1>2. ASSUME NEW w \in Workers, NoHandlerStatus(w) PROVE Truth
  <2>1. PICK ok \in BOOLEAN : SetStatus(Live(w), Body(w), "DEAD", ok)
      BY <1>2, SMTT(30) DEF NoHandlerStatus
  <2>2. Body(w) \in Tasks /\ Earned(Body(w))
      BY <1>0, <1>2, ZenonT(30) DEF NoHandlerStatus, RunOK, Earned
  <2>3. StatusTrue'
      BY <1>0, <2>1, <2>2, SetStatusTrue
  <2> QED
      BY <1>0, <1>2, <2>3, MetaKept, RowKept, ExecutionsKept DEF NoHandlerStatus
<1>3. ASSUME NEW w \in Workers, SetRunning(w) PROVE Truth
  <2>1. PICK ok \in BOOLEAN : SetStatus(Live(w), Body(w), "RUNNING", ok)
      BY <1>3, ZenonT(30) DEF SetRunning
  <2>2. Body(w) \in Tasks
      BY <1>0, <1>3, ZenonT(30) DEF SetRunning, RunOK
  <2>3. StatusTrue'
      BY <1>0, <2>1, <2>2, SetStatusTrue, SMTT(30)
  <2> QED
      BY <1>0, <1>3, <2>3, MetaKept, RowKept, ExecutionsKept DEF SetRunning
<1>4. ASSUME NEW w \in Workers, OnRetry(w) PROVE Truth
  <2>1. PICK ok \in BOOLEAN : SetStatus(Live(w), Body(w), "RETRYING", ok)
      BY <1>4, ZenonT(30) DEF OnRetry
  <2>2. Body(w) \in Tasks
      BY <1>0, <1>4, ZenonT(30) DEF OnRetry, RunOK
  <2>3. StatusTrue'
      BY <1>0, <2>1, <2>2, SetStatusTrue, SMTT(30)
  <2> QED
      BY <1>0, <1>4, <2>3, MetaKept, RowKept, ExecutionsKept, ZenonT(30) DEF OnRetry
<1>5. ASSUME NEW w \in Workers, Finishing(w)
      PROVE /\ Body(w) \in Tasks /\ attempts[w] \in 1 .. MaxAttempts
            /\ Live(w) /\ FinalStatus(w) = "DONE" => Body(w) \in succeeded
            /\ Live(w) /\ FinalStatus(w) = "DEAD" => Earned(Body(w)) /\ attempts[w] = MaxAttempts
    BY <1>0, <1>5, FinalIsTrue, ZenonT(30) DEF RunOK, Finishing, Earned
<1>6. ASSUME NEW w \in Workers, FinishStatus(w) PROVE Truth
  <2>1. PICK ok \in BOOLEAN : SetStatus(Live(w), Body(w), FinalStatus(w), ok)
      BY <1>6 DEF FinishStatus
  <2>2. Finishing(w)
      BY <1>6 DEF FinishStatus, Finishing
  <2>3. StatusTrue'
      BY <1>0, <1>5, <2>1, <2>2, SetStatusTrue, SMTT(30)
  <2> QED
      BY <1>0, <1>6, <2>3, MetaKept, RowKept, ExecutionsKept DEF FinishStatus
<1>7. ASSUME NEW w \in Workers, FinishMeta(w) PROVE Truth
  <2> DEFINE m == [status |-> FinalStatus(w), attempts |-> attempts[w], completed |-> ~execErr[w]]
  <2>1. PICK ok \in BOOLEAN : SetTaskMeta(Live(w), Body(w), m, ok)
      BY <1>7, ZenonT(30) DEF FinishMeta
  <2>2. Finishing(w) /\ m.status = FinalStatus(w) /\ m.attempts = attempts[w]
      BY <1>7, ZenonT(30) DEF FinishMeta, Finishing
  <2> HIDE DEF m
  <2>3. MetaTrue'
      BY <1>0, <1>5, <2>1, <2>2, SetTaskMetaTrue, SMTT(30)
  <2> QED
      BY <1>0, <1>7, <2>3, StatusKept, RowKept, ExecutionsKept, ZenonT(30) DEF FinishMeta
<1>8. ASSUME NEW w \in Workers, FinishRecord(w) PROVE Truth
  <2> DEFINE e == [status |-> FinalStatus(w), attempt |-> attempts[w]]
  <2>1. PICK ok \in BOOLEAN : RecordExecution(Live(w), Body(w), e, ok)
      BY <1>8, ZenonT(30) DEF FinishRecord
  <2>2. Finishing(w) /\ e.status = FinalStatus(w) /\ e.attempt = attempts[w] /\ e \in Executions
      BY <1>8, FinalType, ZenonT(30) DEF FinishRecord, Finishing, Executions
  <2> HIDE DEF e
  <2>3. ExecutionsTrue'
      BY <1>0, <1>5, <2>1, <2>2, RecordExecutionTrue, SMTT(30)
  <2> QED
      BY <1>0, <1>8, <2>3, StatusKept, MetaKept, RowKept, ZenonT(30) DEF FinishRecord
<1>9. ASSUME NEW w \in Workers, FinishUpdate(w) PROVE Truth
  <2>1. PICK ok \in BOOLEAN : UpdateStatus(Live(w), Body(w), FinalStatus(w), ok)
      BY <1>9, ZenonT(30) DEF FinishUpdate
  <2>2. Finishing(w)
      BY <1>9, ZenonT(30) DEF FinishUpdate, Finishing
  <2>3. RowTrue'
      BY <1>0, <1>5, <2>1, <2>2, UpdateStatusTrue
  <2> QED
      BY <1>0, <1>9, <2>3, StatusKept, MetaKept, ExecutionsKept, ZenonT(30) DEF FinishUpdate
<1> QED
    BY <1>1, <1>2, <1>3, <1>4, <1>6, <1>7, <1>8, <1>9, ZenonT(30)
       DEF WorkerNext, ProcessStep, backendVars, Receive, Discard, CheckStatus, NoHandlerDLQ,
           HandlerSucceeds, HandlerFails, Backoff, FinishDLQ, Commit, Exit, Die, Signal, Start, Reassign,
           Disturb

\* A step that leaves the workers alone leaves their calls alone.
LEMMA IdleRunStep ==
    ASSUME WorkerInv, TopicKept, UNCHANGED workerVars
    PROVE  Grow /\ \A w \in Workers : RunOK(w)'
<1>1. Grow /\ UNCHANGED <<step, attempt, attempts, execErr, wPhase, wCancelled, wInflight>>
    BY DEF Grow, workerVars, wGroupVars, wLoopVars, runVars
<1>2. \A w \in Workers : RunOK(w)
    BY RecordsSplit DEF WorkerInv
<1> QED
    BY <1>1, <1>2, UntouchedRun

\* A key that expires is gone, and nothing else changes.
LEMMA ExpiryChange ==
    ASSUME BackendsTypeOK, Expiry
    PROVE  /\ BackendsTypeOK'
           /\ \A t \in Tasks : status'[t] \in {status[t], NotFound} /\ meta'[t] \in {meta[t], NotFound}
           /\ UNCHANGED <<repoVars, topicVars, faults>>
<1>0. StoreTypeOK /\ UNCHANGED <<repoVars, topicVars, faults>>
    BY DEF BackendsTypeOK, Expiry
<1>1. PICK t \in Tasks : Expire(t)
    BY DEF Expiry
<1>2. \/ UNCHANGED status
      \/ status' = [status EXCEPT ![t] = NotFound]
    BY <1>1, ZenonT(30) DEF Expire
<1>3. \/ UNCHANGED meta
      \/ meta' = [meta EXCEPT ![t] = NotFound]
    BY <1>1, ZenonT(30) DEF Expire
<1>4. /\ status' \in [Tasks -> Statuses \cup {NotFound}]
      /\ \A u \in Tasks : status'[u] \in {status[u], NotFound}
    BY <1>0, <1>2 DEF StoreTypeOK
<1>5. /\ meta' \in [Tasks -> TaskData \cup {NotFound}]
      /\ \A u \in Tasks : meta'[u] \in {meta[u], NotFound}
    BY <1>0, <1>3 DEF StoreTypeOK
<1> QED
    BY <1>0, <1>4, <1>5 DEF BackendsTypeOK, StoreTypeOK, RepoTypeOK, TopicsTypeOK, repoVars, topicVars

\* What is left is as true as it was.
LEMMA ExpiryTrue ==
    ASSUME BackendsTypeOK, StatusTrue, MetaTrue, RowTrue, ExecutionsTrue, Grow, Expiry
    PROVE  StatusTrue' /\ MetaTrue' /\ RowTrue' /\ ExecutionsTrue'
<1>1. /\ \A t \in Tasks : status'[t] \in {status[t], NotFound} /\ meta'[t] \in {meta[t], NotFound}
      /\ UNCHANGED <<row, executions>>
    BY ExpiryChange DEF repoVars
<1>2. NotFound \notin {"DONE", "DEAD"}
    BY DomainAssumption DEF Statuses
<1>3. StatusTrue'
    BY <1>1, <1>2, ZenonT(30) DEF StatusTrue, Earned, Grow
<1>4. MetaTrue'
    BY <1>1, ZenonT(30) DEF MetaTrue, Earned, Grow, MaxAttempts
<1> QED
    BY <1>1, <1>3, <1>4, RowKept, ExecutionsKept

-----------------------------------------------------------------------------
(* What processMessage returns nil for *)

Ended(t) ==
    \/ t \in succeeded \cup exhausted \cup interrupted
    \/ TypeOf[t] \notin Registered

\* What the workers count as returned: nothing new, or the message one of them had
\* in its hands and was through with.
Returns ==
    \/ UNCHANGED wAccepted
    \/ \E w \in Workers :
          /\ wPhase[w] = "handle"
          /\ wAccepted' = [wAccepted EXCEPT ![wInflight[w].partition] = @ \cup {wInflight[w].offset}]
          /\ Body(w) \in Tasks => Ended(Body(w))

\* Where processMessage returns nil.
LEMMA ReturnsChange ==
    ASSUME WorkerInv, ReturnedInv, WorkerNext
    PROVE  Returns
<1>0. /\ \A w \in Workers : RunOK(w)
      /\ StatusTrue
      /\ Malformed \notin Tasks
    BY RecordsSplit, DomainAssumption DEF WorkerInv
<1>1. ASSUME NEW w \in Workers, Group!HandlerReturnsNil(w), Body(w) \in Tasks => Ended(Body(w))
      PROVE  Returns
    BY <1>1, ZenonT(30) DEF Returns, Group!HandlerReturnsNil
<1>2. ASSUME NEW w \in Workers, Discard(w) PROVE Returns
    BY <1>0, <1>1, <1>2, ZenonT(30) DEF Discard, Return
<1>3. ASSUME NEW w \in Workers, CheckStatus(w) PROVE Returns
  <2>1. CASE UNCHANGED wAccepted
      BY <2>1 DEF Returns
  <2>2. ASSUME NEW s, GetStatus(Live(w), Body(w), s), IsTerminal(s), Group!HandlerReturnsNil(w)
        PROVE  Returns
    <3>1. Body(w) \in Tasks
        BY <1>3 DEF CheckStatus
    <3>2. ~IsTerminal(Failed)
        BY DomainAssumption DEF IsTerminal, Statuses
    <3>3. IsTerminal(status[Body(w)])
        BY <2>2, <3>2, ZenonT(30) DEF GetStatus
    <3>4. status[Body(w)] \in {"DONE", "DEAD"}
        BY <3>1, <3>3 DEF ReturnedInv, IsTerminal
    <3> QED
        BY <1>0, <1>1, <2>2, <3>1, <3>4, ZenonT(30) DEF StatusTrue, Earned, Ended
  <2> QED
      BY <1>3, <2>1, <2>2, ZenonT(30) DEF CheckStatus, Return, Inside, wGroupVars
<1>4. ASSUME NEW w \in Workers, NoHandlerDLQ(w) PROVE Returns
    BY <1>0, <1>1, <1>4, ZenonT(30) DEF NoHandlerDLQ, Return, RunOK, Ended
<1>5. ASSUME NEW w \in Workers, FinishUpdate(w) \/ FinishDLQ(w) PROVE Returns
  <2>1. Finishing(w)
      BY <1>5, ZenonT(30) DEF FinishUpdate, FinishDLQ, Finishing
  <2>2. Ended(Body(w))
      BY <1>0, <2>1, ZenonT(30) DEF RunOK, ReturnedInv, Ended
  <2>3. UNCHANGED wAccepted \/ Group!HandlerReturnsNil(w)
      BY <1>5, ZenonT(30) DEF FinishUpdate, FinishDLQ, Return, wGroupVars
  <2> QED
      BY <1>1, <2>2, <2>3, ZenonT(30) DEF Returns
<1>6. ASSUME NEW w \in Workers, Receive(w) \/ SetRunning(w) \/ Commit(w) \/ Exit(w) \/ Die(w)
                                \/ Signal(w) \/ Start(w)
      PROVE  Returns
    BY <1>6, ZenonT(30)
       DEF Returns, Receive, SetRunning, Commit, Exit, Die, Signal, Start, wGroupVars,
           Group!FetchMessage, Group!HandlerReturnsError, Group!CommitMessages, Group!CommitFails,
           Group!SubscribeReturnsNil, Group!SubscribeReturnsError, Group!Crash, Group!Leave,
           Group!Shutdown, Group!Restart, Group!historyVars
<1>7. ASSUME NEW w \in Workers, NoHandlerStatus(w) \/ HandlerSucceeds(w) \/ HandlerFails(w) \/ OnRetry(w)
                                \/ Backoff(w) \/ FinishStatus(w) \/ FinishMeta(w) \/ FinishRecord(w)
      PROVE  Returns
    BY <1>7, ZenonT(30)
       DEF Returns, NoHandlerStatus, HandlerSucceeds, HandlerFails, OnRetry, Backoff, FinishStatus,
           FinishMeta, FinishRecord, Inside, wGroupVars
<1>8. CASE Reassign \/ Disturb
    BY <1>8, ZenonT(30) DEF Returns, Reassign, Disturb, Group!Rebalance, Group!SpontaneousRebalance,
                            Group!Assign, Group!historyVars
<1> QED
    BY <1>2, <1>3, <1>4, <1>5, <1>6, <1>7, <1>8, ZenonT(30) DEF WorkerNext, ProcessStep

\* A worker that has an error has had it, with the same message, or has just used
\* up its attempts or been interrupted.
LEMMA ErrorChange ==
    ASSUME WorkerInv, WorkerNext, NEW v \in Workers, execErr'[v]
    PROVE  /\ step[v] # "idle" /\ wInflight'[v] = wInflight[v]
           /\ execErr[v] \/ Body(v) \in exhausted' \cup interrupted'
<1> DEFINE Goal == /\ step[v] # "idle" /\ wInflight'[v] = wInflight[v]
                   /\ execErr[v] \/ Body(v) \in exhausted' \cup interrupted'
<1>0. /\ execErr \in [Workers -> BOOLEAN] /\ Group!TypeOK
      /\ execErr[v] => step[v] # "idle" /\ wPhase[v] = "handle"
    BY ZenonT(30) DEF WorkerInv, WorkerTypeOK, RunTypeOK, RecordsInv, CallInv, Finishing
<1>1. ASSUME UNCHANGED execErr, execErr[v] => wInflight'[v] = wInflight[v] PROVE Goal
    BY <1>0, <1>1, ZenonT(30)
<1>2. ASSUME NEW w \in Workers, Forget(w), w # v => wInflight'[v] = wInflight[v] PROVE Goal
  <2>1. w # v /\ execErr'[v] = execErr[v]
      BY <1>0, <1>2, ZenonT(30) DEF Forget
  <2> QED
      BY <1>0, <1>2, <2>1, ZenonT(30)
<1>3. ASSUME NEW w \in Workers, HandlerFails(w) \/ Backoff(w) PROVE Goal
  <2>1. UNCHANGED wInflight /\ step[w] # "idle"
      BY <1>3, ZenonT(30) DEF HandlerFails, Backoff, wGroupVars, wLoopVars
  <2>2. \/ UNCHANGED execErr
        \/ /\ execErr' = [execErr EXCEPT ![w] = TRUE]
           /\ Body(w) \in exhausted' \cup interrupted'
      BY <1>3, ZenonT(30) DEF HandlerFails, Backoff
  <2> QED
      BY <1>0, <1>1, <2>1, <2>2, ZenonT(30)
<1>4. ASSUME NEW w \in Workers, Receive(w) \/ Commit(w) PROVE Goal
  <2>1. UNCHANGED execErr /\ wPhase[w] # "handle"
      BY <1>4, ZenonT(30) DEF Receive, Commit, runVars, Group!FetchMessage, Group!CommitMessages,
                              Group!CommitFails
  <2>2. w # v => wInflight'[v] = wInflight[v]
      BY <1>0, <1>4, ZenonT(30) DEF Receive, Commit, Group!FetchMessage, Group!CommitMessages,
                                    Group!CommitFails, Group!TypeOK
  <2> QED
      BY <1>0, <1>1, <2>1, <2>2, ZenonT(30)
<1>5. ASSUME NEW w \in Workers, Signal(w) \/ Start(w) \/ Reassign \/ Disturb PROVE Goal
  <2>1. UNCHANGED <<execErr, wInflight>>
      BY <1>5, ZenonT(30) DEF Signal, Start, Reassign, Disturb, runVars, Group!Shutdown, Group!Restart,
                              Group!Rebalance, Group!SpontaneousRebalance, Group!Assign, Group!loopVars
  <2> QED
      BY <1>1, <2>1, ZenonT(30)
<1>6. ASSUME NEW w \in Workers, Exit(w) \/ Die(w) PROVE Goal
  <2>1. Forget(w) /\ (w # v => wInflight'[v] = wInflight[v])
      BY <1>0, <1>6, ZenonT(30) DEF Exit, Die, Group!SubscribeReturnsNil, Group!SubscribeReturnsError,
                                    Group!Crash, Group!Leave, Group!TypeOK
  <2> QED
      BY <1>2, <2>1, ZenonT(30)
<1>7. ASSUME NEW w \in Workers, Group!HandlerReturnsNil(w) \/ Group!HandlerReturnsError(w), Forget(w)
      PROVE Goal
  <2>1. w # v => wInflight'[v] = wInflight[v]
      BY <1>0, <1>7, ZenonT(30) DEF Group!HandlerReturnsNil, Group!HandlerReturnsError, Group!TypeOK
  <2> QED
      BY <1>2, <1>7, <2>1, ZenonT(30)
<1>8. ASSUME UNCHANGED <<wGroupVars, execErr>> PROVE Goal
    BY <1>1, <1>8, ZenonT(30) DEF wGroupVars, wLoopVars
<1>9. ASSUME NEW w \in Workers, ProcessStep(w) PROVE Goal
    BY <1>3, <1>4, <1>6, <1>7, <1>8, <1>9, ZenonT(30)
       DEF ProcessStep, Discard, CheckStatus, NoHandlerStatus, NoHandlerDLQ, SetRunning, HandlerSucceeds,
           OnRetry, FinishStatus, FinishMeta, FinishRecord, FinishUpdate, FinishDLQ, Return, Inside
<1> QED
    BY <1>5, <1>6, <1>9, ZenonT(30) DEF WorkerNext

LEMMA InterruptedGrow == WorkerNext => interrupted \subseteq interrupted'
    BY ZenonT(30) DEF WorkerNext, ProcessStep, Receive, Discard, CheckStatus, NoHandlerStatus, NoHandlerDLQ,
           SetRunning, HandlerSucceeds, HandlerFails, OnRetry, Backoff, FinishStatus, FinishMeta,
           FinishRecord, FinishUpdate, FinishDLQ, Commit, Exit, Die, Signal, Start, Reassign,
           Disturb, Inside

\* Every step of the workers, and every step that leaves them alone, keeps ReturnedInv.
LEMMA ReturnedStep ==
    ASSUME WorkerInv, ReturnedInv, TopicKept, Grow, WorkerNext \/ UNCHANGED workerVars,
           \A p \in Partitions : /\ work[WorkerType][p] \in Seq(Bodies)
                                 /\ work'[WorkerType][p] \in Seq(Bodies)
                                 /\ Len(work[WorkerType][p]) <= Len(work'[WorkerType][p]),
           \A t \in Tasks : status'[t] # "FAILED"
    PROVE  ReturnedInv'
<1>0. wAccepted \in [Partitions -> SUBSET Nat]
    BY DEF WorkerInv, WorkerTypeOK, Group!TypeOK
<1>1. Returns /\ interrupted \subseteq interrupted'
    BY ReturnsChange, InterruptedGrow, ZenonT(30) DEF Returns, workerVars, wGroupVars
<1>2. ASSUME NEW v \in Workers, execErr'[v] PROVE Body(v)' \in exhausted' \cup interrupted'
  <2>1. /\ step[v] # "idle" /\ wInflight'[v] = wInflight[v]
        /\ execErr[v] \/ Body(v) \in exhausted' \cup interrupted'
    <3>1. CASE WorkerNext
        BY <1>2, <3>1, ErrorChange, ZenonT(30)
    <3>2. CASE UNCHANGED workerVars
        BY <1>2, <3>2, ZenonT(30) DEF workerVars, runVars, wGroupVars, wLoopVars, WorkerInv, RecordsInv,
                                      CallInv, Finishing
    <3> QED
        BY <3>1, <3>2
  <2>2. Body(v)' = Body(v)
      BY <2>1, BodyKept
  <2> QED
      BY <1>1, <2>1, <2>2 DEF ReturnedInv, Grow
<1>3. ASSUME NEW p \in Partitions, NEW o \in wAccepted'[p]
      PROVE  /\ o \in Nat /\ o < Len(work[WorkerType][p])
             /\ work[WorkerType][p][o + 1] \in Tasks => Ended(work[WorkerType][p][o + 1])
  <2>1. CASE o \in wAccepted[p]
      BY <1>0, <2>1 DEF ReturnedInv, Ended
  <2>2. CASE o \notin wAccepted[p]
    <3>1. PICK w \in Workers :
             /\ wPhase[w] = "handle"
             /\ wAccepted' = [wAccepted EXCEPT ![wInflight[w].partition] = @ \cup {wInflight[w].offset}]
             /\ Body(w) \in Tasks => Ended(Body(w))
        BY <1>1, <1>3, <2>2, ZenonT(30) DEF Returns
    <3>2. /\ wInflight[w].partition \in Partitions /\ wInflight[w].offset \in Nat
          /\ wInflight[w].offset + 1 \in 1 .. Len(work[WorkerType][wInflight[w].partition])
        BY <3>1, WorkerHolds
    <3>3. p = wInflight[w].partition /\ o = wInflight[w].offset
        BY <1>0, <1>3, <2>2, <3>1, <3>2, ZenonT(30)
    <3>4. Body(w) = work[WorkerType][p][o + 1]
        BY <3>3 DEF Body
    <3>5. o + 1 \in 1 .. Len(work[WorkerType][p]) /\ o \in Nat
        BY <3>2, <3>3, ZenonT(30)
    <3>6. o < Len(work[WorkerType][p])
        BY <3>5
    <3> QED
        BY <3>1, <3>4, <3>5, <3>6, ZenonT(30)
  <2> QED
      BY <2>1, <2>2
<1>4. ASSUME NEW p \in Partitions, NEW o \in wAccepted'[p]
      PROVE  /\ o < Len(work'[WorkerType][p])
             /\ (work[WorkerType][p][o + 1] \in Tasks => Ended(work[WorkerType][p][o + 1]))'
  <2>1. o \in Nat /\ o < Len(work[WorkerType][p]) /\ Len(work[WorkerType][p]) \in Nat
      BY <1>3, <1>4
  <2>2. o + 1 \in 1 .. Len(work[WorkerType][p]) /\ o < Len(work'[WorkerType][p])
      BY <2>1
  <2>3. work'[WorkerType][p][o + 1] = work[WorkerType][p][o + 1]
      BY <2>2, ZenonT(30) DEF TopicKept
  <2> QED
      BY <1>1, <1>3, <1>4, <2>2, <2>3, ZenonT(30) DEF Ended, Grow
<1> QED
    BY <1>2, <1>4, ZenonT(30) DEF ReturnedInv, Ended

-----------------------------------------------------------------------------
(* How much is left of a call *)

\* The calls processMessage still makes, at most, when it is at s with a being the
\* loop variable of retry.Do; the select of the backoff counts as one.
Left(s, a) ==
    CASE s = "idle" -> 0
      [] s \in {"finishDLQ", "noHandlerDLQ"} -> 1
      [] s \in {"finishUpdate", "noHandler"} -> 2
      [] s = "finishRecord" -> 3
      [] s = "finishMeta" -> 4
      [] s = "finishStatus" -> 5
      [] s = "backoff" -> 4 + 3 * (MaxAttempts - a)
      [] s = "onRetry" -> 5 + 3 * (MaxAttempts - a)
      [] s = "attempt" -> 6 + 3 * (MaxAttempts - a)
      [] s = "running" -> 4 + 3 * MaxAttempts
      [] s = "check" -> 5 + 3 * MaxAttempts

CallsLeft(w) == Left(step[w], attempt[w])

\* A step of any process leaves a call alone, or has it go on to fewer calls.
GoesOn(w) ==
    \/ step'[w] = step[w] /\ attempt'[w] = attempt[w]
    \/ step[w] = "idle"
    \/ CallsLeft(w)' < CallsLeft(w)

\* The steps of processMessage that come next, other than the two that change the
\* loop variable and the returns.
Follows == {<<"check", "running">>, <<"check", "noHandler">>, <<"noHandler", "noHandlerDLQ">>,
            <<"attempt", "finishStatus">>, <<"attempt", "onRetry">>, <<"onRetry", "backoff">>,
            <<"backoff", "finishStatus">>, <<"finishStatus", "finishMeta">>,
            <<"finishMeta", "finishRecord">>, <<"finishRecord", "finishUpdate">>,
            <<"finishUpdate", "finishDLQ">>}

Moves(w) ==
    \/ step'[w] = step[w] /\ attempt'[w] = attempt[w]
    \/ step[w] = "idle"
    \/ step'[w] = "idle" /\ attempt'[w] = 0
    \/ <<step[w], step'[w]>> \in Follows /\ attempt'[w] = attempt[w]
    \/ step[w] = "running" /\ step'[w] = "attempt" /\ attempt'[w] = 1
    \/ step[w] = "backoff" /\ step'[w] = "attempt" /\ attempt'[w] = attempt[w] + 1

\* The values of Left.
LEMMA LeftValues ==
    ASSUME NEW a
    PROVE  /\ Left("idle", a) = 0 /\ Left("finishDLQ", a) = 1 /\ Left("noHandlerDLQ", a) = 1
           /\ Left("finishUpdate", a) = 2 /\ Left("noHandler", a) = 2 /\ Left("finishRecord", a) = 3
           /\ Left("finishMeta", a) = 4 /\ Left("finishStatus", a) = 5
           /\ Left("backoff", a) = 4 + 3 * (MaxAttempts - a)
           /\ Left("onRetry", a) = 5 + 3 * (MaxAttempts - a)
           /\ Left("attempt", a) = 6 + 3 * (MaxAttempts - a)
           /\ Left("running", a) = 4 + 3 * MaxAttempts
           /\ Left("check", a) = 5 + 3 * MaxAttempts
    BY DEF Left

\* A call has something left exactly while it is not over, and at most three calls
\* for each attempt and five more.
LEMMA LeftBounds ==
    ASSUME WorkerInv, NEW w \in Workers
    PROVE  /\ CallsLeft(w) \in 0 .. 3 * MaxAttempts + 5
           /\ CallsLeft(w) = 0 <=> step[w] = "idle"
<1>1. step[w] \in Steps /\ MaxAttempts \in Nat /\ MaxAttempts >= 1
    BY RunStart, ZenonT(30) DEF RunTypeOK
<1>2. step[w] = "attempt" => attempt[w] \in 1 .. MaxAttempts
    BY RunStart, RunFacts, ZenonT(30)
<1>3. step[w] \in {"onRetry", "backoff"} => attempt[w] \in 1 .. MaxAttempts - 1
    BY RunStart, RunFacts, ZenonT(30)
<1> QED
    BY <1>1, <1>2, <1>3, LeftValues DEF CallsLeft, Steps

\* Along the steps of processMessage less and less is left.
LEMMA MovesGoOn ==
    ASSUME WorkerInv, NEW w \in Workers, Moves(w)
    PROVE  GoesOn(w)
<1> DEFINE s == step[w]
           t == step'[w]
           a == attempt[w]
           b == attempt'[w]
<1>1. MaxAttempts \in Nat /\ MaxAttempts >= 1
    BY RunStart
<1>2. CallsLeft(w)' = Left(t, b) /\ CallsLeft(w) = Left(s, a)
    BY MaxAttemptsFixed, ZenonT(30) DEF CallsLeft, Left
<1>3. (s = "attempt" => a \in 1 .. MaxAttempts) /\ (s \in {"onRetry", "backoff"} => a \in 1 .. MaxAttempts - 1)
    BY RunStart, RunFacts, ZenonT(30)
<1>4. CASE <<s, t>> \in Follows /\ b = a
  <2> HIDE DEF s, t, a, b
  <2>1. Left(t, b) < Left(s, a)
      BY <1>1, <1>3, <1>4, LeftValues DEF Follows
  <2> QED
      BY <1>2, <2>1 DEF GoesOn, s, t, a, b
<1>5. CASE s = "running" /\ t = "attempt" /\ b = 1
  <2>1. Left(t, b) < Left(s, a)
      BY <1>1, <1>5, LeftValues
  <2> QED
      BY <1>2, <2>1 DEF GoesOn
<1>6. CASE s = "backoff" /\ t = "attempt" /\ b = a + 1
  <2>1. Left(t, b) < Left(s, a)
      BY <1>1, <1>3, <1>6, LeftValues
  <2> QED
      BY <1>2, <2>1 DEF GoesOn
<1>7. CASE t = "idle" /\ s # "idle"
  <2>1. Left(t, b) < Left(s, a)
      BY <1>7, LeftValues, LeftBounds DEF CallsLeft
  <2> QED
      BY <1>2, <2>1 DEF GoesOn
<1> QED
    BY <1>4, <1>5, <1>6, <1>7, ZenonT(30) DEF Moves, GoesOn

\* The steps of a worker are those steps, and leave the calls of the others alone.
LEMMA WorkerMoves ==
    ASSUME WorkerInv, WorkerNext
    PROVE  \A v \in Workers : Moves(v)
<1>0. step \in [Workers -> Steps] /\ attempt \in [Workers -> 0 .. MaxAttempts]
    BY RunStart, ZenonT(30) DEF RunTypeOK
<1>1. ASSUME NEW w \in Workers, NEW s, step' = [step EXCEPT ![w] = s], UNCHANGED attempt,
             step[w] = "idle" \/ <<step[w], s>> \in Follows
      PROVE  \A v \in Workers : Moves(v)
    BY <1>0, <1>1, ZenonT(30) DEF Moves
<1>2. ASSUME NEW w \in Workers, Forget(w)
      PROVE  \A v \in Workers : Moves(v)
    BY <1>0, <1>2, ZenonT(30) DEF Moves, Forget, Goto
<1>3. ASSUME UNCHANGED <<step, attempt>>
      PROVE  \A v \in Workers : Moves(v)
    BY <1>3, ZenonT(30) DEF Moves
<1>4. ASSUME NEW w \in Workers, SetRunning(w)
      PROVE  \A v \in Workers : Moves(v)
    BY <1>0, <1>2, <1>4, ZenonT(30) DEF Moves, SetRunning, Goto
<1>5. ASSUME NEW w \in Workers, Backoff(w)
      PROVE  \A v \in Workers : Moves(v)
  <2>1. step[w] = "backoff"
      BY <1>5 DEF Backoff
  <2>2. CASE attempt' = [attempt EXCEPT ![w] = @ + 1] /\ Goto(w, "attempt")
      BY <1>0, <2>1, <2>2, ZenonT(30) DEF Moves, Goto
  <2>3. CASE Goto(w, "finishStatus") /\ UNCHANGED attempt
      BY <1>1, <2>1, <2>3, ZenonT(30) DEF Goto, Follows
  <2> QED
      BY <1>5, <2>2, <2>3, ZenonT(30) DEF Backoff
<1>6. ASSUME NEW w \in Workers, Receive(w)
      PROVE  \A v \in Workers : Moves(v)
  <2>1. step[w] = "idle"
      BY <1>6, RunStart, ZenonT(30) DEF RunOK, Receive, Group!FetchMessage
  <2> QED
      BY <1>1, <1>6, <2>1, ZenonT(30) DEF Receive, Goto
<1>7. ASSUME NEW w \in Workers, Discard(w) \/ NoHandlerDLQ(w) \/ FinishDLQ(w) \/ Exit(w) \/ Die(w)
      PROVE  \A v \in Workers : Moves(v)
    BY <1>2, <1>7, ZenonT(30) DEF Discard, NoHandlerDLQ, FinishDLQ, Return, Exit, Die
<1>8. ASSUME NEW w \in Workers, Commit(w) \/ Signal(w) \/ Start(w)
      PROVE  \A v \in Workers : Moves(v)
    BY <1>3, <1>8, ZenonT(30) DEF Commit, Signal, Start, runVars
<1>9. CASE Reassign \/ Disturb
    BY <1>3, <1>9, ZenonT(30) DEF Reassign, Disturb, runVars
<1>10. ASSUME NEW w \in Workers, CheckStatus(w)
       PROVE  \A v \in Workers : Moves(v)
  <2>1. \/ Return(w)
        \/ /\ \/ step' = [step EXCEPT ![w] = "running"]
              \/ step' = [step EXCEPT ![w] = "noHandler"]
           /\ UNCHANGED attempt /\ step[w] = "check"
      BY <1>10, SMTT(30) DEF CheckStatus, Goto, Inside
  <2>2. <<"check", "running">> \in Follows /\ <<"check", "noHandler">> \in Follows
      BY DEF Follows
  <2> QED
      BY <1>1, <1>2, <2>1, <2>2, ZenonT(30) DEF Return
<1>11. ASSUME NEW w \in Workers, HandlerFails(w)
       PROVE  \A v \in Workers : Moves(v)
  <2>1. /\ \/ step' = [step EXCEPT ![w] = "finishStatus"]
           \/ step' = [step EXCEPT ![w] = "onRetry"]
        /\ UNCHANGED attempt /\ step[w] = "attempt"
      BY <1>11, ZenonT(30) DEF HandlerFails, Goto
  <2> QED
      BY <1>1, <2>1, ZenonT(30) DEF Follows
<1>12. ASSUME NEW w \in Workers, HandlerSucceeds(w) \/ OnRetry(w)
       PROVE  \A v \in Workers : Moves(v)
    BY <1>1, <1>12, ZenonT(30) DEF HandlerSucceeds, OnRetry, Goto, Follows
<1>13. ASSUME NEW w \in Workers, NoHandlerStatus(w) \/ FinishStatus(w) \/ FinishMeta(w) \/ FinishRecord(w)
       PROVE  \A v \in Workers : Moves(v)
    BY <1>1, <1>13, ZenonT(30) DEF NoHandlerStatus, FinishStatus, FinishMeta, FinishRecord, Goto, Inside, Follows
<1>14. ASSUME NEW w \in Workers, FinishUpdate(w)
       PROVE  \A v \in Workers : Moves(v)
  <2>1. Return(w) \/ (Goto(w, "finishDLQ") /\ UNCHANGED attempt)
      BY <1>14, ZenonT(30) DEF FinishUpdate
  <2> QED
      BY <1>1, <1>2, <1>14, <2>1, ZenonT(30) DEF FinishUpdate, Return, Goto, Follows
<1> QED
    BY <1>4, <1>5, <1>6, <1>7, <1>8, <1>9, <1>10, <1>11, <1>12, <1>13, <1>14, ZenonT(30)
       DEF WorkerNext, ProcessStep

-----------------------------------------------------------------------------
(* The consumer group *)

WLoop == INSTANCE KafkaConsumerProofs WITH
    Consumers <- Workers, MaxOffset <- MaxLog,
    end <- [p \in Partitions |-> Len(work[WorkerType][p])],
    committed <- wCommitted, owner <- wOwner, position <- wPosition,
    phase <- wPhase, inflight <- wInflight, cancelled <- wCancelled,
    accepted <- wAccepted, rejected <- wRejected, disruptions <- wDisruptions

\* WLoop and Group are the same loop: the same invariant, the same steps.
LEMMA WLoopInv == WLoop!IInv <=> Group!IInv
    BY ZenonT(30) DEF WLoop!IInv, WLoop!TypeOK, WLoop!Phases, WLoop!Messages, WLoop!LoopInv,
           WLoop!InflightInv, WLoop!PositionInv, WLoop!CommittedInv,
           WLoop!CommittedWasHandled, WLoop!ResumesAfterSuccess, WLoop!Handled,
           WLoop!At, Group!IInv, Group!TypeOK, Group!Phases, Group!Messages,
           Group!LoopInv, Group!InflightInv, Group!PositionInv, Group!CommittedInv,
           Group!CommittedWasHandled, Group!ResumesAfterSuccess, Group!Handled,
           Group!At

LEMMA WLoopNext == [Group!Next]_(Group!vars) => [WLoop!Next]_(WLoop!vars)
    BY ZenonT(30) DEF WLoop!Next, WLoop!SubscribeStep, WLoop!Produce, WLoop!FetchMessage,
           WLoop!HandlerReturnsNil, WLoop!HandlerReturnsError, WLoop!CommitMessages,
           WLoop!CommitFails, WLoop!Shutdown, WLoop!Disrupt,
           WLoop!SubscribeReturnsNil, WLoop!SubscribeReturnsError, WLoop!Leave,
           WLoop!Crash, WLoop!Restart, WLoop!Rebalance, WLoop!SpontaneousRebalance,
           WLoop!Assign, WLoop!Running, WLoop!vars, WLoop!groupVars, WLoop!loopVars,
           WLoop!historyVars, Group!Next, Group!SubscribeStep, Group!Produce,
           Group!FetchMessage, Group!HandlerReturnsNil, Group!HandlerReturnsError,
           Group!CommitMessages, Group!CommitFails, Group!Shutdown, Group!Disrupt,
           Group!SubscribeReturnsNil, Group!SubscribeReturnsError, Group!Leave,
           Group!Crash, Group!Restart, Group!Rebalance, Group!SpontaneousRebalance,
           Group!Assign, Group!Running, Group!vars, Group!groupVars, Group!loopVars,
           Group!historyVars

LEMMA WLoopInit == Group!Init => WLoop!Init
    BY DEF WLoop!Init, Group!Init

\* What Subscribe keeps is kept in the group of the workers.
LEMMA WGroupStep == Group!IInv /\ [Group!Next]_(Group!vars) => Group!IInv'
<1>1. WLoop!IInv /\ [WLoop!Next]_(WLoop!vars) => WLoop!IInv'
    BY WLoop!InvStep, WorkerAssumption, DomainAssumption, TopicsAssumption
       DEF WLoop!ConsumerAssumption
<1> QED
    BY <1>1, WLoopInv, WLoopNext, PTL

LEMMA WGroupInit == Group!Init => Group!IInv
<1>1. WLoop!Init => WLoop!IInv
    BY WLoop!InvInit, WorkerAssumption, DomainAssumption, TopicsAssumption
       DEF WLoop!ConsumerAssumption
<1> QED
    BY <1>1, WLoopInv, WLoopInit

\* Appending to tasks.worker.<type> is a Produce of the workers' topic, when the
\* type is theirs.
LEMMA WorkGrows ==
    ASSUME TopicsTypeOK, NEW ty \in Types, NEW q \in Partitions, NEW m \in Bodies,
           Len(work[ty][q]) < MaxLog,
           work' = [work EXCEPT ![ty][q] = Append(@, m)], UNCHANGED wGroupVars
    PROVE  [Group!Next]_(Group!vars)
<1> USE DEF Group!groupVars, Group!loopVars, Group!historyVars, wGroupVars, wLoopVars
<1>1. CASE ty = WorkerType
  <2>1. work[ty] \in [Partitions -> Seq(Bodies)] /\ work[ty][q] \in Seq(Bodies)
      BY DEF TopicsTypeOK
  <2>2. Len(Append(work[ty][q], m)) = Len(work[ty][q]) + 1
      BY <2>1
  <2>3. \A p \in Partitions :
           work'[ty][p] = IF p = q THEN Append(work[ty][q], m) ELSE work[ty][p]
      BY <2>1 DEF TopicsTypeOK
  <2>4. [p \in Partitions |-> Len(work'[ty][p])]
           = [[p \in Partitions |-> Len(work[ty][p])] EXCEPT ![q] = @ + 1]
    <3> DEFINE before == [p \in Partitions |-> Len(work[ty][p])]
               after == [p \in Partitions |-> Len(work'[ty][p])]
    <3>1. \A p \in Partitions : after[p] = IF p = q THEN before[q] + 1 ELSE before[p]
      <4> TAKE p \in Partitions
      <4>1. CASE p = q
          BY <2>2, <2>3, <4>1, ZenonT(30)
      <4>2. CASE p # q
          BY <2>3, <4>2
      <4> QED
          BY <4>1, <4>2
    <3>2. before = [p \in Partitions |-> before[p]] /\ after = [p \in Partitions |-> after[p]]
        OBVIOUS
    <3> HIDE DEF before, after
    <3>3. after = [before EXCEPT ![q] = @ + 1]
        BY <3>1, <3>2
    <3> QED
        BY <3>3 DEF before, after
  <2>5. Group!Produce(q)
      BY <1>1, <2>4 DEF Group!Produce
  <2> QED
      BY <2>5 DEF Group!Next
<1>2. CASE ty # WorkerType
  <2>1. work'[WorkerType] = work[WorkerType]
      BY <1>2 DEF TopicsTypeOK
  <2> QED
      BY <2>1 DEF Group!vars
<1> QED
    BY <1>1, <1>2

\* Every step of a worker is a step of the group, or none.
LEMMA WorkerGroupSteps == WorkerNext => [Group!Next]_(Group!vars)
<1> SUFFICES ASSUME WorkerNext PROVE Group!Next \/ UNCHANGED Group!vars
    OBVIOUS
<1>0. ASSUME UNCHANGED wGroupVars PROVE UNCHANGED Group!vars
    BY <1>0, WorkUntouched
       DEF Group!vars, Group!groupVars, Group!loopVars, Group!historyVars, wGroupVars, wLoopVars
<1> USE DEF Group!Next, Group!SubscribeStep
<1>1. ASSUME NEW w \in Workers, Receive(w) \/ Discard(w) \/ NoHandlerDLQ(w) \/ FinishDLQ(w)
             \/ Commit(w) \/ Exit(w) \/ Die(w) \/ Signal(w) \/ Start(w)
      PROVE Group!Next
    BY <1>1, ZenonT(30) DEF Receive, Discard, NoHandlerDLQ, FinishDLQ, Return, Commit, Exit, Die, Signal, Start
<1>2. ASSUME NEW w \in Workers, CheckStatus(w) \/ SetRunning(w) \/ FinishUpdate(w)
      PROVE Group!Next \/ UNCHANGED wGroupVars
    BY <1>2, ZenonT(30) DEF CheckStatus, SetRunning, FinishUpdate, Return, Inside
<1>3. ASSUME NEW w \in Workers, NoHandlerStatus(w) \/ HandlerSucceeds(w) \/ HandlerFails(w)
             \/ OnRetry(w) \/ Backoff(w) \/ FinishStatus(w) \/ FinishMeta(w) \/ FinishRecord(w)
      PROVE UNCHANGED wGroupVars
    BY <1>3, ZenonT(30) DEF NoHandlerStatus, HandlerSucceeds, HandlerFails, OnRetry, Backoff, FinishStatus,
                FinishMeta, FinishRecord, Inside
<1>4. CASE Reassign \/ Disturb
    BY <1>4 DEF Reassign, Disturb
<1> QED
    BY <1>0, <1>1, <1>2, <1>3, <1>4, ZenonT(30) DEF WorkerNext, ProcessStep

\* Only a failed execution gets to the step that publishes to the dead-letter topic.
LEMMA OnlyFailuresGoThere ==
    ASSUME WorkerInv, WorkerNext, NEW w \in Workers, step[w] = "finishDLQ" => execErr[w]
    PROVE  step'[w] = "finishDLQ" => execErr'[w]
<1>0. /\ step \in [Workers -> Steps] /\ execErr \in [Workers -> BOOLEAN]
    BY ZenonT(30) DEF WorkerInv, WorkerTypeOK, RunTypeOK
<1>2. ASSUME NEW v \in Workers, Forget(v) PROVE step'[w] = "finishDLQ" => execErr'[w]
    BY <1>0, <1>2, ZenonT(30) DEF Forget, Goto
<1>3. ASSUME NEW v \in Workers, NEW s \in Steps \ {"finishDLQ"}, Goto(v, s),
             \A u \in Workers \ {v} : execErr'[u] = execErr[u]
      PROVE  step'[w] = "finishDLQ" => execErr'[w]
    BY <1>0, <1>3, ZenonT(30) DEF Goto
<1>4. CASE UNCHANGED runVars
    BY <1>4, ZenonT(30) DEF runVars
<1>5. ASSUME NEW v \in Workers, FinishUpdate(v) PROVE step'[w] = "finishDLQ" => execErr'[w]
  <2>1. CASE execErr[v] /\ Goto(v, "finishDLQ") /\ UNCHANGED execErr
      BY <1>0, <2>1, ZenonT(30) DEF Goto
  <2>2. CASE Return(v)
      BY <1>2, <2>2, ZenonT(30) DEF Return
  <2> QED
      BY <1>5, <2>1, <2>2, ZenonT(30) DEF FinishUpdate
<1>6. ASSUME NEW v \in Workers, Discard(v) \/ NoHandlerDLQ(v) \/ FinishDLQ(v) \/ Exit(v) \/ Die(v)
      PROVE  step'[w] = "finishDLQ" => execErr'[w]
    BY <1>2, <1>6, ZenonT(30) DEF Discard, NoHandlerDLQ, FinishDLQ, Return, Exit, Die
<1>7. ASSUME NEW v \in Workers, Commit(v) \/ Signal(v) \/ Start(v)
      PROVE  step'[w] = "finishDLQ" => execErr'[w]
    BY <1>4, <1>7, ZenonT(30) DEF Commit, Signal, Start
<1>8. ASSUME NEW v \in Workers, Receive(v) \/ NoHandlerStatus(v) \/ HandlerSucceeds(v) \/ OnRetry(v)
                                \/ FinishStatus(v) \/ FinishMeta(v) \/ FinishRecord(v)
      PROVE  step'[w] = "finishDLQ" => execErr'[w]
  <2>1. UNCHANGED execErr
      BY <1>8, ZenonT(30) DEF Receive, NoHandlerStatus, HandlerSucceeds, OnRetry, FinishStatus, FinishMeta,
                              FinishRecord, Inside
  <2>2. \E s \in Steps \ {"finishDLQ"} : Goto(v, s)
      BY <1>8, ZenonT(30) DEF Receive, NoHandlerStatus, HandlerSucceeds, OnRetry, FinishStatus, FinishMeta,
                              FinishRecord, Steps
  <2> QED
      BY <1>3, <2>1, <2>2, ZenonT(30)
<1>9. ASSUME NEW v \in Workers, HandlerFails(v) \/ Backoff(v)
      PROVE  step'[w] = "finishDLQ" => execErr'[w]
  <2>1. UNCHANGED execErr \/ execErr' = [execErr EXCEPT ![v] = TRUE]
      BY <1>9, ZenonT(30) DEF HandlerFails, Backoff
  <2>2. \E s \in Steps \ {"finishDLQ"} : Goto(v, s)
      BY <1>9, ZenonT(30) DEF HandlerFails, Backoff, Steps
  <2> QED
      BY <1>0, <1>3, <2>1, <2>2, ZenonT(30)
<1>10. ASSUME NEW v \in Workers, CheckStatus(v) PROVE step'[w] = "finishDLQ" => execErr'[w]
  <2> DEFINE next == IF HasHandler(v) THEN "running" ELSE "noHandler"
  <2>1. Return(v) \/ (Goto(v, next) /\ UNCHANGED execErr)
      BY <1>10, ZenonT(30) DEF CheckStatus, Inside
  <2>2. next \in Steps \ {"finishDLQ"}
      BY DEF Steps
  <2> HIDE DEF next
  <2> QED
      BY <1>2, <1>3, <2>1, <2>2, ZenonT(30) DEF Return
<1>11. ASSUME NEW v \in Workers, SetRunning(v) PROVE step'[w] = "finishDLQ" => execErr'[w]
  <2>1. Forget(v) \/ (Goto(v, "attempt") /\ UNCHANGED execErr)
      BY <1>11, ZenonT(30) DEF SetRunning
  <2> QED
      BY <1>2, <1>3, <2>1, ZenonT(30) DEF Steps
<1>12. CASE Reassign \/ Disturb
    BY <1>4, <1>12, ZenonT(30) DEF Reassign, Disturb
<1> QED
    BY <1>5, <1>6, <1>7, <1>8, <1>9, <1>10, <1>11, <1>12, ZenonT(30) DEF WorkerNext, ProcessStep

\* Without signals no context of a worker is ever done.
LEMMA WorkersStayLive ==
    ASSUME WorkerInv, WorkerNext, "signal" \notin Kinds, NEW w \in Workers, ~wCancelled[w]
    PROVE  ~wCancelled'[w]
<1>1. [Group!Next]_(Group!vars)
    BY WorkerGroupSteps
<1>2. wCancelled \in [Workers -> BOOLEAN]
    BY ZenonT(30) DEF WorkerInv, WorkerTypeOK, Group!TypeOK
<1>3. ASSUME NEW v \in Workers PROVE ~Group!Shutdown(v)
    BY ZenonT(30) DEF Group!Shutdown, Group!Disrupt
<1>4. UNCHANGED wCancelled \/ \E v \in Workers : Group!Restart(v)
    BY <1>1, <1>3, ZenonT(30)
       DEF Group!Next, Group!SubscribeStep, Group!vars, Group!loopVars, Group!Produce, Group!FetchMessage,
           Group!HandlerReturnsNil, Group!HandlerReturnsError, Group!CommitMessages,
           Group!CommitFails, Group!SubscribeReturnsNil, Group!SubscribeReturnsError, Group!Crash,
           Group!Leave, Group!Rebalance, Group!SpontaneousRebalance, Group!Assign
<1>5. ASSUME NEW v \in Workers, Group!Restart(v) PROVE ~wCancelled'[w]
    BY <1>2, <1>5, ZenonT(30) DEF Group!Restart
<1> QED
    BY <1>4, <1>5, ZenonT(30)

=============================================================================
