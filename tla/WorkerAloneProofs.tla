-------------------------- MODULE WorkerAloneProofs -------------------------
(***************************************************************************)
(* The worker group by itself.  Whatever disturbs it, what it records is   *)
(* true.  When nothing but crashes, failed fetches and rebalances disturb  *)
(* the only worker of the group, what it records also comes in the order   *)
(* of TaskLifecycle, and what is terminal stays as it is.                  *)
(***************************************************************************)
EXTENDS WorkerAlone, WorkerProofs

-----------------------------------------------------------------------------
(* The topic *)

\* A message is appended to the topic of the workers.
Appended(q, m) ==
    /\ Len(work[WorkerType][q]) < MaxLog
    /\ work' = [work EXCEPT ![WorkerType][q] = Append(@, m)]

\* What is there stays where it is.
LEMMA AppendedKeeps ==
    ASSUME TopicsTypeOK, NEW q \in Partitions, NEW m \in Bodies, Appended(q, m)
    PROVE  /\ TopicKept
           /\ \A p \in Partitions : Len(work[WorkerType][p]) <= Len(work'[WorkerType][p])
           /\ work' \in [Types -> [Partitions -> Seq(Bodies)]]
<1>1. /\ WorkerType \in Types /\ work \in [Types -> [Partitions -> Seq(Bodies)]]
      /\ \A p \in Partitions : work[WorkerType][p] \in Seq(Bodies)
    BY WorkerAssumption DEF TopicsTypeOK
<1>2. \A p \in Partitions : work'[WorkerType][p] =
          IF p = q THEN Append(work[WorkerType][q], m) ELSE work[WorkerType][p]
    BY <1>1 DEF Appended
<1>3. ASSUME NEW p \in Partitions
      PROVE /\ Len(work[WorkerType][p]) <= Len(work'[WorkerType][p])
            /\ \A i \in 1 .. Len(work[WorkerType][p]) :
                  work'[WorkerType][p][i] = work[WorkerType][p][i]
  <2>1. CASE p = q
    <3>1. work'[WorkerType][p] = Append(work[WorkerType][p], m) /\ work[WorkerType][p] \in Seq(Bodies)
        BY <1>1, <1>2, <2>1, ZenonT(30)
    <3> QED
        BY <3>1
  <2>2. CASE p # q
    <3>1. work'[WorkerType][p] = work[WorkerType][p] /\ work[WorkerType][p] \in Seq(Bodies)
        BY <1>1, <1>2, <2>2
    <3> QED
        BY <3>1
  <2> QED
      BY <2>1, <2>2
<1>4. Append(work[WorkerType][q], m) \in Seq(Bodies)
    BY <1>1
<1>5. work' \in [Types -> [Partitions -> Seq(Bodies)]]
    BY <1>1, <1>4 DEF Appended
<1> QED
    BY <1>3, <1>5 DEF TopicKept

\* Route appends the task, and writes nothing but perhaps QUEUED.
LEMMA RouteChange ==
    ASSUME WorkerInv, NEW t \in Tasks, Route(t)
    PROVE  /\ PartitionOf[t] \in Partitions /\ t \in Bodies
           /\ Appended(PartitionOf[t], t)
           /\ status' = status \/ (~InTopic(t) /\ status' = [status EXCEPT ![t] = "QUEUED"])
           /\ UNCHANGED <<meta, repoVars, pending, dlq, faults, workerVars>>
<1>1. PartitionOf[t] \in Partitions /\ t \in Bodies
    BY DomainAssumption DEF Bodies
<1>2. Appended(PartitionOf[t], t) /\ UNCHANGED faults
    BY DEF Route, PublishWork, Publish, Succeeds, Appended
<1> QED
    BY <1>1, <1>2 DEF Route

LEMMA RouteMalformedChange ==
    ASSUME NEW p \in Partitions, RouteMalformed(p)
    PROVE  /\ Malformed \in Bodies /\ Appended(p, Malformed)
           /\ UNCHANGED <<storeVars, repoVars, pending, dlq, faults, workerVars>>
    BY DEF RouteMalformed, Appended, Bodies

\* What is in the topic stays there.
LEMMA AloneTopicKept ==
    ASSUME WorkerInv, [Next]_vars
    PROVE  /\ TopicKept
           /\ \A p \in Partitions : /\ Len(work[WorkerType][p]) \in Nat
                                    /\ Len(work[WorkerType][p]) <= Len(work'[WorkerType][p])
<1>0. TopicsTypeOK
    BY DEF WorkerInv, WorkerTypeOK, BackendsTypeOK
<1>1. \A p \in Partitions : Len(work[WorkerType][p]) \in Nat
    BY <1>0, WorkerAssumption DEF TopicsTypeOK
<1>2. CASE UNCHANGED work
    BY <1>1, <1>2 DEF TopicKept
<1>3. ASSUME NEW t \in Tasks, Route(t)
      PROVE TopicKept /\ \A p \in Partitions : Len(work[WorkerType][p]) <= Len(work'[WorkerType][p])
    BY <1>0, <1>3, RouteChange, AppendedKeeps
<1>4. ASSUME NEW q \in Partitions, RouteMalformed(q)
      PROVE TopicKept /\ \A p \in Partitions : Len(work[WorkerType][p]) <= Len(work'[WorkerType][p])
    BY <1>0, <1>4, RouteMalformedChange, AppendedKeeps
<1> QED
    BY <1>1, <1>2, <1>3, <1>4, WorkUntouched DEF Next, Expiry, vars, backendVars, topicVars

-----------------------------------------------------------------------------
(* What holds whatever disturbs the workers *)

\* Every step is a step of the group, or none.
LEMMA AloneGroupSteps == WorkerInv /\ [Next]_vars => [Group!Next]_(Group!vars)
<1> SUFFICES ASSUME WorkerInv, [Next]_vars PROVE [Group!Next]_(Group!vars)
    OBVIOUS
<1>0. TopicsTypeOK /\ WorkerType \in Types
    BY WorkerAssumption DEF WorkerInv, WorkerTypeOK, BackendsTypeOK
<1>1. CASE WorkerNext
    BY <1>1, WorkerGroupSteps
<1>2. ASSUME NEW q \in Partitions, NEW m \in Bodies, Appended(q, m), UNCHANGED workerVars
      PROVE [Group!Next]_(Group!vars)
    BY <1>0, <1>2, WorkGrows, ZenonT(30) DEF Appended, workerVars
<1>3. ASSUME NEW t \in Tasks, Route(t) PROVE [Group!Next]_(Group!vars)
    BY <1>2, <1>3, RouteChange
<1>4. ASSUME NEW p \in Partitions, RouteMalformed(p) PROVE [Group!Next]_(Group!vars)
    BY <1>2, <1>4, RouteMalformedChange
<1>5. CASE UNCHANGED vars \/ (Expiry /\ UNCHANGED workerVars)
  <2>1. UNCHANGED <<work, wGroupVars>>
      BY <1>5 DEF Expiry, vars, backendVars, topicVars, workerVars
  <2> QED
      BY <2>1 DEF Group!vars, Group!groupVars, Group!loopVars, Group!historyVars, wGroupVars, wLoopVars
<1> QED
    BY <1>1, <1>3, <1>4, <1>5 DEF Next

\* Every step keeps the types, given that it keeps those of the group.
LEMMA AloneTypes == WorkerInv /\ [Next]_vars /\ Group!TypeOK' => WorkerTypeOK'
<1> SUFFICES ASSUME WorkerInv, [Next]_vars, Group!TypeOK' PROVE WorkerTypeOK'
    OBVIOUS
<1>0. /\ BackendsTypeOK /\ RunTypeOK /\ StoreTypeOK /\ RepoTypeOK /\ TopicsTypeOK
      /\ faults \in 0 .. MaxFaults
    BY DEF WorkerInv, WorkerTypeOK, BackendsTypeOK
<1>1. ASSUME UNCHANGED workerVars PROVE RunTypeOK'
    BY <1>0, <1>1 DEF RunTypeOK, workerVars, runVars
<1>2. CASE WorkerNext
    BY <1>2, WorkerStepType, RunStepType DEF WorkerTypeOK
<1>3. ASSUME NEW q \in Partitions, NEW m \in Bodies, Appended(q, m), StoreTypeOK',
             UNCHANGED <<repoVars, pending, dlq, faults, workerVars>>
      PROVE WorkerTypeOK'
  <2>1. RepoTypeOK'
      BY <1>0, <1>3 DEF RepoTypeOK, repoVars
  <2>2. work' \in [Types -> [Partitions -> Seq(Bodies)]]
      BY <1>0, <1>3, AppendedKeeps
  <2>3. TopicsTypeOK'
      BY <1>0, <1>3, <2>2 DEF TopicsTypeOK
  <2> QED
      BY <1>0, <1>1, <1>3, <2>1, <2>3 DEF WorkerTypeOK, BackendsTypeOK
<1>4. ASSUME NEW t \in Tasks, Route(t) PROVE WorkerTypeOK'
  <2>1. status' = status \/ status' = [status EXCEPT ![t] = "QUEUED"]
      BY <1>4, RouteChange
  <2>2. UNCHANGED meta
      BY <1>4, RouteChange
  <2>3. StoreTypeOK'
      BY <1>0, <2>1, <2>2 DEF StoreTypeOK, Statuses
  <2> QED
      BY <1>3, <1>4, <2>3, RouteChange
<1>5. ASSUME NEW p \in Partitions, RouteMalformed(p) PROVE WorkerTypeOK'
  <2>1. StoreTypeOK'
      BY <1>0, <1>5, RouteMalformedChange DEF StoreTypeOK, storeVars
  <2> QED
      BY <1>3, <1>5, <2>1, RouteMalformedChange
<1>6. CASE UNCHANGED vars
  <2>1. BackendsTypeOK'
      BY <1>0, <1>6, NoCallType DEF vars, backendVars
  <2> QED
      BY <1>1, <1>6, <2>1 DEF WorkerTypeOK, vars
<1>7. CASE Expiry /\ UNCHANGED workerVars
    BY <1>0, <1>1, <1>7, ExpiryChange DEF WorkerTypeOK
<1> QED
    BY <1>2, <1>4, <1>5, <1>6, <1>7 DEF Next

\* Every step keeps the records true.
LEMMA AloneRecords == WorkerInv /\ [Next]_vars => RecordsInv'
<1> SUFFICES ASSUME WorkerInv, [Next]_vars PROVE RecordsInv'
    OBVIOUS
<1>0. StatusTrue /\ MetaTrue /\ RowTrue /\ ExecutionsTrue
    BY RecordsSplit DEF WorkerInv
<1>1. RecordsInv' <=> (/\ \A w \in Workers : RunOK(w)
                       /\ StatusTrue /\ MetaTrue /\ RowTrue /\ ExecutionsTrue)'
    BY RecordsSplit, PTL
<1>2. CASE WorkerNext
    BY <1>1, <1>2, WorkerRunStep, WorkerWritesTruth
<1>3. ASSUME UNCHANGED <<meta, repoVars, workerVars>>, Grow => StatusTrue' PROVE RecordsInv'
  <2>1. Grow /\ \A w \in Workers : RunOK(w)'
      BY <1>3, AloneTopicKept, IdleRunStep
  <2>2. MetaTrue' /\ RowTrue' /\ ExecutionsTrue'
      BY <1>0, <1>3, <2>1, MetaKept, RowKept, ExecutionsKept DEF repoVars
  <2> QED
      BY <1>1, <1>3, <2>1, <2>2
<1>4. ASSUME NEW t \in Tasks, Route(t) PROVE RecordsInv'
  <2>1. UNCHANGED <<meta, repoVars, workerVars>>
      BY <1>4, RouteChange
  <2>2. ASSUME Grow PROVE StatusTrue'
    <3>1. CASE UNCHANGED status
        BY <1>0, <2>2, <3>1, StatusKept
    <3>2. CASE status' = [status EXCEPT ![t] = "QUEUED"]
      <4>1. status \in [Tasks -> Statuses \cup {NotFound}]
          BY DEF WorkerInv, WorkerTypeOK, BackendsTypeOK, StoreTypeOK
      <4>2. \A u \in Tasks : status'[u] = IF u = t THEN "QUEUED" ELSE status[u]
          BY <3>2, <4>1
      <4> QED
          BY <1>0, <2>2, <4>2 DEF StatusTrue, Earned, Grow
    <3> QED
        BY <1>4, <3>1, <3>2, RouteChange
  <2> QED
      BY <1>3, <2>1, <2>2
<1>5. CASE UNCHANGED <<storeVars, repoVars, workerVars>>
    BY <1>0, <1>3, <1>5, StatusKept DEF storeVars
<1>6. CASE Expiry /\ UNCHANGED workerVars
  <2>1. BackendsTypeOK
      BY DEF WorkerInv, WorkerTypeOK
  <2>2. Grow /\ \A w \in Workers : RunOK(w)'
      BY <1>6, AloneTopicKept, IdleRunStep
  <2> QED
      BY <1>0, <1>1, <1>6, <2>1, <2>2, ExpiryTrue
<1> QED
    BY <1>2, <1>4, <1>5, <1>6, RouteMalformedChange DEF Next, vars, backendVars

\* Nothing has been handed to a worker, and no handler has been called.
LEMMA AloneInit == Init => WorkerInv
<1> SUFFICES ASSUME Init PROVE WorkerInv
    OBVIOUS
<1>1. Group!IInv
    BY WGroupInit DEF Init, WorkerInit
<1>2. \A t \in Tasks : /\ status[t] \in {NotFound, "PENDING"}
                       /\ meta[t] \in {NotFound, NewTask}
                       /\ row[t] \in {NotFound, NewTask}
    BY DEF Init
<1>3. BackendsTypeOK
  <2>1. status \in [Tasks -> Statuses \cup {NotFound}]
      BY DEF Init, Statuses
  <2>2. /\ meta \in [Tasks -> TaskData \cup {NotFound}]
        /\ row \in [Tasks -> TaskData \cup {NotFound}]
      BY NewTaskType DEF Init
  <2>3. /\ executions \in [Tasks -> Seq(Executions)]
        /\ TopicsTypeOK /\ faults \in 0 .. MaxFaults
      BY CallsAssumption DEF Init, TopicsTypeOK
  <2> QED
      BY <2>1, <2>2, <2>3 DEF BackendsTypeOK, StoreTypeOK, RepoTypeOK
<1>4. RunTypeOK
    BY MaxAttemptsType DEF Init, WorkerInit, RunTypeOK, Steps
<1>5. CallInv /\ RetryInv /\ OutcomeInv
    BY DEF Init, WorkerInit, CallInv, RetryInv, OutcomeInv, Finishing
<1>6. StatusTrue /\ MetaTrue /\ RowTrue /\ ExecutionsTrue
  <2>1. NewTask.status = "PENDING" /\ NotFound \notin {"DONE", "DEAD"}
      BY DomainAssumption DEF NewTask, Statuses
  <2>2. \A t \in Tasks : executions[t] = << >>
      BY DEF Init
  <2> QED
      BY <1>2, <2>1, <2>2 DEF StatusTrue, MetaTrue, RowTrue, ExecutionsTrue
<1> QED
    BY <1>1, <1>3, <1>4, <1>5, <1>6, RecordSplit DEF WorkerInv, WorkerTypeOK, RecordsInv, Group!IInv

LEMMA AloneStep == WorkerInv /\ [Next]_vars => WorkerInv'
<1> SUFFICES ASSUME WorkerInv, [Next]_vars PROVE WorkerInv'
    OBVIOUS
<1>1. Group!IInv'
    BY AloneGroupSteps, WGroupStep DEF WorkerInv
<1>2. WorkerTypeOK'
    BY <1>1, AloneTypes DEF Group!IInv
<1> QED
    BY <1>1, <1>2, AloneRecords DEF WorkerInv

\* With any number of workers, faults, signals, crashes and rebalances, no store
\* says DONE of a task no handler has executed, or DEAD of one that has a handler
\* and an attempt left, and the attempts on record are calls of the handler.
THEOREM WorkerInvariance == Spec => []WorkerInv
    BY AloneInit, AloneStep, PTL DEF Spec

-----------------------------------------------------------------------------
(* The calls of a worker that nothing disturbs *)

\* ProgressInv for one worker.
Progress(w) ==
    /\ step[w] \in {"running", "noHandler", "attempt", "onRetry", "backoff", "finishStatus"} =>
          ~IsTerminal(status[Body(w)])
    /\ step[w] = "noHandlerDLQ" => IsTerminal(status[Body(w)])
    /\ step[w] \in {"finishMeta", "finishRecord", "finishUpdate", "finishDLQ"} =>
          status[Body(w)] = FinalStatus(w)
    /\ step[w] \in {"finishRecord", "finishUpdate"} =>
          meta[Body(w)] # NotFound /\ meta[Body(w)].status = FinalStatus(w)

\* The statuses that route and processMessage write.
Reported == {"QUEUED", "RUNNING", "RETRYING", "DONE", "DEAD"}

\* What a step may do to the records: nothing, or one of the writes of TaskLifecycle.
Writes ==
    \/ UNCHANGED <<status, meta, row>>
    \/ \E t \in Tasks, s \in Reported :
          /\ ~IsTerminal(status[t]) /\ InTopic(t)
          /\ status' = [status EXCEPT ![t] = s]
          /\ UNCHANGED <<meta, row>>
    \/ \E t \in Tasks, s \in {"DONE", "DEAD"}, n \in 1 .. MaxAttempts :
          /\ status[t] = s
          /\ meta' = [meta EXCEPT ![t] = [status |-> s, attempts |-> n, completed |-> s = "DONE"]]
          /\ UNCHANGED <<status, row>>
    \/ \E t \in Tasks, s \in {"DONE", "DEAD"} :
          /\ meta[t] # NotFound /\ meta[t].status = s
          /\ row' = [row EXCEPT ![t] = UpdatedRow(@, s)]
          /\ UNCHANGED <<status, meta>>

\* processMessage does not return, or it does for a task that is terminal.
ReturnsTerminal(w) ==
    \/ UNCHANGED wAccepted
    \/ /\ wPhase[w] = "handle"
       /\ wAccepted' = [wAccepted EXCEPT ![wInflight[w].partition] = @ \cup {wInflight[w].offset}]
       /\ Body(w) \in Tasks => IsTerminal(status[Body(w)])

\* Only a call of the handler counts an attempt.
CountsCalls(w) == attempts'[w] \in {attempts[w], 0} \/ step[w] = "attempt"

Effect(w) == Writes /\ Progress(w)' /\ ReturnsTerminal(w) /\ CountsCalls(w)

LEMMA ProgressSplit == ProgressInv <=> \A w \in Workers : Progress(w)
    BY ZenonT(30) DEF ProgressInv, Progress

\* What a step of an undisturbed worker starts from.
LEMMA SoloStart ==
    ASSUME Undisturbed, SoloInv, NEW w \in Workers
    PROVE  /\ WorkerInv /\ Progress(w) /\ Live(w) /\ RunOK(w) /\ Workers = {w}
           /\ MaxFaults = 0 /\ faults = 0
           /\ step \in [Workers -> Steps] /\ attempts \in [Workers -> 0 .. MaxAttempts]
           /\ execErr \in [Workers -> BOOLEAN]
           /\ status \in [Tasks -> Statuses \cup {NotFound}]
           /\ meta \in [Tasks -> TaskData \cup {NotFound}]
<1>1. WorkerInv /\ Live(w) /\ MaxFaults = 0
    BY DEF SoloInv, Undisturbed, Live
<1>2. Progress(w)
    BY ProgressSplit DEF SoloInv
<1>3. RunOK(w)
    BY <1>1, RunStart
<1>4. Workers = {w}
    BY DEF Undisturbed
<1>5. faults = 0
    BY <1>1 DEF WorkerInv, WorkerTypeOK, BackendsTypeOK
<1>6. /\ status \in [Tasks -> Statuses \cup {NotFound}]
      /\ meta \in [Tasks -> TaskData \cup {NotFound}]
    BY <1>1 DEF WorkerInv, WorkerTypeOK, BackendsTypeOK, StoreTypeOK
<1>7. /\ step \in [Workers -> Steps] /\ attempts \in [Workers -> 0 .. MaxAttempts]
      /\ execErr \in [Workers -> BOOLEAN]
    BY <1>1 DEF WorkerInv, WorkerTypeOK, RunTypeOK
<1> QED
    BY <1>1, <1>2, <1>3, <1>4, <1>5, <1>6, <1>7

\* The message in the hands of a worker is in the topic.
LEMMA BodyInTopic ==
    ASSUME WorkerInv, NEW w \in Workers, wPhase[w] = "handle"
    PROVE  InTopic(Body(w))
<1>1. wInflight[w].partition \in Partitions
    BY WorkerHolds
<1>2. work[WorkerType][wInflight[w].partition] \in Seq(Bodies)
    BY <1>1, WorkerAssumption DEF WorkerInv, WorkerTypeOK, BackendsTypeOK, TopicsTypeOK
<1>3. DOMAIN work[WorkerType][wInflight[w].partition] = 1 .. Len(work[WorkerType][wInflight[w].partition])
    BY <1>2
<1>4. wInflight[w].offset + 1 \in DOMAIN work[WorkerType][wInflight[w].partition]
    BY <1>3, WorkerHolds
<1> QED
    BY <1>1, <1>4, ZenonT(30) DEF InTopic, Body

\* A live call to a store that does not fail.
LEMMA NoFailure == MaxFaults = 0 /\ faults = 0 => ~Fails(TRUE)
    BY DEF Fails

\* What is not written keeps its progress.
LEMMA ProgressKept ==
    ASSUME WorkerInv, TopicKept, NEW w \in Workers, Progress(w),
           step'[w] = step[w], execErr'[w] = execErr[w],
           step[w] # "idle" => wInflight'[w] = wInflight[w],
           step[w] \notin {"idle", "check"} =>
              status'[Body(w)] = status[Body(w)] /\ meta'[Body(w)] = meta[Body(w)]
    PROVE  Progress(w)'
<1>1. CASE step[w] \in {"idle", "check"}
    BY <1>1 DEF Progress
<1>2. CASE step[w] \notin {"idle", "check"}
  <2>1. Body(w)' = Body(w)
      BY <1>2, BodyKept
  <2>2. FinalStatus(w)' = FinalStatus(w)
      BY DEF FinalStatus
  <2>3. status[Body(w)]' = status[Body(w)] /\ meta[Body(w)]' = meta[Body(w)]
      BY <1>2, <2>1
  <2> QED
      BY <2>2, <2>3, ZenonT(30) DEF Progress
<1> QED
    BY <1>1, <1>2

-----------------------------------------------------------------------------
(* The steps of a worker that nothing disturbs *)

\* processMessage ends, or its process does.
LEMMA EndEffect ==
    ASSUME Undisturbed, SoloInv, NEW w \in Workers, Writes, Forget(w), ReturnsTerminal(w)
    PROVE  Effect(w)
<1>1. step'[w] = "idle" /\ attempts'[w] = 0
    BY SoloStart, ZenonT(30) DEF Forget, Goto
<1>2. Progress(w)'
    BY <1>1, ZenonT(30) DEF Progress
<1> QED
    BY <1>1, <1>2, ZenonT(30) DEF Effect, CountsCalls

LEMMA ReturnEffect ==
    ASSUME Undisturbed, SoloInv, NEW w \in Workers, Writes, Return(w),
           Body(w) \in Tasks => IsTerminal(status[Body(w)])
    PROVE  Effect(w)
    BY EndEffect, ZenonT(30) DEF Return, ReturnsTerminal, Group!HandlerReturnsNil

\* The call is left as it is.
LEMMA IdleEffect ==
    ASSUME Undisturbed, SoloInv, TopicKept, NEW w \in Workers, UNCHANGED <<status, meta, row>>,
           UNCHANGED <<runVars, wAccepted>>, step[w] # "idle" => wInflight'[w] = wInflight[w]
    PROVE  Effect(w)
<1>1. step'[w] = step[w] /\ execErr'[w] = execErr[w] /\ attempts'[w] = attempts[w]
    BY ZenonT(30) DEF runVars
<1>2. Progress(w)'
    BY <1>1, SoloStart, ProgressKept, ZenonT(30)
<1> QED
    BY <1>1, <1>2, ZenonT(30) DEF Effect, Writes, ReturnsTerminal, CountsCalls

\* The call goes on to its next step.
LEMMA GoesOnEffect ==
    ASSUME Undisturbed, SoloInv, TopicKept, NEW w \in Workers, NEW s, step[w] # "idle",
           Goto(w, s), UNCHANGED wGroupVars, CountsCalls(w), Writes,
           Body(w)' = Body(w) /\ step'[w] = s => Progress(w)'
    PROVE  Effect(w)
<1>1. step'[w] = s
    BY SoloStart, ZenonT(30) DEF Goto
<1>2. UNCHANGED <<wInflight, wAccepted>>
    BY ZenonT(30) DEF wGroupVars, wLoopVars
<1>3. Body(w)' = Body(w)
    BY <1>2, SoloStart, BodyKept, ZenonT(30)
<1> QED
    BY <1>1, <1>2, <1>3, ZenonT(30) DEF Effect, ReturnsTerminal

\* Subscribe hands over a message.
LEMMA ReceiveEffect ==
    ASSUME Undisturbed, SoloInv, NEW w \in Workers, Receive(w)
    PROVE  Effect(w)
<1>1. step'[w] = "check" /\ attempts' = attempts /\ UNCHANGED <<status, meta, row, wAccepted>>
    BY SoloStart, ZenonT(30) DEF Receive, Goto, backendVars, storeVars, repoVars, Group!FetchMessage,
                                 Group!historyVars
<1>2. Progress(w)'
    BY <1>1, ZenonT(30) DEF Progress
<1> QED
    BY <1>1, <1>2, ZenonT(30) DEF Effect, Writes, ReturnsTerminal, CountsCalls

\* The status the check reads is the one in Redis.
LEMMA CheckStatusEffect ==
    ASSUME Undisturbed, SoloInv, TopicKept, NEW w \in Workers, CheckStatus(w)
    PROVE  Effect(w)
<1>1. UNCHANGED <<status, meta, row>> /\ step[w] = "check"
    BY ZenonT(30) DEF CheckStatus, storeVars, repoVars
<1>2. PICK s \in Statuses \cup {NotFound, Failed} :
          /\ GetStatus(Live(w), Body(w), s)
          /\ \/ IsTerminal(s) /\ Return(w)
             \/ /\ ~IsTerminal(s)
                /\ Goto(w, IF HasHandler(w) THEN "running" ELSE "noHandler")
                /\ Inside
    BY ZenonT(30) DEF CheckStatus
<1>3. s = status[Body(w)]
    BY <1>2, SoloStart, NoFailure, ZenonT(30) DEF GetStatus
<1>4. Writes
    BY <1>1, ZenonT(30) DEF Writes
<1>5. CASE IsTerminal(s) /\ Return(w)
    BY <1>3, <1>4, <1>5, ReturnEffect, ZenonT(30)
<1>6. CASE /\ ~IsTerminal(s)
           /\ Goto(w, IF HasHandler(w) THEN "running" ELSE "noHandler")
           /\ Inside
  <2> DEFINE r == IF HasHandler(w) THEN "running" ELSE "noHandler"
  <2>1. r \in {"running", "noHandler"}
      OBVIOUS
  <2>2. ASSUME Body(w)' = Body(w), step'[w] = r PROVE Progress(w)'
    <3>1. status[Body(w)]' = s
        BY <1>1, <1>3, <2>2, ZenonT(30)
    <3> QED
        BY <1>6, <2>1, <2>2, <3>1 DEF Progress
  <2>3. CountsCalls(w) /\ UNCHANGED wGroupVars /\ step[w] # "idle" /\ Goto(w, r)
      BY <1>1, <1>6 DEF Inside, CountsCalls
  <2> QED
      BY <1>4, <2>2, <2>3, GoesOnEffect, ZenonT(30)
<1> QED
    BY <1>2, <1>5, <1>6, ZenonT(30)

\* A write of the status of a task that is not terminal, in the middle of the call.
LEMMA SetStatusEffect ==
    ASSUME Undisturbed, SoloInv, TopicKept, NEW w \in Workers, NEW s \in Reported, NEW ok \in BOOLEAN,
           NEW n, step[w] # "idle", Body(w) \in Tasks, ~IsTerminal(status[Body(w)]),
           SetStatus(Live(w), Body(w), s, ok), UNCHANGED <<meta, row>>,
           Goto(w, n), UNCHANGED <<wGroupVars, execErr>>, CountsCalls(w),
           \/ n \in {"attempt", "backoff"} /\ ~IsTerminal(s)
           \/ n = "noHandlerDLQ" /\ IsTerminal(s)
           \/ n = "finishMeta" /\ s = FinalStatus(w)
    PROVE  Effect(w) /\ ok
<1>1. ok /\ status' = [status EXCEPT ![Body(w)] = s]
    BY SoloStart, NoFailure, ZenonT(30) DEF SetStatus
<1>2. status'[Body(w)] = s
    BY <1>1, SoloStart, ZenonT(30)
<1>3. InTopic(Body(w))
    BY SoloStart, BodyInTopic, ZenonT(30) DEF RunOK
<1>4. Writes
    BY <1>1, <1>3, ZenonT(30) DEF Writes
<1>5. ASSUME Body(w)' = Body(w), step'[w] = n PROVE Progress(w)'
  <2>1. status[Body(w)]' = s
      BY <1>2, <1>5, ZenonT(30)
  <2>2. FinalStatus(w)' = FinalStatus(w)
      BY ZenonT(30) DEF FinalStatus
  <2> QED
      BY <1>5, <2>1, <2>2 DEF Progress
<1> QED
    BY <1>1, <1>4, <1>5, GoesOnEffect, ZenonT(30)

\* The three writes before the result.
LEMMA NoHandlerStatusEffect ==
    ASSUME Undisturbed, SoloInv, TopicKept, NEW w \in Workers, NoHandlerStatus(w)
    PROVE  Effect(w)
<1>1. /\ step[w] = "noHandler" /\ Goto(w, "noHandlerDLQ") /\ UNCHANGED <<wGroupVars, execErr>>
      /\ UNCHANGED <<meta, row, attempts>>
    BY ZenonT(30) DEF NoHandlerStatus, Inside, repoVars
<1>2. PICK ok \in BOOLEAN : SetStatus(Live(w), Body(w), "DEAD", ok)
    BY ZenonT(30) DEF NoHandlerStatus
<1>3. Body(w) \in Tasks /\ ~IsTerminal(status[Body(w)])
    BY <1>1, SoloStart, ZenonT(30) DEF RunOK, Progress
<1>4. CountsCalls(w)
    BY <1>1, ZenonT(30) DEF CountsCalls
<1>5. "DEAD" \in Reported /\ IsTerminal("DEAD")
    BY ZenonT(30) DEF Reported, IsTerminal
<1> QED
    BY <1>1, <1>2, <1>3, <1>4, <1>5, SetStatusEffect, ZenonT(30)

LEMMA SetRunningEffect ==
    ASSUME Undisturbed, SoloInv, TopicKept, NEW w \in Workers, SetRunning(w)
    PROVE  Effect(w)
<1>1. step[w] = "running" /\ UNCHANGED <<meta, row>>
    BY ZenonT(30) DEF SetRunning, repoVars
<1>2. Body(w) \in Tasks /\ ~IsTerminal(status[Body(w)])
    BY <1>1, SoloStart, ZenonT(30) DEF RunOK, Progress
<1>3. ~SetStatus(Live(w), Body(w), "RUNNING", FALSE)
    BY SoloStart, NoFailure, ZenonT(30) DEF SetStatus
<1>4. /\ SetStatus(Live(w), Body(w), "RUNNING", TRUE) /\ Goto(w, "attempt")
      /\ UNCHANGED <<wGroupVars, attempts, execErr>>
    BY <1>3, ZenonT(30) DEF SetRunning
<1>5. CountsCalls(w)
    BY <1>4, ZenonT(30) DEF CountsCalls
<1>6. "RUNNING" \in Reported /\ ~IsTerminal("RUNNING")
    BY DEF Reported, IsTerminal
<1> QED
    BY <1>1, <1>2, <1>4, <1>5, <1>6, SetStatusEffect, ZenonT(30)

LEMMA OnRetryEffect ==
    ASSUME Undisturbed, SoloInv, TopicKept, NEW w \in Workers, OnRetry(w)
    PROVE  Effect(w)
<1>1. /\ step[w] = "onRetry" /\ Goto(w, "backoff") /\ UNCHANGED <<wGroupVars, execErr>>
      /\ UNCHANGED <<meta, row>> /\ attempts' = [attempts EXCEPT ![w] = attempt[w]]
    BY ZenonT(30) DEF OnRetry, repoVars
<1>2. PICK ok \in BOOLEAN : SetStatus(Live(w), Body(w), "RETRYING", ok)
    BY ZenonT(30) DEF OnRetry
<1>3. Body(w) \in Tasks /\ ~IsTerminal(status[Body(w)])
    BY <1>1, SoloStart, ZenonT(30) DEF RunOK, Progress
<1>4. CountsCalls(w)
  <2>1. attempts[w] = attempt[w]
      BY <1>1, SoloStart, RunFacts, ZenonT(30)
  <2> QED
      BY <1>1, <2>1, SoloStart, ZenonT(30) DEF CountsCalls
<1>5. "RETRYING" \in Reported /\ ~IsTerminal("RETRYING")
    BY DEF Reported, IsTerminal
<1> QED
    BY <1>1, <1>2, <1>3, <1>4, <1>5, SetStatusEffect, ZenonT(30)

\* The handler returns, and the task is still not terminal.
LEMMA HandlerEffect ==
    ASSUME Undisturbed, SoloInv, TopicKept, NEW w \in Workers,
           HandlerSucceeds(w) \/ HandlerFails(w) \/ Backoff(w)
    PROVE  Effect(w)
<1>1. UNCHANGED <<status, meta, row, wGroupVars>> /\ step[w] \in {"attempt", "backoff"}
    BY ZenonT(30) DEF HandlerSucceeds, HandlerFails, Backoff, backendVars, storeVars, repoVars
<1>2. PICK s \in {"finishStatus", "onRetry", "attempt"} : Goto(w, s)
    BY ZenonT(30) DEF HandlerSucceeds, HandlerFails, Backoff
<1>3. CountsCalls(w)
    BY ZenonT(30) DEF HandlerSucceeds, HandlerFails, Backoff, CountsCalls
<1>4. ~IsTerminal(status[Body(w)])
    BY <1>1, SoloStart, ZenonT(30) DEF Progress
<1>5. ASSUME Body(w)' = Body(w), step'[w] = s PROVE Progress(w)'
  <2>1. ~IsTerminal(status[Body(w)]')
      BY <1>1, <1>4, <1>5, ZenonT(30) DEF IsTerminal
  <2> QED
      BY <1>2, <1>5, <2>1, ZenonT(30) DEF Progress
<1>6. Writes /\ step[w] # "idle"
    BY <1>1, ZenonT(30) DEF Writes
<1> QED
    BY <1>1, <1>2, <1>3, <1>5, <1>6, GoesOnEffect, ZenonT(30)

\* The result: first the status ...
LEMMA FinishStatusEffect ==
    ASSUME Undisturbed, SoloInv, TopicKept, NEW w \in Workers, FinishStatus(w)
    PROVE  Effect(w)
<1>1. /\ step[w] = "finishStatus" /\ Goto(w, "finishMeta") /\ UNCHANGED <<wGroupVars, execErr>>
      /\ UNCHANGED <<meta, row, attempts>>
    BY ZenonT(30) DEF FinishStatus, Inside, repoVars
<1>2. PICK ok \in BOOLEAN : SetStatus(Live(w), Body(w), FinalStatus(w), ok)
    BY ZenonT(30) DEF FinishStatus
<1>3. Body(w) \in Tasks /\ ~IsTerminal(status[Body(w)])
    BY <1>1, SoloStart, ZenonT(30) DEF RunOK, Progress
<1>4. CountsCalls(w)
    BY <1>1, ZenonT(30) DEF CountsCalls
<1>5. FinalStatus(w) \in Reported
    BY DEF FinalStatus, Reported
<1> QED
    BY <1>1, <1>2, <1>3, <1>4, <1>5, SetStatusEffect, ZenonT(30)

\* ... then the metadata ...
LEMMA FinishMetaEffect ==
    ASSUME Undisturbed, SoloInv, TopicKept, NEW w \in Workers, FinishMeta(w)
    PROVE  Effect(w)
<1> DEFINE m == [status |-> FinalStatus(w), attempts |-> attempts[w], completed |-> ~execErr[w]]
<1>1. /\ step[w] = "finishMeta" /\ Goto(w, "finishRecord") /\ UNCHANGED <<wGroupVars, execErr>>
      /\ UNCHANGED <<status, row, attempts>>
    BY ZenonT(30) DEF FinishMeta, Inside, repoVars
<1>2. Body(w) \in Tasks /\ status[Body(w)] = FinalStatus(w)
    BY <1>1, SoloStart, ZenonT(30) DEF RunOK, Progress
<1>3. meta' = [meta EXCEPT ![Body(w)] = m]
    BY SoloStart, NoFailure, ZenonT(30) DEF FinishMeta, SetTaskMeta
<1>4. /\ FinalStatus(w) \in {"DONE", "DEAD"}
      /\ m = [status |-> FinalStatus(w), attempts |-> attempts[w],
              completed |-> FinalStatus(w) = "DONE"]
    BY SoloStart, ZenonT(30) DEF FinalStatus
<1>5. Writes
  <2>1. attempts[w] \in 1 .. MaxAttempts
      BY <1>1, SoloStart, ZenonT(30) DEF RunOK, Finishing
  <2> QED
      BY <1>1, <1>2, <1>3, <1>4, <2>1, ZenonT(30) DEF Writes
<1>6. m # NotFound /\ m.status = FinalStatus(w)
  <2>1. m \in TaskData
      BY SoloStart, FinalType, ZenonT(30) DEF TaskData
  <2> QED
      BY <2>1, DomainAssumption, ZenonT(30)
<1>7. meta'[Body(w)] = m
    BY <1>2, <1>3, SoloStart, ZenonT(30)
<1>8. ASSUME Body(w)' = Body(w), step'[w] = "finishRecord" PROVE Progress(w)'
  <2>1. FinalStatus(w)' = FinalStatus(w)
      BY <1>1, ZenonT(30) DEF FinalStatus
  <2>2. meta[Body(w)]' # NotFound /\ meta[Body(w)]'.status = FinalStatus(w)
      BY <1>6, <1>7, <1>8, ZenonT(30)
  <2>3. status[Body(w)]' = FinalStatus(w)
      BY <1>1, <1>2, <1>8, ZenonT(30)
  <2> QED
      BY <1>8, <2>1, <2>2, <2>3, ZenonT(30) DEF Progress
<1>9. CountsCalls(w) /\ step[w] # "idle"
    BY <1>1, ZenonT(30) DEF CountsCalls
<1> QED
    BY <1>1, <1>5, <1>8, <1>9, GoesOnEffect, ZenonT(30)

\* ... the execution, which nobody reads ...
LEMMA FinishRecordEffect ==
    ASSUME Undisturbed, SoloInv, TopicKept, NEW w \in Workers, FinishRecord(w)
    PROVE  Effect(w)
<1>1. /\ step[w] = "finishRecord" /\ Goto(w, "finishUpdate") /\ UNCHANGED <<wGroupVars, execErr>>
      /\ UNCHANGED <<status, meta, row, attempts>>
    BY ZenonT(30) DEF FinishRecord, Inside, storeVars
<1>2. /\ status[Body(w)] = FinalStatus(w)
      /\ meta[Body(w)] # NotFound /\ meta[Body(w)].status = FinalStatus(w)
    BY <1>1, SoloStart, ZenonT(30) DEF Progress
<1>3. ASSUME Body(w)' = Body(w), step'[w] = "finishUpdate" PROVE Progress(w)'
  <2>1. FinalStatus(w)' = FinalStatus(w)
      BY <1>1, ZenonT(30) DEF FinalStatus
  <2>2. status[Body(w)]' = status[Body(w)] /\ meta[Body(w)]' = meta[Body(w)]
      BY <1>1, <1>3, ZenonT(30)
  <2> QED
      BY <1>2, <1>3, <2>1, <2>2, ZenonT(30) DEF Progress
<1>4. CountsCalls(w) /\ step[w] # "idle" /\ Writes
    BY <1>1, ZenonT(30) DEF CountsCalls, Writes
<1> QED
    BY <1>1, <1>3, <1>4, GoesOnEffect, ZenonT(30)

\* ... and the row.
LEMMA FinishUpdateEffect ==
    ASSUME Undisturbed, SoloInv, TopicKept, NEW w \in Workers, FinishUpdate(w)
    PROVE  Effect(w)
<1>1. step[w] = "finishUpdate" /\ UNCHANGED <<status, meta>>
    BY ZenonT(30) DEF FinishUpdate, storeVars
<1>2. /\ Body(w) \in Tasks /\ status[Body(w)] = FinalStatus(w)
      /\ meta[Body(w)] # NotFound /\ meta[Body(w)].status = FinalStatus(w)
    BY <1>1, SoloStart, ZenonT(30) DEF RunOK, Progress
<1>3. FinalStatus(w) \in {"DONE", "DEAD"} /\ IsTerminal(FinalStatus(w))
    BY DEF IsTerminal, FinalStatus
<1>4. row' = [row EXCEPT ![Body(w)] = UpdatedRow(@, FinalStatus(w))]
    BY SoloStart, NoFailure, ZenonT(30) DEF FinishUpdate, UpdateStatus
<1>5. Writes
    BY <1>1, <1>2, <1>3, <1>4, ZenonT(30) DEF Writes
<1>6. CASE Return(w)
    BY <1>2, <1>3, <1>5, <1>6, ReturnEffect, ZenonT(30)
<1>7. CASE Goto(w, "finishDLQ") /\ UNCHANGED <<wGroupVars, attempts, execErr>>
  <2>1. ASSUME Body(w)' = Body(w), step'[w] = "finishDLQ" PROVE Progress(w)'
    <3>1. FinalStatus(w)' = FinalStatus(w)
        BY <1>7, ZenonT(30) DEF FinalStatus
    <3>2. status[Body(w)]' = FinalStatus(w)
        BY <1>1, <1>2, <2>1, ZenonT(30)
    <3> QED
        BY <2>1, <3>1, <3>2, ZenonT(30) DEF Progress
  <2>2. CountsCalls(w) /\ step[w] # "idle"
      BY <1>1, <1>7, ZenonT(30) DEF CountsCalls
  <2> QED
      BY <1>5, <1>7, <2>1, <2>2, GoesOnEffect, ZenonT(30)
<1> QED
    BY <1>6, <1>7, ZenonT(30) DEF FinishUpdate

\* processMessage returns for what is no task, and for a task that is dead.
LEMMA LastEffect ==
    ASSUME Undisturbed, SoloInv, NEW w \in Workers, Discard(w) \/ NoHandlerDLQ(w) \/ FinishDLQ(w)
    PROVE  Effect(w)
<1>1. Writes /\ Return(w)
    BY ZenonT(30) DEF Discard, NoHandlerDLQ, FinishDLQ, backendVars, storeVars, repoVars, Writes
<1>2. IsTerminal(FinalStatus(w))
    BY DEF IsTerminal, FinalStatus
<1>3. Body(w) \in Tasks => IsTerminal(status[Body(w)])
    BY <1>2, SoloStart, DomainAssumption, ZenonT(30) DEF Discard, NoHandlerDLQ, FinishDLQ, Progress
<1> QED
    BY <1>1, <1>3, ReturnEffect, ZenonT(30)

\* The rest of Subscribe and of the process writes nothing.
LEMMA OutsideEffect ==
    ASSUME Undisturbed, SoloInv, TopicKept, NEW w \in Workers, Commit(w) \/ Start(w)
    PROVE  Effect(w)
<1>1. UNCHANGED <<status, meta, row, runVars, wAccepted>>
    BY ZenonT(30) DEF Commit, Start, backendVars, storeVars, repoVars, Group!CommitMessages,
                      Group!CommitFails, Group!Restart, Group!historyVars
<1>2. step[w] = "idle"
    BY SoloStart, ZenonT(30) DEF Commit, Start, Group!CommitMessages, Group!CommitFails,
                                 Group!Restart, RunOK
<1> QED
    BY <1>1, <1>2, IdleEffect, ZenonT(30)

LEMMA StopEffect ==
    ASSUME Undisturbed, SoloInv, NEW w \in Workers, Exit(w) \/ Die(w)
    PROVE  Effect(w)
<1>1. UNCHANGED <<status, meta, row, wAccepted>> /\ Forget(w)
    BY ZenonT(30) DEF Exit, Die, backendVars, storeVars, repoVars, Group!SubscribeReturnsNil,
                      Group!SubscribeReturnsError, Group!Crash, Group!Leave, Group!historyVars
<1>2. Writes /\ ReturnsTerminal(w)
    BY <1>1, ZenonT(30) DEF Writes, ReturnsTerminal
<1> QED
    BY <1>1, <1>2, EndEffect, ZenonT(30)

LEMMA NoSignal == Undisturbed => \A w \in Workers : ~Signal(w)
    BY ZenonT(30) DEF Undisturbed, Signal, Group!Shutdown, Group!Disrupt

LEMMA ReassignEffect ==
    ASSUME Undisturbed, SoloInv, TopicKept, NEW w \in Workers, Reassign \/ Disturb
    PROVE  Effect(w)
<1>1. UNCHANGED <<status, meta, row, runVars, wAccepted, wInflight>>
    BY ZenonT(30) DEF Reassign, Disturb, backendVars, storeVars, repoVars, Group!Rebalance,
                      Group!SpontaneousRebalance, Group!Assign, Group!historyVars, Group!loopVars
<1> QED
    BY <1>1, IdleEffect, ZenonT(30)

\* Every step of the workers.
LEMMA SoloEffect ==
    ASSUME Undisturbed, SoloInv, WorkerNext, NEW w \in Workers
    PROVE  Effect(w)
<1>1. TopicKept
    BY WorkUntouched DEF TopicKept
<1>2. CASE \E v \in Workers : ProcessStep(v) \/ Die(v) \/ Signal(v) \/ Start(v)
  <2>1. ProcessStep(w) \/ Die(w) \/ Start(w)
      BY <1>2, SoloStart, NoSignal, ZenonT(30)
  <2> QED
      BY <1>1, <2>1, ReceiveEffect, CheckStatusEffect, NoHandlerStatusEffect, SetRunningEffect,
         HandlerEffect, OnRetryEffect, FinishStatusEffect, FinishMetaEffect, FinishRecordEffect,
         FinishUpdateEffect, LastEffect, OutsideEffect, StopEffect, ZenonT(30) DEF ProcessStep
<1>3. CASE Reassign \/ Disturb
    BY <1>1, <1>3, ReassignEffect, ZenonT(30)
<1> QED
    BY <1>2, <1>3, ZenonT(30) DEF WorkerNext

-----------------------------------------------------------------------------
(* What an undisturbed worker preserves *)

\* Only the status of a task that is not terminal, and whose message is there, is
\* written.
LEMMA WritesOpen ==
    ASSUME SoloInv, Writes
    PROVE  \A t \in Tasks : /\ IsTerminal(status[t]) => status'[t] = status[t]
                            /\ IsTerminal(status'[t]) => InTopic(t)
<1>0. status \in [Tasks -> Statuses \cup {NotFound}]
    BY DEF SoloInv, WorkerInv, WorkerTypeOK, BackendsTypeOK, StoreTypeOK
<1>1. \A t \in Tasks : IsTerminal(status[t]) => InTopic(t)
    BY DEF SoloInv, TerminalInv
<1>2. CASE UNCHANGED status
    BY <1>1, <1>2
<1>3. ASSUME NEW t \in Tasks, NEW s, ~IsTerminal(status[t]), InTopic(t),
             status' = [status EXCEPT ![t] = s]
      PROVE \A u \in Tasks : /\ IsTerminal(status[u]) => status'[u] = status[u]
                             /\ IsTerminal(status'[u]) => InTopic(u)
  <2>1. \A u \in Tasks : u # t => status'[u] = status[u]
      BY <1>0, <1>3, ZenonT(30)
  <2> QED
      BY <1>1, <1>3, <2>1, ZenonT(30)
<1> QED
    BY <1>2, <1>3, ZenonT(30) DEF Writes

\* A message stays in the topic.
LEMMA InTopicKept ==
    ASSUME WorkerInv, [Next]_vars, NEW m, InTopic(m)
    PROVE  InTopic(m)'
<1>1. PICK p \in Partitions : \E i \in DOMAIN work[WorkerType][p] : work[WorkerType][p][i] = m
    BY DEF InTopic
<1>2. PICK i \in DOMAIN work[WorkerType][p] : work[WorkerType][p][i] = m
    BY <1>1
<1>3. work[WorkerType][p] \in Seq(Bodies)
    BY WorkerAssumption DEF WorkerInv, WorkerTypeOK, BackendsTypeOK, TopicsTypeOK
<1>4. work'[WorkerType][p] \in Seq(Bodies)
    BY AloneStep, WorkerAssumption DEF WorkerInv, WorkerTypeOK, BackendsTypeOK, TopicsTypeOK
<1>5. i \in 1 .. Len(work[WorkerType][p])
    BY <1>2, <1>3
<1>6. Len(work[WorkerType][p]) <= Len(work'[WorkerType][p])
    BY AloneTopicKept
<1>7. i \in DOMAIN work'[WorkerType][p]
    BY <1>3, <1>4, <1>5, <1>6
<1>8. work'[WorkerType][p][i] = m
    BY <1>2, <1>5, AloneTopicKept DEF TopicKept
<1> QED
    BY <1>7, <1>8 DEF InTopic

\* What processMessage has returned for is terminal, and stays so.
LEMMA AcceptedStep ==
    ASSUME SoloInv, [Next]_vars,
           \A t \in Tasks : IsTerminal(status[t]) => status'[t] = status[t],
           NEW w \in Workers, ReturnsTerminal(w)
    PROVE  /\ AcceptedIsTerminal'
           /\ \A p \in Partitions : \A o \in wAccepted'[p] : o < Len(work'[WorkerType][p])
<1>0. WorkerInv /\ wAccepted \in [Partitions -> SUBSET Nat]
    BY DEF SoloInv, WorkerInv, WorkerTypeOK, Group!TypeOK
<1>1. ASSUME NEW p \in Partitions, NEW o \in wAccepted'[p]
      PROVE /\ o \in Nat /\ o < Len(work[WorkerType][p])
            /\ work[WorkerType][p][o + 1] \in Tasks => IsTerminal(status[work[WorkerType][p][o + 1]])
  <2>1. CASE o \in wAccepted[p]
    <3>1. o \in Nat /\ o < Len(work[WorkerType][p])
        BY <1>0, <2>1 DEF SoloInv, TerminalInv
    <3>2. work[WorkerType][p][o + 1] \in AcceptedBodies
        BY <2>1 DEF AcceptedBodies
    <3> QED
        BY <3>1, <3>2 DEF SoloInv, AcceptedIsTerminal
  <2>2. CASE o \notin wAccepted[p]
    <3>1. /\ wPhase[w] = "handle"
          /\ Body(w) \in Tasks => IsTerminal(status[Body(w)])
          /\ wAccepted' = [wAccepted EXCEPT ![wInflight[w].partition] = @ \cup {wInflight[w].offset}]
        BY <2>2, ZenonT(30) DEF ReturnsTerminal
    <3>2. wInflight[w].partition \in Partitions /\ wInflight[w].offset \in Nat
        BY <1>0, <3>1, WorkerHolds
    <3>3. p = wInflight[w].partition /\ o = wInflight[w].offset
        BY <1>0, <2>2, <3>1, <3>2, ZenonT(30)
    <3>4. Body(w) = work[WorkerType][p][o + 1]
        BY <3>3 DEF Body
    <3>5. o + 1 \in 1 .. Len(work[WorkerType][p])
        BY <1>0, <3>1, <3>3, WorkerHolds, ZenonT(30)
    <3>6. Len(work[WorkerType][p]) \in Nat
        BY <1>0, AloneTopicKept, ZenonT(30)
    <3>7. o < Len(work[WorkerType][p])
        BY <3>2, <3>3, <3>5, <3>6
    <3> QED
        BY <3>1, <3>2, <3>3, <3>4, <3>7, ZenonT(30)
  <2> QED
      BY <2>1, <2>2
<1>2. ASSUME NEW p \in Partitions, NEW o \in wAccepted'[p]
      PROVE /\ o < Len(work'[WorkerType][p])
            /\ work'[WorkerType][p][o + 1] = work[WorkerType][p][o + 1]
  <2>1. /\ Len(work[WorkerType][p]) \in Nat /\ Len(work[WorkerType][p]) <= Len(work'[WorkerType][p])
        /\ \A i \in 1 .. Len(work[WorkerType][p]) : work'[WorkerType][p][i] = work[WorkerType][p][i]
      BY <1>0, AloneTopicKept, ZenonT(30) DEF TopicKept
  <2>2. Len(work'[WorkerType][p]) \in Nat
    <3>1. work'[WorkerType][p] \in Seq(Bodies)
        BY <1>0, AloneStep, WorkerAssumption DEF WorkerInv, WorkerTypeOK, BackendsTypeOK, TopicsTypeOK
    <3> QED
        BY <3>1
  <2>3. o \in Nat /\ o < Len(work[WorkerType][p]) /\ o + 1 \in 1 .. Len(work[WorkerType][p])
      BY <1>1, <2>1
  <2> QED
      BY <2>1, <2>2, <2>3
<1>3. ASSUME NEW t \in AcceptedBodies' \cap Tasks PROVE IsTerminal(status'[t])
  <2>1. PICK p \in Partitions : \E o \in wAccepted'[p] : t = work'[WorkerType][p][o + 1]
      BY <1>3 DEF AcceptedBodies
  <2>2. PICK o \in wAccepted'[p] : t = work'[WorkerType][p][o + 1]
      BY <2>1
  <2>3. t = work[WorkerType][p][o + 1] /\ t \in Tasks
      BY <1>2, <1>3, <2>2, ZenonT(30)
  <2>4. IsTerminal(status[t])
      BY <1>1, <2>3, ZenonT(30)
  <2> QED
      BY <2>3, <2>4, ZenonT(30)
<1> QED
    BY <1>2, <1>3, ZenonT(30) DEF AcceptedIsTerminal

\* Nobody else writes the status of a task whose message is there, and no key expires.
LEMMA ElsewhereStep ==
    ASSUME Undisturbed, SoloInv, [Next]_vars, ~WorkerNext
    PROVE  /\ UNCHANGED <<meta, row, workerVars>>
           /\ \/ UNCHANGED status
              \/ \E t \in Tasks : /\ ~InTopic(t) /\ ~IsTerminal(status[t])
                                  /\ status' = [status EXCEPT ![t] = "QUEUED"]
           /\ \A t \in Tasks : /\ InTopic(t) => status'[t] = status[t]
                               /\ IsTerminal(status[t]) => status'[t] = status[t]
                               /\ IsTerminal(status'[t]) => InTopic(t)
<1>0. WorkerInv /\ \A t \in Tasks : IsTerminal(status[t]) => InTopic(t)
    BY ZenonT(30) DEF SoloInv, TerminalInv
<1>1. status \in [Tasks -> Statuses \cup {NotFound}]
    BY <1>0, ZenonT(30) DEF WorkerInv, WorkerTypeOK, BackendsTypeOK, StoreTypeOK
<1>2. CASE UNCHANGED <<storeVars, repoVars, workerVars>>
    BY <1>0, <1>2, ZenonT(30) DEF storeVars, repoVars
<1>3. ASSUME NEW t \in Tasks, Route(t)
      PROVE  /\ UNCHANGED <<meta, row, workerVars>>
             /\ \/ UNCHANGED status
                \/ ~InTopic(t) /\ status' = [status EXCEPT ![t] = "QUEUED"]
    BY <1>0, <1>3, RouteChange, ZenonT(30) DEF repoVars
<1>4. ASSUME NEW t \in Tasks, ~InTopic(t), status' = [status EXCEPT ![t] = "QUEUED"]
      PROVE  \A u \in Tasks : /\ InTopic(u) => status'[u] = status[u]
                              /\ IsTerminal(status[u]) => status'[u] = status[u]
                              /\ IsTerminal(status'[u]) => InTopic(u)
  <2>1. ~IsTerminal("QUEUED")
      BY DEF IsTerminal
  <2>2. \A u \in Tasks : status'[u] = IF u = t THEN "QUEUED" ELSE status[u]
      BY <1>1, <1>4, ZenonT(30)
  <2> QED
      BY <1>0, <1>4, <2>1, <2>2, ZenonT(30)
<1>5. CASE \E t \in Tasks : Route(t)
    BY <1>0, <1>3, <1>4, <1>5, ZenonT(30)
<1>6. CASE \E p \in Partitions : RouteMalformed(p)
    BY <1>2, <1>6, RouteMalformedChange, ZenonT(30)
<1>7. CASE UNCHANGED vars
    BY <1>2, <1>7, ZenonT(30) DEF vars, backendVars
<1>8. ~Expiry
    BY DEF Undisturbed, Expiry, Expire
<1> QED
    BY <1>5, <1>6, <1>7, <1>8, ZenonT(30) DEF Next

\* Without a signal no context is done.
LEMMA StaysLive ==
    ASSUME Undisturbed, SoloInv, [Next]_vars
    PROVE  \A w \in Workers : ~wCancelled'[w]
<1>0. (\A w \in Workers : ~wCancelled[w]) /\ wCancelled \in [Workers -> BOOLEAN]
    BY ZenonT(30) DEF SoloInv, WorkerInv, WorkerTypeOK, Group!TypeOK
<1>1. CASE UNCHANGED wCancelled
    BY <1>0, <1>1, ZenonT(30)
<1>2. ASSUME NEW w \in Workers, ProcessStep(w) \/ Die(w) PROVE UNCHANGED wCancelled
    BY <1>2, ZenonT(30) DEF ProcessStep, Receive, Discard, CheckStatus, NoHandlerStatus, NoHandlerDLQ,
           SetRunning, HandlerSucceeds, HandlerFails, OnRetry, Backoff, FinishStatus, FinishMeta,
           FinishRecord, FinishUpdate, FinishDLQ, Commit, Exit, Die, Return, Inside, wGroupVars,
           wLoopVars, Group!FetchMessage, Group!HandlerReturnsNil, Group!HandlerReturnsError,
           Group!CommitMessages, Group!CommitFails, Group!SubscribeReturnsNil,
           Group!SubscribeReturnsError, Group!Crash, Group!Leave
<1>3. CASE Reassign \/ Disturb
    BY <1>1, <1>3, ZenonT(30) DEF Reassign, Disturb, Group!Rebalance, Group!SpontaneousRebalance,
                                  Group!Assign, Group!loopVars
<1>4. ASSUME NEW w \in Workers, Start(w) PROVE \A v \in Workers : ~wCancelled'[v]
    BY <1>0, <1>4, ZenonT(30) DEF Start, Group!Restart
<1>5. CASE ~WorkerNext
    BY <1>1, <1>5, ElsewhereStep, ZenonT(30) DEF workerVars, wGroupVars, wLoopVars
<1> QED
    BY <1>1, <1>2, <1>3, <1>4, <1>5, NoSignal, ZenonT(30) DEF WorkerNext

LEMMA SoloStep == Undisturbed /\ SoloInv /\ [Next]_vars => SoloInv'
<1> SUFFICES ASSUME Undisturbed, SoloInv, [Next]_vars PROVE SoloInv'
    OBVIOUS
<1>0. WorkerInv /\ TopicKept
    BY AloneTopicKept, ZenonT(30) DEF SoloInv
<1>w. PICK w \in Workers : Workers = {w}
    BY ZenonT(30) DEF Undisturbed
<1>1. /\ \A t \in Tasks : /\ IsTerminal(status[t]) => status'[t] = status[t]
                          /\ IsTerminal(status'[t]) => InTopic(t)
      /\ Progress(w)' /\ ReturnsTerminal(w)
  <2>1. CASE WorkerNext
      BY <2>1, SoloEffect, WritesOpen, ZenonT(30) DEF Effect
  <2>2. CASE ~WorkerNext
    <3>1. UNCHANGED <<meta, runVars, wInflight, wAccepted>>
        BY <2>2, ElsewhereStep, ZenonT(30) DEF workerVars, wGroupVars, wLoopVars
    <3>2. ASSUME step[w] \notin {"idle", "check"} PROVE status'[Body(w)] = status[Body(w)]
      <4>1. Body(w) \in Tasks /\ InTopic(Body(w))
          BY <1>0, <3>2, SoloStart, BodyInTopic, ZenonT(30) DEF RunOK
      <4> QED
          BY <2>2, <4>1, ElsewhereStep, ZenonT(30)
    <3>3. Progress(w)'
        BY <1>0, <3>1, <3>2, SoloStart, ProgressKept, ZenonT(30) DEF runVars
    <3> QED
        BY <2>2, <3>1, <3>3, ElsewhereStep, ZenonT(30) DEF ReturnsTerminal
  <2> QED
      BY <2>1, <2>2
<1>2. WorkerInv'
    BY <1>0, AloneStep
<1>3. ProgressInv'
  <2>1. \A v \in Workers : Progress(v)'
      BY <1>w, <1>1, ZenonT(30)
  <2> QED
      BY <2>1, ZenonT(30) DEF ProgressInv, Progress
<1>4. AcceptedIsTerminal' /\ \A p \in Partitions : \A o \in wAccepted'[p] : o < Len(work'[WorkerType][p])
    BY <1>1, AcceptedStep, ZenonT(30)
<1>5. \A t \in Tasks : IsTerminal(status'[t]) => InTopic(t)'
    BY <1>0, <1>1, InTopicKept, ZenonT(30)
<1>6. TerminalInv'
    BY <1>4, <1>5, ZenonT(30) DEF TerminalInv
<1> QED
    BY <1>2, <1>3, <1>4, <1>6, StaysLive, ZenonT(30) DEF SoloInv

LEMMA SoloInit == Init => SoloInv
<1> SUFFICES ASSUME Init PROVE SoloInv
    OBVIOUS
<1>1. WorkerInv
    BY AloneInit
<1>2. \A w \in Workers : step[w] = "idle" /\ ~wCancelled[w]
    BY DEF Init, WorkerInit, Group!Init
<1>3. ProgressInv
    BY <1>2, ZenonT(30) DEF ProgressInv
<1>4. \A p \in Partitions : wAccepted[p] = {}
    BY DEF Init, WorkerInit, Group!Init
<1>5. \A t \in Tasks : ~IsTerminal(status[t])
  <2>1. \A t \in Tasks : status[t] \in {NotFound, "PENDING"}
      BY DEF Init
  <2>2. ~IsTerminal(NotFound) /\ ~IsTerminal("PENDING")
      BY DomainAssumption DEF IsTerminal, Statuses
  <2> QED
      BY <2>1, <2>2, ZenonT(30)
<1>6. AcceptedBodies = {}
    BY <1>4 DEF AcceptedBodies
<1> QED
    BY <1>1, <1>2, <1>3, <1>4, <1>5, <1>6, ZenonT(30) DEF SoloInv, TerminalInv, AcceptedIsTerminal

-----------------------------------------------------------------------------
(* What an undisturbed worker promises, for any number of tasks, partitions,
   attempts, crashes, failed fetches, rebalances and repeated messages *)

THEOREM SoloInvariance ==
    ASSUME Undisturbed
    PROVE  Spec => []SoloInv
<1>1. Init => SoloInv
    BY SoloInit
<1>2. SoloInv /\ [Next]_vars => SoloInv'
    BY SoloStep
<1> QED
    BY <1>1, <1>2, PTL DEF Spec

\* When processMessage has returned nil for a task, the task is terminal in Redis:
\* a crash between its writes leaves the message to be delivered again.
THEOREM AcceptedTasksAreOver ==
    ASSUME Undisturbed
    PROVE  Spec => []AcceptedIsTerminal
<1>1. SoloInv => AcceptedIsTerminal
    BY DEF SoloInv
<1> QED
    BY <1>1, SoloInvariance, PTL

\* The status of a task is written only while it is not terminal: the check at the
\* start of processMessage is enough against redeliveries.
THEOREM TerminalStaysAsItIs ==
    ASSUME Undisturbed
    PROVE  Spec => TerminalIsFinal
<1>1. SoloInv /\ [Next]_vars => [\A t \in Tasks : IsTerminal(status[t]) => status'[t] = status[t]]_vars
  <2> SUFFICES ASSUME SoloInv, [Next]_vars, NEW t \in Tasks, IsTerminal(status[t])
               PROVE status'[t] = status[t]
      BY ZenonT(30)
  <2>1. CASE WorkerNext
    <3>1. PICK w \in Workers : Workers = {w}
        BY ZenonT(30) DEF Undisturbed
    <3> QED
        BY <2>1, SoloEffect, WritesOpen, ZenonT(30) DEF Effect
  <2>2. CASE ~WorkerNext
      BY <2>2, ElsewhereStep, ZenonT(30)
  <2> QED
      BY <2>1, <2>2
<1> QED
    BY <1>1, SoloInvariance, PTL DEF Spec, TerminalIsFinal, vars

\* No attempt is counted for a task that is terminal: its handler is not called
\* again.
THEOREM OverMeansNoCall ==
    ASSUME Undisturbed
    PROVE  Spec => NoCallOnceTerminal
<1>1. SoloInv /\ [Next]_vars =>
          [\A w \in Workers : attempts[w] < attempts'[w] => ~IsTerminal(status[Body(w)])]_vars
  <2> SUFFICES ASSUME SoloInv, [Next]_vars, NEW w \in Workers, attempts[w] < attempts'[w]
               PROVE ~IsTerminal(status[Body(w)])
      BY ZenonT(30)
  <2>1. attempts[w] \in Nat
    <3>1. attempts[w] \in 0 .. MaxAttempts
        BY SoloStart, ZenonT(30)
    <3> QED
        BY <3>1, MaxAttemptsType
  <2>2. attempts'[w] # attempts[w] /\ attempts'[w] # 0
      BY <2>1
  <2>3. WorkerNext
      BY <2>2, ElsewhereStep, ZenonT(30) DEF workerVars, runVars
  <2>4. step[w] = "attempt"
      BY <2>2, <2>3, SoloEffect, ZenonT(30) DEF Effect, CountsCalls
  <2> QED
      BY <2>4, SoloStart, ZenonT(30) DEF Progress
<1> QED
    BY <1>1, SoloInvariance, PTL DEF Spec, NoCallOnceTerminal, vars

-----------------------------------------------------------------------------
(* The worker implements TaskLifecycle *)

\* TaskLifecycle means the same by its words.
LEMMA LifeWords ==
    /\ Life!NewTask = NewTask /\ Life!Statuses = Statuses
    /\ \A s : Life!IsTerminal(s) <=> IsTerminal(s)
    /\ \A r, s : Life!UpdatedRow(r, s) = UpdatedRow(r, s)
    BY ZenonT(30) DEF Life!NewTask, NewTask, Life!Statuses, Statuses, Life!IsTerminal, IsTerminal,
                      Life!UpdatedRow, UpdatedRow

LEMMA LifeStarts == Init => Life!LifeInit
<1> SUFFICES ASSUME Init PROVE Life!LifeInit
    OBVIOUS
<1>1. \A t \in Tasks : \/ status[t] = "PENDING" /\ meta[t] = NewTask /\ row[t] \in {NewTask, NotFound}
                       \/ status[t] = NotFound /\ meta[t] = NotFound /\ row[t] = NotFound
    BY DEF Init
<1> QED
    BY <1>1, LifeWords, ZenonT(30) DEF Life!LifeInit

\* A write of the status of a task that is not terminal.
LEMMA LifeAdvances ==
    ASSUME NEW t \in Tasks, NEW s \in Reported, ~IsTerminal(status[t]),
           status' = [status EXCEPT ![t] = s], UNCHANGED <<meta, row>>
    PROVE  Life!LifeNext
<1>1. s \in Life!Statuses
    BY LifeWords DEF Reported, Statuses
<1>2. Life!Advance(t, s)
    BY LifeWords, ZenonT(30) DEF Life!Advance, Life!Report, Reported
<1> QED
    BY <1>1, <1>2, ZenonT(30) DEF Life!LifeNext

LEMMA LifeFollows ==
    ASSUME Writes
    PROVE  [Life!LifeNext]_(Life!recordVars)
<1>0. \A s \in {"DONE", "DEAD"} : s \in Life!Statuses
    BY LifeWords DEF Statuses
<1>1. CASE UNCHANGED <<status, meta, row>>
    BY <1>1 DEF Life!recordVars
<1>2. ASSUME NEW t \in Tasks, NEW s \in Reported, ~IsTerminal(status[t]),
             status' = [status EXCEPT ![t] = s], UNCHANGED <<meta, row>>
      PROVE Life!LifeNext
    BY <1>2, LifeAdvances, ZenonT(30)
<1>3. ASSUME NEW t \in Tasks, NEW s \in {"DONE", "DEAD"}, NEW n \in 1 .. MaxAttempts, status[t] = s,
             meta' = [meta EXCEPT ![t] = [status |-> s, attempts |-> n, completed |-> s = "DONE"]],
             UNCHANGED <<status, row>>
      PROVE Life!LifeNext
  <2>1. Life!FinalMeta(t, s, n)
      BY <1>3, ZenonT(30) DEF Life!FinalMeta, Life!Conclude
  <2> QED
      BY <1>0, <2>1, ZenonT(30) DEF Life!LifeNext
<1>4. ASSUME NEW t \in Tasks, NEW s \in {"DONE", "DEAD"}, meta[t] # NotFound, meta[t].status = s,
             row' = [row EXCEPT ![t] = UpdatedRow(@, s)], UNCHANGED <<status, meta>>
      PROVE Life!LifeNext
  <2>1. Life!FinalRow(t, s)
      BY <1>4, LifeWords, ZenonT(30) DEF Life!FinalRow, Life!Close
  <2> QED
      BY <1>0, <2>1, ZenonT(30) DEF Life!LifeNext
<1> QED
    BY <1>1, <1>2, <1>3, <1>4, ZenonT(30) DEF Writes

LEMMA LifeSteps == Undisturbed /\ SoloInv /\ [Next]_vars => [Life!LifeNext]_(Life!recordVars)
<1> SUFFICES ASSUME Undisturbed, SoloInv, [Next]_vars PROVE [Life!LifeNext]_(Life!recordVars)
    OBVIOUS
<1>1. CASE WorkerNext
  <2>1. PICK w \in Workers : Workers = {w}
      BY ZenonT(30) DEF Undisturbed
  <2> QED
      BY <1>1, SoloEffect, LifeFollows, ZenonT(30) DEF Effect
<1>2. CASE ~WorkerNext
  <2>0. "QUEUED" \in Reported
      BY DEF Reported
  <2>1. CASE UNCHANGED <<status, meta, row>>
      BY <2>1, LifeFollows, ZenonT(30) DEF Writes
  <2>2. ASSUME NEW t \in Tasks, ~IsTerminal(status[t]), status' = [status EXCEPT ![t] = "QUEUED"],
               UNCHANGED <<meta, row>>
        PROVE Life!LifeNext
      BY <2>0, <2>2, LifeAdvances, ZenonT(30)
  <2> QED
      BY <1>2, <2>1, <2>2, ElsewhereStep, ZenonT(30)
<1> QED
    BY <1>1, <1>2

\* The records of a task are written in the order TaskLifecycle promises to those
\* who read them: no completed metadata before the terminal status, and no completed
\* row before the metadata, whatever crashes in between.
THEOREM WorkerRefinesLifecycle ==
    ASSUME Undisturbed
    PROVE  Spec => ImplementsLifecycle
<1>1. SoloInv /\ [Next]_vars => [Life!LifeNext]_(Life!recordVars)
    BY LifeSteps
<1> QED
    BY <1>1, LifeStarts, SoloInvariance, PTL DEF Spec, ImplementsLifecycle, Life!LifeSpec

=============================================================================
