--------------------------- MODULE TaskFlowProofs ---------------------------
(***************************************************************************)
(* The theorems about TaskFlow, for every number of tasks, types,          *)
(* partitions and processes, and for every fault and disruption.  The      *)
(* dispatchers and the workers are two consumer groups: whatever the       *)
(* services do, each group only takes steps of KafkaConsumer, so that what *)
(* KafkaConsumerProofs shows of Subscribe holds of both.  FlowInv is an    *)
(* invariant, and the rest follows from it.                                *)
(***************************************************************************)
EXTENDS RoutingProofs

-----------------------------------------------------------------------------
(* Offsets *)

\* An offset below a committed one that is not in S lies strictly below the last
\* committed offset, when that one is.
LEMMA BelowTheLast ==
    ASSUME NEW n \in Nat, NEW o \in 0 .. n - 1, NEW S, o \notin S, n > 0 => n - 1 \in S
    PROVE  n - 1 \in S /\ n - 1 > o
    OBVIOUS

-----------------------------------------------------------------------------
(* The records: what the gateway and the dispatchers write *)

\* SubmitTask only records PENDING.
LEMMA GatewayWritesTruth ==
    ASSUME FlowInv, GatewayNext, Grow
    PROVE  StatusTrue' /\ MetaTrue' /\ RowTrue' /\ ExecutionsTrue'
<1>0. StatusTrue /\ MetaTrue /\ RowTrue /\ ExecutionsTrue /\ BackendsTypeOK
    BY RecordsSplit DEF FlowInv, TypeOK, WorkerTypeOK
<1> USE DEF storeVars, repoVars
<1>1. PICK t \in Tasks : SubmitTask(t) \/ SubmitStep(t) \/ Disconnect(t)
    BY DEF GatewayNext
<1>2. Waiting(t) \in BOOLEAN /\ NewTask.status = "PENDING"
    BY DEF Waiting, NewTask
<1>3. CASE SubmitMeta(t)
  <2>1. MetaTrue'
      BY <1>0, <1>2, <1>3, SetTaskMetaTrue, ZenonT(30) DEF SubmitMeta
  <2> QED
      BY <1>0, <1>3, <2>1, StatusKept, RowKept, ExecutionsKept DEF SubmitMeta
<1>4. CASE SubmitStatus(t)
  <2>1. StatusTrue'
      BY <1>0, <1>2, <1>4, SetStatusTrue, ZenonT(30) DEF SubmitStatus
  <2> QED
      BY <1>0, <1>4, <2>1, MetaKept, RowKept, ExecutionsKept DEF SubmitStatus
<1>5. CASE SubmitCreate(t)
  <2>1. RowTrue'
    <3>1. CASE row' = row
        BY <1>0, <3>1, RowKept
    <3>2. CASE row' = [row EXCEPT ![t] = NewTask]
      <4>1. \A u \in Tasks : row'[u] = IF u = t THEN NewTask ELSE row[u]
          BY <1>0, <3>2, SMTT(30) DEF BackendsTypeOK, RepoTypeOK
      <4> QED
          BY <1>0, <1>2, <4>1 DEF RowTrue, Earned, Grow
    <3> QED
        BY <1>5, <3>1, <3>2 DEF SubmitCreate, Create
  <2> QED
      BY <1>0, <1>5, <2>1, StatusKept, MetaKept, ExecutionsKept DEF SubmitCreate
<1>6. CASE SubmitTask(t) \/ SubmitPublish(t) \/ Disconnect(t)
    BY <1>0, <1>6, StatusKept, MetaKept, RowKept, ExecutionsKept, ZenonT(30)
       DEF SubmitTask, SubmitPublish, Disconnect, backendVars
<1> QED
    BY <1>1, <1>3, <1>4, <1>5, <1>6 DEF SubmitStep

\* route only records QUEUED.
LEMMA DispatcherWritesTruth ==
    ASSUME FlowInv, DispatcherNext, Grow
    PROVE  StatusTrue' /\ MetaTrue' /\ RowTrue' /\ ExecutionsTrue'
<1>0. StatusTrue /\ MetaTrue /\ RowTrue /\ ExecutionsTrue /\ BackendsTypeOK
    BY RecordsSplit DEF FlowInv, TypeOK, WorkerTypeOK
<1> USE DEF storeVars, repoVars
<1>1. UNCHANGED <<meta, repoVars>>
    BY ZenonT(30) DEF DispatcherNext, RouteStep, RouteReceive, RouteLimit, RoutePublish, RouteQueued, RouteDLQ,
           RouteCommit, DispatcherExit, DispatcherDie, DispatcherSignal, DispatcherStart,
           DispatcherReassign, DispatcherDisturb, backendVars
<1>2. StatusTrue'
  <2>1. CASE UNCHANGED status
      BY <1>0, <2>1, StatusKept
  <2>2. CASE \E d \in Dispatchers : RouteQueued(d)
    <3>1. PICK d \in Dispatchers, ok \in BOOLEAN : /\ dStep[d] = "queued"
                                                   /\ SetStatus(DLive(d), DBody(d), "QUEUED", ok)
        BY <2>2 DEF RouteQueued
    <3>2. DBody(d) \in Tasks /\ DLive(d) \in BOOLEAN
        BY <3>1 DEF FlowInv, RoutingInv, RouteInv, DLive
    <3> QED
        BY <1>0, <3>1, <3>2, SetStatusTrue
  <2> QED
      BY <2>1, <2>2, ZenonT(30)
         DEF DispatcherNext, RouteStep, RouteReceive, RouteLimit, RoutePublish, RouteDLQ, RouteCommit,
             DispatcherExit, DispatcherDie, DispatcherSignal, DispatcherStart, DispatcherReassign,
             DispatcherDisturb, backendVars
<1> QED
    BY <1>0, <1>1, <1>2, MetaKept, RowKept, ExecutionsKept

\* Every step of the services keeps the records true.
LEMMA RecordsStep == FlowInv /\ [Next]_vars => RecordsInv' /\ Grow
<1> SUFFICES ASSUME FlowInv, [Next]_vars PROVE RecordsInv' /\ Grow
    OBVIOUS
<1>0. /\ \A w \in Workers : RunOK(w)
      /\ StatusTrue /\ MetaTrue /\ RowTrue /\ ExecutionsTrue
    BY RecordsSplit DEF FlowInv
<1>1. RecordsInv' <=> (/\ \A w \in Workers : RunOK(w)
                       /\ StatusTrue /\ MetaTrue /\ RowTrue /\ ExecutionsTrue)'
    BY RecordsSplit, PTL
<1>2. ASSUME UNCHANGED workerVars PROVE Grow /\ \A w \in Workers : RunOK(w)'
    BY <1>2, InvOfWorkers, TopicIsKept, IdleRunStep
<1>3. CASE GatewayNext /\ UNCHANGED <<dispatcherVars, workerVars>>
    BY <1>1, <1>2, <1>3, GatewayWritesTruth
<1>4. CASE DispatcherNext /\ UNCHANGED <<gatewayVars, workerVars>>
    BY <1>1, <1>2, <1>4, DispatcherWritesTruth
<1>5. CASE WorkerNext
    BY <1>1, <1>5, InvOfWorkers, WorkerRunStep, WorkerWritesTruth
<1>6. ASSUME UNCHANGED <<storeVars, repoVars, workerVars>> PROVE RecordsInv' /\ Grow
    BY <1>0, <1>1, <1>2, <1>6, StatusKept, MetaKept, RowKept, ExecutionsKept DEF storeVars, repoVars
<1>7. CASE Expiry /\ UNCHANGED workerVars
  <2>1. BackendsTypeOK
      BY DEF FlowInv, TypeOK, WorkerTypeOK
  <2> QED
      BY <1>0, <1>1, <1>2, <1>7, <2>1, ExpiryTrue
<1> QED
    BY <1>3, <1>4, <1>5, <1>6, <1>7 DEF Next, Foreign, vars, backendVars

-----------------------------------------------------------------------------
(* Who has a task, and who writes *)

\* A task that a dispatcher routes or a worker executes is in tasks.pending, and
\* SubmitTask is over for it.
LEMMA RoutedIsPending ==
    ASSUME FlowInv, NEW d \in Dispatchers, dStep[d] \in {"limit", "publish", "queued"}
    PROVE  DBody(d) \in PendingBodies \cap Tasks /\ TypeOf[DBody(d)] # NoType
<1>1. DBody(d) \in Tasks /\ TypeOf[DBody(d)] # NoType /\ dPhase[d] = "handle"
    BY DEF FlowInv, RoutingInv, RouteInv
<1>2. /\ dInflight[d].partition \in Partitions
      /\ dInflight[d].offset + 1 \in 1 .. Len(pending[dInflight[d].partition])
    BY <1>1, DispatcherHolds
<1>3. pending[dInflight[d].partition] \in Seq(Bodies)
    BY <1>2 DEF FlowInv, TypeOK, WorkerTypeOK, BackendsTypeOK, TopicsTypeOK
<1>4. dInflight[d].offset + 1 \in DOMAIN pending[dInflight[d].partition]
    BY <1>2, <1>3
<1>5. DBody(d) \in PendingBodies
    BY <1>1, <1>2, <1>4, ZenonT(30) DEF PendingBodies, DBody, Bodies
<1> QED
    BY <1>1, <1>5

LEMMA RoutedWasSubmitted ==
    ASSUME FlowInv, NEW d \in Dispatchers, dStep[d] \in {"limit", "publish", "queued"}
    PROVE  DBody(d) \in Tasks /\ Submitted(DBody(d))
    BY RoutedIsPending, ZenonT(30) DEF FlowInv, SubmitInv

LEMMA ExecutedIsPending ==
    ASSUME FlowInv, NEW w \in Workers, step[w] \notin {"idle", "check"}
    PROVE  Body(w) \in PendingBodies \cap Tasks /\ TypeOf[Body(w)] # NoType
<1>1. Body(w) \in Tasks /\ wPhase[w] = "handle"
    BY DEF FlowInv, RecordsInv, CallInv
<1> DEFINE p == wInflight[w].partition
           i == wInflight[w].offset + 1
<1>2. p \in Partitions /\ i \in 1 .. Len(work[WorkerType][p]) /\ Body(w) = work[WorkerType][p][i]
    BY <1>1, InvOfWorkers, WorkerHolds, ZenonT(30) DEF Body
<1> HIDE DEF p, i
<1>3. work[WorkerType][p] \in Seq(Bodies) /\ pending[p] \in Seq(Bodies)
    BY <1>2, WorkerAssumption DEF FlowInv, TypeOK, WorkerTypeOK, BackendsTypeOK, TopicsTypeOK
<1>4. i \in DOMAIN work[WorkerType][p]
    BY <1>2, <1>3
<1>5. /\ TypeOf[Body(w)] = WorkerType
      /\ \E j \in DOMAIN pending[p] : pending[p][j] = Body(w)
    BY <1>2, <1>4, WorkerAssumption DEF FlowInv, RoutingInv, WorkIsRouted
<1>6. TypeOf[Body(w)] # NoType
    BY <1>5, WorkerAssumption, DomainAssumption
<1>7. Body(w) \in PendingBodies
    BY <1>1, <1>2, <1>5 DEF PendingBodies, Bodies
<1> QED
    BY <1>1, <1>6, <1>7

LEMMA ExecutedWasSubmitted ==
    ASSUME FlowInv, NEW w \in Workers, step[w] \notin {"idle", "check"}
    PROVE  Body(w) \in Tasks /\ Submitted(Body(w))
    BY ExecutedIsPending, ZenonT(30) DEF FlowInv, SubmitInv

\* SetStatus changes the status of one task, to what it is given.
LEMMA SetStatusChange ==
    ASSUME BackendsTypeOK, NEW live, NEW t \in Tasks, NEW s, NEW ok, SetStatus(live, t, s, ok),
           NEW u \in Tasks, status'[u] # status[u]
    PROVE  u = t /\ status'[u] = s
    BY DEF SetStatus, BackendsTypeOK, StoreTypeOK

\* The status of a task becomes PENDING in SubmitTask only, and anything else, which
\* is never FAILED, only once SubmitTask is over, unless the key expires.
LEMMA StatusChange ==
    ASSUME FlowInv, [Next]_vars, NEW t \in Tasks, status'[t] # status[t]
    PROVE  \/ request[t] = "status" /\ status'[t] = "PENDING"
           \/ Submitted(t) /\ status'[t] \in Statuses \ {"PENDING", "FAILED"}
           \/ status'[t] = NotFound
<1>0. BackendsTypeOK
    BY DEF FlowInv, TypeOK, WorkerTypeOK
<1> USE DEF backendVars, storeVars
<1>1. CASE GatewayNext
  <2>1. PICK u \in Tasks : SubmitStatus(u)
      BY <1>1, ZenonT(30) DEF GatewayNext, SubmitTask, SubmitStep, SubmitMeta, SubmitCreate, SubmitPublish, Disconnect
  <2>2. PICK ok \in BOOLEAN : SetStatus(Waiting(u), u, "PENDING", ok)
      BY <2>1, ZenonT(30) DEF SubmitStatus
  <2>3. t = u /\ status'[t] = "PENDING"
      BY <1>0, <2>2, SetStatusChange, ZenonT(30)
  <2> QED
      BY <2>1, <2>3, ZenonT(30) DEF SubmitStatus
<1>2. CASE DispatcherNext
  <2>1. PICK d \in Dispatchers : RouteQueued(d)
      BY <1>2, ZenonT(30) DEF DispatcherNext, RouteStep, RouteReceive, RouteLimit, RoutePublish, RouteDLQ, RouteCommit,
             DispatcherExit, DispatcherDie, DispatcherSignal, DispatcherStart, DispatcherReassign,
             DispatcherDisturb
  <2>2. DBody(d) \in Tasks /\ Submitted(DBody(d))
      BY <2>1, RoutedWasSubmitted, ZenonT(30) DEF RouteQueued
  <2> QED
      BY <1>0, <2>1, <2>2, SetStatusChange DEF RouteQueued, Statuses
<1>3. CASE WorkerNext
  <2>1. PICK w \in Workers : NoHandlerStatus(w) \/ SetRunning(w) \/ OnRetry(w) \/ FinishStatus(w)
      BY <1>3, ZenonT(30) DEF WorkerNext, ProcessStep, Receive, Discard, CheckStatus, NoHandlerDLQ, HandlerSucceeds,
             HandlerFails, Backoff, FinishMeta, FinishRecord, FinishUpdate, FinishDLQ, Commit, Exit, Die,
             Signal, Start, Reassign, Disturb
  <2>2. Body(w) \in Tasks /\ Submitted(Body(w))
      BY <2>1, ExecutedWasSubmitted, ZenonT(30) DEF NoHandlerStatus, SetRunning, OnRetry, FinishStatus
  <2>3. PICK s \in Statuses \ {"PENDING", "FAILED"}, ok \in BOOLEAN : SetStatus(Live(w), Body(w), s, ok)
      BY <2>1, ZenonT(30) DEF NoHandlerStatus, SetRunning, OnRetry, FinishStatus, FinalStatus, Statuses
  <2> QED
      BY <1>0, <2>2, <2>3, SetStatusChange, ZenonT(30)
<1>4. CASE Expiry
    BY <1>0, <1>4, ExpiryChange, ZenonT(30)
<1> QED
    BY <1>1, <1>2, <1>3, <1>4, ZenonT(30) DEF Next, Foreign, vars

\* The row of a task is inserted by SubmitTask, and updated by a worker that has
\* executed the task or used up its attempts.
LEMMA RowChange ==
    ASSUME FlowInv, [Next]_vars, NEW t \in Tasks, row'[t] # row[t]
    PROVE  \/ request[t] = "create" /\ row'[t] = NewTask
           \/ /\ row[t] # NotFound /\ row'[t] # NotFound /\ row'[t] # NewTask
              /\ row'[t].completed => t \in succeeded \cup exhausted
<1>0. BackendsTypeOK
    BY DEF FlowInv, TypeOK, WorkerTypeOK
<1> USE DEF backendVars, repoVars
<1>1. CASE GatewayNext
  <2>1. PICK u \in Tasks : SubmitCreate(u)
      BY <1>1, ZenonT(30) DEF GatewayNext, SubmitTask, SubmitStep, SubmitMeta, SubmitStatus, SubmitPublish, Disconnect
  <2>2. row' = [row EXCEPT ![u] = NewTask]
      BY <2>1, ZenonT(30) DEF SubmitCreate, Create
  <2>3. t = u /\ row'[t] = NewTask
      BY <1>0, <2>2 DEF BackendsTypeOK, RepoTypeOK
  <2> QED
      BY <2>1, <2>3, ZenonT(30) DEF SubmitCreate
<1>2. CASE DispatcherNext
    BY <1>2, ZenonT(30) DEF DispatcherNext, RouteStep, RouteReceive, RouteLimit, RoutePublish, RouteQueued, RouteDLQ,
           RouteCommit, DispatcherExit, DispatcherDie, DispatcherSignal, DispatcherStart,
           DispatcherReassign, DispatcherDisturb
<1>3. CASE WorkerNext
  <2>1. PICK w \in Workers : FinishUpdate(w)
      BY <1>3, ZenonT(30) DEF WorkerNext, ProcessStep, Receive, Discard, CheckStatus, NoHandlerStatus, NoHandlerDLQ,
             SetRunning, HandlerSucceeds, HandlerFails, OnRetry, Backoff, FinishStatus, FinishMeta,
             FinishRecord, FinishDLQ, Commit, Exit, Die, Signal, Start, Reassign, Disturb
  <2>2. Live(w) /\ row' = [row EXCEPT ![Body(w)] = UpdatedRow(row[Body(w)], FinalStatus(w))]
      BY <2>1, ZenonT(30) DEF FinishUpdate, UpdateStatus, Succeeds
  <2>3. t = Body(w) /\ row'[t] = UpdatedRow(row[t], FinalStatus(w))
      BY <1>0, <2>2, ZenonT(30) DEF BackendsTypeOK, RepoTypeOK
  <2>4. row[t] # NotFound /\ row[t] \in TaskData
      BY <1>0, <2>3, ZenonT(30) DEF UpdatedRow, BackendsTypeOK, RepoTypeOK
  <2>5. row'[t] \in TaskData /\ row'[t].status = FinalStatus(w)
      BY <2>3, <2>4 DEF UpdatedRow, TaskData, FinalStatus, Statuses, IsTerminal
  <2>6. row'[t] # NotFound /\ row'[t] # NewTask
      BY <2>5, DomainAssumption DEF NewTask, FinalStatus
  <2>7. t \in succeeded \cup exhausted
      BY <2>1, <2>2, <2>3, InvOfWorkers, FinalIsTrue, ZenonT(30) DEF FinishUpdate, Finishing, FinalStatus
  <2> QED
      BY <2>4, <2>6, <2>7, ZenonT(30)
<1> QED
    BY <1>1, <1>2, <1>3, ZenonT(30) DEF Next, Foreign, Expiry, vars

\* A handler is only called for a task that SubmitTask is over for.
LEMMA HistoryChange ==
    ASSUME FlowInv, [Next]_vars, NEW t \in succeeded' \cup exhausted'
    PROVE  t \in succeeded \cup exhausted \/ Submitted(t)
<1> USE DEF workerVars
<1>1. CASE WorkerNext
  <2>1. CASE UNCHANGED <<succeeded, exhausted>>
      BY <2>1
  <2>2. CASE \E w \in Workers : HandlerSucceeds(w) \/ HandlerFails(w)
    <3>1. PICK w \in Workers : HandlerSucceeds(w) \/ HandlerFails(w)
        BY <2>2
    <3>2. Submitted(Body(w))
        BY <3>1, ExecutedWasSubmitted, ZenonT(30) DEF HandlerSucceeds, HandlerFails
    <3> QED
        BY <3>1, <3>2, ZenonT(30) DEF HandlerSucceeds, HandlerFails
  <2> QED
      BY <1>1, <2>1, <2>2, ZenonT(30) DEF WorkerNext, ProcessStep, Receive, Discard, CheckStatus, NoHandlerStatus,
         NoHandlerDLQ, SetRunning, OnRetry, Backoff, FinishStatus, FinishMeta, FinishRecord, FinishUpdate,
         FinishDLQ, Inside, Commit, Exit, Die, Signal, Start, Reassign, Disturb
<1> QED
    BY <1>1, ZenonT(30) DEF Next, vars

\* A request moves on by its own steps only, and its answer is final.
LEMMA RequestChange ==
    ASSUME FlowInv, [Next]_vars, NEW t \in Tasks, request'[t] # request[t]
    PROVE  /\ ~Submitted(t)
           /\ \/ SubmitTask(t) \/ SubmitMeta(t) \/ SubmitStatus(t) \/ SubmitCreate(t) \/ SubmitPublish(t)
<1>0. request \in [Tasks -> RequestSteps]
    BY DEF FlowInv, TypeOK, GatewayTypeOK
<1>1. GatewayNext
    BY DEF Next, vars, gatewayVars
<1>2. PICK u \in Tasks :
         SubmitTask(u) \/ SubmitMeta(u) \/ SubmitStatus(u) \/ SubmitCreate(u) \/ SubmitPublish(u)
    BY <1>1 DEF GatewayNext, SubmitStep, Disconnect
<1>3. PICK s : request' = [request EXCEPT ![u] = s]
    BY <1>2, ZenonT(30) DEF SubmitTask, SubmitMeta, SubmitStatus, SubmitCreate, SubmitPublish, To
<1>4. u = t
    BY <1>0, <1>3
<1> QED
    BY <1>2, <1>4, ZenonT(30) DEF SubmitTask, SubmitMeta, SubmitStatus, SubmitCreate, SubmitPublish, Submitted

\* What is in tasks.pending stays there, and what comes is the task of a request
\* that is over, or foreign.
LEMMA PendingBodiesChange ==
    ASSUME FlowInv, [Next]_vars
    PROVE  /\ PendingBodies \subseteq PendingBodies'
           /\ \A t \in Tasks \cap PendingBodies' :
                 t \in PendingBodies \/ SubmitPublish(t) \/ TypeOf[t] = NoType
<1>1. ASSUME NEW m \in PendingBodies PROVE m \in PendingBodies'
  <2>1. PICK p \in Partitions : \E i \in DOMAIN pending[p] : pending[p][i] = m
      BY <1>1 DEF PendingBodies
  <2>2. PICK i \in DOMAIN pending[p] : pending[p][i] = m
      BY <2>1
  <2>3. i \in 1 .. Len(pending[p])
      BY PendingKept
  <2>4. i \in DOMAIN pending'[p] /\ pending'[p][i] = m
      BY <2>2, <2>3, PendingKept
  <2> QED
      BY <1>1, <2>4, ZenonT(30) DEF PendingBodies
<1>2. ASSUME NEW t \in Tasks \cap PendingBodies', t \notin PendingBodies
      PROVE SubmitPublish(t) \/ TypeOf[t] = NoType
  <2>0. pending \in [Partitions -> Seq(Bodies)] /\ t \in Bodies
      BY DEF FlowInv, TypeOK, WorkerTypeOK, BackendsTypeOK, TopicsTypeOK, Bodies
  <2>1. pending' # pending
      BY <1>2 DEF PendingBodies
  <2>2. PICK m \in Bodies, q \in Partitions :
            /\ pending' = [pending EXCEPT ![q] = Append(@, m)]
            /\ (m \in Tasks /\ SubmitPublish(m)) \/ m \in Foreigners
      BY <2>1, PendingChange
  <2>3. PICK p \in Partitions : \E i \in DOMAIN pending'[p] : pending'[p][i] = t
      BY <1>2 DEF PendingBodies
  <2>4. PICK i \in DOMAIN pending'[p] : pending'[p][i] = t
      BY <2>3
  <2>5. p = q /\ i = Len(pending[q]) + 1
    <3>1. p = q
        BY <1>2, <2>0, <2>2, <2>4, ZenonT(30) DEF PendingBodies
    <3>2. pending[q] \in Seq(Bodies) /\ pending'[q] = Append(pending[q], m)
        BY <2>0, <2>2
    <3>3. CASE i # Len(pending[q]) + 1
      <4>1. i \in DOMAIN pending[q] /\ pending[q][i] = t
          BY <2>4, <3>1, <3>2, <3>3
      <4> QED
          BY <1>2, <2>0, <4>1 DEF PendingBodies
    <3> QED
        BY <3>1, <3>3, ZenonT(30)
  <2>6. m = t
    <3>1. pending[q] \in Seq(Bodies) /\ pending'[q] = Append(pending[q], m)
        BY <2>0, <2>2
    <3> QED
        BY <2>4, <2>5, <3>1
  <2> QED
      BY <2>2, <2>6, TaskFlowAssumption, DomainAssumption
<1> QED
    BY <1>1, <1>2

\* Every step keeps the order of the writes of SubmitTask.
LEMMA SubmitStepInv == FlowInv /\ [Next]_vars => SubmitInv'
<1> SUFFICES ASSUME FlowInv, [Next]_vars, NEW t \in Tasks
             PROVE /\ request'[t] \notin {"none", "refused"} => TypeOf[t] # NoType
                   /\ request'[t] = "accepted" => t \in PendingBodies'
                   /\ t \in PendingBodies' /\ TypeOf[t] # NoType => Submitted(t)'
                   /\ status'[t] \notin {NotFound, "PENDING"} \/ t \in succeeded' \cup exhausted'
                         => Submitted(t)'
                   /\ row'[t] # NotFound /\ row'[t].completed => t \in succeeded' \cup exhausted'
    BY ZenonT(30) DEF SubmitInv
<1>0. /\ request \in [Tasks -> RequestSteps] /\ BackendsTypeOK
      /\ request[t] \notin {"none", "refused"} => TypeOf[t] # NoType
      /\ request[t] = "accepted" => t \in PendingBodies
      /\ t \in PendingBodies /\ TypeOf[t] # NoType => Submitted(t)
      /\ status[t] \notin {NotFound, "PENDING"} \/ t \in succeeded \cup exhausted => Submitted(t)
      /\ row[t] # NotFound /\ row[t].completed => t \in succeeded \cup exhausted
    BY ZenonT(30) DEF FlowInv, SubmitInv, TypeOK, GatewayTypeOK, WorkerTypeOK
<1>s. Submitted(t) => Submitted(t)'
    BY RequestChange, ZenonT(30) DEF Submitted
<1>1. ASSUME request'[t] \notin {"none", "refused"} PROVE TypeOf[t] # NoType
  <2>1. CASE SubmitTask(t)
      BY <1>0, <1>1, <2>1, ZenonT(30) DEF SubmitTask, To
  <2> QED
      BY <1>0, <1>1, <2>1, RequestChange, ZenonT(30)
         DEF SubmitMeta, SubmitStatus, SubmitCreate, SubmitPublish
<1>2. ASSUME request'[t] = "accepted" PROVE t \in PendingBodies'
  <2>1. CASE request[t] = "accepted"
      BY <1>0, <2>1, PendingBodiesChange, ZenonT(30)
  <2>2. CASE request[t] # "accepted"
    <3>1. SubmitPublish(t)
        BY <1>0, <1>2, <2>2, RequestChange, ZenonT(30)
           DEF SubmitTask, SubmitMeta, SubmitStatus, SubmitCreate, To
    <3>2. pending' = [pending EXCEPT ![PartitionOf[t]] = Append(@, t)]
        BY <1>0, <1>2, <3>1, ZenonT(30) DEF SubmitPublish, PublishPending, Publish, To
    <3>3. PartitionOf[t] \in Partitions /\ t \in Bodies /\ pending[PartitionOf[t]] \in Seq(Bodies)
        BY <1>0, DomainAssumption, ZenonT(30) DEF BackendsTypeOK, TopicsTypeOK, Bodies
    <3>4. pending'[PartitionOf[t]] = Append(pending[PartitionOf[t]], t)
        BY <1>0, <3>2, <3>3, ZenonT(30) DEF BackendsTypeOK, TopicsTypeOK
    <3>5. /\ Len(pending[PartitionOf[t]]) + 1 \in DOMAIN pending'[PartitionOf[t]]
          /\ pending'[PartitionOf[t]][Len(pending[PartitionOf[t]]) + 1] = t
        BY <3>3, <3>4
    <3> QED
        BY <3>3, <3>5, ZenonT(30) DEF PendingBodies
  <2> QED
      BY <2>1, <2>2
<1>3. ASSUME t \in PendingBodies', TypeOf[t] # NoType PROVE Submitted(t)'
  <2>1. CASE SubmitPublish(t)
      BY <1>0, <2>1, ZenonT(30) DEF SubmitPublish, To, Submitted
  <2> QED
      BY <1>0, <1>s, <1>3, <2>1, PendingBodiesChange, ZenonT(30)
<1>4. ASSUME status'[t] \notin {NotFound, "PENDING"} PROVE Submitted(t)'
    BY <1>0, <1>s, <1>4, StatusChange, ZenonT(30)
<1>5. ASSUME t \in succeeded' \cup exhausted' PROVE Submitted(t)'
    BY <1>0, <1>s, <1>5, HistoryChange, ZenonT(30)
<1>6. ASSUME row'[t] # NotFound, row'[t].completed PROVE t \in succeeded' \cup exhausted'
  <2>1. t \in succeeded \cup exhausted
      BY <1>0, <1>6, RowChange DEF NewTask
  <2> QED
      BY <2>1, RecordsStep DEF Grow
<1> QED
    BY <1>1, <1>2, <1>3, <1>4, <1>5, <1>6, ZenonT(30)

-----------------------------------------------------------------------------
(* The two consumer groups *)

DLoop == INSTANCE KafkaConsumerProofs WITH
    Consumers <- Dispatchers, MaxOffset <- MaxLog, Kinds <- DKinds,
    MaxDisruptions <- MaxDDisruptions,
    end <- [p \in Partitions |-> Len(pending[p])],
    committed <- dCommitted, owner <- dOwner, position <- dPosition,
    phase <- dPhase, inflight <- dInflight, cancelled <- dCancelled,
    accepted <- dAccepted, rejected <- dRejected, disruptions <- dDisruptions

\* DLoop and DGroup are the same loop: the same invariant, the same steps.
LEMMA DLoopInv == DLoop!IInv <=> DGroup!IInv
    BY ZenonT(30) DEF DLoop!IInv, DLoop!TypeOK, DLoop!Phases, DLoop!Messages, DLoop!LoopInv,
           DLoop!InflightInv, DLoop!PositionInv, DLoop!CommittedInv,
           DLoop!CommittedWasHandled, DLoop!ResumesAfterSuccess, DLoop!Handled,
           DLoop!At, DGroup!IInv, DGroup!TypeOK, DGroup!Phases, DGroup!Messages,
           DGroup!LoopInv, DGroup!InflightInv, DGroup!PositionInv,
           DGroup!CommittedInv, DGroup!CommittedWasHandled,
           DGroup!ResumesAfterSuccess, DGroup!Handled, DGroup!At

LEMMA DLoopNext == [DGroup!Next]_(DGroup!vars) => [DLoop!Next]_(DLoop!vars)
    BY ZenonT(30) DEF DLoop!Next, DLoop!SubscribeStep, DLoop!Produce, DLoop!FetchMessage,
           DLoop!HandlerReturnsNil, DLoop!HandlerReturnsError, DLoop!CommitMessages,
           DLoop!CommitFails, DLoop!Shutdown, DLoop!Disrupt,
           DLoop!SubscribeReturnsNil, DLoop!SubscribeReturnsError, DLoop!Leave,
           DLoop!Crash, DLoop!Restart, DLoop!Rebalance, DLoop!SpontaneousRebalance,
           DLoop!Assign, DLoop!Running, DLoop!vars, DLoop!groupVars, DLoop!loopVars,
           DLoop!historyVars, DGroup!Next, DGroup!SubscribeStep, DGroup!Produce,
           DGroup!FetchMessage, DGroup!HandlerReturnsNil,
           DGroup!HandlerReturnsError, DGroup!CommitMessages, DGroup!CommitFails,
           DGroup!Shutdown, DGroup!Disrupt, DGroup!SubscribeReturnsNil,
           DGroup!SubscribeReturnsError, DGroup!Leave, DGroup!Crash, DGroup!Restart,
           DGroup!Rebalance, DGroup!SpontaneousRebalance, DGroup!Assign,
           DGroup!Running, DGroup!vars, DGroup!groupVars, DGroup!loopVars,
           DGroup!historyVars

LEMMA DLoopInit == DGroup!Init => DLoop!Init
    BY ZenonT(30) DEF DLoop!Init, DGroup!Init

\* What Subscribe keeps is kept in the group of the dispatchers.
LEMMA DGroupStep == DGroup!IInv /\ [DGroup!Next]_(DGroup!vars) => DGroup!IInv'
<1>1. DLoop!IInv /\ [DLoop!Next]_(DLoop!vars) => DLoop!IInv'
    BY DLoop!InvStep, DispatcherAssumption, DomainAssumption, TopicsAssumption, ZenonT(30)
       DEF DLoop!ConsumerAssumption
<1> QED
    BY <1>1, DLoopInv, DLoopNext, PTL

LEMMA DGroupInit == DGroup!Init => DGroup!IInv
<1>1. DLoop!Init => DLoop!IInv
    BY DLoop!InvInit, DispatcherAssumption, DomainAssumption, TopicsAssumption, ZenonT(30)
       DEF DLoop!ConsumerAssumption
<1> QED
    BY <1>1, DLoopInv, DLoopInit

-----------------------------------------------------------------------------
(* Every step of TaskFlow is a step of both groups. *)

\* Appending to tasks.pending is a Produce of the dispatchers' topic.
LEMMA PendingGrows ==
    ASSUME TopicsTypeOK, NEW q \in Partitions, NEW m \in Bodies,
           Len(pending[q]) < MaxLog,
           pending' = [pending EXCEPT ![q] = Append(@, m)], UNCHANGED dGroupVars
    PROVE  DGroup!Next
<1>1. [p \in Partitions |-> Len(pending'[p])]
         = [[p \in Partitions |-> Len(pending[p])] EXCEPT ![q] = @ + 1]
  <2>1. pending[q] \in Seq(Bodies) /\ Len(Append(pending[q], m)) = Len(pending[q]) + 1
      BY DEF TopicsTypeOK
  <2>2. \A p \in Partitions : pending'[p] = IF p = q THEN Append(pending[q], m) ELSE pending[p]
      BY ZenonT(30) DEF TopicsTypeOK
  <2>3. \A p \in Partitions :
           Len(pending'[p]) = IF p = q THEN Len(pending[q]) + 1 ELSE Len(pending[p])
    <3> TAKE p \in Partitions
    <3>1. CASE p = q
        BY <2>1, <2>2, <3>1, ZenonT(30)
    <3>2. CASE p # q
        BY <2>2, <3>2
    <3> QED
        BY <3>1, <3>2, ZenonT(30)
  <2> DEFINE before == [p \in Partitions |-> Len(pending[p])]
             after == [p \in Partitions |-> Len(pending'[p])]
  <2>4. \A p \in Partitions : after[p] = IF p = q THEN before[q] + 1 ELSE before[p]
      BY <2>3, ZenonT(30)
  <2>5. before = [p \in Partitions |-> before[p]] /\ after = [p \in Partitions |-> after[p]]
      OBVIOUS
  <2> HIDE DEF before, after
  <2>6. after = [before EXCEPT ![q] = @ + 1]
      BY <2>4, <2>5, ZenonT(30)
  <2> QED
      BY <2>6, ZenonT(30) DEF before, after
<1>2. DGroup!Produce(q)
    BY <1>1, ZenonT(30) DEF DGroup!Produce, DGroup!groupVars, DGroup!loopVars, DGroup!historyVars, dGroupVars
<1> QED
    BY <1>2, ZenonT(30) DEF DGroup!Next

\* Every step of the services is a step of the dispatchers' group, or none.
LEMMA DGroupSimulation == TypeOK /\ [Next]_vars => [DGroup!Next]_(DGroup!vars)
<1> SUFFICES ASSUME TypeOK, [Next]_vars PROVE [DGroup!Next]_(DGroup!vars)
    OBVIOUS
<1> USE DEF dispatcherVars, backendVars, topicVars
<1>t. TopicsTypeOK
    BY ZenonT(30) DEF TypeOK, WorkerTypeOK, BackendsTypeOK
<1>0. ASSUME UNCHANGED <<pending, dGroupVars>> PROVE UNCHANGED DGroup!vars
    BY <1>0, ZenonT(30) DEF DGroup!vars, DGroup!groupVars, DGroup!loopVars, DGroup!historyVars, dGroupVars
<1>1. CASE GatewayNext /\ UNCHANGED <<dispatcherVars, workerVars>>
  <2> PICK t \in Tasks : SubmitTask(t) \/ SubmitStep(t) \/ Disconnect(t)
      BY <1>1, ZenonT(30) DEF GatewayNext
  <2>1. CASE SubmitPublish(t)
    <3>1. CASE pending' = pending
        BY <1>0, <1>1, <3>1, ZenonT(30)
    <3>2. CASE /\ Len(pending[PartitionOf[t]]) < MaxLog
               /\ pending' = [pending EXCEPT ![PartitionOf[t]] = Append(@, t)]
        BY <1>t, <1>1, <3>2, PendingGrows, DomainAssumption, ZenonT(30) DEF Bodies
    <3> QED
        BY <2>1, <3>1, <3>2, ZenonT(30) DEF SubmitPublish, PublishPending
  <2>2. CASE ~SubmitPublish(t)
      BY <1>0, <1>1, <2>2, ZenonT(30) DEF SubmitTask, SubmitStep, SubmitMeta, SubmitStatus, SubmitCreate, Disconnect
  <2> QED
      BY <2>1, <2>2, ZenonT(30)
<1>2. CASE DispatcherNext /\ UNCHANGED <<gatewayVars, workerVars>>
  <2>1. ASSUME NEW d \in Dispatchers, RouteReceive(d) \/ RouteQueued(d) \/ RouteDLQ(d)
               \/ RouteCommit(d) \/ DispatcherExit(d) \/ DispatcherDie(d)
               \/ DispatcherSignal(d) \/ DispatcherStart(d)
        PROVE DGroup!Next
      BY <2>1, ZenonT(30) DEF RouteReceive, RouteQueued, RouteDLQ, RouteCommit, DispatcherExit, DispatcherDie,
                  DispatcherSignal, DispatcherStart, DGroup!Next, DGroup!SubscribeStep
  <2>2. ASSUME NEW d \in Dispatchers, RouteLimit(d) \/ RoutePublish(d)
        PROVE [DGroup!Next]_(DGroup!vars)
      BY <1>0, <2>2, ZenonT(30) DEF RouteLimit, RoutePublish, DGroup!Next, DGroup!SubscribeStep
  <2>3. CASE DispatcherReassign \/ DispatcherDisturb
      BY <2>3 DEF DispatcherReassign, DispatcherDisturb, DGroup!Next
  <2> QED
      BY <1>2, <2>1, <2>2, <2>3, ZenonT(30) DEF DispatcherNext, RouteStep
<1>3. CASE WorkerNext /\ UNCHANGED <<gatewayVars, dispatcherVars>>
  <2>1. ASSUME NEW w \in Workers, ProcessStep(w) \/ Die(w) \/ Signal(w) \/ Start(w)
        PROVE UNCHANGED pending
      BY <2>1, ZenonT(30) DEF ProcessStep, Receive, Discard, CheckStatus, NoHandlerStatus, NoHandlerDLQ,
                  SetRunning, HandlerSucceeds, HandlerFails, OnRetry, Backoff, FinishStatus,
                  FinishMeta, FinishRecord, FinishUpdate, FinishDLQ, Commit, Exit, Die, Signal, Start
  <2>2. ASSUME Reassign \/ Disturb PROVE UNCHANGED pending
      BY <2>2, ZenonT(30) DEF Reassign, Disturb
  <2> QED
      BY <1>0, <1>3, <2>1, <2>2 DEF WorkerNext
<1>4. ASSUME NEW m \in Foreigners, NEW p \in Partitions, Foreign(m, p),
             UNCHANGED <<gatewayVars, dispatcherVars, workerVars>>
      PROVE DGroup!Next
  <2>1. m \in Bodies
      BY TaskFlowAssumption, ZenonT(30) DEF Bodies
  <2> QED
      BY <1>t, <1>4, <2>1, PendingGrows, ZenonT(30) DEF Foreign
<1>5. CASE UNCHANGED vars \/ (Expiry /\ UNCHANGED <<gatewayVars, dispatcherVars, workerVars>>)
    BY <1>0, <1>5, ZenonT(30) DEF vars, Expiry
<1> QED
    BY <1>1, <1>2, <1>3, <1>4, <1>5, ZenonT(30) DEF Next

\* Every step of the services is a step of the workers' group, or none: only a
\* task with a type gets to the publish of route.
LEMMA WGroupSimulation == TypeOK /\ DGroup!IInv /\ RouteInv /\ [Next]_vars => [Group!Next]_(Group!vars)
<1> SUFFICES ASSUME TypeOK, DGroup!IInv, RouteInv, [Next]_vars PROVE [Group!Next]_(Group!vars)
    OBVIOUS
<1> USE DEF workerVars, backendVars, topicVars
<1>t. TopicsTypeOK
    BY DEF TypeOK, WorkerTypeOK, BackendsTypeOK
<1>0. ASSUME UNCHANGED <<work, wGroupVars>> PROVE UNCHANGED Group!vars
    BY <1>0, ZenonT(30) DEF Group!vars, Group!groupVars, Group!loopVars, Group!historyVars, wGroupVars, wLoopVars
<1>1. CASE GatewayNext /\ UNCHANGED <<dispatcherVars, workerVars>>
    BY <1>0, <1>1, ZenonT(30) DEF GatewayNext, SubmitTask, SubmitStep, SubmitMeta, SubmitStatus, SubmitCreate,
                      SubmitPublish, Disconnect
<1>2. CASE DispatcherNext /\ UNCHANGED <<gatewayVars, workerVars>>
  <2>1. ASSUME NEW d \in Dispatchers, RoutePublish(d) PROVE [Group!Next]_(Group!vars)
    <3> DEFINE t == DBody(d)
    <3>1. t \in Tasks /\ TypeOf[t] \in Types /\ PartitionOf[t] \in Partitions
        BY <2>1, DomainAssumption, ZenonT(30) DEF RoutePublish, RouteInv
    <3>2. CASE work' = work
        BY <1>0, <1>2, <3>2, ZenonT(30)
    <3>3. CASE /\ Len(work[TypeOf[t]][PartitionOf[t]]) < MaxLog
               /\ work' = [work EXCEPT ![TypeOf[t]][PartitionOf[t]] = Append(@, t)]
      <4> HIDE DEF t
      <4> QED
        BY <1>t, <1>2, <3>1, <3>3, WorkGrows, ZenonT(30) DEF Bodies
    <3> QED
        BY <2>1, <3>2, <3>3, ZenonT(30) DEF RoutePublish, PublishWork
  <2>2. ASSUME NEW d \in Dispatchers, ~RoutePublish(d),
               RouteStep(d) \/ DispatcherDie(d) \/ DispatcherSignal(d) \/ DispatcherStart(d)
        PROVE UNCHANGED work
      BY <2>2, ZenonT(30) DEF RouteStep, RouteReceive, RouteLimit, RouteQueued, RouteDLQ, RouteCommit,
                  DispatcherExit, DispatcherDie, DispatcherSignal, DispatcherStart
  <2>3. ASSUME DispatcherReassign \/ DispatcherDisturb PROVE UNCHANGED work
      BY <2>3, ZenonT(30) DEF DispatcherReassign, DispatcherDisturb
  <2> QED
      BY <1>0, <1>2, <2>1, <2>2, <2>3, ZenonT(30) DEF DispatcherNext
<1>3. CASE WorkerNext /\ UNCHANGED <<gatewayVars, dispatcherVars>>
    BY <1>3, WorkerGroupSteps, ZenonT(30)
<1>4. ASSUME NEW m \in Foreigners, NEW p \in Partitions, Foreign(m, p),
             UNCHANGED <<gatewayVars, dispatcherVars, workerVars>>
      PROVE UNCHANGED Group!vars
    BY <1>0, <1>4, ZenonT(30) DEF Foreign
<1>5. CASE UNCHANGED vars \/ (Expiry /\ UNCHANGED <<gatewayVars, dispatcherVars, workerVars>>)
    BY <1>0, <1>5, ZenonT(30) DEF vars, Expiry
<1> QED
    BY <1>1, <1>2, <1>3, <1>4, <1>5, ZenonT(30) DEF Next

-----------------------------------------------------------------------------
(* The theorems *)

\* Nothing has been submitted, and nobody has anything in its hands.
LEMMA FlowInit == Init => FlowInv
<1> SUFFICES ASSUME Init PROVE FlowInv
    OBVIOUS
<1>1. BackendsTypeOK /\ GatewayTypeOK /\ dStep \in [Dispatchers -> DSteps] /\ RunTypeOK
  <2>1. BackendsTypeOK
      BY CallsAssumption
         DEF Init, BackendsInit, BackendsTypeOK, StoreTypeOK, RepoTypeOK, TopicsTypeOK
  <2>2. GatewayTypeOK /\ dStep \in [Dispatchers -> DSteps]
      BY DEF Init, GatewayInit, DispatcherInit, GatewayTypeOK, RequestSteps, DSteps
  <2>3. RunTypeOK
      BY MaxAttemptsType DEF Init, WorkerInit, RunTypeOK, Steps
  <2> QED
      BY <2>1, <2>2, <2>3
<1>2. DGroup!Init
    BY ZenonT(30) DEF Init, DispatcherInit
<1>3. Group!Init
    BY DEF Init, WorkerInit
<1>4. DGroup!IInv /\ Group!IInv
    BY <1>2, <1>3, DGroupInit, WGroupInit
<1>5. TypeOK
    BY <1>1, <1>4, ZenonT(30) DEF TypeOK, DispatcherTypeOK, WorkerTypeOK, DGroup!IInv, Group!IInv
<1>6. RoutingInv
    BY <1>2 DEF Init, BackendsInit, DispatcherInit, DGroup!Init, RoutingInv, RouteInv, PlacedInv,
           RoutedIsSomewhere, WorkIsRouted
<1>7. RecordsInv
  <2>1. CallInv /\ RetryInv /\ OutcomeInv
      BY ZenonT(30) DEF Init, WorkerInit, CallInv, RetryInv, OutcomeInv, Finishing
  <2>2. StatusTrue /\ MetaTrue /\ RowTrue /\ ExecutionsTrue
    <3>1. NotFound \notin {"DONE", "DEAD"}
        BY DomainAssumption DEF Statuses
    <3>2. \A t \in Tasks : /\ status[t] = NotFound /\ meta[t] = NotFound /\ row[t] = NotFound
                           /\ executions[t] = <<>>
        BY DEF Init, BackendsInit
    <3>3. StatusTrue /\ MetaTrue /\ RowTrue
        BY <3>1, <3>2, ZenonT(30) DEF StatusTrue, MetaTrue, RowTrue
    <3>4. ExecutionsTrue
        BY <3>2 DEF ExecutionsTrue
    <3> QED
        BY <3>3, <3>4
  <2> QED
      BY <2>1, <2>2, RecordSplit DEF RecordsInv
<1>8. SubmitInv
    BY DomainAssumption DEF Init, BackendsInit, GatewayInit, WorkerInit, SubmitInv, PendingBodies, Submitted
<1>9. ReturnedInv
  <2>1. NotFound # "FAILED"
      BY DomainAssumption DEF Statuses
  <2>2. wAccepted = [p \in Partitions |-> {}]
      BY <1>3, ZenonT(30) DEF Group!Init
  <2> QED
      BY <2>1, <2>2 DEF Init, BackendsInit, WorkerInit, ReturnedInv
<1> QED
    BY <1>4, <1>5, <1>6, <1>7, <1>8, <1>9, ZenonT(30) DEF FlowInv

\* Every step of the services keeps the invariant of the whole.
LEMMA FlowStep == FlowInv /\ [Next]_vars => FlowInv'
<1> SUFFICES ASSUME FlowInv, [Next]_vars PROVE FlowInv'
    OBVIOUS
<1>1. DGroup!IInv'
    BY DGroupSimulation, DGroupStep, ZenonT(30) DEF FlowInv
<1>2. Group!IInv'
    BY WGroupSimulation, WGroupStep, ZenonT(30) DEF FlowInv, RoutingInv
<1>3. DGroup!TypeOK' /\ Group!TypeOK'
    BY <1>1, <1>2, ZenonT(30) DEF DGroup!IInv, Group!IInv
<1>4. TypeOK'
    BY <1>3, TypeStep, ZenonT(30)
<1>5. ReturnedInv'
  <2>1. WorkerNext \/ UNCHANGED workerVars
      BY ZenonT(30) DEF Next, vars
  <2>2. \A p \in Partitions : /\ work[WorkerType][p] \in Seq(Bodies)
                              /\ work'[WorkerType][p] \in Seq(Bodies)
                              /\ Len(work[WorkerType][p]) <= Len(work'[WorkerType][p])
      BY WorkKept, WorkerAssumption
  <2>3. NotFound # "FAILED"
      BY DomainAssumption DEF Statuses
  <2>4. \A t \in Tasks : status'[t] # "FAILED"
      BY <2>3, StatusChange, ZenonT(30) DEF FlowInv, ReturnedInv
  <2>5. ReturnedInv
      BY DEF FlowInv
  <2> QED
      BY <2>1, <2>2, <2>4, <2>5, InvOfWorkers, TopicIsKept, RecordsStep, ReturnedStep
<1> QED
    BY <1>1, <1>2, <1>4, <1>5, RoutingStep, RecordsStep, SubmitStepInv, ZenonT(30) DEF FlowInv

\* The invariant of the whole holds for any number of tasks, partitions,
\* dispatchers, workers, attempts and faults.
THEOREM FlowInvariance == Spec => []FlowInv
    BY FlowInit, FlowStep, PTL DEF Spec

\* The state of the services, of the topics and of the stores keeps its type.
THEOREM TypeCorrectness == Spec => []TypeOK
<1>1. FlowInv => TypeOK
    BY DEF FlowInv
<1> QED
    BY <1>1, FlowInvariance, PTL

\* The dispatchers reading tasks.pending and the workers reading their topic are
\* each a consumer group in the sense of KafkaConsumer, whatever the handlers
\* they pass to Subscribe do in between, so that what is proved of the loop
\* holds of both groups.
THEOREM GroupsAreConsumers == Spec => DGroup!Spec /\ Group!Spec
<1>1. Init => DGroup!Init /\ Group!Init
    BY DEF Init, DispatcherInit, WorkerInit
<1>2. FlowInv /\ [Next]_vars => [DGroup!Next]_(DGroup!vars) /\ [Group!Next]_(Group!vars)
    BY DGroupSimulation, WGroupSimulation DEF FlowInv, RoutingInv
<1> QED
    BY <1>1, <1>2, FlowInvariance, PTL DEF Spec, DGroup!Spec, Group!Spec

\* What the dispatchers and the workers make of the promise of Subscribe: a message
\* of tasks.pending is handled when route has returned for it, one of a worker
\* topic when processMessage has.
DPromise == INSTANCE AtLeastOnce WITH
    end <- [p \in Partitions |-> Len(pending[p])],
    handled <- [p \in Partitions |-> dAccepted[p] \cup dRejected[p]],
    mark <- dCommitted

WPromise == INSTANCE AtLeastOnce WITH
    end <- [p \in Partitions |-> Len(work[WorkerType][p])],
    handled <- [p \in Partitions |-> wAccepted[p] \cup wRejected[p]],
    mark <- wCommitted

\* A step of the dispatchers' loop is a step of their promise.
LEMMA DPromiseStep == DGroup!IInv /\ [DGroup!Next]_(DGroup!vars) => [DPromise!Next]_(DPromise!vars)
<1>1. DLoop!IInv /\ [DLoop!Next]_(DLoop!vars) => [DLoop!Promise!Next]_(DLoop!Promise!vars)
    BY DLoop!PromiseStep, DispatcherAssumption, DomainAssumption, TopicsAssumption, ZenonT(30)
       DEF DLoop!ConsumerAssumption
<1>2. [DLoop!Promise!Next]_(DLoop!Promise!vars) => [DPromise!Next]_(DPromise!vars)
    BY ZenonT(30) DEF DLoop!Promise!Next, DLoop!Promise!vars, DLoop!Promise!Append, DLoop!Promise!Handle,
           DLoop!Promise!Resume, DLoop!Handled,
           DPromise!Next, DPromise!vars, DPromise!Append, DPromise!Handle, DPromise!Resume
<1> QED
    BY <1>1, <1>2, DLoopInv, DLoopNext, PTL

\* A step of the workers' loop is a step of theirs.
LEMMA WPromiseStep == Group!IInv /\ [Group!Next]_(Group!vars) => [WPromise!Next]_(WPromise!vars)
<1>1. WLoop!IInv /\ [WLoop!Next]_(WLoop!vars) => [WLoop!Promise!Next]_(WLoop!Promise!vars)
    BY WLoop!PromiseStep, WorkerAssumption, DomainAssumption, TopicsAssumption, ZenonT(30)
       DEF WLoop!ConsumerAssumption
<1>2. [WLoop!Promise!Next]_(WLoop!Promise!vars) => [WPromise!Next]_(WPromise!vars)
    BY ZenonT(30) DEF WLoop!Promise!Next, WLoop!Promise!vars, WLoop!Promise!Append, WLoop!Promise!Handle,
           WLoop!Promise!Resume, WLoop!Handled,
           WPromise!Next, WPromise!vars, WPromise!Append, WPromise!Handle, WPromise!Resume
<1> QED
    BY <1>1, <1>2, WLoopInv, WLoopNext, PTL

\* At-least-once in the whole system: whatever the gateway, the dispatchers and the
\* workers do between themselves, both groups resume only after messages that
\* route or processMessage has returned for.
THEOREM GroupsKeepThePromise == Spec => DPromise!Spec /\ WPromise!Spec
<1>1. Init => DPromise!Init /\ WPromise!Init
    BY DEF Init, DispatcherInit, WorkerInit, DGroup!Init, Group!Init, DPromise!Init, WPromise!Init
<1>2. FlowInv /\ [Next]_vars => [DPromise!Next]_(DPromise!vars) /\ [WPromise!Next]_(WPromise!vars)
    BY DGroupSimulation, WGroupSimulation, DPromiseStep, WPromiseStep, ZenonT(30)
       DEF FlowInv, RoutingInv
<1> QED
    BY <1>1, <1>2, FlowInvariance, PTL DEF Spec, DPromise!Spec, WPromise!Spec

\* route returns nil only for a message that is in a worker topic or in the
\* dead-letter topic.
THEOREM NothingAcceptedIsLost == Spec => []RoutedIsSomewhere
<1>1. FlowInv => RoutedIsSomewhere
    BY DEF FlowInv, RoutingInv
<1> QED
    BY <1>1, FlowInvariance, PTL

\* Worker topics only have submitted tasks of their own type.
THEOREM WorkTopicsAreTyped == Spec => []WorkIsRouted
<1>1. FlowInv => WorkIsRouted
    BY ZenonT(30) DEF FlowInv, RoutingInv
<1> QED
    BY <1>1, FlowInvariance, PTL

\* The group of the dispatchers goes past a task that is in no topic in one way
\* only: route returned its error, and nil for a later message of the partition.
THEOREM LossHasOneCause == Spec => []LostWasSkipped
<1>1. FlowInv => LostWasSkipped
  <2> SUFFICES ASSUME FlowInv, NEW p \in Partitions, NEW o \in 0 .. dCommitted[p] - 1,
                      o \notin dAccepted[p]
               PROVE o \in dRejected[p] /\ \E later \in dAccepted[p] : later > o
      BY ZenonT(30) DEF LostWasSkipped, FlowInv, RoutingInv, RoutedIsSomewhere
  <2>1. dCommitted[p] \in Nat
      BY ZenonT(30) DEF FlowInv, DGroup!IInv, DGroup!TypeOK
  <2>2. o \in dRejected[p]
      BY ZenonT(30) DEF FlowInv, DGroup!IInv, DGroup!CommittedInv, DGroup!CommittedWasHandled, DGroup!Handled
  <2>3. dCommitted[p] > 0 => dCommitted[p] - 1 \in dAccepted[p]
      BY ZenonT(30) DEF FlowInv, DGroup!IInv, DGroup!CommittedInv, DGroup!ResumesAfterSuccess
  <2>4. dCommitted[p] - 1 \in dAccepted[p] /\ dCommitted[p] - 1 > o
      BY <2>1, <2>3, BelowTheLast, ZenonT(30)
  <2> QED
      BY <2>2, <2>4, ZenonT(30)
<1> QED
    BY <1>1, FlowInvariance, PTL

\* No store says DONE of a task no handler has executed.
THEOREM NoFalseDone == Spec => []DoneIsReal
<1>1. FlowInv => DoneIsReal
    BY DEF FlowInv, RecordsInv
<1> QED
    BY <1>1, FlowInvariance, PTL

\* No store says DEAD of a task that has a handler before one delivery of it
\* made every attempt.
THEOREM NoEarlyDead == Spec => []DeadIsEarned
<1>1. FlowInv => DeadIsEarned
    BY DEF FlowInv, RecordsInv
<1> QED
    BY <1>1, FlowInvariance, PTL

\* The attempts on record are calls of the handler, at most MaxAttempts of them.
THEOREM AttemptsAreTrue == Spec => []AttemptsAreCalls
<1>1. FlowInv => AttemptsAreCalls
    BY DEF FlowInv, RecordsInv
<1> QED
    BY <1>1, FlowInvariance, PTL

\* A task in a topic that the group no longer owes was handled without an error.
LEMMA NotOwedWasAccepted ==
    ASSUME NEW n \in Nat, NEW i \in Nat, i >= 1, i <= n, NEW A, NEW R,
           \A o \in 0 .. n - 1 : o \in A \cup R, i - 1 \notin R
    PROVE  i - 1 \in A
    OBVIOUS

\* "202 Accepted": what route and processMessage return nil for is in the next topic
\* or is done with, so that an accepted task can be followed from topic to topic.
THEOREM NothingSubmittedIsLost == Spec => []AcceptedIsAccounted
<1>1. FlowInv => AcceptedIsAccounted
  <2> SUFFICES ASSUME FlowInv, NEW t \in Tasks, request[t] = "accepted",
                      ~Owed(pending, dCommitted, dRejected, t),
                      ~Owed(work[WorkerType], wCommitted, wRejected, t),
                      t \notin dlq, ~(TypeOf[t] # WorkerType /\ t \in WorkBodies)
               PROVE t \in succeeded \cup exhausted \cup interrupted \/ TypeOf[t] \notin Registered
      BY ZenonT(30) DEF AcceptedIsAccounted
  <2>1. /\ \A p \in Partitions : pending[p] \in Seq(Bodies) /\ work[WorkerType][p] \in Seq(Bodies)
        /\ \A p \in Partitions : dCommitted[p] \in Nat /\ wCommitted[p] \in Nat
    <3>1. pending \in [Partitions -> Seq(Bodies)] /\ work \in [Types -> [Partitions -> Seq(Bodies)]]
        BY DEF FlowInv, TypeOK, WorkerTypeOK, BackendsTypeOK, TopicsTypeOK
    <3>2. dCommitted \in [Partitions -> Nat] /\ wCommitted \in [Partitions -> Nat]
        BY ZenonT(30) DEF FlowInv, DGroup!IInv, DGroup!TypeOK, Group!IInv, Group!TypeOK
    <3> QED
        BY <3>1, <3>2, WorkerAssumption
  <2>2. PICK p \in Partitions : \E i \in DOMAIN pending[p] : pending[p][i] = t
      BY ZenonT(30) DEF FlowInv, SubmitInv, PendingBodies
  <2>3. PICK i \in DOMAIN pending[p] : pending[p][i] = t
      BY <2>2
  <2>4. i \in Nat /\ i >= 1 /\ i <= dCommitted[p] /\ i - 1 \notin dRejected[p]
    <3>1. i \in Nat /\ i >= 1
        BY <2>1
    <3>2. ~(i > dCommitted[p]) /\ i - 1 \notin dRejected[p]
        BY <2>3, ZenonT(30) DEF Owed
    <3> QED
        BY <2>1, <3>1, <3>2
  <2>5. i - 1 \in dAccepted[p]
    <3>1. \A o \in 0 .. dCommitted[p] - 1 : o \in dAccepted[p] \cup dRejected[p]
        BY ZenonT(30) DEF FlowInv, DGroup!IInv, DGroup!CommittedInv, DGroup!CommittedWasHandled, DGroup!Handled
    <3> QED
        BY <2>1, <2>4, <3>1, NotOwedWasAccepted
  <2>6. t \in WorkBodies
    <3>1. (i - 1) + 1 = i
        BY <2>4
    <3>2. pending[p][(i - 1) + 1] \in WorkBodies \cup dlq
        BY <2>5, ZenonT(30) DEF FlowInv, RoutingInv, RoutedIsSomewhere
    <3> QED
        BY <2>3, <3>1, <3>2
  <2>7. PICK ty \in Types, q \in Partitions : \E j \in DOMAIN work[ty][q] : work[ty][q][j] = t
      BY <2>6, ZenonT(30) DEF WorkBodies
  <2>8. PICK j \in DOMAIN work[ty][q] : work[ty][q][j] = t
      BY <2>7
  <2>9. ty = WorkerType
      BY <2>6, <2>8, ZenonT(30) DEF FlowInv, RoutingInv, WorkIsRouted
  <2>10. j \in Nat /\ j >= 1 /\ j <= wCommitted[q] /\ j - 1 \notin wRejected[q]
    <3>1. j \in Nat /\ j >= 1
        BY <2>1, <2>9
    <3>2. ~(j > wCommitted[q]) /\ j - 1 \notin wRejected[q]
        BY <2>8, <2>9, ZenonT(30) DEF Owed
    <3> QED
        BY <2>1, <3>1, <3>2
  <2>11. j - 1 \in wAccepted[q]
    <3>1. \A o \in 0 .. wCommitted[q] - 1 : o \in wAccepted[q] \cup wRejected[q]
        BY ZenonT(30) DEF FlowInv, Group!IInv, Group!CommittedInv, Group!CommittedWasHandled, Group!Handled
    <3> QED
        BY <2>1, <2>10, <3>1, NotOwedWasAccepted
  <2>12. work[WorkerType][q][(j - 1) + 1] = t
    <3>1. (j - 1) + 1 = j
        BY <2>10
    <3> QED
        BY <2>8, <2>9, <3>1
  <2> QED
      BY <2>11, <2>12, ZenonT(30) DEF FlowInv, ReturnedInv
<1> QED
    BY <1>1, FlowInvariance, PTL

\* Nothing the gateway writes comes after what a dispatcher or a worker writes
\* of the same task.
THEOREM GatewayIsFirst == Spec => GatewayWritesFirst
<1> DEFINE Kept ==
        \A t \in Tasks :
            /\ status[t] \notin {NotFound, "PENDING"} => status'[t] # "PENDING"
            /\ row[t] # NotFound /\ row[t].completed => row'[t] # NewTask
            /\ t \in succeeded => (row'[t] = NotFound <=> row[t] = NotFound)
<1>1. FlowInv /\ [Next]_vars => Kept
  <2> SUFFICES ASSUME FlowInv, [Next]_vars, NEW t \in Tasks
               PROVE /\ status[t] \notin {NotFound, "PENDING"} => status'[t] # "PENDING"
                     /\ row[t] # NotFound /\ row[t].completed => row'[t] # NewTask
                     /\ t \in succeeded => (row'[t] = NotFound <=> row[t] = NotFound)
      BY ZenonT(30)
  <2>1. /\ status[t] \notin {NotFound, "PENDING"} \/ t \in succeeded \cup exhausted => Submitted(t)
        /\ row[t] # NotFound /\ row[t].completed => t \in succeeded \cup exhausted
      BY ZenonT(30) DEF FlowInv, SubmitInv
  <2>2. status[t] \notin {NotFound, "PENDING"} => status'[t] # "PENDING"
    <3>1. NotFound # "PENDING"
        BY DomainAssumption DEF Statuses
    <3> QED
        BY <2>1, <3>1, StatusChange, ZenonT(30) DEF Submitted
  <2>3. row[t] # NotFound /\ row[t].completed => row'[t] # NewTask
    <3>1. ~NewTask.completed
        BY DEF NewTask
    <3> QED
        BY <2>1, <3>1, RowChange, ZenonT(30) DEF Submitted
  <2>4. t \in succeeded => (row'[t] = NotFound <=> row[t] = NotFound)
      BY <2>1, RowChange, ZenonT(30) DEF Submitted
  <2> QED
      BY <2>2, <2>3, <2>4, ZenonT(30)
<1> HIDE DEF Kept
<1>2. [][Kept]_vars => GatewayWritesFirst
    BY PTL DEF GatewayWritesFirst, Kept
<1> QED
    BY <1>1, <1>2, FlowInvariance, PTL DEF Spec

-----------------------------------------------------------------------------
(* What the gateway may assume of the records *)

\* A call of the stores is one of the writes of TaskRecords, or writes nothing.
LEMMA StatusIsReported ==
    ASSUME NEW live, NEW t, NEW s \in {"QUEUED", "RUNNING", "RETRYING", "DONE", "DEAD"}, NEW ok,
           SetStatus(live, t, s, ok), UNCHANGED <<meta, row>>
    PROVE  UNCHANGED Records!recordVars \/ Records!RecordStep(t)
<1>1. s \in Records!Statuses
    BY DEF Records!Statuses
<1>2. UNCHANGED status \/ status' = [status EXCEPT ![t] = s]
    BY ZenonT(30) DEF SetStatus
<1> QED
    BY <1>1, <1>2, ZenonT(30) DEF Records!recordVars, Records!RecordStep, Records!Report

LEMMA MetaIsConcluded ==
    ASSUME NEW live, NEW t, NEW s \in {"DONE", "DEAD"}, NEW n \in 1 .. MaxAttempts, NEW ok,
           SetTaskMeta(live, t, [status |-> s, attempts |-> n, completed |-> s = "DONE"], ok),
           UNCHANGED <<status, row>>
    PROVE  UNCHANGED Records!recordVars \/ Records!RecordStep(t)
<1>1. s \in Records!Statuses
    BY DEF Records!Statuses
<1> DEFINE m == [status |-> s, attempts |-> n, completed |-> s = "DONE"]
<1>2. UNCHANGED meta \/ meta' = [meta EXCEPT ![t] = m]
    BY ZenonT(30) DEF SetTaskMeta
<1> QED
    BY <1>1, <1>2, ZenonT(30) DEF Records!recordVars, Records!RecordStep, Records!Conclude

LEMMA RowIsClosed ==
    ASSUME NEW live, NEW t, NEW s \in {"DONE", "DEAD"}, NEW ok,
           UpdateStatus(live, t, s, ok), UNCHANGED <<status, meta>>
    PROVE  UNCHANGED Records!recordVars \/ Records!RecordStep(t)
<1>1. s \in Records!Statuses
    BY DEF Records!Statuses
<1>2. UNCHANGED row \/ row' = [row EXCEPT ![t] = UpdatedRow(row[t], s)]
    BY ZenonT(30) DEF UpdateStatus
<1>3. UpdatedRow(row[t], s) = Records!UpdatedRow(row[t], s)
    BY DEF UpdatedRow, Records!UpdatedRow, IsTerminal, Records!IsTerminal
<1> QED
    BY <1>1, <1>2, <1>3, ZenonT(30) DEF Records!recordVars, Records!RecordStep, Records!Close

\* What a worker writes, of the task it has in its hands.
LEMMA WorkerWritesRecords ==
    ASSUME FlowInv, WorkerNext
    PROVE  \/ UNCHANGED Records!recordVars
           \/ \E w \in Workers : step[w] \notin {"idle", "check"} /\ Records!RecordStep(Body(w))
<1> USE DEF backendVars, storeVars, repoVars
<1>0. ASSUME UNCHANGED <<status, meta, row>> PROVE UNCHANGED Records!recordVars
    BY <1>0 DEF Records!recordVars
<1>1. ASSUME NEW w \in Workers
      PROVE  FinalStatus(w) \in {"DONE", "DEAD"} /\ (~execErr[w] <=> FinalStatus(w) = "DONE")
    BY DEF FinalStatus
<1>2. ASSUME NEW w \in Workers, NoHandlerStatus(w) \/ SetRunning(w) \/ OnRetry(w) \/ FinishStatus(w)
      PROVE  \/ UNCHANGED Records!recordVars
             \/ step[w] \notin {"idle", "check"} /\ Records!RecordStep(Body(w))
  <2>1. step[w] \notin {"idle", "check"} /\ UNCHANGED <<meta, row>>
      BY <1>2, ZenonT(30) DEF NoHandlerStatus, SetRunning, OnRetry, FinishStatus
  <2>2. PICK s \in {"QUEUED", "RUNNING", "RETRYING", "DONE", "DEAD"}, ok \in BOOLEAN :
               SetStatus(Live(w), Body(w), s, ok)
      BY <1>1, <1>2, ZenonT(30) DEF NoHandlerStatus, SetRunning, OnRetry, FinishStatus
  <2> QED
      BY <2>1, <2>2, StatusIsReported, ZenonT(30)
<1>3. ASSUME NEW w \in Workers, FinishMeta(w)
      PROVE  \/ UNCHANGED Records!recordVars
             \/ step[w] \notin {"idle", "check"} /\ Records!RecordStep(Body(w))
  <2>1. step[w] = "finishMeta" /\ UNCHANGED <<status, row>>
      BY <1>3, ZenonT(30) DEF FinishMeta
  <2>2. attempts[w] \in 1 .. MaxAttempts
      BY <2>1 DEF FlowInv, RecordsInv, RetryInv, Finishing
  <2>3. execErr[w] \in BOOLEAN
      BY InvOfWorkers, FinalType
  <2>4. (~execErr[w]) = (FinalStatus(w) = "DONE")
      BY <2>3 DEF FinalStatus
  <2>5. PICK ok \in BOOLEAN :
               SetTaskMeta(Live(w), Body(w),
                           [status |-> FinalStatus(w), attempts |-> attempts[w],
                            completed |-> FinalStatus(w) = "DONE"], ok)
      BY <1>3, <2>4, ZenonT(30) DEF FinishMeta
  <2> QED
      BY <1>1, <2>1, <2>2, <2>5, MetaIsConcluded, ZenonT(30)
<1>4. ASSUME NEW w \in Workers, FinishUpdate(w)
      PROVE  \/ UNCHANGED Records!recordVars
             \/ step[w] \notin {"idle", "check"} /\ Records!RecordStep(Body(w))
  <2>1. step[w] = "finishUpdate" /\ UNCHANGED <<status, meta>>
      BY <1>4, ZenonT(30) DEF FinishUpdate
  <2>2. PICK ok \in BOOLEAN : UpdateStatus(Live(w), Body(w), FinalStatus(w), ok)
      BY <1>4, ZenonT(30) DEF FinishUpdate
  <2> QED
      BY <1>1, <2>1, <2>2, RowIsClosed, ZenonT(30)
<1> QED
    BY <1>0, <1>2, <1>3, <1>4, ZenonT(30)
       DEF WorkerNext, ProcessStep, Receive, Discard, CheckStatus, NoHandlerDLQ, HandlerSucceeds,
           HandlerFails, Backoff, FinishRecord, FinishDLQ, Commit, Exit, Die, Signal, Start, Reassign,
           Disturb

\* What a dispatcher writes, of the task it has routed.
LEMMA DispatcherWritesRecords ==
    ASSUME FlowInv, DispatcherNext
    PROVE  \/ UNCHANGED Records!recordVars
           \/ \E d \in Dispatchers : dStep[d] = "queued" /\ Records!RecordStep(DBody(d))
<1> USE DEF backendVars, storeVars, repoVars
<1>0. ASSUME UNCHANGED <<status, meta, row>> PROVE UNCHANGED Records!recordVars
    BY <1>0 DEF Records!recordVars
<1>1. ASSUME NEW d \in Dispatchers, RouteQueued(d)
      PROVE  UNCHANGED Records!recordVars \/ (dStep[d] = "queued" /\ Records!RecordStep(DBody(d)))
  <2>1. PICK ok \in BOOLEAN : SetStatus(DLive(d), DBody(d), "QUEUED", ok)
      BY <1>1, ZenonT(30) DEF RouteQueued
  <2>2. dStep[d] = "queued" /\ UNCHANGED <<meta, row>>
      BY <1>1, ZenonT(30) DEF RouteQueued
  <2> QED
      BY <2>1, <2>2, StatusIsReported, ZenonT(30)
<1> QED
    BY <1>0, <1>1, ZenonT(30)
       DEF DispatcherNext, RouteStep, RouteReceive, RouteLimit, RoutePublish, RouteDLQ, RouteCommit,
           DispatcherExit, DispatcherDie, DispatcherSignal, DispatcherStart, DispatcherReassign,
           DispatcherDisturb

\* TaskRecords is all that the dispatchers and the workers do to the records, and
\* only for tasks that are in tasks.pending; the gateway writes before, and a key
\* may expire.  The gateway reads in this environment (GatewayServer).
THEOREM PipelineWritesRecords == Spec => RecordsAreThePipelines
<1> DEFINE Written ==
        \/ UNCHANGED Records!recordVars
        \/ \E t \in PendingBodies \cap Tasks : Records!RecordStep(t)
        \/ \E t \in Tasks : Expire(t) /\ UNCHANGED row
        \/ \E t \in Tasks \ PendingBodies : SubmitStep(t)
<1>1. FlowInv /\ [Next]_vars => Written
  <2> SUFFICES ASSUME FlowInv, [Next]_vars PROVE Written
      OBVIOUS
  <2>1. CASE GatewayNext
    <3>1. PICK t \in Tasks : SubmitTask(t) \/ SubmitStep(t) \/ Disconnect(t)
        BY <2>1 DEF GatewayNext
    <3>2. CASE SubmitStep(t)
      <4>1. request[t] \in {"meta", "status", "create", "publish"}
          BY <3>2, ZenonT(30) DEF SubmitStep, SubmitMeta, SubmitStatus, SubmitCreate, SubmitPublish
      <4>2. t \notin PendingBodies
          BY <4>1, ZenonT(30) DEF FlowInv, SubmitInv, Submitted
      <4> QED
          BY <3>2, <4>2
    <3> QED
        BY <3>1, <3>2, ZenonT(30)
           DEF SubmitTask, Disconnect, backendVars, storeVars, repoVars, Records!recordVars
  <2>2. CASE DispatcherNext
    <3>1. ASSUME NEW d \in Dispatchers, dStep[d] = "queued" PROVE DBody(d) \in PendingBodies \cap Tasks
        BY <3>1, RoutedIsPending, ZenonT(30)
    <3> QED
        BY <2>2, <3>1, DispatcherWritesRecords, ZenonT(30)
  <2>3. CASE WorkerNext
    <3>1. ASSUME NEW w \in Workers, step[w] \notin {"idle", "check"}
          PROVE Body(w) \in PendingBodies \cap Tasks
        BY <3>1, ExecutedIsPending, ZenonT(30)
    <3> QED
        BY <2>3, <3>1, WorkerWritesRecords, ZenonT(30)
  <2>4. CASE Expiry
      BY <2>4, ZenonT(30) DEF Expiry, repoVars
  <2> QED
      BY <2>1, <2>2, <2>3, <2>4, ZenonT(30)
         DEF Next, Foreign, vars, backendVars, storeVars, repoVars, Records!recordVars
<1> HIDE DEF Written
<1>2. [][Written]_vars => RecordsAreThePipelines
    BY PTL DEF RecordsAreThePipelines, Written
<1> QED
    BY <1>1, <1>2, FlowInvariance, PTL DEF Spec

-----------------------------------------------------------------------------
(* How long a message takes, and what the dead-letter topic holds *)

\* processMessage is bounded: for one delivery it makes at most three calls for
\* each attempt and five more, and no step of any service, no failing call, no
\* signal and no rebalance makes it go back or start over.  It is over when no
\* call is left.
THEOREM DeliveryIsBounded ==
    Spec => /\ [](\A w \in Workers : CallsLeft(w) \in 0 .. 3 * MaxAttempts + 5)
            /\ [](\A w \in Workers : CallsLeft(w) = 0 <=> step[w] = "idle")
            /\ [][\A w \in Workers : GoesOn(w)]_vars
<1>1. FlowInv => /\ \A w \in Workers : CallsLeft(w) \in 0 .. 3 * MaxAttempts + 5
                 /\ \A w \in Workers : CallsLeft(w) = 0 <=> step[w] = "idle"
    BY InvOfWorkers, LeftBounds, ZenonT(30)
<1>2. FlowInv /\ [Next]_vars => \A w \in Workers : GoesOn(w)
  <2> SUFFICES ASSUME FlowInv, [Next]_vars PROVE \A w \in Workers : GoesOn(w)
      OBVIOUS
  <2>1. CASE WorkerNext
      BY <2>1, InvOfWorkers, WorkerMoves, MovesGoOn, ZenonT(30)
  <2>2. CASE UNCHANGED workerVars
      BY <2>2, ZenonT(30) DEF workerVars, runVars, GoesOn
  <2> QED
      BY <2>1, <2>2, ZenonT(30) DEF Next, vars
<1> QED
    BY <1>1, <1>2, FlowInvariance, PTL DEF Spec

\* A worker whose context is live puts there what used up its attempts or has no
\* handler.
LEMMA DeadLetterStep ==
    ASSUME Unlimited, FlowInv, DeadLetterInv, [Next]_vars
    PROVE  DeadLetterInv'
<1>0. Grow /\ \A w \in Workers : RunOK(w)
    BY RecordsStep, RecordsSplit, ZenonT(30) DEF FlowInv
<1>1. \A w \in Workers : ~wCancelled'[w] /\ (step'[w] = "finishDLQ" => execErr'[w])
  <2>1. CASE WorkerNext
      BY <2>1, InvOfWorkers, WorkersStayLive, OnlyFailuresGoThere, ZenonT(30) DEF DeadLetterInv, Unlimited
  <2>2. CASE UNCHANGED workerVars
      BY <2>2, ZenonT(30) DEF DeadLetterInv, workerVars, wGroupVars, wLoopVars, runVars
  <2> QED
      BY <2>1, <2>2, ZenonT(30) DEF Next, vars
<1>2. \A d \in Dispatchers : GivesUpRightly(d)'
    BY <1>0, RouteGivesUp, ZenonT(30) DEF DeadLetterInv
<1>3. ASSUME NEW t \in Tasks, t \in dlq' PROVE Earned(t)'
  <2>1. Earned(t) => Earned(t)'
      BY <1>0, ZenonT(30) DEF Earned, Grow
  <2>2. CASE t \in dlq
      BY <2>1, <2>2, ZenonT(30) DEF DeadLetterInv, DeadLettersEarned
  <2>3. ASSUME NEW d \in Dispatchers, dStep[d] = "dlq", t = DBody(d) PROVE Earned(t)
      BY <2>3, ZenonT(30) DEF DeadLetterInv, GivesUpRightly
  <2>4. ASSUME NEW w \in Workers, step[w] = "noHandlerDLQ", t = Body(w) PROVE Earned(t)
      BY <1>0, <2>4, ZenonT(30) DEF RunOK, Earned
  <2>5. ASSUME NEW w \in Workers, step[w] = "finishDLQ", t = Body(w) PROVE Earned(t)
    <3>1. execErr[w] /\ ~wCancelled[w] /\ Finishing(w)
        BY <2>5, ZenonT(30) DEF DeadLetterInv, Finishing
    <3> QED
        BY <1>0, <2>5, <3>1, ZenonT(30) DEF RunOK, Earned
  <2> QED
      BY <1>3, <2>1, <2>2, <2>3, <2>4, <2>5, DeadLetterChange, ZenonT(30)
<1> QED
    BY <1>1, <1>2, <1>3, ZenonT(30) DEF DeadLetterInv, DeadLettersEarned

\* finishFailure, the missing handler and toDLQ: without a rate limiter and without
\* signals to the workers, a task is in tasks.dlq only when one delivery of it made
\* every configured attempt or nobody handles its type, whatever calls fail and
\* processes crash.  A signal during a backoff makes this false: the publish on the
\* cancelled context may be written although the attempts are not used up.
THEOREM NoEarlyDeadLetter ==
    ASSUME Unlimited
    PROVE  Spec => []DeadLettersEarned
<1>1. Init => DeadLetterInv
    BY ZenonT(30) DEF Init, BackendsInit, DispatcherInit, WorkerInit, Group!Init, DeadLetterInv,
           GivesUpRightly, DeadLettersEarned
<1>2. FlowInv /\ DeadLetterInv /\ [Next]_vars => DeadLetterInv'
    BY DeadLetterStep
<1>3. DeadLetterInv => DeadLettersEarned
    BY DEF DeadLetterInv
<1> QED
    BY <1>1, <1>2, <1>3, FlowInvariance, PTL DEF Spec

=============================================================================
