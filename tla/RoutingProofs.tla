--------------------------- MODULE RoutingProofs ----------------------------
(***************************************************************************)
(* The type invariant of TaskFlow, and RoutingInv: no task that route has  *)
(* returned nil for is lost, and none is misrouted.                        *)
(***************************************************************************)
EXTENDS TaskFlow, WorkerProofs

\* The invariant of the whole has that of the workers in it.
LEMMA InvOfWorkers == FlowInv => WorkerInv
    BY DEF FlowInv, TypeOK, WorkerInv

-----------------------------------------------------------------------------
(* The messages in the hands of the dispatchers *)

\* What a dispatcher is handling is a message of tasks.pending.
LEMMA DispatcherHolds ==
    ASSUME FlowInv, NEW d \in Dispatchers, dPhase[d] = "handle"
    PROVE  /\ dInflight[d] \in DGroup!Messages
           /\ dInflight[d].partition \in Partitions
           /\ dInflight[d].offset \in Nat
           /\ dInflight[d].offset + 1 \in 1 .. Len(pending[dInflight[d].partition])
           /\ DBody(d) \in Bodies
<1>1. pending \in [Partitions -> Seq(Bodies)]
    BY DEF FlowInv, TypeOK, WorkerTypeOK, BackendsTypeOK, TopicsTypeOK
<1>2. dInflight[d] # None /\ dInflight[d] \in DGroup!Messages
    BY ZenonT(30) DEF FlowInv, DGroup!IInv, DGroup!LoopInv, DGroup!TypeOK
<1>3. dInflight[d].partition \in Partitions /\ dInflight[d].offset \in Nat
    BY <1>2 DEF DGroup!Messages
<1>4. dInflight[d].offset < Len(pending[dInflight[d].partition])
    BY <1>2, <1>3, ZenonT(30) DEF FlowInv, DGroup!IInv, DGroup!InflightInv
<1>5. pending[dInflight[d].partition] \in Seq(Bodies)
    BY <1>1, <1>3
<1>6. dInflight[d].offset + 1 \in 1 .. Len(pending[dInflight[d].partition])
    BY <1>3, <1>4, <1>5
<1> QED
    BY <1>2, <1>3, <1>5, <1>6 DEF DBody

-----------------------------------------------------------------------------
(* The type invariant *)

\* The steps of SubmitTask keep the backends in their types.
LEMMA GatewayStepType == FlowInv /\ GatewayNext => BackendsTypeOK' /\ GatewayTypeOK'
<1> SUFFICES ASSUME FlowInv, NEW t \in Tasks, SubmitTask(t) \/ SubmitStep(t) \/ Disconnect(t)
             PROVE  BackendsTypeOK' /\ GatewayTypeOK'
    BY DEF GatewayNext
<1>0. BackendsTypeOK /\ GatewayTypeOK /\ faults \in 0 .. MaxFaults
    BY DEF FlowInv, TypeOK, WorkerTypeOK, BackendsTypeOK
<1>1. GatewayTypeOK'
    BY <1>0, ZenonT(30) DEF GatewayTypeOK, RequestSteps, SubmitTask, SubmitStep, SubmitMeta, SubmitStatus,
                SubmitCreate, SubmitPublish, Disconnect, To
<1>2. CASE SubmitTask(t)
    BY <1>0, <1>1, <1>2, NoCallType DEF SubmitTask, backendVars
<1>3. CASE SubmitMeta(t)
    BY <1>0, <1>1, <1>3, SetTaskMetaType, NewTaskType, ZenonT(30) DEF SubmitMeta
<1>4. CASE SubmitStatus(t)
    BY <1>0, <1>1, <1>4, SetStatusType, ZenonT(30) DEF SubmitStatus, Statuses
<1>5. CASE SubmitCreate(t)
    BY <1>0, <1>1, <1>5, CreateType DEF SubmitCreate
<1>6. CASE SubmitPublish(t)
    BY <1>0, <1>1, <1>6, PublishPendingType, ZenonT(30) DEF SubmitPublish
<1>7. CASE Disconnect(t)
  <2>1. faults' \in 0 .. MaxFaults
      BY <1>0, <1>7, CallsAssumption DEF Disconnect
  <2> QED
      BY <1>0, <1>1, <1>7, <2>1, NoCallType DEF Disconnect
<1> QED
    BY <1>2, <1>3, <1>4, <1>5, <1>6, <1>7 DEF SubmitStep

\* The steps of route keep them too.
LEMMA DispatcherStepType ==
    FlowInv /\ DispatcherNext => BackendsTypeOK' /\ dStep' \in [Dispatchers -> DSteps]
<1> SUFFICES ASSUME FlowInv, DispatcherNext
             PROVE  BackendsTypeOK' /\ dStep' \in [Dispatchers -> DSteps]
    OBVIOUS
<1>0. BackendsTypeOK /\ faults \in 0 .. MaxFaults /\ dStep \in [Dispatchers -> DSteps]
    BY DEF FlowInv, TypeOK, WorkerTypeOK, DispatcherTypeOK, BackendsTypeOK
<1>1. dStep' \in [Dispatchers -> DSteps]
    BY <1>0, ZenonT(30) DEF DispatcherNext, RouteStep, RouteReceive, RouteLimit, RoutePublish, RouteQueued,
                RouteDLQ, RouteCommit, DispatcherExit, DispatcherDie, DispatcherSignal,
                DispatcherStart, DispatcherReassign, DispatcherDisturb, DGoto, FirstCall, DSteps
<1>2. ASSUME UNCHANGED backendVars PROVE BackendsTypeOK'
    BY <1>0, <1>2, NoCallType DEF backendVars
<1>3. ASSUME NEW d \in Dispatchers, RouteLimit(d) PROVE BackendsTypeOK'
  <2>1. faults' \in 0 .. MaxFaults
      BY <1>0, <1>3, CallType DEF RouteLimit
  <2> QED
      BY <1>0, <1>3, <2>1, NoCallType DEF RouteLimit
<1>4. ASSUME NEW d \in Dispatchers, RoutePublish(d) PROVE BackendsTypeOK'
  <2>1. DBody(d) \in Tasks /\ TypeOf[DBody(d)] \in Types
      BY <1>4, DomainAssumption DEF FlowInv, RoutingInv, RouteInv, RoutePublish
  <2> QED
      BY <1>0, <1>4, <2>1, PublishWorkType, ZenonT(30) DEF RoutePublish
<1>5. ASSUME NEW d \in Dispatchers, RouteQueued(d) PROVE BackendsTypeOK'
  <2>1. DBody(d) \in Tasks
      BY <1>5 DEF FlowInv, RoutingInv, RouteInv, RouteQueued
  <2> QED
      BY <1>0, <1>5, <2>1, SetStatusType DEF RouteQueued, Statuses
<1>6. ASSUME NEW d \in Dispatchers, RouteDLQ(d) PROVE BackendsTypeOK'
  <2>1. DBody(d) \in Bodies
      BY <1>6, DispatcherHolds, ZenonT(30) DEF FlowInv, RoutingInv, RouteInv, RouteDLQ
  <2> QED
      BY <1>0, <1>6, <2>1, PublishDLQType, ZenonT(30) DEF RouteDLQ
<1> QED
    BY <1>1, <1>2, <1>3, <1>4, <1>5, <1>6
       DEF DispatcherNext, RouteStep, RouteReceive, RouteCommit, DispatcherExit, DispatcherDie,
           DispatcherSignal, DispatcherStart, DispatcherReassign, DispatcherDisturb

\* Every step keeps the type invariant, given that it keeps those of the groups.
LEMMA TypeStep == FlowInv /\ [Next]_vars /\ DGroup!TypeOK' /\ Group!TypeOK' => TypeOK'
<1> SUFFICES ASSUME FlowInv, [Next]_vars, DGroup!TypeOK', Group!TypeOK' PROVE TypeOK'
    OBVIOUS
<1> USE DEF TypeOK, DispatcherTypeOK, WorkerTypeOK
<1>0. BackendsTypeOK /\ GatewayTypeOK /\ dStep \in [Dispatchers -> DSteps] /\ RunTypeOK
    BY DEF FlowInv
<1>1. ASSUME UNCHANGED gatewayVars PROVE GatewayTypeOK'
    BY <1>0, <1>1 DEF GatewayTypeOK, gatewayVars
<1>2. ASSUME UNCHANGED dispatcherVars PROVE dStep' \in [Dispatchers -> DSteps]
    BY <1>0, <1>2 DEF dispatcherVars
<1>3. ASSUME UNCHANGED workerVars PROVE RunTypeOK'
    BY <1>0, <1>3 DEF RunTypeOK, workerVars, runVars
<1>4. CASE GatewayNext /\ UNCHANGED <<dispatcherVars, workerVars>>
    BY <1>2, <1>3, <1>4, GatewayStepType
<1>5. CASE DispatcherNext /\ UNCHANGED <<gatewayVars, workerVars>>
    BY <1>1, <1>3, <1>5, DispatcherStepType
<1>6. CASE WorkerNext /\ UNCHANGED <<gatewayVars, dispatcherVars>>
    BY <1>1, <1>2, <1>6, InvOfWorkers, WorkerStepType, RunStepType
<1>7. ASSUME NEW m \in Foreigners, NEW p \in Partitions, Foreign(m, p),
             UNCHANGED <<gatewayVars, dispatcherVars, workerVars>>
      PROVE TypeOK'
  <2>1. Append(pending[p], m) \in Seq(Bodies)
      BY <1>0, TaskFlowAssumption DEF BackendsTypeOK, TopicsTypeOK, Bodies
  <2>2. BackendsTypeOK'
      BY <1>0, <1>7, <2>1 DEF Foreign, BackendsTypeOK, StoreTypeOK, RepoTypeOK, TopicsTypeOK,
                              storeVars, repoVars
  <2> QED
      BY <1>1, <1>2, <1>3, <1>7, <2>2
<1>8. CASE UNCHANGED vars
  <2>1. BackendsTypeOK'
      BY <1>0, <1>8 DEF vars, backendVars, BackendsTypeOK, StoreTypeOK, RepoTypeOK, TopicsTypeOK,
                        storeVars, repoVars, topicVars
  <2> QED
      BY <1>1, <1>2, <1>3, <1>8, <2>1 DEF vars
<1>9. CASE Expiry /\ UNCHANGED <<gatewayVars, dispatcherVars, workerVars>>
    BY <1>0, <1>1, <1>2, <1>3, <1>9, ExpiryChange
<1> QED
    BY <1>4, <1>5, <1>6, <1>7, <1>8, <1>9 DEF Next

-----------------------------------------------------------------------------
(* The topics are append-only logs. *)

\* Only the publish of route appends to a worker topic, and what it appends is
\* the task it has in its hands.
LEMMA WorkChange ==
    ASSUME FlowInv, [Next]_vars, work' # work
    PROVE  \E d \in Dispatchers :
               /\ RoutePublish(d)
               /\ DBody(d) \in Tasks /\ TypeOf[DBody(d)] \in Types
               /\ work' = [work EXCEPT ![TypeOf[DBody(d)]][PartitionOf[DBody(d)]]
                                           = Append(@, DBody(d))]
<1> USE DEF backendVars, topicVars
<1>1. CASE GatewayNext
    BY <1>1, ZenonT(30) DEF GatewayNext, SubmitTask, SubmitStep, SubmitMeta, SubmitStatus, SubmitCreate,
                SubmitPublish, Disconnect
<1>2. CASE DispatcherNext
  <2>1. PICK d \in Dispatchers : RoutePublish(d)
      BY <1>2, ZenonT(30) DEF DispatcherNext, RouteStep, RouteReceive, RouteLimit, RouteQueued, RouteDLQ,
                  RouteCommit, DispatcherExit, DispatcherDie, DispatcherSignal, DispatcherStart,
                  DispatcherReassign, DispatcherDisturb
  <2>2. DBody(d) \in Tasks /\ TypeOf[DBody(d)] \in Types
      BY <2>1, DomainAssumption, ZenonT(30) DEF FlowInv, RoutingInv, RouteInv, RoutePublish
  <2> QED
      BY <2>1, <2>2, ZenonT(30) DEF RoutePublish, PublishWork
<1>3. CASE WorkerNext
    BY <1>3, WorkUntouched, ZenonT(30)
<1>4. CASE \E m \in Foreigners, p \in Partitions : Foreign(m, p)
    BY <1>4, ZenonT(30) DEF Foreign
<1>5. CASE UNCHANGED vars \/ Expiry
    BY <1>5, ZenonT(30) DEF vars, Expiry
<1> QED
    BY <1>1, <1>2, <1>3, <1>4, <1>5, ZenonT(30) DEF Next

\* What is in a worker topic stays where it is.
LEMMA WorkKept ==
    ASSUME FlowInv, [Next]_vars, NEW ty \in Types, NEW p \in Partitions
    PROVE  /\ work[ty][p] \in Seq(Bodies) /\ work'[ty][p] \in Seq(Bodies)
           /\ Len(work[ty][p]) <= Len(work'[ty][p])
           /\ \A i \in 1 .. Len(work[ty][p]) : work'[ty][p][i] = work[ty][p][i]
<1>0. work \in [Types -> [Partitions -> Seq(Bodies)]] /\ work[ty][p] \in Seq(Bodies)
    BY DEF FlowInv, TypeOK, WorkerTypeOK, BackendsTypeOK, TopicsTypeOK
<1>1. CASE work' = work
    BY <1>0, <1>1
<1>2. CASE work' # work
  <2>1. PICK m \in Bodies, ty2 \in Types, q \in Partitions :
           work' = [work EXCEPT ![ty2][q] = Append(@, m)]
      BY <1>2, WorkChange, DomainAssumption, ZenonT(30) DEF Bodies
  <2>2. CASE ty = ty2 /\ p = q
    <3>1. work'[ty][p] = Append(work[ty][p], m)
        BY <1>0, <2>1, <2>2
    <3> QED
        BY <1>0, <3>1
  <2>3. CASE ~(ty = ty2 /\ p = q)
    <3>1. work'[ty][p] = work[ty][p]
        BY <1>0, <2>1, <2>3
    <3> QED
        BY <1>0, <3>1
  <2> QED
      BY <2>2, <2>3, ZenonT(30)
<1> QED
    BY <1>1, <1>2

\* The workers find their topic as they left it.
LEMMA TopicIsKept == FlowInv /\ [Next]_vars => TopicKept
    BY WorkKept, WorkerAssumption DEF TopicKept

\* Only the publish of SubmitTask and what is foreign append to tasks.pending.
LEMMA PendingChange ==
    ASSUME FlowInv, [Next]_vars, pending' # pending
    PROVE  \E m \in Bodies, p \in Partitions :
               /\ pending' = [pending EXCEPT ![p] = Append(@, m)]
               /\ \/ m \in Tasks /\ p = PartitionOf[m] /\ SubmitPublish(m)
                  \/ m \in Foreigners
<1> USE DEF backendVars, topicVars
<1>1. CASE GatewayNext
  <2>1. PICK t \in Tasks : SubmitPublish(t)
      BY <1>1, ZenonT(30) DEF GatewayNext, SubmitTask, SubmitStep, SubmitMeta, SubmitStatus, SubmitCreate,
                  Disconnect
  <2>2. pending' = [pending EXCEPT ![PartitionOf[t]] = Append(@, t)]
      BY <2>1, ZenonT(30) DEF SubmitPublish, PublishPending
  <2> QED
      BY <2>1, <2>2, DomainAssumption, ZenonT(30) DEF Bodies
<1>2. CASE DispatcherNext
    BY <1>2, ZenonT(30) DEF DispatcherNext, RouteStep, RouteReceive, RouteLimit, RoutePublish, RouteQueued,
                RouteDLQ, RouteCommit, DispatcherExit, DispatcherDie, DispatcherSignal,
                DispatcherStart, DispatcherReassign, DispatcherDisturb
<1>3. CASE WorkerNext
    BY <1>3, ZenonT(30) DEF WorkerNext, ProcessStep, Receive, Discard, CheckStatus, NoHandlerStatus, NoHandlerDLQ,
                SetRunning, HandlerSucceeds, HandlerFails, OnRetry, Backoff, FinishStatus, FinishMeta,
                FinishRecord, FinishUpdate, FinishDLQ, Commit, Exit, Die, Signal, Start, Reassign, Disturb
<1>4. ASSUME NEW m \in Foreigners, NEW p \in Partitions, Foreign(m, p)
      PROVE m \in Bodies /\ pending' = [pending EXCEPT ![p] = Append(@, m)]
    BY <1>4, TaskFlowAssumption DEF Foreign, Bodies
<1>5. CASE UNCHANGED vars \/ Expiry
    BY <1>5, ZenonT(30) DEF vars, Expiry
<1> QED
    BY <1>1, <1>2, <1>3, <1>4, <1>5, ZenonT(30) DEF Next

\* What is in tasks.pending stays where it is.
LEMMA PendingKept ==
    ASSUME FlowInv, [Next]_vars, NEW p \in Partitions
    PROVE  /\ pending[p] \in Seq(Bodies) /\ pending'[p] \in Seq(Bodies)
           /\ Len(pending[p]) <= Len(pending'[p])
           /\ \A i \in 1 .. Len(pending[p]) : pending'[p][i] = pending[p][i]
<1>0. pending \in [Partitions -> Seq(Bodies)] /\ pending[p] \in Seq(Bodies)
    BY DEF FlowInv, TypeOK, WorkerTypeOK, BackendsTypeOK, TopicsTypeOK
<1>1. CASE pending' = pending
    BY <1>0, <1>1
<1>2. CASE pending' # pending
  <2>1. PICK m \in Bodies, q \in Partitions : pending' = [pending EXCEPT ![q] = Append(@, m)]
      BY <1>2, PendingChange
  <2>2. CASE p = q
    <3>1. pending'[p] = Append(pending[p], m)
        BY <1>0, <2>1, <2>2
    <3> QED
        BY <1>0, <3>1
  <2>3. CASE p # q
    <3>1. pending'[p] = pending[p]
        BY <1>0, <2>1, <2>3
    <3> QED
        BY <1>0, <3>1
  <2> QED
      BY <2>2, <2>3
<1> QED
    BY <1>1, <1>2, ZenonT(30)

-----------------------------------------------------------------------------
(* RoutingInv *)

\* What is appended to a sequence of messages is in it.
LEMMA AppendedIsThere ==
    ASSUME NEW q \in Seq(Bodies), NEW m \in Bodies
    PROVE  \E i \in DOMAIN Append(q, m) : Append(q, m)[i] = m
<1>1. Len(q) + 1 \in DOMAIN Append(q, m) /\ Append(q, m)[Len(q) + 1] = m
    OBVIOUS
<1> QED
    BY <1>1, Zenon

\* The messages in the worker topics and in the dead-letter topic stay there.
LEMMA BodiesKept == FlowInv /\ [Next]_vars => WorkBodies \subseteq WorkBodies' /\ dlq \subseteq dlq'
<1> SUFFICES ASSUME FlowInv, [Next]_vars PROVE WorkBodies \subseteq WorkBodies' /\ dlq \subseteq dlq'
    OBVIOUS
<1>1. WorkBodies \subseteq WorkBodies'
  <2> SUFFICES ASSUME NEW m \in WorkBodies PROVE m \in WorkBodies'
      OBVIOUS
  <2>1. PICK ty \in Types, p \in Partitions : \E i \in DOMAIN work[ty][p] : work[ty][p][i] = m
      BY DEF WorkBodies
  <2>2. PICK i \in DOMAIN work[ty][p] : work[ty][p][i] = m
      BY <2>1
  <2>3. i \in 1 .. Len(work[ty][p])
      BY WorkKept
  <2>4. i \in DOMAIN work'[ty][p] /\ work'[ty][p][i] = m
      BY <2>2, <2>3, WorkKept, SMTT(30)
  <2> QED
      BY <2>4 DEF WorkBodies
<1>2. dlq \subseteq dlq'
    BY ZenonT(30) DEF Next, GatewayNext, SubmitTask, SubmitStep, SubmitMeta, SubmitStatus, SubmitCreate,
           SubmitPublish, Disconnect, DispatcherNext, RouteStep, RouteReceive, RouteLimit, RoutePublish,
           RouteQueued, RouteDLQ, RouteCommit, DispatcherExit, DispatcherDie, DispatcherSignal,
           DispatcherStart, DispatcherReassign, DispatcherDisturb, WorkerNext, ProcessStep, Receive,
           Discard, CheckStatus, NoHandlerStatus, NoHandlerDLQ, SetRunning, HandlerSucceeds, HandlerFails,
           OnRetry, Backoff, FinishStatus, FinishMeta, FinishRecord, FinishUpdate, FinishDLQ, Commit,
           Exit, Die, Signal, Start, Reassign, Disturb, Foreign, Expiry, PublishDLQ, vars, backendVars, topicVars
<1> QED
    BY <1>1, <1>2

\* The body in the hands of a dispatcher does not change under it.
LEMMA DBodyKept ==
    ASSUME FlowInv, [Next]_vars, NEW d \in Dispatchers, dPhase[d] = "handle",
           dInflight'[d] = dInflight[d]
    PROVE  DBody(d)' = DBody(d)
<1>1. /\ dInflight[d].partition \in Partitions
      /\ dInflight[d].offset + 1 \in 1 .. Len(pending[dInflight[d].partition])
    BY DispatcherHolds
<1>2. pending'[dInflight[d].partition][dInflight[d].offset + 1]
        = pending[dInflight[d].partition][dInflight[d].offset + 1]
    BY <1>1, PendingKept, ZenonT(30)
<1> QED
    BY <1>2 DEF DBody

-----------------------------------------------------------------------------
(* The calls of route *)

\* RouteInv for one dispatcher.
RouteOK(d) ==
    /\ dStep[d] # "idle" => dPhase[d] = "handle"
    /\ dStep[d] \in {"limit", "publish", "queued"} =>
          DBody(d) \in Tasks /\ TypeOf[DBody(d)] # NoType
    /\ dStep[d] = "queued" => DBody(d) \in WorkBodies

\* A call that is not touched stays as it was.
LEMMA UntouchedRoute ==
    ASSUME FlowInv, [Next]_vars, NEW d \in Dispatchers, RouteOK(d), dStep'[d] = dStep[d],
           dStep[d] # "idle" => dPhase'[d] = dPhase[d] /\ dInflight'[d] = dInflight[d]
    PROVE  RouteOK(d)'
<1>1. CASE dStep[d] = "idle"
    BY <1>1, ZenonT(30) DEF RouteOK
<1>2. CASE dStep[d] # "idle"
  <2>1. DBody(d)' = DBody(d)
      BY <1>2, DBodyKept DEF RouteOK
  <2>2. DBody(d) \in WorkBodies => DBody(d) \in WorkBodies'
      BY BodiesKept, ZenonT(30)
  <2> QED
      BY <1>2, <2>1, <2>2, ZenonT(30) DEF RouteOK
<1> QED
    BY <1>1, <1>2

\* Every step keeps the calls of route consistent with the loop and the topics.
LEMMA RouteStepInv == FlowInv /\ [Next]_vars => RouteInv'
<1> SUFFICES ASSUME FlowInv, [Next]_vars, NEW e \in Dispatchers PROVE RouteOK(e)'
    BY ZenonT(30) DEF RouteInv, RouteOK
<1>0. /\ \A d \in Dispatchers : RouteOK(d)
      /\ dStep \in [Dispatchers -> DSteps] /\ DGroup!TypeOK /\ BackendsTypeOK
    BY DEF FlowInv, RoutingInv, RouteInv, RouteOK, TypeOK, DispatcherTypeOK, WorkerTypeOK
<1>1. CASE UNCHANGED dispatcherVars
    BY <1>0, <1>1, UntouchedRoute, ZenonT(30) DEF dispatcherVars, dGroupVars
<1>2. ASSUME NEW d \in Dispatchers, d # e, dStep'[e] = dStep[e], dPhase'[e] = dPhase[e],
             dInflight'[e] = dInflight[e]
      PROVE RouteOK(e)'
    BY <1>0, <1>2, UntouchedRoute, ZenonT(30)
<1>3. ASSUME dStep'[e] = "idle" PROVE RouteOK(e)'
    BY <1>3, ZenonT(30) DEF RouteOK
<1>4. ASSUME NEW d \in Dispatchers, RouteReceive(d) PROVE RouteOK(e)'
  <2>1. PICK p \in Partitions : DGroup!FetchMessage(d, p) /\ DGoto(d, FirstCall(pending[p][dPosition[p] + 1]))
      BY <1>4, ZenonT(30) DEF RouteReceive
  <2>2. CASE d # e
      BY <1>0, <1>2, <2>1, <2>2, ZenonT(30) DEF DGroup!FetchMessage, DGroup!TypeOK, DGoto
  <2>3. CASE d = e
    <3>1. dPhase'[e] = "handle" /\ dInflight'[e] = [partition |-> p, offset |-> dPosition[p]]
        BY <1>0, <2>1, <2>3, ZenonT(30) DEF DGroup!FetchMessage, DGroup!TypeOK
    <3>2. pending' = pending /\ DBody(e)' = pending[p][dPosition[p] + 1]
        BY <1>4, <3>1 DEF RouteReceive, backendVars, topicVars, DBody
    <3>3. dStep'[e] = FirstCall(DBody(e)')
        BY <1>0, <2>1, <2>3, <3>2, ZenonT(30) DEF DGoto
    <3>4. DBody(e)' \in Bodies
      <4>1. dPosition[p] \in Nat /\ dPosition[p] < Len(pending[p])
          BY <1>0, <2>1, ZenonT(30) DEF DGroup!FetchMessage, DGroup!TypeOK
      <4>2. pending[p] \in Seq(Bodies)
          BY <1>0 DEF BackendsTypeOK, TopicsTypeOK
      <4>3. dPosition[p] + 1 \in 1 .. Len(pending[p])
          BY <4>1, <4>2
      <4> QED
          BY <3>2, <4>2, <4>3
    <3> QED
        BY <3>1, <3>3, <3>4, ZenonT(30) DEF RouteOK, FirstCall, Bodies
  <2> QED
      BY <2>2, <2>3
<1>5. ASSUME NEW d \in Dispatchers, NEW s \in DSteps, DGoto(d, s), UNCHANGED dGroupVars,
             dStep[d] # "idle", DBody(d)' = DBody(d) /\ dStep'[d] = s => RouteOK(d)'
      PROVE RouteOK(e)'
  <2>1. CASE d # e
      BY <1>0, <1>2, <1>5, <2>1, ZenonT(30) DEF dGroupVars, DGoto
  <2>2. CASE d = e
    <3>1. DBody(d)' = DBody(d)
        BY <1>0, <1>5, DBodyKept, ZenonT(30) DEF RouteOK, dGroupVars
    <3> QED
        BY <1>0, <1>5, <2>2, <3>1 DEF DGoto
  <2> QED
      BY <2>1, <2>2
<1>6. ASSUME NEW d \in Dispatchers, RouteLimit(d) PROVE RouteOK(e)'
  <2>1. PICK s \in {"publish", "dlq"} : DGoto(d, s) /\ dStep[d] = "limit" /\ UNCHANGED dGroupVars
      BY <1>6 DEF RouteLimit
  <2>2. ASSUME DBody(d)' = DBody(d), dStep'[d] = s PROVE RouteOK(d)'
      BY <1>0, <2>1, <2>2, ZenonT(30) DEF RouteOK, dGroupVars
  <2> QED
      BY <1>5, <2>1, <2>2, ZenonT(30) DEF DSteps
<1>7. ASSUME NEW d \in Dispatchers, DGoto(d, "idle"),
             DGroup!HandlerReturnsNil(d) \/ DGroup!HandlerReturnsError(d)
      PROVE RouteOK(e)'
    BY <1>0, <1>2, <1>3, <1>7, ZenonT(30) DEF DGoto, DGroup!HandlerReturnsNil, DGroup!HandlerReturnsError, DGroup!TypeOK
<1>8. ASSUME NEW d \in Dispatchers, RoutePublish(d) PROVE RouteOK(e)'
  <2>1. CASE DGroup!HandlerReturnsError(d) /\ DGoto(d, "idle")
      BY <1>7, <2>1
  <2>2. CASE /\ PublishWork(DLive(d), TypeOf[DBody(d)], DBody(d), TRUE)
             /\ DGoto(d, "queued") /\ UNCHANGED dGroupVars
    <3> DEFINE t == DBody(d)
    <3>1. t \in Tasks /\ TypeOf[t] \in Types /\ TypeOf[t] # NoType /\ PartitionOf[t] \in Partitions
        BY <1>0, <1>8, DomainAssumption DEF RoutePublish, RouteOK
    <3>2. work' = [work EXCEPT ![TypeOf[t]][PartitionOf[t]] = Append(@, t)]
        BY <2>2, ZenonT(30) DEF PublishWork, Publish
    <3>3. t \in Bodies
        BY <3>1 DEF Bodies
    <3>4. work \in [Types -> [Partitions -> Seq(Bodies)]]
        BY <1>0 DEF BackendsTypeOK, TopicsTypeOK
    <3> HIDE DEF t
    <3>5. \E i \in DOMAIN work'[TypeOf[t]][PartitionOf[t]] : work'[TypeOf[t]][PartitionOf[t]][i] = t
      <4>1. /\ work[TypeOf[t]][PartitionOf[t]] \in Seq(Bodies)
            /\ work'[TypeOf[t]][PartitionOf[t]] = Append(work[TypeOf[t]][PartitionOf[t]], t)
          BY <3>1, <3>2, <3>4, ZenonT(30)
      <4> QED
          BY <3>3, <4>1, AppendedIsThere, Zenon
    <3>6. t \in WorkBodies'
        BY <3>1, <3>3, <3>5, ZenonT(30) DEF WorkBodies
    <3> USE DEF t
    <3>7. ASSUME DBody(d)' = DBody(d), dStep'[d] = "queued" PROVE RouteOK(d)'
        BY <1>0, <1>8, <2>2, <3>1, <3>6, <3>7, ZenonT(30) DEF RouteOK, RoutePublish, dGroupVars
    <3>8. dStep[d] # "idle"
        BY <1>8 DEF RoutePublish
    <3> QED
        BY <1>5, <2>2, <3>7, <3>8, ZenonT(30) DEF DSteps
  <2> QED
      BY <1>8, <2>1, <2>2, ZenonT(30) DEF RoutePublish
<1>9. ASSUME NEW d \in Dispatchers, RouteQueued(d) \/ RouteDLQ(d) PROVE RouteOK(e)'
    BY <1>7, <1>9, ZenonT(30) DEF RouteQueued, RouteDLQ
<1>10. ASSUME NEW d \in Dispatchers, RouteCommit(d) \/ DispatcherStart(d) PROVE RouteOK(e)'
  <2>1. dStep[d] = "idle" /\ UNCHANGED dStep
      BY <1>0, <1>10, ZenonT(30) DEF RouteOK, RouteCommit, DispatcherStart, DGroup!CommitMessages,
                         DGroup!CommitFails, DGroup!Restart
  <2>2. d # e => dPhase'[e] = dPhase[e] /\ dInflight'[e] = dInflight[e]
      BY <1>0, <1>10, ZenonT(30) DEF RouteCommit, DispatcherStart, DGroup!CommitMessages, DGroup!CommitFails,
                         DGroup!Restart, DGroup!TypeOK
  <2> QED
      BY <1>2, <1>3, <2>1, <2>2, ZenonT(30)
<1>11. ASSUME NEW d \in Dispatchers, DispatcherExit(d) \/ DispatcherDie(d) PROVE RouteOK(e)'
    BY <1>0, <1>2, <1>3, <1>11, ZenonT(30) DEF DispatcherExit, DispatcherDie, DGoto, DGroup!SubscribeReturnsNil,
       DGroup!SubscribeReturnsError, DGroup!Crash, DGroup!Leave, DGroup!TypeOK
<1>12. ASSUME NEW d \in Dispatchers, DispatcherSignal(d) PROVE RouteOK(e)'
    BY <1>0, <1>12, UntouchedRoute, ZenonT(30) DEF DispatcherSignal, DGroup!Shutdown
<1>13. CASE DispatcherReassign \/ DispatcherDisturb
    BY <1>0, <1>13, UntouchedRoute, ZenonT(30) DEF DispatcherReassign, DispatcherDisturb, DGroup!Rebalance,
       DGroup!SpontaneousRebalance, DGroup!Assign, DGroup!loopVars
<1> QED
    BY <1>1, <1>4, <1>6, <1>8, <1>9, <1>10, <1>11, <1>12, <1>13, ZenonT(30) DEF Next, DispatcherNext, RouteStep, vars

-----------------------------------------------------------------------------
(* The topics *)

\* route returns nil only for a message that it has put somewhere.
LEMMA AcceptedChange ==
    ASSUME FlowInv, [Next]_vars, dAccepted' # dAccepted
    PROVE  \E d \in Dispatchers :
               /\ dPhase[d] = "handle"
               /\ dAccepted' = [dAccepted EXCEPT ![dInflight[d].partition] = @ \cup {dInflight[d].offset}]
               /\ DBody(d) \in WorkBodies \cup dlq'
<1> USE DEF dispatcherVars, dGroupVars
<1>1. DispatcherNext
    BY SMTT(30) DEF Next, vars
<1>2. PICK d \in Dispatchers : RouteQueued(d) \/ RouteDLQ(d)
    BY <1>1, ZenonT(30) DEF DispatcherNext, RouteStep, RouteReceive, RouteLimit, RoutePublish, RouteCommit,
           DispatcherExit, DispatcherDie, DispatcherSignal, DispatcherStart, DispatcherReassign,
           DispatcherDisturb, DGroup!FetchMessage, DGroup!HandlerReturnsError, DGroup!CommitMessages,
           DGroup!CommitFails, DGroup!SubscribeReturnsNil, DGroup!SubscribeReturnsError, DGroup!Crash,
           DGroup!Leave, DGroup!Shutdown, DGroup!Restart, DGroup!Rebalance,
           DGroup!SpontaneousRebalance, DGroup!Assign, DGroup!historyVars
<1>3. CASE RouteQueued(d)
    BY <1>3, ZenonT(30) DEF RouteQueued, DGroup!HandlerReturnsNil, FlowInv, RoutingInv, RouteInv
<1>4. CASE RouteDLQ(d)
    BY <1>4, ZenonT(30) DEF RouteDLQ, PublishDLQ, Publish, DGroup!HandlerReturnsNil, DGroup!HandlerReturnsError
<1> QED
    BY <1>2, <1>3, <1>4, ZenonT(30)

\* Every step keeps tasks where their key puts them.
LEMMA PlacedStep == FlowInv /\ [Next]_vars => PlacedInv'
<1> SUFFICES ASSUME FlowInv, [Next]_vars, NEW p \in Partitions
             PROVE /\ \A i \in DOMAIN pending'[p] :
                         pending'[p][i] \in Tasks /\ TypeOf[pending'[p][i]] # NoType
                             => PartitionOf[pending'[p][i]] = p
                   /\ \A o \in dAccepted'[p] : o < Len(pending'[p])
    BY ZenonT(30) DEF PlacedInv
<1>0. /\ pending \in [Partitions -> Seq(Bodies)] /\ pending[p] \in Seq(Bodies)
      /\ dAccepted \in [Partitions -> SUBSET Nat]
    BY DEF FlowInv, TypeOK, WorkerTypeOK, BackendsTypeOK, TopicsTypeOK, DispatcherTypeOK, DGroup!TypeOK
<1>1. /\ \A i \in DOMAIN pending[p] :
            pending[p][i] \in Tasks /\ TypeOf[pending[p][i]] # NoType => PartitionOf[pending[p][i]] = p
      /\ \A o \in dAccepted[p] : o < Len(pending[p])
    BY ZenonT(30) DEF FlowInv, RoutingInv, PlacedInv
<1>2. ASSUME NEW i \in DOMAIN pending'[p], pending'[p][i] \in Tasks, TypeOf[pending'[p][i]] # NoType
      PROVE PartitionOf[pending'[p][i]] = p
  <2>1. CASE pending' = pending
      BY <1>1, <1>2, <2>1, ZenonT(30)
  <2>2. CASE pending' # pending
    <3>1. PICK m \in Bodies, q \in Partitions :
              /\ pending' = [pending EXCEPT ![q] = Append(@, m)]
              /\ (m \in Tasks /\ q = PartitionOf[m]) \/ m \in Foreigners
        BY <2>2, PendingChange
    <3>2. CASE p # q
        BY <1>0, <1>1, <1>2, <3>1, <3>2, ZenonT(30)
    <3>3. CASE p = q
      <4>1. pending'[p] = Append(pending[p], m)
          BY <1>0, <3>1, <3>3
      <4>2. CASE i = Len(pending[p]) + 1
        <5>1. pending'[p][i] = m
            BY <1>0, <4>1, <4>2
        <5>2. m \notin Foreigners
            BY <1>2, <5>1, TaskFlowAssumption, DomainAssumption
        <5> QED
            BY <3>1, <3>3, <5>1, <5>2
      <4>3. CASE i # Len(pending[p]) + 1
        <5>1. i \in DOMAIN pending[p] /\ pending'[p][i] = pending[p][i]
            BY <1>0, <4>1, <4>3
        <5> QED
            BY <1>1, <1>2, <5>1, ZenonT(30)
      <4> QED
          BY <4>2, <4>3
    <3> QED
        BY <3>2, <3>3
  <2> QED
      BY <2>1, <2>2, ZenonT(30)
<1>3. ASSUME NEW o \in dAccepted'[p] PROVE o < Len(pending'[p])
  <2>1. Len(pending[p]) <= Len(pending'[p]) /\ Len(pending[p]) \in Nat /\ Len(pending'[p]) \in Nat
      BY PendingKept
  <2>2. o \in Nat /\ o < Len(pending[p])
    <3>1. CASE o \in dAccepted[p]
        BY <1>0, <1>1, <3>1
    <3>2. CASE o \notin dAccepted[p]
      <4>1. PICK d \in Dispatchers :
               /\ dPhase[d] = "handle"
               /\ dAccepted' = [dAccepted EXCEPT ![dInflight[d].partition] = @ \cup {dInflight[d].offset}]
          BY <1>3, <3>2, AcceptedChange, ZenonT(30)
      <4>2. dInflight[d].partition = p /\ dInflight[d].offset = o
          BY <1>0, <1>3, <3>2, <4>1, ZenonT(30)
      <4> QED
          BY <1>0, <4>1, <4>2, DispatcherHolds
    <3> QED
        BY <3>1, <3>2, ZenonT(30)
  <2> QED
      BY <2>1, <2>2
<1> QED
    BY <1>2, <1>3, ZenonT(30)

\* Every step keeps what route has returned nil for in a topic.
LEMMA SomewhereStep == FlowInv /\ [Next]_vars => RoutedIsSomewhere'
<1> SUFFICES ASSUME FlowInv, [Next]_vars, NEW p \in Partitions, NEW o \in dAccepted'[p]
             PROVE pending'[p][o + 1] \in WorkBodies' \cup dlq'
    BY DEF RoutedIsSomewhere
<1>0. dAccepted \in [Partitions -> SUBSET Nat] /\ pending[p] \in Seq(Bodies)
    BY ZenonT(30) DEF FlowInv, TypeOK, WorkerTypeOK, BackendsTypeOK, TopicsTypeOK, DispatcherTypeOK, DGroup!TypeOK
<1>1. o \in Nat /\ o + 1 \in 1 .. Len(pending[p]) /\ pending[p][o + 1] \in WorkBodies \cup dlq \cup dlq'
  <2>1. CASE o \in dAccepted[p]
    <3>1. o \in Nat /\ o < Len(pending[p]) /\ pending[p][o + 1] \in WorkBodies \cup dlq
        BY <1>0, <2>1, ZenonT(30) DEF FlowInv, RoutingInv, PlacedInv, RoutedIsSomewhere
    <3> QED
        BY <1>0, <3>1
  <2>2. CASE o \notin dAccepted[p]
    <3>1. PICK d \in Dispatchers :
             /\ dPhase[d] = "handle"
             /\ dAccepted' = [dAccepted EXCEPT ![dInflight[d].partition] = @ \cup {dInflight[d].offset}]
             /\ DBody(d) \in WorkBodies \cup dlq'
        BY <2>2, AcceptedChange, ZenonT(30)
    <3>2. dInflight[d].partition = p /\ dInflight[d].offset = o
        BY <1>0, <2>2, <3>1, ZenonT(30)
    <3> QED
        BY <3>1, <3>2, DispatcherHolds, ZenonT(30) DEF DBody
  <2> QED
      BY <2>1, <2>2, ZenonT(30)
<1>2. pending'[p][o + 1] = pending[p][o + 1]
    BY <1>1, PendingKept, ZenonT(30)
<1> QED
    BY <1>1, <1>2, BodiesKept

\* Every step keeps the worker topics free of what does not belong there.
LEMMA WorkRoutedStep == FlowInv /\ [Next]_vars => WorkIsRouted'
<1> SUFFICES ASSUME FlowInv, [Next]_vars, NEW ty \in Types, NEW p \in Partitions,
                    NEW i \in DOMAIN work'[ty][p]
             PROVE /\ work'[ty][p][i] \in Tasks /\ TypeOf[work'[ty][p][i]] = ty
                   /\ \E j \in DOMAIN pending'[p] : pending'[p][j] = work'[ty][p][i]
    BY DEF WorkIsRouted
<1>0. work \in [Types -> [Partitions -> Seq(Bodies)]] /\ work[ty][p] \in Seq(Bodies)
    BY DEF FlowInv, TypeOK, WorkerTypeOK, BackendsTypeOK, TopicsTypeOK
<1>1. ASSUME NEW j \in 1 .. Len(pending[p])
      PROVE j \in DOMAIN pending'[p] /\ pending'[p][j] = pending[p][j]
    BY <1>1, PendingKept
<1>2. DOMAIN pending[p] = 1 .. Len(pending[p])
    BY PendingKept
<1>3. ASSUME i \in DOMAIN work[ty][p], work'[ty][p][i] = work[ty][p][i]
      PROVE /\ work'[ty][p][i] \in Tasks /\ TypeOf[work'[ty][p][i]] = ty
            /\ \E j \in DOMAIN pending'[p] : pending'[p][j] = work'[ty][p][i]
  <2>1. /\ work[ty][p][i] \in Tasks /\ TypeOf[work[ty][p][i]] = ty
        /\ \E j \in DOMAIN pending[p] : pending[p][j] = work[ty][p][i]
      BY <1>3, ZenonT(30) DEF FlowInv, RoutingInv, WorkIsRouted
  <2> QED
      BY <1>1, <1>2, <1>3, <2>1, ZenonT(30)
<1>4. CASE work' = work
    BY <1>3, <1>4, ZenonT(30)
<1>5. CASE work' # work
  <2>1. PICK d \in Dispatchers :
           /\ RoutePublish(d)
           /\ DBody(d) \in Tasks /\ TypeOf[DBody(d)] \in Types
           /\ work' = [work EXCEPT ![TypeOf[DBody(d)]][PartitionOf[DBody(d)]] = Append(@, DBody(d))]
      BY <1>5, WorkChange, ZenonT(30)
  <2>2. PartitionOf[DBody(d)] \in Partitions
      BY <2>1, DomainAssumption, ZenonT(30)
  <2>3. CASE ~(ty = TypeOf[DBody(d)] /\ p = PartitionOf[DBody(d)])
    <3>1. work'[ty][p] = work[ty][p]
        BY <1>0, <2>1, <2>3, Zenon
    <3> QED
        BY <1>3, <3>1, ZenonT(30)
  <2>4. CASE ty = TypeOf[DBody(d)] /\ p = PartitionOf[DBody(d)]
    <3>1. work'[ty][p] = Append(work[ty][p], DBody(d))
        BY <1>0, <2>1, <2>4, ZenonT(30)
    <3>2. CASE i = Len(work[ty][p]) + 1
      <4>1. work'[ty][p][i] = DBody(d)
          BY <1>0, <3>1, <3>2, SMTT(30)
      <4>2. /\ dInflight[d].partition \in Partitions
            /\ dInflight[d].offset + 1 \in 1 .. Len(pending[dInflight[d].partition])
          BY <2>1, DispatcherHolds, ZenonT(30) DEF RoutePublish, FlowInv, RoutingInv, RouteInv
      <4>3. dInflight[d].offset + 1 \in DOMAIN pending[dInflight[d].partition]
          BY <4>2, PendingKept, SMTT(30)
      <4>4. p = dInflight[d].partition
          BY <2>1, <2>4, <4>2, <4>3, DomainAssumption, ZenonT(30) DEF FlowInv, RoutingInv, PlacedInv, DBody
      <4> QED
          BY <1>1, <2>1, <2>4, <4>1, <4>2, <4>4, ZenonT(30) DEF DBody
    <3>3. CASE i # Len(work[ty][p]) + 1
      <4>1. i \in DOMAIN work[ty][p] /\ work'[ty][p][i] = work[ty][p][i]
          BY <1>0, <3>1, <3>3
      <4> QED
          BY <1>3, <4>1, ZenonT(30)
    <3> QED
        BY <3>2, <3>3, ZenonT(30)
  <2> QED
      BY <2>3, <2>4, ZenonT(30)
<1> QED
    BY <1>4, <1>5, ZenonT(30)

\* Every step of the services keeps the routing invariant.
LEMMA RoutingStep == FlowInv /\ [Next]_vars => RoutingInv'
    BY RouteStepInv, PlacedStep, SomewhereStep, WorkRoutedStep DEF RoutingInv

-----------------------------------------------------------------------------
(* The dead-letter topic *)

\* No rate limiter is configured, and no worker gets a signal.
Unlimited == RateLimited = FALSE /\ "signal" \notin Kinds

\* A task is in the dead-letter topic only when one delivery of it made every
\* configured attempt, or when no handler is registered for its type.
DeadLettersEarned == \A t \in dlq \cap Tasks : Earned(t)

\* A dispatcher gives up what is no task of any type, and never asks a limiter.
GivesUpRightly(d) ==
    /\ dStep[d] # "limit"
    /\ dStep[d] = "dlq" /\ DBody(d) \in Tasks => Earned(DBody(d))

\* What a worker or a dispatcher is about to put there has earned it.
DeadLetterInv ==
    /\ \A w \in Workers : ~wCancelled[w] /\ (step[w] = "finishDLQ" => execErr[w])
    /\ \A d \in Dispatchers : GivesUpRightly(d)
    /\ DeadLettersEarned

\* A dispatcher without a limiter goes to the dead-letter topic with what route
\* gives up at once.
LEMMA RouteGivesUp ==
    ASSUME Unlimited, FlowInv, [Next]_vars, Grow, NEW e \in Dispatchers, GivesUpRightly(e)
    PROVE  GivesUpRightly(e)'
<1>0. /\ dStep \in [Dispatchers -> DSteps] /\ DGroup!TypeOK /\ RouteOK(e)
    BY ZenonT(30) DEF FlowInv, RoutingInv, RouteInv, RouteOK, TypeOK, DispatcherTypeOK
<1>1. ASSUME dStep'[e] = dStep[e], dStep[e] # "idle" => dInflight'[e] = dInflight[e]
      PROVE  GivesUpRightly(e)'
  <2>1. CASE dStep[e] = "idle"
      BY <1>1, <2>1, ZenonT(30) DEF GivesUpRightly
  <2>2. CASE dStep[e] # "idle"
    <3>1. DBody(e)' = DBody(e)
        BY <1>0, <1>1, <2>2, DBodyKept, ZenonT(30) DEF RouteOK
    <3> QED
        BY <1>1, <3>1, ZenonT(30) DEF GivesUpRightly, Earned, Grow
  <2> QED
      BY <2>1, <2>2
<1>2. ASSUME dStep'[e] \in {"idle", "queued", "publish"} PROVE GivesUpRightly(e)'
    BY <1>2, ZenonT(30) DEF GivesUpRightly
<1>3. ASSUME RouteReceive(e) PROVE GivesUpRightly(e)'
  <2>1. PICK p \in Partitions : DGroup!FetchMessage(e, p) /\ DGoto(e, FirstCall(pending[p][dPosition[p] + 1]))
      BY <1>3, ZenonT(30) DEF RouteReceive
  <2>2. dInflight'[e] = [partition |-> p, offset |-> dPosition[p]]
      BY <1>0, <2>1, ZenonT(30) DEF DGroup!FetchMessage, DGroup!TypeOK
  <2>3. DBody(e)' = pending[p][dPosition[p] + 1]
    <3>1. pending' = pending
        BY <1>3, ZenonT(30) DEF RouteReceive, backendVars, topicVars
    <3>2. dInflight'[e].partition = p /\ dInflight'[e].offset = dPosition[p]
        BY <2>2
    <3> QED
        BY <3>1, <3>2, ZenonT(30) DEF DBody
  <2>4. dStep'[e] = FirstCall(DBody(e)')
      BY <1>0, <2>1, <2>3, ZenonT(30) DEF DGoto
  <2>5. dStep'[e] # "limit"
      BY <2>4, ZenonT(30) DEF FirstCall, Unlimited
  <2>6. ASSUME dStep'[e] = "dlq", DBody(e)' \in Tasks PROVE TypeOf[DBody(e)'] \notin Registered
    <3>1. Malformed \notin Tasks /\ NoType \notin Registered
        BY DomainAssumption, WorkerAssumption
    <3>2. DBody(e)' = Malformed \/ TypeOf[DBody(e)'] = NoType
        BY <2>4, <2>6, ZenonT(30) DEF FirstCall, Unlimited
    <3> QED
        BY <2>6, <3>1, <3>2, ZenonT(30)
  <2> QED
      BY <2>5, <2>6, ZenonT(30) DEF GivesUpRightly, Earned
<1>4. ASSUME NEW d \in Dispatchers, NEW s, DGoto(d, s) PROVE dStep'[d] = s /\ (d # e => dStep'[e] = dStep[e])
    BY <1>0, <1>4, ZenonT(30) DEF DGoto
<1>5. ASSUME NEW d \in Dispatchers, RouteReceive(d) PROVE GivesUpRightly(e)'
  <2>1. d # e => dStep'[e] = dStep[e] /\ dInflight'[e] = dInflight[e]
      BY <1>0, <1>5, ZenonT(30) DEF RouteReceive, DGoto, DGroup!FetchMessage, DGroup!TypeOK
  <2> QED
      BY <1>1, <1>3, <1>5, <2>1, ZenonT(30)
<1>6. ASSUME NEW d \in Dispatchers, RouteLimit(d) PROVE GivesUpRightly(e)'
  <2>1. d # e
      BY <1>6, ZenonT(30) DEF RouteLimit, GivesUpRightly
  <2>2. dStep'[e] = dStep[e] /\ dInflight'[e] = dInflight[e]
      BY <1>4, <1>6, <2>1, ZenonT(30) DEF RouteLimit, dGroupVars
  <2> QED
      BY <1>1, <2>2, ZenonT(30)
<1>7. ASSUME NEW d \in Dispatchers, RoutePublish(d) \/ RouteQueued(d) \/ RouteDLQ(d) \/ DispatcherExit(d)
                                    \/ DispatcherDie(d)
      PROVE GivesUpRightly(e)'
  <2>1. \E s \in {"idle", "queued"} : DGoto(d, s)
      BY <1>7, ZenonT(30) DEF RoutePublish, RouteQueued, RouteDLQ, DispatcherExit, DispatcherDie
  <2>2. d # e => dInflight'[e] = dInflight[e]
      BY <1>0, <1>7, ZenonT(30)
         DEF RoutePublish, RouteQueued, RouteDLQ, DispatcherExit, DispatcherDie, dGroupVars,
             DGroup!HandlerReturnsNil, DGroup!HandlerReturnsError, DGroup!SubscribeReturnsNil,
             DGroup!SubscribeReturnsError, DGroup!Crash, DGroup!Leave, DGroup!TypeOK
  <2> QED
      BY <1>1, <1>2, <1>4, <2>1, <2>2, ZenonT(30)
<1>8. ASSUME NEW d \in Dispatchers, RouteCommit(d) PROVE GivesUpRightly(e)'
  <2>1. UNCHANGED dStep /\ dPhase[d] = "commit"
      BY <1>8, ZenonT(30) DEF RouteCommit, DGroup!CommitMessages, DGroup!CommitFails
  <2>2. d # e => dInflight'[e] = dInflight[e]
      BY <1>0, <1>8, ZenonT(30) DEF RouteCommit, DGroup!CommitMessages, DGroup!CommitFails, DGroup!TypeOK
  <2>3. d = e => dStep[e] = "idle"
      BY <1>0, <2>1, ZenonT(30) DEF RouteOK
  <2> QED
      BY <1>1, <2>1, <2>2, <2>3, ZenonT(30)
<1>9. ASSUME NEW d \in Dispatchers, DispatcherSignal(d) \/ DispatcherStart(d) PROVE GivesUpRightly(e)'
    BY <1>1, <1>9, ZenonT(30) DEF DispatcherSignal, DispatcherStart, DGroup!Shutdown, DGroup!Restart
<1>10. CASE DispatcherReassign \/ DispatcherDisturb
    BY <1>1, <1>10, ZenonT(30) DEF DispatcherReassign, DispatcherDisturb, DGroup!Rebalance,
       DGroup!SpontaneousRebalance, DGroup!Assign, DGroup!loopVars
<1>11. CASE UNCHANGED dispatcherVars
    BY <1>1, <1>11, ZenonT(30) DEF dispatcherVars, dGroupVars
<1>12. CASE DispatcherNext
    BY <1>5, <1>6, <1>7, <1>8, <1>9, <1>10, <1>12, ZenonT(30) DEF DispatcherNext, RouteStep
<1> QED
    BY <1>11, <1>12, ZenonT(30) DEF Next, vars

\* What is new in the dead-letter topic was put there by one of three calls.
LEMMA DeadLetterChange ==
    ASSUME FlowInv, [Next]_vars, NEW m \in dlq', m \notin dlq
    PROVE  \/ \E d \in Dispatchers : dStep[d] = "dlq" /\ m = DBody(d)
           \/ \E w \in Workers : step[w] \in {"noHandlerDLQ", "finishDLQ"} /\ m = Body(w)
<1>1. ASSUME NEW x, NEW live, NEW ok, PublishDLQ(live, x, ok) PROVE m = x
    BY <1>1, ZenonT(30) DEF PublishDLQ
<1>2. ASSUME NEW d \in Dispatchers, RouteDLQ(d) PROVE dStep[d] = "dlq" /\ m = DBody(d)
    BY <1>1, <1>2, ZenonT(30) DEF RouteDLQ
<1>3. ASSUME NEW w \in Workers, NoHandlerDLQ(w) \/ FinishDLQ(w)
      PROVE  step[w] \in {"noHandlerDLQ", "finishDLQ"} /\ m = Body(w)
    BY <1>1, <1>3, ZenonT(30) DEF NoHandlerDLQ, FinishDLQ
<1>4. dlq' # dlq
    OBVIOUS
<1>5. ~GatewayNext
    BY <1>4, ZenonT(30) DEF GatewayNext, SubmitTask, SubmitStep, SubmitMeta, SubmitStatus, SubmitCreate,
           SubmitPublish, Disconnect, backendVars, topicVars
<1>6. DispatcherNext => \E d \in Dispatchers : RouteDLQ(d)
    BY <1>4, ZenonT(30) DEF DispatcherNext, RouteStep, RouteReceive, RouteLimit, RoutePublish,
           RouteQueued, RouteCommit, DispatcherExit, DispatcherDie, DispatcherSignal,
           DispatcherStart, DispatcherReassign, DispatcherDisturb, backendVars, topicVars
<1>7. WorkerNext => \E w \in Workers : NoHandlerDLQ(w) \/ FinishDLQ(w)
    BY <1>4, ZenonT(30) DEF WorkerNext, ProcessStep, Receive, Discard, CheckStatus, NoHandlerStatus,
           SetRunning, HandlerSucceeds, HandlerFails, OnRetry, Backoff, FinishStatus, FinishMeta,
           FinishRecord, FinishUpdate, Commit, Exit, Die, Signal, Start, Reassign, Disturb, backendVars,
           topicVars
<1>8. ASSUME NEW x, NEW p, Foreign(x, p) PROVE FALSE
    BY <1>4, <1>8, ZenonT(30) DEF Foreign
<1>9. ~UNCHANGED vars /\ ~Expiry
    BY <1>4, ZenonT(30) DEF vars, backendVars, Expiry, topicVars
<1> QED
    BY <1>2, <1>3, <1>5, <1>6, <1>7, <1>8, <1>9, ZenonT(30) DEF Next

=============================================================================
