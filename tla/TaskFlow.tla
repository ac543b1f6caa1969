------------------------------ MODULE TaskFlow ------------------------------
(***************************************************************************)
(* The path of a task: the gateway puts it in tasks.pending, a dispatcher  *)
(* routes it to the topic of its type, and a worker of that type executes  *)
(* it.  The services share the backends and nothing else; every step of    *)
(* one interleaves with every step of the others.                          *)
(***************************************************************************)
EXTENDS Gateway, Dispatcher, Worker

CONSTANT Foreigners   \* messages put in tasks.pending by something else than the gateway

ASSUME TaskFlowAssumption ==
    \A m \in Foreigners : m = Malformed \/ (m \in Tasks /\ TypeOf[m] = NoType)

vars == <<backendVars, gatewayVars, dispatcherVars, workerVars>>

TypeOK ==
    /\ GatewayTypeOK
    /\ DispatcherTypeOK
    /\ WorkerTypeOK

Init ==
    /\ BackendsInit
    /\ GatewayInit
    /\ DispatcherInit
    /\ WorkerInit

\* Something that did not pass the gateway is published to tasks.pending: a
\* body that is no task, or a task without a type.
Foreign(m, p) ==
    /\ Len(pending[p]) < MaxLog
    /\ pending' = [pending EXCEPT ![p] = Append(@, m)]
    /\ UNCHANGED <<storeVars, repoVars, work, dlq, faults>>

Next ==
    \/ GatewayNext /\ UNCHANGED <<dispatcherVars, workerVars>>
    \/ DispatcherNext /\ UNCHANGED <<gatewayVars, workerVars>>
    \/ WorkerNext /\ UNCHANGED <<gatewayVars, dispatcherVars>>
    \/ /\ (\E m \in Foreigners, p \in Partitions : Foreign(m, p)) \/ Expiry
       /\ UNCHANGED <<gatewayVars, dispatcherVars, workerVars>>

Spec == Init /\ [][Next]_vars

\* Each process goes on while it runs, the deployments restart what has stopped
\* and the group coordinators reassign partitions nobody reads.
Fairness ==
    /\ \A t \in Tasks : WF_vars(SubmitStep(t) /\ UNCHANGED <<dispatcherVars, workerVars>>)
    /\ \A d \in Dispatchers :
          /\ WF_vars(RouteStep(d) /\ UNCHANGED <<gatewayVars, workerVars>>)
          /\ WF_vars(DispatcherStart(d) /\ UNCHANGED <<gatewayVars, workerVars>>)
    /\ WF_vars(DispatcherReassign /\ UNCHANGED <<gatewayVars, workerVars>>)
    /\ \A w \in Workers :
          /\ WF_vars(ProcessStep(w) /\ UNCHANGED <<gatewayVars, dispatcherVars>>)
          /\ WF_vars(Start(w) /\ UNCHANGED <<gatewayVars, dispatcherVars>>)
    /\ WF_vars(Reassign /\ UNCHANGED <<gatewayVars, dispatcherVars>>)

FairSpec == Spec /\ Fairness

-----------------------------------------------------------------------------
(* Properties of the whole *)

\* The messages in tasks.pending.
PendingBodies ==
    {m \in Bodies : \E p \in Partitions : \E i \in DOMAIN pending[p] : pending[p][i] = m}

\* m is in a topic, and the group that reads the topic resumes at it or before
\* it, or its handler returned an error for it.
Owed(topic, mark, rejected, m) ==
    \E p \in Partitions : \E i \in DOMAIN topic[p] :
        /\ topic[p][i] = m
        /\ i > mark[p] \/ i - 1 \in rejected[p]

\* "202 Accepted": the task is never lost without a trace, whatever fails, crashes,
\* expires or is redelivered in whichever service.  It has been executed, with
\* success or to the last attempt, or it is in the dead-letter topic, or the
\* dispatchers or the workers still have it to read, or they returned an error
\* for it.  The exceptions are a task whose attempts a shutdown cut short, and a
\* type without a handler: the dead letter of either may be lost.
AcceptedIsAccounted ==
    \A t \in Tasks : request[t] = "accepted" =>
        \/ t \in succeeded \cup exhausted \cup dlq
        \/ Owed(pending, dCommitted, dRejected, t)
        \/ Owed(work[WorkerType], wCommitted, wRejected, t)
        \/ TypeOf[t] # WorkerType /\ t \in WorkBodies
        \/ t \in interrupted \/ TypeOf[t] \notin Registered

Records == INSTANCE TaskRecords
               WITH Reports <- {"QUEUED", "RUNNING", "RETRYING", "DONE", "DEAD"},
                    Outcomes <- {"DONE", "DEAD"},
                    Counts <- 1 .. MaxAttempts

\* What the gateway assumes of the rest of the system when it reads a task: but
\* for its own writes, which are over when the task is in tasks.pending, a record
\* changes only by one of the writes of TaskRecords, for a task that is in
\* tasks.pending, or because its key expires.
RecordsAreThePipelines ==
    [][\/ UNCHANGED Records!recordVars
       \/ \E t \in PendingBodies \cap Tasks : Records!RecordStep(t)
       \/ \E t \in Tasks : Expire(t) /\ UNCHANGED row
       \/ \E t \in Tasks \ PendingBodies : SubmitStep(t)]_vars

\* SubmitTask writes PENDING and the row before it publishes, so that nothing a
\* dispatcher or a worker records of a task is undone by the gateway, and no row
\* appears after the execution that its record would refer to.
GatewayWritesFirst ==
    [][\A t \in Tasks :
          /\ status[t] \notin {NotFound, "PENDING"} => status'[t] # "PENDING"
          /\ row[t] # NotFound /\ row[t].completed => row'[t] # NewTask
          /\ t \in succeeded => (row'[t] = NotFound <=> row[t] = NotFound)]_vars

\* Every accepted task is executed with success or ends in the dead-letter
\* topic ("Always returns nil so the offset is committed (failures go to DLQ)"),
\* although a worker that lost its partition may leave it to another one, which
\* finds it terminal and skips it.
AcceptedTasksEnd ==
    \A t \in Tasks : request[t] = "accepted" ~> t \in succeeded \cup dlq

-----------------------------------------------------------------------------
(* The strengthening of AcceptedIsAccounted and GatewayWritesFirst, and the
   inductive invariant of the whole. *)

Submitted(t) == request[t] \in {"accepted", "refused"}

\* A task without a type is refused, one that was accepted is in tasks.pending, and
\* SubmitTask is over before a dispatcher or a worker has the task in its hands.
SubmitInv ==
    \A t \in Tasks :
        /\ request[t] \notin {"none", "refused"} => TypeOf[t] # NoType
        /\ request[t] = "accepted" => t \in PendingBodies
        /\ t \in PendingBodies /\ TypeOf[t] # NoType => Submitted(t)
        /\ status[t] \notin {NotFound, "PENDING"} \/ t \in succeeded \cup exhausted => Submitted(t)
        /\ row[t] # NotFound /\ row[t].completed => t \in succeeded \cup exhausted

\* The inductive invariant: both groups are where their Subscribe loops allow,
\* each call of route, processMessage and SubmitTask has behind it the writes
\* that come before its next one, and no record says more than what happened.
FlowInv ==
    /\ TypeOK
    /\ DGroup!IInv
    /\ Group!IInv
    /\ RoutingInv
    /\ RecordsInv
    /\ ReturnedInv
    /\ SubmitInv

=============================================================================
