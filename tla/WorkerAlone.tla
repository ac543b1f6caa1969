---------------------------- MODULE WorkerAlone ----------------------------
(***************************************************************************)
(* The worker group by itself: what the other services may have left in    *)
(* the stores, and messages that appear in the worker topic.  The QUEUED   *)
(* status of a routed task is written no later than its message here; the  *)
(* dispatcher's real order is in TaskFlow.                                 *)
(***************************************************************************)
EXTENDS Worker

vars == <<backendVars, workerVars>>

\* A task comes from the gateway, whose insert into PostgreSQL may have failed,
\* or from the scheduler, which writes neither Redis nor PostgreSQL.
Init ==
    /\ faults = 0
    /\ \E scheduled \in SUBSET Tasks : \E unsaved \in SUBSET (Tasks \ scheduled) :
          /\ status = [t \in Tasks |-> IF t \in scheduled THEN NotFound ELSE "PENDING"]
          /\ meta = [t \in Tasks |-> IF t \in scheduled THEN NotFound ELSE NewTask]
          /\ row = [t \in Tasks |-> IF t \in scheduled \cup unsaved THEN NotFound ELSE NewTask]
    /\ executions = [t \in Tasks |-> <<>>]
    /\ pending = [p \in Partitions |-> <<>>]
    /\ work = [ty \in Types |-> [p \in Partitions |-> <<>>]]
    /\ dlq = {}
    /\ WorkerInit

InTopic(m) == \E p \in Partitions : \E i \in DOMAIN work[WorkerType][p] : work[WorkerType][p][i] = m

\* A task is routed to the topic, with or without its QUEUED status; a message
\* that is there already may be published again.
Route(t) ==
    /\ PublishWork(TRUE, WorkerType, t, TRUE)
    /\ IF InTopic(t)
       THEN UNCHANGED status
       ELSE status' \in {status, [status EXCEPT ![t] = "QUEUED"]}
    /\ UNCHANGED <<meta, repoVars, pending, dlq, workerVars>>

\* Something that is not a task is published to the topic.
RouteMalformed(p) ==
    /\ Len(work[WorkerType][p]) < MaxLog
    /\ work' = [work EXCEPT ![WorkerType][p] = Append(@, Malformed)]
    /\ UNCHANGED <<storeVars, repoVars, pending, dlq, faults, workerVars>>

Next ==
    \/ WorkerNext
    \/ \E t \in Tasks : Route(t)
    \/ \E p \in Partitions : RouteMalformed(p)
    \/ Expiry /\ UNCHANGED workerVars

Spec == Init /\ [][Next]_vars

FairSpec == Spec /\ WorkerFairness

-----------------------------------------------------------------------------
(* What the readers of the records rely on. *)

Life == INSTANCE TaskLifecycle
            WITH Reports <- {"QUEUED", "RUNNING", "RETRYING", "DONE", "DEAD"},
                 Outcomes <- {"DONE", "DEAD"},
                 Counts <- 1 .. MaxAttempts

\* Without signals and failing calls, and in spite of crashes, rebalances and
\* duplicates, the workers write the records of a task in the order that
\* TaskLifecycle promises: what processMessage and the two finish functions write
\* in five separate calls never shows a completed task whose status is not
\* terminal, and the row never runs ahead of the metadata.
ImplementsLifecycle == Life!LifeSpec

-----------------------------------------------------------------------------
(* Under which circumstances that holds, and why. *)

\* One worker, which nothing but a crash, a failed fetch or a rebalance disturbs,
\* and keys that outlive what happens to a task.
Undisturbed ==
    /\ \E w \in Workers : Workers = {w}
    /\ MaxFaults = 0
    /\ "signal" \notin Kinds
    /\ ~KeysExpire

\* The status of the task in the hands of a worker is what its last write left:
\* not terminal before the result is written, and the result after that, in the
\* metadata too once these are written.
ProgressInv ==
    \A w \in Workers :
        /\ step[w] \in {"running", "noHandler", "attempt", "onRetry", "backoff", "finishStatus"} =>
              ~IsTerminal(status[Body(w)])
        /\ step[w] = "noHandlerDLQ" => IsTerminal(status[Body(w)])
        /\ step[w] \in {"finishMeta", "finishRecord", "finishUpdate", "finishDLQ"} =>
              status[Body(w)] = FinalStatus(w)
        /\ step[w] \in {"finishRecord", "finishUpdate"} =>
              meta[Body(w)] # NotFound /\ meta[Body(w)].status = FinalStatus(w)

\* A task is terminal only when its message is there, and processMessage has
\* returned only for messages that are there.
TerminalInv ==
    /\ \A t \in Tasks : IsTerminal(status[t]) => InTopic(t)
    /\ \A p \in Partitions : \A o \in wAccepted[p] : o < Len(work[WorkerType][p])

\* What an undisturbed worker preserves.
SoloInv ==
    /\ WorkerInv
    /\ \A w \in Workers : ~wCancelled[w]
    /\ ProgressInv
    /\ TerminalInv
    /\ AcceptedIsTerminal

=============================================================================
