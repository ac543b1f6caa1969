----------------------------- MODULE Dispatcher -----------------------------
(***************************************************************************)
(* services/dispatcher/dispatcher.go: route, the handler that the          *)
(* dispatcher gives to Subscribe for tasks.pending.  The rate limiter is   *)
(* any answer Allow may give: allowed, not allowed, or an error; nil when  *)
(* it is not configured.  The message is published to the worker topic     *)
(* before the status is set to QUEUED.                                     *)
(***************************************************************************)
EXTENDS Backends

CONSTANTS
    Dispatchers,      \* the processes of the dispatcher group
    RateLimited,      \* a rate limiter is configured
    DKinds,           \* the kinds of disruption of the dispatcher group ...
    MaxDDisruptions   \* bound: ... and how many of them happen

ASSUME DispatcherAssumption ==
    /\ RateLimited \in BOOLEAN
    /\ None \notin Dispatchers
    /\ DKinds \subseteq {"crash", "signal", "fetch", "rebalance"}
    /\ MaxDDisruptions \in Nat

VARIABLES
    dCommitted, dOwner, dPosition, dPhase, dInflight, dCancelled, dAccepted,
    dRejected, dDisruptions,   \* the variables of KafkaConsumer
    dStep                      \* dStep[d]: the call route makes next

dGroupVars == <<dCommitted, dOwner, dPosition, dPhase, dInflight, dCancelled, dAccepted,
                dRejected, dDisruptions>>
dispatcherVars == <<dGroupVars, dStep>>

DGroup == INSTANCE KafkaConsumer WITH
    Consumers <- Dispatchers, MaxOffset <- MaxLog, Kinds <- DKinds,
    MaxDisruptions <- MaxDDisruptions,
    end <- [p \in Partitions |-> Len(pending[p])],
    committed <- dCommitted, owner <- dOwner, position <- dPosition,
    phase <- dPhase, inflight <- dInflight, cancelled <- dCancelled,
    accepted <- dAccepted, rejected <- dRejected, disruptions <- dDisruptions

DSteps == {"idle", "limit", "publish", "queued", "dlq"}

DispatcherTypeOK ==
    /\ DGroup!TypeOK
    /\ dStep \in [Dispatchers -> DSteps]

DispatcherInit ==
    /\ DGroup!Init
    /\ dStep = [d \in Dispatchers |-> "idle"]

-----------------------------------------------------------------------------
DBody(d) == pending[dInflight[d].partition][dInflight[d].offset + 1]
DLive(d) == ~dCancelled[d]
DGoto(d, s) == dStep' = [dStep EXCEPT ![d] = s]

\* What route does with a message before it calls anything: a malformed body
\* and an empty type go to the dead-letter topic, the rest to the limiter.
FirstCall(m) ==
    IF m = Malformed \/ (m \in Tasks /\ TypeOf[m] = NoType) THEN "dlq"
    ELSE IF RateLimited THEN "limit"
    ELSE "publish"

RouteReceive(d) ==
    /\ UNCHANGED backendVars
    /\ \E p \in Partitions :
          /\ DGroup!FetchMessage(d, p)
          /\ DGoto(d, FirstCall(pending[p][dPosition[p] + 1]))

\* limiter.Allow: not allowed means the dead-letter topic, an error means
\* allowed.
RouteLimit(d) ==
    /\ dStep[d] = "limit"
    /\ \/ Succeeds(DLive(d)) /\ (DGoto(d, "publish") \/ DGoto(d, "dlq"))
       \/ Fails(DLive(d)) /\ DGoto(d, "publish")
    /\ UNCHANGED <<storeVars, repoVars, topicVars, dGroupVars>>

\* Mutant: the worker topic is not chosen by the type of the task.
RoutePublishAnywhere(d) ==
    /\ dStep[d] = "publish"
    /\ UNCHANGED <<storeVars, repoVars, pending, dlq>>
    /\ \E ty \in Types : PublishWork(DLive(d), ty, DBody(d), TRUE)
    /\ DGoto(d, "queued")
    /\ UNCHANGED dGroupVars

\* Publish to the worker topic; an error is returned, so that the offset is not
\* committed.
RoutePublish(d) ==
    /\ dStep[d] = "publish"
    /\ UNCHANGED <<storeVars, repoVars, pending, dlq>>
    /\ \/ /\ PublishWork(DLive(d), TypeOf[DBody(d)], DBody(d), TRUE)
          /\ DGoto(d, "queued")
          /\ UNCHANGED dGroupVars
       \/ /\ PublishWork(DLive(d), TypeOf[DBody(d)], DBody(d), FALSE)
          /\ DGroup!HandlerReturnsError(d)
          /\ DGoto(d, "idle")

\* The best-effort update of the status, after the publish; then nil.
RouteQueued(d) ==
    /\ dStep[d] = "queued"
    /\ UNCHANGED <<meta, repoVars, topicVars>>
    /\ \E ok \in BOOLEAN : SetStatus(DLive(d), DBody(d), "QUEUED", ok)
    /\ DGroup!HandlerReturnsNil(d)
    /\ DGoto(d, "idle")

\* Mutant: toDLQ logs the error and returns nil.
RouteDLQIgnoringError(d) ==
    /\ dStep[d] = "dlq"
    /\ UNCHANGED <<storeVars, repoVars, pending, work>>
    /\ \E ok \in BOOLEAN : PublishDLQ(DLive(d), DBody(d), ok)
    /\ DGroup!HandlerReturnsNil(d)
    /\ DGoto(d, "idle")

\* toDLQ: the status in Redis stays what it was.
RouteDLQ(d) ==
    /\ dStep[d] = "dlq"
    /\ UNCHANGED <<storeVars, repoVars, pending, work>>
    /\ \/ PublishDLQ(DLive(d), DBody(d), TRUE) /\ DGroup!HandlerReturnsNil(d)
       \/ PublishDLQ(DLive(d), DBody(d), FALSE) /\ DGroup!HandlerReturnsError(d)
    /\ DGoto(d, "idle")

-----------------------------------------------------------------------------
(* The rest of Subscribe and of the process. *)

RouteCommit(d) ==
    /\ UNCHANGED backendVars
    /\ DGroup!CommitMessages(d) \/ DGroup!CommitFails(d)
    /\ UNCHANGED dStep

DispatcherExit(d) ==
    /\ UNCHANGED backendVars
    /\ DGroup!SubscribeReturnsNil(d)
    /\ DGoto(d, "idle")

DispatcherDie(d) ==
    /\ UNCHANGED backendVars
    /\ DGroup!SubscribeReturnsError(d) \/ DGroup!Crash(d)
    /\ DGoto(d, "idle")

DispatcherSignal(d) ==
    /\ UNCHANGED backendVars
    /\ DGroup!Shutdown(d)
    /\ UNCHANGED dStep

DispatcherStart(d) ==
    /\ UNCHANGED backendVars
    /\ DGroup!Restart(d)
    /\ UNCHANGED dStep

DispatcherReassign ==
    /\ UNCHANGED backendVars
    /\ DGroup!Rebalance
    /\ UNCHANGED dStep

DispatcherDisturb ==
    /\ UNCHANGED backendVars
    /\ DGroup!SpontaneousRebalance
    /\ UNCHANGED dStep

RouteStep(d) ==
    \/ RouteReceive(d) \/ RouteLimit(d) \/ RoutePublish(d) \/ RouteQueued(d)
    \/ RouteDLQ(d) \/ RouteCommit(d) \/ DispatcherExit(d)

DispatcherNext ==
    \/ \E d \in Dispatchers :
          RouteStep(d) \/ DispatcherDie(d) \/ DispatcherSignal(d) \/ DispatcherStart(d)
    \/ DispatcherReassign
    \/ DispatcherDisturb

-----------------------------------------------------------------------------
(* Properties *)

\* The messages in the worker topics.
WorkBodies ==
    {m \in Bodies : \E ty \in Types, p \in Partitions :
                        \E i \in DOMAIN work[ty][p] : work[ty][p][i] = m}

\* Conservation: a message route has returned nil for is in a worker topic or in
\* the dead-letter topic, whatever failed, crashed or was cancelled on the way.
RoutedIsSomewhere ==
    \A p \in Partitions : \A o \in dAccepted[p] : pending[p][o + 1] \in WorkBodies \cup dlq

\* A worker topic only has tasks of its own type that were submitted, and tasks
\* with an empty type and malformed messages are in none.
WorkIsRouted ==
    \A ty \in Types, p \in Partitions : \A i \in DOMAIN work[ty][p] :
        LET t == work[ty][p][i]
        IN  /\ t \in Tasks
            /\ TypeOf[t] = ty
            /\ \E j \in DOMAIN pending[p] : pending[p][j] = t

\* "Transient Kafka error - return error so offset is NOT committed": route relies
\* on that, but Subscribe goes on to the next message.  The group goes past a
\* task that is in no topic in one way only: the publish failed, and a later
\* message of the partition was accepted.
LostWasSkipped ==
    \A p \in Partitions : \A o \in 0 .. dCommitted[p] - 1 :
        \/ pending[p][o + 1] \in WorkBodies \cup dlq
        \/ o \in dRejected[p] /\ \E later \in dAccepted[p] : later > o

-----------------------------------------------------------------------------
(* The strengthening of RoutedIsSomewhere and WorkIsRouted that every step
   preserves. *)

\* route runs inside the handler call of the loop, only a task with a type gets
\* to the limiter and to the worker topic, and QUEUED comes after the publish.
RouteInv ==
    \A d \in Dispatchers :
        /\ dStep[d] # "idle" => dPhase[d] = "handle"
        /\ dStep[d] \in {"limit", "publish", "queued"} =>
              DBody(d) \in Tasks /\ TypeOf[DBody(d)] # NoType
        /\ dStep[d] = "queued" => DBody(d) \in WorkBodies

\* A task with a type is in the partition of its key, and what has been accepted
\* is a message of the partition.
PlacedInv ==
    \A p \in Partitions :
        /\ \A i \in DOMAIN pending[p] :
              pending[p][i] \in Tasks /\ TypeOf[pending[p][i]] # NoType
                  => PartitionOf[pending[p][i]] = p
        /\ \A o \in dAccepted[p] : o < Len(pending[p])

RoutingInv == RouteInv /\ PlacedInv /\ RoutedIsSomewhere /\ WorkIsRouted

=============================================================================
