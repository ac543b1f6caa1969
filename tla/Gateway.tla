------------------------------ MODULE Gateway ------------------------------
(***************************************************************************)
(* services/api-gateway/handler: SubmitTask of rest.go, and of grpc.go,    *)
(* which makes the same calls in the same order.  Every request has a task *)
(* ID of its own, so a request is named by its task.  The calls run on the *)
(* context of the request, which ends when the client goes away.           *)
(***************************************************************************)
EXTENDS Backends

VARIABLES
    request,   \* request[t]: the call SubmitTask makes next, or how it ended
    gone       \* the requests whose client has gone away

gatewayVars == <<request, gone>>

RequestSteps == {"none", "meta", "status", "create", "publish", "accepted", "refused"}

GatewayTypeOK ==
    /\ request \in [Tasks -> RequestSteps]
    /\ gone \in SUBSET Tasks

GatewayInit ==
    /\ request = [t \in Tasks |-> "none"]
    /\ gone = {}

Waiting(t) == t \notin gone
To(t, s) == request' = [request EXCEPT ![t] = s]

\* A request arrives.  It is refused without a type, and also when its body does
\* not decode or has no payload.
SubmitTask(t) ==
    /\ request[t] = "none"
    /\ \/ TypeOf[t] # NoType /\ To(t, "meta")
       \/ To(t, "refused")
    /\ UNCHANGED <<backendVars, gone>>

\* Redis first: either error refuses the request and leaves what was written.
SubmitMeta(t) ==
    /\ request[t] = "meta"
    /\ \/ SetTaskMeta(Waiting(t), t, NewTask, TRUE) /\ To(t, "status")
       \/ SetTaskMeta(Waiting(t), t, NewTask, FALSE) /\ To(t, "refused")
    /\ UNCHANGED <<status, repoVars, topicVars, gone>>

SubmitStatus(t) ==
    /\ request[t] = "status"
    /\ \/ SetStatus(Waiting(t), t, "PENDING", TRUE) /\ To(t, "create")
       \/ SetStatus(Waiting(t), t, "PENDING", FALSE) /\ To(t, "refused")
    /\ UNCHANGED <<meta, repoVars, topicVars, gone>>

\* PostgreSQL next; its error is not fatal.
SubmitCreate(t) ==
    /\ request[t] = "create"
    /\ \E ok \in BOOLEAN : Create(Waiting(t), t, ok)
    /\ To(t, "publish")
    /\ UNCHANGED <<storeVars, executions, topicVars, gone>>

\* Mutant: the status is written once more after the publish.
SubmitPublishThenStatus(t) ==
    /\ request[t] = "publish"
    /\ PublishPending(Waiting(t), t, TRUE)
    /\ To(t, "status")
    /\ UNCHANGED <<storeVars, repoVars, work, dlq, gone>>

\* Kafka last: accepted, or refused with Redis and PostgreSQL left as they are.
SubmitPublish(t) ==
    /\ request[t] = "publish"
    /\ \/ PublishPending(Waiting(t), t, TRUE) /\ To(t, "accepted")
       \/ PublishPending(Waiting(t), t, FALSE) /\ To(t, "refused")
    /\ UNCHANGED <<storeVars, repoVars, work, dlq, gone>>

SubmitStep(t) == SubmitMeta(t) \/ SubmitStatus(t) \/ SubmitCreate(t) \/ SubmitPublish(t)

\* The client goes away while its request is being served.
Disconnect(t) ==
    /\ request[t] \in {"meta", "status", "create", "publish"}
    /\ t \notin gone
    /\ faults < MaxFaults
    /\ faults' = faults + 1
    /\ gone' = gone \cup {t}
    /\ UNCHANGED <<storeVars, repoVars, topicVars, request>>

GatewayNext == \E t \in Tasks : SubmitTask(t) \/ SubmitStep(t) \/ Disconnect(t)

=============================================================================
