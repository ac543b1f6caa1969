--------------------------- MODULE GatewayServer ---------------------------
(***************************************************************************)
(* The api-gateway process: the calls of services/api-gateway/handler, and *)
(* their end in services/api-gateway/cli/serve.go.  Tasks are submitted    *)
(* over REST, or one after the other over one gRPC stream                  *)
(* (BulkSubmitTasks).  Clients read a task with GetTaskStatus, which makes *)
(* the same calls in rest.go and grpc.go, or over a stream                 *)
(* (StreamTaskUpdates), which repeats it.  A single submission or read     *)
(* over gRPC differs from the one over REST only in that GracefulStop      *)
(* waits for it.  The rest of the system makes the writes of TaskRecords,  *)
(* in any order, and keys expire.                                          *)
(***************************************************************************)
EXTENDS Gateway, TaskRecords, FiniteSets

CONSTANTS
    Clients,     \* those who read tasks
    Target       \* Target[c]: the task that client c asks for

ASSUME GatewayServerAssumption ==
    /\ Target \in [Clients -> Tasks]
    /\ None \notin Tasks \cup {NotFound, Failed}

VARIABLES
    server,      \* what runServe is doing
    streaming,   \* the clients whose stream of updates is open
    read,        \* read[c]: the call GetTaskStatus makes next for client c
    got,         \* got[c]: the metadata or row it has read
    answer,      \* answer[c]: what it answered
    recorded,    \* history: the clients whose read began when the row was completed
    over,        \* history: the tasks of which some record has been final
    disordered,  \* history: the tasks whose records have contradicted each other
    bulk,        \* how far BulkSubmitTasks is
    bulkTask,    \* the request it has received and is submitting, or None
    bulkIDs,     \* the task IDs it has collected
    bulkFailed,  \* how many of its requests failed
    bulkReqs     \* the requests that came over its stream

readVars == <<streaming, read, got, answer, recorded>>
bulkVars == <<bulk, bulkTask, bulkReqs, bulkIDs, bulkFailed>>
orderVars == <<over, disordered>>
vars == <<backendVars, gatewayVars, orderVars, server, readVars, bulkVars>>

TypeOK ==
    /\ BackendsTypeOK
    /\ GatewayTypeOK
    /\ over \in SUBSET Tasks
    /\ disordered \in SUBSET Tasks
    /\ server \in {"serving", "grpcStop", "httpStop", "exited"}
    /\ streaming \in SUBSET Clients
    /\ read \in [Clients -> {"none", "meta", "row", "status"}]
    /\ got \in [Clients -> TaskData \cup {None}]
    /\ answer \in [Clients -> TaskData \cup {NotFound, Failed, None}]
    /\ recorded \in SUBSET Clients
    /\ bulk \in {"none", "open", "answered", "broken"}
    /\ bulkTask \in Tasks \cup {None}
    /\ bulkIDs \in SUBSET Tasks
    /\ bulkFailed \in Nat
    /\ bulkReqs \in SUBSET Tasks

Init ==
    /\ BackendsInit
    /\ GatewayInit
    /\ over = {}
    /\ disordered = {}
    /\ server = "serving"
    /\ streaming = {}
    /\ read = [c \in Clients |-> "none"]
    /\ got = [c \in Clients |-> None]
    /\ answer = [c \in Clients |-> None]
    /\ recorded = {}
    /\ bulk = "none"
    /\ bulkTask = None
    /\ bulkIDs = {}
    /\ bulkFailed = 0
    /\ bulkReqs = {}

\* The process runs, and takes new calls of the two kinds.
Up == server # "exited"
TakesHTTP == server \in {"serving", "grpcStop"}
TakesGRPC == server = "serving"

-----------------------------------------------------------------------------
(* GetTaskStatus *)

\* What a read leaves alone.
Reading == Up /\ UNCHANGED <<storeVars, repoVars, topicVars, gatewayVars, orderVars, server, bulkVars>>

BeginRead(c) ==
    LET r == row[Target[c]]
    IN  /\ read' = [read EXCEPT ![c] = "meta"]
        /\ answer' = [answer EXCEPT ![c] = None]
        /\ recorded' = IF r # NotFound /\ r.completed THEN recorded \cup {c} ELSE recorded \ {c}
        /\ UNCHANGED <<streaming, got, faults>>
        /\ Reading

\* Mutant: a stream ends with DONE only.
EndsWhenDone(a) == a \in {NotFound, Failed} \/ a.status = "DONE"

\* A stream ends after an error or a terminal status.
EndsStream(a) == a \in {NotFound, Failed} \/ IsTerminal(a.status)

\* GetTaskStatus returns a, to the client or to the loop of its stream.
Answer(c, a) ==
    /\ answer' = [answer EXCEPT ![c] = a]
    /\ got' = [got EXCEPT ![c] = None]
    /\ read' = [read EXCEPT ![c] = "none"]
    /\ streaming' = IF EndsStream(a) THEN streaming \ {c} ELSE streaming
    /\ UNCHANGED recorded

Found(c, d) ==
    /\ got' = [got EXCEPT ![c] = d]
    /\ read' = [read EXCEPT ![c] = "status"]
    /\ UNCHANGED <<streaming, answer, recorded>>

\* Mutant: a task whose metadata is not in Redis is not looked for in PostgreSQL.
ReadMetaOnly(c) ==
    /\ read[c] = "meta"
    /\ \E m \in {meta[Target[c]], Failed} :
          /\ GetTaskMeta(TRUE, Target[c], m)
          /\ IF m \in {NotFound, Failed} THEN Answer(c, m) ELSE Found(c, m)
    /\ Reading

\* The fast path.
ReadMeta(c) ==
    /\ read[c] = "meta"
    /\ \E m \in {meta[Target[c]], Failed} :
          /\ GetTaskMeta(TRUE, Target[c], m)
          /\ \/ m = Failed /\ Answer(c, Failed)
             \/ /\ m = NotFound
                /\ read' = [read EXCEPT ![c] = "row"]
                /\ UNCHANGED <<streaming, got, answer, recorded>>
             \/ m \notin {NotFound, Failed} /\ Found(c, m)
    /\ Reading

\* The slow path.
ReadRow(c) ==
    /\ read[c] = "row"
    /\ \E r \in {row[Target[c]], Failed} :
          /\ GetByID(TRUE, Target[c], r)
          /\ IF r \in {NotFound, Failed} THEN Answer(c, r) ELSE Found(c, r)
    /\ Reading

\* Mutant: a task without a live status is taken for a new one.
LiveStatusOrPending(d, s) == IF s \in {NotFound, Failed} THEN "PENDING" ELSE s

\* The live status, unless there is none or it cannot be read.
LiveStatus(d, s) == IF s \in {NotFound, Failed} THEN d.status ELSE s

ReadStatus(c) ==
    /\ read[c] = "status"
    /\ \E s \in {status[Target[c]], Failed} :
          /\ GetStatus(TRUE, Target[c], s)
          /\ Answer(c, [got[c] EXCEPT !.status = LiveStatus(got[c], s)])
    /\ Reading

GetTaskStatus(c) == ReadMeta(c) \/ ReadRow(c) \/ ReadStatus(c)

\* A client that was given the ID of the task asks for it over REST.
Poll(c) ==
    /\ TakesHTTP
    /\ read[c] = "none" /\ c \notin streaming
    /\ request[Target[c]] = "accepted"
    /\ BeginRead(c)

-----------------------------------------------------------------------------
(* StreamTaskUpdates *)

StreamOpen(c) ==
    /\ TakesGRPC
    /\ read[c] = "none" /\ c \notin streaming
    /\ request[Target[c]] = "accepted"
    /\ streaming' = streaming \cup {c}
    /\ UNCHANGED <<read, got, answer, recorded, faults>>
    /\ Reading

StreamTick(c) ==
    /\ c \in streaming
    /\ read[c] = "none"
    /\ BeginRead(c)

\* The client has gone: the loop returns, at its select or because a call or the
\* send fails.
StreamGone(c) ==
    /\ c \in streaming
    /\ streaming' = streaming \ {c}
    /\ read' = [read EXCEPT ![c] = "none"]
    /\ got' = [got EXCEPT ![c] = None]
    /\ UNCHANGED <<answer, recorded, faults>>
    /\ Reading

-----------------------------------------------------------------------------
(* BulkSubmitTasks *)

\* What a submission leaves alone.
Submitting == Up /\ UNCHANGED <<orderVars, server, readVars>>

BulkOpen ==
    /\ TakesGRPC
    /\ bulk = "none"
    /\ bulk' = "open"
    /\ UNCHANGED <<backendVars, gatewayVars, bulkTask, bulkReqs, bulkIDs, bulkFailed>>
    /\ Submitting

Receiving == bulk = "open" /\ bulkTask = None

\* Recv returns a request, which is submitted.
BulkRecv(t) ==
    /\ Receiving
    /\ gone \cap bulkReqs = {}
    /\ SubmitTask(t)
    /\ bulkTask' = t
    /\ bulkReqs' = bulkReqs \cup {t}
    /\ UNCHANGED <<bulk, bulkIDs, bulkFailed>>
    /\ Submitting

\* Mutant: a request that was refused is counted as submitted.
BulkCountAll(t) ==
    /\ bulkIDs' = bulkIDs \cup {t}
    /\ UNCHANGED bulkFailed

BulkCount(t) ==
    IF request[t] = "accepted"
    THEN bulkIDs' = bulkIDs \cup {t} /\ UNCHANGED bulkFailed
    ELSE bulkFailed' = bulkFailed + 1 /\ UNCHANGED bulkIDs

\* The submission has returned; its error does not end the loop.
BulkNext ==
    /\ bulkTask # None
    /\ request[bulkTask] \in {"accepted", "refused"}
    /\ BulkCount(bulkTask)
    /\ bulkTask' = None
    /\ UNCHANGED <<backendVars, gatewayVars, bulk, bulkReqs>>
    /\ Submitting

\* The client has sent its last request and gets the answer, or it has gone and
\* Recv fails.
BulkEnd ==
    /\ Receiving
    /\ \/ bulk' = "answered" /\ gone \cap bulkReqs = {}
       \/ bulk' = "broken"
    /\ UNCHANGED <<backendVars, gatewayVars, bulkTask, bulkReqs, bulkIDs, bulkFailed>>
    /\ Submitting

-----------------------------------------------------------------------------
(* The server. *)

\* A POST arrives.
Post(t) ==
    /\ TakesHTTP
    /\ SubmitTask(t)
    /\ UNCHANGED bulkVars
    /\ Submitting

\* The submission of t, which came over REST or over the stream, goes on.
Submit(t) ==
    /\ SubmitStep(t) \/ Disconnect(t)
    /\ UNCHANGED bulkVars
    /\ Submitting

GRPCInFlight ==
    \/ bulk = "open"
    \/ streaming # {}

\* SIGTERM or SIGINT.
Quit ==
    /\ server = "serving"
    /\ server' = "grpcStop"
    /\ UNCHANGED <<backendVars, gatewayVars, orderVars, readVars, bulkVars>>

\* GracefulStop returns when the last call has ended, however long that takes.
GracefulStop ==
    /\ server = "grpcStop"
    /\ ~GRPCInFlight
    /\ server' = "httpStop"
    /\ UNCHANGED <<backendVars, gatewayVars, orderVars, readVars, bulkVars>>

\* Shutdown returns when the last request has ended, or after 30 s.
Shutdown ==
    /\ server = "httpStop"
    /\ server' = "exited"
    /\ UNCHANGED <<backendVars, gatewayVars, orderVars, readVars, bulkVars>>

InPending(t) == \E i \in DOMAIN pending[PartitionOf[t]] : pending[PartitionOf[t]][i] = t

RowCompleted(t) == row[t] # NotFound /\ row[t].completed

\* A record of t says that it is over.
SaysOver(t) ==
    \/ IsTerminal(status[t])
    \/ meta[t] # NotFound /\ IsTerminal(meta[t].status)
    \/ RowCompleted(t)

\* The live status of a task that is over says that it is not, or the metadata
\* say so of one whose row is completed.
OutOfOrder(t) ==
    \/ t \in over /\ status[t] # NotFound /\ ~IsTerminal(status[t])
    \/ RowCompleted(t) /\ meta[t] # NotFound /\ ~IsTerminal(meta[t].status)

\* The dispatchers and workers write of the tasks they were given, and keys
\* expire.  The records of a task that nobody reads do not matter, nor do any once
\* the gateway is down.
Pipeline ==
    /\ Up
    /\ \E t \in {Target[c] : c \in Clients} :
          \/ InPending(t) /\ RecordStep(t)
          \/ Expire(t) /\ UNCHANGED row
    /\ over' = over \cup {t \in Tasks : SaysOver(t)'}
    /\ disordered' = disordered \cup {t \in Tasks : OutOfOrder(t)'}
    /\ UNCHANGED <<executions, topicVars, faults, gatewayVars, server, readVars, bulkVars>>

Next ==
    \/ \E t \in Tasks : Post(t)
    \/ \E t \in Tasks : Submit(t)
    \/ \E c \in Clients : Poll(c) \/ GetTaskStatus(c)
    \/ \E c \in Clients : StreamOpen(c) \/ StreamTick(c) \/ StreamGone(c)
    \/ BulkOpen
    \/ \E t \in Tasks : BulkRecv(t)
    \/ BulkNext
    \/ BulkEnd
    \/ Quit
    \/ GracefulStop
    \/ Shutdown
    \/ Pipeline

\* A handler that runs goes on and the shutdown goes on when it can; no client
\* has to do anything, and no task has to finish.
Fairness ==
    /\ WF_vars(\E t \in Tasks : Submitting /\ SubmitStep(t) /\ UNCHANGED bulkVars)
    /\ \A c \in Clients : WF_vars(StreamTick(c) \/ GetTaskStatus(c))
    /\ WF_vars(BulkNext)
    /\ WF_vars(GracefulStop \/ Shutdown)

Spec == Init /\ [][Next]_vars

FairSpec == Spec /\ Fairness

-----------------------------------------------------------------------------
(* Properties *)

IsTask(a) == a \notin {None, NotFound, Failed}

\* GetTaskStatus combines metadata or a row with a live status it reads later,
\* while the pipeline writes and keys expire.  A task that is answered with
\* completed_at, or whose row was completed before the read began, is answered
\* with a terminal status: neither the expiry of one key or of both between the
\* reads nor a failing read of the status brings an older one back.  The only
\* exception is a task whose records have contradicted each other in the stores:
\* the gateway adds no disorder of its own.
AnswersGoBackOnlyWithRecords ==
    \A c \in Clients :
        IsTask(answer[c]) /\ (answer[c].completed \/ c \in recorded) =>
            IsTerminal(answer[c].status) \/ Target[c] \in disordered

\* An accepted task is only reported as not found when its row was never
\* inserted: the gateway went on after Create failed, and the metadata expired.
NotFoundIsExplained ==
    \A c \in Clients : answer[c] = NotFound => row[Target[c]] = NotFound

\* The answer of BulkSubmitTasks names the requests that were accepted, all of
\* which are in tasks.pending, and counts the others as failed, wherever in the
\* list a call failed.
BulkAnswerIsTrue ==
    bulk = "answered" =>
        /\ bulkIDs = {t \in bulkReqs : request[t] = "accepted"}
        /\ \A t \in bulkIDs : InPending(t)
        /\ bulkFailed = Cardinality({t \in bulkReqs : request[t] = "refused"})

\* A task reaches tasks.pending with the last call of its submission, and is over
\* after that.
SubmitInv ==
    \A t \in Tasks :
        /\ request[t] = "accepted" => InPending(t)
        /\ InPending(t) => request[t] \in {"accepted", "refused"}
        /\ t \in over => InPending(t)

\* The records are those of TaskRecords, and the histories tell of them.
LifeInv ==
    \A t \in Tasks :
        /\ meta[t] # NotFound /\ meta[t].completed => IsTerminal(meta[t].status)
        /\ row[t] # NotFound => (row[t].completed <=> IsTerminal(row[t].status))
        /\ SaysOver(t) => t \in over
        /\ OutOfOrder(t) => t \in disordered

\* What GetTaskStatus holds between its calls.
HeldInv ==
    \A c \in Clients :
        LET t == Target[c]
        IN  /\ read[c] # "none" \/ c \in streaming \/ answer[c] # None => request[t] = "accepted"
            /\ c \in recorded => RowCompleted(t)
            /\ read[c] = "status" =>
                  /\ got[c] \in TaskData
                  /\ got[c].completed => t \in over /\ IsTerminal(got[c].status)
                  /\ c \in recorded => IsTerminal(got[c].status) \/ t \in disordered

\* The requests of the stream are done but for the one being submitted, and
\* counted.
BulkInv ==
    LET done == bulkReqs \ {bulkTask}
    IN  /\ IsFiniteSet(bulkReqs)
        /\ bulkTask # None => bulkTask \in bulkReqs /\ request[bulkTask] # "none"
        /\ \A t \in done : request[t] \in {"accepted", "refused"}
        /\ bulkIDs = {t \in done : request[t] = "accepted"}
        /\ bulkFailed = Cardinality({t \in done : request[t] = "refused"})
        /\ bulk = "answered" => bulkTask = None

IInv ==
    /\ TypeOK
    /\ SubmitInv
    /\ LifeInv
    /\ HeldInv
    /\ AnswersGoBackOnlyWithRecords
    /\ NotFoundIsExplained
    /\ BulkInv

\* A read of t that does not fail answers that it is finished or unknown,
\* whichever record it finds.
Finished(t) ==
    IF status[t] = NotFound
    THEN \A d \in {meta[t], row[t]} : d = NotFound \/ IsTerminal(d.status)
    ELSE IsTerminal(status[t])

\* StreamTaskUpdates ends by itself: when the task a client watches reads as
\* finished for good, by its live status or by its records, the stream ends.
StreamsEnd ==
    \A c \in Clients : []<>(c \in streaming => ~Finished(Target[c]))

\* The shutdown ends although GracefulStop waits without a limit: once it has begun
\* the process exits, unless the client of BulkSubmitTasks goes on sending or a
\* task that is being watched does not finish for good.
ShutdownEnds ==
    []<>(\/ server \in {"serving", "exited"}
         \/ Receiving
         \/ \E c \in streaming : ~Finished(Target[c]))

=============================================================================
