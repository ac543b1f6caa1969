------------------------------- MODULE Worker -------------------------------
(***************************************************************************)
(* services/worker/worker.go: processMessage, the handler that a group of  *)
(* worker processes gives to Subscribe, with the retry loop of pkg/retry.  *)
(*                                                                         *)
(* Every call that leaves the process is a step of its own, so that        *)
(* crashes, signals, rebalances and the other processes come in between.   *)
(* All calls but the task handler's run on the context of Subscribe, which *)
(* a SIGTERM cancels; only RUNNING is written with its error checked.      *)
(***************************************************************************)
EXTENDS Backends

CONSTANTS
    Workers,         \* the processes of the worker group
    WorkerType,      \* the type they are started for
    Registered,      \* the types the registry has a handler for
    MaxRetries,      \* the configured number of retries
    Kinds,           \* the kinds of disruption of the worker group ...
    MaxDisruptions   \* bound: ... and how many of them happen

ASSUME WorkerAssumption ==
    /\ WorkerType \in Types
    /\ Registered \subseteq Types
    /\ MaxRetries \in Int
    /\ None \notin Workers
    /\ Kinds \subseteq {"crash", "signal", "fetch", "rebalance"}
    /\ MaxDisruptions \in Nat

VARIABLES
    wCommitted, wOwner, wPosition, wPhase, wInflight, wCancelled, wAccepted,
    wRejected, wDisruptions,   \* the variables of KafkaConsumer
    step,       \* step[w]: the call processMessage makes next
    attempt,    \* attempt[w]: the loop variable of retry.Do
    attempts,   \* attempts[w]: the counter that is recorded with the task
    execErr,    \* execErr[w]: retry.Do returned an error
    succeeded,  \* history: tasks a handler call succeeded for
    exhausted,  \* history: tasks for which one delivery used up every attempt
    interrupted \* history: tasks whose attempts a shutdown has cut short

wLoopVars == <<wPhase, wInflight, wCancelled>>
wGroupVars == <<wCommitted, wOwner, wPosition, wLoopVars, wAccepted, wRejected, wDisruptions>>
runVars == <<step, attempt, attempts, execErr>>
workerVars == <<wGroupVars, runVars, succeeded, exhausted, interrupted>>

Group == INSTANCE KafkaConsumer WITH
    Consumers <- Workers, MaxOffset <- MaxLog,
    end <- [p \in Partitions |-> Len(work[WorkerType][p])],
    committed <- wCommitted, owner <- wOwner, position <- wPosition,
    phase <- wPhase, inflight <- wInflight, cancelled <- wCancelled,
    accepted <- wAccepted, rejected <- wRejected, disruptions <- wDisruptions

\* retry.Do makes at least one attempt.
MaxAttempts == IF MaxRetries + 1 <= 0 THEN 1 ELSE MaxRetries + 1

Steps == {"idle", "check", "running", "noHandler", "noHandlerDLQ", "attempt", "onRetry",
          "backoff", "finishStatus", "finishMeta", "finishRecord", "finishUpdate", "finishDLQ"}

RunTypeOK ==
    /\ step \in [Workers -> Steps]
    /\ attempt \in [Workers -> 0 .. MaxAttempts]
    /\ attempts \in [Workers -> 0 .. MaxAttempts]
    /\ execErr \in [Workers -> BOOLEAN]
    /\ succeeded \in SUBSET Tasks
    /\ exhausted \in SUBSET Tasks
    /\ interrupted \in SUBSET Tasks

WorkerTypeOK ==
    /\ BackendsTypeOK
    /\ Group!TypeOK
    /\ RunTypeOK

WorkerInit ==
    /\ Group!Init
    /\ step = [w \in Workers |-> "idle"]
    /\ attempt = [w \in Workers |-> 0]
    /\ attempts = [w \in Workers |-> 0]
    /\ execErr = [w \in Workers |-> FALSE]
    /\ succeeded = {}
    /\ exhausted = {}
    /\ interrupted = {}

-----------------------------------------------------------------------------
(* Steps of processMessage *)

Body(w) == work[WorkerType][wInflight[w].partition][wInflight[w].offset + 1]
Live(w) == ~wCancelled[w]

\* registry.Get finds a handler.
HasHandler(w) == TypeOf[Body(w)] \in Registered

Goto(w, s) == step' = [step EXCEPT ![w] = s]

\* The variables of the call disappear when processMessage is over.
Forget(w) ==
    /\ Goto(w, "idle")
    /\ attempt' = [attempt EXCEPT ![w] = 0]
    /\ attempts' = [attempts EXCEPT ![w] = 0]
    /\ execErr' = [execErr EXCEPT ![w] = FALSE]

\* processMessage returns; each action below that ends it makes this its last.
Return(w) ==
    /\ Group!HandlerReturnsNil(w)
    /\ Forget(w)

\* What a step inside processMessage leaves alone.
Inside == UNCHANGED <<wGroupVars, attempt, attempts, execErr, succeeded, exhausted, interrupted>>

\* Subscribe hands a message to processMessage.
Receive(w) ==
    /\ UNCHANGED backendVars
    /\ \E p \in Partitions : Group!FetchMessage(w, p)
    /\ Goto(w, "check")
    /\ UNCHANGED <<attempt, attempts, execErr, succeeded, exhausted, interrupted>>

\* The body does not decode: log it, and return nil.
Discard(w) ==
    /\ step[w] = "check"
    /\ Body(w) = Malformed
    /\ UNCHANGED <<backendVars, succeeded, exhausted, interrupted>>
    /\ Return(w)

\* Mutant: there is no idempotency check.
SkipStatusCheck(w) ==
    /\ step[w] = "check"
    /\ Body(w) \in Tasks
    /\ UNCHANGED backendVars
    /\ Goto(w, IF HasHandler(w) THEN "running" ELSE "noHandler")
    /\ Inside

\* The idempotency check, then the registry: skip a task whose status reads as
\* terminal; when the read fails, carry on.
CheckStatus(w) ==
    /\ step[w] = "check"
    /\ Body(w) \in Tasks
    /\ UNCHANGED <<storeVars, repoVars, topicVars>>
    /\ \E s \in Statuses \cup {NotFound, Failed} :
          /\ GetStatus(Live(w), Body(w), s)
          /\ \/ /\ IsTerminal(s)
                /\ Return(w)
                /\ UNCHANGED <<succeeded, exhausted, interrupted>>
             \/ /\ ~IsTerminal(s)
                /\ Goto(w, IF HasHandler(w) THEN "running" ELSE "noHandler")
                /\ Inside

\* Mutant: the task goes to the dead-letter topic without its DEAD status.
NoHandlerStatusForgotten(w) ==
    /\ step[w] = "noHandler"
    /\ Goto(w, "noHandlerDLQ")
    /\ Inside
    /\ UNCHANGED backendVars

\* No handler: DEAD in Redis, then the dead-letter topic, both errors ignored.
\* PostgreSQL is not told.
NoHandlerStatus(w) ==
    /\ step[w] = "noHandler"
    /\ \E ok \in BOOLEAN : SetStatus(Live(w), Body(w), "DEAD", ok)
    /\ Goto(w, "noHandlerDLQ")
    /\ Inside
    /\ UNCHANGED <<meta, repoVars, topicVars>>

NoHandlerDLQ(w) ==
    /\ step[w] = "noHandlerDLQ"
    /\ \E ok \in BOOLEAN : PublishDLQ(Live(w), Body(w), ok)
    /\ UNCHANGED <<storeVars, repoVars, pending, work, succeeded, exhausted, interrupted>>
    /\ Return(w)

\* Mutant: processMessage "always returns nil".
SetRunningReturnsNil(w) ==
    /\ step[w] = "running"
    /\ UNCHANGED <<meta, repoVars, topicVars>>
    /\ \/ /\ SetStatus(Live(w), Body(w), "RUNNING", TRUE)
          /\ Goto(w, "attempt")
          /\ attempt' = [attempt EXCEPT ![w] = 1]
          /\ UNCHANGED <<wGroupVars, attempts, execErr, succeeded, exhausted, interrupted>>
       \/ /\ SetStatus(Live(w), Body(w), "RUNNING", FALSE)
          /\ Return(w)
          /\ UNCHANGED <<succeeded, exhausted, interrupted>>

\* QUEUED -> RUNNING; an error makes processMessage return it.
SetRunning(w) ==
    /\ step[w] = "running"
    /\ UNCHANGED <<meta, repoVars, topicVars>>
    /\ \/ /\ SetStatus(Live(w), Body(w), "RUNNING", TRUE)
          /\ Goto(w, "attempt")
          /\ attempt' = [attempt EXCEPT ![w] = 1]
          /\ UNCHANGED <<wGroupVars, attempts, execErr, succeeded, exhausted, interrupted>>
       \/ /\ SetStatus(Live(w), Body(w), "RUNNING", FALSE)
          /\ Group!HandlerReturnsError(w)
          /\ Forget(w)
          /\ UNCHANGED <<succeeded, exhausted, interrupted>>

\* fn of retry.Do: count the attempt and call the handler, under a context that
\* a shutdown does not touch.
HandlerSucceeds(w) ==
    /\ step[w] = "attempt"
    /\ attempts' = [attempts EXCEPT ![w] = @ + 1]
    /\ succeeded' = succeeded \cup {Body(w)}
    /\ Goto(w, "finishStatus")
    /\ UNCHANGED <<backendVars, wGroupVars, attempt, execErr, exhausted, interrupted>>

\* Mutant: MaxRetries is taken for the number of attempts.
HandlerFailsOneEarly(w) ==
    /\ step[w] = "attempt"
    /\ attempts' = [attempts EXCEPT ![w] = @ + 1]
    /\ IF attempt[w] >= MaxAttempts - 1
       THEN /\ Goto(w, "finishStatus")
            /\ execErr' = [execErr EXCEPT ![w] = TRUE]
            /\ exhausted' = exhausted \cup {Body(w)}
       ELSE /\ Goto(w, "onRetry")
            /\ UNCHANGED <<execErr, exhausted>>
    /\ UNCHANGED <<backendVars, wGroupVars, attempt, succeeded, interrupted>>

HandlerFails(w) ==
    /\ step[w] = "attempt"
    /\ attempts' = [attempts EXCEPT ![w] = @ + 1]
    /\ IF attempt[w] = MaxAttempts
       THEN /\ Goto(w, "finishStatus")
            /\ execErr' = [execErr EXCEPT ![w] = TRUE]
            /\ exhausted' = exhausted \cup {Body(w)}
       ELSE /\ Goto(w, "onRetry")
            /\ UNCHANGED <<execErr, exhausted>>
    /\ UNCHANGED <<backendVars, wGroupVars, attempt, succeeded, interrupted>>

\* Mutant: a failed attempt sets FAILED, which is terminal.
OnRetrySetsFailed(w) ==
    /\ step[w] = "onRetry"
    /\ attempts' = [attempts EXCEPT ![w] = attempt[w]]
    /\ \E ok \in BOOLEAN : SetStatus(Live(w), Body(w), "FAILED", ok)
    /\ Goto(w, "backoff")
    /\ UNCHANGED <<wGroupVars, meta, repoVars, topicVars, attempt, execErr, succeeded, exhausted, interrupted>>

OnRetry(w) ==
    /\ step[w] = "onRetry"
    /\ attempts' = [attempts EXCEPT ![w] = attempt[w]]
    /\ \E ok \in BOOLEAN : SetStatus(Live(w), Body(w), "RETRYING", ok)
    /\ Goto(w, "backoff")
    /\ UNCHANGED <<wGroupVars, meta, repoVars, topicVars, attempt, execErr, succeeded, exhausted, interrupted>>

\* The select of retry.Do: the delay ends, or the context does; when both have,
\* either case may be chosen.
Backoff(w) ==
    /\ step[w] = "backoff"
    /\ \/ /\ attempt' = [attempt EXCEPT ![w] = @ + 1]
          /\ Goto(w, "attempt")
          /\ UNCHANGED <<execErr, interrupted>>
       \/ /\ ~Live(w)
          /\ execErr' = [execErr EXCEPT ![w] = TRUE]
          /\ interrupted' = interrupted \cup {Body(w)}
          /\ Goto(w, "finishStatus")
          /\ UNCHANGED attempt
    /\ UNCHANGED <<backendVars, wGroupVars, attempts, succeeded, exhausted>>

-----------------------------------------------------------------------------
(* finishSuccess and finishFailure: the same four writes, none of which stops
   the next one by failing, and after a failure the dead-letter topic. *)

\* Mutant: finishFailure is a copy of finishSuccess that still says DONE.
FinalStatusDone(w) == "DONE"

FinalStatus(w) == IF execErr[w] THEN "DEAD" ELSE "DONE"

\* Mutant: the final status is written on a context of its own.
FinishStatusDetached(w) ==
    /\ step[w] = "finishStatus"
    /\ \E ok \in BOOLEAN : SetStatus(TRUE, Body(w), FinalStatus(w), ok)
    /\ Goto(w, "finishMeta")
    /\ Inside
    /\ UNCHANGED <<meta, repoVars, topicVars>>

\* Mutant: the final status is only written with the metadata.
FinishStatusForgotten(w) ==
    /\ step[w] = "finishStatus"
    /\ Goto(w, "finishMeta")
    /\ Inside
    /\ UNCHANGED backendVars

FinishStatus(w) ==
    /\ step[w] = "finishStatus"
    /\ \E ok \in BOOLEAN : SetStatus(Live(w), Body(w), FinalStatus(w), ok)
    /\ Goto(w, "finishMeta")
    /\ Inside
    /\ UNCHANGED <<meta, repoVars, topicVars>>

\* completed_at is only set by finishSuccess.
FinishMeta(w) ==
    /\ step[w] = "finishMeta"
    /\ \E ok \in BOOLEAN :
          SetTaskMeta(Live(w), Body(w),
                      [status |-> FinalStatus(w), attempts |-> attempts[w],
                       completed |-> ~execErr[w]], ok)
    /\ Goto(w, "finishRecord")
    /\ Inside
    /\ UNCHANGED <<status, repoVars, topicVars>>

FinishRecord(w) ==
    /\ step[w] = "finishRecord"
    /\ \E ok \in BOOLEAN :
          RecordExecution(Live(w), Body(w),
                          [status |-> FinalStatus(w), attempt |-> attempts[w]], ok)
    /\ Goto(w, "finishUpdate")
    /\ Inside
    /\ UNCHANGED <<storeVars, row, topicVars>>

\* Mutant: finishFailure ends like finishSuccess, without the dead-letter topic.
FinishUpdateWithoutDLQ(w) ==
    /\ step[w] = "finishUpdate"
    /\ \E ok \in BOOLEAN : UpdateStatus(Live(w), Body(w), FinalStatus(w), ok)
    /\ UNCHANGED <<storeVars, executions, topicVars, succeeded, exhausted, interrupted>>
    /\ Return(w)

FinishUpdate(w) ==
    /\ step[w] = "finishUpdate"
    /\ \E ok \in BOOLEAN : UpdateStatus(Live(w), Body(w), FinalStatus(w), ok)
    /\ UNCHANGED <<storeVars, executions, topicVars, succeeded, exhausted, interrupted>>
    /\ IF execErr[w]
       THEN Goto(w, "finishDLQ") /\ UNCHANGED <<wGroupVars, attempt, attempts, execErr>>
       ELSE Return(w)

FinishDLQ(w) ==
    /\ step[w] = "finishDLQ"
    /\ \E ok \in BOOLEAN : PublishDLQ(Live(w), Body(w), ok)
    /\ UNCHANGED <<storeVars, repoVars, pending, work, succeeded, exhausted, interrupted>>
    /\ Return(w)

-----------------------------------------------------------------------------
(* The rest of Subscribe and of the process: nothing of it touches the shared
   state, and a process that ends takes the call with it. *)

Commit(w) ==
    /\ UNCHANGED backendVars
    /\ Group!CommitMessages(w) \/ Group!CommitFails(w)
    /\ UNCHANGED <<runVars, succeeded, exhausted, interrupted>>

\* Subscribe returns nil after a signal, and main returns.
Exit(w) ==
    /\ UNCHANGED backendVars
    /\ Group!SubscribeReturnsNil(w)
    /\ Forget(w)
    /\ UNCHANGED <<succeeded, exhausted, interrupted>>

Die(w) ==
    /\ UNCHANGED backendVars
    /\ Group!SubscribeReturnsError(w) \/ Group!Crash(w)
    /\ Forget(w)
    /\ UNCHANGED <<succeeded, exhausted, interrupted>>

Signal(w) ==
    /\ UNCHANGED backendVars
    /\ Group!Shutdown(w)
    /\ UNCHANGED <<runVars, succeeded, exhausted, interrupted>>

Start(w) ==
    /\ UNCHANGED backendVars
    /\ Group!Restart(w)
    /\ UNCHANGED <<runVars, succeeded, exhausted, interrupted>>

Reassign ==
    /\ UNCHANGED backendVars
    /\ Group!Rebalance
    /\ UNCHANGED <<runVars, succeeded, exhausted, interrupted>>

Disturb ==
    /\ UNCHANGED backendVars
    /\ Group!SpontaneousRebalance
    /\ UNCHANGED <<runVars, succeeded, exhausted, interrupted>>

\* What a worker does of itself while it runs.
ProcessStep(w) ==
    \/ Receive(w) \/ Discard(w) \/ CheckStatus(w) \/ NoHandlerStatus(w) \/ NoHandlerDLQ(w)
    \/ SetRunning(w) \/ HandlerSucceeds(w) \/ HandlerFails(w) \/ OnRetry(w) \/ Backoff(w)
    \/ FinishStatus(w) \/ FinishMeta(w) \/ FinishRecord(w) \/ FinishUpdate(w) \/ FinishDLQ(w)
    \/ Commit(w) \/ Exit(w)

WorkerNext ==
    \/ \E w \in Workers : ProcessStep(w) \/ Die(w) \/ Signal(w) \/ Start(w)
    \/ Reassign
    \/ Disturb

\* A running worker goes on, a stopped one is restarted by its deployment, and
\* the group coordinator reassigns partitions nobody reads.
WorkerFairness ==
    /\ \A w \in Workers :
          /\ WF_<<backendVars, workerVars>>(ProcessStep(w))
          /\ WF_<<backendVars, workerVars>>(Start(w))
    /\ WF_<<backendVars, workerVars>>(Reassign)

-----------------------------------------------------------------------------
(* Properties *)

\* The statuses recorded anywhere for t.
Recorded(t) ==
    {status[t]}
    \cup (IF meta[t] = NotFound THEN {} ELSE {meta[t].status})
    \cup (IF row[t] = NotFound THEN {} ELSE {row[t].status})
    \cup {executions[t][i].status : i \in DOMAIN executions[t]}

\* finishSuccess: wherever DONE is recorded, a call of the task's handler
\* succeeded.
DoneIsReal ==
    \A t \in Tasks : "DONE" \in Recorded(t) => t \in succeeded

\* finishFailure: wherever DEAD is recorded, one delivery of the task made
\* every configured attempt, or there is no handler for it.  The error a
\* shutdown makes retry.Do return during a backoff never gets that far, because
\* the same done context fails the writes.
DeadIsEarned ==
    \A t \in Tasks : "DEAD" \in Recorded(t) => t \in exhausted \/ TypeOf[t] \notin Registered

\* The attempts recorded with a task, which OnRetry and the retried function
\* both count, are the calls made to the handler: at most MaxRetries + 1, and
\* all of them when the task is recorded as DEAD.
AttemptsAreCalls ==
    \A t \in Tasks :
        /\ \A i \in DOMAIN executions[t] :
              /\ executions[t][i].attempt \in 1 .. MaxAttempts
              /\ executions[t][i].status = "DEAD" => executions[t][i].attempt = MaxAttempts
        /\ meta[t] # NotFound /\ meta[t].status = "DEAD" => meta[t].attempts = MaxAttempts

\* The bodies of the messages processMessage has returned nil for.
AcceptedBodies ==
    UNION {{work[WorkerType][p][o + 1] : o \in wAccepted[p]} : p \in Partitions}

\* A task whose message processMessage has returned nil for is terminal in
\* Redis: it is not left RUNNING or RETRYING with nobody to finish it.
AcceptedIsTerminal ==
    \A t \in AcceptedBodies \cap Tasks : IsTerminal(status[t])

\* "a re-delivered message is silently skipped - the handler is never called
\* twice": the handler of a task that is terminal in Redis is not called.
NoCallOnceTerminal ==
    [][\A w \in Workers :
          attempts[w] < attempts'[w] => ~IsTerminal(status[Body(w)])]_<<backendVars, workerVars>>

\* "IsTerminal returns true if no further state transitions are possible": the
\* status of a task that is terminal in Redis is never overwritten.
TerminalIsFinal ==
    [][\A t \in Tasks :
          IsTerminal(status[t]) => status'[t] = status[t]]_<<backendVars, workerVars>>

\* The statuses of a task in Redis that are not the end move on, also when
\* workers crash in the middle of a task.
TasksFinish ==
    \A t \in Tasks : (\E p \in Partitions : \E i \in DOMAIN work[WorkerType][p] :
                          work[WorkerType][p][i] = t)
                     ~> IsTerminal(status[t])

-----------------------------------------------------------------------------
(* The strengthening of DoneIsReal, DeadIsEarned and AttemptsAreCalls that
   every step preserves. *)

\* The result is being written.
Finishing(w) ==
    step[w] \in {"finishStatus", "finishMeta", "finishRecord", "finishUpdate", "finishDLQ"}

\* processMessage runs inside the handler call of the loop, has a task in its
\* hands once the body is decoded, and an error only when retry.Do has returned.
CallInv ==
    \A w \in Workers :
        /\ step[w] # "idle" => wPhase[w] = "handle"
        /\ step[w] \notin {"idle", "check"} => Body(w) \in Tasks
        /\ step[w] \in {"noHandler", "noHandlerDLQ"} => TypeOf[Body(w)] \notin Registered
        /\ execErr[w] => Finishing(w)

\* The two counters agree, and neither goes beyond the attempts that are allowed.
RetryInv ==
    \A w \in Workers :
        IF Finishing(w) THEN attempt[w] \in 1 .. MaxAttempts /\ attempts[w] \in 1 .. MaxAttempts
        ELSE IF step[w] = "attempt"
        THEN attempt[w] \in 1 .. MaxAttempts /\ attempts[w] = attempt[w] - 1
        ELSE IF step[w] \in {"onRetry", "backoff"}
        THEN attempt[w] \in 1 .. MaxAttempts - 1 /\ attempts[w] = attempt[w]
        ELSE attempt[w] = 0 /\ attempts[w] = 0

\* What is about to be recorded is true, or the context is done and nothing will.
OutcomeInv ==
    \A w \in Workers : Finishing(w) =>
        IF execErr[w]
        THEN wCancelled[w] \/ (Body(w) \in exhausted /\ attempts[w] = MaxAttempts)
        ELSE Body(w) \in succeeded

\* What every step of a worker preserves, whoever else writes the stores.
RecordsInv ==
    /\ CallInv /\ RetryInv /\ OutcomeInv
    /\ DoneIsReal /\ DeadIsEarned /\ AttemptsAreCalls

\* processMessage returns nil for a task only when it was executed, to the last
\* attempt if need be, when a shutdown cut its attempts short, or when there is no
\* handler for it.  FAILED, which would also make it skip a task, is never written.
ReturnedInv ==
    /\ \A t \in Tasks : status[t] # "FAILED"
    /\ \A w \in Workers : execErr[w] => Body(w) \in exhausted \cup interrupted
    /\ \A p \in Partitions : \A o \in wAccepted[p] :
          LET t == work[WorkerType][p][o + 1]
          IN  /\ o < Len(work[WorkerType][p])
              /\ t \in Tasks => \/ t \in succeeded \cup exhausted \cup interrupted
                               \/ TypeOf[t] \notin Registered

WorkerInv ==
    /\ WorkerTypeOK
    /\ Group!IInv
    /\ RecordsInv

=============================================================================
