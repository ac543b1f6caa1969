# go-task-flow in TLA+

A model of the task pipeline of go-task-flow: TLA+ modules translated from the Go
code, TLC configurations that check them on small instances, and theorems that TLAPS
proves for every size. Paths below are relative to `src/`.

## 1. The system

| Part | Code | State | Operations |
|---|---|---|---|
| API gateway | `services/api-gateway` | one goroutine per request or stream, two servers | SubmitTask (REST, gRPC, bulk), GetTaskStatus, StreamTaskUpdates, shutdown |
| Dispatcher | `services/dispatcher` | offset of `tasks.pending` | route, toDLQ |
| Worker | `services/worker`, `pkg/retry` | offset of `tasks.worker.<type>`, the running attempt | processMessage, finishSuccess, finishFailure, retry.Do |
| Handlers | `internal/handlers` | a goroutine per e-mail, an HTTP call per webhook | Handle |
| Scheduler | `services/scheduler` | Redis lease, `scheduled_jobs` | tick: acquire or renew, fire due jobs |
| Consumer / producer | `internal/kafka` | group offsets, topics | Subscribe, Publish |
| State store | `internal/redis/state_store.go` | `task:state:*`, `task:meta:*` | SetStatus, GetStatus, SetTaskMeta, GetTaskMeta |
| Rate limiter | `internal/redis/rate_limiter.go` | a sorted set per type | Allow |
| Repository | `internal/postgres/repository.go` | tables `tasks`, `task_executions` | Create, UpdateStatus, RecordExecution, GetByID |

A submission writes metadata and PENDING to Redis, inserts a row into PostgreSQL and
publishes to `tasks.pending`. A dispatcher publishes the message to the topic of its
type (or to `tasks.dlq`) and then sets QUEUED. A worker skips a task that is already
terminal, sets RUNNING, calls the handler with retries, and writes the result: status,
metadata, execution record, row, and after a failure the message to `tasks.dlq`.
Clients read the records through the gateway. The services share the stores and the
topics and nothing else, and none of the sequences is a transaction.

What makes it hard: every process may crash, be signalled or lose its partition between
any two of these writes; a scheduler's lease may run out while it fires; the context a
signal cancels is the one most of the writes run on; publishes and commits may fail
after they took effect; messages are delivered more than once, and the guard against
that is the status in Redis, which other processes write at the same time and which
expires. PROJECT.json lists these hazards at their lines.

## 2. Modules

| Module | Models | Variables and actions |
|---|---|---|
| `AtLeastOnce` | what the consumer promises | `end`, `handled`, `mark`; append, handle, resume |
| `KafkaConsumer` | `Subscribe`, for every member of a group | `committed`, `owner`, `position` are the broker's and the readers' state; `phase`, `inflight`, `cancelled` are the loop; one action per way each call of the loop ends, plus crash, signal, restart, rebalance |
| `Calls` | how a call to a backend ends | `faults`; succeeds, fails, publish |
| `Domain` | `domain/task.go` | statuses, IsTerminal, task data |
| `StateStore`, `Repository`, `Topics` | Redis, PostgreSQL, Kafka topics | one operator per method, with its outcome as a parameter; `Expire` is the end of `stateTTL` |
| `Backends` | the three together | |
| `Gateway` | `SubmitTask` of REST and gRPC | `request[t]` is the next call |
| `Dispatcher` | `route`, `toDLQ` | `dStep[d]`; `DGroup` is an instance of `KafkaConsumer` on `tasks.pending` |
| `Worker` | `processMessage`, `retry.Do` | `step[w]` is the next call; one action per call; `Group` is an instance of `KafkaConsumer` on the worker topic |
| `WorkerAlone` | an environment for a worker group | messages appear in the topic, also twice, also malformed |
| `TaskFlow` | gateway, dispatchers, workers | interleaves the three over `Backends` |
| `TaskRecords` | what dispatchers and workers write of a task | one action per record, in no order: what a reader of the records may rely on |
| `TaskLifecycle` | what one undisturbed worker promises | the writes of `TaskRecords` in the order status, metadata, row; an abstract specification |
| `GatewayServer` | reads, streams, bulk submission, shutdown | `read[c]` is the next call of a read, `streaming` the open streams, `bulk*` the bulk stream, `server` where `runServe` is; `Gateway` for the submissions, `TaskRecords` and `Expire` for the rest of the system (`Pipeline`) |
| `RateLimiter` | `Allow` under concurrent callers | `ring` is the sorted set, `ttl` the key's expiry, `seen[c]` a timestamp between clock and pipeline |
| `Handlers` | `retry.Do` with the e-mail and the webhook handler | `phase`, `attempt`, `timer` are the loop, `sender[a]` the goroutine or request of attempt a |
| `Scheduler` | `scheduler.go`: `Run`, `tick`, the lease, the due jobs | `phase[s]` is the next call, `lease` and `holder` the Redis key, `dueIn` the rows of `scheduled_jobs`; one action per call, plus start, crash, signal and the passing of time |
| `KafkaConsumerProofs`, `SchedulerProofs`, `GatewayServerProofs`, `WorkerAloneProofs` | theorems about these modules | |
| `ClockProofs` | theorems about `Handlers` and `RateLimiter`, which share no state | |
| `WorkerProofs` | lemmas about the steps of `Worker`, for both specifications that contain it | |
| `RoutingProofs` | lemmas about `Dispatcher` in `TaskFlow` | |
| `TaskFlowProofs` | the gateway's part, and the theorems about `TaskFlow` | |
| `MC*` | constants for TLC | |

Conventions:

- **A call is a step.** Each call that leaves the process is one action, and everything
  the code does up to the next call belongs to it, the return from the handler included.
- **Failing calls.** `Succeeds(live)` and `Fails(live)` say how a call ends. Under a live
  context a failure uses one of `MaxFaults`; it may have taken effect. Under a cancelled
  context every call fails; a Redis or PostgreSQL write then has no effect, a publish
  may have been written. A read that fails returns `Failed`.
- **Disruptions.** `Kinds` selects from crash, signal, fetch error and spontaneous
  rebalance; `MaxDisruptions` bounds how many happen. A rebalance of a partition without
  an owner is not a disruption and is not bounded.
- **External parts** are modelled from how the code uses them. kafka-go: a commit of
  offset `o` stores `o + 1` for the partition, with no check of who owns the partition;
  after a rebalance every reader starts from the stored offset; `FetchMessage` may return
  a buffered message although the context is done. A `select` with two ready cases takes
  either. `smtp.SendMail` may never return; `http.Client.Do` returns when its context or
  timeout ends. `GracefulStop` waits for every open call.
- **Data.** A message is its task ID or `Malformed`. Payloads, priorities and timestamps
  are left out, except in `RateLimiter`; `completed` says whether `completed_at` is set.
  In `Worker` a handler call returns nil or an error and takes no time; a handler that
  reports an error after its effect took place (an e-mail sent when the timeout struck)
  is a failed call. `Handlers` looks inside.
- **Time** exists in three modules and has no bound in any. `Scheduler` keeps countdowns:
  to the expiry of the key, to the next tick, to `next_run_at`, to the next instant of a
  cron expression. `Elapse` moves all of them, and only when nothing that takes no time is
  left to do: ticks that are due and the calls for the lease take none, the other calls
  of a tick take any, so that a tick may outlast its lease. `RateLimiter` keeps ages of
  timestamps; the age at which every caller evicts one is the greatest. `Handlers` keeps
  what is left of the current timeout or delay.
- **Expiring keys.** `task:state:*` and `task:meta:*` live for 24 hours after their last
  write. With `KeysExpire` either key of any task may be gone at any step, in `WorkerAlone`,
  `TaskFlow` and `GatewayServer` alike: a redelivered message may find no status and be
  executed again. `KeysExpire` is false in worker_undisturbed, whose properties are about
  what the status keeps a worker from doing, in the two runs that are false anyway, and in
  flow_routing, where nothing reads the keys.
- **History variables**: `owed` (jobs with an instant nothing was published for yet),
  `idle` (time without a leader), `age` and `crossed` (ticks that outlasted their lease,
  ticks that overlapped) in `Scheduler`; `calls` and `passed` in `RateLimiter`;
  `delivered` and `elapsed` in `Handlers`; `recorded` (reads that began when the row was
  completed), `over` (tasks of which some record was final) and `disordered` (tasks whose
  records contradicted each other) in `GatewayServer`; `accepted`, `rejected` (handler results
  per offset), `succeeded` (tasks a handler call returned nil for), `exhausted` (tasks of
  which one delivery used up every attempt) and `interrupted` (tasks of which a shutdown
  cut the attempts short). No guard reads them.
- `WorkerAlone` writes QUEUED no later than the message. The dispatcher does it the other
  way round, and that order is in `TaskFlow`; the separation keeps what that race breaks
  apart from what the worker does by itself.
- `Foreigners` are messages in `tasks.pending` that did not pass the gateway. They are
  restricted to bodies the gateway would not let through.
- Definitions marked *Mutant* are broken variants of the definition below them. Nothing
  uses them; putting one in place of its original makes the property named in
  PROJECT.json fail.

## 3. Runs

Model checked, and true:

| Run | Instance | States | Shows |
|---|---|---|---|
| consumer | 2 consumers, 2 partitions of 2 messages, 1 disruption | 166,868 | the group never goes past a message no handler has seen (`CommittedWasHandled`) and resumes right after a success; the inductive invariant `IInv`; refinement of `AtLeastOnce`; every message is handled |
| worker_records | 2 workers, 1 task, 2 disruptions, 1 fault, 1 retry, expiring keys | 1,082,348 | DONE is recorded only after a success, DEAD only after every attempt (or without a handler), recorded attempts are calls |
| worker_undisturbed | 1 worker, tasks with and without handler, 2 crashes, fetch errors or rebalances | 80,064 | accepted tasks are terminal in Redis, a terminal status is final, no handler call follows it, every task in the topic becomes terminal; refinement of `TaskLifecycle` |
| flow_records | gateway, dispatcher, worker, 1 task, 1 fault, 1 disruption of each group, expiring keys | 515,074 | the inductive invariant `FlowInv`; every accepted task is executed, in the dead-letter topic, still to be read, or was rejected with an error (`AcceptedIsAccounted`); nothing recorded by a later service is undone by the gateway; the records change as `TaskRecords` says (`RecordsAreThePipelines`) |
| flow_routing | 2 dispatchers, rate limiter, 1 fault, 2 disruptions, foreign messages | 1,078,842 | what `route` returned nil for is in a worker topic or the dead-letter topic; worker topics have only submitted tasks of their type; what is lost was skipped by a later commit |
| flow_liveness | gateway, dispatcher, 2 workers, 1 task, 1 rebalance of the workers, expiring keys | 62,798 | every accepted task is executed or ends in the dead-letter topic, also when two workers execute it at once |
| scheduler | 2 schedulers, a job and one with a bad cron expression, 1 disruption, 1 fault, ticks of any length | 400,441 | of two that fire at once one has outlasted its lease; what a leader fires is due unless ticks overlapped; no instant is skipped; a leader is succeeded within TTL + interval; every due job fires |
| rate_limiter | 2 callers, one clock behind, limit 2, window 5, delay up to 2, 1 fault | 2,096,721 | the inductive invariant `LimiterInv`; what can pass in a window at most, and that nothing is refused unless more calls than the limit were made |
| gateway | 2 submissions over REST or in bulk, 1 reader or stream, 1 fault, records written in any order, expiring keys, shutdown | 260,606 | an answer goes back behind an outcome only when the records do (`AnswersGoBackOnlyWithRecords`); not found only without a row; the bulk answer is true; streams end; the shutdown ends when streams do |
| handlers | e-mail or webhook, 3 retries, timeouts, invalid payloads, a shutdown | 139,315 | success is real; the time spent is bounded; the loop ends although a server never answers; no goroutine is stuck on its channel |

Model checked, and false: each of these states what a comment or a document says, and
TLC shows a behaviour of the code that contradicts it.

| Run | What happens |
|---|---|
| worker_shutdown_status | SIGTERM during a handler call: the writes of the result fail on the cancelled context, the offset is committed, the task stays RUNNING (`docs/features.md:243`) |
| flow_late_queued | with no failure at all, QUEUED overwrites DONE (`task.go:18`) |

`AcceptedIsTerminal` and `TerminalIsFinal` are in both tables: the passing runs say under
which disruptions they do hold, the failing ones what breaks them.

Some properties hold only in the form they are stated in, and the stronger form a reader
might expect is false of the code:

- After a handler error the consumer's loop goes on, and its next commit covers the failed
  message: one failing publish of the dispatcher loses the task, although `dispatcher.go:109`
  and `consumer.go:23` say it is retried. `LostWasSkipped` says that this is the only way.
- A crash between DEAD and the dead-letter publish: the redelivery is skipped as terminal
  and the message never gets to `tasks.dlq` (`docs/features.md:168`). `AcceptedTasksEnd`
  is checked with rebalances and not with crashes of workers; adding `"crash"` to `Kinds` in
  `MCTaskFlowLive.cfg` shows it.
- A tick that outlasts its lease goes on firing next to the new leader
  (`docs/features.md:204`). `OneFiresAtATime` and `LoadedIsDue` name those ticks by `age`
  and `crossed`; without these conditions both fail.
- `TakeoverIsBounded` gives lease plus check interval, 45 seconds with the constants of
  `scheduler.go`, where `docs/features.md:236` speaks of 30: the lease may run out just
  after the standby has looked. The bound is tight.
- `PassedIsLimited` has the limit once for each caller, because the timestamp is the
  member of the sorted set and simultaneous events count as one, and because a late
  caller evicts less than it should have counted.
- `TasksFinish` is checked for one worker. With two, a rebalance and a crash can together
  leave a task RUNNING: a worker that lost its partition writes RETRYING after the new
  owner wrote the end, and crashes. For the same reason `NoCallOnceTerminal` is a statement
  about one worker: a second one that lost its partition may still call the handler.
- `AcceptedIsAccounted` has two exceptions. A shutdown during a backoff ends the attempts
  early; the result is written on the cancelled context, the offset is committed and the
  task may be nowhere. And `_ =` drops the error of the dead-letter publish of a type
  without a handler. It does not say that an accepted task stays in Redis: both keys expire
  after 24 hours (`docs/architecture.md:96`).
- `AnswersGoBackOnlyWithRecords` leaves out tasks whose records contradict each other. They
  do after a SetStatus or SetTaskMeta of the result that failed and was ignored while the
  later writes went through (`worker.go:211`), after RUNNING or RETRYING from a second worker
  that lost its partition, after the late QUEUED of flow_late_queued, and after the
  redelivery that one of these or an expired status lets through. A read then says RUNNING,
  RETRYING or QUEUED of a task with completed_at, and a stream on such a task stays open until
  the status key expires, which is why `StreamsEnd` and `ShutdownEnds` speak of what a read
  would say.
- An execution record is written at the end of a delivery, with the number of attempts; the
  documents speak of one row for each attempt (`docs/features.md:455`,
  `docs/architecture.md:107`). `AttemptsAreCalls` is about the records the code writes.

### Bounds

Two consumers are needed for a partition to change hands while its old owner still
works; two messages for a commit that covers another message; two disruptions, or one and
an expired key, for a task that is executed a second time; one retry for the difference between the last attempt and the others.
Partitions do not interact except through the group, which `consumer` checks with two;
the services' runs have one. `MaxLog` bounds the messages of a partition. In worker_records,
flow_records and flow_liveness it is one: a task comes again by redelivery. With two, so that
a dispatcher may publish it twice, flow_records has 2,832,138 states and the same result;
duplicates in the topic are in worker_undisturbed and flow_routing. The gateway's
environment writes RUNNING, DONE and DEAD and concludes with DONE: one status that is not
terminal and two that are, to contradict each other; with all statuses and both outcomes the
instance has 1,187,324 states and the same result. The scheduler's lease of 4, interval of 2 and period of 2 keep
the order of the real 30 s and 15 s, and let an instant pass within a lease and between
ticks. The rate limiter's window of 5 is longer than the delay of 2, so that the window
less the delay still has room for more events than the limit of 2. Three retries make
the delays of `Handlers` differ, and its webhook timeout is shorter than the worker's.
Faults and disruptions are bounded because each adds a step that may come anywhere; one
or two of them reach every single and paired failure.

`CHECK_DEADLOCK FALSE` is in every configuration but those of the scheduler and the rate
limiter, where time always goes on: the other services all wait for input, or end, and
when the bounded inputs are used up, waiting is what they should do. Symmetry is used
for safety only.

### Fairness

Weak fairness of what a running process does next (handlers run under a timeout; calls
to the backends are taken to end), of the restart of a stopped process (its deployment
does that), of the passing of time, and of a rebalance when a partition has no reader
(the group coordinator does that). In `GatewayServer` a handler that runs goes on and the
shutdown goes on when it can; no client has to do anything, and no task has to finish. In
`Handlers` nothing is assumed of `SendMail`, and of `client.Do` only that it returns once
its time is up. Nothing is assumed about which way a call ends, so a run in which every
commit fails is fair; no fairness forces a crash, a signal or a spontaneous rebalance,
and none is assumed for the arrival of requests.

## 4. Proofs

Each theorem is proved from the named ASSUMEs of the modules alone: distinct model values,
natural numbers, types of the constant functions. TLC evaluates them in the runs.

**The consumer** (`KafkaConsumerProofs`), for any sets of consumers and partitions and any
bounds: `Invariance`, `TypeCorrect`, `AtLeastOnceDelivery`, `ResumePoint`, and `Refinement`
(`Spec => ImplementsAtLeastOnce`). `CommittedWasHandled` is not inductive: a commit stores
the offset after the message in a consumer's hands, and nothing in the property speaks of
that message. `IInv` adds that everything before a message in flight has been handled
(`InflightInv`), that everything a reader has gone past has been handled or is what its
owner is working on (`PositionInv`), and that a consumer commits only what its handler
accepted (`LoopInv`). `InflightInv` does not mention the owner of the partition, which is
why a commit by a consumer that has lost it is harmless. A rebalance re-establishes
`PositionInv` from `CommittedInv`, because readers restart from the stored offset.

**The task flow** (`TaskFlowProofs`), for any tasks, types, partitions, dispatchers,
workers, retries, faults and disruptions:

- `FlowInvariance`: `Spec => []FlowInv`;
- `GroupsAreConsumers`: dispatchers and workers are consumer groups, `Spec => DGroup!Spec
  /\ Group!Spec`; and `GroupsKeepThePromise`: each implements `AtLeastOnce`, with "handled"
  meaning that `route` or `processMessage` has returned;
- `NothingAcceptedIsLost`, `WorkTopicsAreTyped`, `LossHasOneCause`: the properties of
  flow_routing;
- `NoFalseDone`, `NoEarlyDead`, `AttemptsAreTrue`: those of worker_records;
- `NothingSubmittedIsLost`: `Spec => []AcceptedIsAccounted`, through crashes, failing calls,
  rebalances and expiring keys;
- the action properties `GatewayIsFirst`, and `PipelineWritesRecords`
  (`Spec => RecordsAreThePipelines`), which is what the gateway's proofs assume of the rest
  of the system;
- `DeliveryIsBounded`: a measure of what is left of a call of `processMessage`, at most three
  calls for each attempt and five more, which every step of the system decreases or leaves
  alone until the call is over;
- `NoEarlyDeadLetter`: only a task that used up its attempts or has no handler is in
  `tasks.dlq`, provided that there is no rate limiter and no worker gets a signal
  (`Unlimited`). Both conditions are needed: with a signal during a backoff the publish on
  the cancelled context may be written before the attempts are used up.

None of these is inductive, and they lean on each other, hence one invariant for the
whole. `DGroup!IInv` and `Group!IInv` come from `KafkaConsumerProofs`, of which
`WorkerProofs` and `TaskFlowProofs` have an instance each: a step of the flow is a step of
each group or leaves it alone. For the workers' group this needs `RouteInv`: what a dispatcher appends to their
topic is a typed task, inside a call of `route`. `RoutingInv` adds where a task is while
`route` is between publish and QUEUED (`RouteInv`) and that what was accepted is still in
the log (`PlacedInv`). `RecordsInv` says for each worker what its local variables stand for
(`CallInv`, `RetryInv`, `OutcomeInv`): how many calls `attempt` and `attempts` count, and
that a run whose outcome is nil has a success behind it. A shutdown during a backoff is
the reason for the last part: `retry.Do` then returns an error before the attempts are
used up, so `OutcomeInv` has to say that the context of such a run is done, and that its
writes fail. `ReturnedInv` says why `processMessage` returned nil for a message: its task
succeeded, used up its attempts, was interrupted or has no handler; for one that it skipped
as terminal this is `NoFalseDone` and `NoEarlyDead`. `AcceptedIsAccounted` follows a task through both groups with it:
what the dispatchers have passed is in a worker topic or in `tasks.dlq` or was rejected,
and what the workers have passed was returned for or rejected. `SubmitInv` says which writes of SubmitTask have happened at each step, and
that SubmitTask is over before any status but PENDING is written, which needs that a task
in a worker's hands has been in `tasks.pending`, and so `WorkIsRouted`.

**The worker group by itself** (`WorkerAloneProofs`). What the flow needs to know of the
workers is `WorkerInv` (types, `Group!IInv`, `RecordsInv`), and `WorkerProofs` shows from it
what each step of `Worker` does to the calls and the records, whoever else writes the
stores. `TaskFlowProofs` uses those lemmas for the flow, `WorkerInvariance` for a worker
group of any size in the environment of `WorkerAlone`, any disruption included.

The other theorems have the hypothesis `Undisturbed`: one worker, no failing call, no
signal, no key that expires, but any number of crashes, failed fetches, rebalances and repeated messages. It is
what the configuration of worker_undisturbed says, and none of the theorems is true without
it (section 3). They are `AcceptedTasksAreOver`, the action properties
`TerminalStaysAsItIs` and `OverMeansNoCall`, and the refinement `WorkerRefinesLifecycle`.
`AcceptedIsTerminal` is not inductive: a return of processMessage adds a task whose status
was written some calls before. `SoloInv` adds what the status of the task in the worker's
hands is at each step of the call, and from the metadata on also these (`ProgressInv`). A
crash forgets the step, not the status; the call that follows starts with the check and so
needs no memory. `TerminalInv` says that a terminal task is in the topic, which keeps the
QUEUED of a newly routed task away from it. From `SoloInv` every step is one of four:
nothing, a status over one that is not terminal, metadata after their status, a row after
its metadata (`Writes`). The two action properties and the refinement are read off that
list. TLC has checked `SoloInv` on the instance of worker_undisturbed.

**The gateway** (`GatewayServerProofs`), for any clients, tasks, bulk streams and faults:
`AnswersFollowTheRecords`, `NotFoundMeansNoRow` and `BulkAnswersAreTrue`, from `Invariance`.
The rest of the system makes any write of `TaskRecords` at any time, for tasks in
`tasks.pending`, and keys expire. That dispatchers and workers do no more than that, however
many there are and whatever fails, is `PipelineWritesRecords` of the task flow, so no
assumption about the order of their writes is left. An answer is made of two
reads, so `IInv` has to say what the first of them may hold when the second is made
(`HeldInv`): a final record, unless the histories know of a contradiction, and the histories
miss none (`LifeInv`). A completed row is never taken back, which is what a read that began
after it relies on. `SubmitInv` says that a task is in
`tasks.pending` before it is accepted or over: no pipeline write comes before the writes of
the submission. `BulkInv` counts the requests of the stream but for the one under way; the
count is a cardinality, for which the theorems about finite sets are used. TLC has checked
`IInv` on the instance with all statuses and both outcomes.

**The scheduler** (`SchedulerProofs`), for any processes, jobs, lengths of lease, interval
and period: `MutualExclusion`, `ListsStayDue`, `NoInstantSkipped`, `BoundedTakeover`, from
`Invariance`. `IInv` ties the lease to the age of the tick that took it (`LeaseInv`), says
that ticks under way together know of each other (`CrossInv`), that neither a stored
next run nor one about to be stored lies beyond the next instant of the expression
(`NextRunInv`, which is what makes an instant between publish and update harmless), and
adds up time without a leader, the rest of the lease and the next tick (`TakeoverInv`).

**The handlers** (`ClockProofs`), for any number of retries, also a negative one, any
timeouts and any base delay: `SuccessIsReal` and `BoundedWait`. `WaitInv` bounds what has
been waited plus what is left of the present wait by what the attempts so far allow; the
sum of squares enters in closed form, whose step and monotonicity are lemmas, so no
induction over numbers is needed. `RetryAdvances` is the measure behind `LoopEnds`: at most
three moves for each attempt, and within a move only the timer runs down.

**The rate limiter** (`ClockProofs`), for any finite set of callers, any limit, window and
number of faults, and any clocks and delays that together stay below the window:
`LimitHolds`, and the action property `NoneRefusedUnderLimit`, from `LimiterInvariance`. The
sorted set holds timestamps and the properties count events, so `LimiterInv` has to say
which event a timestamp belongs to. `WrittenInv` gives every timestamp that some caller
still counts a call that ended within a window and a delay; two timestamps cannot have the
same call, so that there are at least as many calls as timestamps, which is
`NoneRefusedUnderLimit`. `CountedInv` goes the other way: the events that passed because
they were counted are still in the set, under timestamps that no two events of a caller
share (`CallInv`: a caller reads its clock after its earlier calls have ended), so that the
last of a caller's events found all of them and at most `Limit` are there. The bound for all
callers comes from mapping the events one-to-one into `Callers \X 1 .. Limit`, without an
induction over the callers; the callers have to be finitely many for it. That nobody evicts
such an event is where the delay is subtracted from the window, and that the key does not
expire is the factor two of `EXPIRE`. The score of an event is its timestamp as a float64,
which is off by less than a microsecond; the model's is exact, and the window has slack for
the delay anyway.

Only model-checked: liveness (`EveryMessageHandled`, `TasksFinish`, `AcceptedTasksEnd`,
`DueJobsFire`, `StreamsEnd`, `ShutdownEnds`, `LoopEnds`, `SendersEnd`), which is beyond the
prover, as is ENABLED. Of `LoopEnds`, and of the workers' part of `TasksFinish` and
`AcceptedTasksEnd`, the measures are proved; that fair steps use them up is not. Every
safety property and every refinement that a passing run checks has a theorem.
TLC has checked the invariant behind `NoEarlyDeadLetter` on an instance like that of
flow_records, with malformed messages, crashes, failed fetches, rebalances and signals to the
dispatcher.

## 5. Not modelled

- Health and readiness checks, which change nothing; `SetResult`, `GetResult` and
  `ListByStatus`, which nothing calls; registration of handlers, which is over before a
  worker consumes.
- Changes to `scheduled_jobs` from outside while the schedulers run. The tasks a scheduler
  publishes enter `WorkerAlone` and `TaskLifecycle` as tasks with neither Redis state nor
  a row, and not `TaskFlow`.
- The text of e-mails and requests; telemetry, logging, middleware, configuration, command
  lines, generated code: I/O or data that no property tells apart.
- A kafka-go publish that appends the message twice inside one call: duplicates come from
  redelivery and from publishes that fail after they were written.
