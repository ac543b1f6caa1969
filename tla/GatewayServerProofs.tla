------------------------ MODULE GatewayServerProofs ------------------------
(***************************************************************************)
(* Proofs about GatewayServer, for any tasks, clients, records and faults: *)
(* what GetTaskStatus and StreamTaskUpdates answer while the pipeline      *)
(* writes and keys expire, and what BulkSubmitTasks answers.               *)
(***************************************************************************)
EXTENDS GatewayServer, FiniteSetTheorems, TLAPS

\* A step of SubmitTask for task t.
Serves(t) == SubmitTask(t) \/ SubmitStep(t) \/ Disconnect(t)

\* The facts about types that the lemmas use.
LEMMA Typed ==
    ASSUME TypeOK
    PROVE  /\ request \in [Tasks -> RequestSteps]
           /\ status \in [Tasks -> Statuses \cup {NotFound}]
           /\ meta \in [Tasks -> TaskData \cup {NotFound}]
           /\ row \in [Tasks -> TaskData \cup {NotFound}]
           /\ pending \in [Partitions -> Seq(Bodies)]
           /\ over \in SUBSET Tasks /\ disordered \in SUBSET Tasks
    BY DEF TypeOK, BackendsTypeOK, GatewayTypeOK, StoreTypeOK, RepoTypeOK, TopicsTypeOK

-----------------------------------------------------------------------------
(* Submission *)

\* A message that is appended to tasks.pending is there, and is the only new one.
LEMMA PendingAppended ==
    ASSUME pending \in [Partitions -> Seq(Bodies)], NEW t \in Tasks,
           pending' = [pending EXCEPT ![PartitionOf[t]] = Append(@, t)]
    PROVE  InPending(t)' /\ \A u \in Tasks \ {t} : InPending(u)' <=> InPending(u)
<1> DEFINE p == PartitionOf[t]
           q == pending[p]
<1>1. p \in Partitions /\ q \in Seq(Bodies) /\ t \in Bodies
    BY DomainAssumption DEF Bodies
<1>2. pending'[p] = Append(q, t)
    BY <1>1
<1>3. Len(q) + 1 \in DOMAIN Append(q, t) /\ Append(q, t)[Len(q) + 1] = t
    BY <1>1
<1>4. \A i \in DOMAIN q : i \in DOMAIN Append(q, t) /\ Append(q, t)[i] = q[i]
    BY <1>1
<1>5. \A i \in DOMAIN Append(q, t) : i = Len(q) + 1 \/ i \in DOMAIN q
    BY <1>1
<1> HIDE DEF q, p
<1>6. InPending(t)'
    BY <1>2, <1>3 DEF InPending, p
<1>7. ASSUME NEW u \in Tasks \ {t} PROVE InPending(u)' <=> InPending(u)
  <2>1. CASE PartitionOf[u] # p
    <3>1. pending'[PartitionOf[u]] = pending[PartitionOf[u]]
        BY <2>1, DomainAssumption DEF p
    <3> QED
        BY <3>1 DEF InPending
  <2>2. CASE PartitionOf[u] = p
    <3>1. ASSUME NEW i \in DOMAIN q, q[i] = u PROVE \E j \in DOMAIN Append(q, t) : Append(q, t)[j] = u
        BY <1>4, <3>1, Zenon
    <3>2. ASSUME NEW j \in DOMAIN Append(q, t), Append(q, t)[j] = u PROVE \E i \in DOMAIN q : q[i] = u
        BY <1>3, <1>4, <1>5, <3>2, Zenon
    <3> QED
        BY <1>2, <2>2, <3>1, <3>2, Zenon DEF InPending, q
  <2> QED
      BY <2>1, <2>2
<1> QED
    BY <1>6, <1>7

\* SubmitTask moves the request of its task on; the task is in tasks.pending only
\* when the last call has been made.
LEMMA ServesRequest ==
    ASSUME TypeOK, SubmitInv, NEW t \in Tasks, Serves(t)
    PROVE  /\ \A u \in Tasks \ {t} : request'[u] = request[u] /\ (InPending(u)' <=> InPending(u))
           /\ request[t] \notin {"accepted", "refused"}
           /\ request'[t] # "none"
           /\ request'[t] = "accepted" => InPending(t)'
           /\ InPending(t)' => request'[t] \in {"accepted", "refused"}
<1>0. ~InPending(t) \/ request[t] \in {"accepted", "refused"}
    BY DEF SubmitInv
<1>1. request \in [Tasks -> RequestSteps] /\ pending \in [Partitions -> Seq(Bodies)]
    BY Typed
<1>2. ASSUME UNCHANGED pending, NEW u \in Tasks PROVE InPending(u)' <=> InPending(u)
    BY <1>2 DEF InPending
<1>3. CASE SubmitTask(t)
    BY <1>0, <1>1, <1>2, <1>3 DEF SubmitTask, To, backendVars, topicVars
<1>4. CASE SubmitMeta(t) \/ SubmitStatus(t) \/ SubmitCreate(t)
  <2>1. UNCHANGED pending
      BY <1>4, Zenon DEF SubmitMeta, SubmitStatus, SubmitCreate, topicVars
  <2>2. request[t] \in {"meta", "status", "create"}
      BY <1>4, Zenon DEF SubmitMeta, SubmitStatus, SubmitCreate
  <2>3. \E s \in {"status", "create", "publish", "refused"} : request' = [request EXCEPT ![t] = s]
      BY <1>4, Zenon DEF SubmitMeta, SubmitStatus, SubmitCreate, To
  <2> QED
      BY <1>0, <1>1, <1>2, <2>1, <2>2, <2>3
<1>5. CASE SubmitPublish(t)
  <2>1. request[t] = "publish"
      BY <1>5 DEF SubmitPublish
  <2>2. \/ request' = [request EXCEPT ![t] = "refused"] /\ UNCHANGED pending
        \/ /\ \E s \in {"accepted", "refused"} : request' = [request EXCEPT ![t] = s]
           /\ pending' = [pending EXCEPT ![PartitionOf[t]] = Append(@, t)]
      BY <1>5 DEF SubmitPublish, PublishPending, Publish, To
  <2>3. CASE UNCHANGED pending /\ request' = [request EXCEPT ![t] = "refused"]
      BY <1>0, <1>1, <1>2, <2>1, <2>3
  <2>4. CASE pending' = [pending EXCEPT ![PartitionOf[t]] = Append(@, t)]
    <3>1. InPending(t)' /\ \A u \in Tasks \ {t} : InPending(u)' <=> InPending(u)
        BY <1>1, <2>4, PendingAppended, Zenon
    <3>2. \E s \in {"accepted", "refused"} : request' = [request EXCEPT ![t] = s]
        BY <2>2
    <3> QED
        BY <1>1, <2>1, <3>1, <3>2
  <2> QED
      BY <2>2, <2>3, <2>4
<1>6. CASE Disconnect(t)
    BY <1>0, <1>1, <1>2, <1>6 DEF Disconnect, topicVars
<1> QED
    BY <1>3, <1>4, <1>5, <1>6 DEF Serves, SubmitStep

\* What SubmitTask writes about its task is what a new task looks like.
LEMMA ServesWrites ==
    ASSUME NEW t \in Tasks, Serves(t)
    PROVE  /\ meta' = meta \/ meta' = [meta EXCEPT ![t] = NewTask]
           /\ row' = row \/ row' = [row EXCEPT ![t] = NewTask]
           /\ status' = status \/ status' = [status EXCEPT ![t] = "PENDING"]
           /\ pending' = pending \/ pending' = [pending EXCEPT ![PartitionOf[t]] = Append(@, t)]
           /\ UNCHANGED <<executions, work, dlq>>
<1>1. meta' = meta \/ meta' = [meta EXCEPT ![t] = NewTask]
    BY Zenon DEF Serves, SubmitStep, SubmitTask, SubmitMeta, SetTaskMeta, SubmitStatus, SubmitCreate,
                 SubmitPublish, Disconnect, backendVars, storeVars
<1>2. row' = row \/ row' = [row EXCEPT ![t] = NewTask]
    BY Zenon DEF Serves, SubmitStep, SubmitTask, SubmitMeta, SubmitStatus, SubmitCreate, Create,
                 SubmitPublish, Disconnect, backendVars, repoVars
<1>3. status' = status \/ status' = [status EXCEPT ![t] = "PENDING"]
    BY Zenon DEF Serves, SubmitStep, SubmitTask, SubmitMeta, SubmitStatus, SetStatus, SubmitCreate,
                 SubmitPublish, Disconnect, backendVars, storeVars
<1>4. pending' = pending \/ pending' = [pending EXCEPT ![PartitionOf[t]] = Append(@, t)]
  <2>1. CASE SubmitPublish(t)
      BY <2>1, Zenon DEF SubmitPublish, PublishPending
  <2> QED
      BY <2>1, Zenon DEF Serves, SubmitStep, SubmitTask, SubmitMeta, SubmitStatus, SubmitCreate,
                         Disconnect, backendVars, topicVars
<1>5. UNCHANGED <<executions, work, dlq>>
    BY Zenon DEF Serves, SubmitStep, SubmitTask, SubmitMeta, SubmitStatus, SubmitCreate,
                 SubmitPublish, Disconnect, backendVars, repoVars, topicVars
<1> QED
    BY <1>1, <1>2, <1>3, <1>4, <1>5

LEMMA ServesRecords ==
    ASSUME TypeOK, NEW t \in Tasks, Serves(t)
    PROVE  /\ \A u \in Tasks \ {t} : status'[u] = status[u] /\ meta'[u] = meta[u] /\ row'[u] = row[u]
           /\ meta'[t] \in {meta[t], NewTask}
           /\ row'[t] \in {row[t], NewTask}
           /\ status'[t] \in {status[t], "PENDING"}
    BY Typed, ServesWrites

\* However a call ends, the faults stay within their bound.
LEMMA CallType ==
    ASSUME faults \in 0 .. MaxFaults, NEW live, Succeeds(live) \/ Fails(live)
    PROVE  faults' \in 0 .. MaxFaults
    BY CallsAssumption DEF Succeeds, Fails

LEMMA ServesTypes ==
    ASSUME TypeOK, NEW t \in Tasks, Serves(t)
    PROVE  BackendsTypeOK' /\ GatewayTypeOK'
<1>0. /\ StoreTypeOK /\ RepoTypeOK /\ TopicsTypeOK /\ GatewayTypeOK
      /\ faults \in 0 .. MaxFaults
    BY DEF TypeOK, BackendsTypeOK
<1>1. GatewayTypeOK'
    BY <1>0, Zenon DEF GatewayTypeOK, RequestSteps, Serves, SubmitTask, SubmitStep, SubmitMeta,
                       SubmitStatus, SubmitCreate, SubmitPublish, Disconnect, To
<1>n. NewTask \in TaskData
    BY DEF NewTask, TaskData, Statuses
<1>2. StoreTypeOK'
  <2>1. meta' = meta \/ meta' = [meta EXCEPT ![t] = NewTask]
      BY ServesWrites, Zenon
  <2>2. status' = status \/ status' = [status EXCEPT ![t] = "PENDING"]
      BY ServesWrites, Zenon
  <2> QED
      BY <1>0, <1>n, <2>1, <2>2 DEF StoreTypeOK, Statuses
<1>3. RepoTypeOK'
  <2>1. row' = row \/ row' = [row EXCEPT ![t] = NewTask]
      BY ServesWrites, Zenon
  <2>2. executions' = executions
      BY ServesWrites, Zenon
  <2> QED
      BY <1>0, <1>n, <2>1, <2>2 DEF RepoTypeOK
<1>4. TopicsTypeOK'
  <2>1. PartitionOf[t] \in Partitions /\ Append(pending[PartitionOf[t]], t) \in Seq(Bodies)
      BY <1>0, DomainAssumption DEF TopicsTypeOK, Bodies
  <2> QED
      BY <1>0, <2>1, ServesWrites, Zenon DEF TopicsTypeOK
<1>5. faults' \in 0 .. MaxFaults
  <2>1. CASE SubmitTask(t)
      BY <1>0, <2>1 DEF SubmitTask, backendVars
  <2>2. CASE Disconnect(t)
      BY <1>0, <2>2, CallsAssumption DEF Disconnect
  <2>3. CASE SubmitStep(t)
    <3>1. Succeeds(Waiting(t)) \/ Fails(Waiting(t))
        BY <2>3, Zenon DEF SubmitStep, SubmitMeta, SetTaskMeta, SubmitStatus, SetStatus, SubmitCreate,
                           Create, SubmitPublish, PublishPending, Publish
    <3> QED
        BY <1>0, <3>1, CallType
  <2> QED
      BY <2>1, <2>2, <2>3 DEF Serves
<1> QED
    BY <1>1, <1>2, <1>3, <1>4, <1>5 DEF BackendsTypeOK

\* A step that makes no call but a read keeps the backends in their types.
LEMMA NoCallType ==
    ASSUME BackendsTypeOK, UNCHANGED <<storeVars, repoVars, topicVars>>, faults' \in 0 .. MaxFaults
    PROVE  BackendsTypeOK'
    BY DEF BackendsTypeOK, StoreTypeOK, RepoTypeOK, TopicsTypeOK, storeVars, repoVars, topicVars

-----------------------------------------------------------------------------
(* The pipeline *)

LEMMA NotFoundIsNotTerminal == ~IsTerminal(NotFound)
    BY DomainAssumption DEF IsTerminal, Statuses

\* LifeInv, for the records of one task.
RecordsOK(t) ==
    /\ meta[t] # NotFound /\ meta[t].completed => IsTerminal(meta[t].status)
    /\ row[t] # NotFound => (row[t].completed <=> IsTerminal(row[t].status))
    /\ SaysOver(t) => t \in over
    /\ OutOfOrder(t) => t \in disordered

LEMMA RecordsKept ==
    ASSUME NEW t \in Tasks, RecordsOK(t), UNCHANGED <<over, disordered>>,
           status'[t] = status[t], meta'[t] = meta[t], row'[t] = row[t]
    PROVE  RecordsOK(t)'
<1>1. RowCompleted(t)' <=> RowCompleted(t)
    BY DEF RowCompleted
<1>2. (SaysOver(t)' <=> SaysOver(t)) /\ (OutOfOrder(t)' <=> OutOfOrder(t))
    BY <1>1 DEF SaysOver, OutOfOrder
<1> QED
    BY <1>2 DEF RecordsOK

\* A write of a dispatcher or a worker, or the expiry of a key, for task t.
Moves(t) ==
    \/ InPending(t) /\ RecordStep(t)
    \/ Expire(t) /\ UNCHANGED row

LEMMA PipelineMoves == Pipeline => \E t \in Tasks : Moves(t)
    BY GatewayServerAssumption, Zenon DEF Pipeline, Moves

\* The pipeline changes the records of one task, which it was given if one of them
\* says that the task is over, and keeps them in their types; it takes no
\* completed row back and inserts none.
LEMMA MovesRecords ==
    ASSUME TypeOK, SubmitInv, LifeInv, NEW t \in Tasks, Moves(t)
    PROVE  /\ StoreTypeOK' /\ row' \in [Tasks -> TaskData \cup {NotFound}]
           /\ \A u \in Tasks \ {t} : status'[u] = status[u] /\ meta'[u] = meta[u] /\ row'[u] = row[u]
           /\ SaysOver(t)' => InPending(t)
           /\ row[t] = NotFound => row'[t] = NotFound
           /\ RowCompleted(t) => RowCompleted(t)'
           /\ (meta[t] # NotFound /\ meta[t].completed => IsTerminal(meta[t].status))'
           /\ (row[t] # NotFound => (row[t].completed <=> IsTerminal(row[t].status)))'
<1>0. /\ status \in [Tasks -> Statuses \cup {NotFound}]
      /\ meta \in [Tasks -> TaskData \cup {NotFound}]
      /\ row \in [Tasks -> TaskData \cup {NotFound}]
    BY Typed
<1>1. RecordsOK(t) /\ (t \in over => InPending(t))
    BY DEF LifeInv, RecordsOK, SubmitInv
<1>2. ASSUME InPending(t), NEW s \in Statuses, Report(t, s)
      PROVE  /\ status' \in [Tasks -> Statuses \cup {NotFound}] /\ UNCHANGED <<meta, row>>
             /\ \A u \in Tasks \ {t} : status'[u] = status[u]
             /\ SaysOver(t)' => InPending(t)
    BY <1>0, <1>2 DEF Report
<1>3. ASSUME InPending(t), NEW s \in Statuses, NEW n \in Counts, Conclude(t, s, n)
      PROVE  /\ meta' \in [Tasks -> TaskData \cup {NotFound}] /\ UNCHANGED <<status, row>>
             /\ \A u \in Tasks \ {t} : meta'[u] = meta[u]
             /\ meta'[t].completed => IsTerminal(meta'[t].status)
             /\ SaysOver(t)' => InPending(t)
  <2> DEFINE m == [status |-> s, attempts |-> n, completed |-> s = "DONE"]
  <2>1. m \in TaskData /\ m.completed = (s = "DONE") /\ m.status = s
      BY RecordsAssumption DEF TaskData
  <2>2. meta' = [meta EXCEPT ![t] = m] /\ UNCHANGED <<status, row>>
      BY <1>3 DEF Conclude
  <2>3. m.completed => IsTerminal(m.status)
      BY <2>1 DEF IsTerminal
  <2> HIDE DEF m
  <2> QED
      BY <1>0, <1>3, <2>1, <2>2, <2>3
<1>4. ASSUME InPending(t), NEW s \in Statuses, Close(t, s)
      PROVE  /\ row' \in [Tasks -> TaskData \cup {NotFound}] /\ UNCHANGED <<status, meta>>
             /\ \A u \in Tasks \ {t} : row'[u] = row[u]
             /\ row[t] = NotFound => row'[t] = NotFound
             /\ row[t] # NotFound =>
                   row'[t] # NotFound /\ row'[t].completed /\ IsTerminal(row'[t].status)
             /\ SaysOver(t)' => InPending(t)
  <2> DEFINE r == UpdatedRow(row[t], s)
  <2>1. IsTerminal(s)
      BY <1>4, RecordsAssumption DEF Close, IsTerminal
  <2>2. row[t] = NotFound => r = NotFound
      BY DEF UpdatedRow
  <2>3. row[t] # NotFound => r \in TaskData /\ r.completed /\ r.status = s
      BY <1>0, <2>1 DEF UpdatedRow, TaskData
  <2>4. row' = [row EXCEPT ![t] = r] /\ UNCHANGED <<status, meta>>
      BY <1>4 DEF Close
  <2> HIDE DEF r
  <2> QED
      BY <1>0, <1>4, <2>1, <2>2, <2>3, <2>4, DomainAssumption
<1>5. ASSUME Expire(t), UNCHANGED row
      PROVE  /\ StoreTypeOK'
             /\ \A u \in Tasks \ {t} : status'[u] = status[u] /\ meta'[u] = meta[u]
             /\ status'[t] \in {status[t], NotFound} /\ meta'[t] \in {meta[t], NotFound}
    BY <1>0, <1>5 DEF Expire, StoreTypeOK
<1>6. ASSUME UNCHANGED row
      PROVE  /\ RowCompleted(t)' <=> RowCompleted(t)
             /\ (row[t] # NotFound => (row[t].completed <=> IsTerminal(row[t].status)))'
    BY <1>1, <1>6 DEF RowCompleted, RecordsOK
<1>7. ASSUME UNCHANGED meta
      PROVE  (meta[t] # NotFound /\ meta[t].completed => IsTerminal(meta[t].status))'
    BY <1>1, <1>7 DEF RecordsOK
<1>8. CASE InPending(t) /\ \E s \in Statuses : Report(t, s)
    BY <1>0, <1>2, <1>6, <1>7, <1>8, ZenonT(30) DEF StoreTypeOK
<1>9. CASE InPending(t) /\ \E s \in Statuses, n \in Counts : Conclude(t, s, n)
    BY <1>0, <1>3, <1>6, <1>9, ZenonT(30) DEF StoreTypeOK
<1>10. CASE InPending(t) /\ \E s \in Statuses : Close(t, s)
  <2>1. PICK s \in Statuses : Close(t, s)
      BY <1>10
  <2>2. RowCompleted(t) => RowCompleted(t)'
      BY <1>4, <1>10, <2>1 DEF RowCompleted
  <2>3. (row[t] # NotFound => (row[t].completed <=> IsTerminal(row[t].status)))'
      BY <1>4, <1>10, <2>1
  <2> QED
      BY <1>0, <1>4, <1>7, <1>10, <2>1, <2>2, <2>3, ZenonT(30) DEF StoreTypeOK
<1>11. CASE Expire(t) /\ UNCHANGED row
  <2>1. SaysOver(t)' => SaysOver(t)
      BY <1>5, <1>6, <1>11, NotFoundIsNotTerminal DEF SaysOver
  <2>2. (meta[t] # NotFound /\ meta[t].completed => IsTerminal(meta[t].status))'
      BY <1>1, <1>5, <1>11 DEF RecordsOK
  <2>3. SaysOver(t)' => InPending(t)
      BY <1>1, <2>1 DEF RecordsOK
  <2> QED
      BY <1>0, <1>5, <1>6, <1>11, <2>2, <2>3
<1> QED
    BY <1>8, <1>9, <1>10, <1>11, ZenonT(30) DEF Moves, RecordStep

-----------------------------------------------------------------------------
(* GetTaskStatus and StreamTaskUpdates *)

\* What HeldInv and the properties say of one client.
ClientOK(c) ==
    /\ read[c] # "none" \/ c \in streaming \/ answer[c] # None => request[Target[c]] = "accepted"
    /\ c \in recorded => RowCompleted(Target[c])
    /\ read[c] = "status" =>
          /\ got[c] \in TaskData
          /\ got[c].completed => Target[c] \in over /\ IsTerminal(got[c].status)
          /\ c \in recorded => IsTerminal(got[c].status) \/ Target[c] \in disordered
    /\ IsTask(answer[c]) /\ (answer[c].completed \/ c \in recorded) =>
          IsTerminal(answer[c].status) \/ Target[c] \in disordered
    /\ answer[c] = NotFound => row[Target[c]] = NotFound

ClientsInv == HeldInv /\ AnswersGoBackOnlyWithRecords /\ NotFoundIsExplained

LEMMA ClientSplit == ClientsInv <=> \A c \in Clients : ClientOK(c)
<1>1. ClientsInv => \A c \in Clients : ClientOK(c)
    BY ZenonT(30) DEF ClientsInv, HeldInv, AnswersGoBackOnlyWithRecords, NotFoundIsExplained, ClientOK
<1>2. (\A c \in Clients : ClientOK(c)) => HeldInv
    BY ZenonT(30) DEF HeldInv, ClientOK
<1>3. (\A c \in Clients : ClientOK(c)) => AnswersGoBackOnlyWithRecords /\ NotFoundIsExplained
    BY ZenonT(30) DEF AnswersGoBackOnlyWithRecords, NotFoundIsExplained, ClientOK
<1> QED
    BY <1>1, <1>2, <1>3 DEF ClientsInv

\* A step of somebody else leaves a client alone, if it does not take back what
\* the client relies on.
LEMMA OtherClient ==
    ASSUME NEW c \in Clients, ClientOK(c),
           read'[c] = read[c], got'[c] = got[c], answer'[c] = answer[c],
           c \in streaming' <=> c \in streaming, c \in recorded' <=> c \in recorded,
           request[Target[c]] = "accepted" => request'[Target[c]] = "accepted",
           Target[c] \in over => Target[c] \in over',
           Target[c] \in disordered => Target[c] \in disordered',
           answer[c] = NotFound /\ row[Target[c]] = NotFound => row'[Target[c]] = NotFound,
           c \in recorded /\ RowCompleted(Target[c]) => RowCompleted(Target[c])'
    PROVE  ClientOK(c)'
<1>1. (read[c] # "none" \/ c \in streaming \/ answer[c] # None => request[Target[c]] = "accepted")'
    BY Zenon DEF ClientOK
<1>2. (c \in recorded => RowCompleted(Target[c]))'
    BY DEF ClientOK
<1>3. (read[c] = "status" =>
          /\ got[c] \in TaskData
          /\ got[c].completed => Target[c] \in over /\ IsTerminal(got[c].status)
          /\ c \in recorded => IsTerminal(got[c].status) \/ Target[c] \in disordered)'
    BY DEF ClientOK, IsTerminal
<1>4. (IsTask(answer[c]) /\ (answer[c].completed \/ c \in recorded) =>
          IsTerminal(answer[c].status) \/ Target[c] \in disordered)'
    BY DEF ClientOK, IsTask, IsTerminal
<1>5. (answer[c] = NotFound => row[Target[c]] = NotFound)'
    BY DEF ClientOK
<1> QED
    BY <1>1, <1>2, <1>3, <1>4, <1>5, Zenon DEF ClientOK

\* The types of what a read keeps.
ReadTypeOK ==
    /\ streaming \in SUBSET Clients
    /\ read \in [Clients -> {"none", "meta", "row", "status"}]
    /\ got \in [Clients -> TaskData \cup {None}]
    /\ answer \in [Clients -> TaskData \cup {NotFound, Failed, None}]
    /\ recorded \in SUBSET Clients

\* A step of a read of client c.
Reads(c) == Poll(c) \/ GetTaskStatus(c) \/ StreamOpen(c) \/ StreamTick(c) \/ StreamGone(c)

\* A read touches nobody else's.
LEMMA ReadsOthers ==
    ASSUME ReadTypeOK, NEW c \in Clients, Reads(c), NEW e \in Clients \ {c}
    PROVE  /\ read'[e] = read[e] /\ got'[e] = got[e] /\ answer'[e] = answer[e]
           /\ e \in streaming' <=> e \in streaming
           /\ e \in recorded' <=> e \in recorded
<1>1. CASE BeginRead(c)
    BY <1>1 DEF BeginRead, ReadTypeOK
<1>2. ASSUME NEW a, Answer(c, a) \/ Found(c, a)
      PROVE  /\ read'[e] = read[e] /\ got'[e] = got[e] /\ answer'[e] = answer[e]
             /\ e \in streaming' <=> e \in streaming
             /\ e \in recorded' <=> e \in recorded
    BY <1>2 DEF Answer, Found, ReadTypeOK
<1>3. CASE ReadMeta(c)
  <2>1. CASE read' = [read EXCEPT ![c] = "row"] /\ UNCHANGED <<streaming, got, answer, recorded>>
      BY <2>1 DEF ReadTypeOK
  <2> QED
      BY <1>2, <1>3, <2>1, Zenon DEF ReadMeta
<1>4. CASE ReadRow(c) \/ ReadStatus(c)
    BY <1>2, <1>4, Zenon DEF ReadRow, ReadStatus
<1>5. CASE StreamOpen(c) \/ StreamGone(c)
    BY <1>5 DEF StreamOpen, StreamGone, ReadTypeOK
<1> QED
    BY <1>1, <1>3, <1>4, <1>5 DEF Reads, Poll, GetTaskStatus, StreamTick

\* What a read leaves alone.
LEMMA ReadsFrame ==
    ASSUME NEW c \in Clients, Reads(c)
    PROVE  /\ UNCHANGED <<storeVars, repoVars, topicVars, gatewayVars, orderVars, server, bulkVars>>
           /\ faults \in 0 .. MaxFaults => faults' \in 0 .. MaxFaults
<1>1. UNCHANGED <<storeVars, repoVars, topicVars, gatewayVars, orderVars, server, bulkVars>>
    BY Zenon DEF Reads, Poll, GetTaskStatus, ReadMeta, ReadRow, ReadStatus, StreamOpen, StreamTick,
                 StreamGone, BeginRead, Reading
<1>2. ASSUME faults \in 0 .. MaxFaults, Succeeds(TRUE) \/ Fails(TRUE)
      PROVE  faults' \in 0 .. MaxFaults
    BY <1>2, CallType, Zenon
<1>3. CASE GetTaskStatus(c)
  <2>1. Succeeds(TRUE) \/ Fails(TRUE)
      BY <1>3, Zenon DEF GetTaskStatus, ReadMeta, ReadRow, ReadStatus, GetTaskMeta, GetByID, GetStatus
  <2> QED
      BY <1>1, <1>2, <2>1, Zenon
<1>4. CASE Poll(c) \/ StreamOpen(c) \/ StreamTick(c) \/ StreamGone(c)
  <2>1. UNCHANGED faults
      BY <1>4 DEF Poll, StreamOpen, StreamTick, StreamGone, BeginRead
  <2> QED
      BY <1>1, <2>1
<1> QED
    BY <1>1, <1>3, <1>4 DEF Reads

\* A read that begins: its answer is not known, and the history notes the row.
LEMMA BeginReadOK ==
    ASSUME ReadTypeOK, NEW c \in Clients, ClientOK(c), request[Target[c]] = "accepted", BeginRead(c)
    PROVE  ReadTypeOK' /\ ClientOK(c)'
<1>1. UNCHANGED <<row, request, over, disordered>>
    BY ZenonT(30) DEF BeginRead, Reading, repoVars, gatewayVars, orderVars
<1>2. /\ read' = [read EXCEPT ![c] = "meta"]
      /\ answer' = [answer EXCEPT ![c] = None]
      /\ recorded' = IF RowCompleted(Target[c]) THEN recorded \cup {c} ELSE recorded \ {c}
      /\ UNCHANGED <<streaming, got>>
    BY DEF BeginRead, RowCompleted
<1>3. ReadTypeOK'
    BY <1>2 DEF ReadTypeOK
<1>4. read'[c] = "meta" /\ answer'[c] = None /\ ~IsTask(None) /\ None # NotFound
    BY <1>2, GatewayServerAssumption DEF ReadTypeOK, IsTask
<1>5. c \in recorded' => RowCompleted(Target[c])
    BY <1>2
<1>6. RowCompleted(Target[c])' <=> RowCompleted(Target[c])
    BY <1>1 DEF RowCompleted
<1> QED
    BY <1>1, <1>3, <1>4, <1>5, <1>6, ZenonT(30) DEF ClientOK

\* The answer that ends a read.
LEMMA AnswerOK ==
    ASSUME ReadTypeOK, NEW c \in Clients, ClientOK(c), read[c] # "none",
           UNCHANGED <<row, request, over, disordered>>,
           NEW a \in TaskData \cup {NotFound, Failed}, Answer(c, a),
           IsTask(a) /\ (a.completed \/ c \in recorded) =>
               IsTerminal(a.status) \/ Target[c] \in disordered,
           a = NotFound => row[Target[c]] = NotFound
    PROVE  ReadTypeOK' /\ ClientOK(c)'
<1>1. ReadTypeOK'
    BY ZenonT(30) DEF Answer, ReadTypeOK
<1>2. read'[c] = "none" /\ answer'[c] = a /\ recorded' = recorded
    BY DEF Answer, ReadTypeOK
<1>3. request'[Target[c]] = "accepted"
    BY ZenonT(30) DEF ClientOK
<1>4. RowCompleted(Target[c])' <=> RowCompleted(Target[c])
    BY DEF RowCompleted
<1> QED
    BY <1>1, <1>2, <1>3, <1>4, ZenonT(30) DEF ClientOK

\* The metadata or the row that a read goes on with.
LEMMA FoundOK ==
    ASSUME ReadTypeOK, NEW c \in Clients, ClientOK(c), read[c] # "none",
           UNCHANGED <<row, request, over, disordered>>,
           NEW d \in TaskData, Found(c, d),
           d.completed => Target[c] \in over /\ IsTerminal(d.status),
           c \in recorded => IsTerminal(d.status) \/ Target[c] \in disordered
    PROVE  ReadTypeOK' /\ ClientOK(c)'
<1>1. ReadTypeOK'
    BY DEF Found, ReadTypeOK
<1>2. /\ read'[c] = "status" /\ got'[c] = d
      /\ answer'[c] = answer[c] /\ recorded' = recorded /\ streaming' = streaming
    BY DEF Found, ReadTypeOK
<1>3. request'[Target[c]] = "accepted"
    BY DEF ClientOK
<1>4. RowCompleted(Target[c])' <=> RowCompleted(Target[c])
    BY DEF RowCompleted
<1> QED
    BY <1>1, <1>2, <1>3, <1>4 DEF ClientOK

\* Every step of a read keeps what is known of its client: what it finds is final,
\* or is not yet, or contradicts another record.
LEMMA ReadsOK ==
    ASSUME TypeOK, LifeInv, NEW c \in Clients, ClientOK(c), Reads(c)
    PROVE  ReadTypeOK' /\ ClientOK(c)'
<1> DEFINE t == Target[c]
<1>0. t \in Tasks /\ ReadTypeOK
    BY GatewayServerAssumption DEF TypeOK, ReadTypeOK
<1>1. /\ meta[t] \in TaskData \cup {NotFound} /\ row[t] \in TaskData \cup {NotFound}
      /\ status[t] \in Statuses \cup {NotFound}
    BY <1>0, Typed
<1>2. RecordsOK(t)
    BY <1>0 DEF LifeInv, RecordsOK
<1>3. UNCHANGED <<row, request, over, disordered>>
    BY ReadsFrame DEF repoVars, gatewayVars, orderVars
<1>4. c \in recorded => RowCompleted(t) /\ t \in over /\ IsTerminal(row[t].status)
    BY <1>2, Zenon DEF ClientOK, RecordsOK, RowCompleted, SaysOver
<1>5. Failed \notin TaskData /\ NotFound \notin TaskData /\ NotFound # Failed
      /\ NotFound \notin Statuses /\ Failed \notin Statuses
    BY DomainAssumption
<1> HIDE DEF t
<1>6. CASE Poll(c)
    BY <1>0, <1>6, BeginReadOK DEF Poll
<1>7. CASE StreamTick(c)
  <2>1. request[Target[c]] = "accepted"
      BY <1>7, ZenonT(30) DEF StreamTick, ClientOK
  <2> QED
      BY <1>0, <1>7, <2>1, BeginReadOK DEF StreamTick
<1>8. CASE ReadMeta(c)
  <2>0. read[c] = "meta"
      BY <1>8 DEF ReadMeta
  <2>1. ASSUME Answer(c, Failed) PROVE ReadTypeOK' /\ ClientOK(c)'
      BY <1>0, <1>3, <1>5, <2>0, <2>1, AnswerOK DEF IsTask
  <2>2. ASSUME meta[t] # NotFound, Found(c, meta[t]) PROVE ReadTypeOK' /\ ClientOK(c)'
    <3>1. meta[t].completed => t \in over /\ IsTerminal(meta[t].status)
        BY <1>2, <2>2 DEF RecordsOK, SaysOver
    <3>2. c \in recorded => IsTerminal(meta[t].status) \/ t \in disordered
        BY <1>2, <1>4, <2>2, ZenonT(30) DEF RecordsOK, OutOfOrder
    <3> QED
        BY <1>0, <1>1, <1>3, <2>0, <2>2, <3>1, <3>2, FoundOK, ZenonT(30) DEF t
  <2>3. ASSUME read' = [read EXCEPT ![c] = "row"], UNCHANGED <<streaming, got, answer, recorded>>
        PROVE  ReadTypeOK' /\ ClientOK(c)'
    <3>1. read'[c] = "row" /\ ReadTypeOK'
        BY <1>0, <2>3 DEF ReadTypeOK
    <3>2. RowCompleted(Target[c])' <=> RowCompleted(Target[c])
        BY <1>3 DEF RowCompleted
    <3> QED
        BY <1>3, <2>0, <2>3, <3>1, <3>2, ZenonT(30) DEF ClientOK
  <2>4. \/ Answer(c, Failed)
        \/ read' = [read EXCEPT ![c] = "row"] /\ UNCHANGED <<streaming, got, answer, recorded>>
        \/ meta[t] # NotFound /\ Found(c, meta[t])
      BY <1>8 DEF ReadMeta, t
  <2> QED
      BY <2>1, <2>2, <2>3, <2>4
<1>9. CASE ReadRow(c)
  <2>0. read[c] = "row"
      BY <1>9 DEF ReadRow
  <2>1. ASSUME Answer(c, Failed) PROVE ReadTypeOK' /\ ClientOK(c)'
      BY <1>0, <1>3, <1>5, <2>0, <2>1, AnswerOK DEF IsTask
  <2>2. ASSUME row[t] = NotFound, Answer(c, NotFound) PROVE ReadTypeOK' /\ ClientOK(c)'
      BY <1>0, <1>3, <2>0, <2>2, AnswerOK DEF IsTask, t
  <2>3. ASSUME row[t] # NotFound, Found(c, row[t]) PROVE ReadTypeOK' /\ ClientOK(c)'
    <3>1. row[t].completed => t \in over /\ IsTerminal(row[t].status)
        BY <1>2, <2>3, ZenonT(30) DEF RecordsOK, SaysOver, RowCompleted
    <3> QED
        BY <1>0, <1>1, <1>3, <1>4, <2>0, <2>3, <3>1, FoundOK, ZenonT(30) DEF t
  <2>4. \/ Answer(c, Failed)
        \/ row[t] = NotFound /\ Answer(c, NotFound)
        \/ row[t] # NotFound /\ Found(c, row[t])
      BY <1>9 DEF ReadRow, t
  <2> QED
      BY <2>1, <2>2, <2>3, <2>4
<1>10. CASE ReadStatus(c)
  <2> DEFINE a(s) == [got[c] EXCEPT !.status = LiveStatus(got[c], s)]
  <2>1. PICK s \in {status[t], Failed} : Answer(c, a(s))
      BY <1>10 DEF ReadStatus, t
  <2>2. read[c] = "status" /\ got[c] \in TaskData
      BY <1>10 DEF ReadStatus, ClientOK
  <2>3. LiveStatus(got[c], s) \in Statuses
      BY <1>1, <2>2 DEF LiveStatus, TaskData
  <2>4. a(s) \in TaskData /\ a(s).completed = got[c].completed
        /\ a(s).status = LiveStatus(got[c], s)
      BY <2>2, <2>3 DEF TaskData
  <2>5. got[c].completed \/ c \in recorded =>
            t \in over /\ (IsTerminal(got[c].status) \/ t \in disordered)
      BY <1>4, <2>2, ZenonT(30) DEF ClientOK, t
  <2>6. t \in over => status[t] = NotFound \/ IsTerminal(status[t]) \/ t \in disordered
      BY <1>2, Zenon DEF RecordsOK, OutOfOrder
  <2>7. got[c].completed \/ c \in recorded => IsTerminal(LiveStatus(got[c], s)) \/ t \in disordered
      BY <2>1, <2>5, <2>6 DEF LiveStatus
  <2> HIDE DEF a
  <2> QED
      BY <1>0, <1>3, <1>5, <2>1, <2>2, <2>4, <2>7, AnswerOK, ZenonT(30) DEF t
<1>11. CASE StreamOpen(c) \/ StreamGone(c)
  <2>1. ReadTypeOK' /\ recorded' = recorded /\ answer' = answer
      BY <1>0, <1>11, ZenonT(30) DEF StreamOpen, StreamGone, ReadTypeOK
  <2>2. read'[c] = "none"
      BY <1>0, <1>11 DEF StreamOpen, StreamGone, ReadTypeOK
  <2>3. request[Target[c]] = "accepted"
      BY <1>11, ZenonT(30) DEF StreamOpen, StreamGone, ClientOK
  <2>4. RowCompleted(Target[c])' <=> RowCompleted(Target[c])
      BY <1>3 DEF RowCompleted
  <2> QED
      BY <1>3, <2>1, <2>2, <2>3, <2>4 DEF ClientOK
<1> QED
    BY <1>6, <1>7, <1>8, <1>9, <1>10, <1>11 DEF Reads, GetTaskStatus

-----------------------------------------------------------------------------
(* BulkSubmitTasks *)

Done == bulkReqs \ {bulkTask}

\* A step that does not count a request.
LEMMA BulkKept ==
    ASSUME BulkInv, UNCHANGED <<bulkIDs, bulkFailed, Done>>, IsFiniteSet(bulkReqs'),
           \A t \in Done : request'[t] = request[t],
           bulkTask' # None => bulkTask' \in bulkReqs' /\ request'[bulkTask'] # "none",
           bulk' = "answered" => bulkTask' = None
    PROVE  BulkInv'
<1>1. /\ \A t \in Done : request[t] \in {"accepted", "refused"}
      /\ bulkIDs = {t \in Done : request[t] = "accepted"}
      /\ bulkFailed = Cardinality({t \in Done : request[t] = "refused"})
    BY Zenon DEF BulkInv, Done
<1>2. /\ {t \in Done : request'[t] = "accepted"} = {t \in Done : request[t] = "accepted"}
      /\ {t \in Done : request'[t] = "refused"} = {t \in Done : request[t] = "refused"}
    BY ZenonT(30)
<1>3. /\ \A t \in Done' : request'[t] \in {"accepted", "refused"}
      /\ bulkIDs' = {t \in Done' : request'[t] = "accepted"}
      /\ bulkFailed' = Cardinality({t \in Done' : request'[t] = "refused"})
    BY <1>1, <1>2
<1> QED
    BY <1>3, Zenon DEF BulkInv, Done

\* The submission that has returned is counted once, on its side.
LEMMA BulkNextOK ==
    ASSUME TypeOK, BulkInv, BulkNext
    PROVE  BulkInv'
<1> DEFINE t == bulkTask
           Refused(S) == {u \in S : request[u] = "refused"}
<1>1. /\ t \in bulkReqs /\ t \notin Done /\ bulkReqs = Done \cup {t}
      /\ request[t] \in {"accepted", "refused"}
    BY DEF BulkNext, BulkInv, Done
<1>2. /\ IsFiniteSet(bulkReqs)
      /\ \A u \in Done : request[u] \in {"accepted", "refused"}
      /\ bulkIDs = {u \in Done : request[u] = "accepted"}
      /\ bulkFailed = Cardinality(Refused(Done))
    BY Zenon DEF BulkInv, Done
<1>3. bulkTask' = None /\ UNCHANGED <<bulk, bulkReqs, request>> /\ BulkCount(t)
    BY DEF BulkNext, gatewayVars
<1>4. Done' = bulkReqs
    BY <1>3, GatewayServerAssumption DEF Done, TypeOK
<1>5. bulkIDs' = {u \in bulkReqs : request[u] = "accepted"}
    BY <1>1, <1>2, <1>3 DEF BulkCount
<1>6. bulkFailed' = Cardinality(Refused(bulkReqs))
  <2>1. CASE request[t] = "accepted"
    <3>1. Refused(bulkReqs) = Refused(Done)
        BY <1>1, <2>1
    <3> QED
        BY <1>2, <1>3, <2>1, <3>1 DEF BulkCount
  <2>2. CASE request[t] # "accepted"
    <3>1. Refused(bulkReqs) = Refused(Done) \cup {t} /\ t \notin Refused(Done)
        BY <1>1, <2>2
    <3>2. Refused(Done) \subseteq bulkReqs
        BY DEF Done
    <3>3. IsFiniteSet(Refused(Done))
        BY <1>2, <3>2, FS_Subset
    <3>4. Cardinality(Refused(Done) \cup {t}) = Cardinality(Refused(Done)) + 1
        BY <3>1, <3>3, FS_AddElement
    <3> QED
        BY <1>2, <1>3, <2>2, <3>1, <3>4 DEF BulkCount
  <2> QED
      BY <2>1, <2>2
<1>7. \A u \in Done' : request'[u] \in {"accepted", "refused"}
    BY <1>1, <1>2, <1>3, <1>4
<1> HIDE DEF t
<1> QED
    BY <1>2, <1>3, <1>4, <1>5, <1>6, <1>7, Zenon DEF BulkInv, Done

-----------------------------------------------------------------------------
(* The inductive invariant *)

\* TypeOK, without the parts that the lemmas above are about.
LEMMA TypeSplit ==
    TypeOK <=>
        /\ BackendsTypeOK /\ GatewayTypeOK /\ ReadTypeOK
        /\ over \in SUBSET Tasks /\ disordered \in SUBSET Tasks
        /\ server \in {"serving", "grpcStop", "httpStop", "exited"}
        /\ bulk \in {"none", "open", "answered", "broken"}
        /\ bulkTask \in Tasks \cup {None} /\ bulkIDs \in SUBSET Tasks
        /\ bulkFailed \in Nat /\ bulkReqs \in SUBSET Tasks
    BY Zenon DEF TypeOK, ReadTypeOK

LEMMA InvSplit ==
    ASSUME TypeOK
    PROVE  IInv <=> /\ SubmitInv /\ BulkInv
                    /\ \A t \in Tasks : RecordsOK(t)
                    /\ \A c \in Clients : ClientOK(c)
<1>1. LifeInv <=> \A t \in Tasks : RecordsOK(t)
    BY Zenon DEF LifeInv, RecordsOK
<1>2. ClientsInv <=> \A c \in Clients : ClientOK(c)
    BY ClientSplit
<1> QED
    BY <1>1, <1>2, Zenon DEF IInv, ClientsInv

LEMMA InvNext ==
    ASSUME TypeOK', SubmitInv', BulkInv',
           \A t \in Tasks : RecordsOK(t)', \A c \in Clients : ClientOK(c)'
    PROVE  IInv'
<1>1. LifeInv'
    BY Zenon DEF LifeInv, RecordsOK
<1>2. HeldInv' /\ AnswersGoBackOnlyWithRecords' /\ NotFoundIsExplained'
    BY ZenonT(30) DEF HeldInv, AnswersGoBackOnlyWithRecords, NotFoundIsExplained, ClientOK
<1> QED
    BY <1>1, <1>2, Zenon DEF IInv

\* Nothing has been submitted and nobody reads.
LEMMA InitInv == Init => IInv
<1> SUFFICES ASSUME Init PROVE IInv
    OBVIOUS
<1>1. BackendsTypeOK
    BY CallsAssumption DEF Init, BackendsInit, BackendsTypeOK, StoreTypeOK, RepoTypeOK, TopicsTypeOK
<1>2. GatewayTypeOK
    BY DEF Init, GatewayInit, GatewayTypeOK, RequestSteps
<1>3. ReadTypeOK
    BY DEF Init, ReadTypeOK
<1>4. TypeOK
    BY <1>1, <1>2, <1>3, TypeSplit DEF Init
<1>5. \A t \in Tasks : /\ request[t] = "none" /\ ~InPending(t)
                       /\ status[t] = NotFound /\ meta[t] = NotFound /\ row[t] = NotFound
    BY DomainAssumption DEF Init, BackendsInit, GatewayInit, InPending
<1>6. SubmitInv /\ \A t \in Tasks : RecordsOK(t)
    BY <1>5, NotFoundIsNotTerminal DEF Init, SubmitInv, RecordsOK, SaysOver, OutOfOrder, RowCompleted
<1>7. ASSUME NEW c \in Clients PROVE ClientOK(c)
    BY GatewayServerAssumption DEF Init, ClientOK, IsTask
<1>8. BulkInv
  <2>1. /\ Done = {}
        /\ {t \in {} : request[t] = "refused"} = {} /\ {t \in {} : request[t] = "accepted"} = {}
      BY DEF Init, Done
  <2>2. IsFiniteSet({}) /\ Cardinality({}) = 0
      BY FS_EmptySet
  <2> QED
      BY <2>1, <2>2, Zenon DEF Init, BulkInv, Done
<1> QED
    BY <1>4, <1>6, <1>7, <1>8, InvSplit

\* A step of a submission, over REST or over the stream.
LEMMA ServesStep ==
    ASSUME IInv, NEW t \in Tasks, Serves(t), UNCHANGED <<orderVars, server, readVars>>,
           UNCHANGED bulkVars \/ BulkRecv(t)
    PROVE  IInv'
<1>1. /\ TypeOK /\ SubmitInv /\ BulkInv
      /\ \A u \in Tasks : RecordsOK(u)
      /\ \A c \in Clients : ClientOK(c)
    BY InvSplit DEF IInv
<1>2. BackendsTypeOK' /\ GatewayTypeOK'
    BY <1>1, ServesTypes
<1>3. /\ bulk' = bulk /\ bulkIDs' = bulkIDs /\ bulkFailed' = bulkFailed
      /\ \/ bulkTask' = bulkTask /\ bulkReqs' = bulkReqs
         \/ bulk = "open" /\ bulkTask = None /\ bulkTask' = t /\ bulkReqs' = bulkReqs \cup {t}
            /\ request[t] = "none"
    BY DEF bulkVars, BulkRecv, Receiving, SubmitTask
<1>4. ReadTypeOK'
    BY <1>1, TypeSplit DEF ReadTypeOK, readVars
<1>5. TypeOK'
  <2>1. bulkTask' \in Tasks \cup {None} /\ bulkReqs' \in SUBSET Tasks
      BY <1>1, <1>3, TypeSplit
  <2> QED
      BY <1>1, <1>2, <1>3, <1>4, <2>1, ZenonT(30) DEF TypeOK, ReadTypeOK, orderVars
<1>6. /\ \A u \in Tasks \ {t} : request'[u] = request[u] /\ (InPending(u)' <=> InPending(u))
      /\ request[t] \notin {"accepted", "refused"}
      /\ request'[t] # "none"
      /\ request'[t] = "accepted" => InPending(t)'
      /\ InPending(t)' => request'[t] \in {"accepted", "refused"}
    BY <1>1, ServesRequest
<1>7. /\ \A u \in Tasks \ {t} : status'[u] = status[u] /\ meta'[u] = meta[u] /\ row'[u] = row[u]
      /\ meta'[t] \in {meta[t], NewTask}
      /\ row'[t] \in {row[t], NewTask}
      /\ status'[t] \in {status[t], "PENDING"}
    BY <1>1, ServesRecords
<1>8. t \notin over
    BY <1>1, <1>6, ZenonT(30) DEF SubmitInv
<1>u. over' = over /\ disordered' = disordered
    BY DEF orderVars
<1>9. SubmitInv'
    BY <1>1, <1>6, <1>8, <1>u DEF SubmitInv
<1>10. ASSUME NEW u \in Tasks PROVE RecordsOK(u)'
  <2>1. CASE u # t
      BY <1>1, <1>7, <1>u, <2>1, RecordsKept
  <2>2. CASE u = t
    <3>1. RecordsOK(t) /\ ~SaysOver(t)
        BY <1>1, <1>8 DEF RecordsOK
    <3>n. NewTask \in TaskData
        BY DEF NewTask, TaskData, Statuses
    <3>2. NewTask # NotFound /\ NewTask.completed = FALSE /\ NewTask.status = "PENDING"
      <4>1. NewTask # NotFound
          BY <3>n, DomainAssumption
      <4> QED
          BY <4>1 DEF NewTask
    <3>3. ~IsTerminal("PENDING")
        BY DEF IsTerminal
    <3>4. ~RowCompleted(t)'
        BY <1>7, <3>1, <3>2 DEF SaysOver, RowCompleted
    <3>5. ~(SaysOver(t)')
        BY <1>7, <3>1, <3>2, <3>3, <3>4 DEF SaysOver
    <3>6. ~(OutOfOrder(t)')
        BY <1>8, <1>u, <3>4 DEF OutOfOrder
    <3>7. (meta[t] # NotFound /\ meta[t].completed => IsTerminal(meta[t].status))'
        BY <1>7, <3>1, <3>2 DEF RecordsOK
    <3>8. (row[t] # NotFound => (row[t].completed <=> IsTerminal(row[t].status)))'
        BY <1>7, <3>1, <3>2, <3>3 DEF RecordsOK
    <3> QED
        BY <2>2, <3>5, <3>6, <3>7, <3>8, Zenon DEF RecordsOK
  <2> QED
      BY <2>1, <2>2
<1>11. ASSUME NEW c \in Clients PROVE ClientOK(c)'
  <2>1. Target[c] \in Tasks /\ ClientOK(c)
      BY <1>1, GatewayServerAssumption
  <2>2. UNCHANGED <<read, got, answer, streaming, recorded>>
      BY DEF readVars
  <2>3. CASE Target[c] # t
    <3>1. RowCompleted(Target[c])' <=> RowCompleted(Target[c])
        BY <1>7, <2>1, <2>3 DEF RowCompleted
    <3> QED
        BY <1>6, <1>7, <1>u, <2>1, <2>2, <2>3, <3>1, OtherClient, Zenon
  <2>4. CASE Target[c] = t
    <3>1. c \notin recorded
        BY <1>1, <1>8, <2>1, <2>4, Zenon DEF ClientOK, SaysOver, RecordsOK
    <3>2. answer[c] # NotFound
        BY <1>6, <2>1, <2>4, GatewayServerAssumption, Zenon DEF ClientOK
    <3> QED
        BY <1>6, <1>u, <2>1, <2>2, <2>4, <3>1, <3>2, OtherClient, Zenon
  <2> QED
      BY <2>3, <2>4
<1>12. BulkInv'
  <2>1. \A u \in Done : request[u] \in {"accepted", "refused"} /\ u \in Tasks
      BY <1>1, TypeSplit DEF BulkInv, Done
  <2>2. \A u \in Done : request'[u] = request[u]
      BY <1>6, <2>1, Zenon
  <2>3. IsFiniteSet(bulkReqs)
      BY <1>1 DEF BulkInv
  <2>4. CASE bulkTask' = bulkTask /\ bulkReqs' = bulkReqs
    <3>1. bulkTask # None => bulkTask \in bulkReqs /\ request'[bulkTask] # "none"
        BY <1>1, <1>6, TypeSplit, ZenonT(30) DEF BulkInv
    <3>2. Done' = Done
        BY <2>4 DEF Done
    <3>3. bulk' = "answered" => bulkTask' = None
        BY <1>1, <1>3, <2>4 DEF BulkInv
    <3> QED
        BY <1>1, <1>3, <2>2, <2>3, <2>4, <3>1, <3>2, <3>3, BulkKept, ZenonT(30)
  <2>5. CASE /\ bulk = "open" /\ bulkTask = None /\ bulkTask' = t /\ bulkReqs' = bulkReqs \cup {t}
             /\ request[t] = "none"
    <3>1. Done = bulkReqs
        BY <1>1, <2>5, TypeSplit, GatewayServerAssumption DEF Done
    <3>2. Done' = Done
        BY <2>1, <2>5, <3>1 DEF Done
    <3>3. IsFiniteSet(bulkReqs')
        BY <2>3, <2>5, FS_AddElement
    <3> QED
        BY <1>1, <1>3, <1>6, <2>2, <2>5, <3>2, <3>3, BulkKept, Zenon
  <2> QED
      BY <1>3, <2>4, <2>5
<1> QED
    BY <1>5, <1>9, <1>10, <1>11, <1>12, InvNext

\* A step of a read.
LEMMA ReadsStep ==
    ASSUME IInv, NEW c \in Clients, Reads(c)
    PROVE  IInv'
<1>1. /\ TypeOK /\ SubmitInv /\ BulkInv
      /\ \A u \in Tasks : RecordsOK(u)
      /\ \A e \in Clients : ClientOK(e)
    BY InvSplit DEF IInv
<1>2. UNCHANGED <<storeVars, repoVars, topicVars, gatewayVars, orderVars, server, bulkVars>>
    BY ReadsFrame
<1>3. /\ UNCHANGED <<status, meta, row, pending, request, over, disordered>>
      /\ UNCHANGED <<bulk, bulkTask, bulkReqs, bulkIDs, bulkFailed>>
    BY <1>2 DEF storeVars, repoVars, topicVars, gatewayVars, orderVars, bulkVars
<1>4. faults' \in 0 .. MaxFaults
    BY <1>1, ReadsFrame DEF TypeOK, BackendsTypeOK
<1>5. BackendsTypeOK'
    BY <1>1, <1>2, <1>4, NoCallType DEF TypeOK
<1>6. ReadTypeOK' /\ ClientOK(c)'
    BY <1>1, ReadsOK DEF IInv
<1>7. GatewayTypeOK'
    BY <1>1, <1>2 DEF TypeOK, GatewayTypeOK, gatewayVars
<1>8. TypeOK'
    BY <1>1, <1>2, <1>3, <1>5, <1>6, <1>7, ZenonT(30) DEF TypeOK, ReadTypeOK
<1>9. SubmitInv'
    BY <1>1, <1>3, Zenon DEF SubmitInv, InPending
<1>10. \A u \in Tasks : RecordsOK(u)'
    BY <1>1, <1>3, RecordsKept, Zenon
<1>11. ASSUME NEW e \in Clients PROVE ClientOK(e)'
  <2>1. CASE e # c
    <3>1. /\ read'[e] = read[e] /\ got'[e] = got[e] /\ answer'[e] = answer[e]
          /\ e \in streaming' <=> e \in streaming
          /\ e \in recorded' <=> e \in recorded
        BY <1>1, <2>1, ReadsOthers, TypeSplit, Zenon
    <3>2. RowCompleted(Target[e])' <=> RowCompleted(Target[e])
        BY <1>3, Zenon DEF RowCompleted
    <3> QED
        BY <1>1, <1>3, <3>1, <3>2, OtherClient, Zenon
  <2> QED
      BY <1>6, <2>1
<1>12. BulkInv'
    BY <1>1, <1>3 DEF BulkInv
<1> QED
    BY <1>8, <1>9, <1>10, <1>11, <1>12, InvNext

\* A step of the pipeline.
LEMMA PipelineStep == IInv /\ Pipeline => IInv'
<1> SUFFICES ASSUME IInv, Pipeline PROVE IInv'
    OBVIOUS
<1>1. /\ TypeOK /\ SubmitInv /\ BulkInv
      /\ \A u \in Tasks : RecordsOK(u)
      /\ \A c \in Clients : ClientOK(c)
    BY InvSplit DEF IInv
<1>2. PICK t \in Tasks : Moves(t)
    BY PipelineMoves
<1>3. UNCHANGED <<executions, topicVars, faults, gatewayVars, server, readVars, bulkVars>>
    BY Zenon DEF Pipeline
<1>4. /\ StoreTypeOK' /\ row' \in [Tasks -> TaskData \cup {NotFound}]
      /\ \A u \in Tasks \ {t} : status'[u] = status[u] /\ meta'[u] = meta[u] /\ row'[u] = row[u]
      /\ SaysOver(t)' => InPending(t)
      /\ row[t] = NotFound => row'[t] = NotFound
      /\ RowCompleted(t) => RowCompleted(t)'
      /\ (meta[t] # NotFound /\ meta[t].completed => IsTerminal(meta[t].status))'
      /\ (row[t] # NotFound => (row[t].completed <=> IsTerminal(row[t].status)))'
    BY <1>1, <1>2, MovesRecords, Zenon DEF IInv
<1>h. /\ over' = over \cup {u \in Tasks : SaysOver(u)'}
      /\ disordered' = disordered \cup {u \in Tasks : OutOfOrder(u)'}
    BY Zenon DEF Pipeline
<1>i. over' \in SUBSET Tasks /\ disordered' \in SUBSET Tasks
    BY <1>1, <1>h, Typed, Zenon
<1>j. ASSUME NEW u \in Tasks \ {t} PROVE SaysOver(u)' <=> SaysOver(u)
    BY <1>4, <1>j DEF SaysOver, RowCompleted
<1>5. UNCHANGED <<pending, request, bulk, bulkTask, bulkReqs, bulkIDs, bulkFailed>>
    BY <1>3 DEF topicVars, gatewayVars, bulkVars
<1>6. UNCHANGED <<streaming, read, got, answer, recorded>>
    BY <1>3 DEF readVars
<1>7. BackendsTypeOK'
    BY <1>1, <1>3, <1>4, Zenon DEF TypeOK, BackendsTypeOK, RepoTypeOK, TopicsTypeOK, topicVars
<1>8. GatewayTypeOK'
    BY <1>1, <1>3 DEF TypeOK, GatewayTypeOK, gatewayVars
<1>9. TypeOK'
    BY <1>1, <1>3, <1>5, <1>6, <1>7, <1>8, <1>i, Zenon DEF TypeOK
<1>10. \A u \in Tasks : InPending(u)' <=> InPending(u)
    BY <1>5 DEF InPending
<1>11. SubmitInv'
  <2>1. ASSUME NEW u \in Tasks, u \in over' PROVE InPending(u)
    <3>1. u \in over \/ SaysOver(u)'
        BY <1>h, <2>1, Zenon
    <3>2. SaysOver(u)' => InPending(u) \/ u \in over
        BY <1>1, <1>4, <1>j, Zenon DEF RecordsOK
    <3> QED
        BY <1>1, <3>1, <3>2, Zenon DEF SubmitInv
  <2> QED
      BY <1>1, <1>5, <1>10, <2>1, Zenon DEF SubmitInv
<1>12. ASSUME NEW u \in Tasks PROVE RecordsOK(u)'
  <2>1. (SaysOver(u) => u \in over)' /\ (OutOfOrder(u) => u \in disordered)'
      BY <1>h, Zenon
  <2>2. CASE u # t
    <3>1. status'[u] = status[u] /\ meta'[u] = meta[u] /\ row'[u] = row[u]
        BY <1>4, <2>2
    <3>2. (meta[u] # NotFound /\ meta[u].completed => IsTerminal(meta[u].status))'
        BY <1>1, <3>1 DEF RecordsOK
    <3>3. (row[u] # NotFound => (row[u].completed <=> IsTerminal(row[u].status)))'
        BY <1>1, <3>1 DEF RecordsOK
    <3> QED
        BY <2>1, <3>2, <3>3, Zenon DEF RecordsOK
  <2> QED
      BY <1>4, <2>1, <2>2, Zenon DEF RecordsOK
<1>13. ASSUME NEW c \in Clients PROVE ClientOK(c)'
  <2>1. Target[c] \in Tasks /\ ClientOK(c)
      BY <1>1, GatewayServerAssumption
  <2>2. /\ row[Target[c]] = NotFound => row'[Target[c]] = NotFound
        /\ RowCompleted(Target[c]) => RowCompleted(Target[c])'
    <3>1. CASE Target[c] # t
        BY <1>4, <2>1, <3>1, Zenon DEF RowCompleted
    <3> QED
        BY <1>4, <3>1, ZenonT(30)
  <2>3. /\ Target[c] \in over => Target[c] \in over'
        /\ Target[c] \in disordered => Target[c] \in disordered'
      BY <1>h, Zenon
  <2> QED
      BY <1>5, <1>6, <2>1, <2>2, <2>3, OtherClient, Zenon
<1>14. BulkInv'
    BY <1>1, <1>5 DEF BulkInv
<1> QED
    BY <1>9, <1>11, <1>12, <1>13, <1>14, InvNext

\* A step of BulkSubmitTasks that makes no call, or of the shutdown.
LEMMA ServerStep ==
    ASSUME IInv, UNCHANGED <<backendVars, gatewayVars, orderVars, readVars>>, TypeOK', BulkInv'
    PROVE  IInv'
<1>1. SubmitInv /\ (\A u \in Tasks : RecordsOK(u)) /\ (\A c \in Clients : ClientOK(c))
    BY InvSplit DEF IInv
<1>2. UNCHANGED <<status, meta, row, pending, request, over, disordered>>
    BY DEF backendVars, storeVars, repoVars, topicVars, gatewayVars, orderVars
<1>3. UNCHANGED <<streaming, read, got, answer, recorded>>
    BY DEF readVars
<1>4. SubmitInv'
    BY <1>1, <1>2, Zenon DEF SubmitInv, InPending
<1>5. \A u \in Tasks : RecordsOK(u)'
    BY <1>1, <1>2, RecordsKept, Zenon
<1>6. ASSUME NEW c \in Clients PROVE ClientOK(c)'
  <2>1. RowCompleted(Target[c])' <=> RowCompleted(Target[c])
      BY <1>2 DEF RowCompleted
  <2> QED
      BY <1>1, <1>2, <1>3, <2>1, OtherClient, Zenon
<1> QED
    BY <1>4, <1>5, <1>6, InvNext

LEMMA InvStep == IInv /\ [Next]_vars => IInv'
<1> SUFFICES ASSUME IInv, [Next]_vars PROVE IInv'
    OBVIOUS
<1>0. TypeOK /\ BulkInv
    BY DEF IInv
<1>1. ASSUME UNCHANGED <<backendVars, gatewayVars, orderVars, readVars>>,
             server' \in {"serving", "grpcStop", "httpStop", "exited"},
             bulk' \in {"none", "open", "answered", "broken"},
             bulkTask' \in Tasks \cup {None}, bulkIDs' \in SUBSET Tasks,
             bulkFailed' \in Nat, bulkReqs' \in SUBSET Tasks
      PROVE  TypeOK'
  <2>1. BackendsTypeOK' /\ GatewayTypeOK'
    <3>1. UNCHANGED <<storeVars, repoVars, topicVars>> /\ faults' \in 0 .. MaxFaults
        BY <1>0, <1>1 DEF backendVars, TypeOK, BackendsTypeOK
    <3> QED
        BY <1>0, <1>1, <3>1, NoCallType DEF TypeOK, GatewayTypeOK, gatewayVars
  <2>2. UNCHANGED <<over, disordered, streaming, read, got, answer, recorded>>
      BY <1>1 DEF readVars, orderVars
  <2> QED
      BY <1>0, <1>1, <2>1, <2>2 DEF TypeOK
<1>2. ASSUME NEW t \in Tasks, Post(t) \/ Submit(t) \/ BulkRecv(t) PROVE IInv'
  <2>1. Serves(t) /\ UNCHANGED <<orderVars, server, readVars>>
      BY <1>2, Zenon DEF Post, Submit, BulkRecv, Serves, Submitting
  <2>2. UNCHANGED bulkVars \/ BulkRecv(t)
      BY <1>2, Zenon DEF Post, Submit
  <2> QED
      BY <2>1, <2>2, ServesStep
<1>3. ASSUME NEW c \in Clients,
             Poll(c) \/ GetTaskStatus(c) \/ StreamOpen(c) \/ StreamTick(c) \/ StreamGone(c)
      PROVE  IInv'
    BY <1>3, ReadsStep DEF Reads
<1>4. CASE BulkOpen \/ BulkEnd
  <2>1. /\ UNCHANGED <<backendVars, gatewayVars, orderVars, readVars>>
        /\ UNCHANGED <<server, bulkTask, bulkReqs, bulkIDs, bulkFailed>>
      BY <1>4, Zenon DEF BulkOpen, BulkEnd, Submitting
  <2>2. bulk' \in {"open", "answered", "broken"} /\ (bulk' = "answered" => bulkTask = None)
    <3>1. CASE BulkOpen
        BY <3>1 DEF BulkOpen
    <3>2. CASE BulkEnd
        BY <3>2 DEF BulkEnd, Receiving
    <3> QED
        BY <1>4, <3>1, <3>2
  <2>3. TypeOK'
      BY <1>0, <1>1, <2>1, <2>2, ZenonT(30) DEF TypeOK
  <2>4. BulkInv'
      BY <1>0, <2>1, <2>2 DEF BulkInv, gatewayVars
  <2> QED
      BY <2>1, <2>3, <2>4, ServerStep
<1>5. CASE BulkNext
  <2>1. UNCHANGED <<backendVars, gatewayVars, orderVars, readVars>>
      BY <1>5, Zenon DEF BulkNext, Submitting
  <2>2. BulkInv'
      BY <1>0, <1>5, BulkNextOK
  <2>3. /\ server' = server /\ bulk' = bulk /\ bulkTask' = None /\ bulkReqs' = bulkReqs
        /\ bulkIDs' \in SUBSET Tasks /\ bulkFailed' \in Nat
      BY <1>0, <1>5 DEF BulkNext, BulkCount, Submitting, TypeOK
  <2>4. TypeOK'
      BY <1>0, <1>1, <2>1, <2>3, ZenonT(30) DEF TypeOK
  <2> QED
      BY <2>1, <2>2, <2>4, ServerStep
<1>6. CASE Quit \/ GracefulStop \/ Shutdown \/ UNCHANGED vars
  <2>1. /\ UNCHANGED <<backendVars, gatewayVars, orderVars, readVars>>
        /\ UNCHANGED <<bulk, bulkTask, bulkReqs, bulkIDs, bulkFailed>>
      BY <1>6, Zenon DEF Quit, GracefulStop, Shutdown, vars, bulkVars
  <2>2. server' \in {"serving", "grpcStop", "httpStop", "exited"}
      BY <1>0, <1>6 DEF Quit, GracefulStop, Shutdown, vars, TypeOK
  <2>3. TypeOK'
      BY <1>0, <1>1, <2>1, <2>2, ZenonT(30) DEF TypeOK
  <2>4. BulkInv'
      BY <1>0, <2>1 DEF BulkInv, gatewayVars
  <2> QED
      BY <2>1, <2>3, <2>4, ServerStep
<1>7. CASE Pipeline
    BY <1>7, PipelineStep
<1> QED
    BY <1>2, <1>3, <1>4, <1>5, <1>6, <1>7, Zenon DEF Next

-----------------------------------------------------------------------------
(* The theorems *)

\* Whatever the pipeline and the clients do, and however calls fail, a task is
\* in tasks.pending before it is accepted, the histories tell of every record that
\* is final and of every contradiction, and what a read or a stream of requests
\* holds fits them.
THEOREM Invariance == Spec => []IInv
    BY InitInv, InvStep, PTL DEF Spec

\* GetTaskStatus combines reads made at different times, while dispatchers and
\* workers write in any order and keys expire.  A task that is answered with
\* completed_at, or whose row was completed before the read began, is answered
\* with a terminal status, unless its records contradicted each other.
THEOREM AnswersFollowTheRecords == Spec => []AnswersGoBackOnlyWithRecords
<1>1. IInv => AnswersGoBackOnlyWithRecords
    BY DEF IInv
<1> QED
    BY <1>1, Invariance, PTL

\* GetTaskStatus answers not found for an accepted task only when SubmitTask went
\* on after Create had failed.
THEOREM NotFoundMeansNoRow == Spec => []NotFoundIsExplained
<1>1. IInv => NotFoundIsExplained
    BY DEF IInv
<1> QED
    BY <1>1, Invariance, PTL

\* BulkSubmitTasks reports every request of its stream once, and on its side,
\* however long the stream is and wherever in it a call failed.
THEOREM BulkAnswersAreTrue == Spec => []BulkAnswerIsTrue
<1>1. IInv => BulkAnswerIsTrue
  <2> SUFFICES ASSUME IInv, bulk = "answered"
               PROVE /\ bulkIDs = {t \in bulkReqs : request[t] = "accepted"}
                     /\ \A t \in bulkIDs : InPending(t)
                     /\ bulkFailed = Cardinality({t \in bulkReqs : request[t] = "refused"})
      BY DEF BulkAnswerIsTrue
  <2>1. TypeOK /\ SubmitInv /\ BulkInv
      BY DEF IInv
  <2>2. Done = bulkReqs
      BY <2>1, GatewayServerAssumption, ZenonT(30) DEF BulkInv, Done, TypeOK
  <2>3. /\ bulkIDs = {t \in Done : request[t] = "accepted"}
        /\ bulkFailed = Cardinality({t \in Done : request[t] = "refused"})
      BY <2>1, Zenon DEF BulkInv, Done
  <2>4. \A t \in bulkIDs : InPending(t)
      BY <2>1, <2>2, <2>3 DEF SubmitInv, TypeOK
  <2> QED
      BY <2>2, <2>3, <2>4
<1> QED
    BY <1>1, Invariance, PTL

=============================================================================
