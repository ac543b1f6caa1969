----------------------------- MODULE Repository -----------------------------
(***************************************************************************)
(* internal/postgres/repository.go: the audit trail.  A task has at most   *)
(* one row, execution records refer to it by a foreign key, and an update  *)
(* of a row that does not exist changes nothing and reports no error.      *)
(***************************************************************************)
EXTENDS Domain

VARIABLES
    row,         \* row[t]: the row of task t, or NotFound
    executions   \* executions[t]: the rows of task_executions for t, oldest first

repoVars == <<row, executions>>

Executions == [status : Statuses, attempt : Nat]

RepoTypeOK ==
    /\ row \in [Tasks -> TaskData \cup {NotFound}]
    /\ executions \in [Tasks -> Seq(Executions)]

\* Create inserts the row of a new task; ok is whether it returned nil.
Create(live, t, ok) ==
    \/ /\ ok
       /\ Succeeds(live)
       /\ row' = [row EXCEPT ![t] = NewTask]
    \/ /\ ~ok
       /\ Fails(live)
       /\ \/ UNCHANGED row
          \/ live /\ row' = [row EXCEPT ![t] = NewTask]

\* GetByID returns r: the row, NotFound, or Failed.
GetByID(live, t, r) ==
    \/ Succeeds(live) /\ r = row[t]
    \/ Fails(live) /\ r = Failed

\* UpdateStatus writes status and completed_at, and leaves attempts alone.
UpdatedRow(r, s) ==
    IF r = NotFound THEN r
    ELSE [status |-> s, attempts |-> r.attempts, completed |-> IsTerminal(s)]

UpdateStatus(live, t, s, ok) ==
    \/ /\ ok
       /\ Succeeds(live)
       /\ row' = [row EXCEPT ![t] = UpdatedRow(@, s)]
    \/ /\ ~ok
       /\ Fails(live)
       /\ \/ UNCHANGED row
          \/ live /\ row' = [row EXCEPT ![t] = UpdatedRow(@, s)]

\* RecordExecution; the foreign key refuses a task without a row.
RecordExecution(live, t, e, ok) ==
    \/ /\ ok
       /\ row[t] # NotFound
       /\ Succeeds(live)
       /\ executions' = [executions EXCEPT ![t] = Append(@, e)]
    \/ /\ ~ok
       /\ row[t] # NotFound
       /\ Fails(live)
       /\ \/ UNCHANGED executions
          \/ live /\ executions' = [executions EXCEPT ![t] = Append(@, e)]
    \/ /\ ~ok
       /\ row[t] = NotFound
       /\ UNCHANGED <<executions, faults>>

=============================================================================
