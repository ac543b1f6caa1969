---------------------------- MODULE TaskRecords ----------------------------
(***************************************************************************)
(* What the dispatchers and the workers write about a task, one record at  *)
(* a time.  Nothing orders the writes: a call may fail and the next one go *)
(* through, a message may be delivered again, and a second worker or a     *)
(* dispatcher that was overtaken may write in between.                     *)
(***************************************************************************)
EXTENDS StateStore, Repository

CONSTANTS
    Reports,    \* the statuses they write to the live status
    Outcomes,   \* the statuses they write to the metadata and the row
    Counts      \* the numbers of attempts they record

ASSUME RecordsAssumption ==
    /\ Reports \subseteq {"QUEUED", "RUNNING", "RETRYING", "DONE", "DEAD"}
    /\ Outcomes \subseteq {"DONE", "DEAD"}
    /\ Counts \subseteq Nat

recordVars == <<status, meta, row>>

\* The live status: QUEUED by route, the others by processMessage.
Report(t, s) ==
    /\ s \in Reports
    /\ status' = [status EXCEPT ![t] = s]
    /\ UNCHANGED <<meta, row>>

\* The metadata, by finishSuccess and finishFailure; only the first one sets
\* completed_at.
Conclude(t, s, n) ==
    /\ s \in Outcomes
    /\ meta' = [meta EXCEPT ![t] = [status |-> s, attempts |-> n, completed |-> s = "DONE"]]
    /\ UNCHANGED <<status, row>>

\* The row, by the same two.
Close(t, s) ==
    /\ s \in Outcomes
    /\ row' = [row EXCEPT ![t] = UpdatedRow(@, s)]
    /\ UNCHANGED <<status, meta>>

RecordStep(t) ==
    \E s \in Statuses :
        \/ Report(t, s)
        \/ \E n \in Counts : Conclude(t, s, n)
        \/ Close(t, s)

=============================================================================
