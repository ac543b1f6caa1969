--------------------------- MODULE TaskLifecycle ---------------------------
(***************************************************************************)
(* The order in which the records of a task become final when every        *)
(* message is delivered to one worker, no signal and no failing call       *)
(* interrupts it and no key expires: the status in Redis moves on until it *)
(* is terminal, the metadata is completed after that, and the row in       *)
(* PostgreSQL after the metadata.                                          *)
(***************************************************************************)
EXTENDS TaskRecords

\* The status of a task that is not over changes.
Advance(t, s) ==
    /\ ~IsTerminal(status[t])
    /\ Report(t, s)

\* The metadata of a task that is over is completed.
FinalMeta(t, s, n) ==
    /\ status[t] = s
    /\ Conclude(t, s, n)

\* The row follows, if there is one.
FinalRow(t, s) ==
    /\ meta[t] # NotFound /\ meta[t].status = s
    /\ Close(t, s)

LifeNext ==
    \E t \in Tasks, s \in Statuses :
        \/ Advance(t, s)
        \/ \E n \in Counts : FinalMeta(t, s, n)
        \/ FinalRow(t, s)

\* Submitted by the gateway, whose insert of the row may have failed, or by the
\* scheduler, which writes neither Redis nor PostgreSQL.
LifeInit ==
    \A t \in Tasks :
        \/ status[t] = "PENDING" /\ meta[t] = NewTask /\ row[t] \in {NewTask, NotFound}
        \/ status[t] = NotFound /\ meta[t] = NotFound /\ row[t] = NotFound

LifeSpec == LifeInit /\ [][LifeNext]_recordVars

=============================================================================
