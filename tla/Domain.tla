------------------------------- MODULE Domain -------------------------------
(***************************************************************************)
(* internal/domain/task.go, and what the services share about tasks.       *)
(***************************************************************************)
EXTENDS Calls, Sequences

CONSTANTS
    Tasks,        \* task IDs
    Malformed,    \* a message body that does not decode to a task
    Types,        \* task types that have a worker topic
    NoType,       \* the empty task type
    TypeOf,       \* TypeOf[t]: the type of task t
    Partitions,   \* the partitions of each topic
    PartitionOf,  \* PartitionOf[t]: where the hash of the task ID puts t
    NotFound,     \* what a read returns when there is no such key or row
    Failed,       \* what a read returns when it fails
    None          \* no owner of a partition, no message in a consumer's hands

Bodies == Tasks \cup {Malformed}

Statuses == {"PENDING", "QUEUED", "RUNNING", "DONE", "FAILED", "RETRYING", "DEAD"}

IsTerminal(s) == s \in {"DONE", "DEAD", "FAILED"}

\* The fields of domain.Task that change after a task is submitted; completed
\* is whether completed_at is set.
TaskData == [status : Statuses, attempts : Nat, completed : BOOLEAN]

\* A task as it is submitted.
NewTask == [status |-> "PENDING", attempts |-> 0, completed |-> FALSE]

ASSUME DomainAssumption ==
    /\ Malformed \notin Tasks
    /\ NoType \notin Types
    /\ TypeOf \in [Tasks -> Types \cup {NoType}]
    /\ PartitionOf \in [Tasks -> Partitions]
    /\ NotFound \notin TaskData \cup Statuses \cup {Failed}
    /\ Failed \notin TaskData \cup Statuses
    /\ None \notin [partition : Partitions, offset : Nat]

=============================================================================
