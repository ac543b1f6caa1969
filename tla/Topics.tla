------------------------------- MODULE Topics -------------------------------
(***************************************************************************)
(* internal/kafka/producer.go and the topics it writes.  The hash balancer *)
(* puts all messages of a task in the same partition.  A publish that      *)
(* reports an error may have been written.  Topics are append-only logs;   *)
(* of the dead-letter topic only the set of messages matters.              *)
(***************************************************************************)
EXTENDS Domain

CONSTANT MaxLog   \* bound: messages in one partition of a topic

ASSUME TopicsAssumption == MaxLog \in Nat

VARIABLES
    pending,   \* pending[p]: tasks.pending
    work,      \* work[ty][p]: tasks.worker.<ty>
    dlq        \* the messages of tasks.dlq

topicVars == <<pending, work, dlq>>

TopicsTypeOK ==
    /\ pending \in [Partitions -> Seq(Bodies)]
    /\ work \in [Types -> [Partitions -> Seq(Bodies)]]
    /\ dlq \in SUBSET Bodies

PublishPending(live, t, ok) ==
    /\ Len(pending[PartitionOf[t]]) < MaxLog
    /\ \E written \in BOOLEAN :
          /\ Publish(live, ok, written)
          /\ pending' = IF written
                        THEN [pending EXCEPT ![PartitionOf[t]] = Append(@, t)]
                        ELSE pending

PublishWork(live, ty, t, ok) ==
    /\ Len(work[ty][PartitionOf[t]]) < MaxLog
    /\ \E written \in BOOLEAN :
          /\ Publish(live, ok, written)
          /\ work' = IF written
                     THEN [work EXCEPT ![ty][PartitionOf[t]] = Append(@, t)]
                     ELSE work

PublishDLQ(live, m, ok) ==
    \E written \in BOOLEAN :
        /\ Publish(live, ok, written)
        /\ dlq' = IF written THEN dlq \cup {m} ELSE dlq

=============================================================================
