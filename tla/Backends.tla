------------------------------ MODULE Backends ------------------------------
(***************************************************************************)
(* The stores and topics the services share: Redis, PostgreSQL and Kafka.  *)
(* The services have no other state in common.                             *)
(***************************************************************************)
EXTENDS StateStore, Repository, Topics

backendVars == <<storeVars, repoVars, topicVars, faults>>

BackendsTypeOK ==
    /\ StoreTypeOK
    /\ RepoTypeOK
    /\ TopicsTypeOK
    /\ faults \in 0 .. MaxFaults

\* Nothing has been submitted.
BackendsInit ==
    /\ status = [t \in Tasks |-> NotFound]
    /\ meta = [t \in Tasks |-> NotFound]
    /\ row = [t \in Tasks |-> NotFound]
    /\ executions = [t \in Tasks |-> <<>>]
    /\ pending = [p \in Partitions |-> <<>>]
    /\ work = [ty \in Types |-> [p \in Partitions |-> <<>>]]
    /\ dlq = {}
    /\ faults = 0

\* A key of Redis expires.
Expiry ==
    /\ \E t \in Tasks : Expire(t)
    /\ UNCHANGED <<repoVars, topicVars, faults>>

=============================================================================
