----------------------------- MODULE StateStore -----------------------------
(***************************************************************************)
(* internal/redis/state_store.go: the live status and the metadata of each *)
(* task, under two keys that are written one at a time and expire          *)
(* stateTTL, 24 hours, after their last write.  A write that reports an    *)
(* error may have reached Redis, unless the context was done before the    *)
(* call.                                                                   *)
(***************************************************************************)
EXTENDS Domain

CONSTANT KeysExpire   \* whether stateTTL can pass between two steps

ASSUME StoreAssumption == KeysExpire \in BOOLEAN

VARIABLES
    status,   \* status[t]: the value of key task:state:t, or NotFound
    meta      \* meta[t]: the fields of task:meta:t that change, or NotFound

storeVars == <<status, meta>>

StoreTypeOK ==
    /\ status \in [Tasks -> Statuses \cup {NotFound}]
    /\ meta \in [Tasks -> TaskData \cup {NotFound}]

\* SetStatus; ok is whether it returned nil.
SetStatus(live, t, s, ok) ==
    \/ /\ ok
       /\ Succeeds(live)
       /\ status' = [status EXCEPT ![t] = s]
    \/ /\ ~ok
       /\ Fails(live)
       /\ \/ UNCHANGED status
          \/ live /\ status' = [status EXCEPT ![t] = s]

\* stateTTL has passed since the last write of one of the two keys of t.
Expire(t) ==
    /\ KeysExpire
    /\ \/ /\ status[t] # NotFound
          /\ status' = [status EXCEPT ![t] = NotFound]
          /\ UNCHANGED meta
       \/ /\ meta[t] # NotFound
          /\ meta' = [meta EXCEPT ![t] = NotFound]
          /\ UNCHANGED status

\* GetStatus returns s: a status, NotFound, or Failed.
GetStatus(live, t, s) ==
    \/ Succeeds(live) /\ s = status[t]
    \/ Fails(live) /\ s = Failed

\* SetTaskMeta; ok is whether it returned nil.
SetTaskMeta(live, t, m, ok) ==
    \/ /\ ok
       /\ Succeeds(live)
       /\ meta' = [meta EXCEPT ![t] = m]
    \/ /\ ~ok
       /\ Fails(live)
       /\ \/ UNCHANGED meta
          \/ live /\ meta' = [meta EXCEPT ![t] = m]

\* GetTaskMeta returns m: the metadata, NotFound, or Failed.
GetTaskMeta(live, t, m) ==
    \/ Succeeds(live) /\ m = meta[t]
    \/ Fails(live) /\ m = Failed

=============================================================================
