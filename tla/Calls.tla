------------------------------- MODULE Calls -------------------------------
(***************************************************************************)
(* How a call to Redis, PostgreSQL or Kafka may end, for all services.     *)
(***************************************************************************)
EXTENDS Integers

CONSTANT MaxFaults   \* bound: calls that fail under a live context

ASSUME CallsAssumption == MaxFaults \in Nat

VARIABLE faults      \* how much of MaxFaults is used

\* A call made under a context that is still live may succeed, or fail at the
\* expense of a fault; under a context that is done it fails.
Succeeds(live) ==
    /\ live
    /\ UNCHANGED faults

Fails(live) ==
    IF live
    THEN faults < MaxFaults /\ faults' = faults + 1
    ELSE UNCHANGED faults

\* How a Publish ends: with nil and the message written, or with an error and
\* the message written or not.
Publish(live, ok, written) ==
    \/ ok /\ written /\ Succeeds(live)
    \/ ~ok /\ Fails(live)

=============================================================================
