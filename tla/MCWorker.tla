------------------------------ MODULE MCWorker ------------------------------
(* WorkerAlone for TLC: e1 is a task of the workers' type, x is a task of a type
   without a handler that was published to their topic. *)
EXTENDS WorkerAlone, TLC

CONSTANTS e1, x, email, other, p1

OneTask == {e1}
MixedTasks == {e1, x}
MCTypeOf == [t \in Tasks |-> IF t = x THEN other ELSE email]
MCPartitionOf == [t \in Tasks |-> p1]

Symmetry == Permutations(Workers)

=============================================================================
