----------------------------- MODULE MCTaskFlow -----------------------------
(* TaskFlow for TLC: e1 is a task of the workers' type, n has no type. *)
EXTENDS TaskFlow, TLC

CONSTANTS e1, n, email, other, p1

OneTask == {e1}
ForeignTasks == {e1, n}
SomeForeigners == {Malformed, n}
MCTypeOf == [t \in Tasks |-> IF t = n THEN NoType ELSE email]
MCPartitionOf == [t \in Tasks |-> p1]

Symmetry == Permutations(Workers) \cup Permutations(Dispatchers)

=============================================================================
