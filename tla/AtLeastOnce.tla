---------------------------- MODULE AtLeastOnce ----------------------------
(***************************************************************************)
(* What the consumer of internal/kafka promises to the services built on   *)
(* it, without saying how: messages are appended to partitions, any        *)
(* message may be handed to the handler, again and in any order, and the   *)
(* mark a restarted group resumes from never passes a message that no      *)
(* handler call has seen.                                                  *)
(***************************************************************************)
EXTENDS Integers

CONSTANT Partitions

VARIABLES
    end,      \* end[p]: number of messages appended to partition p
    handled,  \* handled[p]: the offsets for which a handler call has returned
    mark      \* mark[p]: the offset a restarted group resumes from

vars == <<end, handled, mark>>

Init ==
    /\ end = [p \in Partitions |-> 0]
    /\ handled = [p \in Partitions |-> {}]
    /\ mark = [p \in Partitions |-> 0]

Append(p) ==
    /\ end' = [end EXCEPT ![p] = @ + 1]
    /\ UNCHANGED <<handled, mark>>

\* A handler call for offset o returns, for the first or a further time.
Handle(p, o) ==
    /\ o < end[p]
    /\ handled' = [handled EXCEPT ![p] = @ \cup {o}]
    /\ UNCHANGED <<end, mark>>

\* The mark moves, backwards too, but only over messages that were handled.
Resume(p, n) ==
    /\ \A o \in 0 .. n - 1 : o \in handled[p]
    /\ mark' = [mark EXCEPT ![p] = n]
    /\ UNCHANGED <<end, handled>>

Next ==
    \E p \in Partitions :
        \/ Append(p)
        \/ \E o \in 0 .. end[p] : Handle(p, o)
        \/ \E n \in 0 .. end[p] : Resume(p, n)

Spec == Init /\ [][Next]_vars

=============================================================================
