--------------------------- MODULE KafkaConsumer ---------------------------
(***************************************************************************)
(* internal/kafka/consumer.go: the Subscribe loop that the dispatcher and  *)
(* the workers run, several of them in one consumer group.                 *)
(*                                                                         *)
(* Each consumer fetches a message, calls the handler, and commits the     *)
(* offset when the handler returned nil; after an error it goes on to the  *)
(* next message without committing.  The reader underneath (kafka-go) is   *)
(* external and modelled from how Subscribe uses it: a commit of offset o  *)
(* stores o + 1 for the whole partition, and after a rebalance every       *)
(* partition is read again from the stored offset, whoever owns it.        *)
(* A consumer whose partition was taken away while its handler ran still   *)
(* finishes the handler and still commits.                                 *)
(***************************************************************************)
EXTENDS Integers

CONSTANTS
    Consumers,       \* the processes of the group
    Partitions,      \* the partitions of the topic
    None,            \* no owner, no message
    MaxOffset,       \* bound: messages appended to one partition
    Kinds,           \* the kinds of disruption that may happen
    MaxDisruptions   \* bound: how many of them happen

ASSUME ConsumerAssumption ==
    /\ None \notin Consumers
    /\ None \notin [partition : Partitions, offset : Nat]
    /\ MaxOffset \in Nat
    /\ Kinds \subseteq {"crash", "signal", "fetch", "rebalance"}
    /\ MaxDisruptions \in Nat

VARIABLES
    end,         \* end[p]: number of messages in partition p
    committed,   \* committed[p]: the offset stored for the group
    owner,       \* owner[p]: the consumer whose reader fetches p, or None
    position,    \* position[p]: the next offset the owner's reader returns
    phase,       \* phase[c]: where c is in the loop of Subscribe
    inflight,    \* inflight[c]: the message c is handling or committing
    cancelled,   \* cancelled[c]: the context given to Subscribe is done
    accepted,    \* history: offsets for which a handler call returned nil
    rejected,    \* history: offsets for which a handler call returned an error
    disruptions  \* how much of MaxDisruptions is used

groupVars == <<committed, owner, position>>
loopVars == <<phase, inflight, cancelled>>
historyVars == <<accepted, rejected>>
vars == <<end, groupVars, loopVars, historyVars, disruptions>>

Phases == {"fetch", "handle", "commit", "stopped"}
Messages == [partition : Partitions, offset : Nat]

Handled(p) == accepted[p] \cup rejected[p]
Running == {c \in Consumers : phase[c] # "stopped"}

TypeOK ==
    /\ end \in [Partitions -> Nat]
    /\ committed \in [Partitions -> Nat]
    /\ owner \in [Partitions -> Consumers \cup {None}]
    /\ position \in [Partitions -> Nat]
    /\ phase \in [Consumers -> Phases]
    /\ inflight \in [Consumers -> Messages \cup {None}]
    /\ cancelled \in [Consumers -> BOOLEAN]
    /\ accepted \in [Partitions -> SUBSET Nat]
    /\ rejected \in [Partitions -> SUBSET Nat]
    /\ disruptions \in 0 .. MaxDisruptions

-----------------------------------------------------------------------------
(* NewConsumer: StartOffset is FirstOffset, so a new group starts at 0, and
   every consumer starts in the loop without a partition. *)
Init ==
    /\ end = [p \in Partitions |-> 0]
    /\ committed = [p \in Partitions |-> 0]
    /\ owner = [p \in Partitions |-> None]
    /\ position = [p \in Partitions |-> 0]
    /\ phase = [c \in Consumers |-> "fetch"]
    /\ inflight = [c \in Consumers |-> None]
    /\ cancelled = [c \in Consumers |-> FALSE]
    /\ accepted = [p \in Partitions |-> {}]
    /\ rejected = [p \in Partitions |-> {}]
    /\ disruptions = 0

Disrupt(kind) ==
    /\ kind \in Kinds
    /\ disruptions < MaxDisruptions
    /\ disruptions' = disruptions + 1

\* A producer appends a message to p.
Produce(p) ==
    /\ end[p] < MaxOffset
    /\ end' = [end EXCEPT ![p] = @ + 1]
    /\ UNCHANGED <<groupVars, loopVars, historyVars, disruptions>>

\* Mutant: a reader that commits what it returns (ReadMessage instead of
\* FetchMessage).
FetchMessageAndCommit(c, p) ==
    /\ phase[c] = "fetch"
    /\ owner[p] = c
    /\ position[p] < end[p]
    /\ inflight' = [inflight EXCEPT ![c] = [partition |-> p, offset |-> position[p]]]
    /\ phase' = [phase EXCEPT ![c] = "handle"]
    /\ position' = [position EXCEPT ![p] = @ + 1]
    /\ committed' = [committed EXCEPT ![p] = position[p] + 1]
    /\ UNCHANGED <<end, owner, cancelled, historyVars, disruptions>>

\* FetchMessage returns a message.  A done context does not exclude it: the
\* reader selects between the context and the messages it has buffered.
FetchMessage(c, p) ==
    /\ phase[c] = "fetch"
    /\ owner[p] = c
    /\ position[p] < end[p]
    /\ inflight' = [inflight EXCEPT ![c] = [partition |-> p, offset |-> position[p]]]
    /\ phase' = [phase EXCEPT ![c] = "handle"]
    /\ position' = [position EXCEPT ![p] = @ + 1]
    /\ UNCHANGED <<end, committed, owner, cancelled, historyVars, disruptions>>

\* handler(msgCtx, msg) returns nil; the commit is still to come.
HandlerReturnsNil(c) ==
    /\ phase[c] = "handle"
    /\ phase' = [phase EXCEPT ![c] = "commit"]
    /\ accepted' = [accepted EXCEPT ![inflight[c].partition] = @ \cup {inflight[c].offset}]
    /\ UNCHANGED <<end, groupVars, inflight, cancelled, rejected, disruptions>>

\* Mutant: the error is logged and the message committed all the same.
HandlerErrorIsCommitted(c) ==
    /\ phase[c] = "handle"
    /\ phase' = [phase EXCEPT ![c] = "commit"]
    /\ rejected' = [rejected EXCEPT ![inflight[c].partition] = @ \cup {inflight[c].offset}]
    /\ UNCHANGED <<end, groupVars, inflight, cancelled, accepted, disruptions>>

\* handler(msgCtx, msg) returns an error: log and continue with the next
\* message, the reader's position stays where it is.
HandlerReturnsError(c) ==
    /\ phase[c] = "handle"
    /\ phase' = [phase EXCEPT ![c] = "fetch"]
    /\ inflight' = [inflight EXCEPT ![c] = None]
    /\ rejected' = [rejected EXCEPT ![inflight[c].partition] = @ \cup {inflight[c].offset}]
    /\ UNCHANGED <<end, groupVars, cancelled, accepted, disruptions>>

\* Mutant: the offset after the message is given to a call that adds one itself.
CommitOneAhead(c) ==
    /\ phase[c] = "commit"
    /\ phase' = [phase EXCEPT ![c] = "fetch"]
    /\ inflight' = [inflight EXCEPT ![c] = None]
    /\ committed' = [committed EXCEPT ![inflight[c].partition] = inflight[c].offset + 2]
    /\ UNCHANGED <<end, owner, position, cancelled, historyVars, disruptions>>

\* CommitMessages stores the offset after the message.  It runs on a context
\* of its own, and the group may have given the partition away meanwhile.
CommitMessages(c) ==
    /\ phase[c] = "commit"
    /\ phase' = [phase EXCEPT ![c] = "fetch"]
    /\ inflight' = [inflight EXCEPT ![c] = None]
    /\ committed' = [committed EXCEPT ![inflight[c].partition] = inflight[c].offset + 1]
    /\ UNCHANGED <<end, owner, position, cancelled, historyVars, disruptions>>

\* CommitMessages returns an error, which is only logged, and nothing was stored;
\* a commit that was stored before it failed is like one that succeeds.
CommitFails(c) ==
    /\ phase[c] = "commit"
    /\ phase' = [phase EXCEPT ![c] = "fetch"]
    /\ inflight' = [inflight EXCEPT ![c] = None]
    /\ UNCHANGED <<end, groupVars, cancelled, historyVars, disruptions>>

\* Mutant: the process that ends keeps its partitions for when it is back.
LeaveKeepingPartitions(c) ==
    /\ phase' = [phase EXCEPT ![c] = "stopped"]
    /\ inflight' = [inflight EXCEPT ![c] = None]
    /\ UNCHANGED <<end, groupVars, cancelled, historyVars>>

\* The process ends: its reader fetches nothing any more.
Leave(c) ==
    /\ phase' = [phase EXCEPT ![c] = "stopped"]
    /\ inflight' = [inflight EXCEPT ![c] = None]
    /\ owner' = [p \in Partitions |-> IF owner[p] = c THEN None ELSE owner[p]]
    /\ UNCHANGED <<end, committed, position, cancelled, historyVars>>

\* The signal handler cancels the context of Subscribe.
Shutdown(c) ==
    /\ phase[c] # "stopped"
    /\ ~cancelled[c]
    /\ cancelled' = [cancelled EXCEPT ![c] = TRUE]
    /\ Disrupt("signal")
    /\ UNCHANGED <<end, groupVars, phase, inflight, historyVars>>

\* FetchMessage returns the error of the done context: Subscribe returns nil,
\* the reader is closed and the process exits.
SubscribeReturnsNil(c) ==
    /\ phase[c] = "fetch"
    /\ cancelled[c]
    /\ Leave(c)
    /\ UNCHANGED disruptions

\* FetchMessage fails for another reason: Subscribe returns the error and the
\* process exits.
SubscribeReturnsError(c) ==
    /\ phase[c] = "fetch"
    /\ ~cancelled[c]
    /\ Leave(c)
    /\ Disrupt("fetch")

\* The process is killed, in the middle of a handler call or before a commit.
Crash(c) ==
    /\ phase[c] # "stopped"
    /\ Leave(c)
    /\ Disrupt("crash")

\* The deployment starts the process again.
Restart(c) ==
    /\ phase[c] = "stopped"
    /\ phase' = [phase EXCEPT ![c] = "fetch"]
    /\ cancelled' = [cancelled EXCEPT ![c] = FALSE]
    /\ UNCHANGED <<end, groupVars, inflight, historyVars, disruptions>>

\* The group assigns every partition to a running consumer, and the readers
\* start from the stored offsets.
Assign ==
    /\ owner' \in [Partitions -> Running]
    /\ position' = committed
    /\ UNCHANGED <<end, committed, loopVars, historyVars>>

\* A partition nobody reads makes the group rebalance ...
Rebalance ==
    /\ \E p \in Partitions : owner[p] = None
    /\ Assign
    /\ UNCHANGED disruptions

\* ... and so may a member that joins or that missed its heartbeats.
SpontaneousRebalance ==
    /\ \A p \in Partitions : owner[p] # None
    /\ Assign
    /\ Disrupt("rebalance")

\* One turn of the loop in Subscribe, whatever the calls return.
SubscribeStep(c) ==
    \/ \E p \in Partitions : FetchMessage(c, p)
    \/ HandlerReturnsNil(c)
    \/ HandlerReturnsError(c)
    \/ CommitMessages(c)
    \/ CommitFails(c)

Next ==
    \/ \E p \in Partitions : Produce(p)
    \/ \E c \in Consumers :
          \/ SubscribeStep(c)
          \/ Shutdown(c)
          \/ SubscribeReturnsNil(c)
          \/ SubscribeReturnsError(c)
          \/ Crash(c)
          \/ Restart(c)
    \/ Rebalance
    \/ SpontaneousRebalance

Spec == Init /\ [][Next]_vars

\* The loop keeps running, handlers return (they run under a timeout), stopped
\* processes are restarted and the group coordinator reassigns partitions.
Fairness ==
    /\ \A c \in Consumers :
          /\ WF_vars(SubscribeStep(c) \/ SubscribeReturnsNil(c))
          /\ WF_vars(Restart(c))
    /\ WF_vars(Rebalance)

FairSpec == Spec /\ Fairness

-----------------------------------------------------------------------------
(* Properties *)

\* At-least-once, the comment on Subscribe: "Offsets are committed only after
\* the handler returns nil".  Whatever crashes, rebalances and late commits
\* happen, the group never resumes after a message no handler call has seen.
CommittedWasHandled ==
    \A p \in Partitions : \A o \in 0 .. committed[p] - 1 : o \in Handled(p)

\* The group never resumes right after a message whose handler only failed.
ResumesAfterSuccess ==
    \A p \in Partitions : committed[p] > 0 => committed[p] - 1 \in accepted[p]

\* Every message of the topic is handed to the handler and the call returns,
\* although consumers crash, are stopped and lose their partitions.
EveryMessageHandled ==
    \A p \in Partitions : \A o \in 0 .. MaxOffset - 1 :
        o < end[p] ~> o \in Handled(p)

\* The loop implements the promise of AtLeastOnce.
Promise == INSTANCE AtLeastOnce WITH
    handled <- [p \in Partitions |-> Handled(p)],
    mark <- committed

\* Subscribe refines the at-least-once promise the services are built on.
ImplementsAtLeastOnce == Promise!Spec

-----------------------------------------------------------------------------
(* The strengthening of CommittedWasHandled that every step preserves. *)

\* The message c is working on.
At(c, p, o) == inflight[c] = [partition |-> p, offset |-> o]

\* A consumer holds a message exactly while it handles or commits it, and when
\* it commits the handler has returned nil.
LoopInv ==
    \A c \in Consumers :
        /\ phase[c] \in {"fetch", "stopped"} <=> inflight[c] = None
        /\ phase[c] = "commit" =>
              inflight[c].offset \in accepted[inflight[c].partition]

\* Everything before the message in a consumer's hands has been handled.
InflightInv ==
    \A c \in Consumers : inflight[c] # None =>
        /\ inflight[c].offset < end[inflight[c].partition]
        /\ \A o \in 0 .. inflight[c].offset - 1 : o \in Handled(inflight[c].partition)

\* Everything a reader has gone past has been handled, or is the message its
\* owner is working on.
PositionInv ==
    \A p \in Partitions :
        /\ position[p] <= end[p]
        /\ owner[p] # None =>
              /\ phase[owner[p]] # "stopped"
              /\ \A o \in 0 .. position[p] - 1 : o \in Handled(p) \/ At(owner[p], p, o)

\* Everything before the stored offset has been handled, the last of it with
\* success.
CommittedInv ==
    /\ \A p \in Partitions : committed[p] <= end[p]
    /\ CommittedWasHandled
    /\ ResumesAfterSuccess

\* The inductive invariant: what the readers, the consumers and the group have
\* gone past is handled, at every point of the loop, so that no order of late
\* commits, crashes and rebalances can store an offset beyond unseen messages.
IInv == TypeOK /\ LoopInv /\ InflightInv /\ PositionInv /\ CommittedInv

=============================================================================
