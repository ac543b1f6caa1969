------------------------ MODULE KafkaConsumerProofs ------------------------
(***************************************************************************)
(* Proofs about KafkaConsumer, for every group, topic and bound: its type  *)
(* invariant, that the group never resumes after a message no handler call *)
(* has seen, and that the loop implements AtLeastOnce.                     *)
(***************************************************************************)
EXTENDS KafkaConsumer, TLAPS

USE ConsumerAssumption

\* Every step keeps the variables of Subscribe and of the group in their types.
LEMMA TypeStep == TypeOK /\ LoopInv /\ [Next]_vars => TypeOK'
<1> SUFFICES ASSUME TypeOK, LoopInv, [Next]_vars PROVE TypeOK'
    OBVIOUS
<1> USE DEF TypeOK, Phases, Messages, groupVars, loopVars, historyVars
<1>0. ASSUME NEW c \in Consumers, phase[c] \in {"handle", "commit"}
      PROVE inflight[c] \in Messages
    BY <1>0 DEF LoopInv
<1>1. ASSUME NEW p \in Partitions, Produce(p) PROVE TypeOK'
    BY <1>1 DEF Produce
<1>2. ASSUME NEW c \in Consumers, NEW p \in Partitions, FetchMessage(c, p) PROVE TypeOK'
    BY <1>2 DEF FetchMessage
<1>3. ASSUME NEW c \in Consumers, HandlerReturnsNil(c) PROVE TypeOK'
    BY <1>0, <1>3 DEF HandlerReturnsNil
<1>4. ASSUME NEW c \in Consumers, HandlerReturnsError(c) PROVE TypeOK'
    BY <1>0, <1>4 DEF HandlerReturnsError
<1>5. ASSUME NEW c \in Consumers, CommitMessages(c) PROVE TypeOK'
    BY <1>0, <1>5 DEF CommitMessages
<1>6. ASSUME NEW c \in Consumers, CommitFails(c) PROVE TypeOK'
    BY <1>6 DEF CommitFails
<1>7. ASSUME NEW c \in Consumers, Shutdown(c) PROVE TypeOK'
    BY <1>7 DEF Shutdown, Disrupt
<1>8. ASSUME NEW c \in Consumers, SubscribeReturnsNil(c) PROVE TypeOK'
    BY <1>8 DEF SubscribeReturnsNil, Leave
<1>9. ASSUME NEW c \in Consumers, SubscribeReturnsError(c) PROVE TypeOK'
    BY <1>9 DEF SubscribeReturnsError, Leave, Disrupt
<1>10. ASSUME NEW c \in Consumers, Crash(c) PROVE TypeOK'
    BY <1>10 DEF Crash, Leave, Disrupt
<1>11. ASSUME NEW c \in Consumers, Restart(c) PROVE TypeOK'
    BY <1>11 DEF Restart
<1>12. CASE Rebalance
    BY <1>12 DEF Rebalance, Assign, Running
<1>13. CASE SpontaneousRebalance
    BY <1>13 DEF SpontaneousRebalance, Assign, Running, Disrupt
<1>14. CASE UNCHANGED vars
    BY <1>14 DEF vars
<1> QED
    BY <1>1, <1>2, <1>3, <1>4, <1>5, <1>6, <1>7, <1>8, <1>9, <1>10, <1>11, <1>12,
       <1>13, <1>14, ZenonT(30) DEF Next, SubscribeStep


\* Every step keeps what the readers, the consumers and the group have gone
\* past handled.
LEMMA InvStep == IInv /\ [Next]_vars => IInv'
<1> SUFFICES ASSUME IInv, [Next]_vars PROVE IInv'
    OBVIOUS
<1>0. TypeOK /\ TypeOK'
    BY TypeStep DEF IInv
<1> DEFINE Goal == (LoopInv /\ InflightInv /\ PositionInv /\ CommittedInv)'
<1> USE <1>0 DEF IInv, TypeOK, Phases, Messages, groupVars, loopVars, historyVars,
                 Handled, At
<1>1. ASSUME NEW p \in Partitions, Produce(p) PROVE Goal
  <2>1. LoopInv'
    BY <1>1 DEF Produce, LoopInv
  <2>2. InflightInv'
    BY <1>1 DEF Produce, InflightInv
  <2>3. PositionInv'
    BY <1>1 DEF Produce, PositionInv
  <2>4. CommittedInv'
    BY <1>1 DEF Produce, CommittedInv, CommittedWasHandled, ResumesAfterSuccess
  <2> QED BY <2>1, <2>2, <2>3, <2>4
<1>2. ASSUME NEW c \in Consumers, NEW p \in Partitions, FetchMessage(c, p) PROVE Goal
  <2>1. LoopInv'
    BY <1>2 DEF FetchMessage, LoopInv
  <2>2. InflightInv'
    <3>1. c # None /\ inflight[c] = None
      BY <1>2 DEF FetchMessage, LoopInv
    <3>2. \A o \in 0 .. position[p] - 1 : o \in Handled(p)
      <4>1. \A o \in 0 .. position[p] - 1 : ~At(c, p, o)
        BY <3>1
      <4> QED
        BY <1>2, <3>1, <4>1 DEF FetchMessage, PositionInv
    <3>3. inflight'[c].partition = p /\ inflight'[c].offset = position[p]
      BY <1>2 DEF FetchMessage
    <3>4. \A d \in Consumers \ {c} : inflight'[d] = inflight[d]
      BY <1>2 DEF FetchMessage
    <3>5. UNCHANGED <<end, accepted, rejected>> /\ position[p] < end[p]
      BY <1>2 DEF FetchMessage
    <3> QED
      BY <3>2, <3>3, <3>4, <3>5 DEF InflightInv
  <2>3. PositionInv'
    BY <1>2 DEF FetchMessage, PositionInv, LoopInv
  <2>4. CommittedInv'
    BY <1>2 DEF FetchMessage, CommittedInv, CommittedWasHandled, ResumesAfterSuccess
  <2> QED BY <2>1, <2>2, <2>3, <2>4
<1>3. ASSUME NEW c \in Consumers, HandlerReturnsNil(c) PROVE Goal
  <2>1. LoopInv'
    BY <1>3 DEF HandlerReturnsNil, LoopInv
  <2>2. InflightInv'
    BY <1>3 DEF HandlerReturnsNil, InflightInv
  <2>3. PositionInv'
    BY <1>3 DEF HandlerReturnsNil, PositionInv, LoopInv
  <2>4. CommittedInv'
    BY <1>3 DEF HandlerReturnsNil, CommittedInv, CommittedWasHandled, ResumesAfterSuccess
  <2> QED BY <2>1, <2>2, <2>3, <2>4
<1>4. ASSUME NEW c \in Consumers, HandlerReturnsError(c) PROVE Goal
  <2>1. LoopInv'
    BY <1>4 DEF HandlerReturnsError, LoopInv
  <2>2. InflightInv'
    BY <1>4 DEF HandlerReturnsError, InflightInv
  <2>3. PositionInv'
    BY <1>4 DEF HandlerReturnsError, PositionInv, LoopInv
  <2>4. CommittedInv'
    BY <1>4 DEF HandlerReturnsError, CommittedInv, CommittedWasHandled, ResumesAfterSuccess
  <2> QED BY <2>1, <2>2, <2>3, <2>4
<1>5. ASSUME NEW c \in Consumers, CommitMessages(c) PROVE Goal
  <2>1. LoopInv'
    BY <1>5 DEF CommitMessages, LoopInv
  <2>2. InflightInv'
    BY <1>5 DEF CommitMessages, InflightInv
  <2>3. PositionInv'
    BY <1>5 DEF CommitMessages, PositionInv, LoopInv
  <2>4. CommittedInv'
    <3> DEFINE q == inflight[c].partition
               m == inflight[c].offset
    <3>1. q \in Partitions /\ m \in Nat /\ m < end[q] /\ m \in accepted[q]
      BY <1>5 DEF CommitMessages, LoopInv, InflightInv
    <3>2. \A o \in 0 .. m - 1 : o \in Handled(q)
      BY <1>5 DEF CommitMessages, LoopInv, InflightInv
    <3>3. committed' = [committed EXCEPT ![q] = m + 1] /\ UNCHANGED <<end, accepted, rejected>>
      BY <1>5 DEF CommitMessages
    <3> HIDE DEF q, m
    <3>4. \A p \in Partitions : committed'[p] <= end'[p]
      BY <3>1, <3>3 DEF CommittedInv
    <3>5. CommittedWasHandled'
      BY <3>1, <3>2, <3>3 DEF CommittedInv, CommittedWasHandled
    <3>6. ResumesAfterSuccess'
      BY <3>1, <3>3 DEF CommittedInv, ResumesAfterSuccess
    <3> QED
      BY <3>4, <3>5, <3>6 DEF CommittedInv
  <2> QED BY <2>1, <2>2, <2>3, <2>4
<1>6. ASSUME NEW c \in Consumers, CommitFails(c) PROVE Goal
  <2>1. LoopInv'
    BY <1>6 DEF CommitFails, LoopInv
  <2>2. InflightInv'
    BY <1>6 DEF CommitFails, InflightInv
  <2>3. PositionInv'
    BY <1>6 DEF CommitFails, PositionInv, LoopInv
  <2>4. CommittedInv'
    BY <1>6 DEF CommitFails, CommittedInv, CommittedWasHandled, ResumesAfterSuccess
  <2> QED BY <2>1, <2>2, <2>3, <2>4
<1>7. ASSUME NEW c \in Consumers, Shutdown(c) PROVE Goal
  <2>1. LoopInv'
    BY <1>7 DEF Shutdown, LoopInv
  <2>2. InflightInv'
    BY <1>7 DEF Shutdown, InflightInv
  <2>3. PositionInv'
    BY <1>7 DEF Shutdown, PositionInv
  <2>4. CommittedInv'
    BY <1>7 DEF Shutdown, CommittedInv, CommittedWasHandled, ResumesAfterSuccess
  <2> QED BY <2>1, <2>2, <2>3, <2>4
<1>8. ASSUME NEW c \in Consumers, SubscribeReturnsNil(c) PROVE Goal
  <2>1. LoopInv'
    BY <1>8 DEF SubscribeReturnsNil, Leave, LoopInv
  <2>2. InflightInv'
    BY <1>8 DEF SubscribeReturnsNil, Leave, InflightInv
  <2>3. PositionInv'
    BY <1>8 DEF SubscribeReturnsNil, Leave, PositionInv
  <2>4. CommittedInv'
    BY <1>8 DEF SubscribeReturnsNil, Leave, CommittedInv, CommittedWasHandled, ResumesAfterSuccess
  <2> QED BY <2>1, <2>2, <2>3, <2>4
<1>9. ASSUME NEW c \in Consumers, SubscribeReturnsError(c) PROVE Goal
  <2>1. LoopInv'
    BY <1>9 DEF SubscribeReturnsError, Leave, LoopInv
  <2>2. InflightInv'
    BY <1>9 DEF SubscribeReturnsError, Leave, InflightInv
  <2>3. PositionInv'
    BY <1>9 DEF SubscribeReturnsError, Leave, PositionInv
  <2>4. CommittedInv'
    BY <1>9 DEF SubscribeReturnsError, Leave, CommittedInv, CommittedWasHandled, ResumesAfterSuccess
  <2> QED BY <2>1, <2>2, <2>3, <2>4
<1>10. ASSUME NEW c \in Consumers, Crash(c) PROVE Goal
  <2>1. LoopInv'
    BY <1>10 DEF Crash, Leave, LoopInv
  <2>2. InflightInv'
    BY <1>10 DEF Crash, Leave, InflightInv
  <2>3. PositionInv'
    BY <1>10 DEF Crash, Leave, PositionInv
  <2>4. CommittedInv'
    BY <1>10 DEF Crash, Leave, CommittedInv, CommittedWasHandled, ResumesAfterSuccess
  <2> QED BY <2>1, <2>2, <2>3, <2>4
<1>11. ASSUME NEW c \in Consumers, Restart(c) PROVE Goal
  <2>1. LoopInv'
    BY <1>11 DEF Restart, LoopInv
  <2>2. InflightInv'
    BY <1>11 DEF Restart, InflightInv
  <2>3. PositionInv'
    BY <1>11 DEF Restart, PositionInv
  <2>4. CommittedInv'
    BY <1>11 DEF Restart, CommittedInv, CommittedWasHandled, ResumesAfterSuccess
  <2> QED BY <2>1, <2>2, <2>3, <2>4
<1>12. CASE Rebalance
  <2>1. LoopInv'
    BY <1>12 DEF Rebalance, Assign, Running, LoopInv
  <2>2. InflightInv'
    BY <1>12 DEF Rebalance, Assign, Running, InflightInv
  <2>3. PositionInv'
    BY <1>12 DEF Rebalance, Assign, Running, PositionInv, CommittedInv, CommittedWasHandled
  <2>4. CommittedInv'
    BY <1>12 DEF Rebalance, Assign, Running, CommittedInv, CommittedWasHandled, ResumesAfterSuccess
  <2> QED BY <2>1, <2>2, <2>3, <2>4
<1>13. CASE SpontaneousRebalance
  <2>1. LoopInv'
    BY <1>13 DEF SpontaneousRebalance, Assign, Running, LoopInv
  <2>2. InflightInv'
    BY <1>13 DEF SpontaneousRebalance, Assign, Running, InflightInv
  <2>3. PositionInv'
    BY <1>13 DEF SpontaneousRebalance, Assign, Running, PositionInv, CommittedInv, CommittedWasHandled
  <2>4. CommittedInv'
    BY <1>13 DEF SpontaneousRebalance, Assign, Running, CommittedInv, CommittedWasHandled, ResumesAfterSuccess
  <2> QED BY <2>1, <2>2, <2>3, <2>4
<1>14. CASE UNCHANGED vars
  <2>1. LoopInv'
    BY <1>14 DEF vars, LoopInv
  <2>2. InflightInv'
    BY <1>14 DEF vars, InflightInv
  <2>3. PositionInv'
    BY <1>14 DEF vars, PositionInv
  <2>4. CommittedInv'
    BY <1>14 DEF vars, CommittedInv, CommittedWasHandled, ResumesAfterSuccess
  <2> QED BY <2>1, <2>2, <2>3, <2>4
<1> QED
    BY <1>1, <1>2, <1>3, <1>4, <1>5, <1>6, <1>7, <1>8, <1>9, <1>10, <1>11, <1>12,
       <1>13, <1>14 DEF Next, SubscribeStep

\* The invariant holds when the consumers start.
LEMMA InvInit == Init => IInv
    BY DEF Init, IInv, TypeOK, Phases, Messages, Handled, At, LoopInv, InflightInv,
           PositionInv, CommittedInv, CommittedWasHandled, ResumesAfterSuccess

\* The readers, the consumers and the group only go past handled messages.
THEOREM Invariance == Spec => []IInv
    BY InvInit, InvStep, PTL DEF Spec

\* The state of the Subscribe loops and of the group keeps its type.
THEOREM TypeCorrect == Spec => []TypeOK
<1>1. IInv => TypeOK
    BY DEF IInv
<1> QED
    BY <1>1, Invariance, PTL

\* Subscribe delivers at least once: for every group, topic and order of
\* crashes, rebalances and late commits, no offset is stored beyond a message
\* that no handler call has seen.
THEOREM AtLeastOnceDelivery == Spec => []CommittedWasHandled
<1>1. IInv => CommittedWasHandled
    BY DEF IInv, CommittedInv
<1> QED
    BY <1>1, Invariance, PTL

\* The group never resumes right after a message whose handler only failed.
THEOREM ResumePoint == Spec => []ResumesAfterSuccess
<1>1. IInv => ResumesAfterSuccess
    BY DEF IInv, CommittedInv
<1> QED
    BY <1>1, Invariance, PTL

\* Each step of Subscribe appends a message, handles one, moves the stored offset
\* over handled messages, or changes nothing the promise speaks of.
LEMMA PromiseStep == IInv /\ [Next]_vars => [Promise!Next]_(Promise!vars)
<1> SUFFICES ASSUME IInv, [Next]_vars PROVE [Promise!Next]_(Promise!vars)
    OBVIOUS
<1> USE DEF IInv, TypeOK, Phases, Messages, groupVars, loopVars, historyVars, Handled,
            Promise!vars
<1>1. ASSUME NEW p \in Partitions, Produce(p) PROVE Promise!Next
    BY <1>1, ZenonT(30) DEF Produce, Promise!Next, Promise!Append
<1>2. ASSUME NEW c \in Consumers, HandlerReturnsNil(c) \/ HandlerReturnsError(c)
      PROVE Promise!Next
  <2> DEFINE q == inflight[c].partition
             m == inflight[c].offset
  <2>1. q \in Partitions /\ m \in 0 .. end[q] /\ m < end[q]
      BY <1>2 DEF HandlerReturnsNil, HandlerReturnsError, LoopInv, InflightInv
  <2>2. UNCHANGED <<end, committed>>
      BY <1>2 DEF HandlerReturnsNil, HandlerReturnsError
  <2>3. \A p \in Partitions :
           Handled(p)' = IF p = q THEN Handled(p) \cup {m} ELSE Handled(p)
    <3>1. CASE HandlerReturnsNil(c)
        BY <2>1, <3>1 DEF HandlerReturnsNil
    <3>2. CASE HandlerReturnsError(c)
        BY <2>1, <3>2 DEF HandlerReturnsError
    <3> QED
        BY <1>2, <3>1, <3>2
  <2> HIDE DEF q, m, Handled
  <2>4. Promise!Handle(q, m)
      BY <2>1, <2>2, <2>3, ZenonT(30) DEF Promise!Handle
  <2> QED
      BY <2>1, <2>4 DEF Promise!Next
<1>3. ASSUME NEW c \in Consumers, CommitMessages(c) PROVE Promise!Next
  <2> DEFINE p == inflight[c].partition
             n == inflight[c].offset + 1
  <2>1. p \in Partitions /\ n \in 0 .. end[p]
      BY <1>3 DEF CommitMessages, LoopInv, InflightInv
  <2>2. \A o \in 0 .. n - 1 : o \in Handled(p)
      BY <1>3, <2>1 DEF CommitMessages, LoopInv, InflightInv
  <2>3. Promise!Resume(p, n)
      BY <1>3, <2>1, <2>2 DEF CommitMessages, Promise!Resume
  <2> QED
      BY <2>1, <2>3 DEF Promise!Next
<1>4. ASSUME NEW c \in Consumers,
             \/ \E p \in Partitions : FetchMessage(c, p)
             \/ CommitFails(c) \/ Shutdown(c) \/ SubscribeReturnsNil(c)
             \/ SubscribeReturnsError(c) \/ Crash(c) \/ Restart(c)
      PROVE UNCHANGED <<end, accepted, rejected, committed>>
    BY <1>4 DEF FetchMessage, CommitFails, Shutdown, SubscribeReturnsNil,
                SubscribeReturnsError, Crash, Leave, Restart
<1>5. CASE Rebalance \/ SpontaneousRebalance \/ UNCHANGED vars
  <2> UNCHANGED <<end, accepted, rejected, committed>>
      BY <1>5 DEF Rebalance, SpontaneousRebalance, Assign, vars
  <2> QED OBVIOUS
<1> QED
    BY <1>1, <1>2, <1>3, <1>4, <1>5 DEF Next, SubscribeStep

\* Subscribe starts as the promise does.
LEMMA PromiseInit == Init => Promise!Init
    BY DEF Init, Promise!Init, Handled

\* Subscribe implements the at-least-once promise.
THEOREM Refinement == Spec => ImplementsAtLeastOnce
    BY PromiseInit, PromiseStep, Invariance, PTL DEF Spec, ImplementsAtLeastOnce, Promise!Spec

=============================================================================
