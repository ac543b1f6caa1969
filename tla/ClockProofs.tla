---------------------------- MODULE ClockProofs ----------------------------
(***************************************************************************)
(* Proofs about the two components that keep time themselves and share no  *)
(* state: Handlers, for any number of retries, any timeouts and any base   *)
(* of the backoff, and RateLimiter, for any finite set of callers, any     *)
(* limit and window, any clocks that differ by less than the window and    *)
(* any number of faults.                                                   *)
(***************************************************************************)
EXTENDS Handlers, RateLimiter, FiniteSetTheorems, FunctionTheorems, TLAPS

-----------------------------------------------------------------------------
(* Handlers: the sums of the backoff *)

\* retry.Do makes at least one attempt, whatever MaxRetries is.
LEMMA SomeAttempt == MaxAttempts \in Nat \ {0}
    BY HandlersAssumption DEF MaxAttempts

\* The closed form grows by the next square.
LEMMA SquaresStep ==
    ASSUME NEW n \in Nat
    PROVE  Squares(n) \in Nat /\ Squares(n + 1) = Squares(n) + (n + 1) * (n + 1)
<1> DEFINE before == n * (n + 1) * (2 * n + 1)
           after == (n + 1) * (n + 1 + 1) * (2 * (n + 1) + 1)
           k == (n + 1) * (n + 1)
<1>1. before \in Nat /\ k \in Nat
    OBVIOUS
<1>2. after = before + 6 * k
    OBVIOUS
<1>3. Squares(n) = before \div 6 /\ Squares(n + 1) = after \div 6
    BY DEF Squares
<1> HIDE DEF before, after, k
<1>4. before \div 6 \in Nat /\ (before + 6 * k) \div 6 = before \div 6 + k
    BY <1>1
<1> QED
    BY <1>2, <1>3, <1>4 DEF k

\* More squares are more.
LEMMA SquaresMonotone ==
    ASSUME NEW m \in Nat, NEW n \in Nat, m <= n
    PROVE  Squares(m) <= Squares(n)
<1> DEFINE x == m * (m + 1)
           y == n * (n + 1)
           small == x * (2 * m + 1)
           great == y * (2 * n + 1)
<1>1. x \in Nat /\ y \in Nat /\ x <= y
  <2>1. m * (m + 1) <= n * (m + 1)
      OBVIOUS
  <2>2. n * (m + 1) <= n * (n + 1)
      OBVIOUS
  <2> QED
      BY <2>1, <2>2
<1>2. Squares(m) = small \div 6 /\ Squares(n) = great \div 6
    BY DEF Squares
<1> HIDE DEF x, y
<1>3. small \in Nat /\ great \in Nat /\ small <= great
  <2>1. x * (2 * m + 1) <= y * (2 * m + 1)
      BY <1>1
  <2>2. y * (2 * m + 1) <= y * (2 * n + 1)
      BY <1>1
  <2> QED
      BY <1>1, <2>1, <2>2
<1> HIDE DEF small, great
<1> QED
    BY <1>2, <1>3

\* An attempt and the delay after it lead from one bound to the next.
LEMMA WaitStep ==
    ASSUME NEW a \in Nat \ {0}
    PROVE  /\ WaitBefore(a) \in Nat
           /\ Delay(a) \in Nat
           /\ WaitBefore(a + 1) = WaitBefore(a) + TaskTimeout + Delay(a)
<1> DEFINE n == a - 1
<1>1. n \in Nat /\ n + 1 = a /\ (a + 1) - 1 = n + 1
    OBVIOUS
<1>2. Squares(n) \in Nat /\ Squares(n + 1) = Squares(n) + a * a
    BY <1>1, SquaresStep
<1>3. WaitBefore(a) = n * TaskTimeout + BaseDelay * Squares(n)
    BY DEF WaitBefore
<1>4. WaitBefore(a + 1) = (n + 1) * TaskTimeout + BaseDelay * Squares(n + 1)
    BY <1>1 DEF WaitBefore
<1>5. Delay(a) = BaseDelay * (a * a)
    BY HandlersAssumption DEF Delay
<1>6. BaseDelay \in Nat /\ TaskTimeout \in Nat
    BY HandlersAssumption
<1>7. BaseDelay * (Squares(n) + a * a) = BaseDelay * Squares(n) + BaseDelay * (a * a)
    BY <1>2, <1>6
<1>8. (n + 1) * TaskTimeout = n * TaskTimeout + TaskTimeout
    BY <1>1, <1>6
<1>9. /\ n * TaskTimeout \in Nat /\ BaseDelay * Squares(n) \in Nat
      /\ a * a \in Nat /\ BaseDelay * (a * a) \in Nat
    BY <1>1, <1>2, <1>6
<1> HIDE DEF n
<1> QED
    BY <1>2, <1>3, <1>4, <1>5, <1>6, <1>7, <1>8, <1>9

\* The longest wait is a number.
LEMMA LongestWaitType == LongestWait \in Nat
<1>1. MaxAttempts - 1 \in Nat
    BY SomeAttempt
<1>2. Squares(MaxAttempts - 1) \in Nat
    BY <1>1, SquaresStep
<1> QED
    BY <1>2, SomeAttempt, HandlersAssumption DEF LongestWait

\* No attempt leaves room for more than the longest wait.
LEMMA WaitMonotone ==
    ASSUME NEW a \in Attempts
    PROVE  WaitBefore(a) + TaskTimeout <= LongestWait
<1> DEFINE m == a - 1
           n == MaxAttempts - 1
<1>1. m \in Nat /\ n \in Nat /\ m <= n
    BY SomeAttempt DEF Attempts
<1>2. Squares(m) \in Nat /\ Squares(n) \in Nat /\ Squares(m) <= Squares(n)
    BY <1>1, SquaresStep, SquaresMonotone
<1>3. BaseDelay \in Nat /\ TaskTimeout \in Nat
    BY HandlersAssumption
<1>4. BaseDelay * Squares(m) <= BaseDelay * Squares(n)
    BY <1>2, <1>3
<1>5. m * TaskTimeout <= n * TaskTimeout
    BY <1>1, <1>3
<1>6. WaitBefore(a) = m * TaskTimeout + BaseDelay * Squares(m)
    BY DEF WaitBefore
<1>7. LongestWait = n * TaskTimeout + TaskTimeout + BaseDelay * Squares(n)
    BY <1>3, SomeAttempt DEF LongestWait
<1>8. /\ m * TaskTimeout \in Nat /\ n * TaskTimeout \in Nat
      /\ BaseDelay * Squares(m) \in Nat /\ BaseDelay * Squares(n) \in Nat
    BY <1>1, <1>2, <1>3
<1> HIDE DEF m, n
<1> QED
    BY <1>3, <1>4, <1>5, <1>6, <1>7, <1>8

\* Nothing has been waited for, and nothing has been sent.
LEMMA InvInit == Init => IInv
<1> SUFFICES ASSUME Init PROVE IInv
    OBVIOUS
<1>1. 1 \in Attempts
    BY SomeAttempt DEF Attempts
<1>2. WaitBefore(1) \in Nat /\ WaitBefore(1) + TaskTimeout <= LongestWait /\ TaskTimeout \in Nat
    BY <1>1, WaitStep, WaitMonotone, HandlersAssumption
<1>3. TypeOK /\ TakenInv /\ DoneIsTaken
    BY <1>1, ZenonT(30) DEF Init, TypeOK, TakenInv, DoneIsTaken
<1>4. elapsed <= WaitBefore(1)
    BY <1>2 DEF Init
<1>5. WaitInv /\ WaitIsBounded
    BY <1>2, <1>4, LongestWaitType DEF Init, WaitInv, WaitIsBounded
<1> QED
    BY <1>3, <1>5 DEF IInv

\* When the handler returns in time, the wait so far is within its bound, and so
\* is the delay that may follow.
LEMMA ReturnInTime ==
    ASSUME IInv, phase \in {"call", "handle"}, UNCHANGED elapsed,
           NEW ok \in BOOLEAN, HandleReturns(ok)
    PROVE  WaitInv' /\ WaitIsBounded' /\ phase' \in {"done", "dead", "backoff"}
           /\ attempt' \in Attempts /\ timer' \in Nat /\ (phase' = "done" <=> ok)
<1>1. attempt \in Attempts /\ attempt \in Nat \ {0} /\ elapsed \in Nat /\ timer \in Nat
    BY SomeAttempt DEF IInv, TypeOK, Attempts
<1>2. /\ WaitBefore(attempt) \in Nat /\ Delay(attempt) \in Nat /\ TaskTimeout \in Nat
      /\ WaitBefore(attempt) + TaskTimeout <= LongestWait
    BY <1>1, WaitStep, WaitMonotone, HandlersAssumption
<1>3. elapsed <= WaitBefore(attempt) + TaskTimeout
    BY <1>1, <1>2 DEF IInv, WaitInv
<1>4. WaitIsBounded'
    BY DEF IInv, WaitIsBounded, LongestWait
<1>5. /\ phase' \in {"done", "dead", "backoff"}
      /\ phase' = "done" <=> ok
      /\ phase' = "backoff" => attempt # MaxAttempts /\ timer' = Delay(attempt)
      /\ phase' # "backoff" => timer' = 0
      /\ attempt' = attempt
    BY DEF HandleReturns
<1>6. phase' = "backoff" => attempt < MaxAttempts
    BY <1>1, <1>5, SomeAttempt DEF Attempts
<1>7. phase' = "backoff" => elapsed + timer' <= WaitBefore(attempt) + TaskTimeout + Delay(attempt)
    BY <1>1, <1>2, <1>3, <1>5
<1>8. WaitInv'
    BY <1>5, <1>6, <1>7 DEF WaitInv, WaitBefore, Delay
<1> QED
    BY <1>1, <1>2, <1>4, <1>5, <1>8

\* Every step of the loop, of the goroutines and of time keeps the invariant.
LEMMA InvStep == IInv /\ [Next]_vars => IInv'
<1> SUFFICES ASSUME IInv, [Next]_vars PROVE IInv'
    OBVIOUS
<1>a. attempt \in Attempts /\ attempt \in Nat \ {0}
    BY SomeAttempt DEF IInv, TypeOK, Attempts
<1>0. /\ TypeOK /\ attempt \in Nat \ {0} /\ WaitBefore(attempt) \in Nat /\ Delay(attempt) \in Nat
      /\ TaskTimeout \in Nat \ {0} /\ ClientTimeout \in Nat \ {0}
      /\ WaitBefore(attempt) + TaskTimeout <= LongestWait
    BY <1>a, WaitStep, WaitMonotone, HandlersAssumption DEF IInv
<1> USE DEF loopVars, sendVars
<1>1. CASE CallInvalid
  <2>1. WaitInv' /\ WaitIsBounded' /\ phase' \in {"dead", "backoff"} /\ attempt' \in Attempts /\ timer' \in Nat
      BY <1>1, ReturnInTime, ZenonT(30) DEF CallInvalid
  <2> QED
      BY <1>0, <1>1, <2>1 DEF CallInvalid, IInv, TypeOK, TakenInv, DoneIsTaken
<1>2. CASE Call
  <2>1. Timeout \in Nat /\ Timeout <= TaskTimeout
      BY <1>0 DEF Timeout
  <2>2. TypeOK' /\ TakenInv' /\ DoneIsTaken'
      BY <1>0, <1>2, <2>1 DEF Call, IInv, TypeOK, TakenInv, DoneIsTaken
  <2>3. WaitIsBounded'
      BY <1>2 DEF Call, IInv, WaitIsBounded, LongestWait
  <2>4. elapsed' + timer' <= WaitBefore(attempt) + TaskTimeout
      BY <1>0, <1>2, <2>1 DEF Call, IInv, WaitInv, TypeOK
  <2>5. WaitInv'
      BY <1>2, <2>4 DEF Call, WaitInv, WaitBefore
  <2> QED
      BY <2>2, <2>3, <2>5 DEF IInv
<1>3. CASE EmailResult
  <2>1. /\ WaitInv' /\ WaitIsBounded' /\ phase' \in {"done", "dead", "backoff"}
        /\ attempt' \in Attempts /\ timer' \in Nat
        /\ phase' = "done" <=> result[attempt] = "nil"
      BY <1>3, ReturnInTime, ZenonT(30) DEF EmailResult
  <2>2. attempt' = attempt
      BY <1>3 DEF EmailResult, HandleReturns
  <2>3. DoneIsTaken'
      BY <1>0, <1>3, <2>1, <2>2 DEF EmailResult, IInv, TakenInv, DoneIsTaken, TypeOK
  <2> QED
      BY <1>0, <1>3, <2>1, <2>3 DEF EmailResult, IInv, TypeOK, TakenInv
<1>4. CASE EmailTimeout
  <2>1. WaitInv' /\ WaitIsBounded' /\ phase' \in {"dead", "backoff"} /\ attempt' \in Attempts /\ timer' \in Nat
      BY <1>4, ReturnInTime, ZenonT(30) DEF EmailTimeout
  <2> QED
      BY <1>0, <1>4, <2>1 DEF EmailTimeout, IInv, TypeOK, TakenInv, DoneIsTaken
<1>5. CASE WebhookReturns
  <2>1. PICK code \in {"none", "below400", "from400"} :
          /\ HandleReturns(GoodResponse(code))
          /\ result' = [result EXCEPT ![attempt] = IF GoodResponse(code) THEN "nil" ELSE "error"]
          /\ delivered' \in (IF code # "from400" THEN {delivered \cup {attempt}} ELSE {})
                            \cup (IF code # "below400" THEN {delivered} ELSE {})
      BY <1>5, ZenonT(30) DEF WebhookReturns
  <2>2. GoodResponse(code) \in BOOLEAN /\ (GoodResponse(code) <=> code = "below400")
      BY DEF GoodResponse
  <2>3. /\ WaitInv' /\ WaitIsBounded' /\ phase' \in {"done", "dead", "backoff"}
        /\ attempt' \in Attempts /\ timer' \in Nat
        /\ phase' = "done" <=> GoodResponse(code)
      BY <1>5, <2>1, <2>2, ReturnInTime DEF WebhookReturns
  <2>4. attempt' = attempt
      BY <2>1 DEF HandleReturns
  <2>5. delivered \subseteq delivered' /\ delivered' \subseteq delivered \cup {attempt}
      BY <2>1
  <2>6. GoodResponse(code) => attempt \in delivered'
      BY <2>1, <2>2
  <2>7. TakenInv' /\ DoneIsTaken'
      BY <1>0, <2>1, <2>3, <2>4, <2>5, <2>6 DEF IInv, TakenInv, DoneIsTaken, TypeOK
  <2>8. TypeOK'
      BY <1>0, <1>5, <2>1, <2>3, <2>4, <2>5 DEF WebhookReturns, TypeOK
  <2> QED
      BY <2>3, <2>7, <2>8 DEF IInv
<1>6. ASSUME NEW a \in Attempts, SendMailReturns(a) PROVE IInv'
  <2>1. delivered \subseteq delivered' /\ delivered' \subseteq delivered \cup {a}
      BY <1>6 DEF SendMailReturns
  <2>2. result'[a] = "nil" => a \in delivered'
      BY <1>0, <1>6 DEF SendMailReturns, TypeOK
  <2>3. TypeOK'
      BY <1>0, <1>6, <2>1 DEF SendMailReturns, TypeOK
  <2>4. TakenInv' /\ DoneIsTaken'
      BY <1>0, <1>6, <2>1, <2>2 DEF SendMailReturns, IInv, TypeOK, TakenInv, DoneIsTaken
  <2>5. WaitInv' /\ WaitIsBounded'
      BY <1>6 DEF SendMailReturns, IInv, WaitInv, WaitIsBounded, WaitBefore, Delay, LongestWait
  <2> QED
      BY <2>3, <2>4, <2>5 DEF IInv
<1>7. ASSUME NEW a \in Attempts, Put(a) PROVE IInv'
    BY <1>0, <1>7 DEF Put, IInv, TypeOK, TakenInv, DoneIsTaken, WaitInv, WaitIsBounded,
                      WaitBefore, Delay, LongestWait
<1>8. CASE BackoffEnds
  <2>1. attempt < MaxAttempts /\ elapsed <= WaitBefore(attempt) + TaskTimeout + Delay(attempt)
      BY <1>0, <1>8 DEF BackoffEnds, IInv, WaitInv, TypeOK
  <2>2. elapsed <= WaitBefore(attempt + 1)
      BY <1>0, <2>1, WaitStep
  <2>3. attempt + 1 \in Attempts
      BY <1>0, <2>1, SomeAttempt DEF Attempts
  <2>4. WaitInv'
      BY <1>8, <2>2 DEF BackoffEnds, WaitInv, WaitBefore
  <2> QED
      BY <1>0, <1>8, <2>3, <2>4
         DEF BackoffEnds, IInv, TypeOK, TakenInv, DoneIsTaken, WaitIsBounded, LongestWait
<1>9. CASE BackoffCancelled
    BY <1>0, <1>9 DEF BackoffCancelled, IInv, TypeOK, TakenInv, DoneIsTaken, WaitInv, WaitIsBounded,
                      LongestWait
<1>10. CASE Cancel
    BY <1>0, <1>10 DEF Cancel, IInv, TypeOK, TakenInv, DoneIsTaken, WaitInv, WaitIsBounded,
                       WaitBefore, Delay, LongestWait
<1>11. CASE Elapse
  <2>1. TypeOK' /\ TakenInv' /\ DoneIsTaken'
      BY <1>0, <1>11 DEF Elapse, IInv, TypeOK, TakenInv, DoneIsTaken
  <2>2. elapsed' + timer' = elapsed + timer /\ elapsed' <= elapsed + timer
      BY <1>0, <1>11 DEF Elapse, TypeOK
  <2>3. WaitInv'
      BY <1>11, <2>2 DEF Elapse, IInv, WaitInv, WaitBefore, Delay
  <2>4. elapsed + timer <= LongestWait
    <3>1. CASE phase = "handle"
        BY <1>0, <3>1, LongestWaitType DEF IInv, WaitInv, TypeOK
    <3>2. CASE phase = "backoff"
      <4>1. attempt < MaxAttempts /\ elapsed + timer <= WaitBefore(attempt + 1)
          BY <1>0, <3>2, WaitStep DEF IInv, WaitInv
      <4>2. attempt + 1 \in Attempts
          BY <1>0, <4>1, SomeAttempt DEF Attempts
      <4>3. WaitBefore(attempt + 1) \in Nat /\ WaitBefore(attempt + 1) + TaskTimeout <= LongestWait
          BY <1>0, <4>2, WaitStep, WaitMonotone
      <4> QED
          BY <1>0, <4>1, <4>3, LongestWaitType DEF TypeOK
    <3> QED
        BY <1>11, <3>1, <3>2 DEF Elapse
  <2>5. elapsed' <= LongestWait
      BY <1>0, <1>11, <2>2, <2>4, LongestWaitType DEF Elapse, TypeOK
  <2> QED
      BY <2>1, <2>3, <2>5 DEF IInv, WaitIsBounded, LongestWait
<1>12. CASE UNCHANGED vars
    BY <1>0, <1>12 DEF vars, IInv, TypeOK, TakenInv, DoneIsTaken, WaitInv, WaitIsBounded,
                       WaitBefore, Delay, LongestWait
<1> QED
    BY <1>1, <1>2, <1>3, <1>4, <1>5, <1>6, <1>7, <1>8, <1>9, <1>10, <1>11, <1>12 DEF Next, LoopStep

\* The invariant holds for any number of retries and any timeouts and delays.
THEOREM Invariance == Spec => []IInv
    BY InvInit, InvStep, PTL DEF Spec

\* A handler returns nil only when the server took what this attempt sent:
\* never because of what an attempt that timed out left behind.
THEOREM SuccessIsReal == Spec => []DoneIsTaken
<1>1. IInv => DoneIsTaken
    BY DEF IInv
<1> QED
    BY <1>1, Invariance, PTL

\* retry.Do holds up its partition for no longer than all its timeouts and the
\* quadratic backoff between them.
THEOREM BoundedWait == Spec => []WaitIsBounded
<1>1. IInv => WaitIsBounded
    BY DEF IInv
<1> QED
    BY <1>1, Invariance, PTL

\* The moves that retry.Do can still make: in each attempt it calls the handler,
\* the handler returns and a backoff ends.
StepsLeft ==
    IF phase \in {"done", "dead"} THEN 0
    ELSE 3 * (MaxAttempts - attempt)
         + (IF phase = "call" THEN 3 ELSE IF phase = "handle" THEN 2 ELSE 1)

\* Each step brings retry.Do one of its moves or a tick closer to its end, or
\* does not touch it.
Advances ==
    \/ StepsLeft' < StepsLeft
    \/ phase' = phase /\ attempt' = attempt /\ timer' < timer
    \/ UNCHANGED loopVars

\* The measure behind LoopEnds: no behaviour of the servers, no timeout and no
\* shutdown ever makes retry.Do start over or wait anew within an attempt, so
\* that it has at most three moves for each attempt and ends when none is left.
THEOREM RetryAdvances ==
    Spec => /\ [](StepsLeft \in 0 .. 3 * MaxAttempts)
            /\ [](StepsLeft = 0 <=> phase \in {"done", "dead"})
            /\ [][Advances]_vars
<1>1. ASSUME IInv
      PROVE  /\ MaxAttempts \in Nat \ {0} /\ attempt \in 1 .. MaxAttempts /\ timer \in Nat
             /\ phase \in {"call", "handle", "backoff", "done", "dead"}
             /\ phase = "backoff" => attempt < MaxAttempts
    BY <1>1, SomeAttempt DEF IInv, TypeOK, WaitInv, Attempts
<1>2. IInv => StepsLeft \in 0 .. 3 * MaxAttempts
    BY <1>1 DEF StepsLeft
<1>3. IInv => (StepsLeft = 0 <=> phase \in {"done", "dead"})
    BY <1>1 DEF StepsLeft
<1>4. ASSUME IInv, [Next]_vars
      PROVE  [Advances]_vars
  <2> USE DEF Advances
  <2>1. ASSUME NEW ok \in BOOLEAN, phase \in {"call", "handle"}, HandleReturns(ok)
        PROVE  StepsLeft' < StepsLeft
    <3>1. /\ phase' \in {"done", "dead", "backoff"} /\ attempt' = attempt
          /\ phase' = "backoff" => attempt < MaxAttempts
        BY <1>1, <1>4, <2>1 DEF HandleReturns
    <3> QED
        BY <1>1, <1>4, <2>1, <3>1 DEF StepsLeft
  <2>2. CASE CallInvalid \/ EmailResult \/ EmailTimeout \/ WebhookReturns
      BY <2>1, <2>2, ZenonT(30)
         DEF CallInvalid, EmailResult, EmailTimeout, WebhookReturns, GoodResponse
  <2>3. CASE Call
      BY <1>1, <1>4, <2>3 DEF Call, StepsLeft
  <2>4. CASE BackoffEnds \/ BackoffCancelled
      BY <1>1, <1>4, <2>4 DEF BackoffEnds, BackoffCancelled, StepsLeft
  <2>5. CASE Elapse
      BY <1>1, <1>4, <2>5 DEF Elapse
  <2>6. CASE Cancel \/ \E a \in Attempts : SendMailReturns(a) \/ Put(a)
      BY <2>6 DEF Cancel, SendMailReturns, Put
  <2> QED
      BY <1>4, <2>2, <2>3, <2>4, <2>5, <2>6, ZenonT(30) DEF Next, LoopStep
<1> QED
    BY <1>2, <1>3, <1>4, Invariance, PTL DEF Spec

-----------------------------------------------------------------------------
(* RateLimiter: numbers and finite sets *)

\* What the assumptions say of the numbers.
LEMMA Numbers ==
    /\ Limit \in Nat /\ Window \in Nat \ {0} /\ MaxAge \in Nat /\ MaxAge < Window
    /\ Stale = Window + MaxAge /\ Span = Window - MaxAge
    /\ \A c \in Callers : Lag[c] \in 0 .. MaxAge
    /\ MaxFaults \in Nat
    BY RateLimiterAssumption, CallsAssumption DEF Stale, Span

\* What the histories and the sorted set can be is finite.
LEMMA BoundedIsFinite ==
    /\ \A S \in SUBSET (0 .. Stale) : IsFiniteSet(S)
    /\ \A S \in SUBSET (Callers \X (0 .. Stale - 1)) : IsFiniteSet(S)
    /\ \A S \in SUBSET (Callers \X (0 .. Span - 1)) : IsFiniteSet(S)
<1>1. IsFiniteSet(0 .. Stale) /\ IsFiniteSet(0 .. Stale - 1) /\ IsFiniteSet(0 .. Span - 1)
    BY Numbers, FS_Interval
<1>2. IsFiniteSet(Callers \X (0 .. Stale - 1)) /\ IsFiniteSet(Callers \X (0 .. Span - 1))
    BY <1>1, FS_Product, RateLimiterAssumption, ZenonT(30)
<1> QED
    BY <1>1, <1>2, FS_Subset, ZenonT(30)

\* Hence so are they.
LEMMA LimiterFinite ==
    ASSUME LimiterTypeOK
    PROVE  IsFiniteSet(ring) /\ IsFiniteSet(calls) /\ IsFiniteSet(passed)
    BY BoundedIsFinite, ZenonT(30) DEF LimiterTypeOK

\* A set of pairs of which at most n begin with the same element of C.
LEMMA FibresBound ==
    ASSUME NEW C, IsFiniteSet(C), NEW T, NEW S \in SUBSET (C \X T), NEW n \in Nat,
           \A c \in C : /\ IsFiniteSet({e \in S : e[1] = c})
                        /\ Cardinality({e \in S : e[1] = c}) <= n
    PROVE  IsFiniteSet(S) /\ Cardinality(S) <= n * Cardinality(C)
<1> DEFINE F(c) == {e \in S : e[1] = c}
           Num(c) == {g \in [F(c) -> 1 .. n] : \A d, e \in F(c) : g[d] = g[e] => d = e}
           num == [c \in C |-> CHOOSE g \in Num(c) : TRUE]
           pair == [e \in S |-> <<e[1], num[e[1]][e]>>]
<1>1. ASSUME NEW c \in C
      PROVE  Num(c) # {}
  <2>1. Cardinality(F(c)) \in Nat /\ ExistsBijection(1 .. Cardinality(F(c)), F(c)) /\ Cardinality(F(c)) <= n
      BY FS_CardinalityType
  <2>2. ExistsBijection(F(c), 1 .. Cardinality(F(c)))
      BY <2>1, Fun_ExistsBijSymmetric
  <2>3. PICK g \in Bijection(F(c), 1 .. Cardinality(F(c))) : TRUE
      BY <2>2 DEF ExistsBijection
  <2>4. g \in Injection(F(c), 1 .. Cardinality(F(c)))
      BY <2>3, ZenonT(30) DEF Bijection
  <2>5. g \in [F(c) -> 1 .. Cardinality(F(c))] /\ \A d, e \in F(c) : g[d] = g[e] => d = e
      BY <2>4 DEF Injection, IsInjective
  <2>6. g \in [F(c) -> 1 .. n]
      BY <2>1, <2>5
  <2> QED
      BY <2>5, <2>6
<1>2. \A c \in C : num[c] \in Num(c)
    BY <1>1, ZenonT(30)
<1>3. \A e \in S : e[1] \in C /\ e \in F(e[1])
    OBVIOUS
<1> HIDE DEF num
<1>4. \A e \in S : num[e[1]][e] \in 1 .. n
  <2> SUFFICES ASSUME NEW e \in S
               PROVE  num[e[1]][e] \in 1 .. n
      OBVIOUS
  <2>1. num[e[1]] \in [F(e[1]) -> 1 .. n] /\ e \in F(e[1])
      BY <1>2, <1>3, ZenonT(30)
  <2> QED
      BY <2>1, ZenonT(30)
<1>5. pair \in [S -> C \X (1 .. n)]
    BY <1>3, <1>4, ZenonT(30)
<1>6. ASSUME NEW d \in S, NEW e \in S, pair[d] = pair[e]
      PROVE  d = e
  <2>1. d[1] = e[1] /\ num[d[1]][d] = num[e[1]][e]
      BY <1>6
  <2>2. d[1] \in C /\ d \in F(d[1]) /\ e \in F(d[1]) /\ num[d[1]] \in Num(d[1])
      BY <1>2, <1>3, <2>1, ZenonT(30)
  <2> QED
      BY <2>1, <2>2, ZenonT(30)
<1>7. pair \in Injection(S, C \X (1 .. n))
    BY <1>5, <1>6, Fun_IsInj, ZenonT(30)
<1>8. IsFiniteSet(1 .. n) /\ Cardinality(1 .. n) = n
    BY FS_Interval
<1>9. IsFiniteSet(C \X (1 .. n)) /\ Cardinality(C \X (1 .. n)) = Cardinality(C) * n
    BY <1>8, FS_Product
<1>10. IsFiniteSet(S) /\ Cardinality(S) <= Cardinality(C) * n
    BY <1>7, <1>9, FS_Injection
<1>11. Cardinality(C) \in Nat
    BY FS_CardinalityType
<1> QED
    BY <1>10, <1>11

-----------------------------------------------------------------------------
(* RateLimiter: the calls that end *)

\* What a history holds one unit later: the same events, but for the oldest.
LEMMA AgedEvents ==
    ASSUME NEW h \in SUBSET (Callers \X Nat), NEW age \in Nat
    PROVE  /\ \A e \in Aged(h, age) : /\ e \in Callers \X (1 .. age - 1) /\ e \in Callers \X Nat
                                      /\ <<e[1], e[2] - 1>> \in h
           /\ \A e \in h : e[2] < age - 1 => <<e[1], e[2] + 1>> \in Aged(h, age)
    BY DEF Aged

\* It holds no more events than before.
LEMMA AgedSize ==
    ASSUME NEW h \in SUBSET (Callers \X Nat), IsFiniteSet(h), NEW age \in Nat
    PROVE  IsFiniteSet(Aged(h, age)) /\ Cardinality(Aged(h, age)) <= Cardinality(h)
<1> DEFINE young == [e \in Aged(h, age) |-> <<e[1], e[2] - 1>>]
<1>1. \A e \in Aged(h, age) : e \in Callers \X Nat /\ <<e[1], e[2] - 1>> \in h
    BY AgedEvents, ZenonT(30)
<1>2. young \in [Aged(h, age) -> h]
    BY <1>1, ZenonT(30)
<1>3. \A d, e \in Aged(h, age) : young[d] = young[e] => d = e
    BY <1>1
<1> HIDE DEF young
<1>4. young \in Injection(Aged(h, age), h)
    BY <1>2, <1>3, Fun_IsInj, Zenon
<1> QED
    BY <1>4, FS_Injection, Zenon

\* The timestamp of a call whose pipeline runs, and that the call is the first of
\* its caller to end in this unit of time.
LEMMA CallEnds ==
    ASSUME LimiterTypeOK, CallInv, NEW c \in Callers, seen[c] > Lag[c]
    PROVE  /\ seen[c] \in 1 .. MaxAge
           /\ <<c, 0>> \notin calls /\ <<c, 0>> \notin passed
           /\ \A e \in calls : e[1] = c => seen[c] <= e[2] + Lag[c]
<1>1. seen[c] \in {NoCall} \cup 0 .. MaxAge /\ Lag[c] \in 0 .. MaxAge /\ MaxAge \in Nat
    BY Numbers DEF LimiterTypeOK
<1>2. \A e \in calls : e[1] = c => seen[c] <= e[2] + Lag[c]
    BY ZenonT(30) DEF CallInv
<1>3. <<c, 0>> \notin calls
  <2> SUFFICES ASSUME <<c, 0>> \in calls
               PROVE  FALSE
      OBVIOUS
  <2>1. seen[c] <= 0 + Lag[c]
      BY <1>2
  <2> QED
      BY <1>1, <2>1 DEF NoCall
<1> QED
    BY <1>1, <1>2, <1>3 DEF CallInv, NoCall

\* The type of the state after a call ends.
LEMMA ReturnsType ==
    ASSUME LimiterTypeOK, NEW c \in Callers, NEW allowed \in BOOLEAN, seen[c] \in 1 .. MaxAge,
           Pipeline(seen[c]) \/ UNCHANGED <<ring, ttl>>,
           Returns(c, allowed), faults' \in 0 .. MaxFaults
    PROVE  LimiterTypeOK'
<1> USE Numbers
<1>1. seen' \in [Callers -> {NoCall} \cup 0 .. MaxAge]
    BY DEF LimiterTypeOK, Returns
<1>2. calls' \subseteq Callers \X (0 .. Stale - 1)
    BY DEF LimiterTypeOK, Returns
<1>3. passed' \subseteq Callers \X (0 .. Span - 1)
    BY DEF LimiterTypeOK, Returns
<1>4. ring' \subseteq 0 .. Stale /\ ttl' \in 0 .. 2 * Window /\ (ttl' = 0) = (ring' = {})
  <2>1. CASE UNCHANGED <<ring, ttl>>
      BY <2>1 DEF LimiterTypeOK
  <2>2. CASE Pipeline(seen[c])
    <3>1. ring' = Recorded(seen[c]) /\ ttl' = 2 * Window
        BY <2>2, ZenonT(30) DEF Pipeline
    <3>2. ring \subseteq 0 .. Stale /\ seen[c] \in 0 .. Stale
        BY DEF LimiterTypeOK
    <3>3. ring' \subseteq 0 .. Stale /\ seen[c] \in ring'
        BY <3>1, <3>2, ZenonT(30) DEF Recorded
    <3>4. ttl' # 0 /\ ring' # {} /\ ttl' \in 0 .. 2 * Window
        BY <3>1, <3>3
    <3> QED
        BY <3>3, <3>4
  <2> QED
      BY <2>1, <2>2
<1> QED
    BY <1>1, <1>2, <1>3, <1>4 DEF LimiterTypeOK

\* A call that ends leaves nothing to be compared with its caller's clock.
LEMMA ReturnsCalls ==
    ASSUME LimiterTypeOK, CallInv, NEW c \in Callers, NEW allowed \in BOOLEAN, Returns(c, allowed)
    PROVE  CallInv'
<1> USE Numbers
<1>1. passed' \subseteq calls'
    BY DEF CallInv, Returns
<1>2. ASSUME NEW e \in calls'
      PROVE  seen'[e[1]] <= e[2] + Lag[e[1]]
  <2>1. e[1] \in Callers /\ e[2] \in Nat
      BY <1>2 DEF LimiterTypeOK, Returns
  <2>2. CASE e[1] = c
      BY <2>1, <2>2 DEF LimiterTypeOK, Returns, NoCall
  <2>3. CASE e[1] # c
      BY <2>1, <2>3 DEF LimiterTypeOK, Returns, CallInv
  <2> QED
      BY <2>2, <2>3
<1> QED
    BY <1>1, <1>2 DEF CallInv

\* The timestamp that a pipeline writes is that of the call it belongs to.
LEMMA ReturnsWritten ==
    ASSUME LimiterTypeOK, CallInv, WrittenInv, NEW c \in Callers, seen[c] > Lag[c],
           NEW allowed \in BOOLEAN, Pipeline(seen[c]) \/ UNCHANGED <<ring, ttl>>,
           Returns(c, allowed)
    PROVE  WrittenInv'
<1>1. seen[c] \in 1 .. MaxAge /\ <<c, 0>> \notin calls
    BY CallEnds
<1>2. PICK late \in [calls -> 1 .. MaxAge] :
          \A a \in ring : a < Stale => \E e \in calls : a = e[2] + late[e]
    BY DEF WrittenInv
<1>3. calls' = calls \cup {<<c, 0>>}
    BY DEF Returns
<1> DEFINE next == [e \in calls' |-> IF e = <<c, 0>> THEN seen[c] ELSE late[e]]
<1>4. next \in [calls' -> 1 .. MaxAge]
    BY <1>1, <1>3
<1>5. \A e \in calls : e \in calls' /\ next[e] = late[e]
    BY <1>1, <1>3
<1>6. <<c, 0>> \in calls' /\ next[<<c, 0>>] = seen[c]
    BY <1>3
<1> HIDE DEF next
<1>7. ASSUME NEW a \in ring', a < Stale
      PROVE  \E e \in calls' : a = e[2] + next[e]
  <2>1. CASE a \in ring
      BY <1>2, <1>5, <1>7, <2>1, ZenonT(30)
  <2>2. CASE a \notin ring
    <3>1. a = seen[c]
        BY <1>7, <2>2 DEF Pipeline, Recorded
    <3>2. a = <<c, 0>>[2] + next[<<c, 0>>]
        BY <1>1, <1>6, <3>1
    <3> QED
        BY <1>6, <3>2, ZenonT(30)
  <2> QED
      BY <2>1, <2>2
<1>8. \A a \in ring' : a < Stale => \E e \in calls' : a = e[2] + next[e]
    BY <1>7
<1> QED
    BY <1>4, <1>8, ZenonT(30) DEF WrittenInv, Stale

\* An event that passed is young enough for nobody to evict its timestamp.
LEMMA CountedStays ==
    ASSUME LimiterTypeOK, NEW e \in passed, NEW k \in 1 .. MaxAge, e[2] + k \in ring,
           e[2] + ttl >= 2 * Window, NEW now \in Nat, Pipeline(now) \/ UNCHANGED <<ring, ttl>>
    PROVE  e[2] + k \in ring' /\ e[2] + ttl' >= 2 * Window
<1>1. e[2] \in Nat /\ e[2] < Window - MaxAge /\ Window \in Nat /\ MaxAge \in Nat
    BY Numbers DEF LimiterTypeOK
<1>2. CASE Pipeline(now)
  <2>1. e[2] + k < now + Window
      BY <1>1
  <2>2. e[2] + 2 * Window >= 2 * Window
      BY <1>1
  <2> QED
      BY <1>2, <2>1, <2>2, ZenonT(30) DEF Pipeline, Recorded
<1>3. CASE UNCHANGED <<ring, ttl>>
    BY <1>3
<1> QED
    BY <1>2, <1>3

\* A call that does not add a counted event to what passed.
LEMMA NotCounted ==
    ASSUME LimiterTypeOK, CountedInv, NEW now \in Nat, Pipeline(now) \/ UNCHANGED <<ring, ttl>>,
           \/ passed' = passed /\ faults' = faults
           \/ \E c \in Callers : passed' = passed \cup {<<c, 0>>} /\ faults' = faults + 1
    PROVE  CountedInv'
<1>0. PICK counted \in SUBSET passed : \E late \in [counted -> 1 .. MaxAge] : Accounts(counted, late)
    BY ZenonT(30) DEF CountedInv
<1>1. PICK late \in [counted -> 1 .. MaxAge] : Accounts(counted, late)
    BY <1>0
<1>2. \A e \in counted : e[2] + late[e] \in ring' /\ e[2] + ttl' >= 2 * Window
    BY <1>1, CountedStays, ZenonT(30) DEF Accounts
<1>3. counted \in SUBSET passed' /\ Cardinality(passed' \ counted) <= faults'
  <2>1. faults \in Nat
      BY Numbers DEF LimiterTypeOK
  <2>2. CASE passed' = passed /\ faults' = faults
      BY <1>1, <2>2, ZenonT(30) DEF Accounts
  <2>3. CASE \E c \in Callers : passed' = passed \cup {<<c, 0>>} /\ faults' = faults + 1
    <3>1. PICK c \in Callers : passed' = passed \cup {<<c, 0>>} /\ faults' = faults + 1
        BY <2>3
    <3>2. IsFiniteSet(passed \ counted)
        BY LimiterFinite, FS_Difference, ZenonT(30)
    <3> DEFINE before == passed \ counted
               more == before \cup {<<c, 0>>}
    <3>3. Cardinality(before) \in Nat /\ IsFiniteSet(more) /\ Cardinality(more) <= Cardinality(before) + 1
      <4> HIDE DEF before
      <4>1. Cardinality(before) \in Nat
          BY <3>2, FS_CardinalityType, Zenon DEF before
      <4>2. IsFiniteSet(more) /\ Cardinality(more) = IF <<c, 0>> \in before THEN Cardinality(before) ELSE Cardinality(before) + 1
          BY <3>2, FS_AddElement, Zenon DEF before
      <4> QED
          BY <4>1, <4>2
    <3>4. passed' \ counted \in SUBSET more
        BY <3>1, ZenonT(30)
    <3> HIDE DEF before, more
    <3>5. /\ Cardinality(passed' \ counted) \in Nat /\ Cardinality(more) \in Nat
          /\ Cardinality(passed' \ counted) <= Cardinality(more)
      <4>1. IsFiniteSet(passed' \ counted) /\ Cardinality(passed' \ counted) <= Cardinality(more)
          BY <3>3, <3>4, FS_Subset, Zenon
      <4> QED
          BY <3>3, <4>1, FS_CardinalityType, Zenon
    <3>6. Cardinality(passed' \ counted) <= faults'
        BY <1>1, <2>1, <3>1, <3>3, <3>5 DEF Accounts, before
    <3> QED
        BY <3>1, <3>6, ZenonT(30)
  <2> QED
      BY <2>2, <2>3
<1> QED
    BY <1>1, <1>2, <1>3, ZenonT(30) DEF CountedInv, Accounts

\* A call that is counted and under the limit: its pipeline found the timestamps
\* of all the events of its caller in the sorted set, and its own is none of them.
LEMMA PassesCounted ==
    ASSUME LimiterTypeOK, CallInv, CountedInv, NEW c \in Callers, seen[c] > Lag[c],
           Pipeline(seen[c]), Cardinality(Recorded(seen[c])) <= Limit,
           passed' = passed \cup {<<c, 0>>}, faults' = faults
    PROVE  CountedInv'
<1> DEFINE new == <<c, 0>>
<1>0. PICK counted \in SUBSET passed : \E late \in [counted -> 1 .. MaxAge] : Accounts(counted, late)
    BY ZenonT(30) DEF CountedInv
<1>1. PICK late \in [counted -> 1 .. MaxAge] : Accounts(counted, late)
    BY <1>0
<1>2. /\ seen[c] \in 1 .. MaxAge /\ new \notin passed
      /\ \A e \in calls : e[1] = c => seen[c] <= e[2] + Lag[c]
    BY CallEnds
<1>3. passed \subseteq calls /\ passed \subseteq Callers \X Nat /\ MaxAge \in Nat /\ Window \in Nat
    BY Numbers DEF CallInv, LimiterTypeOK
<1> DEFINE all == counted \cup {new}
           next == [e \in all |-> IF e = new THEN seen[c] ELSE late[e]]
<1>4. next \in [all -> 1 .. MaxAge]
    BY <1>2, ZenonT(30)
<1>5. /\ \A e \in counted : e # new /\ next[e] = late[e]
      /\ next[new] = seen[c] /\ new[1] = c /\ new[2] = 0
    BY <1>1, <1>2
<1>6. ring' = Recorded(seen[c]) /\ ttl' = 2 * Window
    BY DEF Pipeline
<1>7. all \in SUBSET passed' /\ passed' \ all = passed \ counted
    BY <1>2, ZenonT(30)
<1> HIDE DEF next, all
<1>8. \A e \in counted : /\ next[e] > Lag[e[1]]
                         /\ e[2] + next[e] \in ring'
                         /\ e[2] + ttl' >= 2 * Window
  <2> SUFFICES ASSUME NEW e \in counted
               PROVE  /\ late[e] > Lag[e[1]]
                      /\ e[2] + late[e] \in ring'
                      /\ e[2] + ttl' >= 2 * Window
      BY <1>5, ZenonT(30)
  <2>1. seen[c] \in Nat /\ late[e] \in 1 .. MaxAge /\ e \in passed
      BY <1>2, <1>3
  <2>2. late[e] > Lag[e[1]] /\ e[2] + late[e] \in ring /\ e[2] + ttl >= 2 * Window
      BY <1>1, ZenonT(30) DEF Accounts
  <2> QED
      BY <2>1, <2>2, CountedStays, ZenonT(30)
<1>9. /\ next[new] > Lag[new[1]]
      /\ new[2] + next[new] \in ring'
      /\ new[2] + ttl' >= 2 * Window
  <2>1. 0 + seen[c] = seen[c] /\ 0 + 2 * Window >= 2 * Window
      BY <1>2, <1>3
  <2> QED
      BY <1>5, <1>6, <2>1, ZenonT(30) DEF Recorded
<1>10. ASSUME NEW e \in counted, e[1] = c
       PROVE  seen[c] < e[2] + next[e]
  <2>1. seen[c] <= e[2] + Lag[c] /\ next[e] > Lag[c] /\ e[2] \in Nat /\ Lag[c] \in Nat /\ next[e] \in Nat
      BY <1>1, <1>2, <1>3, <1>5, <1>8, <1>10, Numbers
  <2> QED
      BY <1>2, <2>1
<1>11. \A d, e \in all : d[1] = e[1] /\ d[2] + next[d] = e[2] + next[e] => d = e
  <2> SUFFICES ASSUME NEW d \in all, NEW e \in all, d[1] = e[1], d[2] + next[d] = e[2] + next[e]
               PROVE  d = e
      BY ZenonT(30)
  <2>1. CASE d \in counted /\ e \in counted
      BY <1>1, <1>5, <2>1, ZenonT(30) DEF Accounts
  <2>2. ASSUME NEW x \in counted, x[1] = c, x[2] + next[x] = new[2] + next[new]
        PROVE  FALSE
      BY <1>2, <1>5, <1>10, <2>2
  <2> QED
      BY <1>5, <2>1, <2>2, ZenonT(30) DEF all
<1>12. /\ Cardinality(passed' \ all) <= faults'
       /\ \A e \in all : /\ next[e] > Lag[e[1]]
                         /\ e[2] + next[e] \in ring'
                         /\ e[2] + ttl' >= 2 * Window
    BY <1>1, <1>7, <1>8, <1>9, ZenonT(30) DEF all, Accounts
<1>13. ASSUME NEW d \in Callers
       PROVE  Cardinality({e \in all : e[1] = d}) <= Limit
  <2>1. CASE d # c
    <3>1. {e \in all : e[1] = d} = {e \in counted : e[1] = d}
        BY <1>5, <2>1, ZenonT(30) DEF all
    <3> QED
        BY <1>1, <3>1, ZenonT(30) DEF Accounts
  <2>2. CASE d = c
    <3> DEFINE mine == {e \in all : e[1] = c}
               stamp == [e \in mine |-> e[2] + next[e]]
    <3>1. \A e \in mine : e \in all /\ e[1] = c
        OBVIOUS
    <3>2. \A e \in mine : e[2] + next[e] \in Recorded(seen[c])
        BY <1>6, <1>12, <3>1, ZenonT(30)
    <3>3. stamp \in [mine -> Recorded(seen[c])]
        BY <3>2, ZenonT(30)
    <3>4. \A x, y \in mine : stamp[x] = stamp[y] => x = y
        BY <1>11, <3>1, ZenonT(30)
    <3> HIDE DEF mine, stamp
    <3>5. stamp \in Injection(mine, Recorded(seen[c]))
        BY <3>3, <3>4, Fun_IsInj, ZenonT(30)
    <3>6. IsFiniteSet(Recorded(seen[c]))
      <4>1. IsFiniteSet({a \in ring : a < seen[c] + Window})
        <5>1. {a \in ring : a < seen[c] + Window} \in SUBSET ring
            BY ZenonT(30)
        <5> QED
            BY <5>1, LimiterFinite, FS_Subset, ZenonT(30)
      <4> QED
          BY <4>1, FS_AddElement, ZenonT(30) DEF Recorded
    <3>7. /\ Cardinality(mine) \in Nat /\ Cardinality(Recorded(seen[c])) \in Nat
          /\ Cardinality(mine) <= Cardinality(Recorded(seen[c]))
      <4>1. IsFiniteSet(mine) /\ Cardinality(mine) <= Cardinality(Recorded(seen[c]))
          BY <3>5, <3>6, FS_Injection, Zenon
      <4> QED
          BY <3>6, <4>1, FS_CardinalityType, Zenon
    <3>8. Cardinality(mine) <= Limit
        BY <3>7, Numbers
    <3> QED
        BY <2>2, <3>8 DEF mine
  <2> QED
      BY <2>1, <2>2
<1> QED
    BY <1>4, <1>7, <1>11, <1>12, <1>13, ZenonT(30) DEF CountedInv, Accounts

-----------------------------------------------------------------------------
(* RateLimiter: the passing of time *)

\* The ages that the sorted set holds one unit later.
LEMMA RingAges ==
    ASSUME LimiterTypeOK, TimePasses
    PROVE  /\ \A a \in ring' : a < Stale => a - 1 \in ring
           /\ ttl > 1 => \A a \in ring : a < Stale => a + 1 \in ring'
<1>1. ring \subseteq Int /\ Stale \in Int
    BY Numbers DEF LimiterTypeOK
<1>2. ring' = IF ttl <= 1 THEN {} ELSE {IF a = Stale THEN a ELSE a + 1 : a \in ring}
    BY DEF TimePasses
<1>3. ttl \in Int
    BY Numbers DEF LimiterTypeOK
<1> QED
    BY <1>1, <1>2, <1>3

\* A unit of time leaves every age within its range, and the key is there exactly
\* as long as it has time to live.
LEMMA TimeType ==
    ASSUME LimiterTypeOK, TimePasses
    PROVE  LimiterTypeOK'
<1> USE Numbers
<1>1. ring' \subseteq 0 .. Stale /\ ttl' \in 0 .. 2 * Window /\ (ttl' = 0) = (ring' = {})
  <2>1. ring \subseteq 0 .. Stale /\ ttl \in 0 .. 2 * Window /\ (ttl = 0) = (ring = {})
      BY DEF LimiterTypeOK
  <2>2. ttl' = (IF ttl = 0 THEN 0 ELSE ttl - 1)
      BY DEF TimePasses
  <2>3. ring' = IF ttl <= 1 THEN {} ELSE {IF a = Stale THEN a ELSE a + 1 : a \in ring}
      BY DEF TimePasses
  <2>4. CASE ttl <= 1
      BY <2>1, <2>2, <2>3, <2>4
  <2>5. CASE ttl > 1
    <3>1. ring # {} /\ ttl' # 0 /\ ttl' \in 0 .. 2 * Window
        BY <2>1, <2>2, <2>5
    <3>2. ring' = {IF a = Stale THEN a ELSE a + 1 : a \in ring}
        BY <2>1, <2>3, <2>5
    <3>3. ring' # {}
        BY <3>1, <3>2, ZenonT(30)
    <3>4. \A a \in ring : (IF a = Stale THEN a ELSE a + 1) \in 0 .. Stale
        BY <2>1
    <3>5. ring' \subseteq 0 .. Stale
        BY <3>2, <3>4, ZenonT(30)
    <3> QED
        BY <3>1, <3>3, <3>5, ZenonT(30)
  <2> QED
      BY <2>1, <2>4, <2>5
<1>2. seen' \in [Callers -> {NoCall} \cup 0 .. MaxAge]
    BY DEF LimiterTypeOK, TimePasses, NoCall
<1>3. calls' \subseteq Callers \X (0 .. Stale - 1) /\ passed' \subseteq Callers \X (0 .. Span - 1)
  <2>1. calls \in SUBSET (Callers \X Nat) /\ passed \in SUBSET (Callers \X Nat) /\ Stale \in Nat /\ Span \in Nat
      BY DEF LimiterTypeOK
  <2>2. \A e \in calls' : e \in Callers \X (1 .. Stale - 1)
      BY <2>1, AgedEvents, ZenonT(30) DEF TimePasses
  <2>3. \A e \in passed' : e \in Callers \X (1 .. Span - 1)
      BY <2>1, AgedEvents, ZenonT(30) DEF TimePasses
  <2> QED
      BY <2>1, <2>2, <2>3
<1> QED
    BY <1>1, <1>2, <1>3, ZenonT(30) DEF LimiterTypeOK, TimePasses

\* The timestamp of a call under way and the calls of its caller that have ended
\* age together.
LEMMA TimeCalls ==
    ASSUME LimiterTypeOK, CallInv, TimePasses
    PROVE  CallInv'
<1>1. /\ calls \in SUBSET (Callers \X Nat) /\ passed \in SUBSET (Callers \X Nat)
      /\ Stale \in Nat /\ Span \in Nat /\ Span <= Stale
    BY Numbers DEF LimiterTypeOK
<1>2. /\ calls' = Aged(calls, Stale) /\ passed' = Aged(passed, Span)
      /\ \A c \in Callers : seen'[c] = IF seen[c] = NoCall THEN NoCall ELSE seen[c] + 1
    BY DEF TimePasses
<1>3. passed' \subseteq calls'
    BY <1>1, <1>2 DEF Aged, CallInv
<1>4. ASSUME NEW e \in calls'
      PROVE  seen'[e[1]] <= e[2] + Lag[e[1]]
  <2>1. e \in Callers \X (1 .. Stale - 1) /\ <<e[1], e[2] - 1>> \in calls
      BY <1>1, <1>2, <1>4, AgedEvents, ZenonT(30)
  <2>2. seen[e[1]] <= (e[2] - 1) + Lag[e[1]]
      BY <2>1 DEF CallInv
  <2>3. e[1] \in Callers /\ e[2] \in Nat \ {0} /\ Lag[e[1]] \in Nat /\ seen[e[1]] \in Int
      BY <2>1, Numbers DEF LimiterTypeOK, NoCall
  <2> QED
      BY <1>2, <2>2, <2>3 DEF NoCall
<1> QED
    BY <1>3, <1>4 DEF CallInv

\* A timestamp ages with the call that wrote it, and the history forgets a call
\* only when every caller evicts its timestamp.
LEMMA TimeWritten ==
    ASSUME LimiterTypeOK, WrittenInv, TimePasses
    PROVE  WrittenInv'
<1>1. PICK late \in [calls -> 1 .. MaxAge] :
          \A a \in ring : a < Stale => \E e \in calls : a = e[2] + late[e]
    BY DEF WrittenInv
<1>2. calls \in SUBSET (Callers \X Nat) /\ ring \subseteq Nat /\ Stale \in Nat /\ MaxAge \in Nat
    BY Numbers DEF LimiterTypeOK
<1>3. calls' = Aged(calls, Stale)
    BY DEF TimePasses
<1> DEFINE next == [e \in calls' |-> late[<<e[1], e[2] - 1>>]]
<1>4. \A e \in calls' : <<e[1], e[2] - 1>> \in calls
    BY <1>2, <1>3, AgedEvents, ZenonT(30)
<1>5. next \in [calls' -> 1 .. MaxAge]
    BY <1>4, ZenonT(30)
<1>6. ASSUME NEW a \in ring', a < Stale
      PROVE  \E e \in calls' : a = e[2] + next[e]
  <2>1. a - 1 \in ring
      BY <1>6, RingAges, ZenonT(30)
  <2>2. a \in Nat /\ a - 1 < Stale
      BY <1>2, <1>6, <2>1, TimeType, Numbers DEF LimiterTypeOK
  <2>3. PICK e \in calls : a - 1 = e[2] + late[e]
      BY <1>1, <2>1, <2>2, ZenonT(30)
  <2>4. e \in Callers \X Nat /\ late[e] \in Nat \ {0}
      BY <1>2
  <2>5. e[2] < Stale - 1
      BY <1>2, <1>6, <2>2, <2>3, <2>4
  <2>6. <<e[1], e[2] + 1>> \in calls'
      BY <1>2, <1>3, <2>5, AgedEvents, ZenonT(30)
  <2>7. next[<<e[1], e[2] + 1>>] = late[e]
    <3>1. <<e[1], (e[2] + 1) - 1>> = e
        BY <2>4
    <3> QED
        BY <2>6, <3>1
  <2>8. a = (e[2] + 1) + late[e]
      BY <2>2, <2>3, <2>4
  <2> QED
      BY <2>6, <2>7, <2>8
<1> HIDE DEF next
<1>7. \A a \in ring' : a < Stale => \E e \in calls' : a = e[2] + next[e]
    BY <1>6
<1> QED
    BY <1>5, <1>7, ZenonT(30) DEF WrittenInv, Stale

\* What was counted is still in the sorted set when the history of events that
\* passed ends: the key does not expire before.
LEMMA TimeCounted ==
    ASSUME LimiterTypeOK, CountedInv, TimePasses
    PROVE  CountedInv'
<1>1. PICK counted \in SUBSET passed : \E late \in [counted -> 1 .. MaxAge] : Accounts(counted, late)
    BY ZenonT(30) DEF CountedInv
<1>2. PICK late \in [counted -> 1 .. MaxAge] : Accounts(counted, late)
    BY <1>1
<1>3. /\ passed \in SUBSET (Callers \X (0 .. Span - 1)) /\ passed \in SUBSET (Callers \X Nat)
      /\ counted \in SUBSET (Callers \X Nat)
    BY Numbers DEF LimiterTypeOK
<1>4. /\ Span \in Nat /\ Stale \in Nat /\ MaxAge \in Nat /\ Window \in Nat \ {0}
      /\ Span + MaxAge <= Stale /\ Span <= Window
    BY Numbers
<1>5. /\ passed' = Aged(passed, Span) /\ faults' = faults
      /\ ttl' = IF ttl = 0 THEN 0 ELSE ttl - 1
    BY DEF TimePasses
<1> DEFINE all == Aged(counted, Span)
           next == [e \in all |-> late[<<e[1], e[2] - 1>>]]
<1>6. \A e \in all : e \in Callers \X (1 .. Span - 1) /\ <<e[1], e[2] - 1>> \in counted
    BY <1>3, <1>4, AgedEvents, ZenonT(30)
<1>7. next \in [all -> 1 .. MaxAge]
    BY <1>6, ZenonT(30)
<1>8. all \in SUBSET passed'
    BY <1>5, ZenonT(30) DEF Aged
<1>9. Cardinality(passed' \ all) <= faults'
  <2> DEFINE rest == passed \ counted
  <2>1. IsFiniteSet(rest) /\ rest \in SUBSET (Callers \X Nat)
      BY <1>3, LimiterFinite, FS_Difference, ZenonT(30)
  <2>2. passed' \ all \in SUBSET Aged(rest, Span)
      BY <1>5, ZenonT(30) DEF Aged
  <2>3. Cardinality(rest) <= faults
      BY <1>2, ZenonT(30) DEF Accounts
  <2> HIDE DEF rest
  <2>4. IsFiniteSet(Aged(rest, Span)) /\ Cardinality(Aged(rest, Span)) <= Cardinality(rest)
      BY <1>4, <2>1, AgedSize, ZenonT(30)
  <2>5. IsFiniteSet(passed' \ all) /\ Cardinality(passed' \ all) <= Cardinality(Aged(rest, Span))
      BY <2>2, <2>4, FS_Subset, Zenon
  <2>6. /\ Cardinality(passed' \ all) \in Nat /\ Cardinality(Aged(rest, Span)) \in Nat
        /\ Cardinality(rest) \in Nat
      BY <2>1, <2>4, <2>5, FS_CardinalityType, Zenon
  <2>7. faults \in Nat
      BY Numbers DEF LimiterTypeOK
  <2> HIDE DEF all
  <2> QED
      BY <1>5, <2>3, <2>4, <2>5, <2>6, <2>7
<1>10. ASSUME NEW c \in Callers
       PROVE  Cardinality({e \in all : e[1] = c}) <= Limit
  <2> DEFINE mine == {e \in counted : e[1] = c}
  <2>1. IsFiniteSet(mine) /\ mine \in SUBSET (Callers \X Nat)
    <3>1. mine \in SUBSET passed
        BY ZenonT(30)
    <3> QED
        BY <1>3, <3>1, LimiterFinite, FS_Subset, ZenonT(30)
  <2>2. {e \in all : e[1] = c} \in SUBSET Aged(mine, Span)
      BY DEF Aged
  <2>3. Cardinality(mine) <= Limit
      BY <1>2, ZenonT(30) DEF Accounts
  <2> HIDE DEF mine, all
  <2>4. IsFiniteSet(Aged(mine, Span)) /\ Cardinality(Aged(mine, Span)) <= Cardinality(mine)
      BY <1>4, <2>1, AgedSize, ZenonT(30)
  <2> DEFINE left == {e \in all : e[1] = c}
  <2>5. left \in SUBSET Aged(mine, Span)
      BY <2>2
  <2> HIDE DEF left
  <2>6. IsFiniteSet(left) /\ Cardinality(left) <= Cardinality(Aged(mine, Span))
      BY <2>4, <2>5, FS_Subset, Zenon
  <2>7. Cardinality(left) \in Nat /\ Cardinality(Aged(mine, Span)) \in Nat /\ Cardinality(mine) \in Nat
      BY <2>1, <2>4, <2>6, FS_CardinalityType, Zenon
  <2>8. Cardinality(left) <= Limit
      BY <2>3, <2>4, <2>6, <2>7, Numbers
  <2> QED
      BY <2>8 DEF left
<1>11. ASSUME NEW e \in all
       PROVE  /\ next[e] > Lag[e[1]]
              /\ e[2] + next[e] \in ring'
              /\ e[2] + ttl' >= 2 * Window
  <2> DEFINE d == <<e[1], e[2] - 1>>
  <2>1. d \in counted /\ d[1] = e[1] /\ d[2] = e[2] - 1 /\ e[2] \in 1 .. Span - 1
      BY <1>6, <1>11
  <2>2. next[e] = late[d] /\ late[d] \in 1 .. MaxAge
      BY <1>11, <2>1, ZenonT(30)
  <2> HIDE DEF d, next, all
  <2>3. late[d] > Lag[d[1]] /\ d[2] + late[d] \in ring /\ d[2] + ttl >= 2 * Window
      BY <1>2, <2>1, ZenonT(30) DEF Accounts
  <2>4. ttl \in Nat
      BY Numbers DEF LimiterTypeOK
  <2>5. ttl > 1 /\ d[2] + late[d] < Stale
      BY <1>4, <2>1, <2>2, <2>3, <2>4
  <2>6. (d[2] + late[d]) + 1 \in ring'
      BY <2>3, <2>5, RingAges, ZenonT(30)
  <2>7. e[2] + late[d] = (d[2] + late[d]) + 1
      BY <1>4, <2>1, <2>2
  <2>8. e[2] + ttl' >= 2 * Window
      BY <1>4, <1>5, <2>1, <2>3, <2>4, <2>5
  <2> QED
      BY <2>1, <2>2, <2>3, <2>6, <2>7, <2>8, ZenonT(30)
<1>12. ASSUME NEW x \in all, NEW y \in all, x[1] = y[1], x[2] + next[x] = y[2] + next[y]
       PROVE  x = y
  <2> DEFINE u == <<x[1], x[2] - 1>>
             v == <<y[1], y[2] - 1>>
  <2>1. /\ u \in counted /\ v \in counted /\ u[1] = x[1] /\ v[1] = y[1]
        /\ u[2] = x[2] - 1 /\ v[2] = y[2] - 1 /\ x[2] \in Nat /\ y[2] \in Nat
        /\ x \in Callers \X Nat /\ y \in Callers \X Nat
      BY <1>6, <1>12
  <2>2. next[x] = late[u] /\ next[y] = late[v] /\ late[u] \in Nat /\ late[v] \in Nat
      BY <1>4, <1>12, <2>1
  <2> HIDE DEF u, v, next, all
  <2>3. u[1] = v[1] /\ u[2] + late[u] = v[2] + late[v]
      BY <1>12, <2>1, <2>2
  <2>4. u = v
      BY <1>2, <2>1, <2>3, ZenonT(30) DEF Accounts
  <2> QED
      BY <2>1, <2>4
<1> HIDE DEF next, all
<1>13. Accounts(all, next)'
    BY <1>9, <1>10, <1>11, <1>12, ZenonT(30) DEF Accounts
<1> QED
    BY <1>7, <1>8, <1>13, ZenonT(30) DEF CountedInv

-----------------------------------------------------------------------------
(* RateLimiter: the theorems *)

\* The key does not exist and nobody has called.
LEMMA LimiterStart == LimiterInit => LimiterInv
<1> SUFFICES ASSUME LimiterInit
             PROVE  LimiterInv
    OBVIOUS
<1> USE DEF LimiterInit
<1>1. LimiterTypeOK
    BY Numbers DEF LimiterTypeOK, NoCall
<1>2. CallInv
    BY ZenonT(30) DEF CallInv
<1>3. WrittenInv
  <2>1. [e \in calls |-> 1] \in [calls -> 1 .. MaxAge]
      BY ZenonT(30)
  <2> QED
      BY <2>1, ZenonT(30) DEF WrittenInv
<1>4. CountedInv
  <2> DEFINE late == [e \in {} |-> 1]
  <2>1. late \in [{} -> 1 .. MaxAge] /\ {} \in SUBSET passed
      BY ZenonT(30)
  <2>2. Cardinality({}) = 0
      BY FS_EmptySet
  <2>3. passed \ {} = {} /\ \A c \in Callers : {e \in {} : e[1] = c} = {}
      BY ZenonT(30)
  <2> HIDE DEF late
  <2>4. Cardinality(passed \ {}) <= faults /\ \A c \in Callers : Cardinality({e \in {} : e[1] = c}) <= Limit
      BY <2>2, <2>3, Numbers
  <2>5. Accounts({}, late)
      BY <2>4, ZenonT(30) DEF Accounts
  <2> QED
      BY <2>1, <2>5, ZenonT(30) DEF CountedInv
<1> QED
    BY <1>1, <1>2, <1>3, <1>4 DEF LimiterInv

\* A caller that reads its clock changes nothing else.
LEMMA AllowStep ==
    ASSUME LimiterInv, NEW c \in Callers, Allow(c)
    PROVE  LimiterInv'
<1>1. LimiterTypeOK'
    BY Numbers DEF LimiterInv, LimiterTypeOK, Allow
<1>2. CallInv'
  <2>1. ASSUME NEW e \in calls
        PROVE  seen'[e[1]] <= e[2] + Lag[e[1]]
    <3>1. e[1] \in Callers /\ e[2] \in Nat /\ Lag[e[1]] \in Nat /\ seen \in [Callers -> {NoCall} \cup 0 .. MaxAge]
        BY <2>1, Numbers DEF LimiterInv, LimiterTypeOK
    <3>2. seen[e[1]] <= e[2] + Lag[e[1]]
        BY ZenonT(30) DEF LimiterInv, CallInv
    <3>3. seen'[e[1]] \in {seen[e[1]], Lag[e[1]]}
        BY <3>1 DEF Allow
    <3> QED
        BY <3>1, <3>2, <3>3
  <2> QED
      BY <2>1 DEF LimiterInv, CallInv, Allow
<1>3. WrittenInv' /\ CountedInv'
    BY ZenonT(30) DEF LimiterInv, WrittenInv, CountedInv, Accounts, Allow
<1> QED
    BY <1>1, <1>2, <1>3 DEF LimiterInv

\* A pipeline that ran without an error.
LEMMA ExecStep ==
    ASSUME LimiterInv, NEW c \in Callers, Exec(c)
    PROVE  LimiterInv'
<1> DEFINE allowed == UnderLimit(seen[c])
<1>1. LimiterTypeOK /\ CallInv /\ WrittenInv /\ CountedInv
    BY DEF LimiterInv
<1>2. /\ seen[c] > Lag[c] /\ Pipeline(seen[c]) /\ Returns(c, allowed) /\ faults' = faults
      /\ allowed \in BOOLEAN
    BY DEF Exec, Succeeds, UnderLimit
<1>3. seen[c] \in 1 .. MaxAge /\ seen[c] \in Nat
  <2>1. seen[c] \in 1 .. MaxAge
      BY <1>1, <1>2, CallEnds, ZenonT(30)
  <2> QED
      BY <2>1, Numbers
<1>4. faults' \in 0 .. MaxFaults
    BY <1>1, <1>2 DEF LimiterTypeOK
<1>5. CountedInv'
  <2>1. CASE allowed
      BY <1>1, <1>2, <2>1, PassesCounted, ZenonT(30) DEF Returns, UnderLimit
  <2>2. CASE ~allowed
    <3>1. passed' = passed
        BY <1>2, <2>2 DEF Returns
    <3> QED
        BY <1>1, <1>2, <1>3, <3>1, NotCounted, ZenonT(30)
  <2> QED
      BY <2>1, <2>2
<1> HIDE DEF allowed
<1>6. LimiterTypeOK'
    BY <1>1, <1>2, <1>3, <1>4, ReturnsType, ZenonT(30)
<1>7. CallInv' /\ WrittenInv'
    BY <1>1, <1>2, ReturnsCalls, ReturnsWritten, ZenonT(30)
<1> QED
    BY <1>5, <1>6, <1>7, ZenonT(30) DEF LimiterInv

\* A call that failed: its event passes uncounted, at the expense of a fault.
LEMMA ExecFailsStep ==
    ASSUME LimiterInv, NEW c \in Callers, ExecFails(c)
    PROVE  LimiterInv'
<1>1. LimiterTypeOK /\ CallInv /\ WrittenInv /\ CountedInv
    BY DEF LimiterInv
<1>2. /\ seen[c] > Lag[c] /\ (Pipeline(seen[c]) \/ UNCHANGED <<ring, ttl>>) /\ Returns(c, TRUE)
      /\ faults < MaxFaults /\ faults' = faults + 1
    BY ZenonT(30) DEF ExecFails, Fails
<1>3. seen[c] \in 1 .. MaxAge /\ seen[c] \in Nat
  <2>1. seen[c] \in 1 .. MaxAge
      BY <1>1, <1>2, CallEnds, ZenonT(30)
  <2> QED
      BY <2>1, Numbers
<1>4. faults' \in 0 .. MaxFaults
    BY <1>1, <1>2, Numbers DEF LimiterTypeOK
<1>5. passed' = passed \cup {<<c, 0>>}
    BY <1>2 DEF Returns
<1>6. CountedInv'
    BY <1>1, <1>2, <1>3, <1>5, NotCounted, ZenonT(30)
<1>7. LimiterTypeOK'
    BY <1>1, <1>2, <1>3, <1>4, ReturnsType, ZenonT(30)
<1>8. CallInv' /\ WrittenInv'
    BY <1>1, <1>2, ReturnsCalls, ReturnsWritten, ZenonT(30)
<1> QED
    BY <1>6, <1>7, <1>8, ZenonT(30) DEF LimiterInv

\* The sorted set, its time to live and the calls under way agree with the calls
\* that have ended and the events that have passed, in every reachable state.
THEOREM LimiterInvariance == LimiterSpec => []LimiterInv
<1>1. LimiterInv /\ [LimiterNext]_limiterVars => LimiterInv'
  <2> SUFFICES ASSUME LimiterInv, [LimiterNext]_limiterVars
               PROVE  LimiterInv'
      OBVIOUS
  <2>1. CASE TimePasses
      BY <2>1, TimeType, TimeCalls, TimeWritten, TimeCounted, ZenonT(30) DEF LimiterInv
  <2>2. CASE UNCHANGED limiterVars
      BY <2>2, ZenonT(30) DEF limiterVars, LimiterInv, LimiterTypeOK, CallInv, WrittenInv, CountedInv, Accounts
  <2> QED
      BY <2>1, <2>2, AllowStep, ExecStep, ExecFailsStep, ZenonT(30) DEF LimiterNext
<1> QED
    BY <1>1, LimiterStart, PTL DEF LimiterSpec

\* However many callers there are and however their clocks differ, no more passes
\* in a window than Limit for each of them and one event for every call that fails.
THEOREM LimitHolds == LimiterSpec => []PassedIsLimited
<1>1. ASSUME LimiterInv
      PROVE  PassedIsLimited
  <2>1. PICK counted \in SUBSET passed : \E late \in [counted -> 1 .. MaxAge] : Accounts(counted, late)
      BY <1>1, ZenonT(30) DEF LimiterInv, CountedInv
  <2>2. /\ Cardinality(passed \ counted) <= faults
        /\ \A c \in Callers : Cardinality({e \in counted : e[1] = c}) <= Limit
      BY <2>1, ZenonT(30) DEF Accounts
  <2>3. IsFiniteSet(passed) /\ passed \in SUBSET (Callers \X (0 .. Span - 1)) /\ faults \in Nat
      BY <1>1, LimiterFinite, Numbers DEF LimiterInv, LimiterTypeOK
  <2>4. counted \in SUBSET (Callers \X (0 .. Span - 1)) /\ IsFiniteSet(counted) /\ IsFiniteSet(passed \ counted)
      BY <2>3, FS_Subset, FS_Difference, ZenonT(30)
  <2>5. ASSUME NEW c \in Callers
        PROVE  IsFiniteSet({e \in counted : e[1] = c})
    <3>1. {e \in counted : e[1] = c} \in SUBSET counted
        BY ZenonT(30)
    <3> QED
        BY <2>4, <3>1, FS_Subset, ZenonT(30)
  <2>6. Cardinality(counted) <= Limit * Cardinality(Callers)
      BY <2>2, <2>4, <2>5, FibresBound, RateLimiterAssumption, Numbers, ZenonT(30)
  <2>7. passed = counted \cup (passed \ counted) /\ counted \cap (passed \ counted) = {}
      BY ZenonT(30)
  <2>8. Cardinality(passed) = Cardinality(counted) + Cardinality(passed \ counted) - Cardinality({})
      BY <2>4, <2>7, FS_Union
  <2>9. /\ Cardinality(counted) \in Nat /\ Cardinality(passed \ counted) \in Nat
        /\ Cardinality(Callers) \in Nat /\ Cardinality({}) = 0
      BY <2>4, FS_CardinalityType, FS_EmptySet, RateLimiterAssumption, ZenonT(30)
  <2>10. Limit * Cardinality(Callers) \in Nat
      BY <2>9, Numbers
  <2> QED
      BY <2>2, <2>3, <2>6, <2>8, <2>9, <2>10 DEF PassedIsLimited
<1> QED
    BY <1>1, LimiterInvariance, PTL

\* Whoever is refused was over the limit: the calls of the last window, its own
\* among them, are more than Limit, whatever the clocks, the delays and the faults.
THEOREM NoneRefusedUnderLimit == LimiterSpec => RefusedWasOver
<1> DEFINE Over == \A c \in Callers :
                     seen[c] # NoCall /\ seen'[c] = NoCall /\ <<c, 0>> \notin passed'
                         => Cardinality(calls') > Limit
<1>1. ASSUME LimiterInv, LimiterInv', [LimiterNext]_limiterVars
      PROVE  [Over]_limiterVars
  <2> SUFFICES ASSUME NEW c \in Callers, LimiterNext,
                      seen[c] # NoCall, seen'[c] = NoCall, <<c, 0>> \notin passed'
               PROVE  Cardinality(calls') > Limit
      BY <1>1
  <2>1. seen \in [Callers -> {NoCall} \cup 0 .. MaxAge]
      BY <1>1 DEF LimiterInv, LimiterTypeOK
  <2>2. ~TimePasses
    <3>1. seen[c] \in Nat
        BY <2>1, Numbers
    <3> QED
        BY <3>1 DEF TimePasses, NoCall
  <2>3. \A d \in Callers : ~Allow(d)
      BY <2>1, Numbers DEF Allow, NoCall
  <2>4. \A d \in Callers : Exec(d) \/ ExecFails(d) => d = c
      BY <2>1, ZenonT(30) DEF Exec, ExecFails, Returns
  <2>5. ~ExecFails(c)
      BY ZenonT(30) DEF ExecFails, Returns
  <2>6. Exec(c)
      BY <2>2, <2>3, <2>4, <2>5 DEF LimiterNext
  <2>7. ~UnderLimit(seen[c]) /\ ring' = Recorded(seen[c])
      BY <2>6 DEF Exec, Returns, Pipeline
  <2>8. IsFiniteSet(ring') /\ IsFiniteSet(calls')
      BY <1>1, BoundedIsFinite, ZenonT(30) DEF LimiterInv, LimiterTypeOK, Stale
  <2>9. \A a \in ring' : a \in Nat /\ a < Stale
    <3>1. seen[c] \in 0 .. MaxAge
        BY <2>1
    <3>2. \A a \in ring : a \in Nat
        BY <1>1, Numbers DEF LimiterInv, LimiterTypeOK
    <3> QED
        BY <2>7, <3>1, <3>2, Numbers DEF Recorded
  <2>10. PICK late \in [calls' -> 1 .. MaxAge] :
             \A a \in ring' : a < Stale => \E e \in calls' : a = e[2] + late[e]
      BY <1>1, ZenonT(30) DEF LimiterInv, WrittenInv, Stale
  <2> DEFINE by == [a \in ring' |-> CHOOSE e \in calls' : a = e[2] + late[e]]
  <2>11. \A a \in ring' : by[a] \in calls' /\ a = by[a][2] + late[by[a]]
      BY <2>9, <2>10, ZenonT(30)
  <2>12. by \in [ring' -> calls']
      BY <2>11, ZenonT(30)
  <2>13. \A a, b \in ring' : by[a] = by[b] => a = b
      BY <2>11, ZenonT(30)
  <2> HIDE DEF by
  <2>14. by \in Injection(ring', calls')
      BY <2>12, <2>13, Fun_IsInj, Zenon
  <2>15. Cardinality(ring') <= Cardinality(calls')
      BY <2>8, <2>14, FS_Injection, Zenon
  <2>16. Cardinality(ring') \in Nat /\ Cardinality(calls') \in Nat
      BY <2>8, FS_CardinalityType, Zenon
  <2>17. ~(Cardinality(ring') <= Limit)
      BY <2>7 DEF UnderLimit
  <2> QED
      BY <2>15, <2>16, <2>17, Numbers
<1> QED
    BY <1>1, LimiterInvariance, PTL DEF LimiterSpec, RefusedWasOver

=============================================================================
