---------------------------- MODULE RateLimiter ----------------------------
(***************************************************************************)
(* internal/redis/rate_limiter.go: Allow, called by several dispatchers    *)
(* for one key.  The clock is read in the caller, the pipeline runs later  *)
(* in Redis, all of it at once.                                            *)
(*                                                                         *)
(* A unit of time is the resolution of the clock: callers that read it in  *)
(* the same unit have the same timestamp.  Timestamps are kept as ages, so *)
(* that time has no end; the age of a timestamp that every caller evicts   *)
(* is not told apart from a greater one.                                   *)
(***************************************************************************)
EXTENDS Calls, FiniteSets

CONSTANTS
    Callers,    \* the dispatchers, each of which makes one call at a time
    Limit,      \* the events allowed per window
    Window,     \* the length of the window
    Lag,        \* Lag[c]: how far the clock of c is behind
    MaxAge      \* bound: the age of a timestamp when its pipeline runs

ASSUME RateLimiterAssumption ==
    /\ IsFiniteSet(Callers)
    /\ {Limit, Window, MaxAge} \subseteq Nat
    /\ Lag \in [Callers -> 0 .. MaxAge]
    /\ MaxAge < Window

VARIABLES
    ring,   \* the ages of the timestamps in the sorted set of the key
    ttl,    \* time until the key expires; 0 when there is none
    seen,   \* seen[c]: age of the timestamp of the call of c, or NoCall
    calls,  \* history: who ended a call, and how long ago
    passed  \* history: the same for the events that passed

limiterVars == <<ring, ttl, seen, calls, passed, faults>>

NoCall == -1

\* The age at which every caller evicts a timestamp, and the length of time in
\* which none that was written evicts another.
Stale == Window + MaxAge
Span == Window - MaxAge

LimiterTypeOK ==
    /\ ring \subseteq 0 .. Stale
    /\ ttl \in 0 .. 2 * Window
    /\ (ttl = 0) = (ring = {})
    /\ seen \in [Callers -> {NoCall} \cup 0 .. MaxAge]
    /\ calls \subseteq Callers \X (0 .. Stale - 1)
    /\ passed \subseteq Callers \X (0 .. Span - 1)
    /\ faults \in 0 .. MaxFaults

LimiterInit ==
    /\ ring = {}
    /\ ttl = 0
    /\ seen = [c \in Callers |-> NoCall]
    /\ calls = {}
    /\ passed = {}
    /\ faults = 0

\* Allow reads the clock of the caller.
Allow(c) ==
    /\ seen[c] = NoCall
    /\ seen' = [seen EXCEPT ![c] = Lag[c]]
    /\ UNCHANGED <<ring, ttl, calls, passed, faults>>

\* Mutant: nothing is evicted.
NeverEvicted(now) == ring \cup {now}

\* ZREMRANGEBYSCORE and ZADD.  The member is the timestamp itself, so that an
\* event with the timestamp of another one is not added to the set.
Recorded(now) == {a \in ring : a < now + Window} \cup {now}

\* Mutant: the event is counted before it is added.
UnderLimitBefore(now) == Cardinality(Recorded(now) \ {now}) <= Limit

\* ZCARD and the comparison: events that were refused count as well.
UnderLimit(now) == Cardinality(Recorded(now)) <= Limit

\* Mutant: the key is never given a time to live.
PipelineWithoutExpire(now) ==
    /\ ring' = Recorded(now)
    /\ UNCHANGED ttl

\* EXPIRE comes last in the pipeline.
Pipeline(now) ==
    /\ ring' = Recorded(now)
    /\ ttl' = 2 * Window

Returns(c, allowed) ==
    /\ seen' = [seen EXCEPT ![c] = NoCall]
    /\ calls' = calls \cup {<<c, 0>>}
    /\ passed' = IF allowed THEN passed \cup {<<c, 0>>} ELSE passed

\* The pipeline runs, some time after the clock was read.
Exec(c) ==
    /\ seen[c] > Lag[c]
    /\ Succeeds(TRUE)
    /\ Pipeline(seen[c])
    /\ Returns(c, UnderLimit(seen[c]))

\* Allow returns an error, whether the pipeline ran or not, and the dispatcher
\* lets the event pass.
ExecFails(c) ==
    /\ seen[c] > Lag[c]
    /\ Fails(TRUE)
    /\ Pipeline(seen[c]) \/ UNCHANGED <<ring, ttl>>
    /\ Returns(c, TRUE)

\* The histories go back as far as the properties ask.
Aged(history, age) == {<<e[1], e[2] + 1>> : e \in {h \in history : h[2] < age - 1}}

\* A unit of time passes, and with it the key may expire.
TimePasses ==
    /\ \A c \in Callers : seen[c] < MaxAge
    /\ ttl' = IF ttl = 0 THEN 0 ELSE ttl - 1
    /\ ring' = IF ttl <= 1 THEN {} ELSE {IF a = Stale THEN a ELSE a + 1 : a \in ring}
    /\ seen' = [c \in Callers |-> IF seen[c] = NoCall THEN NoCall ELSE seen[c] + 1]
    /\ calls' = Aged(calls, Stale)
    /\ passed' = Aged(passed, Span)
    /\ UNCHANGED faults

LimiterNext ==
    \/ \E c \in Callers : Allow(c) \/ Exec(c) \/ ExecFails(c)
    \/ TimePasses

LimiterSpec == LimiterInit /\ [][LimiterNext]_limiterVars

-----------------------------------------------------------------------------
(* Properties *)

\* "limit is the maximum number of events allowed per window": what passes in a
\* window, less the time by which a timestamp may be late, is at most Limit for
\* each caller, and one event more for every call that fails.  Callers that
\* share a timestamp count as one event, and a late caller evicts less than it
\* should have counted, so that nothing stronger is true of several callers.
PassedIsLimited ==
    Cardinality(passed) <= Limit * Cardinality(Callers) + faults

\* An event is refused only if more than Limit calls, itself included, were made
\* within a window and the time by which a timestamp may be late: whoever keeps
\* to the rate is not refused for what happened earlier.
RefusedWasOver ==
    [][\A c \in Callers :
          seen[c] # NoCall /\ seen'[c] = NoCall /\ <<c, 0>> \notin passed'
              => Cardinality(calls') > Limit]_limiterVars

-----------------------------------------------------------------------------
(* The strengthening of PassedIsLimited and RefusedWasOver that every step
   preserves. *)

\* A caller reads its clock after its earlier calls have ended.
CallInv ==
    /\ passed \subseteq calls
    /\ \A e \in calls : seen[e[1]] <= e[2] + Lag[e[1]]

\* late[e] is the age that the timestamp of a call had when the call ended.  A
\* timestamp that some caller still counts is that of a call which the history
\* remembers.
WrittenInv ==
    \E late \in [calls -> 1 .. MaxAge] :
        \A a \in ring : a < Stale => \E e \in calls : a = e[2] + late[e]

\* What passed because it was counted, and not because its call failed, is in the
\* sorted set until the history forgets it: nobody evicts it and the key does not
\* expire.  No two events of a caller have the same timestamp, so that the last
\* one to pass found them all.
Accounts(counted, late) ==
    /\ Cardinality(passed \ counted) <= faults
    /\ \A e \in counted : /\ late[e] > Lag[e[1]]
                          /\ e[2] + late[e] \in ring
                          /\ e[2] + ttl >= 2 * Window
    /\ \A d, e \in counted : d[1] = e[1] /\ d[2] + late[d] = e[2] + late[e] => d = e
    /\ \A c \in Callers : Cardinality({e \in counted : e[1] = c}) <= Limit

CountedInv ==
    \E counted \in SUBSET passed : \E late \in [counted -> 1 .. MaxAge] : Accounts(counted, late)

\* The inductive invariant.
LimiterInv == LimiterTypeOK /\ CallInv /\ WrittenInv /\ CountedInv

=============================================================================
