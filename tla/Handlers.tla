------------------------------ MODULE Handlers ------------------------------
(***************************************************************************)
(* One task in the hands of a worker: retry.Do of pkg/retry, the function  *)
(* it calls in services/worker/worker.go, and the two handlers of          *)
(* internal/handlers.  The e-mail handler leaves a blocking SMTP call in a *)
(* goroutine of its own, which may outlive it; the webhook handler makes   *)
(* an HTTP call that its context and its client's timeout end.             *)
(* Worker has the same loop among the other calls of processMessage, with  *)
(* a handler that just succeeds or fails.                                  *)
(***************************************************************************)
EXTENDS Integers

CONSTANTS
    MaxRetries,      \* the configured number of retries
    TaskTimeout,     \* the timeout of one call of the handler, in ticks
    ClientTimeout,   \* the timeout of the webhook handler's HTTP client
    BaseDelay        \* the base of the backoff

ASSUME HandlersAssumption ==
    /\ MaxRetries \in Int
    /\ TaskTimeout \in Nat \ {0}
    /\ ClientTimeout \in Nat \ {0}
    /\ BaseDelay \in Nat

\* retry.Do makes at least one attempt.
MaxAttempts == IF MaxRetries + 1 <= 0 THEN 1 ELSE MaxRetries + 1
Attempts == 1 .. MaxAttempts

VARIABLES
    kind,        \* the type of the task
    valid,       \* its payload decodes and has the field the handler needs
    cancelled,   \* the context of the consumer is done
    phase,       \* where retry.Do is
    attempt,     \* its loop variable
    timer,       \* what is left of the handler's timeout or of the backoff
    sender,      \* sender[a]: the call to the server that attempt a made
    result,      \* result[a]: what that call returned
    delivered,   \* history: the attempts whose message or request the server took
    elapsed      \* history: ticks spent waiting

loopVars == <<phase, attempt, timer>>
sendVars == <<sender, result, delivered>>
vars == <<kind, valid, cancelled, loopVars, sendVars, elapsed>>

Timeout == IF kind = "email" \/ TaskTimeout < ClientTimeout THEN TaskTimeout ELSE ClientTimeout

\* 1 + 4 + ... + n * n.
Squares(n) == (n * (n + 1) * (2 * n + 1)) \div 6

\* The longest that retry.Do can wait: for the handler in every attempt, and for
\* the quadratic backoff in between.
LongestWait == MaxAttempts * TaskTimeout + BaseDelay * Squares(MaxAttempts - 1)

TypeOK ==
    /\ kind \in {"email", "webhook"}
    /\ valid \in BOOLEAN
    /\ cancelled \in BOOLEAN
    /\ phase \in {"call", "handle", "backoff", "done", "dead"}
    /\ attempt \in Attempts
    /\ timer \in Nat
    /\ sender \in [Attempts -> {"none", "sending", "returned", "ended"}]
    /\ result \in [Attempts -> {"none", "nil", "error"}]
    /\ delivered \in SUBSET Attempts
    /\ elapsed \in Nat

Init ==
    /\ kind \in {"email", "webhook"}
    /\ valid \in BOOLEAN
    /\ cancelled = FALSE
    /\ phase = "call"
    /\ attempt = 1
    /\ timer = 0
    /\ sender = [a \in Attempts |-> "none"]
    /\ result = [a \in Attempts |-> "none"]
    /\ delivered = {}
    /\ elapsed = 0

-----------------------------------------------------------------------------
(* retry.Do *)

\* Mutant: the delay is that of the next attempt.
NextDelay(a) == BaseDelay * (a + 1) * (a + 1)

Delay(a) == BaseDelay * a * a

\* Mutant: an error after the last attempt leads to one more.
HandleReturnsAndGoesOn(ok) ==
    /\ phase' = IF ok THEN "done" ELSE "backoff"
    /\ timer' = IF ok THEN 0 ELSE Delay(attempt)
    /\ UNCHANGED attempt

\* The handler has returned nil, or an error.
HandleReturns(ok) ==
    /\ phase' = IF ok THEN "done" ELSE IF attempt = MaxAttempts THEN "dead" ELSE "backoff"
    /\ timer' = IF phase' = "backoff" THEN Delay(attempt) ELSE 0
    /\ UNCHANGED attempt

\* The delay has passed: the next attempt.
BackoffEnds ==
    /\ phase = "backoff"
    /\ timer = 0
    /\ phase' = "call"
    /\ attempt' = attempt + 1
    /\ UNCHANGED <<kind, valid, cancelled, timer, sendVars, elapsed>>

\* The consumer is shut down during the delay.
BackoffCancelled ==
    /\ phase = "backoff"
    /\ cancelled
    /\ phase' = "dead"
    /\ timer' = 0
    /\ UNCHANGED <<kind, valid, cancelled, attempt, sendVars, elapsed>>

-----------------------------------------------------------------------------
(* Handle *)

\* A payload that cannot be used is an error of this attempt like any other.
CallInvalid ==
    /\ phase = "call"
    /\ ~valid
    /\ HandleReturns(FALSE)
    /\ UNCHANGED <<kind, valid, cancelled, sendVars, elapsed>>

\* The call to the server starts: SendMail in its goroutine, or client.Do.
Call ==
    /\ phase = "call"
    /\ valid
    /\ phase' = "handle"
    /\ timer' = Timeout
    /\ sender' = [sender EXCEPT ![attempt] = "sending"]
    /\ UNCHANGED <<kind, valid, cancelled, attempt, result, delivered, elapsed>>

\* SendMail returns, whether or not somebody still waits for it.  When it returns
\* an error the server may have taken the message.
SendMailReturns(a) ==
    /\ kind = "email"
    /\ sender[a] = "sending"
    /\ sender' = [sender EXCEPT ![a] = "returned"]
    /\ \E r \in {"nil", "error"} :
          /\ result' = [result EXCEPT ![a] = r]
          /\ delivered' \in {delivered \cup {a}} \cup (IF r = "error" THEN {delivered} ELSE {})
    /\ UNCHANGED <<kind, valid, cancelled, loopVars, elapsed>>

\* Mutant: the channel has no buffer.
PutUnbuffered(a) ==
    /\ kind = "email"
    /\ sender[a] = "returned"
    /\ phase = "handle" /\ attempt = a
    /\ sender' = [sender EXCEPT ![a] = "ended"]
    /\ UNCHANGED <<kind, valid, cancelled, loopVars, result, delivered, elapsed>>

\* The goroutine puts the result into the channel, which has room for it.
Put(a) ==
    /\ kind = "email"
    /\ sender[a] = "returned"
    /\ sender' = [sender EXCEPT ![a] = "ended"]
    /\ UNCHANGED <<kind, valid, cancelled, loopVars, result, delivered, elapsed>>

\* The select of the e-mail handler: a result, or the end of the context; when
\* there are both, either case may be chosen.
EmailResult ==
    /\ kind = "email" /\ phase = "handle"
    /\ sender[attempt] = "ended"
    /\ HandleReturns(result[attempt] = "nil")
    /\ UNCHANGED <<kind, valid, cancelled, sendVars, elapsed>>

\* Mutant: the handler waits for SendMail whatever the context says.
EmailWaits ==
    /\ kind = "email" /\ phase = "handle"
    /\ timer = 0
    /\ sender[attempt] = "ended"
    /\ HandleReturns(FALSE)
    /\ UNCHANGED <<kind, valid, cancelled, sendVars, elapsed>>

EmailTimeout ==
    /\ kind = "email" /\ phase = "handle"
    /\ timer = 0
    /\ HandleReturns(FALSE)
    /\ UNCHANGED <<kind, valid, cancelled, sendVars, elapsed>>

\* Mutant: every response is a success.
AnyResponse(code) == code # "none"

\* client.Do returned a response whose status is below 400.
GoodResponse(code) == code = "below400"

\* client.Do returns a response, or an error because of the network or of a
\* timeout; without a good response the server may have acted all the same.
WebhookReturns ==
    /\ kind = "webhook" /\ phase = "handle"
    /\ \E code \in {"none", "below400", "from400"} :
          /\ timer = 0 => code = "none"
          /\ HandleReturns(GoodResponse(code))
          /\ result' = [result EXCEPT ![attempt] = IF GoodResponse(code) THEN "nil" ELSE "error"]
          /\ delivered' \in (IF code # "from400" THEN {delivered \cup {attempt}} ELSE {})
                            \cup (IF code # "below400" THEN {delivered} ELSE {})
    /\ sender' = [sender EXCEPT ![attempt] = "ended"]
    /\ UNCHANGED <<kind, valid, cancelled, elapsed>>

-----------------------------------------------------------------------------
(* The environment. *)

\* The consumer is shut down.  The handler's context is not derived from its own.
Cancel ==
    /\ ~cancelled
    /\ phase \notin {"done", "dead"}
    /\ cancelled' = TRUE
    /\ UNCHANGED <<kind, valid, loopVars, sendVars, elapsed>>

\* A tick passes while the loop waits.
Elapse ==
    /\ phase \in {"handle", "backoff"}
    /\ timer > 0
    /\ timer' = timer - 1
    /\ elapsed' = elapsed + 1
    /\ UNCHANGED <<kind, valid, cancelled, phase, attempt, sendVars>>

LoopStep ==
    \/ CallInvalid \/ Call \/ EmailResult \/ EmailTimeout
    \/ BackoffEnds \/ BackoffCancelled

Next ==
    \/ LoopStep
    \/ WebhookReturns
    \/ \E a \in Attempts : SendMailReturns(a) \/ Put(a)
    \/ Cancel
    \/ Elapse

Spec == Init /\ [][Next]_vars

\* The process runs and time passes.  Nothing is assumed of the servers; that
\* client.Do returns is, once its time is up.
Fairness ==
    /\ WF_vars(LoopStep)
    /\ WF_vars(timer = 0 /\ WebhookReturns)
    /\ \A a \in Attempts : WF_vars(Put(a))
    /\ WF_vars(Elapse)

FairSpec == Spec /\ Fairness

-----------------------------------------------------------------------------
(* Properties *)

\* A task that ends well was taken by the server, in the attempt whose result it
\* is: neither a result that an earlier goroutine left behind nor a response
\* with an error status makes a handler return nil.
DoneIsTaken == phase = "done" => attempt \in delivered

\* However the servers behave, and whichever mixture of errors, timeouts and
\* invalid payloads the attempts end with, a task holds up its partition for a
\* bounded time: the timeouts of all attempts and the quadratic backoff between
\* them, with none after the last one.
WaitIsBounded == elapsed <= LongestWait

\* retry.Do returns even if an SMTP server accepts the connection and never says
\* a word, because Handle does not wait for SendMail past its context.
LoopEnds == <>(phase \in {"done", "dead"})

\* The goroutine of an attempt that timed out does not leak: when SendMail returns
\* at last, it ends although nobody receives its result.
SendersEnd == \A a \in Attempts : sender[a] = "returned" ~> sender[a] = "ended"

-----------------------------------------------------------------------------
(* The strengthening of DoneIsTaken and WaitIsBounded that every step preserves. *)

\* The longest that retry.Do can have waited when attempt a begins.
WaitBefore(a) == (a - 1) * TaskTimeout + BaseDelay * Squares(a - 1)

\* What has been waited and what is left of the present wait are within what the
\* attempts so far allow, and a delay comes before the last attempt only.
WaitInv ==
    /\ phase = "call" => elapsed <= WaitBefore(attempt)
    /\ phase = "handle" => elapsed + timer <= WaitBefore(attempt) + TaskTimeout
    /\ phase = "backoff" =>
          /\ attempt < MaxAttempts
          /\ elapsed + timer <= WaitBefore(attempt) + TaskTimeout + Delay(attempt)

\* A call that returned nil was taken by the server in its own attempt.
TakenInv == \A a \in Attempts : result[a] = "nil" => a \in delivered

\* The inductive invariant.
IInv == TypeOK /\ WaitInv /\ TakenInv /\ DoneIsTaken /\ WaitIsBounded

=============================================================================
