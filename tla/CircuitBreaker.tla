--------------------------- MODULE CircuitBreaker ---------------------------
(***************************************************************************)
(* The interceptors around every call to the flight service: the circuit   *)
(* breaker outside, the retries inside, so that a call counts as one       *)
(* failure after all its attempts.  Calls of many requests overlap on one  *)
(* event loop; the breaker's critical sections contain no await, so each   *)
(* is one step.                                                            *)
(***************************************************************************)
EXTENDS Integers, Sequences

CONSTANTS
    Calls,              \* calls that may be under way at the same time
    FailureThreshold,   \* settings.cb_failure_threshold
    RecoveryTimeout,    \* settings.cb_recovery_timeout, in ticks
    Delays              \* RetryInterceptor._DELAYS, in ticks

ASSUME BreakerAssumption ==
    /\ FailureThreshold \in Nat \ {0}
    /\ RecoveryTimeout \in Nat
    /\ Delays \in Seq(Nat) /\ Delays # <<>>

VARIABLES
    state,          \* _state
    failures,       \* _failure_count, counted up to the threshold
    cooldown,       \* ticks until time.monotonic() >= _open_until
    pc,             \* "idle", "attempt" (an RPC is under way) or "backoff"
    attempt,        \* the attempt that a call is at
    backoff,        \* ticks that its sleep still takes
    healthy         \* the flight service can be reached

breaker == <<state, failures, cooldown>>

vars == <<state, failures, cooldown, pc, attempt, backoff, healthy>>

-----------------------------------------------------------------------------
Init ==
    /\ state = "CLOSED"
    /\ failures = 0
    /\ cooldown = 0
    /\ pc = [c \in Calls |-> "idle"]
    /\ attempt = [c \in Calls |-> 0]
    /\ backoff = [c \in Calls |-> 0]
    /\ healthy = TRUE

\* The gate in front of a call.  (As elsewhere, a version with a prefix such as Shut_
\* has a defect that the properties are to notice.)
\* A call that finds it shut fails and changes nothing.
Shut_Admits == state # "OPEN"

Admits == state = "OPEN" => cooldown = 0

\* (A defect: to let calls through again without a change to HALF_OPEN.)
Silent_Arrive(c) ==
    /\ pc[c] = "idle"
    /\ Admits
    /\ pc' = [pc EXCEPT ![c] = "attempt"]
    /\ attempt' = [attempt EXCEPT ![c] = 1]
    /\ UNCHANGED <<state, failures, cooldown, backoff, healthy>>

Arrive(c) ==
    /\ pc[c] = "idle"
    /\ Admits
    /\ state' = IF state = "OPEN" THEN "HALF_OPEN" ELSE state
    /\ pc' = [pc EXCEPT ![c] = "attempt"]
    /\ attempt' = [attempt EXCEPT ![c] = 1]
    /\ UNCHANGED <<failures, cooldown, backoff, healthy>>

\* What the breaker makes of a success; the call may have been admitted in an
\* earlier state of the breaker.
Hasty_RecordSuccess ==
    /\ state' = "CLOSED"
    /\ failures' = 0
    /\ UNCHANGED cooldown

RecordSuccess ==
    /\ state' = IF state = "HALF_OPEN" THEN "CLOSED" ELSE state
    /\ failures' = 0
    /\ UNCHANGED cooldown

\* ... and of UNAVAILABLE or DEADLINE_EXCEEDED.  The count is only compared with the
\* threshold.
CountUp(n) == IF n < FailureThreshold THEN n + 1 ELSE n

Lenient_RecordFailure ==
    /\ failures' = CountUp(failures)
    /\ IF state = "HALF_OPEN" \/ failures' > FailureThreshold
       THEN state' = "OPEN" /\ cooldown' = RecoveryTimeout
       ELSE UNCHANGED <<state, cooldown>>

RecordFailure ==
    /\ failures' = CountUp(failures)
    /\ IF state = "HALF_OPEN" \/ failures' >= FailureThreshold
       THEN state' = "OPEN" /\ cooldown' = RecoveryTimeout
       ELSE UNCHANGED <<state, cooldown>>

Return(c) ==
    /\ pc' = [pc EXCEPT ![c] = "idle"]
    /\ UNCHANGED <<attempt, backoff, healthy>>

Succeed(c) ==
    /\ pc[c] = "attempt"
    /\ RecordSuccess
    /\ Return(c)

\* NOT_FOUND, RESOURCE_EXHAUSTED and whatever else is neither retried nor counted.
Refuse(c) ==
    /\ pc[c] = "attempt"
    /\ Return(c)
    /\ UNCHANGED breaker

\* (A defect: to sleep after the last attempt as well.)
Eager_BackOff(c) ==
    /\ pc[c] = "attempt"
    /\ ~healthy
    /\ pc' = [pc EXCEPT ![c] = "backoff"]
    /\ backoff' = [backoff EXCEPT ![c] = Delays[attempt[c]]]
    /\ UNCHANGED <<state, failures, cooldown, attempt, healthy>>

\* asyncio.sleep comes before the next attempt and takes that attempt's delay.
BackOff(c) ==
    /\ pc[c] = "attempt"
    /\ ~healthy
    /\ attempt[c] < Len(Delays)
    /\ pc' = [pc EXCEPT ![c] = "backoff"]
    /\ backoff' = [backoff EXCEPT ![c] = Delays[attempt[c] + 1]]
    /\ UNCHANGED <<state, failures, cooldown, attempt, healthy>>

WakeUp(c) ==
    /\ pc[c] = "backoff"
    /\ backoff[c] = 0
    /\ pc' = [pc EXCEPT ![c] = "attempt"]
    /\ attempt' = [attempt EXCEPT ![c] = @ + 1]
    /\ UNCHANGED <<state, failures, cooldown, backoff, healthy>>

\* The last attempt has failed.
GiveUp(c) ==
    /\ pc[c] = "attempt"
    /\ ~healthy
    /\ attempt[c] = Len(Delays)
    /\ RecordFailure
    /\ Return(c)

Less(n) == IF n = 0 THEN 0 ELSE n - 1

Tick ==
    /\ cooldown > 0 \/ \E c \in Calls : backoff[c] > 0
    /\ cooldown' = Less(cooldown)
    /\ backoff' = [c \in Calls |-> Less(backoff[c])]
    /\ UNCHANGED <<state, failures, pc, attempt, healthy>>

HealthChanges ==
    /\ healthy' = ~healthy
    /\ UNCHANGED <<state, failures, cooldown, pc, attempt, backoff>>

AttemptEnds(c) == Succeed(c) \/ Refuse(c) \/ BackOff(c) \/ GiveUp(c)

Next ==
    \/ \E c \in Calls : \/ Arrive(c) \/ WakeUp(c)
                        \/ Succeed(c) \/ Refuse(c) \/ BackOff(c) \/ GiveUp(c)
    \/ Tick
    \/ HealthChanges

Spec == Init /\ [][Next]_vars

\* Time passes, sleeps and attempts end, and requests keep coming: each Calls stands
\* for a client that calls again.
Fairness ==
    /\ WF_vars(Tick)
    /\ \A c \in Calls : WF_vars(Arrive(c)) /\ WF_vars(WakeUp(c)) /\ WF_vars(AttemptEnds(c))

-----------------------------------------------------------------------------
TypeOK ==
    /\ state \in {"CLOSED", "OPEN", "HALF_OPEN"}
    /\ failures \in 0 .. FailureThreshold
    /\ cooldown \in 0 .. RecoveryTimeout
    /\ pc \in [Calls -> {"idle", "attempt", "backoff"}]
    /\ attempt \in [Calls -> 0 .. Len(Delays)]
    /\ backoff \in [Calls -> Nat]
    /\ healthy \in BOOLEAN
    /\ \A c \in Calls : /\ pc[c] = "attempt" => attempt[c] >= 1
                        /\ pc[c] = "backoff" => attempt[c] < Len(Delays)

\* A breaker that lets calls through has not seen the threshold yet, whatever calls
\* from before, during and after an outage report in whatever order.
ClosedBelowThreshold == state = "CLOSED" => failures < FailureThreshold

\* A call that was admitted before the outage cannot close an open breaker: OPEN is
\* left for HALF_OPEN only, and only when the recovery time has passed since the last
\* failure that opened or kept open the breaker.
OpenLeftByProbe ==
    [][state = "OPEN" /\ state' # "OPEN" => state' = "HALF_OPEN" /\ cooldown = 0]_vars

\* Calls that fail late prolong the recovery time, but not for ever: nothing new is
\* admitted that could fail.
OpenEnds == state = "OPEN" ~> state # "OPEN"

\* Once the flight service can be reached for good, no call is refused any more, even
\* if no call ever succeeds (NOT_FOUND is not a success).
RefusalsEnd == <>[]healthy => <>[](state # "OPEN")
=============================================================================
