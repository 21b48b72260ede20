------------------------ MODULE CircuitBreakerProofs ------------------------
(***************************************************************************)
(* The breaker's promises for every number of overlapping calls, every     *)
(* threshold, recovery time and list of delays.                            *)
(***************************************************************************)
EXTENDS BreakerLoad, FiniteSetTheorems, TLAPS

USE BreakerAssumption

IInv == TypeOK /\ ClosedBelowThreshold

LEMMA DelayFacts ==
    /\ Len(Delays) \in Nat /\ Len(Delays) >= 1
    /\ \A i \in 1 .. Len(Delays) : Delays[i] \in Nat
OBVIOUS

LEMMA InitIInv == Init => IInv
BY DelayFacts DEF Init, IInv, TypeOK, ClosedBelowThreshold

\* One call moves; the breaker and the other calls are as given.
LEMMA CallMoves ==
    ASSUME IInv, NEW c \in Calls,
           NEW label \in {"idle", "attempt", "backoff"},
           NEW k \in 0 .. Len(Delays), NEW n \in Nat,
           pc' = [pc EXCEPT ![c] = label],
           attempt' = [attempt EXCEPT ![c] = k],
           backoff' = [backoff EXCEPT ![c] = n],
           label = "attempt" => k >= 1,
           label = "backoff" => k < Len(Delays),
           healthy' = healthy,
           state' \in {"CLOSED", "OPEN", "HALF_OPEN"},
           failures' \in 0 .. FailureThreshold,
           cooldown' \in 0 .. RecoveryTimeout,
           ClosedBelowThreshold'
    PROVE  IInv'
<1>1. /\ pc' \in [Calls -> {"idle", "attempt", "backoff"}]
      /\ attempt' \in [Calls -> 0 .. Len(Delays)]
      /\ backoff' \in [Calls -> Nat]
  BY DEF IInv, TypeOK
<1>2. \A d \in Calls : /\ pc'[d] = "attempt" => attempt'[d] >= 1
                       /\ pc'[d] = "backoff" => attempt'[d] < Len(Delays)
  BY DEF IInv, TypeOK
<1> QED
  BY <1>1, <1>2 DEF IInv, TypeOK

LEMMA ReturnUnchanged ==
    ASSUME IInv, NEW c \in Calls, Return(c)
    PROVE  /\ pc' = [pc EXCEPT ![c] = "idle"]
           /\ attempt' = [attempt EXCEPT ![c] = attempt[c]]
           /\ backoff' = [backoff EXCEPT ![c] = backoff[c]]
           /\ healthy' = healthy
           /\ attempt[c] \in 0 .. Len(Delays) /\ backoff[c] \in Nat
BY DEF IInv, TypeOK, Return

LEMMA ArriveKeepsIInv == ASSUME IInv, NEW c \in Calls, Arrive(c) PROVE IInv'
<1>1. /\ backoff' = [backoff EXCEPT ![c] = backoff[c]] /\ backoff[c] \in Nat
      /\ pc' = [pc EXCEPT ![c] = "attempt"] /\ attempt' = [attempt EXCEPT ![c] = 1]
      /\ healthy' = healthy
  BY DEF Arrive, IInv, TypeOK
<1>2. /\ state' \in {"CLOSED", "OPEN", "HALF_OPEN"}
      /\ failures' \in 0 .. FailureThreshold /\ cooldown' \in 0 .. RecoveryTimeout
      /\ ClosedBelowThreshold'
  BY DEF Arrive, IInv, TypeOK, ClosedBelowThreshold
<1>3. PICK k \in 0 .. Len(Delays) : k = 1 /\ k >= 1
  BY DelayFacts
<1> QED
  BY <1>1, <1>2, <1>3, CallMoves

LEMMA SucceedKeepsIInv == ASSUME IInv, NEW c \in Calls, Succeed(c) PROVE IInv'
<1>1. /\ state' \in {"CLOSED", "OPEN", "HALF_OPEN"}
      /\ failures' \in 0 .. FailureThreshold /\ cooldown' \in 0 .. RecoveryTimeout
      /\ ClosedBelowThreshold'
  BY DEF Succeed, RecordSuccess, IInv, TypeOK, ClosedBelowThreshold
<1> QED
  BY <1>1, ReturnUnchanged, CallMoves DEF Succeed

LEMMA RefuseKeepsIInv == ASSUME IInv, NEW c \in Calls, Refuse(c) PROVE IInv'
<1>1. /\ state' \in {"CLOSED", "OPEN", "HALF_OPEN"}
      /\ failures' \in 0 .. FailureThreshold /\ cooldown' \in 0 .. RecoveryTimeout
      /\ ClosedBelowThreshold'
  BY DEF Refuse, breaker, IInv, TypeOK, ClosedBelowThreshold
<1> QED
  BY <1>1, ReturnUnchanged, CallMoves DEF Refuse

\* The count reaches the threshold only on the way to OPEN.
LEMMA GiveUpKeepsIInv == ASSUME IInv, NEW c \in Calls, GiveUp(c) PROVE IInv'
<1>1. /\ state' \in {"CLOSED", "OPEN", "HALF_OPEN"}
      /\ failures' \in 0 .. FailureThreshold /\ cooldown' \in 0 .. RecoveryTimeout
      /\ ClosedBelowThreshold'
  BY DEF GiveUp, RecordFailure, CountUp, IInv, TypeOK, ClosedBelowThreshold
<1> QED
  BY <1>1, ReturnUnchanged, CallMoves DEF GiveUp

LEMMA BackOffKeepsIInv == ASSUME IInv, NEW c \in Calls, BackOff(c) PROVE IInv'
<1>1. /\ attempt[c] \in 0 .. Len(Delays) /\ attempt[c] < Len(Delays)
      /\ Delays[attempt[c] + 1] \in Nat
  BY DelayFacts DEF BackOff, IInv, TypeOK
<1>2. attempt' = [attempt EXCEPT ![c] = attempt[c]]
  BY DEF BackOff, IInv, TypeOK
<1>3. /\ state' \in {"CLOSED", "OPEN", "HALF_OPEN"}
      /\ failures' \in 0 .. FailureThreshold /\ cooldown' \in 0 .. RecoveryTimeout
      /\ ClosedBelowThreshold'
  BY DEF BackOff, IInv, TypeOK, ClosedBelowThreshold
<1> QED
  BY <1>1, <1>2, <1>3, CallMoves DEF BackOff

LEMMA WakeUpKeepsIInv == ASSUME IInv, NEW c \in Calls, WakeUp(c) PROVE IInv'
<1>1. attempt[c] + 1 \in 0 .. Len(Delays) /\ attempt[c] + 1 >= 1
  BY DelayFacts DEF WakeUp, IInv, TypeOK
<1>2. backoff' = [backoff EXCEPT ![c] = backoff[c]] /\ backoff[c] \in Nat
  BY DEF WakeUp, IInv, TypeOK
<1>3. /\ state' \in {"CLOSED", "OPEN", "HALF_OPEN"}
      /\ failures' \in 0 .. FailureThreshold /\ cooldown' \in 0 .. RecoveryTimeout
      /\ ClosedBelowThreshold'
  BY DEF WakeUp, IInv, TypeOK, ClosedBelowThreshold
<1> QED
  BY <1>1, <1>2, <1>3, CallMoves DEF WakeUp

LEMMA TickKeepsIInv == ASSUME IInv, Tick PROVE IInv'
<1>1. backoff' \in [Calls -> Nat]
  BY DEF Tick, Less, IInv, TypeOK
<1>2. cooldown' \in 0 .. RecoveryTimeout
  BY DEF Tick, Less, IInv, TypeOK
<1> QED
  BY <1>1, <1>2 DEF Tick, IInv, TypeOK, ClosedBelowThreshold

LEMMA NextKeepsIInv == ASSUME IInv, [Next]_vars PROVE IInv'
<1>1. CASE HealthChanges
  BY <1>1 DEF HealthChanges, IInv, TypeOK, ClosedBelowThreshold
<1>2. CASE UNCHANGED vars
  BY <1>2 DEF vars, IInv, TypeOK, ClosedBelowThreshold
<1> QED
  BY <1>1, <1>2, ArriveKeepsIInv, SucceedKeepsIInv, RefuseKeepsIInv, BackOffKeepsIInv,
     GiveUpKeepsIInv, WakeUpKeepsIInv, TickKeepsIInv DEF Next

\* Whatever overlaps, the breaker is well-formed and not CLOSED at its threshold
\* (CircuitBreakerInterceptor.intercept_unary_unary).
THEOREM BreakerInvariant == Spec => []IInv
<1>1. IInv /\ [Next]_vars => IInv'
  BY NextKeepsIInv
<1> QED
  BY InitIInv, <1>1, PTL DEF Spec

\* Type correctness: state, counter, cooldown and the place of every call keep their ranges,
\* the attempts within max_retries and the delays (CircuitBreaker, RetryInterceptor).
THEOREM BreakerTyped == Spec => []TypeOK
<1>1. IInv => TypeOK
  BY DEF IInv
<1> QED
  BY BreakerInvariant, <1>1, PTL

\* A CLOSED breaker is below its threshold.
THEOREM ClosedMeansBelowThreshold == Spec => []ClosedBelowThreshold
<1>1. IInv => ClosedBelowThreshold
  BY DEF IInv
<1> QED
  BY BreakerInvariant, <1>1, PTL

\* No late answer closes an OPEN breaker or shortens its recovery time.
THEOREM OpenOnlyLeftByProbe == Spec => OpenLeftByProbe
<1>1. ASSUME [Next]_vars, state = "OPEN", state' # "OPEN"
      PROVE  state' = "HALF_OPEN" /\ cooldown = 0
  BY <1>1 DEF Next, Arrive, Admits, WakeUp, Succeed, RecordSuccess, Refuse, BackOff, GiveUp,
              RecordFailure, Tick, HealthChanges, breaker, vars
<1> QED
  BY <1>1, PTL DEF Spec, OpenLeftByProbe

-----------------------------------------------------------------------------
\* The retries that calls under way may still make: attempt number p[2] of call p[1].
Retries == {p \in Calls \X (2 .. Len(Delays)) : pc[p[1]] # "idle" /\ attempt[p[1]] < p[2]}

\* Whatever has been sent since the breaker opened was a retry left at that moment, and
\* it is not left any more.
LoadInv ==
    /\ sent \in Nat
    /\ \A c \in Calls : pc[c] # "idle" => attempt[c] >= 1
    /\ state = "OPEN" => sent + Cardinality(Retries) <= MaxLoad

LEMMA RetriesFinite == IsFiniteSet(Retries) /\ Cardinality(Retries) \in Nat
<1>1. IsFiniteSet(2 .. Len(Delays))
  BY DelayFacts, FS_Interval
<1>2. IsFiniteSet(Calls \X (2 .. Len(Delays)))
  BY <1>1, LoadAssumption, FS_Product
<1> QED
  BY <1>2, FS_Subset, FS_CardinalityType DEF Retries

\* All the retries of all calls but one.
LEMMA RetriesOfOthers ==
    ASSUME NEW c \in Calls
    PROVE  LET R == (Calls \ {c}) \X (2 .. Len(Delays))
           IN  IsFiniteSet(R) /\ Cardinality(R) = MaxLoad
<1>1. /\ IsFiniteSet(2 .. Len(Delays))
      /\ Cardinality(2 .. Len(Delays)) = Len(Delays) - 1
  BY DelayFacts, FS_Interval
<1>2. /\ IsFiniteSet(Calls \ {c})
      /\ Cardinality(Calls \ {c}) = Cardinality(Calls) - 1
  BY LoadAssumption, FS_RemoveElement
<1> QED
  BY <1>1, <1>2, FS_Product DEF MaxLoad

\* The calls in turn: they are under way only with an attempt behind them.
LEMMA AttemptedKept ==
    ASSUME IInv, LoadInv, [Next]_vars
    PROVE  \A c \in Calls : pc'[c] # "idle" => attempt'[c] >= 1
<1>1. CASE UNCHANGED <<pc, attempt>>
  BY <1>1 DEF LoadInv
<1>2. ASSUME NEW d \in Calls, WakeUp(d)
      PROVE  \A c \in Calls : pc'[c] # "idle" => attempt'[c] >= 1
  BY <1>2 DEF WakeUp, IInv, TypeOK, LoadInv
<1>3. ASSUME NEW d \in Calls, Arrive(d)
      PROVE  \A c \in Calls : pc'[c] # "idle" => attempt'[c] >= 1
  BY <1>3 DEF Arrive, IInv, TypeOK, LoadInv
<1>4. ASSUME NEW d \in Calls, Succeed(d) \/ Refuse(d) \/ BackOff(d) \/ GiveUp(d)
      PROVE  \A c \in Calls : pc'[c] # "idle" => attempt'[c] >= 1
  BY <1>4 DEF Succeed, Refuse, BackOff, GiveUp, Return, IInv, TypeOK, LoadInv
<1> QED
  BY <1>1, <1>2, <1>3, <1>4 DEF Next, Tick, HealthChanges, vars

\* The breaker opens when a call gives up, which has no retry left and leaves.
LEMMA OpeningBounds ==
    ASSUME IInv, LoadInv, [Next]_vars, state # "OPEN", state' = "OPEN"
    PROVE  Cardinality(Retries') <= MaxLoad /\ Cardinality(Retries') \in Nat
<1>1. PICK c \in Calls : GiveUp(c)
  BY DEF Next, Arrive, WakeUp, Succeed, RecordSuccess, Refuse, BackOff, Tick,
         HealthChanges, breaker, vars
<1>2. pc' = [pc EXCEPT ![c] = "idle"] /\ attempt' = attempt
  BY <1>1 DEF GiveUp, Return
<1>3. Retries' \subseteq (Calls \ {c}) \X (2 .. Len(Delays))
  BY <1>2 DEF Retries, IInv, TypeOK
<1>4. PICK R : R = Retries'
  OBVIOUS
<1>5. PICK S : S = (Calls \ {c}) \X (2 .. Len(Delays))
  OBVIOUS
<1>6. IsFiniteSet(S) /\ Cardinality(S) = MaxLoad
  BY <1>5, RetriesOfOthers
<1>7. R \in SUBSET S
  BY <1>3, <1>4, <1>5
<1>8. IsFiniteSet(R) /\ Cardinality(R) <= Cardinality(S)
  BY <1>6, <1>7, FS_Subset
<1>9. Cardinality(R) \in Nat
  BY <1>8, FS_CardinalityType
<1> QED
  BY <1>4, <1>6, <1>8, <1>9

\* A call that wakes up takes its next retry out of those that were left.
LEMMA WakeUpUsesRetry ==
    ASSUME IInv, LoadInv, NEW c \in Calls, WakeUp(c)
    PROVE  /\ Cardinality(Begun) = 1 /\ Cardinality(Retries') \in Nat
           /\ Cardinality(Retries') + 1 <= Cardinality(Retries)
<1> DEFINE p == <<c, attempt[c] + 1>>
<1>1. /\ pc[c] = "backoff" /\ pc' = [pc EXCEPT ![c] = "attempt"]
      /\ attempt' = [attempt EXCEPT ![c] = attempt[c] + 1]
      /\ attempt[c] \in 1 .. Len(Delays) /\ attempt[c] < Len(Delays)
  BY DelayFacts DEF WakeUp, IInv, TypeOK, LoadInv
<1>2. Begun = {c}
  BY <1>1 DEF Begun, IInv, TypeOK
<1>3. p \in Retries
  BY <1>1, DelayFacts DEF Retries
<1>4. Retries' \subseteq Retries \ {p}
  BY <1>1, DelayFacts DEF Retries, IInv, TypeOK
<1>5. /\ IsFiniteSet(Retries \ {p})
      /\ Cardinality(Retries \ {p}) = Cardinality(Retries) - 1
  BY <1>3, RetriesFinite, FS_RemoveElement
<1>6. PICK R : R = Retries'
  OBVIOUS
<1>7. IsFiniteSet(R) /\ Cardinality(R) <= Cardinality(Retries) - 1
  BY <1>4, <1>5, <1>6, FS_Subset
<1>8. Cardinality(R) \in Nat
  BY <1>7, FS_CardinalityType
<1>9. Cardinality(Begun) = 1
  BY <1>2, FS_Singleton
<1> HIDE DEF p
<1> QED
  BY <1>6, <1>7, <1>8, <1>9, RetriesFinite

\* Nothing else sends a request while the breaker is OPEN.
LEMMA OthersSendNothing ==
    ASSUME IInv, LoadInv, [Next]_vars, state = "OPEN", state' = "OPEN",
           \A c \in Calls : ~WakeUp(c)
    PROVE  /\ Cardinality(Begun) = 0 /\ Cardinality(Retries') \in Nat
           /\ Cardinality(Retries') <= Cardinality(Retries)
<1>1. ASSUME NEW c \in Calls, Arrive(c) PROVE FALSE
  BY <1>1 DEF Arrive
<1>2. ASSUME NEW c \in Calls, Succeed(c) \/ Refuse(c) \/ BackOff(c) \/ GiveUp(c)
      PROVE  Begun = {} /\ Retries' \subseteq Retries
  <2>1. /\ attempt' = attempt /\ pc[c] = "attempt"
        /\ \/ pc' = [pc EXCEPT ![c] = "idle"]
           \/ pc' = [pc EXCEPT ![c] = "backoff"]
    BY <1>2 DEF Succeed, Refuse, BackOff, GiveUp, Return
  <2> QED
    BY <2>1 DEF Begun, Retries, IInv, TypeOK
<1>3. UNCHANGED <<pc, attempt>> => Begun = {} /\ Retries' \subseteq Retries
  BY DEF Begun, Retries
<1>4. Begun = {} /\ Retries' \subseteq Retries
  BY <1>1, <1>2, <1>3 DEF Next, Tick, HealthChanges, vars
<1>5. PICK R : R = Retries'
  OBVIOUS
<1>6. IsFiniteSet(R) /\ Cardinality(R) <= Cardinality(Retries)
  BY <1>4, <1>5, RetriesFinite, FS_Subset
<1>7. Cardinality(R) \in Nat
  BY <1>6, FS_CardinalityType
<1> QED
  BY <1>4, <1>5, <1>6, <1>7, FS_EmptySet

LEMMA LoadInvKept ==
    ASSUME IInv, LoadInv, [LoadNext]_loadVars
    PROVE  LoadInv'
<1>1. CASE UNCHANGED loadVars
  BY <1>1 DEF loadVars, vars, LoadInv, Retries, MaxLoad
<1>2. CASE LoadNext
  <2>1. [Next]_vars /\ CountSent
    BY <1>2 DEF LoadNext
  <2>2. MaxLoad' = MaxLoad
    BY DEF MaxLoad
  <2>3. \A c \in Calls : pc'[c] # "idle" => attempt'[c] >= 1
    BY <2>1, AttemptedKept
  <2>4. CASE state' # "OPEN"
    BY <2>1, <2>3, <2>4 DEF CountSent, LoadInv
  <2>5. CASE state # "OPEN" /\ state' = "OPEN"
    <3>1. sent' = 0
      BY <2>5, <2>1 DEF CountSent
    <3>2. Cardinality(Retries') <= MaxLoad /\ Cardinality(Retries') \in Nat
      BY <2>1, <2>5, OpeningBounds
    <3> QED
      BY <2>2, <2>3, <3>1, <3>2 DEF LoadInv
  <2>6. CASE state = "OPEN" /\ state' = "OPEN"
    <3>1. /\ sent' = sent + Cardinality(Begun) /\ sent \in Nat
          /\ sent + Cardinality(Retries) <= MaxLoad
      BY <2>1, <2>6 DEF CountSent, LoadInv
    <3>2. /\ Cardinality(Begun) \in Nat /\ Cardinality(Retries') \in Nat
          /\ Cardinality(Begun) + Cardinality(Retries') <= Cardinality(Retries)
      <4>1. CASE \E c \in Calls : WakeUp(c)
        BY <4>1, WakeUpUsesRetry, RetriesFinite
      <4>2. CASE \A c \in Calls : ~WakeUp(c)
        BY <2>1, <2>6, <4>2, OthersSendNothing, RetriesFinite
      <4> QED
        BY <4>1, <4>2
    <3>3. MaxLoad \in Int
      BY DelayFacts, LoadAssumption, FS_CardinalityType DEF MaxLoad
    <3>4. sent' \in Nat /\ sent' + Cardinality(Retries') <= MaxLoad
      BY <3>1, <3>2, <3>3, RetriesFinite
    <3> QED
      BY <2>2, <2>3, <3>4 DEF LoadInv
  <2> QED
    BY <2>4, <2>5, <2>6
<1> QED
  BY <1>1, <1>2

\* The count restricts nothing: the theorems about Spec hold of LoadSpec.
LEMMA CountingOnly == LoadSpec => Spec
<1>1. LoadInit => Init
  BY DEF LoadInit
<1>2. [LoadNext]_loadVars => [Next]_vars
  BY DEF LoadNext, loadVars
<1> QED
  BY <1>1, <1>2, PTL DEF LoadSpec, Spec

\* The attempts that reach the flight service from the opening of the breaker until it
\* lets a probe through: for any number of overlapping calls, any delays and any order of
\* late failures at most the retries of the calls under way (CircuitBreakerInterceptor
\* outside, RetryInterceptor inside).
THEOREM LoadIsBounded == LoadSpec => []LoadBoundedWhileOpen
<1>1. LoadInit => IInv /\ LoadInv
  BY InitIInv DEF LoadInit, Init, LoadInv
<1>2. IInv /\ LoadInv /\ [LoadNext]_loadVars => IInv' /\ LoadInv'
  <2> SUFFICES ASSUME IInv, LoadInv, [LoadNext]_loadVars PROVE IInv' /\ LoadInv'
    OBVIOUS
  <2>1. [Next]_vars
    BY DEF LoadNext, loadVars
  <2> QED
    BY <2>1, LoadInvKept, NextKeepsIInv
<1>3. LoadInv => LoadBoundedWhileOpen
  <2> SUFFICES ASSUME LoadInv, state = "OPEN" PROVE sent <= MaxLoad
    BY DEF LoadBoundedWhileOpen
  <2>1. MaxLoad \in Int
    BY DelayFacts, LoadAssumption, FS_CardinalityType DEF MaxLoad
  <2> QED
    BY <2>1, RetriesFinite DEF LoadInv
<1> QED
  BY <1>1, <1>2, <1>3, PTL DEF LoadSpec
=============================================================================
