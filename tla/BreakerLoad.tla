---------------------------- MODULE BreakerLoad ----------------------------
(***************************************************************************)
(* What an OPEN breaker lets through to the flight service.  New calls are *)
(* stopped, but the retries of calls that were under way when it opened    *)
(* run inside it and go on.  A history variable counts the attempts that   *)
(* are made while the breaker is OPEN; it restricts nothing.               *)
(***************************************************************************)
EXTENDS CircuitBreaker, FiniteSets

\* One process has finitely many requests under way.
ASSUME LoadAssumption == IsFiniteSet(Calls)

VARIABLE
    sent            \* history: attempts begun since the breaker opened, 0 when it is not OPEN

loadVars == <<vars, sent>>

-----------------------------------------------------------------------------
LoadInit == Init /\ sent = 0

\* The calls that send a request to the flight service in this step.
Begun == {c \in Calls : pc[c] # "attempt" /\ pc'[c] = "attempt"}

\* A late failure that prolongs the recovery time does not start the count again.
CountSent ==
    sent' = IF state = "OPEN" /\ state' = "OPEN" THEN sent + Cardinality(Begun) ELSE 0

LoadNext == Next /\ CountSent

LoadSpec == LoadInit /\ [][LoadNext]_loadVars

FairLoadSpec == LoadSpec /\ Fairness

-----------------------------------------------------------------------------
\* The retries that are left to the other calls when one call opens the breaker.
MaxLoad == (Cardinality(Calls) - 1) * (Len(Delays) - 1)

\* From the moment it opens until it lets a probe through, however often late failures
\* prolong that time, the breaker leaves at most the retries of the calls that were
\* under way: each attempt is used once, the call that opened it has none left, and
\* nothing is admitted (the breaker's gate and the loop of the retry interceptor).
LoadBoundedWhileOpen == state = "OPEN" => sent <= MaxLoad
=============================================================================
