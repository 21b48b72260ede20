-------------------------- MODULE MCCircuitBreaker --------------------------
(* An instance of CircuitBreaker, with the count of BreakerLoad, for TLC.  *)
EXTENDS BreakerLoad, TLC

CONSTANTS c1, c2, c3

\* 100ms, 200ms, 400ms as in _DELAYS.
MCDelays == <<1, 2, 4>>
=============================================================================
