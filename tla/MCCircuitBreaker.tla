-------------------------- MODULE MCCircuitBreaker --------------------------
(* Two callers on one breaker: enough for a report to arrive after the      *)
(* state it was earned in has passed.                                       *)
EXTENDS CircuitBreaker
=============================================================================
