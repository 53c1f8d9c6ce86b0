--------------------------- MODULE MCNodeBreaker ---------------------------
(* One scheduler with the history of its breaker, and one sample: what a    *)
(* cycle reports and when it recovers does not depend on how much it stores. *)
EXTENDS NodeBreaker
=============================================================================
