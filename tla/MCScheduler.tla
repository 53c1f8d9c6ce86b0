---------------------------- MODULE MCScheduler ----------------------------
(* One scheduler, a clock long enough for its breaker to open, wait and     *)
(* half-open.  Two samples and one row per statement give transactions of   *)
(* two statements.                                                          *)
EXTENDS Scheduler
=============================================================================
