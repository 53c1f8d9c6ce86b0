---------------------------- MODULE MCRetention ----------------------------
(* Two ticks an hour, so that a run can fall in the middle of an hour, and  *)
(* a day of five hours, the shortest that the hourly window fits in.  The   *)
(* loops are interchangeable.                                               *)
EXTENDS Retention, TLC

LoopSymmetry == Permutations(Loops)
=============================================================================
