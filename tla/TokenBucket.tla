---------------------------- MODULE TokenBucket ----------------------------
(***************************************************************************)
(* What a per-client rate limiter promises: every client has a bucket that  *)
(* is full at first, gains Rate units each tick up to its capacity, and     *)
(* pays Cost units for a request.  There is no table of clients here, and   *)
(* nothing to clean up.                                                     *)
(***************************************************************************)
EXTENDS Naturals

CONSTANTS IPs, Rate, Cost, Burst

Capacity == Burst * Cost

VARIABLES level, served     \* served: the client just admitted, or the refusal

vars == <<level, served>>

Init == level = [ip \in IPs |-> Capacity] /\ served = <<>>

Admit(ip) ==
    /\ level[ip] >= Cost
    /\ level' = [level EXCEPT ![ip] = @ - Cost]
    /\ served' = <<ip, TRUE>>

Refuse(ip) ==
    /\ level[ip] < Cost
    /\ served' = <<ip, FALSE>>
    /\ UNCHANGED level

Tick ==
    /\ level' = [ip \in IPs |-> IF level[ip] + Rate > Capacity
                                THEN Capacity ELSE level[ip] + Rate]
    /\ served' = <<>>

Next == Tick \/ \E ip \in IPs : Admit(ip) \/ Refuse(ip)

Spec == Init /\ [][Next]_vars
=============================================================================
