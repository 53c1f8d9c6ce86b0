--------------------------- MODULE MCRemoteWrite ---------------------------
(* An HA pair of Prometheus servers that send overlapping rows in opposite  *)
(* order; r1 has two series that differ in a dropped label only, r3 nothing *)
(* but staleness markers, r4 does not decode.                               *)
EXTENDS RemoteWrite, TLC

CONSTANTS s1, s2, r1, r2, r3, r4

Sample(n) == [name |-> n, instance |-> "i", time |-> 1, finite |-> TRUE]
Stale(n) == [Sample(n) EXCEPT !.finite = FALSE]

MCSenders == {s1, s2}
MCRequests == {r1, r2, r3, r4}
MCQueue == (s1 :> <<r1, r3>>) @@ (s2 :> <<r4, r2>>)
MCPayload ==
    (r1 :> <<Sample("a"), Sample("b"), Sample("a")>>)
    @@ (r2 :> <<Sample("b"), Sample("c"), Sample("a"), Sample("")>>)
    @@ (r3 :> <<Stale("a")>>)
    @@ (r4 :> Rejected)
=============================================================================
