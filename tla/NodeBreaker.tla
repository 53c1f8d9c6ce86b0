---------------------------- MODULE NodeBreaker ----------------------------
(***************************************************************************)
(* How a scheduler uses its breaker.  Scheduler cuts collectOnce into steps *)
(* of its own; CircuitBreaker says what the callers of one breaker may do.  *)
(* This module takes one node, whichever it is, adds the history that       *)
(* CircuitBreaker keeps of its reports, and maps every step of the system   *)
(* to what it means to that node's breaker.  The history reads what         *)
(* collectOnce returns, never the breaker: that the two agree is the point. *)
(***************************************************************************)
EXTENDS Scheduler

CONSTANT Watched     \* the node whose breaker is looked at

VARIABLES failRun, okRun, tripAge   \* as in CircuitBreaker, since the start

history == <<failRun, okRun, tripAge>>

\* A cycle of the watched node that was at one of places returns one of rets.
Ends(places, rets) ==
    pc[Watched] \in places /\ pc'[Watched] = "idle" /\ ret'[Watched] \in rets

Succeeds == Ends({"insert"}, {"nil"})
Fails == Ends(InCycle, {"fetch", "insert"})

Remember ==
    \/ /\ Succeeds
       /\ failRun' = 0
       /\ okRun' = IF okRun < HalfOpenMax THEN okRun + 1 ELSE okRun
       /\ tripAge' = tripAge
    \/ /\ Fails
       /\ failRun' = Bump(failRun)
       /\ okRun' = 0
       /\ tripAge' = IF breaker'[Watched].state = "Open" THEN 0 ELSE tripAge
    \/ ~Succeeds /\ ~Fails /\ UNCHANGED history

Forget == failRun' = 0 /\ okRun' = 0 /\ tripAge' = Expired

Grow ==
    /\ tripAge' = IF tripAge < Expired THEN tripAge + 1 ELSE tripAge
    /\ UNCHANGED <<failRun, okRun>>

NodeInit == Init /\ failRun = 0 /\ okRun = 0 /\ tripAge = Expired

NodeNext ==
    \/ (\E n \in Nodes : Step(n)) /\ Remember
    \/ (\E n \in Nodes : Stop(n) \/ AgentChange(n)) /\ UNCHANGED history
    \/ (Exit \/ Crash) /\ Forget
    \/ (Restart \/ Cancel \/ DbChange) /\ UNCHANGED history
    \/ Tick /\ Grow

nodeVars == <<vars, history>>

NodeSpec == NodeInit /\ [][NodeNext]_nodeVars /\ Fairness

\* The breaker of the watched node, with the scheduler as its only caller.
B == INSTANCE CircuitBreaker_proofs
       WITH Callers <- {Watched},
            breaker <- breaker[Watched],
            calls <- [c \in {Watched} |-> pc[c] \in InCycle]

-----------------------------------------------------------------------------
(* Every life of the process is a behaviour of CircuitBreaker: collectOnce  *)
(* asks Allow before its first request, reports exactly the cycles that end *)
(* in a commit or in a fetch or insert error, once and while admitted, and  *)
(* abandons the others; Reset is never called.                              *)
UsesBreaker ==
    /\ B!Init
    /\ [][B!Use(Watched) \/ B!Tick \/ (B!Init' /\ ~alive')]_(B!vars)

(* A node is given up (its breaker opens) only after Threshold of its       *)
(* cycles in a row ended in a fetch or an insert error.                     *)
GivenUpForReason ==
    [][breaker[Watched].state = "Closed" /\ breaker'[Watched].state = "Open"
         => failRun' >= Threshold]_nodeVars

(* A node that was given up is trusted again only after HalfOpenMax cycles  *)
(* in a row were committed, or in a new process.                            *)
TrustIsEarned ==
    [][breaker[Watched].state # "Closed" /\ breaker'[Watched].state = "Closed"
         => okRun' >= HalfOpenMax \/ ~alive']_nodeVars

(* From the cycle that made the breaker open, no cycle of the node leaves   *)
(* Allow before resetTimeout has gone by, whether the trip came from the    *)
(* threshold or from a failed trial.                                        *)
LeftAlone ==
    [][pc[Watched] \notin InCycle /\ pc'[Watched] \in InCycle
         => breaker[Watched].state = "Closed" \/ tripAge > ResetTimeout]_nodeVars
=============================================================================
