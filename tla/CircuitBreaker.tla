--------------------------- MODULE CircuitBreaker ---------------------------
(***************************************************************************)
(* One breaker shared by concurrent callers, each of which asks Allow,      *)
(* works, and reports RecordSuccess, RecordFailure or nothing at all (a     *)
(* collection cycle that finds no metrics reports nothing).  Reports may    *)
(* arrive long after the breaker has changed state.                         *)
(***************************************************************************)
EXTENDS Breaker

CONSTANT Callers

VARIABLES
    breaker,    \* the Breaker value
    calls,      \* calls[c]: is caller c between Allow and its report?
    failRun,    \* history: failures reported since the last reported success
    okRun,      \* history: successes reported since the last reported failure
    tripAge     \* history: age of the last transition into Open

vars == <<breaker, calls, failRun, okRun, tripAge>>

TypeOK ==
    /\ breaker \in BreakerType
    /\ calls \in [Callers -> BOOLEAN]
    /\ failRun \in 0..FailureCap
    /\ okRun \in 0..HalfOpenMax
    /\ tripAge \in 0..Expired

Init ==
    /\ breaker = New
    /\ calls = [c \in Callers |-> FALSE]
    /\ failRun = 0
    /\ okRun = 0
    /\ tripAge = Expired

\* Allow: refused callers see ErrCircuitOpen and stay idle.
Allow(c) ==
    /\ ~calls[c]
    /\ breaker' = CurrentState(breaker)
    /\ calls' = [calls EXCEPT ![c] = Admits(breaker)]
    /\ UNCHANGED <<failRun, okRun, tripAge>>

\* State() refreshes the state exactly as Allow does.
State ==
    /\ breaker' = CurrentState(breaker)
    /\ UNCHANGED <<calls, failRun, okRun, tripAge>>

Succeed(c) ==
    /\ calls[c]
    /\ breaker' = RecordSuccess(breaker)
    /\ calls' = [calls EXCEPT ![c] = FALSE]
    /\ failRun' = 0
    /\ okRun' = IF okRun < HalfOpenMax THEN okRun + 1 ELSE okRun
    /\ UNCHANGED tripAge

Fail(c) ==
    /\ calls[c]
    /\ breaker' = RecordFailure(breaker)
    /\ calls' = [calls EXCEPT ![c] = FALSE]
    /\ failRun' = Bump(failRun)
    /\ okRun' = 0
    /\ tripAge' = IF Admits(breaker) /\ breaker'.state = "Open"
                  THEN 0 ELSE tripAge

Abandon(c) ==
    /\ calls[c]
    /\ calls' = [calls EXCEPT ![c] = FALSE]
    /\ UNCHANGED <<breaker, failRun, okRun, tripAge>>

ResetBreaker ==
    /\ breaker' = Reset(breaker)
    /\ UNCHANGED <<calls, failRun, okRun, tripAge>>

Tick ==
    /\ breaker' = Elapse(breaker)
    /\ tripAge' = IF tripAge < Expired THEN tripAge + 1 ELSE tripAge
    /\ UNCHANGED <<calls, failRun, okRun>>

Use(c) == Allow(c) \/ Succeed(c) \/ Fail(c) \/ Abandon(c)

Next ==
    \/ \E c \in Callers : Use(c)
    \/ State
    \/ ResetBreaker
    \/ Tick

\* The clock never stops; callers owe nobody a call or a report.
Fairness == WF_vars(Tick)

Spec == Init /\ [][Next]_vars /\ Fairness

-----------------------------------------------------------------------------
(* The counters and the state tell the same story: the breaker is closed    *)
(* exactly while fewer than Threshold failures are on record, and a         *)
(* half-open breaker still owes at least one successful trial, however late *)
(* the reports of earlier calls arrive (currentState, RecordSuccess,        *)
(* RecordFailure and Reset must all keep the two in step).                  *)
StateMatchesCounters ==
    /\ breaker.state = "Closed" <=> breaker.failures < Threshold
    /\ breaker.state = "HalfOpen" => breaker.halfOpenOK < HalfOpenMax

(* A closed breaker opens only when the last Threshold reports were all     *)
(* failures (RecordFailure and the reset of failures in RecordSuccess).     *)
TripNeedsFailureRun ==
    [][breaker.state = "Closed" /\ breaker'.state = "Open"
         => failRun' >= Threshold]_vars

(* Other than by Reset, a breaker that was open closes only when the last   *)
(* HalfOpenMax reports were all successes: a failed trial in between starts *)
(* the count again (RecordSuccess, and halfOpenOK = 0 in currentState).     *)
ClosingIsEarned ==
    [][breaker.state # "Closed" /\ breaker'.state = "Closed"
         => ResetBreaker \/ okRun' >= HalfOpenMax]_vars

(* After the breaker opens nobody is admitted before resetTimeout has gone  *)
(* by, unless Reset closed it in the meantime (Allow, currentState and the  *)
(* date RecordFailure takes).                                               *)
CoolingOff ==
    [][\A c \in Callers : ~calls[c] /\ calls'[c]
         => breaker.state = "Closed" \/ tripAge > ResetTimeout]_vars

(* The breaker never refuses for ever: failures reported late by callers    *)
(* admitted earlier push the trial back, but only finitely often.           *)
AdmitsAgain == []<>Admits(breaker)
=============================================================================
