------------------------------ MODULE Breaker ------------------------------
(***************************************************************************)
(* The circuit breaker of internal/circuitbreaker/breaker.go as a value:    *)
(* a record and one operator per method.  Every method of the Go type holds *)
(* b.mu from its first to its last statement, so each operator is atomic.   *)
(*                                                                          *)
(* Time.  The only thing the code does with lastFailure is compare          *)
(* time.Since(lastFailure) with resetTimeout, so the record keeps the age   *)
(* of the last failure instead of its date, saturating one tick past the    *)
(* timeout (an age above ResetTimeout is never told apart from another).    *)
(* The zero time.Time of a new breaker is such an old age.                  *)
(*                                                                          *)
(* Operators named Bug_... are faulty variants of the operator they precede: *)
(* the properties are tested against them.                                  *)
(*                                                                          *)
(* Counting.  failures grows without bound while the breaker is not closed, *)
(* and is only compared with the threshold: it saturates at FailureCap.     *)
(***************************************************************************)
EXTENDS Naturals

CONSTANTS
    Threshold,      \* failures in a row that open the breaker
    ResetTimeout,   \* ticks the breaker stays open after a failure
    FailureCap      \* bound on the failures counter (saturating)

ASSUME ThresholdAssumption == Threshold \in Nat /\ Threshold >= 1
ASSUME ResetTimeoutAssumption == ResetTimeout \in Nat
ASSUME FailureCapAssumption == FailureCap \in Nat /\ FailureCap >= Threshold

States == {"Closed", "Open", "HalfOpen"}

\* New always sets halfOpenMax to 2.
HalfOpenMax == 2

Expired == ResetTimeout + 1

BreakerType ==
    [state : States, failures : 0..FailureCap,
     age : 0..Expired, halfOpenOK : 0..HalfOpenMax]

New == [state |-> "Closed", failures |-> 0, age |-> Expired, halfOpenOK |-> 0]

\* One tick of the clock, as time.Since(lastFailure) sees it.
Elapse(b) == [b EXCEPT !.age = IF @ < Expired THEN @ + 1 ELSE @]

-----------------------------------------------------------------------------
(* currentState: an open breaker whose timeout has passed becomes half-open. *)
Bug_NoTrialReset(b) ==
    IF b.state = "Open" /\ b.age > ResetTimeout
    THEN [b EXCEPT !.state = "HalfOpen"]
    ELSE b

Bug_EarlyTrial(b) ==
    IF b.state = "Open" /\ b.age >= ResetTimeout
    THEN [b EXCEPT !.state = "HalfOpen", !.halfOpenOK = 0]
    ELSE b

Bug_NeverTrial(b) == b

CurrentState(b) ==
    IF b.state = "Open" /\ b.age > ResetTimeout
    THEN [b EXCEPT !.state = "HalfOpen", !.halfOpenOK = 0]
    ELSE b

\* Allow returns nil exactly in these states; it keeps what currentState did.
Admits(b) == CurrentState(b).state # "Open"

(* RecordSuccess: counted in HalfOpen, forgives in Closed, ignored in Open. *)
Bug_SuccessKeepsFailures(b) ==
    LET c == CurrentState(b) IN
    CASE c.state = "HalfOpen" /\ c.halfOpenOK + 1 >= HalfOpenMax ->
            [c EXCEPT !.halfOpenOK = @ + 1, !.state = "Closed"]
      [] c.state = "HalfOpen" /\ c.halfOpenOK + 1 < HalfOpenMax ->
            [c EXCEPT !.halfOpenOK = @ + 1]
      [] OTHER -> c

Bug_ClosedKeepsFailures(b) ==
    LET c == CurrentState(b) IN
    CASE c.state = "HalfOpen" /\ c.halfOpenOK + 1 >= HalfOpenMax ->
            [c EXCEPT !.halfOpenOK = @ + 1, !.state = "Closed", !.failures = 0]
      [] c.state = "HalfOpen" /\ c.halfOpenOK + 1 < HalfOpenMax ->
            [c EXCEPT !.halfOpenOK = @ + 1]
      [] OTHER -> c

RecordSuccess(b) ==
    LET c == CurrentState(b) IN
    CASE c.state = "HalfOpen" /\ c.halfOpenOK + 1 >= HalfOpenMax ->
            [c EXCEPT !.halfOpenOK = @ + 1, !.state = "Closed", !.failures = 0]
      [] c.state = "HalfOpen" /\ c.halfOpenOK + 1 < HalfOpenMax ->
            [c EXCEPT !.halfOpenOK = @ + 1]
      [] c.state = "Closed" -> [c EXCEPT !.failures = 0]
      [] c.state = "Open" -> c

(* RecordFailure: counts and dates the failure in every state; a failed     *)
(* trial reopens at once, otherwise the threshold decides.                  *)
Bump(n) == IF n < FailureCap THEN n + 1 ELSE n

Bug_TrialFailureForgiven(b) ==
    LET c == CurrentState(b)
        d == [c EXCEPT !.failures = Bump(@), !.age = 0] IN
    IF c.state # "HalfOpen" /\ d.failures >= Threshold
    THEN [d EXCEPT !.state = "Open"] ELSE d

RecordFailure(b) ==
    LET c == CurrentState(b)
        d == [c EXCEPT !.failures = Bump(@), !.age = 0] IN
    IF c.state = "HalfOpen" \/ d.failures >= Threshold
    THEN [d EXCEPT !.state = "Open"]
    ELSE d

\* Reset leaves halfOpenOK and lastFailure as they are.
Reset(b) == [b EXCEPT !.state = "Closed", !.failures = 0]
=============================================================================
