------------------------ MODULE CircuitBreaker_proofs ------------------------
(***************************************************************************)
(* The breaker's properties for every threshold, every timeout and every    *)
(* set of callers, after the facts on its methods that the proofs about its *)
(* callers rest on.                                                         *)
(***************************************************************************)
EXTENDS CircuitBreaker, TLAPS

(* What each method does to a well-formed record.                           *)

(* currentState returns a well-formed record that is not Closed unless it   *)
(* was, keeps failures and age, and starts a trial with no success counted. *)
LEMMA CurrentStateFacts ==
    ASSUME NEW b \in BreakerType
    PROVE  /\ CurrentState(b) \in BreakerType
           /\ CurrentState(b).failures = b.failures
           /\ CurrentState(b).age = b.age
           /\ b.state = "Open" /\ b.age > ResetTimeout
                => /\ CurrentState(b).state = "HalfOpen"
                   /\ CurrentState(b).halfOpenOK = 0
           /\ ~(b.state = "Open" /\ b.age > ResetTimeout)
                => CurrentState(b) = b
  <1>1. CASE b.state = "Open" /\ b.age > ResetTimeout
    <2>1. CurrentState(b) = [b EXCEPT !.state = "HalfOpen", !.halfOpenOK = 0]
      BY <1>1 DEF CurrentState
    <2>2. 0 \in 0..HalfOpenMax /\ "HalfOpen" \in States
      BY DEF HalfOpenMax, States
    <2>3. QED
      BY <1>1, <2>1, <2>2 DEF BreakerType
  <1>2. CASE ~(b.state = "Open" /\ b.age > ResetTimeout)
    BY <1>2 DEF CurrentState
  <1>3. QED
    BY <1>1, <1>2

(* RecordSuccess, case by case, on a half-open record that still owes one.  *)
LEMMA RecordSuccessFacts ==
    ASSUME NEW b \in BreakerType,
           NEW c, c = CurrentState(b),
           c.state = "HalfOpen" => c.halfOpenOK < HalfOpenMax
    PROVE  /\ RecordSuccess(b) \in BreakerType
           /\ RecordSuccess(b).age = b.age
           /\ c.state = "Open" => RecordSuccess(b) = c
           /\ c.state = "Closed" => /\ RecordSuccess(b).state = "Closed"
                                    /\ RecordSuccess(b).failures = 0
           /\ c.state = "HalfOpen" /\ c.halfOpenOK + 1 >= HalfOpenMax
                => /\ RecordSuccess(b).state = "Closed"
                   /\ RecordSuccess(b).failures = 0
           /\ c.state = "HalfOpen" /\ c.halfOpenOK + 1 < HalfOpenMax
                => /\ RecordSuccess(b).state = "HalfOpen"
                   /\ RecordSuccess(b).failures = c.failures
                   /\ RecordSuccess(b).halfOpenOK = c.halfOpenOK + 1
  <1>1. c \in BreakerType /\ c.age = b.age
    BY CurrentStateFacts
  <1>2. c.halfOpenOK \in 0..HalfOpenMax /\ c.state \in States
    BY <1>1 DEF BreakerType
  <1>3. CASE c.state = "Open"
    <2>1. RecordSuccess(b) = c
      BY <1>3 DEF RecordSuccess
    <2>2. QED
      BY <1>1, <1>3, <2>1
  <1>4. CASE c.state = "Closed"
    <2>1. RecordSuccess(b) = [c EXCEPT !.failures = 0]
      BY <1>4 DEF RecordSuccess
    <2>2. QED
      BY <1>1, <1>4, <2>1, FailureCapAssumption, ThresholdAssumption
         DEF BreakerType
  <1>5. CASE c.state = "HalfOpen" /\ c.halfOpenOK + 1 >= HalfOpenMax
    <2>1. RecordSuccess(b) = [c EXCEPT !.halfOpenOK = @ + 1,
                                       !.state = "Closed", !.failures = 0]
      <3>1. ~(c.halfOpenOK + 1 < HalfOpenMax)
        BY <1>2, <1>5 DEF HalfOpenMax
      <3>2. QED
        BY <1>5, <3>1 DEF RecordSuccess
    <2>2. c.halfOpenOK + 1 \in 0..HalfOpenMax
      BY <1>2, <1>5 DEF HalfOpenMax
    <2>3. 0 \in 0..FailureCap /\ "Closed" \in States
      BY FailureCapAssumption DEF States
    <2>4. RecordSuccess(b) \in BreakerType
      BY <1>1, <2>1, <2>2, <2>3 DEF BreakerType
    <2>5. /\ RecordSuccess(b).state = "Closed"
          /\ RecordSuccess(b).failures = 0
          /\ RecordSuccess(b).age = c.age
      BY <1>1, <2>1 DEF BreakerType
    <2>6. QED
      BY <1>1, <1>2, <1>5, <2>4, <2>5 DEF HalfOpenMax
  <1>6. CASE c.state = "HalfOpen" /\ c.halfOpenOK + 1 < HalfOpenMax
    <2>1. ~(c.halfOpenOK + 1 >= HalfOpenMax)
      BY <1>2, <1>6 DEF HalfOpenMax
    <2>2. RecordSuccess(b) = [c EXCEPT !.halfOpenOK = @ + 1]
      BY <1>6, <2>1 DEF RecordSuccess
    <2>3. c.halfOpenOK + 1 \in 0..HalfOpenMax
      BY <1>2, <1>6 DEF HalfOpenMax
    <2>4. QED
      BY <1>1, <1>6, <2>1, <2>2, <2>3 DEF BreakerType
  <1>7. QED
    BY <1>2, <1>3, <1>4, <1>5, <1>6 DEF States, HalfOpenMax

(* RecordFailure dates and counts the failure, and opens the breaker exactly *)
(* when it was a trial or the count reached the threshold.                   *)
LEMMA RecordFailureFacts ==
    ASSUME NEW b \in BreakerType,
           NEW c, c = CurrentState(b)
    PROVE  /\ RecordFailure(b) \in BreakerType
           /\ RecordFailure(b).age = 0
           /\ RecordFailure(b).failures = Bump(b.failures)
           /\ RecordFailure(b).state =
                IF c.state = "HalfOpen" \/ Bump(b.failures) >= Threshold
                THEN "Open" ELSE c.state
  <1>1. c \in BreakerType /\ c.failures = b.failures
    BY CurrentStateFacts
  <1>2. b.failures \in 0..FailureCap
    BY DEF BreakerType
  <1>3. Bump(b.failures) \in 0..FailureCap
    BY <1>2, FailureCapAssumption DEF Bump
  <1>4. 0 \in 0..Expired
    BY ResetTimeoutAssumption DEF Expired
  <1>5. QED
    BY <1>1, <1>3, <1>4 DEF RecordFailure, BreakerType, States

-----------------------------------------------------------------------------
(* A record the methods can have produced: a half-open breaker still owes a *)
(* success.                                                                 *)
Sound(b) ==
    /\ b \in BreakerType
    /\ b.state = "HalfOpen" => b.halfOpenOK < HalfOpenMax

(* A new breaker is sound and closed.                                       *)
LEMMA NewSound == Sound(New) /\ New.state = "Closed"
  BY ThresholdAssumption, ResetTimeoutAssumption, FailureCapAssumption
     DEF New, Sound, BreakerType, States, Expired, HalfOpenMax

(* currentState keeps a record sound and never opens a breaker.             *)
LEMMA CurrentStateSound ==
    ASSUME NEW b, Sound(b)
    PROVE  /\ Sound(CurrentState(b))
           /\ b.state # "Open" => CurrentState(b) = b
  <1>1. b \in BreakerType
    BY DEF Sound
  <1>2. QED
    BY <1>1, CurrentStateFacts DEF Sound, HalfOpenMax

(* RecordSuccess keeps a record sound.                                      *)
LEMMA RecordSuccessSound ==
    ASSUME NEW b, Sound(b)
    PROVE  Sound(RecordSuccess(b))
  <1> DEFINE c == CurrentState(b)
  <1>1. b \in BreakerType /\ Sound(c)
    BY CurrentStateSound DEF Sound
  <1>2. c.state \in States /\ c.halfOpenOK \in 0..HalfOpenMax
    BY <1>1 DEF Sound, BreakerType
  <1>3. c.state = "HalfOpen" => c.halfOpenOK < HalfOpenMax
    BY <1>1 DEF Sound
  <1> HIDE DEF c
  <1>4. CASE c.state = "HalfOpen" /\ c.halfOpenOK + 1 < HalfOpenMax
    BY <1>1, <1>2, <1>3, <1>4, RecordSuccessFacts DEF Sound, c
  <1>5. CASE ~(c.state = "HalfOpen" /\ c.halfOpenOK + 1 < HalfOpenMax)
    <2>1. RecordSuccess(b).state # "HalfOpen" /\ RecordSuccess(b) \in BreakerType
      BY <1>1, <1>2, <1>3, <1>5, RecordSuccessFacts DEF c, States, HalfOpenMax
    <2>2. QED
      BY <2>1 DEF Sound
  <1>6. QED
    BY <1>4, <1>5

(* RecordFailure keeps a record sound.                                      *)
LEMMA RecordFailureSound ==
    ASSUME NEW b, Sound(b)
    PROVE  Sound(RecordFailure(b))
  <1>1. b \in BreakerType
    BY DEF Sound
  <1>2. RecordFailure(b) \in BreakerType /\ RecordFailure(b).state # "HalfOpen"
    BY <1>1, RecordFailureFacts
  <1>3. QED
    BY <1>2 DEF Sound

(* The clock keeps a record sound and its state as it is.                   *)
LEMMA ElapseSound ==
    ASSUME NEW b, Sound(b)
    PROVE  Sound(Elapse(b)) /\ Elapse(b).state = b.state
  <1>1. b \in BreakerType /\ b.age \in 0..Expired
    BY DEF Sound, BreakerType
  <1>2. (IF b.age < Expired THEN b.age + 1 ELSE b.age) \in 0..Expired
    BY <1>1, ResetTimeoutAssumption DEF Expired
  <1>3. QED
    BY <1>1, <1>2 DEF Elapse, Sound, BreakerType

-----------------------------------------------------------------------------
(* What ties the history to the record: a closed breaker has counted at     *)
(* most the failures of the current run, a half-open one at most the        *)
(* successes of the current run, and the failure that dates an open breaker *)
(* is no older than the trip.                                               *)
HistoryInv ==
    /\ breaker.state = "Closed" => breaker.failures <= failRun
    /\ breaker.state = "HalfOpen" => /\ breaker.halfOpenOK <= okRun
                                     /\ tripAge > ResetTimeout
    /\ breaker.state = "Open" => breaker.age <= tripAge

IInv == TypeOK /\ StateMatchesCounters /\ HistoryInv

-----------------------------------------------------------------------------
(* The invariant, and one lemma per action that it survives it.             *)

LEMMA InitIInv == Init => IInv
  <1> SUFFICES ASSUME Init PROVE IInv
    OBVIOUS
  <1>1. New \in BreakerType
    BY ThresholdAssumption, ResetTimeoutAssumption, FailureCapAssumption
       DEF New, BreakerType, States, Expired, HalfOpenMax
  <1>2. TypeOK
    BY <1>1, FailureCapAssumption, ResetTimeoutAssumption
       DEF Init, TypeOK, Expired, HalfOpenMax
  <1>3. StateMatchesCounters /\ HistoryInv
    BY ThresholdAssumption
       DEF Init, New, StateMatchesCounters, HistoryInv
  <1>4. QED
    BY <1>2, <1>3 DEF IInv

(* Allow and State both replace the breaker by its current state.           *)
LEMMA RefreshIInv ==
    ASSUME IInv, breaker' = CurrentState(breaker),
           calls' \in [Callers -> BOOLEAN],
           UNCHANGED <<failRun, okRun, tripAge>>
    PROVE  IInv'
  <1>1. breaker \in BreakerType
    BY DEF IInv, TypeOK
  <1>2. TypeOK'
    BY <1>1, CurrentStateFacts DEF IInv, TypeOK
  <1>3. CASE breaker.state = "Open" /\ breaker.age > ResetTimeout
    <2>1. /\ breaker'.state = "HalfOpen"
          /\ breaker'.halfOpenOK = 0
          /\ breaker'.failures = breaker.failures
      BY <1>1, <1>3, CurrentStateFacts
    <2>2. breaker.age \in Nat /\ tripAge \in Nat /\ okRun \in Nat
      BY <1>1, ResetTimeoutAssumption
         DEF IInv, TypeOK, BreakerType, Expired, HalfOpenMax
    <2>3. StateMatchesCounters'
      BY <1>3, <2>1 DEF IInv, StateMatchesCounters, HalfOpenMax
    <2>4. HistoryInv'
      BY <1>3, <2>1, <2>2, ResetTimeoutAssumption DEF IInv, HistoryInv
    <2>5. QED
      BY <1>2, <2>3, <2>4 DEF IInv
  <1>4. CASE ~(breaker.state = "Open" /\ breaker.age > ResetTimeout)
    <2>1. breaker' = breaker
      BY <1>1, <1>4, CurrentStateFacts
    <2>2. QED
      BY <1>2, <2>1 DEF IInv, StateMatchesCounters, HistoryInv
  <1>5. QED
    BY <1>3, <1>4

LEMMA SucceedIInv ==
    ASSUME IInv, NEW k \in Callers, Succeed(k)
    PROVE  IInv'
  <1> DEFINE c == CurrentState(breaker)
  <1>1. breaker \in BreakerType
    BY DEF IInv, TypeOK
  <1>2. /\ c \in BreakerType
        /\ c.failures = breaker.failures /\ c.age = breaker.age
    BY <1>1, CurrentStateFacts
  <1>3. c.state = "HalfOpen" => /\ c.halfOpenOK < HalfOpenMax
                                /\ c.halfOpenOK <= okRun
                                /\ tripAge > ResetTimeout
    <2>1. CASE breaker.state = "Open" /\ breaker.age > ResetTimeout
      <3>1. c.halfOpenOK = 0
        BY <1>1, <2>1, CurrentStateFacts
      <3>2. breaker.age \in Nat /\ tripAge \in Nat /\ okRun \in Nat
        BY <1>1, ResetTimeoutAssumption
           DEF IInv, TypeOK, BreakerType, Expired, HalfOpenMax
      <3>3. QED
        BY <2>1, <3>1, <3>2, ResetTimeoutAssumption
           DEF IInv, HistoryInv, HalfOpenMax
    <2>2. CASE ~(breaker.state = "Open" /\ breaker.age > ResetTimeout)
      <3>1. c = breaker
        BY <1>1, <2>2, CurrentStateFacts
      <3>2. QED
        BY <3>1 DEF IInv, StateMatchesCounters, HistoryInv
    <2>3. QED
      BY <2>1, <2>2
  <1>4. breaker' = RecordSuccess(breaker)
    BY DEF Succeed
  <1>5. /\ breaker' \in BreakerType
        /\ breaker'.age = breaker.age
        /\ c.state = "Open" => breaker' = c
        /\ c.state = "Closed" => /\ breaker'.state = "Closed"
                                 /\ breaker'.failures = 0
        /\ c.state = "HalfOpen" /\ c.halfOpenOK + 1 >= HalfOpenMax
             => breaker'.state = "Closed" /\ breaker'.failures = 0
        /\ c.state = "HalfOpen" /\ c.halfOpenOK + 1 < HalfOpenMax
             => /\ breaker'.state = "HalfOpen"
                /\ breaker'.failures = c.failures
                /\ breaker'.halfOpenOK = c.halfOpenOK + 1
    <2> HIDE DEF c
    <2>1. c = CurrentState(breaker)
      BY DEF c
    <2>2. QED
      BY <1>1, <1>3, <1>4, <2>1, RecordSuccessFacts
  <1>6. /\ failRun' = 0 /\ tripAge' = tripAge
        /\ okRun' = IF okRun < HalfOpenMax THEN okRun + 1 ELSE okRun
    BY DEF Succeed
  <1>7. okRun \in 0..HalfOpenMax /\ tripAge \in 0..Expired
    BY DEF IInv, TypeOK
  <1>8. TypeOK'
    BY <1>5, <1>6, <1>7, FailureCapAssumption
       DEF IInv, TypeOK, Succeed, HalfOpenMax
  <1>9. c.halfOpenOK \in 0..HalfOpenMax /\ c.state \in States
    BY <1>2 DEF BreakerType
  <1>10. c.state # "Closed" => ~(c.failures < Threshold)
    BY <1>1, <1>2, CurrentStateFacts DEF IInv, StateMatchesCounters
  <1>11. c.state = "Open" => c = breaker
    BY <1>1, CurrentStateFacts
  <1> HIDE DEF c
  <1>12. StateMatchesCounters'
    BY <1>5, <1>9, <1>10, ThresholdAssumption
       DEF StateMatchesCounters, States, HalfOpenMax
  <1>13. HistoryInv'
    BY <1>3, <1>5, <1>6, <1>7, <1>9, <1>11
       DEF IInv, HistoryInv, States, HalfOpenMax
  <1>14. QED
    BY <1>8, <1>12, <1>13 DEF IInv

LEMMA FailIInv ==
    ASSUME IInv, NEW k \in Callers, Fail(k)
    PROVE  IInv'
  <1> DEFINE c == CurrentState(breaker)
  <1>1. breaker \in BreakerType
    BY DEF IInv, TypeOK
  <1>2. c \in BreakerType /\ (breaker.state = "Closed" => c = breaker)
        /\ (c.state = "Closed" => c = breaker)
    BY <1>1, CurrentStateFacts
  <1>3. /\ breaker' \in BreakerType
        /\ breaker'.age = 0
        /\ breaker'.failures = Bump(breaker.failures)
        /\ breaker'.state =
             IF c.state = "HalfOpen" \/ Bump(breaker.failures) >= Threshold
             THEN "Open" ELSE c.state
    BY <1>1, RecordFailureFacts DEF Fail
  <1>4. /\ failRun' = Bump(failRun) /\ okRun' = 0
        /\ tripAge' \in {0, tripAge}
    BY DEF Fail
  <1>5. /\ failRun \in 0..FailureCap /\ tripAge \in 0..Expired
        /\ breaker.failures \in 0..FailureCap
        /\ c.state \in States /\ breaker.state \in States
    BY <1>1, <1>2 DEF IInv, TypeOK, BreakerType
  <1>6. TypeOK'
    BY <1>3, <1>4, <1>5, FailureCapAssumption, ResetTimeoutAssumption
       DEF IInv, TypeOK, Fail, Bump, HalfOpenMax, Expired
  <1>7. /\ breaker.state = "Closed" => breaker.failures < Threshold
        /\ breaker.state # "Closed" => breaker.failures >= Threshold
    BY <1>5, ThresholdAssumption DEF IInv, StateMatchesCounters
  <1>8. /\ breaker'.state \in {"Open", "Closed"}
        /\ breaker'.state = "Closed" <=> breaker'.failures < Threshold
        /\ breaker'.state = "Closed" => breaker.state = "Closed"
    <2>1. CASE breaker.state = "Closed"
      BY <2>1, <1>2, <1>3, <1>5, FailureCapAssumption, ThresholdAssumption
         DEF Bump
    <2>2. CASE breaker.state # "Closed"
      <3>1. Bump(breaker.failures) >= Threshold
        BY <2>2, <1>5, <1>7, FailureCapAssumption, ThresholdAssumption
           DEF Bump
      <3>2. Bump(breaker.failures) \in Nat
        BY <1>5, FailureCapAssumption DEF Bump
      <3>3. QED
        BY <1>3, <3>1, <3>2, ThresholdAssumption
    <2>3. QED
      BY <2>1, <2>2
  <1>9. StateMatchesCounters'
    BY <1>8 DEF StateMatchesCounters
  <1>10. breaker'.state = "Closed" => breaker'.failures <= failRun'
    BY <1>3, <1>4, <1>5, <1>8, FailureCapAssumption
       DEF IInv, HistoryInv, Bump
  <1>11. HistoryInv'
    BY <1>3, <1>4, <1>5, <1>8, <1>10, ResetTimeoutAssumption
       DEF HistoryInv, Expired
  <1>12. QED
    BY <1>6, <1>9, <1>11 DEF IInv

LEMMA ResetIInv ==
    ASSUME IInv, ResetBreaker
    PROVE  IInv'
  <1>1. breaker \in BreakerType
    BY DEF IInv, TypeOK
  <1>2. /\ breaker' \in BreakerType
        /\ breaker'.state = "Closed"
        /\ breaker'.failures = 0
    <2>1. breaker' = [breaker EXCEPT !.state = "Closed", !.failures = 0]
      BY DEF ResetBreaker, Reset
    <2>2. 0 \in 0..FailureCap /\ "Closed" \in States
      BY FailureCapAssumption DEF States
    <2>3. QED
      BY <1>1, <2>1, <2>2 DEF BreakerType
  <1>3. failRun' \in Nat
    BY FailureCapAssumption DEF IInv, TypeOK, ResetBreaker
  <1>4. QED
    BY <1>2, <1>3, ThresholdAssumption
       DEF IInv, TypeOK, StateMatchesCounters, HistoryInv, ResetBreaker

LEMMA TickIInv ==
    ASSUME IInv, Tick
    PROVE  IInv'
  <1>1. breaker \in BreakerType /\ tripAge \in 0..Expired
    BY DEF IInv, TypeOK
  <1>2. breaker.age \in 0..Expired
    BY <1>1 DEF BreakerType
  <1>3. /\ breaker' \in BreakerType
        /\ breaker'.state = breaker.state
        /\ breaker'.failures = breaker.failures
        /\ breaker'.halfOpenOK = breaker.halfOpenOK
        /\ breaker'.age = IF breaker.age < Expired
                          THEN breaker.age + 1 ELSE breaker.age
    <2>1. breaker' = [breaker EXCEPT !.age =
                        IF @ < Expired THEN @ + 1 ELSE @]
      BY DEF Tick, Elapse
    <2>2. (IF breaker.age < Expired THEN breaker.age + 1 ELSE breaker.age)
            \in 0..Expired
      BY <1>2, ResetTimeoutAssumption DEF Expired
    <2>3. QED
      BY <1>1, <2>1, <2>2 DEF BreakerType
  <1>4. /\ tripAge' = IF tripAge < Expired THEN tripAge + 1 ELSE tripAge
        /\ UNCHANGED <<calls, failRun, okRun>>
    BY DEF Tick
  <1>5. TypeOK'
    BY <1>1, <1>3, <1>4, ResetTimeoutAssumption DEF IInv, TypeOK, Expired
  <1>6. StateMatchesCounters'
    BY <1>3 DEF IInv, StateMatchesCounters
  <1>7. HistoryInv'
    BY <1>1, <1>2, <1>3, <1>4, ResetTimeoutAssumption
       DEF IInv, HistoryInv, Expired
  <1>8. QED
    BY <1>5, <1>6, <1>7 DEF IInv

LEMMA NextIInv == IInv /\ [Next]_vars => IInv'
  <1> SUFFICES ASSUME IInv, [Next]_vars PROVE IInv'
    OBVIOUS
  <1>1. ASSUME NEW k \in Callers, Allow(k) PROVE IInv'
    <2>1. calls' \in [Callers -> BOOLEAN]
      BY <1>1 DEF IInv, TypeOK, Allow, Admits
    <2>2. QED
      BY <1>1, <2>1, RefreshIInv DEF Allow
  <1>2. ASSUME NEW k \in Callers, Succeed(k) PROVE IInv'
    BY <1>2, SucceedIInv
  <1>3. ASSUME NEW k \in Callers, Fail(k) PROVE IInv'
    BY <1>3, FailIInv
  <1>4. ASSUME NEW k \in Callers, Abandon(k) PROVE IInv'
    BY <1>4 DEF IInv, TypeOK, StateMatchesCounters, HistoryInv, Abandon
  <1>5. CASE State
    BY <1>5, RefreshIInv DEF State, IInv, TypeOK
  <1>6. CASE ResetBreaker
    BY <1>6, ResetIInv
  <1>7. CASE Tick
    BY <1>7, TickIInv
  <1>8. CASE UNCHANGED vars
    BY <1>8 DEF vars, IInv, TypeOK, StateMatchesCounters, HistoryInv
  <1>9. QED
    BY <1>1, <1>2, <1>3, <1>4, <1>5, <1>6, <1>7, <1>8 DEF Next, Use

LEMMA AlwaysIInv == Spec => []IInv
    BY InitIInv, NextIInv, PTL DEF Spec

-----------------------------------------------------------------------------
(* The breaker record, the callers and the history stay well-formed.        *)
THEOREM TypeCorrect == Spec => []TypeOK
  <1>1. IInv => TypeOK
    BY DEF IInv
  <1>2. QED
    BY <1>1, AlwaysIInv, PTL

(* Closed means fewer than Threshold failures on record, and a half-open    *)
(* breaker still owes a successful trial, whatever order reports arrive in. *)
THEOREM StateMatchesCountersAlways == Spec => []StateMatchesCounters
  <1>1. IInv => StateMatchesCounters
    BY DEF IInv
  <1>2. QED
    BY <1>1, AlwaysIInv, PTL

(* The step that opens a closed breaker.                                    *)
LEMMA TripStep ==
    ASSUME IInv, IInv', [Next]_vars,
           breaker.state = "Closed", breaker'.state = "Open"
    PROVE  failRun' >= Threshold
  <1>1. breaker \in BreakerType
    BY DEF IInv, TypeOK
  <1>2. CurrentState(breaker) = breaker
    BY <1>1, CurrentStateFacts
  <1>3. ASSUME NEW k \in Callers, Fail(k) PROVE failRun' >= Threshold
    <2>1. breaker'.failures = Bump(breaker.failures)
      BY <1>1, <1>3, RecordFailureFacts DEF Fail
    <2>2. failRun' = Bump(failRun)
      BY <1>3 DEF Fail
    <2>3. ~(breaker'.failures < Threshold)
      BY DEF IInv, StateMatchesCounters
    <2>4. /\ breaker.failures <= failRun /\ failRun \in 0..FailureCap
          /\ breaker.failures \in 0..FailureCap
      BY <1>1 DEF IInv, TypeOK, HistoryInv, BreakerType
    <2>5. QED
      BY <2>1, <2>2, <2>3, <2>4, ThresholdAssumption, FailureCapAssumption
         DEF Bump
  <1>4. ASSUME NEW k \in Callers, Succeed(k) PROVE FALSE
    <2>1. breaker.state = "HalfOpen" => breaker.halfOpenOK < HalfOpenMax
      BY DEF IInv, StateMatchesCounters
    <2>2. RecordSuccess(breaker).state = "Closed"
      BY <1>1, <1>2, <2>1, RecordSuccessFacts
    <2>3. QED
      BY <1>4, <2>2 DEF Succeed
  <1>5. breaker' # breaker
    OBVIOUS
  <1>6. ASSUME NEW k \in Callers, Allow(k) \/ Abandon(k) PROVE FALSE
    BY <1>2, <1>5, <1>6 DEF Allow, Abandon
  <1>7. ~State
    BY <1>2, <1>5 DEF State
  <1>8. ~ResetBreaker
    <2>1. Reset(breaker).state = "Closed"
      BY <1>1 DEF Reset, BreakerType
    <2>2. QED
      BY <2>1 DEF ResetBreaker
  <1>9. ~Tick
    <2>1. Elapse(breaker).state = breaker.state
      BY <1>1 DEF Elapse, BreakerType
    <2>2. QED
      BY <2>1 DEF Tick
  <1>10. ~(UNCHANGED vars)
    BY <1>5 DEF vars
  <1>11. QED
    BY <1>3, <1>4, <1>6, <1>7, <1>8, <1>9, <1>10 DEF Next, Use

(* A closed breaker opens only after Threshold failures in a row.           *)
THEOREM TripNeedsFailureRunAlways == Spec => TripNeedsFailureRun
  <1>1. ASSUME IInv, IInv', [Next]_vars
        PROVE  [breaker.state = "Closed" /\ breaker'.state = "Open"
                  => failRun' >= Threshold]_vars
    BY <1>1, TripStep
  <1>2. QED
    BY <1>1, AlwaysIInv, PTL DEF Spec, TripNeedsFailureRun

(* The step, other than Reset, that closes a breaker.                       *)
LEMMA ClosingStep ==
    ASSUME IInv, [(\E k \in Callers : Use(k)) \/ State \/ Tick]_vars,
           breaker.state # "Closed", breaker'.state = "Closed"
    PROVE  okRun' >= HalfOpenMax
  <1>1. breaker \in BreakerType /\ okRun \in 0..HalfOpenMax
    BY DEF IInv, TypeOK
  <1> DEFINE c == CurrentState(breaker)
  <1>2. c.state # "Closed" /\ c \in BreakerType
    BY <1>1, CurrentStateFacts
  <1>3. c.state = "HalfOpen" => /\ c.halfOpenOK < HalfOpenMax
                                /\ c.halfOpenOK <= okRun
    <2>1. CASE breaker.state = "Open" /\ breaker.age > ResetTimeout
      BY <1>1, <2>1, CurrentStateFacts DEF HalfOpenMax
    <2>2. CASE ~(breaker.state = "Open" /\ breaker.age > ResetTimeout)
      <3>1. c = breaker
        BY <1>1, <2>2, CurrentStateFacts
      <3>2. QED
        BY <3>1 DEF IInv, StateMatchesCounters, HistoryInv
    <2>3. QED
      BY <2>1, <2>2
  <1>4. ASSUME NEW k \in Callers, Succeed(k)
        PROVE  okRun' >= HalfOpenMax
    <2>1. c.halfOpenOK \in 0..HalfOpenMax /\ c.state \in States
      BY <1>2 DEF BreakerType
    <2>2. c.state = "HalfOpen" /\ c.halfOpenOK + 1 >= HalfOpenMax
      <3>1. breaker' = RecordSuccess(breaker)
        BY <1>4 DEF Succeed
      <3>2. c = CurrentState(breaker)
        OBVIOUS
      <3> HIDE DEF c
      <3>3. QED
        BY <1>1, <1>2, <1>3, <2>1, <3>1, <3>2, RecordSuccessFacts
           DEF States, HalfOpenMax
    <2>3. QED
      BY <1>1, <1>3, <1>4, <2>1, <2>2 DEF Succeed, HalfOpenMax
  <1>5. ASSUME NEW k \in Callers, Fail(k) PROVE FALSE
    <2>1. breaker'.state \in {"Open", c.state}
      BY <1>1, <1>5, RecordFailureFacts DEF Fail
    <2>2. QED
      BY <1>2, <2>1
  <1>6. breaker' # breaker /\ breaker' # c
    BY <1>2
  <1>7. ASSUME NEW k \in Callers, Allow(k) \/ Abandon(k) PROVE FALSE
    BY <1>6, <1>7 DEF Allow, Abandon
  <1>8. ~State /\ ~(UNCHANGED vars)
    BY <1>6 DEF State, vars
  <1>9. ~Tick
    <2>1. Elapse(breaker).state = breaker.state
      BY <1>1 DEF Elapse, BreakerType
    <2>2. QED
      BY <2>1 DEF Tick
  <1>10. QED
    BY <1>4, <1>5, <1>7, <1>8, <1>9 DEF Use

(* A breaker that was open closes only by Reset or after HalfOpenMax        *)
(* successes in a row.                                                      *)
THEOREM ClosingIsEarnedAlways == Spec => ClosingIsEarned
  <1>1. ASSUME IInv, [Next]_vars
        PROVE  [breaker.state # "Closed" /\ breaker'.state = "Closed"
                  => ResetBreaker \/ okRun' >= HalfOpenMax]_vars
    BY <1>1, ClosingStep DEF Next
  <1>2. QED
    BY <1>1, AlwaysIInv, PTL DEF Spec, ClosingIsEarned

(* The step that admits a caller to a breaker that is not closed.           *)
LEMMA AdmissionStep ==
    ASSUME IInv, [Next]_vars,
           NEW c \in Callers, ~calls[c], calls'[c], breaker.state # "Closed"
    PROVE  tripAge > ResetTimeout
  <1>1. breaker \in BreakerType /\ calls \in [Callers -> BOOLEAN]
    BY DEF IInv, TypeOK
  <1>2. breaker.age \in Nat /\ tripAge \in Nat /\ breaker.state \in States
    BY <1>1, ResetTimeoutAssumption
       DEF IInv, TypeOK, BreakerType, Expired
  <1>3. ASSUME NEW k \in Callers, Allow(k) PROVE tripAge > ResetTimeout
    <2>1. Admits(breaker)
      BY <1>1, <1>3 DEF Allow
    <2>2. CASE breaker.state = "HalfOpen"
      BY <2>2 DEF IInv, HistoryInv
    <2>3. CASE breaker.state = "Open"
      <3>1. breaker.age > ResetTimeout
        BY <1>1, <2>1, <2>3, CurrentStateFacts DEF Admits
      <3>2. breaker.age <= tripAge
        BY <2>3 DEF IInv, HistoryInv
      <3>3. QED
        BY <1>2, <3>1, <3>2, ResetTimeoutAssumption
    <2>4. QED
      BY <1>2, <2>2, <2>3 DEF States
  <1>4. ASSUME NEW k \in Callers, Succeed(k) \/ Fail(k) \/ Abandon(k)
        PROVE  FALSE
    BY <1>1, <1>4 DEF Succeed, Fail, Abandon
  <1>5. calls' # calls
    OBVIOUS
  <1>6. ~State /\ ~ResetBreaker /\ ~Tick /\ ~(UNCHANGED vars)
    BY <1>5 DEF State, ResetBreaker, Tick, vars
  <1>7. QED
    BY <1>3, <1>4, <1>6 DEF Next, Use

(* Nobody is admitted within resetTimeout of a trip that was not Reset.     *)
THEOREM CoolingOffAlways == Spec => CoolingOff
  <1>1. ASSUME IInv, [Next]_vars
        PROVE  [\A c \in Callers : ~calls[c] /\ calls'[c]
                  => breaker.state = "Closed" \/ tripAge > ResetTimeout]_vars
    BY <1>1, AdmissionStep
  <1>2. QED
    BY <1>1, AlwaysIInv, PTL DEF Spec, CoolingOff
=============================================================================
