-------------------------- MODULE Scheduler_proofs --------------------------
(***************************************************************************)
(* The schedulers' safety for every set of nodes and samples, every batch   *)
(* size, interval, threshold and timeout.                                   *)
(***************************************************************************)
EXTENDS NodeBreaker, FiniteSetTheorems, TLAPS

(* The breaker that NodeBreaker instantiates means the same by every method, *)
(* so that what CircuitBreaker_proofs says of the methods can be cited.      *)
LEMMA SameConstants ==
    B!New = New /\ B!Expired = Expired /\ B!HalfOpenMax = HalfOpenMax
  BY DEF New, B!New, Expired, B!Expired, HalfOpenMax, B!HalfOpenMax

LEMMA SameBump == ASSUME NEW k PROVE B!Bump(k) = Bump(k)
  BY DEF Bump, B!Bump

LEMMA SameBreaker ==
    ASSUME NEW b
    PROVE  /\ B!CurrentState(b) = CurrentState(b)
           /\ B!Admits(b) = Admits(b)
           /\ B!RecordSuccess(b) = RecordSuccess(b)
           /\ B!RecordFailure(b) = RecordFailure(b)
           /\ B!Elapse(b) = Elapse(b)
  <1>1. B!CurrentState(b) = CurrentState(b) /\ B!Elapse(b) = Elapse(b)
    BY SameConstants DEF CurrentState, B!CurrentState, Elapse, B!Elapse
  <1>2. B!Admits(b) = Admits(b)
    BY <1>1 DEF Admits, B!Admits
  <1>3. B!RecordSuccess(b) = RecordSuccess(b)
    BY <1>1, SameConstants DEF RecordSuccess, B!RecordSuccess
  <1>4. B!RecordFailure(b) = RecordFailure(b)
    BY <1>1, SameBump DEF RecordFailure, B!RecordFailure, Bump, B!Bump
  <1>5. QED
    BY <1>1, <1>2, <1>3, <1>4

(* A record the methods can have produced: a half-open breaker still owes a *)
(* success.  Every method keeps it so.                                      *)
Sound(b) ==
    /\ b \in BreakerType
    /\ b.state = "HalfOpen" => b.halfOpenOK < HalfOpenMax

LEMMA SameSound == ASSUME NEW b PROVE B!Sound(b) <=> Sound(b)
  BY SameConstants
     DEF Sound, B!Sound, BreakerType, B!BreakerType, States, B!States

LEMMA NewSound == Sound(New) /\ New.state = "Closed"
  BY B!NewSound, SameConstants, SameSound,
     ThresholdAssumption, ResetTimeoutAssumption, FailureCapAssumption

LEMMA MethodsSound ==
    ASSUME NEW b, Sound(b)
    PROVE  /\ Sound(CurrentState(b)) /\ (b.state # "Open" => CurrentState(b) = b)
           /\ Sound(RecordSuccess(b))
           /\ Sound(RecordFailure(b))
           /\ Sound(Elapse(b)) /\ Elapse(b).state = b.state
  <1>1. B!Sound(b)
    BY SameSound
  <1>2. /\ B!Sound(B!CurrentState(b)) /\ (b.state # "Open" => B!CurrentState(b) = b)
        /\ B!Sound(B!RecordSuccess(b))
        /\ B!Sound(B!RecordFailure(b))
        /\ B!Sound(B!Elapse(b)) /\ B!Elapse(b).state = b.state
    BY <1>1, B!CurrentStateSound, B!RecordSuccessSound, B!RecordFailureSound,
       B!ElapseSound,
       ThresholdAssumption, ResetTimeoutAssumption, FailureCapAssumption
  <1>3. QED
    BY <1>2, SameBreaker, SameSound

-----------------------------------------------------------------------------

(* Between the fetch and the commit of node n: the transaction holds only   *)
(* fetched samples the table lacks, and every fetched sample is still to be *)
(* sent, in the transaction, or already in the table.                       *)
TxInv(n) ==
    /\ tx[n] \cap rows[n] = {}
    /\ pc[n] # "insert" => tx[n] = {}
    /\ pc[n] = "insert" => /\ fetched[n] \in offered[n]
                           /\ todo[n] \cup tx[n] \subseteq fetched[n]
                           /\ fetched[n] \subseteq todo[n] \cup tx[n] \cup rows[n]

AttemptInv(n) ==
    /\ pc[n] = "collect" => attempt[n] \in 1..MaxAttempts
    /\ pc[n] = "backoff" => attempt[n] \in 1..(MaxAttempts - 1)

Whole(n) == \E S \in SUBSET offered[n] : rows[n] = UNION S

NodeInv(n) ==
    /\ Sound(breaker[n])
    /\ pc[n] \in InCycle => breaker[n].state # "Open"
    /\ pc[n] \in {"collect", "backoff", "insert"} => n \in registered
    /\ AttemptInv(n)
    /\ TxInv(n)
    /\ Whole(n)

SInv == TypeOK /\ \A n \in Nodes : NodeInv(n)

-----------------------------------------------------------------------------
(* A step that leaves a node's own state alone keeps its invariant.         *)
LEMMA Frame ==
    ASSUME NEW m \in Nodes, NodeInv(m),
           pc'[m] = pc[m], attempt'[m] = attempt[m], breaker'[m] = breaker[m],
           fetched'[m] = fetched[m], todo'[m] = todo[m], tx'[m] = tx[m],
           rows'[m] = rows[m], offered'[m] = offered[m],
           registered \subseteq registered'
    PROVE  NodeInv(m)'
  BY DEF NodeInv, AttemptInv, TxInv, Whole

(* What collectOnce leaves behind when it returns.                          *)
LEMMA ReturnFacts ==
    ASSUME TypeOK, NEW n \in Nodes, NEW r \in Returns, Return(n, r)
    PROVE  /\ pc' \in [Nodes -> PCs] /\ ret' \in [Nodes -> Returns]
           /\ ticker' \in [Nodes -> 0..Interval]
           /\ attempt' \in [Nodes -> 0..MaxAttempts]
           /\ lastErr' \in [Nodes -> BOOLEAN]
           /\ timer' \in [Nodes -> 0..2]
           /\ fetched' \in [Nodes -> SUBSET Keys]
           /\ todo' \in [Nodes -> SUBSET Keys]
           /\ tx' \in [Nodes -> SUBSET Keys]
           /\ pc'[n] = "idle" /\ ret'[n] = r /\ tx'[n] = {}
           /\ \A m \in Nodes \ {n} :
                /\ pc'[m] = pc[m] /\ attempt'[m] = attempt[m]
                /\ fetched'[m] = fetched[m] /\ todo'[m] = todo[m]
                /\ tx'[m] = tx[m]
  <1>1. /\ pc' \in [Nodes -> PCs] /\ pc'[n] = "idle"
        /\ \A m \in Nodes \ {n} : pc'[m] = pc[m]
    BY DEF Return, Goto, TypeOK, PCs
  <1>2. ret' \in [Nodes -> Returns] /\ ret'[n] = r
    BY DEF Return, TypeOK
  <1>3. ticker' \in [Nodes -> 0..Interval]
    BY IntervalAssumption DEF Return, TypeOK
  <1>4. /\ attempt' \in [Nodes -> 0..MaxAttempts]
        /\ \A m \in Nodes \ {n} : attempt'[m] = attempt[m]
    BY DEF Return, TypeOK, MaxAttempts
  <1>5. lastErr' \in [Nodes -> BOOLEAN] /\ timer' \in [Nodes -> 0..2]
    BY DEF Return, TypeOK
  <1>6. /\ fetched' \in [Nodes -> SUBSET Keys] /\ todo' \in [Nodes -> SUBSET Keys]
        /\ tx' \in [Nodes -> SUBSET Keys] /\ tx'[n] = {}
        /\ \A m \in Nodes \ {n} :
              fetched'[m] = fetched[m] /\ todo'[m] = todo[m] /\ tx'[m] = tx[m]
    BY DEF Return, TypeOK
  <1>7. QED
    BY <1>1, <1>2, <1>3, <1>4, <1>5, <1>6

(* What a report to the breaker of node n changes.                          *)
LEMMA RecordFacts ==
    ASSUME SInv, NEW n \in Nodes, NEW b, Sound(b), Record(n, b)
    PROVE  /\ breaker' \in [Nodes -> BreakerType]
           /\ breaker'[n] = b
           /\ \A m \in Nodes \ {n} : breaker'[m] = breaker[m]
  <1>1. breaker \in [Nodes -> BreakerType] /\ b \in BreakerType
    BY DEF SInv, TypeOK, Sound
  <1>2. QED
    BY <1>1 DEF Record

(* The three values a step reports to a breaker are sound.                  *)
LEMMA ReportsSound ==
    ASSUME SInv, NEW n \in Nodes
    PROVE  /\ Sound(breaker[n])
           /\ Sound(CurrentState(breaker[n]))
           /\ Sound(RecordSuccess(breaker[n]))
           /\ Sound(RecordFailure(breaker[n]))
           /\ Admits(breaker[n]) <=> CurrentState(breaker[n]).state # "Open"
  <1>1. Sound(breaker[n])
    BY DEF SInv, NodeInv
  <1>2. QED
    BY <1>1, MethodsSound DEF Admits

(* A returning step that commits nothing keeps the invariant: the caller    *)
(* shows what happened to the breaker and the database.                     *)
LEMMA ReturnSInv ==
    ASSUME SInv, NEW n \in Nodes, NEW r \in Returns, Return(n, r),
           alive' = alive, cancelled' = cancelled, fired' = fired,
           breaker' \in [Nodes -> BreakerType], Sound(breaker'[n]),
           \A m \in Nodes \ {n} : breaker'[m] = breaker[m],
           total' \in 0..CounterCap, errors' \in 0..CounterCap, inserted' \in Nat,
           registered' \subseteq Nodes, registered \subseteq registered',
           rows' \in [Nodes -> SUBSET Keys], offered' = offered,
           \A m \in Nodes \ {n} : rows'[m] = rows[m],
           Whole(n)', UNCHANGED envVars
    PROVE  SInv'
  <1>1. TypeOK
    BY DEF SInv
  <1>2. TypeOK'
    BY <1>1, ReturnFacts DEF TypeOK, envVars
  <1>3. NodeInv(n)'
    <2>1. pc'[n] = "idle" /\ tx'[n] = {}
      BY <1>1, ReturnFacts
    <2>2. QED
      BY <2>1 DEF NodeInv, AttemptInv, TxInv, InCycle
  <1>4. \A m \in Nodes \ {n} : NodeInv(m)'
    <2> SUFFICES ASSUME NEW m \in Nodes \ {n} PROVE NodeInv(m)'
      OBVIOUS
    <2>1. NodeInv(m)
      BY DEF SInv
    <2>2. QED
      BY <1>1, <2>1, ReturnFacts, Frame
  <1>5. QED
    BY <1>2, <1>3, <1>4 DEF SInv
-----------------------------------------------------------------------------
(* The invariant, and one lemma per action.                                 *)

LEMMA InitSInv == Init => SInv
  <1> SUFFICES ASSUME Init PROVE SInv
    OBVIOUS
  <1>1. Sound(New) /\ New.state = "Closed" /\ New \in BreakerType
    BY NewSound DEF Sound
  <1>2. TypeOK
    <2>1. alive \in BOOLEAN /\ cancelled \in BOOLEAN /\ dbUp \in BOOLEAN
      BY DEF Init
    <2>2. lastErr \in [Nodes -> BOOLEAN] /\ fired \in [Nodes -> BOOLEAN]
      BY DEF Init, Each
    <2>3. /\ attempt \in [Nodes -> 0..MaxAttempts] /\ timer \in [Nodes -> 0..2]
          /\ ticker \in [Nodes -> 0..Interval]
          /\ total \in 0..CounterCap /\ errors \in 0..CounterCap
          /\ inserted \in Nat
      BY CounterCapAssumption, IntervalAssumption DEF Init, Each, MaxAttempts
    <2>4. /\ pc \in [Nodes -> PCs] /\ ret \in [Nodes -> Returns]
          /\ agent \in [Nodes -> {"up", "empty", "down"}]
          /\ breaker \in [Nodes -> BreakerType]
      BY <1>1 DEF Init, Each, PCs, Returns
    <2>5. /\ fetched \in [Nodes -> SUBSET Keys] /\ todo \in [Nodes -> SUBSET Keys]
          /\ tx \in [Nodes -> SUBSET Keys] /\ rows \in [Nodes -> SUBSET Keys]
          /\ offered \in [Nodes -> SUBSET SUBSET Keys] /\ registered \subseteq Nodes
      BY DEF Init, Each
    <2>6. QED
      BY <2>1, <2>2, <2>3, <2>4, <2>5 DEF TypeOK
  <1>3. ASSUME NEW n \in Nodes PROVE NodeInv(n)
    <2>1. /\ pc[n] = "begin" /\ tx[n] = {} /\ rows[n] = {} /\ offered[n] = {}
          /\ breaker[n] = New
      BY DEF Init, Each
    <2>2. Whole(n)
      BY <2>1 DEF Whole
    <2>3. QED
      BY <1>1, <2>1, <2>2 DEF NodeInv, AttemptInv, TxInv, InCycle
  <1>4. QED
    BY <1>2, <1>3 DEF SInv

(* While the samples and the table stay as they are, so does Whole.         *)
LEMMA WholeKept ==
    ASSUME SInv, NEW n \in Nodes, rows'[n] = rows[n], offered'[n] = offered[n]
    PROVE  Whole(n)'
  BY DEF SInv, NodeInv, Whole

LEMMA BeginSInv ==
    ASSUME SInv, NEW n \in Nodes, Begin(n)
    PROVE  SInv'
  <1>1. /\ breaker' \in [Nodes -> BreakerType]
        /\ breaker'[n] = CurrentState(breaker[n])
        /\ Sound(breaker'[n])
        /\ \A m \in Nodes \ {n} : breaker'[m] = breaker[m]
    BY ReportsSound, RecordFacts DEF Begin
  <1>2. TypeOK
    BY DEF SInv
  <1>3. UNCHANGED <<alive, cancelled, fired, counters, dbVars, envVars>>
    BY DEF Begin
  <1>4. Whole(n)'
    BY <1>3, WholeKept DEF dbVars
  <1>5. CASE Return(n, "open")
    <2>1. "open" \in Returns
      BY DEF Returns
    <2>2. QED
      BY <1>1, <1>2, <1>3, <1>4, <1>5, <2>1, ReturnSInv
         DEF TypeOK, counters, dbVars
  <1>6. CASE Admits(breaker[n]) /\ Goto(n, "upsert")
             /\ UNCHANGED <<cycleVars, ticker, ret>>
    <2>1. /\ pc' \in [Nodes -> PCs] /\ pc'[n] = "upsert"
          /\ \A m \in Nodes \ {n} : pc'[m] = pc[m]
      BY <1>2, <1>6 DEF Goto, TypeOK, PCs
    <2>2. TypeOK'
      BY <1>1, <1>2, <1>3, <1>6, <2>1
         DEF TypeOK, cycleVars, counters, dbVars, envVars
    <2>3. NodeInv(n)'
      <3>1. pc[n] = "begin" /\ TxInv(n)
        BY DEF Begin, SInv, NodeInv
      <3>2. breaker'[n].state # "Open"
        BY <1>1, <1>6, ReportsSound
      <3>3. QED
        BY <1>1, <1>3, <1>4, <1>6, <2>1, <3>1, <3>2
           DEF NodeInv, AttemptInv, TxInv, InCycle, cycleVars, dbVars
    <2>4. ASSUME NEW m \in Nodes \ {n} PROVE NodeInv(m)'
      <3>1. NodeInv(m)
        BY DEF SInv
      <3>2. QED
        BY <1>1, <1>3, <1>6, <2>1, <3>1, Frame DEF cycleVars, dbVars
    <2>5. QED
      BY <2>2, <2>3, <2>4 DEF SInv
  <1>7. QED
    BY <1>5, <1>6 DEF Begin

LEMMA UpsertOKSInv ==
    ASSUME SInv, NEW n \in Nodes, UpsertOK(n)
    PROVE  SInv'
  <1>1. TypeOK /\ NodeInv(n) /\ pc[n] = "upsert"
    BY DEF SInv, UpsertOK
  <1>2. /\ pc' \in [Nodes -> PCs] /\ pc'[n] = "collect"
        /\ attempt' \in [Nodes -> 0..MaxAttempts] /\ attempt'[n] = 1
        /\ \A m \in Nodes \ {n} : pc'[m] = pc[m] /\ attempt'[m] = attempt[m]
    BY <1>1 DEF UpsertOK, Goto, TypeOK, PCs, MaxAttempts
  <1>3. registered' = registered \cup {n}
    BY DEF UpsertOK
  <1>4. UNCHANGED <<alive, cancelled, lastErr, timer, fetched, todo, tx, ticker,
                    fired, breaker, ret, counters, rows, offered, envVars>>
    BY DEF UpsertOK
  <1>5. TypeOK'
    BY <1>1, <1>2, <1>3, <1>4 DEF TypeOK, counters, envVars
  <1>6. NodeInv(n)'
    <2>1. Whole(n)'
      BY <1>4, WholeKept
    <2>2. breaker[n].state # "Open"
      BY <1>1 DEF NodeInv, InCycle
    <2>3. QED
      BY <1>1, <1>2, <1>3, <1>4, <2>1, <2>2
         DEF NodeInv, AttemptInv, TxInv, MaxAttempts
  <1>7. ASSUME NEW m \in Nodes \ {n} PROVE NodeInv(m)'
    <2>1. NodeInv(m)
      BY DEF SInv
    <2>2. QED
      BY <1>2, <1>3, <1>4, <2>1, Frame
  <1>8. QED
    BY <1>5, <1>6, <1>7 DEF SInv

LEMMA UpsertFailSInv ==
    ASSUME SInv, NEW n \in Nodes, UpsertFail(n)
    PROVE  SInv'
  <1>1. TypeOK /\ Sound(breaker[n]) /\ "upsert" \in Returns
    BY DEF SInv, NodeInv, Returns
  <1>2. registered' \subseteq Nodes /\ registered \subseteq registered'
    BY <1>1 DEF UpsertFail, TypeOK
  <1>3. Whole(n)'
    BY WholeKept DEF UpsertFail
  <1>4. QED
    BY <1>1, <1>2, <1>3, ReturnSInv DEF UpsertFail, TypeOK, counters

LEMMA FetchFailedSInv ==
    ASSUME SInv, NEW n \in Nodes, FetchFailed(n)
    PROVE  SInv'
  <1>1. /\ breaker' \in [Nodes -> BreakerType] /\ Sound(breaker'[n])
        /\ \A m \in Nodes \ {n} : breaker'[m] = breaker[m]
    BY ReportsSound, RecordFacts DEF FetchFailed
  <1>2. TypeOK /\ "fetch" \in Returns
    BY DEF SInv, Returns
  <1>3. errors' \in 0..CounterCap
    BY <1>2, CounterCapAssumption DEF FetchFailed, TypeOK, Count
  <1>4. Whole(n)'
    BY WholeKept DEF FetchFailed, dbVars
  <1>5. QED
    BY <1>1, <1>2, <1>3, <1>4, ReturnSInv DEF FetchFailed, TypeOK, dbVars

(* Steps that end no cycle: node n moves to another place, its breaker and  *)
(* the table stay as they are; the caller shows the rest.                   *)
LEMMA MoveSInv ==
    ASSUME SInv, NEW n \in Nodes, NEW l \in PCs, Goto(n, l), TypeOK',
           breaker' = breaker, registered' = registered, rows' = rows,
           \A m \in Nodes \ {n} :
                /\ attempt'[m] = attempt[m] /\ fetched'[m] = fetched[m]
                /\ todo'[m] = todo[m] /\ tx'[m] = tx[m]
                /\ offered'[m] = offered[m],
           offered[n] \subseteq offered'[n],
           l \in InCycle => pc[n] \in InCycle,
           l \in {"collect", "backoff", "insert"}
             => pc[n] \in {"collect", "backoff", "insert"},
           AttemptInv(n)', TxInv(n)'
    PROVE  SInv'
  <1>1. TypeOK /\ NodeInv(n)
    BY DEF SInv
  <1>2. pc'[n] = l /\ \A m \in Nodes \ {n} : pc'[m] = pc[m]
    BY <1>1 DEF Goto, TypeOK
  <1>3. NodeInv(n)'
    <2>1. Whole(n)'
      BY <1>1 DEF NodeInv, Whole
    <2>2. QED
      BY <1>1, <1>2, <2>1 DEF NodeInv
  <1>4. ASSUME NEW m \in Nodes \ {n} PROVE NodeInv(m)'
    <2>1. NodeInv(m)
      BY DEF SInv
    <2>2. QED
      BY <1>2, <2>1, Frame
  <1>5. QED
    BY <1>3, <1>4 DEF SInv

LEMMA CollectSomeSInv ==
    ASSUME SInv, NEW n \in Nodes, CollectSome(n)
    PROVE  SInv'
  <1>1. TypeOK /\ NodeInv(n) /\ pc[n] = "collect"
    BY DEF SInv, CollectSome
  <1>2. PICK s \in SUBSET Keys :
          /\ fetched' = [fetched EXCEPT ![n] = s]
          /\ todo' = [todo EXCEPT ![n] = s]
          /\ offered' = [offered EXCEPT ![n] = offered[n] \cup {s}]
    BY DEF CollectSome
  <1>3. UNCHANGED <<alive, cancelled, attempt, lastErr, timer, tx, ticker, fired,
                    breaker, ret, counters, registered, rows, envVars>>
    BY DEF CollectSome
  <1>4. Goto(n, "insert") /\ "insert" \in PCs
    BY DEF CollectSome, PCs
  <1>5. pc' \in [Nodes -> PCs] /\ pc'[n] = "insert"
    BY <1>1, <1>4 DEF Goto, TypeOK
  <1>6. /\ fetched' \in [Nodes -> SUBSET Keys] /\ todo' \in [Nodes -> SUBSET Keys]
        /\ offered' \in [Nodes -> SUBSET SUBSET Keys]
        /\ fetched'[n] = s /\ todo'[n] = s /\ offered'[n] = offered[n] \cup {s}
        /\ \A m \in Nodes \ {n} : /\ fetched'[m] = fetched[m]
                                  /\ todo'[m] = todo[m]
                                  /\ offered'[m] = offered[m]
    BY <1>1, <1>2 DEF TypeOK
  <1>7. TypeOK'
    BY <1>1, <1>3, <1>5, <1>6 DEF TypeOK, counters, envVars
  <1>8. AttemptInv(n)' /\ TxInv(n)'
    BY <1>1, <1>3, <1>5, <1>6 DEF NodeInv, AttemptInv, TxInv
  <1>9. QED
    BY <1>1, <1>3, <1>4, <1>6, <1>7, <1>8, MoveSInv DEF InCycle

LEMMA CollectEmptySInv ==
    ASSUME SInv, NEW n \in Nodes, CollectEmpty(n)
    PROVE  SInv'
  <1>1. CASE FetchFailed(n)
    BY <1>1, FetchFailedSInv
  <1>2. CASE /\ Return(n, "nil")
             /\ UNCHANGED <<alive, cancelled, fired, breaker, counters, dbVars,
                            envVars>>
    <2>1. TypeOK /\ Sound(breaker[n]) /\ "nil" \in Returns
      BY DEF SInv, NodeInv, Returns
    <2>2. Whole(n)'
      BY <1>2, WholeKept DEF dbVars
    <2>3. QED
      BY <1>2, <2>1, <2>2, ReturnSInv DEF TypeOK, counters, dbVars
  <1>3. QED
    BY <1>1, <1>2 DEF CollectEmpty

LEMMA CollectErrorSInv ==
    ASSUME SInv, NEW n \in Nodes, CollectError(n)
    PROVE  SInv'
  <1>1. CASE FetchFailed(n)
    BY <1>1, FetchFailedSInv
  <1>2. CASE ~FetchFailed(n)
    <2>1. TypeOK /\ NodeInv(n) /\ pc[n] = "collect"
      BY DEF SInv, CollectError
    <2>2. /\ attempt[n] < MaxAttempts
          /\ lastErr' = [lastErr EXCEPT ![n] = TRUE]
          /\ timer' = [timer EXCEPT ![n] = Backoff[attempt[n]]]
          /\ Goto(n, "backoff")
          /\ UNCHANGED <<alive, cancelled, attempt, fetched, todo, tx, ticker,
                         fired, breaker, ret, counters, dbVars, envVars>>
      BY <1>2 DEF CollectError
    <2>3. attempt[n] \in 1..2
      BY <2>1, <2>2 DEF NodeInv, AttemptInv, MaxAttempts
    <2>4. Backoff[attempt[n]] \in 0..2
      <3>1. CASE attempt[n] = 1
        BY <3>1 DEF Backoff
      <3>2. CASE attempt[n] = 2
        BY <3>2 DEF Backoff
      <3>3. QED
        BY <2>3, <3>1, <3>2
    <2>5. timer' \in [Nodes -> 0..2]
      BY <2>1, <2>2, <2>4 DEF TypeOK
    <2>6. lastErr' \in [Nodes -> BOOLEAN]
      BY <2>1, <2>2 DEF TypeOK
    <2>7. pc' \in [Nodes -> PCs] /\ pc'[n] = "backoff" /\ "backoff" \in PCs
      BY <2>1, <2>2 DEF Goto, TypeOK, PCs
    <2>8. TypeOK'
      BY <2>1, <2>2, <2>5, <2>6, <2>7 DEF TypeOK, counters, dbVars, envVars
    <2>9. AttemptInv(n)' /\ TxInv(n)'
      BY <2>1, <2>2, <2>3, <2>7
         DEF NodeInv, AttemptInv, TxInv, MaxAttempts, dbVars
    <2>10. QED
      BY <2>1, <2>2, <2>7, <2>8, <2>9, MoveSInv DEF InCycle, dbVars
  <1>3. QED
    BY <1>1, <1>2

LEMMA BackoffOverSInv ==
    ASSUME SInv, NEW n \in Nodes, BackoffOver(n)
    PROVE  SInv'
  <1>1. TypeOK /\ NodeInv(n) /\ pc[n] = "backoff"
    BY DEF SInv, BackoffOver
  <1>2. attempt[n] \in 1..2 /\ attempt' = [attempt EXCEPT ![n] = attempt[n] + 1]
    BY <1>1 DEF BackoffOver, NodeInv, AttemptInv, MaxAttempts
  <1>3. /\ attempt' \in [Nodes -> 0..MaxAttempts] /\ attempt'[n] \in 1..MaxAttempts
        /\ \A m \in Nodes \ {n} : attempt'[m] = attempt[m]
    BY <1>1, <1>2 DEF TypeOK, MaxAttempts
  <1>4. UNCHANGED <<alive, cancelled, lastErr, timer, fetched, todo, tx, ticker,
                    fired, breaker, ret, counters, dbVars, envVars>>
    BY DEF BackoffOver
  <1>5. /\ Goto(n, "collect") /\ "collect" \in PCs
        /\ pc' \in [Nodes -> PCs] /\ pc'[n] = "collect"
    BY <1>1 DEF BackoffOver, Goto, TypeOK, PCs
  <1>6. TypeOK'
    BY <1>1, <1>3, <1>4, <1>5 DEF TypeOK, counters, dbVars, envVars
  <1>7. AttemptInv(n)' /\ TxInv(n)'
    BY <1>1, <1>3, <1>4, <1>5 DEF NodeInv, AttemptInv, TxInv, dbVars
  <1>8. QED
    BY <1>1, <1>3, <1>4, <1>5, <1>6, <1>7, MoveSInv DEF InCycle, dbVars

LEMMA BackoffCancelledSInv ==
    ASSUME SInv, NEW n \in Nodes, BackoffCancelled(n)
    PROVE  SInv'
  <1>1. TypeOK /\ Sound(breaker[n]) /\ "cancel" \in Returns
    BY DEF SInv, NodeInv, Returns
  <1>2. Whole(n)'
    BY WholeKept DEF BackoffCancelled, dbVars
  <1>3. QED
    BY <1>1, <1>2, ReturnSInv DEF BackoffCancelled, TypeOK, counters, dbVars

LEMMA InsertBatchSInv ==
    ASSUME SInv, NEW n \in Nodes, InsertBatch(n)
    PROVE  SInv'
  <1>1. TypeOK /\ NodeInv(n) /\ pc[n] = "insert"
    BY DEF SInv, InsertBatch
  <1>2. PICK b \in SUBSET todo[n] :
          /\ todo' = [todo EXCEPT ![n] = todo[n] \ b]
          /\ tx' = [tx EXCEPT ![n] = tx[n] \cup (b \ rows[n])]
    BY DEF InsertBatch, Slices
  <1>3. UNCHANGED <<alive, cancelled, pc, attempt, lastErr, timer, fetched,
                    ticker, fired, breaker, ret, counters, dbVars, envVars>>
    BY DEF InsertBatch
  <1>4. /\ todo' \in [Nodes -> SUBSET Keys] /\ tx' \in [Nodes -> SUBSET Keys]
        /\ todo'[n] = todo[n] \ b /\ tx'[n] = tx[n] \cup (b \ rows[n])
        /\ \A m \in Nodes \ {n} : todo'[m] = todo[m] /\ tx'[m] = tx[m]
    BY <1>1, <1>2 DEF TypeOK
  <1>5. TypeOK'
    BY <1>1, <1>3, <1>4 DEF TypeOK, counters, dbVars, envVars
  <1>6. TxInv(n)'
    <2>1. todo[n] \subseteq fetched[n]
      BY <1>1 DEF NodeInv, TxInv
    <2>2. QED
      BY <1>1, <1>3, <1>4, <2>1 DEF NodeInv, TxInv, dbVars
  <1>7. NodeInv(n)'
    <2>1. Whole(n)' /\ AttemptInv(n)'
      BY <1>1, <1>3, WholeKept DEF NodeInv, AttemptInv, dbVars
    <2>2. QED
      BY <1>1, <1>3, <1>6, <2>1 DEF NodeInv, dbVars
  <1>8. ASSUME NEW m \in Nodes \ {n} PROVE NodeInv(m)'
    <2>1. NodeInv(m)
      BY DEF SInv
    <2>2. QED
      BY <1>3, <1>4, <2>1, Frame DEF dbVars
  <1>9. QED
    BY <1>5, <1>7, <1>8 DEF SInv

LEMMA InsertFailSInv ==
    ASSUME SInv, NEW n \in Nodes, InsertFail(n)
    PROVE  SInv'
  <1>1. /\ breaker' \in [Nodes -> BreakerType] /\ Sound(breaker'[n])
        /\ \A m \in Nodes \ {n} : breaker'[m] = breaker[m]
    BY ReportsSound, RecordFacts DEF InsertFail
  <1>2. TypeOK /\ "insert" \in Returns
    BY DEF SInv, Returns
  <1>3. Whole(n)'
    BY WholeKept DEF InsertFail, dbVars
  <1>4. QED
    BY <1>1, <1>2, <1>3, ReturnSInv DEF InsertFail, TypeOK, counters, dbVars

(* A commit adds exactly the fetched samples the table lacked, so the table *)
(* gains one whole collection.                                              *)
LEMMA CommitWhole ==
    ASSUME SInv, NEW n \in Nodes, pc[n] = "insert", todo[n] = {},
           rows' = [rows EXCEPT ![n] = rows[n] \cup tx[n]],
           offered' = offered
    PROVE  /\ rows' \in [Nodes -> SUBSET Keys]
           /\ \A m \in Nodes \ {n} : rows'[m] = rows[m]
           /\ rows'[n] = rows[n] \cup fetched[n]
           /\ Whole(n)'
  <1>1. TypeOK /\ NodeInv(n)
    BY DEF SInv
  <1>2. /\ rows' \in [Nodes -> SUBSET Keys]
        /\ \A m \in Nodes \ {n} : rows'[m] = rows[m]
        /\ rows'[n] = rows[n] \cup tx[n]
    BY <1>1 DEF TypeOK
  <1>3. rows'[n] = rows[n] \cup fetched[n] /\ fetched[n] \in offered[n]
    BY <1>1, <1>2 DEF NodeInv, TxInv
  <1>4. PICK S \in SUBSET offered[n] : rows[n] = UNION S
    BY <1>1 DEF NodeInv, Whole
  <1>5. S \cup {fetched[n]} \in SUBSET offered[n]
    BY <1>3, <1>4
  <1>6. rows'[n] = UNION (S \cup {fetched[n]})
    BY <1>3, <1>4
  <1>7. Whole(n)'
    BY <1>5, <1>6 DEF Whole
  <1>8. QED
    BY <1>2, <1>3, <1>7

LEMMA CommitOKSInv ==
    ASSUME SInv, NEW n \in Nodes, CommitOK(n)
    PROVE  SInv'
  <1>1. /\ breaker' \in [Nodes -> BreakerType] /\ Sound(breaker'[n])
        /\ \A m \in Nodes \ {n} : breaker'[m] = breaker[m]
    BY ReportsSound, RecordFacts DEF CommitOK
  <1>2. TypeOK /\ "nil" \in Returns
    BY DEF SInv, Returns
  <1>3. total' \in 0..CounterCap
    BY <1>2, CounterCapAssumption DEF CommitOK, TypeOK, Count
  <1>4. inserted' \in Nat
    <2>1. IsFiniteSet(tx[n])
      BY <1>2, KeysAssumption, FS_Subset DEF TypeOK
    <2>2. Cardinality(tx[n]) \in Nat
      BY <2>1, FS_CardinalityType
    <2>3. QED
      BY <1>2, <2>2 DEF CommitOK, TypeOK
  <1>5. /\ rows' \in [Nodes -> SUBSET Keys] /\ Whole(n)'
        /\ \A m \in Nodes \ {n} : rows'[m] = rows[m]
    BY CommitWhole DEF CommitOK
  <1>6. QED
    BY <1>1, <1>2, <1>3, <1>4, <1>5, ReturnSInv DEF CommitOK, TypeOK

LEMMA CommitFailSInv ==
    ASSUME SInv, NEW n \in Nodes, CommitFail(n)
    PROVE  SInv'
  <1>1. /\ breaker' \in [Nodes -> BreakerType] /\ Sound(breaker'[n])
        /\ \A m \in Nodes \ {n} : breaker'[m] = breaker[m]
    BY ReportsSound, RecordFacts DEF CommitFail
  <1>2. TypeOK /\ "insert" \in Returns
    BY DEF SInv, Returns
  <1>3. /\ rows' \in [Nodes -> SUBSET Keys] /\ Whole(n)'
        /\ \A m \in Nodes \ {n} : rows'[m] = rows[m]
    <2>1. CASE rows' = rows
      BY <1>2, <2>1, WholeKept DEF CommitFail, TypeOK
    <2>2. CASE rows' = [rows EXCEPT ![n] = rows[n] \cup tx[n]]
      BY <2>2, CommitWhole DEF CommitFail
    <2>3. QED
      BY <2>1, <2>2 DEF CommitFail
  <1>4. QED
    BY <1>1, <1>2, <1>3, ReturnSInv DEF CommitFail, TypeOK, counters

LEMMA TickerCaseSInv ==
    ASSUME SInv, NEW n \in Nodes, TickerCase(n)
    PROVE  SInv'
  <1>1. TypeOK /\ NodeInv(n) /\ pc[n] = "idle"
    BY DEF SInv, TickerCase
  <1>2. /\ Goto(n, "begin") /\ "begin" \in PCs
        /\ pc' \in [Nodes -> PCs] /\ pc'[n] = "begin"
    BY <1>1 DEF TickerCase, Goto, TypeOK, PCs
  <1>3. fired' \in [Nodes -> BOOLEAN]
    BY <1>1 DEF TickerCase, TypeOK
  <1>4. UNCHANGED <<alive, cancelled, cycleVars, ticker, breaker, ret, counters,
                    dbVars, envVars>>
    BY DEF TickerCase
  <1>5. TypeOK'
    BY <1>1, <1>2, <1>3, <1>4 DEF TypeOK, cycleVars, counters, dbVars, envVars
  <1>6. AttemptInv(n)' /\ TxInv(n)'
    BY <1>1, <1>2, <1>4 DEF NodeInv, AttemptInv, TxInv, cycleVars, dbVars
  <1>7. QED
    BY <1>2, <1>4, <1>5, <1>6, MoveSInv DEF InCycle, cycleVars, dbVars

LEMMA StopSInv ==
    ASSUME SInv, NEW n \in Nodes, Stop(n)
    PROVE  SInv'
  <1>1. TypeOK /\ NodeInv(n) /\ pc[n] = "idle"
    BY DEF SInv, Stop
  <1>2. /\ Goto(n, "stopped") /\ "stopped" \in PCs
        /\ pc' \in [Nodes -> PCs] /\ pc'[n] = "stopped"
    BY <1>1 DEF Stop, Goto, TypeOK, PCs
  <1>3. UNCHANGED <<alive, cancelled, cycleVars, ticker, fired, breaker, ret,
                    counters, dbVars, envVars>>
    BY DEF Stop
  <1>4. TypeOK'
    BY <1>1, <1>2, <1>3 DEF TypeOK, cycleVars, counters, dbVars, envVars
  <1>5. AttemptInv(n)' /\ TxInv(n)'
    BY <1>1, <1>2, <1>3 DEF NodeInv, AttemptInv, TxInv, cycleVars, dbVars
  <1>6. QED
    BY <1>2, <1>3, <1>4, <1>5, MoveSInv DEF InCycle, cycleVars, dbVars

LEMMA DieSInv ==
    ASSUME SInv, Die
    PROVE  SInv'
  <1>1. Sound(New) /\ New.state = "Closed" /\ New \in BreakerType /\ TypeOK
    BY NewSound DEF Sound, SInv
  <1>2. TypeOK'
    <2>1. alive' \in BOOLEAN /\ cancelled' \in BOOLEAN
      BY DEF Die
    <2>2. lastErr' \in [Nodes -> BOOLEAN] /\ fired' \in [Nodes -> BOOLEAN]
      BY DEF Die, Each
    <2>3. /\ attempt' \in [Nodes -> 0..MaxAttempts] /\ timer' \in [Nodes -> 0..2]
          /\ ticker' \in [Nodes -> 0..Interval]
          /\ total' \in 0..CounterCap /\ errors' \in 0..CounterCap
          /\ inserted' \in Nat
      BY CounterCapAssumption, IntervalAssumption DEF Die, Each, MaxAttempts
    <2>4. /\ pc' \in [Nodes -> PCs] /\ ret' \in [Nodes -> Returns]
          /\ breaker' \in [Nodes -> BreakerType]
      BY <1>1 DEF Die, Each, PCs, Returns
    <2>5. /\ fetched' \in [Nodes -> SUBSET Keys] /\ todo' \in [Nodes -> SUBSET Keys]
          /\ tx' \in [Nodes -> SUBSET Keys]
      BY DEF Die, Each
    <2>6. UNCHANGED <<dbVars, envVars>>
      BY DEF Die
    <2>7. QED
      BY <1>1, <2>1, <2>2, <2>3, <2>4, <2>5, <2>6 DEF TypeOK, dbVars, envVars
  <1>3. ASSUME NEW n \in Nodes PROVE NodeInv(n)'
    <2>1. pc'[n] = "begin" /\ tx'[n] = {} /\ breaker'[n] = New
      BY DEF Die, Each
    <2>2. Whole(n)'
      BY WholeKept DEF Die, dbVars
    <2>3. QED
      BY <1>1, <2>1, <2>2 DEF NodeInv, AttemptInv, TxInv, InCycle
  <1>4. QED
    BY <1>2, <1>3 DEF SInv

LEMMA TickSInv ==
    ASSUME SInv, Tick
    PROVE  SInv'
  <1>1. TypeOK
    BY DEF SInv
  <1>2. ASSUME NEW n \in Nodes
        PROVE  /\ breaker'[n] = Elapse(breaker[n]) /\ Sound(breaker'[n])
               /\ breaker'[n].state = breaker[n].state
    BY MethodsSound DEF Tick, SInv, NodeInv
  <1>3. breaker' \in [Nodes -> BreakerType]
    <2>1. \A n \in Nodes : Elapse(breaker[n]) \in BreakerType
      BY <1>2 DEF Sound
    <2>2. QED
      BY <2>1 DEF Tick
  <1>4. timer' \in [Nodes -> 0..2]
    BY <1>1 DEF Tick, TypeOK
  <1>5. ticker' \in [Nodes -> 0..Interval]
    <2>1. ASSUME NEW n \in Nodes
          PROVE (CASE ticker[n] = 0 -> 0
                   [] ticker[n] = 1 -> Interval
                   [] OTHER -> ticker[n] - 1) \in 0..Interval
      BY <1>1, IntervalAssumption DEF TypeOK
    <2>2. QED
      BY <2>1 DEF Tick
  <1>6. fired' \in [Nodes -> BOOLEAN]
    BY DEF Tick
  <1>7. UNCHANGED <<alive, cancelled, pc, attempt, lastErr, fetched, todo, tx,
                    ret, counters, dbVars, envVars>>
    BY DEF Tick
  <1>8. TypeOK'
    BY <1>1, <1>3, <1>4, <1>5, <1>6, <1>7 DEF TypeOK, counters, dbVars, envVars
  <1>9. ASSUME NEW n \in Nodes PROVE NodeInv(n)'
    BY <1>2, <1>7 DEF SInv, NodeInv, AttemptInv, TxInv, Whole, dbVars
  <1>10. QED
    BY <1>8, <1>9 DEF SInv

(* Steps of the environment and of the process that touch no scheduler.     *)
LEMMA OutsideSInv ==
    ASSUME SInv, TypeOK',
           UNCHANGED <<pc, attempt, breaker, fetched, todo, tx, dbVars>>
    PROVE  SInv'
  BY DEF SInv, NodeInv, AttemptInv, TxInv, Whole, dbVars

LEMMA NextSInv == SInv /\ [Next]_vars => SInv'
  <1> SUFFICES ASSUME SInv, [Next]_vars PROVE SInv'
    OBVIOUS
  <1>1. ASSUME NEW n \in Nodes, Step(n) PROVE SInv'
    BY <1>1, BeginSInv, UpsertOKSInv, UpsertFailSInv, CollectSomeSInv,
       CollectEmptySInv, CollectErrorSInv, BackoffOverSInv,
       BackoffCancelledSInv, InsertBatchSInv, InsertFailSInv, CommitOKSInv,
       CommitFailSInv, TickerCaseSInv DEF Step
  <1>2. ASSUME NEW n \in Nodes, Stop(n) PROVE SInv'
    BY <1>2, StopSInv
  <1>3. ASSUME NEW n \in Nodes, AgentChange(n) PROVE SInv'
    <2>1. TypeOK
      BY DEF SInv
    <2>2. agent' \in [Nodes -> {"up", "empty", "down"}]
      BY <1>3, <2>1 DEF AgentChange, TypeOK
    <2>3. TypeOK'
      BY <1>3, <2>1, <2>2 DEF AgentChange, TypeOK, cycleVars, counters, dbVars
    <2>4. QED
      BY <1>3, <2>3, OutsideSInv DEF AgentChange, cycleVars
  <1>4. CASE Exit \/ Crash
    BY <1>4, DieSInv DEF Exit, Crash
  <1>5. CASE Restart
    <2>1. TypeOK /\ alive' \in BOOLEAN
      BY <1>5 DEF SInv, Restart
    <2>2. TypeOK'
      BY <1>5, <2>1 DEF Restart, TypeOK, cycleVars, counters, dbVars, envVars
    <2>3. QED
      BY <1>5, <2>2, OutsideSInv DEF Restart, cycleVars
  <1>6. CASE Cancel
    <2>1. TypeOK /\ cancelled' \in BOOLEAN
      BY <1>6 DEF SInv, Cancel
    <2>2. TypeOK'
      BY <1>6, <2>1 DEF Cancel, TypeOK, cycleVars, counters, dbVars, envVars
    <2>3. QED
      BY <1>6, <2>2, OutsideSInv DEF Cancel, cycleVars
  <1>7. CASE Tick
    BY <1>7, TickSInv
  <1>8. CASE DbChange
    <2>1. TypeOK /\ dbUp' \in BOOLEAN
      BY <1>8 DEF SInv, DbChange
    <2>2. TypeOK'
      BY <1>8, <2>1 DEF DbChange, TypeOK, cycleVars, counters, dbVars
    <2>3. QED
      BY <1>8, <2>2, OutsideSInv DEF DbChange, cycleVars
  <1>9. CASE UNCHANGED vars
    <2>1. TypeOK'
      BY <1>9 DEF SInv, TypeOK, vars, cycleVars, counters, dbVars, envVars
    <2>2. QED
      BY <1>9, <2>1, OutsideSInv DEF vars, cycleVars
  <1>10. QED
    BY <1>1, <1>2, <1>3, <1>4, <1>5, <1>6, <1>7, <1>8, <1>9 DEF Next

LEMMA AlwaysSInv == Spec => []SInv
  BY InitSInv, NextSInv, PTL DEF Spec

-----------------------------------------------------------------------------
(* The model's variables keep their types.                                  *)
THEOREM TypeCorrect == Spec => []TypeOK
  <1>1. SInv => TypeOK
    BY DEF SInv
  <1>2. QED
    BY <1>1, AlwaysSInv, PTL

(* No cycle works for a node whose breaker is open.                         *)
THEOREM QuietWhileOpenAlways == Spec => []QuietWhileOpen
  <1>1. SInv => QuietWhileOpen
    BY DEF SInv, NodeInv, QuietWhileOpen
  <1>2. QED
    BY <1>1, AlwaysSInv, PTL

(* Samples are collected and inserted for registered nodes only.            *)
THEOREM NodeBeforeSamplesAlways == Spec => []NodeBeforeSamples
  <1>1. SInv => NodeBeforeSamples
    BY DEF SInv, NodeInv, NodeBeforeSamples
  <1>2. QED
    BY <1>1, AlwaysSInv, PTL

(* The table always holds whole collections of every node.                  *)
THEOREM WholeCyclesAlways == Spec => []WholeCycles
  <1>1. SInv => WholeCycles
    BY DEF SInv, NodeInv, Whole, WholeCycles
  <1>2. QED
    BY <1>1, AlwaysSInv, PTL

(* A cycle that inserted and reports success left every sample in the table. *)
THEOREM SuccessIsDurableAlways == Spec => SuccessIsDurable
  <1> DEFINE Durable ==
        \A n \in Nodes :
          pc[n] = "insert" /\ pc'[n] = "idle" /\ ret'[n] = "nil"
            => fetched[n] \subseteq rows'[n]
  <1>1. SInv /\ [Next]_vars => Durable
    <2> SUFFICES ASSUME SInv, [Next]_vars, NEW n \in Nodes,
                        pc[n] = "insert", pc'[n] = "idle", ret'[n] = "nil"
                 PROVE  fetched[n] \subseteq rows'[n]
      OBVIOUS
    <2>1. TypeOK
      BY DEF SInv
    <2>2. PICK m \in Nodes : Step(m)
      BY <2>1 DEF Next, vars, Stop, Goto, AgentChange, Exit, Crash, Die, Each,
                  Restart, Cancel, Tick, DbChange, TypeOK
    <2>3. m = n
      BY <2>1, <2>2, ReturnFacts
         DEF Step, Begin, UpsertOK, UpsertFail, CollectSome, CollectEmpty,
             CollectError, FetchFailed, BackoffOver, BackoffCancelled,
             InsertBatch, InsertFail, CommitOK, CommitFail, TickerCase, Return,
             Goto, TypeOK
    <2>4. CASE CommitOK(n)
      BY <2>4, CommitWhole DEF CommitOK
    <2>5. CASE InsertFail(n) \/ CommitFail(n)
      <3>1. ret'[n] = "insert"
        BY <2>1, <2>5 DEF InsertFail, CommitFail, Return, TypeOK
      <3>2. QED
        BY <3>1
    <2>6. CASE InsertBatch(n)
      BY <2>6 DEF InsertBatch
    <2>7. QED
      BY <2>2, <2>3, <2>4, <2>5, <2>6
         DEF Step, Begin, UpsertOK, UpsertFail, CollectSome, CollectEmpty,
             CollectError, BackoffOver, BackoffCancelled, TickerCase
  <1>2. QED
    BY <1>1, AlwaysSInv, PTL DEF Spec, SuccessIsDurable

(* A commit of node n adds as many rows as its transaction holds.           *)
LEMMA CommitCounts ==
    ASSUME SInv, NEW n \in Nodes,
           rows' = [rows EXCEPT ![n] = rows[n] \cup tx[n]]
    PROVE  /\ Cardinality(Stored) \in Nat /\ Cardinality(tx[n]) \in Nat
           /\ Cardinality(Stored') = Cardinality(Stored) + Cardinality(tx[n])
  <1> DEFINE Added == {n} \X tx[n]
  <1>1. TypeOK /\ TxInv(n)
    BY DEF SInv, NodeInv
  <1>2. IsFiniteSet(Stored)
    <2>1. IsFiniteSet(Nodes \X Keys)
      BY NodesAssumption, KeysAssumption, FS_Product
    <2>2. Stored \in SUBSET (Nodes \X Keys)
      BY DEF Stored
    <2>3. QED
      BY <2>1, <2>2, FS_Subset
  <1>3. IsFiniteSet(tx[n]) /\ IsFiniteSet({n}) /\ Cardinality({n}) = 1
    <2>1. tx[n] \in SUBSET Keys
      BY <1>1 DEF TypeOK
    <2>2. IsFiniteSet(tx[n])
      BY <2>1, KeysAssumption, FS_Subset
    <2>3. QED
      BY <2>2, FS_Singleton
  <1>4. Cardinality(tx[n]) \in Nat /\ Cardinality(Stored) \in Nat
    BY <1>2, <1>3, FS_CardinalityType
  <1>5. IsFiniteSet(Added) /\ Cardinality(Added) = Cardinality(tx[n])
    <2>1. IsFiniteSet(Added) /\ Cardinality(Added) = 1 * Cardinality(tx[n])
      BY <1>3, FS_Product
    <2>2. QED
      BY <1>4, <2>1
  <1>6. Stored' = Stored \cup Added
    <2>1. rows'[n] = rows[n] \cup tx[n] /\ tx[n] \subseteq Keys
          /\ \A m \in Nodes \ {n} : rows'[m] = rows[m]
      BY <1>1 DEF TypeOK
    <2>2. ASSUME NEW m \in Nodes, NEW k \in Keys
          PROVE  <<m, k>> \in Stored' <=> <<m, k>> \in Stored \cup Added
      BY <2>1 DEF Stored
    <2>3. Stored' \subseteq Nodes \X Keys /\ Stored \cup Added \subseteq Nodes \X Keys
      BY <2>1 DEF Stored
    <2>4. QED
      BY <2>2, <2>3
  <1>7. Stored \cap Added = {}
    BY <1>1 DEF Stored, TxInv
  <1>8. Cardinality(Stored \cup Added)
          = Cardinality(Stored) + Cardinality(Added) - Cardinality({})
    BY <1>2, <1>5, <1>7, FS_Union
  <1>9. QED
    BY <1>4, <1>5, <1>6, <1>8, FS_EmptySet

LEMMA NextHonest == SInv /\ InsertedIsHonest /\ [Next]_vars => InsertedIsHonest'
  <1> SUFFICES ASSUME SInv, InsertedIsHonest, [Next]_vars PROVE InsertedIsHonest'
    OBVIOUS
  <1>1. TypeOK
    BY DEF SInv
  <1>2. CASE inserted' = inserted /\ rows' = rows
    BY <1>2 DEF InsertedIsHonest, Stored
  <1>3. ASSUME NEW n \in Nodes, CommitOK(n) PROVE InsertedIsHonest'
    <2>1. rows' = [rows EXCEPT ![n] = rows[n] \cup tx[n]]
      BY <1>3 DEF CommitOK
    <2>2. inserted' = inserted + Cardinality(tx[n])
      BY <1>3 DEF CommitOK
    <2>3. /\ Cardinality(Stored) \in Nat /\ Cardinality(tx[n]) \in Nat
          /\ Cardinality(Stored') = Cardinality(Stored) + Cardinality(tx[n])
      BY <2>1, CommitCounts
    <2>4. inserted \in Nat
      BY <1>1 DEF TypeOK
    <2>5. QED
      BY <2>2, <2>3, <2>4 DEF InsertedIsHonest
  <1>4. ASSUME NEW n \in Nodes, CommitFail(n) PROVE InsertedIsHonest'
    <2>1. inserted' = inserted
      BY <1>4 DEF CommitFail, counters
    <2>2. CASE rows' = rows
      BY <1>2, <2>1, <2>2
    <2>3. CASE rows' = [rows EXCEPT ![n] = rows[n] \cup tx[n]]
      <3>1. /\ Cardinality(Stored) \in Nat /\ Cardinality(tx[n]) \in Nat
            /\ Cardinality(Stored') = Cardinality(Stored) + Cardinality(tx[n])
        BY <2>3, CommitCounts
      <3>2. inserted \in Nat
        BY <1>1 DEF TypeOK
      <3>3. QED
        BY <2>1, <3>1, <3>2 DEF InsertedIsHonest
    <2>4. QED
      BY <1>4, <2>2, <2>3 DEF CommitFail
  <1>5. CASE Die
    <2>1. Stored' \in SUBSET (Nodes \X Keys) /\ IsFiniteSet(Nodes \X Keys)
      BY NodesAssumption, KeysAssumption, FS_Product DEF Stored
    <2>2. Cardinality(Stored') \in Nat
      BY <2>1, FS_Subset, FS_CardinalityType
    <2>3. QED
      BY <1>5, <2>2 DEF InsertedIsHonest, Die
  <1>6. CASE UNCHANGED vars
    BY <1>2, <1>6 DEF vars, counters, dbVars
  <1>7. ASSUME NEW n \in Nodes, Step(n), ~CommitOK(n), ~CommitFail(n)
        PROVE  inserted' = inserted /\ rows' = rows
    BY <1>7 DEF Step, Begin, UpsertOK, UpsertFail, CollectSome, CollectEmpty,
                CollectError, FetchFailed, BackoffOver, BackoffCancelled,
                InsertBatch, InsertFail, TickerCase, counters, dbVars
  <1>8. QED
    BY <1>2, <1>3, <1>4, <1>5, <1>6, <1>7
       DEF Next, Stop, AgentChange, Exit, Crash, Restart, Cancel, Tick,
           DbChange, counters, dbVars

(* SamplesInserted never exceeds the rows committed.                        *)
THEOREM InsertedIsHonestAlways == Spec => []InsertedIsHonest
  <1>1. Init => InsertedIsHonest
    <2> SUFFICES ASSUME Init PROVE InsertedIsHonest
      OBVIOUS
    <2>1. Stored \in SUBSET (Nodes \X Keys) /\ IsFiniteSet(Nodes \X Keys)
      BY NodesAssumption, KeysAssumption, FS_Product DEF Stored
    <2>2. Cardinality(Stored) \in Nat
      BY <2>1, FS_Subset, FS_CardinalityType
    <2>3. QED
      BY <2>2 DEF InsertedIsHonest, Init
  <1>2. QED
    BY <1>1, NextHonest, AlwaysSInv, PTL DEF Spec

-----------------------------------------------------------------------------
(* The breaker inside a scheduler is the breaker of CircuitBreaker.         *)

(* A step of another scheduler.                                             *)
LEMMA OtherStep ==
    ASSUME SInv, Watched \in Nodes, NEW n \in Nodes \ {Watched}, Step(n)
    PROVE  pc'[Watched] = pc[Watched] /\ breaker'[Watched] = breaker[Watched]
  BY DEF SInv, TypeOK, Step, Begin, UpsertOK, UpsertFail, CollectSome,
         CollectEmpty, CollectError, FetchFailed, BackoffOver,
         BackoffCancelled, InsertBatch, InsertFail, CommitOK, CommitFail,
         TickerCase, Return, Goto, Record

(* A step of the watched scheduler that neither asks nor reports.           *)
Moves ==
    /\ breaker'[Watched] = breaker[Watched]
    /\ pc[Watched] \in InCycle <=> pc'[Watched] \in InCycle
    /\ pc'[Watched] # "idle"

Asks ==
    /\ pc[Watched] = "begin"
    /\ breaker'[Watched] = CurrentState(breaker[Watched])
    /\ pc'[Watched] = IF Admits(breaker[Watched]) THEN "upsert" ELSE "idle"

Leaves(rets) ==
    pc[Watched] \in InCycle /\ pc'[Watched] = "idle" /\ ret'[Watched] \in rets

GivesUp ==
    /\ breaker'[Watched] = breaker[Watched]
    /\ Leaves({"upsert", "cancel"}) \/ (Leaves({"nil"}) /\ pc[Watched] = "collect")

Complains ==
    /\ breaker'[Watched] = RecordFailure(breaker[Watched])
    /\ Leaves({"fetch", "insert"})

Delivers ==
    /\ breaker'[Watched] = RecordSuccess(breaker[Watched])
    /\ Leaves({"nil"}) /\ pc[Watched] = "insert"

(* What collectOnce returns says what it told the breaker.                  *)
LEMMA OwnStep ==
    ASSUME SInv, Watched \in Nodes, Step(Watched)
    PROVE  Moves \/ Asks \/ GivesUp \/ Complains \/ Delivers
  <1>1. /\ pc \in [Nodes -> PCs] /\ ret \in [Nodes -> Returns]
        /\ breaker \in [Nodes -> BreakerType]
    BY DEF SInv, TypeOK
  <1>2. CASE Begin(Watched)
    BY <1>1, <1>2 DEF Begin, Record, Goto, Return, Asks
  <1>3. CASE UpsertOK(Watched) \/ CollectSome(Watched) \/ BackoffOver(Watched)
             \/ InsertBatch(Watched) \/ TickerCase(Watched)
    BY <1>1, <1>3 DEF UpsertOK, CollectSome, BackoffOver, InsertBatch,
                      TickerCase, Goto, Moves, InCycle
  <1>4. CASE UpsertFail(Watched) \/ BackoffCancelled(Watched)
    BY <1>1, <1>4 DEF UpsertFail, BackoffCancelled, Return, Goto, GivesUp,
                      Leaves, InCycle
  <1>5. ASSUME FetchFailed(Watched), pc[Watched] = "collect" PROVE Complains
    BY <1>1, <1>5 DEF FetchFailed, Record, Return, Goto, Complains, Leaves,
                      InCycle
  <1>6. CASE CollectEmpty(Watched)
    BY <1>1, <1>5, <1>6 DEF CollectEmpty, Return, Goto, GivesUp, Leaves, InCycle
  <1>7. CASE CollectError(Watched)
    BY <1>1, <1>5, <1>7 DEF CollectError, Goto, Moves, InCycle
  <1>8. CASE InsertFail(Watched) \/ CommitFail(Watched)
    BY <1>1, <1>8 DEF InsertFail, CommitFail, Record, Return, Goto, Complains,
                      Leaves, InCycle
  <1>9. CASE CommitOK(Watched)
    BY <1>1, <1>9 DEF CommitOK, Record, Return, Goto, Delivers, Leaves, InCycle
  <1>10. QED
    BY <1>2, <1>3, <1>4, <1>6, <1>7, <1>8, <1>9 DEF Step

(* The history follows a step of the watched scheduler.                     *)
LEMMA HistoryFollows ==
    ASSUME Remember
    PROVE  /\ Moves \/ Asks \/ GivesUp => UNCHANGED history
           /\ Complains => /\ failRun' = Bump(failRun) /\ okRun' = 0
                           /\ tripAge' = IF breaker'[Watched].state = "Open"
                                         THEN 0 ELSE tripAge
           /\ Delivers =>
                /\ failRun' = 0 /\ tripAge' = tripAge
                /\ okRun' = IF okRun < HalfOpenMax THEN okRun + 1 ELSE okRun
  <1>1. Moves \/ Asks \/ GivesUp => ~Succeeds /\ ~Fails
    BY DEF Moves, Asks, GivesUp, Leaves, Succeeds, Fails, Ends, InCycle
  <1>2. Complains => Fails /\ ~Succeeds
    BY DEF Complains, Leaves, Succeeds, Fails, Ends
  <1>3. Delivers => Succeeds /\ ~Fails
    BY DEF Delivers, Leaves, Succeeds, Fails, Ends
  <1>4. QED
    BY <1>1, <1>2, <1>3 DEF Remember

(* The calls of a breaker whose only caller is the watched scheduler.       *)
LEMMA OneCaller ==
    /\ [c \in {Watched} |-> pc[c] \in InCycle][Watched] <=> pc[Watched] \in InCycle
    /\ pc[Watched] \notin InCycle
         => [c \in {Watched} |-> pc[c] \in InCycle] = [c \in {Watched} |-> FALSE]
  <1>1. ASSUME pc[Watched] \notin InCycle
        PROVE  [c \in {Watched} |-> pc[c] \in InCycle] = [c \in {Watched} |-> FALSE]
    <2>1. \A c \in {Watched} : (pc[c] \in InCycle) = FALSE
      BY <1>1
    <2>2. QED
      BY <2>1, Zenon
  <1>2. [c \in {Watched} |-> pc[c] \in InCycle][Watched] <=> pc[Watched] \in InCycle
    OBVIOUS
  <1>3. QED
    BY <1>1, <1>2, Zenon

(* A step that leaves the caller inside a call or not, as b says.           *)
LEMMA CallsAfter ==
    ASSUME NEW b \in BOOLEAN, pc'[Watched] \in InCycle <=> b
    PROVE  [c \in {Watched} |-> pc[c] \in InCycle]'
             = [[c \in {Watched} |-> pc[c] \in InCycle] EXCEPT ![Watched] = b]
  <1>1. [c \in {Watched} |-> pc'[c] \in InCycle] = [c \in {Watched} |-> b]
    <2>1. \A c \in {Watched} : (pc'[c] \in InCycle) = b
      OBVIOUS
    <2>2. QED
      BY <2>1, Zenon
  <1>2. [[c \in {Watched} |-> pc[c] \in InCycle] EXCEPT ![Watched] = b]
          = [c \in {Watched} |-> b]
    OBVIOUS
  <1>3. QED
    BY <1>1, <1>2, Zenon

(* To the breaker a step with no effect on it is none.                      *)
LEMMA Unseen ==
    ASSUME breaker'[Watched] = breaker[Watched],
           pc[Watched] \in InCycle <=> pc'[Watched] \in InCycle,
           UNCHANGED history
    PROVE  UNCHANGED B!vars
  BY DEF B!vars, history

LEMMA StepUses ==
    ASSUME SInv, Watched \in Nodes, Step(Watched), Remember
    PROVE  B!Use(Watched) \/ UNCHANGED B!vars
  <1> DEFINE calls == [c \in {Watched} |-> pc[c] \in InCycle]
  <1>1. Sound(breaker[Watched])
        /\ (pc[Watched] \in InCycle => breaker[Watched].state # "Open")
    BY DEF SInv, NodeInv
  <1>2. CASE Moves
    BY <1>2, HistoryFollows, Unseen DEF Moves
  <1>3. CASE Asks
    <2>1. UNCHANGED history
      BY <1>3, HistoryFollows
    <2>2. Admits(breaker[Watched]) \in BOOLEAN
      BY DEF Admits
    <2>3. ~calls[Watched] /\ calls' = [calls EXCEPT ![Watched] = Admits(breaker[Watched])]
      <3>1. pc[Watched] \notin InCycle
            /\ (pc'[Watched] \in InCycle <=> Admits(breaker[Watched]))
        BY <1>3 DEF Asks, InCycle
      <3>2. QED
        BY <2>2, <3>1, OneCaller, CallsAfter, Zenon
    <2>4. B!Allow(Watched)
      BY <1>3, <2>1, <2>3, SameBreaker, SameBump, SameConstants DEF Asks, B!Allow, history
    <2>5. QED
      BY <2>4 DEF B!Use
  <1>4. ASSUME NEW rets, Leaves(rets)
        PROVE  calls[Watched] /\ calls' = [calls EXCEPT ![Watched] = FALSE]
    <2>1. pc[Watched] \in InCycle /\ (pc'[Watched] \in InCycle <=> FALSE)
      BY <1>4 DEF Leaves, InCycle
    <2>2. QED
      BY <2>1, OneCaller, CallsAfter, Zenon
  <1>5. CASE GivesUp
    <2>1. UNCHANGED history
      BY <1>5, HistoryFollows
    <2>2. B!Abandon(Watched)
      BY <1>4, <1>5, <2>1 DEF GivesUp, B!Abandon, history
    <2>3. QED
      BY <2>2 DEF B!Use
  <1>6. CASE Complains
    <2>1. Admits(breaker[Watched])
      BY <1>1, <1>6, MethodsSound DEF Complains, Leaves, Admits
    <2>2. B!Fail(Watched)
      BY <1>4, <1>6, <2>1, HistoryFollows, SameBreaker, SameBump, SameConstants DEF Complains, B!Fail
    <2>3. QED
      BY <2>2 DEF B!Use
  <1>7. CASE Delivers
    <2>1. B!Succeed(Watched)
      BY <1>4, <1>7, HistoryFollows, SameBreaker, SameBump, SameConstants DEF Delivers, B!Succeed
    <2>2. QED
      BY <2>1 DEF B!Use
  <1>8. QED
    BY <1>2, <1>3, <1>5, <1>6, <1>7, OwnStep

(* Every step of the system is one of CircuitBreaker for the watched node.  *)
LEMMA NodeStepUses ==
    ASSUME SInv, Watched \in Nodes, [NodeNext]_nodeVars
    PROVE  [B!Use(Watched) \/ B!Tick \/ (B!Init' /\ ~alive')]_(B!vars)
  <1>1. pc \in [Nodes -> PCs] /\ breaker \in [Nodes -> BreakerType]
    BY DEF SInv, TypeOK
  <1>2. ASSUME NEW n \in Nodes, Step(n), Remember
        PROVE  B!Use(Watched) \/ UNCHANGED B!vars
    <2>1. CASE n = Watched
      BY <1>2, <2>1, StepUses
    <2>2. CASE n # Watched
      <3>1. pc'[Watched] = pc[Watched] /\ breaker'[Watched] = breaker[Watched]
        BY <1>2, <2>2, OtherStep
      <3>2. ~Succeeds /\ ~Fails
        BY <3>1 DEF Succeeds, Fails, Ends, InCycle
      <3>3. QED
        BY <1>2, <3>1, <3>2, Unseen DEF Remember
    <2>3. QED
      BY <2>1, <2>2
  <1>3. ASSUME NEW n \in Nodes, Stop(n) \/ AgentChange(n), UNCHANGED history
        PROVE  UNCHANGED B!vars
    <2>1. breaker' = breaker /\ (pc[Watched] \in InCycle <=> pc'[Watched] \in InCycle)
      BY <1>1, <1>3 DEF Stop, AgentChange, Goto, InCycle
    <2>2. QED
      BY <1>3, <2>1, Unseen
  <1>4. CASE (Exit \/ Crash) /\ Forget
    <2>1. breaker'[Watched] = New /\ pc'[Watched] = "begin"
      BY <1>4 DEF Exit, Crash, Die, Each
    <2>2. pc'[Watched] \notin InCycle
      BY <2>1 DEF InCycle
    <2>3. [c \in {Watched} |-> pc'[c] \in InCycle] = [c \in {Watched} |-> FALSE]
      <3>1. \A c \in {Watched} : (pc'[c] \in InCycle) = FALSE
        BY <2>2
      <3>2. QED
        BY <3>1, Zenon
    <2>4. New = B!New /\ Expired = B!Expired
      BY SameBreaker, SameBump, SameConstants
    <2>5. B!Init'
      BY <1>4, <2>1, <2>3, <2>4 DEF Forget, B!Init
    <2>6. ~alive'
      BY <1>4 DEF Exit, Crash, Die
    <2>7. QED
      BY <2>5, <2>6
  <1>5. CASE (Restart \/ Cancel \/ DbChange) /\ UNCHANGED history
    BY <1>5, Unseen DEF Restart, Cancel, DbChange
  <1>6. CASE Tick /\ Grow
    <2>1. breaker'[Watched] = Elapse(breaker[Watched]) /\ pc' = pc
      BY <1>6 DEF Tick
    <2>2. B!Tick
      BY <1>6, <2>1, SameBreaker, SameBump, SameConstants DEF Grow, B!Tick
    <2>3. QED
      BY <2>2
  <1>7. CASE UNCHANGED nodeVars
    BY <1>7, Unseen DEF nodeVars, vars
  <1>8. QED
    BY <1>2, <1>3, <1>4, <1>5, <1>6, <1>7 DEF NodeNext

(* With the history or without it the schedulers do the same.               *)
LEMMA NodeSpecSInv == NodeSpec => []SInv
  <1>1. [NodeNext]_nodeVars => [Next]_vars
    BY DEF NodeNext, Next, nodeVars
  <1>2. NodeInit => Init
    BY DEF NodeInit
  <1>3. QED
    BY <1>1, <1>2, InitSInv, NextSInv, PTL DEF NodeSpec

LEMMA NodeInitUses == ASSUME Watched \in Nodes, NodeInit PROVE B!Init
  <1>1. breaker[Watched] = New /\ pc[Watched] = "begin"
    BY DEF NodeInit, Init, Each
  <1>2. pc[Watched] \notin InCycle
    BY <1>1 DEF InCycle
  <1>3. [c \in {Watched} |-> pc[c] \in InCycle] = [c \in {Watched} |-> FALSE]
    BY <1>2, OneCaller, Zenon
  <1>4. QED
    BY <1>1, <1>3, SameBreaker, SameBump, SameConstants DEF NodeInit, B!Init

(* Every node's breaker is used as CircuitBreaker allows, between any two   *)
(* starts of the process: refinement, step by step.                         *)
THEOREM UsesBreakerAlways == Watched \in Nodes /\ NodeSpec => UsesBreaker
  <1> SUFFICES ASSUME Watched \in Nodes PROVE NodeSpec => UsesBreaker
    OBVIOUS
  <1>1. NodeInit => B!Init
    BY NodeInitUses
  <1>2. SInv /\ [NodeNext]_nodeVars
          => [B!Use(Watched) \/ B!Tick \/ (B!Init' /\ ~alive')]_(B!vars)
    BY NodeStepUses
  <1>3. QED
    BY <1>1, <1>2, NodeSpecSInv, PTL DEF NodeSpec, UsesBreaker

(* So the invariant of CircuitBreaker holds of every node's breaker, and of *)
(* what collectOnce has returned since the process started.                 *)
LEMMA NodeIInv == Watched \in Nodes /\ NodeSpec => []B!IInv
  <1> SUFFICES ASSUME Watched \in Nodes PROVE NodeSpec => []B!IInv
    OBVIOUS
  <1>1. B!Init => B!IInv
    BY B!InitIInv, ThresholdAssumption, ResetTimeoutAssumption, FailureCapAssumption
  <1>2. B!Init' => B!IInv'
    BY <1>1, PTL
  <1>3. NodeInit => B!Init
    BY NodeInitUses
  <1>4. SInv /\ B!IInv /\ [NodeNext]_nodeVars => B!IInv'
    <2> SUFFICES ASSUME SInv, B!IInv, [NodeNext]_nodeVars PROVE B!IInv'
      OBVIOUS
    <2>1. B!Use(Watched) \/ B!Tick \/ UNCHANGED B!vars => [B!Next]_(B!vars)
      BY DEF B!Next
    <2>2. [B!Use(Watched) \/ B!Tick \/ (B!Init' /\ ~alive')]_(B!vars)
      BY NodeStepUses
    <2>3. QED
      BY <1>2, <2>1, <2>2, B!NextIInv,
         ThresholdAssumption, ResetTimeoutAssumption, FailureCapAssumption
  <1>5. QED
    BY <1>1, <1>3, <1>4, NodeSpecSInv, PTL DEF NodeSpec

(* A node is given up only after Threshold failed cycles in a row.          *)
THEOREM GivenUpForReasonAlways == Watched \in Nodes /\ NodeSpec => GivenUpForReason
  <1> SUFFICES ASSUME Watched \in Nodes PROVE NodeSpec => GivenUpForReason
    OBVIOUS
  <1> DEFINE Reason ==
        breaker[Watched].state = "Closed" /\ breaker'[Watched].state = "Open"
          => failRun' >= Threshold
  <1>1. SInv /\ B!IInv /\ B!IInv' /\ [NodeNext]_nodeVars => Reason
    <2> SUFFICES ASSUME SInv, B!IInv, B!IInv', [NodeNext]_nodeVars,
                        breaker[Watched].state = "Closed",
                        breaker'[Watched].state = "Open"
                 PROVE  failRun' >= Threshold
      OBVIOUS
    <2>1. [B!Use(Watched) \/ B!Tick \/ (B!Init' /\ ~alive')]_(B!vars)
      BY NodeStepUses
    <2>2. ~B!Init'
      BY SameConstants, NewSound DEF B!Init
    <2>3. [B!Next]_(B!vars)
      BY <2>1, <2>2 DEF B!Next
    <2>4. QED
      BY <2>3, B!TripStep,
         ThresholdAssumption, ResetTimeoutAssumption, FailureCapAssumption
  <1>2. QED
    BY <1>1, NodeIInv, NodeSpecSInv, PTL DEF NodeSpec, GivenUpForReason

(* It is trusted again only after HalfOpenMax committed cycles in a row, or *)
(* when the process is replaced.                                            *)
THEOREM TrustIsEarnedAlways == Watched \in Nodes /\ NodeSpec => TrustIsEarned
  <1> SUFFICES ASSUME Watched \in Nodes PROVE NodeSpec => TrustIsEarned
    OBVIOUS
  <1> DEFINE Earned ==
        breaker[Watched].state # "Closed" /\ breaker'[Watched].state = "Closed"
          => okRun' >= HalfOpenMax \/ ~alive'
  <1>1. SInv /\ B!IInv /\ [NodeNext]_nodeVars => Earned
    <2> SUFFICES ASSUME SInv, B!IInv, [NodeNext]_nodeVars, alive',
                        breaker[Watched].state # "Closed",
                        breaker'[Watched].state = "Closed"
                 PROVE  okRun' >= HalfOpenMax
      OBVIOUS
    <2>1. [B!Use(Watched) \/ B!Tick]_(B!vars)
      BY NodeStepUses
    <2>2. [(\E k \in {Watched} : B!Use(k)) \/ B!State \/ B!Tick]_(B!vars)
      BY <2>1
    <2>3. QED
      BY <2>2, B!ClosingStep, SameBreaker, SameBump, SameConstants,
         ThresholdAssumption, ResetTimeoutAssumption, FailureCapAssumption
  <1>2. QED
    BY <1>1, NodeIInv, NodeSpecSInv, PTL DEF NodeSpec, TrustIsEarned

(* After a trip the node is left alone for resetTimeout.                    *)
THEOREM LeftAloneAlways == Watched \in Nodes /\ NodeSpec => LeftAlone
  <1> SUFFICES ASSUME Watched \in Nodes PROVE NodeSpec => LeftAlone
    OBVIOUS
  <1> DEFINE Alone ==
        pc[Watched] \notin InCycle /\ pc'[Watched] \in InCycle
          => breaker[Watched].state = "Closed" \/ tripAge > ResetTimeout
  <1>1. SInv /\ B!IInv /\ [NodeNext]_nodeVars => Alone
    <2> SUFFICES ASSUME SInv, B!IInv, [NodeNext]_nodeVars,
                        pc[Watched] \notin InCycle, pc'[Watched] \in InCycle,
                        breaker[Watched].state # "Closed"
                 PROVE  tripAge > ResetTimeout
      OBVIOUS
    <2> DEFINE calls == [c \in {Watched} |-> pc[c] \in InCycle]
    <2>1. ~calls[Watched] /\ calls'[Watched]
      OBVIOUS
    <2>2. ~B!Init'
      BY <2>1 DEF B!Init
    <2>3. [B!Use(Watched) \/ B!Tick \/ (B!Init' /\ ~alive')]_(B!vars)
      BY NodeStepUses
    <2>4. [B!Next]_(B!vars)
      BY <2>2, <2>3 DEF B!Next
    <2>5. QED
      BY <2>1, <2>4, B!AdmissionStep,
         ThresholdAssumption, ResetTimeoutAssumption, FailureCapAssumption
  <1>2. QED
    BY <1>1, NodeIInv, NodeSpecSInv, PTL DEF NodeSpec, LeftAlone
=============================================================================
