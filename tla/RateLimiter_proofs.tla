-------------------------- MODULE RateLimiter_proofs --------------------------
(***************************************************************************)
(* The rate limiter for every set of clients, rate, burst, cleanup period   *)
(* and window: the bound on admissions, and that the swept, lazily refilled *)
(* table implements the ideal bucket of TokenBucket.                        *)
(***************************************************************************)
EXTENDS RateLimiter, TLAPS

(* What a client could spend now.                                           *)
Level(ip) == IF ip \in known THEN Refilled(ip) ELSE Capacity

(* A client that is not in the table has the entry a new one would get.     *)
Forgotten == \A ip \in IPs \ known : tokens[ip] = Capacity /\ idle[ip] = 0

(* The inductive form of RateBound: what was admitted in the window and     *)
(* what could still be spent were there at its start or flowed in since.    *)
Budget == \A ip \in IPs : granted[ip] * Cost + Level(ip) <= Capacity + window * Rate

RInv == TypeOK /\ Forgotten /\ Budget

-----------------------------------------------------------------------------
(* Arithmetic of products.                                                  *)
LEMMA Products ==
    ASSUME NEW a \in Nat, NEW b \in Nat, NEW c \in Nat
    PROVE  /\ a * c \in Nat
           /\ (a + 1) * c = a * c + c
           /\ a >= b => a * c >= b * c
  <1>1. a * c \in Nat /\ (a + 1) * c = a * c + c
    OBVIOUS
  <1>2. ASSUME a >= b PROVE a * c >= b * c
    <2>1. a - b \in Nat
      BY <1>2
    <2>2. (a - b) * c \in Nat
      BY <2>1
    <2>3. a * c = b * c + (a - b) * c
      OBVIOUS
    <2>4. QED
      BY <2>2, <2>3
  <1>3. QED
    BY <1>1, <1>2

LEMMA CapacityFacts ==
    /\ Capacity \in Nat /\ Capacity >= Cost /\ Cost \in Nat /\ Rate \in Nat
    /\ IdleCap * Rate >= Capacity
    /\ \A t \in Nat : t > Cleanup => t * Rate >= Capacity
  <1>1. Cost \in Nat /\ Rate \in Nat /\ Burst \in Nat /\ Cleanup \in Nat /\ Burst >= 1
    BY RateAssumption, BurstAssumption, CleanupAssumption
  <1>2. Capacity \in Nat /\ Capacity >= Cost
    <2>1. Burst * Cost \in Nat /\ Burst * Cost >= 1 * Cost
      BY <1>1, Products
    <2>2. QED
      BY <1>1, <2>1 DEF Capacity
  <1>3. IdleCap * Rate >= Capacity
    BY IdleCapAssumption DEF Capacity
  <1>4. ASSUME NEW t \in Nat, t > Cleanup PROVE t * Rate >= Capacity
    <2>1. t * Rate >= Cleanup * Rate /\ t * Rate \in Nat /\ Cleanup * Rate \in Nat
      BY <1>1, <1>4, Products
    <2>2. QED
      BY <1>2, <2>1, FillAssumption DEF Capacity
  <1>5. QED
    BY <1>1, <1>2, <1>3, <1>4

LEMMA LevelType ==
    ASSUME TypeOK, NEW ip \in IPs
    PROVE  /\ Level(ip) \in 0..Capacity
           /\ Refilled(ip) \in 0..Capacity
           /\ tokens[ip] \in 0..Capacity /\ idle[ip] \in 0..IdleCap
           /\ idle[ip] * Rate \in Nat
  <1>1. tokens[ip] \in 0..Capacity /\ idle[ip] \in 0..IdleCap
    BY DEF TypeOK
  <1>2. idle[ip] \in Nat /\ tokens[ip] \in Nat
    BY <1>1, IdleCapAssumption, CapacityFacts
  <1>3. idle[ip] * Rate \in Nat
    BY <1>2, Products, CapacityFacts
  <1>4. Refilled(ip) \in 0..Capacity
    BY <1>2, <1>3, CapacityFacts DEF Refilled
  <1>5. QED
    BY <1>1, <1>3, <1>4, CapacityFacts DEF Level

-----------------------------------------------------------------------------
(* What each action does to the levels: exactly what the ideal bucket does. *)

LEMMA AllowLevel ==
    ASSUME RInv, NEW ip \in IPs, Allow(ip)
    PROVE  /\ TypeOK' /\ Forgotten'
           /\ Level(ip)' = IF Level(ip) >= Cost THEN Level(ip) - Cost ELSE Level(ip)
           /\ \A other \in IPs \ {ip} : Level(other)' = Level(other)
           /\ Level(ip) >= Cost => served' = <<ip, TRUE>>
           /\ ~(Level(ip) >= Cost) => served' = <<ip, FALSE>>
           /\ granted' = [granted EXCEPT ![ip] = IF Level(ip) >= Cost THEN @ + 1 ELSE @]
           /\ window' = window
  <1> DEFINE rest == IF Level(ip) >= Cost THEN Level(ip) - Cost ELSE Level(ip)
  <1>1. TypeOK /\ Forgotten
    BY DEF RInv
  <1>2. Level(ip) \in 0..Capacity /\ rest \in 0..Capacity
    BY <1>1, LevelType, CapacityFacts
  <1>3. /\ known' = known \cup {ip}
        /\ tokens' = [tokens EXCEPT ![ip] = rest]
        /\ idle' = [idle EXCEPT ![ip] = 0]
        /\ served' = <<ip, Level(ip) >= Cost>>
        /\ granted' = [granted EXCEPT ![ip] = IF Level(ip) >= Cost THEN @ + 1 ELSE @]
        /\ UNCHANGED <<sweep, window>>
    BY DEF Allow, Level
  <1>11. /\ Level(ip) >= Cost => served' = <<ip, TRUE>>
         /\ ~(Level(ip) >= Cost) => served' = <<ip, FALSE>>
    <2>1. CASE Level(ip) >= Cost
      <3>1. (Level(ip) >= Cost) = TRUE
        BY <2>1, SMT
      <3>2. QED
        BY <1>3, <2>1, <3>1, Zenon
    <2>2. CASE ~(Level(ip) >= Cost)
      <3>1. (Level(ip) >= Cost) = FALSE
        BY <2>2, SMT
      <3>2. QED
        BY <1>3, <2>2, <3>1, Zenon
    <2>3. QED
      BY <2>1, <2>2
  <1> HIDE DEF rest
  <1>4. tokens'[ip] = rest /\ idle'[ip] = 0
    BY <1>1, <1>3 DEF TypeOK
  <1>5. \A other \in IPs \ {ip} : /\ tokens'[other] = tokens[other]
                                  /\ idle'[other] = idle[other]
                                  /\ other \in known' <=> other \in known
    BY <1>1, <1>3 DEF TypeOK
  <1>6. TypeOK'
    <2>1. known' \subseteq IPs /\ tokens' \in [IPs -> 0..Capacity]
      BY <1>1, <1>2, <1>3 DEF TypeOK
    <2>2. idle' \in [IPs -> 0..IdleCap]
      BY <1>1, <1>3, IdleCapAssumption DEF TypeOK
    <2>3. granted' \in [IPs -> Nat]
      BY <1>1, <1>3 DEF TypeOK
    <2>4. served' \in {<<>>} \cup (IPs \X BOOLEAN)
      <3>1. <<ip, TRUE>> \in IPs \X BOOLEAN /\ <<ip, FALSE>> \in IPs \X BOOLEAN
        OBVIOUS
      <3>2. QED
        BY <1>11, <3>1
    <2>5. QED
      BY <1>1, <1>3, <2>1, <2>2, <2>3, <2>4 DEF TypeOK
  <1>7. Forgotten'
    BY <1>1, <1>3, <1>5 DEF Forgotten
  <1>8. Level(ip)' = rest
    <2>1. idle'[ip] * Rate = 0
      BY <1>4, CapacityFacts
    <2>2. ip \in known'
      BY <1>3
    <2>3. QED
      BY <1>2, <1>4, <2>1, <2>2, CapacityFacts DEF Level, Refilled
  <1>9. \A other \in IPs \ {ip} : Level(other)' = Level(other)
    BY <1>5 DEF Level, Refilled, Capacity
  <1>10. QED
    BY <1>3, <1>6, <1>7, <1>8, <1>9, <1>11 DEF rest

LEMMA SweepLevel ==
    ASSUME RInv, Sweep
    PROVE  /\ TypeOK' /\ Forgotten'
           /\ \A ip \in IPs : Level(ip)' = Level(ip)
           /\ UNCHANGED <<served, granted, window>>
  <1> DEFINE stale == {ip \in known : idle[ip] > Cleanup}
  <1>1. TypeOK /\ Forgotten
    BY DEF RInv
  <1>2. /\ known' = known \ stale /\ sweep' = Cleanup
        /\ tokens' = [ip \in IPs |-> IF ip \in stale THEN Capacity ELSE tokens[ip]]
        /\ idle' = [ip \in IPs |-> IF ip \in stale THEN 0 ELSE idle[ip]]
        /\ UNCHANGED <<served, granted, window>>
    BY DEF Sweep
  <1>3. \A ip \in stale : ip \in IPs /\ ip \in known /\ idle[ip] > Cleanup
    BY <1>1 DEF TypeOK
  <1> HIDE DEF stale
  <1>4. TypeOK'
    <2>1. tokens' \in [IPs -> 0..Capacity] /\ known' \subseteq IPs
      BY <1>1, <1>2, CapacityFacts DEF TypeOK
    <2>2. idle' \in [IPs -> 0..IdleCap]
      BY <1>1, <1>2, IdleCapAssumption DEF TypeOK
    <2>3. sweep' \in 0..Cleanup
      BY <1>2, CleanupAssumption
    <2>4. QED
      BY <1>1, <1>2, <2>1, <2>2, <2>3 DEF TypeOK
  <1>5. Forgotten'
    BY <1>1, <1>2 DEF Forgotten
  <1>6. ASSUME NEW ip \in IPs PROVE Level(ip)' = Level(ip)
    <2>1. CASE ip \in stale
      <3>1. Level(ip)' = Capacity
        BY <1>2, <2>1 DEF Level, Capacity
      <3>2. idle[ip] \in Nat /\ tokens[ip] \in Nat /\ idle[ip] * Rate \in Nat
        BY <1>1, LevelType, IdleCapAssumption, CapacityFacts
      <3>3. idle[ip] * Rate >= Capacity
        BY <1>3, <2>1, <3>2, CapacityFacts
      <3>4. Level(ip) = Capacity
        BY <1>3, <2>1, <3>2, <3>3, CapacityFacts DEF Level, Refilled
      <3>5. QED
        BY <3>1, <3>4
    <2>2. CASE ip \notin stale
      <3>1. /\ tokens'[ip] = tokens[ip] /\ idle'[ip] = idle[ip]
            /\ ip \in known' <=> ip \in known
        BY <1>2, <2>2
      <3>2. QED
        BY <3>1 DEF Level, Refilled, Capacity
    <2>3. QED
      BY <2>1, <2>2
  <1>7. QED
    BY <1>2, <1>4, <1>5, <1>6

LEMMA TickLevel ==
    ASSUME RInv, Tick
    PROVE  /\ TypeOK' /\ Forgotten'
           /\ \A ip \in IPs : Level(ip)' = IF Level(ip) + Rate > Capacity THEN Capacity
                                           ELSE Level(ip) + Rate
           /\ served' = <<>> /\ granted' = granted /\ window' = window + 1
  <1>1. TypeOK /\ Forgotten
    BY DEF RInv
  <1>2. TypeOK'
    <2>1. idle' \in [IPs -> 0..IdleCap]
      BY <1>1, IdleCapAssumption DEF TypeOK, Tick
    <2>2. sweep' \in 0..Cleanup /\ window' \in 0..MaxWindow
      BY <1>1, CleanupAssumption, MaxWindowAssumption DEF TypeOK, Tick
    <2>3. QED
      BY <1>1, <2>1, <2>2 DEF TypeOK, Tick
  <1>3. Forgotten'
    BY <1>1 DEF Forgotten, Tick
  <1>4. ASSUME NEW ip \in IPs
        PROVE  Level(ip)' = IF Level(ip) + Rate > Capacity THEN Capacity
                            ELSE Level(ip) + Rate
    <2>1. /\ idle[ip] \in 0..IdleCap /\ tokens[ip] \in Nat
          /\ idle[ip] * Rate \in Nat /\ idle[ip] \in Nat
      BY <1>1, LevelType, IdleCapAssumption, CapacityFacts
    <2>2. Rate > 0 /\ Rate \in Nat
      BY RateAssumption
    <2>3. CASE ip \notin known
      <3>1. Level(ip) = Capacity /\ Level(ip)' = Capacity
        BY <2>3 DEF Level, Tick, Capacity
      <3>2. QED
        BY <2>2, <3>1, CapacityFacts
    <2>4. CASE ip \in known /\ idle[ip] < IdleCap
      <3>1. /\ idle'[ip] = idle[ip] + 1 /\ tokens'[ip] = tokens[ip]
            /\ ip \in known /\ ip \in known'
        BY <2>4 DEF Tick
      <3>2. idle'[ip] * Rate = idle[ip] * Rate + Rate
        BY <2>1, <2>2, <3>1, Products
      <3>3. QED
        BY <2>1, <2>2, <3>1, <3>2, CapacityFacts DEF Level, Refilled, Capacity
    <2>5. CASE ip \in known /\ idle[ip] = IdleCap
      <3>1. /\ idle'[ip] = idle[ip] /\ tokens'[ip] = tokens[ip]
            /\ ip \in known /\ ip \in known'
        BY <2>1, <2>5, IdleCapAssumption DEF Tick
      <3>2. idle[ip] * Rate >= Capacity
        BY <2>5, CapacityFacts
      <3>3. QED
        BY <2>1, <2>2, <3>1, <3>2, CapacityFacts DEF Level, Refilled, Capacity
    <2>6. QED
      BY <2>1, <2>3, <2>4, <2>5, IdleCapAssumption
  <1>5. QED
    BY <1>2, <1>3, <1>4 DEF Tick
-----------------------------------------------------------------------------
(* The invariant.                                                           *)

LEMMA InitRInv == Init => RInv
  <1> SUFFICES ASSUME Init PROVE RInv
    OBVIOUS
  <1>1. TypeOK
    <2>1. tokens \in [IPs -> 0..Capacity] /\ idle \in [IPs -> 0..IdleCap]
      BY CapacityFacts, IdleCapAssumption DEF Init
    <2>2. sweep \in 0..Cleanup /\ window \in 0..MaxWindow /\ granted \in [IPs -> Nat]
      BY CleanupAssumption, MaxWindowAssumption DEF Init
    <2>3. QED
      BY <2>1, <2>2 DEF Init, TypeOK
  <1>2. Forgotten
    BY DEF Init, Forgotten
  <1>3. Budget
    <2> SUFFICES ASSUME NEW ip \in IPs
                 PROVE  granted[ip] * Cost + Level(ip) <= Capacity + window * Rate
      BY DEF Budget
    <2>1. granted[ip] * Cost = 0 /\ window * Rate = 0
      BY CapacityFacts DEF Init
    <2>2. Level(ip) = Capacity
      BY DEF Init, Level
    <2>3. QED
      BY <2>1, <2>2, CapacityFacts
  <1>4. QED
    BY <1>1, <1>2, <1>3 DEF RInv

LEMMA NextRInv == RInv /\ [Next]_vars => RInv'
  <1> SUFFICES ASSUME RInv, [Next]_vars PROVE RInv'
    OBVIOUS
  <1>1. TypeOK /\ Forgotten /\ Budget
    BY DEF RInv
  <1>2. \A ip \in IPs : /\ Level(ip) \in Nat /\ granted[ip] \in Nat
                        /\ granted[ip] * Cost \in Nat
                        /\ granted[ip] * Cost + Level(ip) <= Capacity + window * Rate
    <2> SUFFICES ASSUME NEW ip \in IPs
                 PROVE  /\ Level(ip) \in Nat /\ granted[ip] \in Nat
                        /\ granted[ip] * Cost \in Nat
                        /\ granted[ip] * Cost + Level(ip) <= Capacity + window * Rate
      OBVIOUS
    <2>1. Level(ip) \in Nat
      BY <1>1, LevelType, CapacityFacts
    <2>2. granted[ip] \in Nat
      BY <1>1 DEF TypeOK
    <2>3. granted[ip] * Cost \in Nat
      BY <2>2, CapacityFacts, Products
    <2>4. QED
      BY <1>1, <2>1, <2>2, <2>3 DEF Budget
  <1>3. window \in Nat /\ window * Rate \in Nat
    BY <1>1, MaxWindowAssumption, CapacityFacts, Products DEF TypeOK
  <1>4. ASSUME NEW ip \in IPs, Allow(ip) PROVE RInv'
    <2>0. /\ granted \in [IPs -> Nat]
          /\ granted' = [granted EXCEPT ![ip] = IF Level(ip) >= Cost THEN @ + 1 ELSE @]
      BY <1>1, <1>4, AllowLevel DEF TypeOK
    <2>1. ASSUME NEW other \in IPs \ {ip}
          PROVE  granted'[other] * Cost + Level(other)' <= Capacity + window' * Rate
      <3>1. granted'[other] = granted[other]
        BY <2>0
      <3>2. Level(other)' = Level(other) /\ window' = window
        BY <1>4, AllowLevel
      <3>3. QED
        BY <1>2, <3>1, <3>2
    <2>2. granted'[ip] * Cost + Level(ip)' <= Capacity + window' * Rate
      <3>1. window' = window
        BY <1>4, AllowLevel
      <3>2. CASE Level(ip) >= Cost
        <4>1. granted'[ip] = granted[ip] + 1 /\ Level(ip)' = Level(ip) - Cost
          BY <1>4, <2>0, <3>2, AllowLevel
        <4>2. granted'[ip] * Cost = granted[ip] * Cost + Cost
          BY <1>2, <4>1, CapacityFacts, Products
        <4>3. QED
          BY <1>2, <1>3, <3>1, <4>1, <4>2, CapacityFacts
      <3>3. CASE ~(Level(ip) >= Cost)
        <4>1. granted'[ip] = granted[ip] /\ Level(ip)' = Level(ip)
          BY <1>4, <2>0, <3>3, AllowLevel
        <4>2. QED
          BY <1>2, <3>1, <4>1
      <3>4. QED
        BY <3>2, <3>3
    <2>3. Budget'
      BY <2>1, <2>2 DEF Budget, Capacity
    <2>4. QED
      BY <1>4, <2>3, AllowLevel DEF RInv
  <1>5. CASE Sweep
    <2>1. Budget'
      BY <1>1, <1>5, SweepLevel DEF Budget, Capacity
    <2>2. QED
      BY <1>5, <2>1, SweepLevel DEF RInv
  <1>6. CASE Tick
    <2>1. ASSUME NEW ip \in IPs
          PROVE  granted'[ip] * Cost + Level(ip)' <= Capacity + window' * Rate
      <3>1. granted' = granted /\ window' = window + 1
        BY <1>6, TickLevel
      <3>2. window' * Rate = window * Rate + Rate
        BY <1>3, <3>1, CapacityFacts, Products
      <3>3. Level(ip)' <= Level(ip) + Rate /\ Level(ip)' \in Nat
        BY <1>2, <1>6, TickLevel, CapacityFacts
      <3>4. QED
        BY <1>2, <1>3, <3>1, <3>2, <3>3, CapacityFacts
    <2>2. Budget'
      BY <2>1 DEF Budget, Capacity
    <2>3. QED
      BY <1>6, <2>2, TickLevel DEF RInv
  <1>7. CASE OpenWindow
    <2>1. \A ip \in IPs : Level(ip)' = Level(ip) /\ granted'[ip] = 0
      BY <1>7 DEF OpenWindow, Level, Refilled, Capacity
    <2>2. window' = 0 /\ granted' \in [IPs -> Nat] /\ window' \in 0..MaxWindow
      BY <1>7, MaxWindowAssumption DEF OpenWindow
    <2>3. TypeOK' /\ Forgotten'
      BY <1>1, <1>7, <2>2 DEF OpenWindow, TypeOK, Forgotten, Capacity
    <2>4. ASSUME NEW ip \in IPs
          PROVE  granted'[ip] * Cost + Level(ip)' <= Capacity + window' * Rate
      <3>1. granted'[ip] * Cost = 0 /\ window' * Rate = 0
        BY <2>1, <2>2, CapacityFacts
      <3>2. Level(ip) \in 0..Capacity
        BY <1>1, LevelType
      <3>3. QED
        BY <2>1, <3>1, <3>2, CapacityFacts
    <2>5. QED
      BY <2>3, <2>4 DEF RInv, Budget, Capacity
  <1>8. CASE UNCHANGED vars
    BY <1>1, <1>8 DEF vars, RInv, TypeOK, Forgotten, Budget, Level, Refilled, Capacity
  <1>9. QED
    BY <1>4, <1>5, <1>6, <1>7, <1>8 DEF Next

LEMMA SpecRInv == Spec => []RInv
  BY InitRInv, NextRInv, PTL DEF Spec

-----------------------------------------------------------------------------
(* The bucket never holds more than burst tokens nor less than none, and    *)
(* Allow, the sweep and the clock keep the table in range.                  *)
THEOREM TypeCorrect == Spec => []TypeOK
  <1>1. RInv => TypeOK
    BY DEF RInv
  <1>2. QED
    BY <1>1, SpecRInv, PTL

(* No window, wherever it starts and however often the client's entry is    *)
(* removed and made anew in it, admits more than a full bucket and what     *)
(* flows in.                                                                *)
THEOREM RateBoundAlways == Spec => []RateBound
  <1>1. RInv => RateBound
    <2> SUFFICES ASSUME RInv, NEW ip \in IPs
                 PROVE  granted[ip] * Cost <= Capacity + window * Rate
      BY DEF RateBound
    <2>1. TypeOK /\ granted[ip] * Cost + Level(ip) <= Capacity + window * Rate
      BY DEF RInv, Budget
    <2>2. Level(ip) \in Nat /\ granted[ip] \in Nat /\ window \in Nat
      BY <2>1, LevelType, CapacityFacts, MaxWindowAssumption DEF TypeOK
    <2>3. granted[ip] * Cost \in Nat /\ window * Rate \in Nat
      BY <2>2, CapacityFacts, Products
    <2>4. QED
      BY <2>1, <2>2, <2>3, CapacityFacts
  <1>2. QED
    BY <1>1, SpecRInv, PTL

-----------------------------------------------------------------------------
(* The refinement, step by step.                                            *)

Levels == [ip \in IPs |-> IF ip \in known THEN Refilled(ip) ELSE Capacity]

LEMMA InitRefines == Init => Ideal!Init
  BY DEF Init, Ideal!Init, Ideal!Capacity, Capacity

LEMMA StepRefines == RInv /\ [Next]_vars => [Ideal!Next]_(Ideal!vars)
  <1> SUFFICES ASSUME RInv, [Next]_vars PROVE [Ideal!Next]_(Ideal!vars)
    OBVIOUS
  <1>1. \A ip \in IPs : Levels[ip] = Level(ip) /\ Levels'[ip] = Level(ip)'
    BY DEF Levels, Level
  <1>2. Levels \in [IPs -> Nat] /\ Levels = [ip \in IPs |-> Level(ip)]
        /\ Levels' = [ip \in IPs |-> Level(ip)']
    BY LevelType, CapacityFacts DEF Levels, Level, RInv
  <1>3. ASSUME NEW ip \in IPs, Allow(ip) PROVE Ideal!Admit(ip) \/ Ideal!Refuse(ip)
    <2>1. CASE Level(ip) >= Cost
      <3>1. Levels' = [Levels EXCEPT ![ip] = @ - Cost]
        BY <1>1, <1>2, <1>3, <2>1, AllowLevel
      <3>2. served' = <<ip, TRUE>>
        BY <1>3, <2>1, AllowLevel, Zenon
      <3>3. Ideal!Admit(ip)
        BY <1>1, <2>1, <3>1, <3>2 DEF Ideal!Admit, Levels
      <3>4. QED
        BY <3>3
    <2>2. CASE ~(Level(ip) >= Cost)
      <3>1. Levels' = Levels
        BY <1>1, <1>2, <1>3, <2>2, AllowLevel
      <3>2. served' = <<ip, FALSE>>
        BY <1>3, <2>2, AllowLevel, Zenon
      <3>3. Levels[ip] < Cost
        BY <1>1, <1>2, <2>2, CapacityFacts
      <3>4. Ideal!Refuse(ip)
        BY <3>1, <3>2, <3>3 DEF Ideal!Refuse, Levels
      <3>5. QED
        BY <3>4
    <2>3. QED
      BY <2>1, <2>2
  <1>4. CASE Sweep
    <2>1. Levels' = Levels /\ served' = served
      BY <1>2, <1>4, SweepLevel
    <2>2. QED
      BY <2>1 DEF Ideal!vars, Levels
  <1>5. CASE Tick
    <2>1. Levels' = [ip \in IPs |-> IF Levels[ip] + Rate > Capacity THEN Capacity
                                    ELSE Levels[ip] + Rate]
      BY <1>1, <1>2, <1>5, TickLevel
    <2>2. served' = <<>>
      BY <1>5, TickLevel
    <2>3. Ideal!Tick
      BY <2>1, <2>2 DEF Ideal!Tick, Ideal!Capacity, Capacity, Levels
    <2>4. QED
      BY <2>3 DEF Ideal!Next
  <1>6. CASE OpenWindow
    <2>1. Levels' = Levels /\ served' = served
      BY <1>6 DEF OpenWindow, Levels, Refilled, Capacity
    <2>2. QED
      BY <2>1 DEF Ideal!vars, Levels
  <1>7. CASE UNCHANGED vars
    BY <1>7 DEF vars, Ideal!vars, Refilled, Capacity
  <1>8. QED
    BY <1>3, <1>4, <1>5, <1>6, <1>7 DEF Next, Ideal!Next

(* The table that cleanupLoop sweeps and Allow refills when a client comes  *)
(* back behaves, step by step, like one ideal bucket per client.            *)
THEOREM Refinement == Spec => RefinesTokenBucket
  BY InitRefines, StepRefines, SpecRInv, PTL DEF Spec, Ideal!Spec, RefinesTokenBucket
=============================================================================
