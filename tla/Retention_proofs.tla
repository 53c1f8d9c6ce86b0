-------------------------- MODULE Retention_proofs --------------------------
(***************************************************************************)
(* Rollups and retention for every number of loops, length of the hour and  *)
(* the day, set of retention_days, and bound on time and samples: types, no *)
(* double counting, the age of what is stored, and the exact rollups.       *)
(***************************************************************************)
EXTENDS Retention, FiniteSetTheorems, FunctionTheorems, TLAPS

(* An hourly row holds samples of its own hour, all of which had been       *)
(* collected and were more than an hour old when it was written.            *)
RowsHeld ==
    \A h \in Hours : \A s \in hourly[h] :
        s \in ingested /\ HourOf(s) = h /\ s + HourTicks < now

CountBounded == Cardinality(ingested) <= MaxSamples

(* Of a process that is down nothing is left.                               *)
DeadLoops == ~alive => \A l \in Loops : pc[l] = "run"

(* The inductive form of StorageBounded: a sleeping loop wakes up within a  *)
(* day; what it left will not be too old then, and what has come since came *)
(* less than a day before.                                                  *)
Sleeping ==
    \A l \in Loops :
        alive /\ pc[l] = "wait" =>
            /\ now <= due[l] /\ due[l] <= now + Day
            /\ swept[l] => \A s \in samples : \/ due[l] <= s + keep[l] + Day
                                            \/ due[l] <= arrived[s] + Day

TInv == TypeOK /\ RowsHeld /\ CountBounded /\ NoDoubleCounting
SInv == TypeOK /\ DeadLoops /\ Sleeping

(* With a retention of at least a day, no loop deletes a sample that the    *)
(* hourly window can still reach.                                           *)
Recent == \A s \in ingested : s + 4 * HourTicks >= now => s \in samples

-----------------------------------------------------------------------------
(* Arithmetic.                                                              *)

LEMMA Division ==
    ASSUME NEW s \in Nat, NEW k \in Nat \ {0}
    PROVE  /\ s \div k \in Nat
           /\ (s \div k) * k <= s /\ s < (s \div k) * k + k
  OBVIOUS

LEMMA Successor ==
    ASSUME NEW a \in Nat, NEW c \in Nat
    PROVE  /\ a * c \in Nat
           /\ (a + 1) * c = a * c + c
           /\ (a + 2) * c = a * c + c + c
  OBVIOUS

LEMMA DayFacts ==
    /\ HourTicks \in Nat /\ HourTicks > 0
    /\ Day \in Nat /\ Day >= 5 * HourTicks
    /\ \A d \in Nat : d * Day \in Nat /\ (d # 0 => d * Day >= Day)
  <1>1. HourTicks \in Nat /\ HourTicks > 0 /\ DayHours \in Nat /\ DayHours >= 5
    BY HourTicksAssumption, DayHoursAssumption
  <1>2. DayHours - 5 \in Nat
    BY <1>1
  <1>3. (DayHours - 5) * HourTicks \in Nat
    BY <1>1, <1>2
  <1>4. DayHours * HourTicks = 5 * HourTicks + (DayHours - 5) * HourTicks
    BY <1>1
  <1>5. Day \in Nat /\ Day >= 5 * HourTicks
    BY <1>1, <1>3, <1>4 DEF Day
  <1>6. ASSUME NEW d \in Nat PROVE d * Day \in Nat /\ (d # 0 => d * Day >= Day)
    <2>1. d * Day \in Nat
      BY <1>5
    <2>2. ASSUME d # 0 PROVE d * Day >= Day
      <3>1. d - 1 \in Nat
        BY <2>2
      <3>2. (d - 1) * Day \in Nat /\ d * Day = (d - 1) * Day + Day
        BY <1>5, <3>1
      <3>3. QED
        BY <1>5, <3>2
    <2>3. QED
      BY <2>1, <2>2
  <1>7. QED
    BY <1>1, <1>5, <1>6

LEMMA TimeFacts == Times \subseteq Nat /\ MaxTime \in Nat /\ MaxSamples \in Nat
  BY BoundsAssumption DEF Times

LEMMA StampTimes == Stamps \subseteq Times
  BY StampsAssumption DEF Times

(* The samples of an hour lie between its start and the next one's.         *)
LEMMA HourSpan ==
    ASSUME NEW s \in Times
    PROVE  /\ HourOf(s) \in Hours
           /\ HourOf(s) * HourTicks \in Nat
           /\ HourOf(s) * HourTicks <= s /\ s < HourOf(s) * HourTicks + HourTicks
  <1>1. s \in Nat /\ s <= MaxTime /\ MaxTime \in Nat
    BY BoundsAssumption DEF Times
  <1>2. HourTicks \in Nat \ {0}
    BY HourTicksAssumption
  <1>3. /\ s \div HourTicks \in Nat /\ (s \div HourTicks) * HourTicks <= s
        /\ s < (s \div HourTicks) * HourTicks + HourTicks
    BY <1>1, <1>2, Division
  <1>4. s \div HourTicks <= MaxTime \div HourTicks /\ MaxTime \div HourTicks \in Nat
    <2>1. /\ MaxTime \div HourTicks \in Nat
          /\ MaxTime < (MaxTime \div HourTicks) * HourTicks + HourTicks
      BY <1>1, <1>2, Division
    <2>2. ASSUME s \div HourTicks > MaxTime \div HourTicks PROVE FALSE
      <3> DEFINE q == s \div HourTicks
                 m == MaxTime \div HourTicks
      <3>1. q \in Nat /\ m \in Nat /\ q - m - 1 \in Nat
        BY <1>3, <2>1, <2>2
      <3> HIDE DEF q, m
      <3>2. (q - m - 1) * HourTicks \in Nat
        BY <1>2, <3>1
      <3>3. q * HourTicks = m * HourTicks + HourTicks + (q - m - 1) * HourTicks
        BY <1>2, <3>1
      <3>4. q * HourTicks <= s /\ MaxTime < m * HourTicks + HourTicks
        BY <1>3, <2>1 DEF q, m
      <3>5. q * HourTicks \in Nat /\ m * HourTicks \in Nat
        BY <1>2, <3>1
      <3>6. QED
        BY <1>1, <1>2, <3>2, <3>3, <3>4, <3>5
    <2>3. QED
      BY <1>3, <2>1, <2>2
  <1>5. (s \div HourTicks) * HourTicks \in Nat
    BY <1>2, <1>3
  <1>6. QED
    BY <1>3, <1>4, <1>5 DEF HourOf, Hours

-----------------------------------------------------------------------------
(* What the daily statement counts.                                         *)

OfDay(d) == {s \in ingested : DayOf(HourOf(s)) = d}

LEMMA IngestedFinite ==
    ASSUME TypeOK
    PROVE  /\ IsFiniteSet(ingested) /\ Cardinality(ingested) \in Nat
           /\ \A d : /\ IsFiniteSet(OfDay(d)) /\ Cardinality(OfDay(d)) \in Nat
                     /\ Cardinality(OfDay(d)) <= Cardinality(ingested)
  <1>1. IsFiniteSet(Times)
    BY BoundsAssumption, FS_Interval DEF Times
  <1>2. IsFiniteSet(ingested) /\ Cardinality(ingested) \in Nat
    BY <1>1, FS_Subset, FS_CardinalityType DEF TypeOK
  <1>3. ASSUME NEW d
        PROVE  /\ IsFiniteSet(OfDay(d)) /\ Cardinality(OfDay(d)) \in Nat
               /\ Cardinality(OfDay(d)) <= Cardinality(ingested)
    <2>1. OfDay(d) \in SUBSET ingested
      BY DEF OfDay
    <2>2. IsFiniteSet(OfDay(d)) /\ Cardinality(OfDay(d)) <= Cardinality(ingested)
      BY <1>2, <2>1, FS_Subset
    <2>3. QED
      BY <2>2, FS_CardinalityType
  <1>4. QED
    BY <1>2, <1>3

(* A sample determines its row, so the pairs of a row and a sample in it    *)
(* are no more than the samples.                                            *)
LEMMA DailyCountBound ==
    ASSUME TypeOK, RowsHeld, NEW d \in Days
    PROVE  DailyCount(d) \in Nat /\ DailyCount(d) <= Cardinality(OfDay(d))
  <1> DEFINE U == UNION {{h} \X hourly[h] : h \in DailyInput(d)}
             f == [p \in U |-> p[2]]
  <1>1. ASSUME NEW p \in U
        PROVE  p = <<HourOf(p[2]), p[2]>> /\ p[2] \in OfDay(d)
    <2>1. PICK h \in DailyInput(d) : p \in {h} \X hourly[h]
      OBVIOUS
    <2>2. h \in Hours /\ DayOf(h) = d
      BY DEF DailyInput
    <2>3. p = <<h, p[2]>> /\ p[2] \in hourly[h]
      BY <2>1
    <2>4. p[2] \in ingested /\ HourOf(p[2]) = h
      BY <2>2, <2>3 DEF RowsHeld
    <2>5. QED
      BY <2>2, <2>3, <2>4 DEF OfDay
  <1>2. f \in [U -> OfDay(d)]
    BY <1>1
  <1>3. \A p, q \in U : f[p] = f[q] => p = q
    <2> SUFFICES ASSUME NEW p \in U, NEW q \in U, p[2] = q[2] PROVE p = q
      BY Zenon
    <2>1. p = <<HourOf(p[2]), p[2]>> /\ q = <<HourOf(q[2]), q[2]>>
      BY <1>1
    <2>2. QED
      BY <2>1, Zenon
  <1> HIDE DEF U, f
  <1>4. f \in Injection(U, OfDay(d))
    BY <1>2, <1>3, Fun_IsInj
  <1>5. IsFiniteSet(U) /\ Cardinality(U) <= Cardinality(OfDay(d))
    BY <1>4, IngestedFinite, FS_Injection
  <1>6. DailyCount(d) = Cardinality(U)
    BY DEF DailyCount, U
  <1>7. QED
    BY <1>5, <1>6, FS_CardinalityType

-----------------------------------------------------------------------------
(* Types and counts.                                                        *)

LEMMA InitTInv == Init => TInv
  <1> SUFFICES ASSUME Init PROVE TInv
    OBVIOUS
  <1>1. Start \in Times /\ 0 \in 0..MaxSamples /\ 0 \in 0..(MaxTime + Day)
    BY TimeFacts, DayFacts, StampsAssumption DEF Times
  <1>2. TypeOK
    BY <1>1, DayFacts DEF Init, TypeOK, PCs
  <1>3. RowsHeld
    BY DEF Init, RowsHeld
  <1>4. CountBounded
    BY TimeFacts, FS_EmptySet DEF Init, CountBounded
  <1>5. NoDoubleCounting
    <2>1. ASSUME NEW d \in Days PROVE daily[d] <= Cardinality(OfDay(d))
      <3>1. daily[d] = 0
        BY DEF Init
      <3>2. Cardinality(OfDay(d)) \in Nat
        BY <1>2, IngestedFinite
      <3>3. QED
        BY <3>1, <3>2
    <2>2. QED
      BY <2>1 DEF NoDoubleCounting, OfDay
  <1>6. QED
    BY <1>2, <1>3, <1>4, <1>5 DEF TInv

(* The hourly statement writes rows of samples of their own hour.           *)
LEMMA HourlyRows ==
    ASSUME TInv, AggregateHourly, UNCHANGED <<now, ingested>>
    PROVE  RowsHeld' /\ hourly' \in [Hours -> SUBSET Times]
  <1>1. TypeOK /\ RowsHeld
    BY DEF TInv
  <1>2. samples \subseteq ingested /\ samples \subseteq Times
    BY <1>1 DEF TypeOK
  <1>3. HourlyWindow \subseteq samples /\ \A s \in HourlyWindow : s + HourTicks < now
    BY DEF HourlyWindow
  <1>4. hourly' = [h \in Hours |->
                     IF {s \in HourlyWindow : HourOf(s) = h} = {} THEN hourly[h]
                     ELSE {s \in HourlyWindow : HourOf(s) = h}]
    BY DEF AggregateHourly
  <1>5. ASSUME NEW h \in Hours
        PROVE  \/ hourly'[h] = hourly[h]
               \/ hourly'[h] = {s \in HourlyWindow : HourOf(s) = h}
    BY <1>4
  <1>6. RowsHeld'
    <2> SUFFICES ASSUME NEW h \in Hours, NEW s \in hourly'[h]
                 PROVE  s \in ingested' /\ HourOf(s) = h /\ s + HourTicks < now'
      BY DEF RowsHeld, HourOf, Hours
    <2>1. CASE hourly'[h] = hourly[h]
      BY <1>1, <2>1 DEF RowsHeld
    <2>2. CASE hourly'[h] = {t \in HourlyWindow : HourOf(t) = h}
      <3>1. s \in HourlyWindow /\ HourOf(s) = h
        BY <2>2
      <3>2. QED
        BY <1>2, <1>3, <3>1
    <2>3. QED
      BY <1>5, <2>1, <2>2
  <1>7. hourly' \in [Hours -> SUBSET Times]
    <2>1. hourly \in [Hours -> SUBSET Times]
      BY <1>1 DEF TypeOK
    <2>2. \A h \in Hours : hourly'[h] \in SUBSET Times
      BY <1>2, <1>3, <1>5, <2>1
    <2>3. QED
      BY <1>4, <2>2
  <1>8. QED
    BY <1>6, <1>7

LEMMA DailyRows ==
    ASSUME TInv, AggregateDaily, UNCHANGED ingested
    PROVE  NoDoubleCounting' /\ daily' \in [Days -> 0..MaxSamples]
  <1>1. TypeOK /\ RowsHeld /\ CountBounded /\ NoDoubleCounting
    BY DEF TInv
  <1>2. ASSUME NEW d \in Days
        PROVE  /\ daily'[d] \in 0..MaxSamples
               /\ daily'[d] <= Cardinality(OfDay(d))
    <2>1. daily'[d] = IF DailyInput(d) = {} THEN daily[d] ELSE DailyCount(d)
      BY DEF AggregateDaily
    <2>2. daily[d] \in 0..MaxSamples /\ daily[d] <= Cardinality(OfDay(d))
      BY <1>1 DEF TypeOK, NoDoubleCounting, OfDay
    <2>3. DailyCount(d) \in Nat /\ DailyCount(d) <= Cardinality(OfDay(d))
      BY <1>1, DailyCountBound
    <2>4. /\ Cardinality(OfDay(d)) <= Cardinality(ingested)
          /\ Cardinality(OfDay(d)) \in Nat /\ Cardinality(ingested) \in Nat
      BY <1>1, IngestedFinite
    <2>5. Cardinality(ingested) <= MaxSamples
      BY <1>1 DEF CountBounded
    <2>6. QED
      BY <2>1, <2>2, <2>3, <2>4, <2>5, TimeFacts
  <1>3. daily' \in [Days -> 0..MaxSamples]
    BY <1>2 DEF AggregateDaily
  <1>4. NoDoubleCounting'
    BY <1>2 DEF NoDoubleCounting, OfDay, Days, DayOf, HourOf, Day
  <1>5. QED
    BY <1>3, <1>4

LEMMA NextTInv == TInv /\ [Next]_vars => TInv'
  <1> SUFFICES ASSUME TInv, [Next]_vars PROVE TInv'
    OBVIOUS
  <1>1. TypeOK /\ RowsHeld /\ CountBounded /\ NoDoubleCounting
    BY DEF TInv
  <1>2. ASSUME UNCHANGED <<hourly, daily, ingested>>, now' \in Times, now <= now', TypeOK'
        PROVE  TInv'
    <2>1. RowsHeld'
      <3> SUFFICES ASSUME NEW h \in Hours, NEW s \in hourly[h]
                   PROVE  s \in ingested /\ HourOf(s) = h /\ s + HourTicks < now'
        BY <1>2 DEF RowsHeld, HourOf, Hours
      <3>1. s \in ingested /\ HourOf(s) = h /\ s + HourTicks < now
        BY <1>1 DEF RowsHeld
      <3>2. s \in Nat /\ now \in Nat /\ now' \in Nat
        BY <1>1, <1>2, <3>1, TimeFacts DEF TypeOK
      <3>3. QED
        BY <1>2, <3>1, <3>2, DayFacts
    <2>2. CountBounded' /\ NoDoubleCounting'
      BY <1>1, <1>2 DEF CountBounded, NoDoubleCounting, Days, DayOf, HourOf, Day
    <2>3. QED
      BY <1>2, <2>1, <2>2 DEF TInv
  <1>3. now \in Nat /\ now \in Times /\ now <= now
    BY <1>1, TimeFacts DEF TypeOK
  <1>4. ASSUME NEW l \in Loops, Run(l) PROVE TInv'
    <2>1. TypeOK'
      BY <1>1, <1>4 DEF Run, Goto, tables, TypeOK, PCs
    <2>2. QED
      BY <1>2, <1>3, <1>4, <2>1 DEF Run, tables
  <1>5. ASSUME NEW l \in Loops, LoopStarts(l) PROVE TInv'
    <2>1. TypeOK'
      BY <1>1, <1>5 DEF LoopStarts, Goto, tables, TypeOK, PCs
    <2>2. QED
      BY <1>2, <1>3, <1>5, <2>1 DEF LoopStarts, tables
  <1>6. ASSUME NEW l \in Loops, TickerFires(l) PROVE TInv'
    <2>1. TypeOK'
      BY <1>1, <1>6 DEF TickerFires, Goto, tables, TypeOK, PCs
    <2>2. QED
      BY <1>2, <1>3, <1>6, <2>1 DEF TickerFires, tables
  <1>7. ASSUME NEW l \in Loops, HourlyStep(l) PROVE TInv'
    <2>1. /\ pc' \in [Loops -> PCs]
          /\ UNCHANGED <<now, alive, days, keep, due, samples, daily, ingested, arrived, swept, asked>>
      BY <1>1, <1>7 DEF HourlyStep, Goto, TypeOK, PCs
    <2>2. CASE AggregateHourly
      <3>1. RowsHeld' /\ hourly' \in [Hours -> SUBSET Times]
        BY <2>1, <2>2, HourlyRows
      <3>2. TypeOK'
        BY <1>1, <2>1, <3>1 DEF TypeOK
      <3>3. CountBounded' /\ NoDoubleCounting'
        BY <1>1, <2>1 DEF CountBounded, NoDoubleCounting, Days, DayOf, HourOf, Day
      <3>4. QED
        BY <3>1, <3>2, <3>3 DEF TInv
    <2>3. CASE UNCHANGED hourly
      <3>1. TypeOK'
        BY <1>1, <2>1, <2>3 DEF TypeOK
      <3>2. QED
        BY <1>2, <1>3, <2>1, <2>3, <3>1
    <2>4. QED
      BY <1>7, <2>2, <2>3 DEF HourlyStep
  <1>8. ASSUME NEW l \in Loops, DailyStep(l) PROVE TInv'
    <2>1. /\ pc' \in [Loops -> PCs]
          /\ UNCHANGED <<now, alive, days, keep, due, samples, hourly, ingested, arrived, swept, asked>>
      BY <1>1, <1>8 DEF DailyStep, Goto, TypeOK, PCs
    <2>2. CASE AggregateDaily
      <3>1. NoDoubleCounting' /\ daily' \in [Days -> 0..MaxSamples]
        BY <2>1, <2>2, DailyRows
      <3>2. TypeOK'
        BY <1>1, <2>1, <3>1 DEF TypeOK
      <3>3. CountBounded' /\ RowsHeld'
        BY <1>1, <2>1 DEF CountBounded, RowsHeld, HourOf, Hours
      <3>4. QED
        BY <3>1, <3>2, <3>3 DEF TInv
    <2>3. CASE UNCHANGED daily
      <3>1. TypeOK'
        BY <1>1, <2>1, <2>3 DEF TypeOK
      <3>2. QED
        BY <1>2, <1>3, <2>1, <2>3, <3>1
    <2>4. QED
      BY <1>8, <2>2, <2>3 DEF DailyStep
  <1>9. ASSUME NEW l \in Loops, DeleteStep(l) PROVE TInv'
    <2>1. /\ pc' \in [Loops -> PCs]
          /\ due' = [due EXCEPT ![l] = now + Day]
          /\ samples' \subseteq samples
          /\ swept' \in [Loops -> BOOLEAN]
          /\ asked' \in [Loops -> DayValues \cup {0}]
          /\ arrived' = [s \in samples' |-> arrived[s]]
          /\ UNCHANGED <<now, alive, days, keep, hourly, daily, ingested>>
      BY <1>1, <1>9 DEF DeleteStep, DeleteOldSamples, Sleep, Goto, TypeOK, PCs
    <2>2. now + Day \in 0..(MaxTime + Day)
      BY <1>1, BoundsAssumption, DayFacts DEF TypeOK, Times
    <2>3. arrived' \in [samples' -> Times]
      BY <1>1, <2>1 DEF TypeOK
    <2>4. TypeOK'
      BY <1>1, <2>1, <2>2, <2>3 DEF TypeOK
    <2>5. QED
      BY <1>2, <1>3, <2>1, <2>4
  <1>10. ASSUME NEW t \in Times, Insert(t) PROVE TInv'
    <2>1. /\ Cardinality(ingested \cup {t}) <= MaxSamples
          /\ samples' = samples \cup {t} /\ ingested' = ingested \cup {t}
          /\ arrived' = [s \in samples' |-> IF s = t THEN now ELSE arrived[s]]
          /\ UNCHANGED <<now, alive, days, pc, keep, due, hourly, daily, swept, asked>>
      BY <1>10 DEF Insert
    <2>2. TypeOK'
      <3>1. arrived' \in [samples' -> Times]
        BY <1>1, <2>1 DEF TypeOK
      <3>2. QED
        BY <1>1, <2>1, <3>1 DEF TypeOK
    <2>3. RowsHeld'
      BY <1>1, <2>1 DEF RowsHeld, HourOf, Hours
    <2>4. CountBounded'
      BY <2>1 DEF CountBounded
    <2>5. NoDoubleCounting'
      <3> SUFFICES ASSUME NEW d \in Days
                   PROVE  daily[d] <= Cardinality(OfDay(d)')
        BY <2>1 DEF NoDoubleCounting, OfDay, Days, DayOf, HourOf, Day
      <3>1. /\ Cardinality(OfDay(d)) \in Nat
            /\ IsFiniteSet(OfDay(d)') /\ Cardinality(OfDay(d)') \in Nat
        <4>1. Cardinality(OfDay(d)) \in Nat
          BY <1>1, IngestedFinite
        <4>2. IsFiniteSet(OfDay(d))
          BY <1>1, IngestedFinite
        <4>3. OfDay(d)' \in SUBSET (OfDay(d) \cup {t})
          BY <2>1 DEF OfDay, HourOf, DayOf
        <4>4. IsFiniteSet(OfDay(d) \cup {t})
          BY <4>2, FS_AddElement
        <4>5. IsFiniteSet(OfDay(d)')
          BY <4>3, <4>4, FS_Subset
        <4>6. QED
          BY <4>1, <4>5, FS_CardinalityType
      <3>2. OfDay(d) \in SUBSET (OfDay(d)')
        BY <2>1 DEF OfDay, HourOf, DayOf
      <3>3. Cardinality(OfDay(d)) <= Cardinality(OfDay(d)')
        BY <3>1, <3>2, FS_Subset
      <3>4. daily[d] <= Cardinality(OfDay(d)) /\ daily[d] \in Nat
        BY <1>1, TimeFacts DEF NoDoubleCounting, OfDay, TypeOK
      <3>5. QED
        BY <3>1, <3>3, <3>4
    <2>6. QED
      BY <2>2, <2>3, <2>4, <2>5 DEF TInv
  <1>11. ASSUME NEW d \in DayValues, Reload(d) PROVE TInv'
    <2>1. TypeOK'
      BY <1>1, <1>11 DEF Reload, tables, TypeOK
    <2>2. QED
      BY <1>2, <1>3, <1>11, <2>1 DEF Reload, tables
  <1>12. CASE Crash
    <2>1. 0 \in 0..(MaxTime + Day)
      BY TimeFacts, DayFacts
    <2>2. TypeOK'
      BY <1>1, <1>12, <2>1 DEF Crash, tables, TypeOK, PCs
    <2>3. QED
      BY <1>2, <1>3, <1>12, <2>2 DEF Crash, tables
  <1>13. CASE Restart
    <2>1. TypeOK'
      BY <1>1, <1>13 DEF Restart, tables, TypeOK
    <2>2. QED
      BY <1>2, <1>3, <1>13, <2>1 DEF Restart, tables
  <1>14. CASE Tick
    <2>1. now' \in Times /\ now <= now'
      BY <1>1, <1>14, BoundsAssumption DEF Tick, TypeOK, Times
    <2>2. TypeOK'
      BY <1>1, <1>14, <2>1 DEF Tick, tables, TypeOK
    <2>3. QED
      BY <1>2, <1>14, <2>1, <2>2 DEF Tick, tables
  <1>15. CASE UNCHANGED vars
    <2>1. TypeOK'
      BY <1>1, <1>15 DEF vars, tables, TypeOK
    <2>2. QED
      BY <1>2, <1>3, <1>15, <2>1 DEF vars, tables
  <1>16. QED
    <2>1. ASSUME Collect \/ \E t \in Stamps : Receive(t) PROVE TInv'
      BY <1>3, <1>10, <2>1, StampTimes DEF Collect, Receive
    <2>2. QED
      BY <1>4, <1>5, <1>6, <1>7, <1>8, <1>9, <1>11, <1>12, <1>13, <1>14, <1>15, <2>1
      DEF Next

LEMMA SpecTInv == Spec => []TInv
  BY InitTInv, NextTInv, PTL DEF Spec

(* Every table, ticker and local variable stays in range; in particular no  *)
(* daily row counts more than the samples ever collected.                   *)
THEOREM TypeCorrect == Spec => []TypeOK
  <1>1. TInv => TypeOK
    BY DEF TInv
  <1>2. QED
    BY <1>1, SpecTInv, PTL

(* However often and in whatever order the loops run AggregateHourly and    *)
(* AggregateDaily, through failures and crashes, no sample counts twice.    *)
THEOREM NoDoubleCountingAlways == Spec => []NoDoubleCounting
  <1>1. TInv => NoDoubleCounting
    BY DEF TInv
  <1>2. QED
    BY <1>1, SpecTInv, PTL

-----------------------------------------------------------------------------
(* The age of what is stored.                                               *)

LEMMA KeepType == ASSUME TypeOK, NEW l \in Loops PROVE keep[l] \in Nat
  <1>1. keep[l] \in {d * Day : d \in DayValues}
    BY DEF TypeOK
  <1>2. QED
    BY <1>1, DayValuesAssumption, DayFacts

LEMMA SampleTimes ==
    ASSUME TypeOK
    PROVE  /\ now \in Nat
           /\ \A s \in samples : s \in Nat /\ arrived[s] \in Nat
           /\ \A l \in Loops : due[l] \in Nat
  <1>1. now \in Times /\ samples \subseteq Times /\ arrived \in [samples -> Times]
    BY DEF TypeOK
  <1>2. due \in [Loops -> 0..(MaxTime + Day)]
    BY DEF TypeOK
  <1>3. \A s \in samples : s \in Nat /\ arrived[s] \in Nat
    BY <1>1, TimeFacts
  <1>4. \A l \in Loops : due[l] \in Nat
    <2>1. MaxTime + Day \in Nat
      BY TimeFacts, DayFacts
    <2>2. QED
      BY <1>2, <2>1
  <1>5. now \in Nat
    BY <1>1, TimeFacts
  <1>6. QED
    BY <1>3, <1>4, <1>5

LEMMA NextSInv == SInv /\ TypeOK' /\ [Next]_vars => SInv'
  <1> SUFFICES ASSUME SInv, TypeOK', [Next]_vars PROVE DeadLoops' /\ Sleeping'
    BY DEF SInv
  <1>1. TypeOK /\ DeadLoops /\ Sleeping
    BY DEF SInv
  <1>2. /\ now \in Nat /\ Day \in Nat /\ \A l \in Loops : keep[l] \in Nat /\ due[l] \in Nat
        /\ \A s \in samples : s \in Nat /\ arrived[s] \in Nat
    BY <1>1, KeepType, SampleTimes, DayFacts
  <1>3. pc \in [Loops -> PCs] /\ keep \in [Loops -> Nat] /\ DOMAIN due = Loops
        /\ DOMAIN swept = Loops
    BY <1>1, <1>2 DEF TypeOK
  \* A loop moves to a point other than its sleep.
  <1>4. ASSUME NEW l \in Loops, NEW p \in PCs \ {"wait"}, Goto(l, p), alive,
               UNCHANGED <<now, alive, due, samples, arrived, swept>>,
               \A g \in Loops \ {l} : keep'[g] = keep[g]
        PROVE  DeadLoops' /\ Sleeping'
    <2>1. \A g \in Loops : pc'[g] = "wait" => g # l /\ pc[g] = "wait"
      BY <1>3, <1>4 DEF Goto
    <2>2. DeadLoops'
      BY <1>4 DEF DeadLoops
    <2>3. Sleeping'
      BY <1>1, <1>4, <2>1 DEF Sleeping, Day
    <2>4. QED
      BY <2>2, <2>3
  <1>5. ASSUME NEW l \in Loops, Run(l) PROVE DeadLoops' /\ Sleeping'
    BY <1>4, <1>5 DEF Run, PCs, tables
  <1>6. ASSUME NEW l \in Loops, LoopStarts(l) PROVE DeadLoops' /\ Sleeping'
    <2>1. \A g \in Loops \ {l} : keep'[g] = keep[g]
      BY <1>3, <1>6 DEF LoopStarts
    <2>2. QED
      BY <1>4, <1>6, <2>1 DEF LoopStarts, PCs, tables
  <1>7. ASSUME NEW l \in Loops, TickerFires(l) PROVE DeadLoops' /\ Sleeping'
    BY <1>4, <1>7 DEF TickerFires, PCs, tables
  <1>8. ASSUME NEW l \in Loops, HourlyStep(l) PROVE DeadLoops' /\ Sleeping'
    BY <1>4, <1>8 DEF HourlyStep, PCs
  <1>9. ASSUME NEW l \in Loops, DailyStep(l) PROVE DeadLoops' /\ Sleeping'
    BY <1>4, <1>9 DEF DailyStep, PCs
  <1>10. ASSUME NEW l \in Loops, DeleteStep(l) PROVE DeadLoops' /\ Sleeping'
    <2>1. /\ alive /\ due' = [due EXCEPT ![l] = now + Day]
          /\ pc' = [pc EXCEPT ![l] = "wait"]
          /\ \/ samples' = {s \in samples : s + keep[l] >= now}
             \/ samples' = samples /\ swept' = [swept EXCEPT ![l] = FALSE]
          /\ \A g \in Loops \ {l} : swept'[g] = swept[g]
          /\ arrived' = [s \in samples' |-> arrived[s]]
          /\ UNCHANGED <<now, alive, keep>>
      BY <1>3, <1>10 DEF DeleteStep, DeleteOldSamples, Sleep, Goto
    <2>2. due'[l] = now + Day /\ \A g \in Loops \ {l} : due'[g] = due[g] /\ pc'[g] = pc[g]
      BY <1>3, <2>1
    <2>3. samples' \subseteq samples /\ \A s \in samples' : arrived'[s] = arrived[s]
      BY <2>1
    <2>4. ASSUME NEW g \in Loops, pc'[g] = "wait"
          PROVE  /\ now <= due'[g] /\ due'[g] <= now + Day
                 /\ swept'[g] => \A s \in samples' : \/ due'[g] <= s + keep[g] + Day
                                                   \/ due'[g] <= arrived'[s] + Day
      <3>1. CASE g # l
        BY <1>1, <2>1, <2>2, <2>3, <2>4, <3>1 DEF Sleeping
      <3>2. CASE g = l /\ samples' = samples /\ swept' = [swept EXCEPT ![l] = FALSE]
        <4>1. ~swept'[g]
          BY <1>3, <3>2
        <4>2. QED
          BY <1>2, <2>2, <3>2, <4>1
      <3>3. CASE g = l /\ samples' = {s \in samples : s + keep[l] >= now}
        BY <1>2, <2>2, <3>3
      <3>4. QED
        BY <2>1, <3>1, <3>2, <3>3
    <2>5. Sleeping'
      BY <2>1, <2>4 DEF Sleeping, Day
    <2>6. QED
      BY <2>1, <2>5 DEF DeadLoops
  \* What comes while a loop sleeps comes less than a day before it wakes up.
  <1>11. ASSUME NEW t \in Times, Insert(t) PROVE DeadLoops' /\ Sleeping'
    <2>1. /\ samples' = samples \cup {t}
          /\ arrived' = [s \in samples' |-> IF s = t THEN now ELSE arrived[s]]
          /\ UNCHANGED <<now, alive, pc, keep, due, swept>>
      BY <1>11 DEF Insert
    <2>2. Sleeping'
      <3> SUFFICES ASSUME NEW l \in Loops, alive, pc[l] = "wait"
                   PROVE  /\ now <= due[l] /\ due[l] <= now + Day
                          /\ swept[l] => \A s \in samples' : \/ due[l] <= s + keep[l] + Day
                                                           \/ due[l] <= arrived'[s] + Day
        BY <2>1 DEF Sleeping, Day
      <3>1. /\ now <= due[l] /\ due[l] <= now + Day
            /\ swept[l] => \A s \in samples : \/ due[l] <= s + keep[l] + Day
                                            \/ due[l] <= arrived[s] + Day
        BY <1>1 DEF Sleeping
      <3>2. ASSUME swept[l], NEW s \in samples'
            PROVE  due[l] <= s + keep[l] + Day \/ due[l] <= arrived'[s] + Day
        <4>1. CASE s = t
          BY <2>1, <3>1, <4>1
        <4>2. CASE s # t
          BY <2>1, <3>1, <3>2, <4>2
        <4>3. QED
          BY <4>1, <4>2
      <3>3. QED
        BY <3>1, <3>2
    <2>3. QED
      BY <1>1, <2>1, <2>2 DEF DeadLoops
  <1>12. ASSUME NEW d \in DayValues, Reload(d) PROVE DeadLoops' /\ Sleeping'
    BY <1>1, <1>12 DEF Reload, tables, DeadLoops, Sleeping, Day
  <1>13. CASE Crash
    BY <1>13 DEF Crash, DeadLoops, Sleeping
  <1>14. CASE Restart
    <2>1. alive' /\ \A l \in Loops : pc'[l] = "run"
      BY <1>1, <1>14 DEF Restart, DeadLoops
    <2>2. QED
      BY <2>1 DEF DeadLoops, Sleeping
  <1>15. CASE Tick
    <2>1. /\ now' = now + 1 /\ UNCHANGED <<alive, pc, keep, due, samples, arrived, swept>>
          /\ alive => \A l \in Loops : pc[l] = "wait" => now < due[l]
      BY <1>15 DEF Tick, tables
    <2>2. ASSUME NEW l \in Loops, alive, pc[l] = "wait"
          PROVE  /\ now + 1 <= due[l] /\ due[l] <= now + 1 + Day
                 /\ swept[l] => \A s \in samples : \/ due[l] <= s + keep[l] + Day
                                                 \/ due[l] <= arrived[s] + Day
      <3>1. /\ now < due[l] /\ due[l] <= now + Day
            /\ swept[l] => \A s \in samples : \/ due[l] <= s + keep[l] + Day
                                            \/ due[l] <= arrived[s] + Day
        BY <1>1, <2>1, <2>2 DEF Sleeping
      <3>2. QED
        BY <1>2, <3>1
    <2>3. QED
      BY <1>1, <2>1, <2>2 DEF DeadLoops, Sleeping, Day
  <1>16. CASE UNCHANGED vars
    BY <1>1, <1>16 DEF vars, tables, DeadLoops, Sleeping, Day
  <1>17. QED
    <2>1. ASSUME Collect \/ \E t \in Stamps : Receive(t) PROVE DeadLoops' /\ Sleeping'
      <3>1. now \in Times
        BY <1>1 DEF TypeOK
      <3>2. QED
        BY <1>11, <2>1, <3>1, StampTimes DEF Collect, Receive
    <2>2. QED
      BY <1>5, <1>6, <1>7, <1>8, <1>9, <1>10, <1>12, <1>13, <1>14, <1>15, <1>16, <2>1
      DEF Next

LEMMA InitSInv == Init /\ TypeOK => SInv
  BY DEF Init, SInv, DeadLoops, Sleeping

(* Whatever fails, crashes, is reconfigured or arrives with whatever date:  *)
(* while a loop sleeps after a delete that succeeded, no sample has been in *)
(* the table for more than a day since it got too old or came too old.      *)
THEOREM StorageBoundedAlways == Spec => []StorageBounded
  <1>1. SInv => StorageBounded
    <2> SUFFICES ASSUME SInv, NEW l \in Loops, alive, pc[l] = "wait", swept[l],
                        NEW s \in samples
                 PROVE  now <= s + keep[l] + Day \/ now <= arrived[s] + Day
      BY DEF StorageBounded
    <2>1. /\ TypeOK /\ now <= due[l]
          /\ due[l] <= s + keep[l] + Day \/ due[l] <= arrived[s] + Day
      BY DEF SInv, Sleeping
    <2>2. now \in Nat /\ s \in Nat /\ arrived[s] \in Nat /\ keep[l] \in Nat /\ due[l] \in Nat /\ Day \in Nat
      BY <2>1, KeepType, SampleTimes, DayFacts
    <2>3. QED
      BY <2>1, <2>2
  <1>2. QED
    BY <1>1, InitSInv, NextSInv, TypeCorrect, PTL DEF Spec

-----------------------------------------------------------------------------
(* Exact rollups, when the configuration keeps at least a day.              *)

LEMMA NextRecent ==
    ASSUME 0 \notin DayValues, TypeOK, Recent, [Next]_vars
    PROVE  Recent'
  <1>1. now \in Nat /\ HourTicks \in Nat /\ \A s \in ingested : s \in Nat
    BY TimeFacts, DayFacts DEF TypeOK
  <1>2. ASSUME NEW l \in Loops PROVE keep[l] \in Nat /\ keep[l] >= 4 * HourTicks
    <2>1. keep[l] \in {d * Day : d \in DayValues}
      BY DEF TypeOK
    <2>2. PICK d \in DayValues : keep[l] = d * Day
      BY <2>1
    <2>3. d \in Nat /\ d # 0
      BY DayValuesAssumption
    <2>4. keep[l] \in Nat /\ keep[l] >= Day /\ Day \in Nat /\ Day >= 5 * HourTicks
      BY <2>2, <2>3, DayFacts
    <2>5. QED
      BY <1>1, <2>4
  <1>3. ASSUME UNCHANGED <<samples, ingested>>, now' = now \/ now' = now + 1
        PROVE  Recent'
    <2> SUFFICES ASSUME NEW s \in ingested, s + 4 * HourTicks >= now'
                 PROVE  s \in samples
      BY <1>3 DEF Recent
    <2>1. s + 4 * HourTicks >= now
      BY <1>1, <1>3
    <2>2. QED
      BY <2>1 DEF Recent
  <1>4. ASSUME NEW l \in Loops, DeleteStep(l) PROVE Recent'
    <2>1. /\ samples' = samples \/ samples' = {s \in samples : s + keep[l] >= now}
          /\ UNCHANGED <<now, ingested>>
      BY <1>4 DEF DeleteStep, DeleteOldSamples
    <2> SUFFICES ASSUME NEW s \in ingested, s + 4 * HourTicks >= now
                 PROVE  s \in samples'
      BY <2>1 DEF Recent
    <2>2. s \in samples
      BY DEF Recent
    <2>3. s + keep[l] >= now
      BY <1>1, <1>2
    <2>4. QED
      BY <2>1, <2>2, <2>3
  <1>5. CASE Collect \/ \E t \in Stamps : Receive(t)
    BY <1>5 DEF Collect, Receive, Insert, Recent
  <1>6. CASE \E l \in Loops : Run(l) \/ LoopStarts(l) \/ TickerFires(l)
                              \/ HourlyStep(l) \/ DailyStep(l)
    BY <1>3, <1>6 DEF Run, LoopStarts, TickerFires, HourlyStep, DailyStep, tables
  <1>7. CASE (\E d \in DayValues : Reload(d)) \/ Crash \/ Restart \/ Tick
    BY <1>3, <1>7 DEF Reload, Crash, Restart, Tick, tables
  <1>8. CASE UNCHANGED vars
    BY <1>3, <1>8 DEF vars, tables
  <1>9. QED
    BY <1>4, <1>5, <1>6, <1>7, <1>8 DEF Next

(* A bucket that lies wholly in the window gets every sample of its hour.   *)
LEMMA WholeHourExact ==
    ASSUME TypeOK, Recent, AggregateHourly, NEW h \in Hours, WholeHour(h),
           {s \in ingested : HourOf(s) = h} # {}
    PROVE  hourly'[h] = {s \in ingested : HourOf(s) = h}
  <1> DEFINE group == {s \in HourlyWindow : HourOf(s) = h}
             all == {s \in ingested : HourOf(s) = h}
  <1>1. samples \subseteq ingested /\ ingested \subseteq Times /\ now \in Nat
        /\ HourTicks \in Nat /\ HourTicks > 0
    BY TimeFacts, DayFacts DEF TypeOK
  <1>2. group \subseteq all
    BY <1>1 DEF HourlyWindow
  <1>3. ASSUME NEW s \in all PROVE s \in group
    <2>1. s \in Times /\ s \in Nat /\ HourOf(s) = h /\ s \in ingested
      BY <1>1, TimeFacts
    <2>2. h * HourTicks \in Nat /\ h * HourTicks <= s /\ s < h * HourTicks + HourTicks
      BY <2>1, HourSpan
    <2>3. h \in Nat
      BY <2>1, HourTicksAssumption, Division DEF HourOf
    <2>4. (h + 2) * HourTicks = h * HourTicks + HourTicks + HourTicks
      BY <1>1, <2>3, Successor
    <2>5. s + 4 * HourTicks >= now /\ s + HourTicks < now
      BY <1>1, <2>1, <2>2, <2>4 DEF WholeHour
    <2>6. s \in samples
      BY <2>1, <2>5 DEF Recent
    <2>7. QED
      BY <2>1, <2>5, <2>6 DEF HourlyWindow
  <1>4. group = all
    BY <1>2, <1>3
  <1>5. hourly'[h] = IF group = {} THEN hourly[h] ELSE group
    BY DEF AggregateHourly
  <1>6. QED
    BY <1>4, <1>5

(* Outside the bucket that the lower bound cuts, a row only grows.          *)
LEMMA RowsGrow ==
    ASSUME TypeOK, RowsHeld, Recent, AggregateHourly, NEW h \in Hours, ~CutHour(h)
    PROVE  hourly[h] \subseteq hourly'[h]
  <1> DEFINE group == {s \in HourlyWindow : HourOf(s) = h}
  <1>1. samples \subseteq Times /\ ingested \subseteq Times /\ now \in Nat
        /\ HourTicks \in Nat /\ HourTicks > 0
    BY TimeFacts, DayFacts DEF TypeOK
  <1>2. hourly'[h] = IF group = {} THEN hourly[h] ELSE group
    BY DEF AggregateHourly
  <1>3. CASE group = {}
    BY <1>2, <1>3
  <1>4. CASE group # {}
    <2>1. PICK g \in samples : g + 4 * HourTicks >= now /\ HourOf(g) = h
      BY <1>4 DEF HourlyWindow
    <2>2. g \in Times /\ g \in Nat
      BY <1>1, TimeFacts
    <2>3. h * HourTicks \in Nat /\ g < h * HourTicks + HourTicks
      BY <2>1, <2>2, HourSpan
    <2>4. h \in Nat
      BY <2>1, <2>2, HourTicksAssumption, Division DEF HourOf
    <2>5. (h + 1) * HourTicks = h * HourTicks + HourTicks
      BY <1>1, <2>4, Successor
    <2>6. h * HourTicks + 4 * HourTicks >= now
      BY <1>1, <2>1, <2>2, <2>3, <2>5 DEF CutHour
    <2>7. ASSUME NEW s \in hourly[h] PROVE s \in group
      <3>1. s \in ingested /\ HourOf(s) = h /\ s + HourTicks < now
        BY DEF RowsHeld
      <3>2. s \in Times /\ s \in Nat
        BY <1>1, <3>1, TimeFacts
      <3>3. h * HourTicks <= s
        BY <3>1, <3>2, HourSpan
      <3>4. s + 4 * HourTicks >= now
        BY <1>1, <2>3, <2>6, <3>2, <3>3
      <3>5. s \in samples
        BY <3>1, <3>4 DEF Recent
      <3>6. QED
        BY <3>1, <3>4, <3>5 DEF HourlyWindow
    <2>8. QED
      BY <1>2, <1>4, <2>7
  <1>5. QED
    BY <1>3, <1>4

(* If every retention_days the configuration takes is at least one, the     *)
(* hourly rollup misses no sample of a bucket wholly in its window, and no  *)
(* row loses a sample save in the bucket the window cuts: no interleaving   *)
(* of the loops' deletes with each other's rollups gets in between.         *)
THEOREM RollupsExactAlways ==
    ASSUME 0 \notin DayValues
    PROVE  Spec => RollupsExact
  <1>1. Init => Recent
    BY DEF Init, Recent
  <1>2. TypeOK /\ Recent /\ [Next]_vars => Recent'
    BY NextRecent
  <1> DEFINE Exact == /\ (\E l \in Loops : HourlyStep(l)) /\ AggregateHourly =>
                          \A h \in {g \in Hours : WholeHour(g)} :
                            LET all == {s \in ingested : HourOf(s) = h}
                            IN  all # {} => hourly'[h] = all
                      /\ hourly' # hourly =>
                          \A h \in Hours : hourly[h] \subseteq hourly'[h] \/ CutHour(h)
  <1>3. ASSUME TypeOK, RowsHeld, Recent, [Next]_vars PROVE [Exact]_vars
    <2>1. ASSUME AggregateHourly, NEW h \in Hours, WholeHour(h)
          PROVE  {s \in ingested : HourOf(s) = h} # {}
                   => hourly'[h] = {s \in ingested : HourOf(s) = h}
      BY <1>3, <2>1, WholeHourExact
    <2>2. hourly' # hourly => AggregateHourly
      <3>1. ASSUME NEW l \in Loops, HourlyStep(l)
            PROVE  AggregateHourly \/ hourly' = hourly
        BY <3>1 DEF HourlyStep
      <3>2. ASSUME NEW l \in Loops,
                   Run(l) \/ LoopStarts(l) \/ TickerFires(l) \/ DailyStep(l) \/ DeleteStep(l)
            PROVE  hourly' = hourly
        BY <3>2 DEF Run, LoopStarts, TickerFires, DailyStep, DeleteStep, tables
      <3>3. ASSUME Collect \/ (\E t \in Stamps : Receive(t)) \/ (\E d \in DayValues : Reload(d))
                   \/ Crash \/ Restart \/ Tick \/ UNCHANGED vars
            PROVE  hourly' = hourly
        BY <3>3 DEF Collect, Receive, Insert, Reload, Crash, Restart, Tick, tables, vars
      <3>4. QED
        BY <1>3, <3>1, <3>2, <3>3 DEF Next
    <2>3. ASSUME hourly' # hourly, NEW h \in Hours
          PROVE  hourly[h] \subseteq hourly'[h] \/ CutHour(h)
      BY <1>3, <2>2, <2>3, RowsGrow
    <2>4. QED
      BY <2>1, <2>3
  <1>4. TInv => TypeOK /\ RowsHeld
    BY DEF TInv
  <1>5. QED
    BY <1>1, <1>2, <1>3, <1>4, SpecTInv, PTL DEF Spec, RollupsExact
=============================================================================
