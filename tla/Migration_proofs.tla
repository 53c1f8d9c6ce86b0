-------------------------- MODULE Migration_proofs --------------------------
(***************************************************************************)
(* The schema is migrated in order and completely for any number of         *)
(* instances, sessions and files.  None of the proofs uses the advisory     *)
(* lock: the order of the statements in Migrate and the primary key of      *)
(* schema_migrations carry these properties alone.                          *)
(***************************************************************************)
EXTENDS Migration, TLAPS

(* What Migrate of one instance knows at each place of its loop.            *)
Progress(i) ==
    /\ pc[i] \in {"start", "locking", "create"} => cur[i] = 1
    /\ pc[i] \in {"check", "apply", "record"}
         => \A u \in 1..(cur[i] - 1) : u \in recorded
    /\ pc[i] \in {"apply", "record"} => cur[i] \in Versions
    /\ pc[i] = "record" => cur[i] \in applied
    /\ pc[i] = "unlock" /\ ~err[i] => Versions \subseteq recorded
    /\ pc[i] = "done" => Versions \subseteq recorded

MInv ==
    /\ TypeOK
    /\ RecordedWasApplied
    /\ AppliedInOrder
    /\ \A i \in Instances : Progress(i)

-----------------------------------------------------------------------------
LEMMA InitMInv == Init => MInv
    BY NumVersionsAssumption
       DEF Init, MInv, TypeOK, PCs, RecordedWasApplied, AppliedInOrder, Progress

(* Closing sessions leaves owner and open well-formed.                      *)
LEMMA CloseTypes ==
    ASSUME TypeOK, NEW i \in Instances, NEW S \in SUBSET Sessions, Close(i, S)
    PROVE  /\ open' \in [Instances -> SUBSET Sessions]
           /\ owner' \in {NoOwner} \cup (Instances \X Sessions)
  <1>1. open' \in [Instances -> SUBSET Sessions]
    BY DEF TypeOK, Close
  <1>2. owner' \in {NoOwner, owner}
    BY DEF Close
  <1>3. QED
    BY <1>1, <1>2 DEF TypeOK

(* An instance that does not move keeps what it knows, because the two      *)
(* tables only grow.                                                        *)
LEMMA OthersKeepProgress ==
    ASSUME NEW j \in Instances, Progress(j),
           pc'[j] = pc[j], cur'[j] = cur[j], err'[j] = err[j],
           recorded \subseteq recorded', applied \subseteq applied'
    PROVE  Progress(j)'
    BY DEF Progress, Versions

LEMMA NextMInv == MInv /\ [Next]_vars => MInv'
  <1> SUFFICES ASSUME MInv, [Next]_vars PROVE MInv'
    OBVIOUS
  <1> USE NumVersionsAssumption DEF PCs
  <1>1. CASE UNCHANGED vars
    BY <1>1 DEF vars, MInv, TypeOK, RecordedWasApplied, AppliedInOrder, Progress
  <1> SUFFICES ASSUME NEW i \in Instances,
                      \/ Start(i) \/ Step(i) \/ Fails(i) \/ Crash(i)
                      \/ \E s \in Sessions : Recycle(i, s)
               PROVE  MInv'
    BY <1>1 DEF Next
  <1>t. /\ TypeOK /\ RecordedWasApplied /\ AppliedInOrder
        /\ \A j \in Instances : Progress(j)
        /\ pc \in [Instances -> PCs] /\ err \in [Instances -> BOOLEAN]
        /\ cur \in [Instances -> 1..(NumVersions + 1)]
        /\ open \in [Instances -> SUBSET Sessions]
        /\ waitOn \in [Instances -> SUBSET Sessions]
        /\ cur[i] \in 1..(NumVersions + 1)
    BY DEF MInv, TypeOK
  <1> DEFINE Frame ==
        /\ \A j \in Instances : j # i =>
              pc'[j] = pc[j] /\ cur'[j] = cur[j] /\ err'[j] = err[j]
        /\ recorded \subseteq recorded' /\ applied \subseteq applied'
  <1>f. Frame /\ Progress(i)' => \A j \in Instances : Progress(j)'
    BY <1>t, OthersKeepProgress
  <1>2. CASE Start(i)
    <2>1. TypeOK'
      BY <1>2, <1>t DEF Start, Goto, TypeOK
    <2>2. Frame /\ Progress(i)'
      BY <1>2, <1>t DEF Start, Goto, Progress
    <2>3. RecordedWasApplied' /\ AppliedInOrder'
      BY <1>2, <1>t DEF Start, RecordedWasApplied, AppliedInOrder
    <2>4. QED
      BY <1>f, <2>1, <2>2, <2>3 DEF MInv
  <1>3. CASE Lock(i)
    <2>1. TypeOK'
      BY <1>3, <1>t DEF Lock, Borrow, Goto, TypeOK
    <2>2. Frame /\ Progress(i)'
      BY <1>3, <1>t DEF Lock, Goto, Progress
    <2>3. RecordedWasApplied' /\ AppliedInOrder'
      BY <1>3, <1>t DEF Lock, RecordedWasApplied, AppliedInOrder
    <2>4. QED
      BY <1>f, <2>1, <2>2, <2>3 DEF MInv
  <1>4. CASE Granted(i)
    <2>1. TypeOK'
      <3>1. PICK s \in waitOn[i] : owner' = <<i, s>>
        BY <1>4 DEF Granted
      <3>2. s \in Sessions
        BY <1>t, <3>1
      <3>3. QED
        BY <1>4, <1>t, <3>1, <3>2 DEF Granted, Goto, TypeOK
    <2>2. Frame /\ Progress(i)'
      BY <1>4, <1>t DEF Granted, Goto, Progress
    <2>3. RecordedWasApplied' /\ AppliedInOrder'
      BY <1>4, <1>t DEF Granted, RecordedWasApplied, AppliedInOrder
    <2>4. QED
      BY <1>f, <2>1, <2>2, <2>3 DEF MInv
  <1>5. CASE Create(i)
    <2>1. TypeOK'
      BY <1>5, <1>t DEF Create, Borrow, Goto, TypeOK
    <2>2. Frame /\ Progress(i)'
      BY <1>5, <1>t DEF Create, Goto, Progress
    <2>3. RecordedWasApplied' /\ AppliedInOrder'
      BY <1>5, <1>t DEF Create, RecordedWasApplied, AppliedInOrder
    <2>4. QED
      BY <1>f, <2>1, <2>2, <2>3 DEF MInv
  <1>6. CASE Check(i)
    <2>1. TypeOK'
      <3>1. CASE cur[i] \in recorded
        BY <1>6, <1>t, <3>1 DEF Check, Borrow, TypeOK, Versions
      <3>2. CASE cur[i] \notin recorded
        BY <1>6, <1>t, <3>2 DEF Check, Borrow, Goto, TypeOK
      <3>3. QED
        BY <3>1, <3>2
    <2>2. Frame /\ Progress(i)'
      <3>1. CASE cur[i] \in recorded
        <4>1. cur'[i] = cur[i] + 1 /\ pc'[i] = "check" /\ recorded' = recorded
          BY <1>6, <1>t, <3>1 DEF Check
        <4>2. \A u \in 1..(cur'[i] - 1) : u \in recorded'
          BY <1>6, <1>t, <3>1, <4>1 DEF Check, Progress
        <4>3. Progress(i)'
          BY <4>1, <4>2 DEF Progress
        <4>4. QED
          BY <1>6, <1>t, <3>1, <4>3 DEF Check
      <3>2. CASE cur[i] \notin recorded
        BY <1>6, <1>t, <3>2 DEF Check, Goto, Progress
      <3>3. QED
        BY <3>1, <3>2
    <2>3. RecordedWasApplied' /\ AppliedInOrder'
      BY <1>6, <1>t DEF Check, RecordedWasApplied, AppliedInOrder
    <2>4. QED
      BY <1>f, <2>1, <2>2, <2>3 DEF MInv
  <1>7. CASE LoopEnds(i)
    <2>1. TypeOK'
      BY <1>7, <1>t DEF LoopEnds, Goto, TypeOK
    <2>2. Versions \subseteq recorded
      <3>1. cur[i] = NumVersions + 1
        BY <1>7, <1>t DEF LoopEnds, Versions
      <3>2. QED
        BY <1>7, <1>t, <3>1 DEF LoopEnds, Progress, Versions
    <2>3. Frame /\ Progress(i)'
      BY <1>7, <1>t, <2>2 DEF LoopEnds, Goto, Progress, Versions
    <2>4. RecordedWasApplied' /\ AppliedInOrder'
      BY <1>7, <1>t DEF LoopEnds, RecordedWasApplied, AppliedInOrder
    <2>5. QED
      BY <1>f, <2>1, <2>3, <2>4 DEF MInv
  <1>8. CASE Apply(i)
    <2>1. cur[i] \in Versions /\ \A u \in 1..(cur[i] - 1) : u \in recorded
      BY <1>8, <1>t DEF Apply, Progress
    <2>2. TypeOK'
      BY <1>8, <1>t, <2>1 DEF Apply, Borrow, Goto, TypeOK
    <2>3. Frame /\ Progress(i)'
      BY <1>8, <1>t, <2>1 DEF Apply, Goto, Progress
    <2>4. RecordedWasApplied' /\ AppliedInOrder'
      BY <1>8, <1>t, <2>1 DEF Apply, RecordedWasApplied, AppliedInOrder
    <2>5. QED
      BY <1>f, <2>2, <2>3, <2>4 DEF MInv
  <1>9. CASE Record(i)
    <2>1. /\ cur[i] \in Versions /\ cur[i] \in applied
          /\ \A u \in 1..(cur[i] - 1) : u \in recorded
      BY <1>9, <1>t DEF Record, Progress
    <2>2. CASE cur[i] \notin recorded
      <3>1. /\ recorded' = recorded \cup {cur[i]} /\ applied' = applied
            /\ cur' = [cur EXCEPT ![i] = @ + 1]
            /\ pc' = [pc EXCEPT ![i] = "check"]
            /\ err' = err /\ waitOn' = waitOn /\ owner' = owner
            /\ \E s \in Sessions : Borrow(i, s)
        BY <1>9, <2>2 DEF Record, Goto
      <3>2. TypeOK'
        <4>1. cur[i] + 1 \in 1..(NumVersions + 1)
          BY <2>1 DEF Versions
        <4>2. cur' \in [Instances -> 1..(NumVersions + 1)]
          BY <1>t, <3>1, <4>1
        <4>3. open' \in [Instances -> SUBSET Sessions]
          BY <1>t, <3>1 DEF Borrow
        <4>4. recorded' \subseteq Versions /\ applied' \subseteq Versions
          BY <1>t, <2>1, <3>1 DEF TypeOK
        <4>5. QED
          BY <1>t, <3>1, <4>2, <4>3, <4>4 DEF TypeOK
      <3>3. \A u \in 1..(cur'[i] - 1) : u \in recorded'
        BY <1>t, <2>1, <3>1
      <3>4. Frame /\ Progress(i)'
        BY <1>t, <3>1, <3>3 DEF Progress
      <3>5. RecordedWasApplied' /\ AppliedInOrder'
        BY <1>t, <2>1, <3>1 DEF RecordedWasApplied, AppliedInOrder
      <3>6. QED
        BY <1>f, <3>2, <3>4, <3>5 DEF MInv
    <2>3. CASE cur[i] \in recorded
      <3>1. /\ recorded' = recorded /\ applied' = applied /\ cur' = cur
            /\ pc' = [pc EXCEPT ![i] = "unlock"]
            /\ err' = [err EXCEPT ![i] = TRUE]
            /\ waitOn' = waitOn /\ owner' = owner
            /\ \E s \in Sessions : Borrow(i, s)
        BY <1>9, <2>3 DEF Record, Goto
      <3>2. TypeOK'
        BY <1>t, <3>1 DEF TypeOK, Borrow
      <3>3. Frame /\ Progress(i)'
        BY <1>t, <3>1 DEF Progress
      <3>4. RecordedWasApplied' /\ AppliedInOrder'
        BY <1>t, <3>1 DEF RecordedWasApplied, AppliedInOrder
      <3>5. QED
        BY <1>f, <3>2, <3>3, <3>4 DEF MInv
    <2>4. QED
      BY <2>2, <2>3
  <1>10. CASE Unlock(i)
    <2>1. TypeOK'
      BY <1>10, <1>t DEF Unlock, Borrow, Goto, TypeOK
    <2>2. Frame /\ Progress(i)'
      BY <1>10, <1>t DEF Unlock, Goto, Progress, Versions
    <2>3. RecordedWasApplied' /\ AppliedInOrder'
      BY <1>10, <1>t DEF Unlock, RecordedWasApplied, AppliedInOrder
    <2>4. QED
      BY <1>f, <2>1, <2>2, <2>3 DEF MInv
  <1>11. CASE ExitOnError(i)
    <2>1. TypeOK'
      <3>1. open[i] \in SUBSET Sessions
        BY <1>t
      <3>2. QED
        BY <1>11, <1>t, <3>1, CloseTypes DEF ExitOnError, Goto, TypeOK
    <2>2. Frame /\ Progress(i)'
      BY <1>11, <1>t DEF ExitOnError, Goto, Progress
    <2>3. RecordedWasApplied' /\ AppliedInOrder'
      BY <1>11, <1>t DEF ExitOnError, RecordedWasApplied, AppliedInOrder
    <2>4. QED
      BY <1>f, <2>1, <2>2, <2>3 DEF MInv
  <1>12. CASE Fails(i)
    <2>1. TypeOK'
      BY <1>12, <1>t DEF Fails, Goto, TypeOK
    <2>2. Frame /\ Progress(i)'
      BY <1>12, <1>t DEF Fails, Goto, Progress
    <2>3. RecordedWasApplied' /\ AppliedInOrder'
      BY <1>12, <1>t DEF Fails, RecordedWasApplied, AppliedInOrder
    <2>4. QED
      BY <1>f, <2>1, <2>2, <2>3 DEF MInv
  <1>13. CASE Crash(i)
    <2>1. TypeOK'
      <3>1. open[i] \in SUBSET Sessions
        BY <1>t
      <3>2. QED
        BY <1>13, <1>t, <3>1, CloseTypes DEF Crash, Goto, TypeOK
    <2>2. Frame /\ Progress(i)'
      BY <1>13, <1>t DEF Crash, Goto, Progress
    <2>3. RecordedWasApplied' /\ AppliedInOrder'
      BY <1>13, <1>t DEF Crash, RecordedWasApplied, AppliedInOrder
    <2>4. QED
      BY <1>f, <2>1, <2>2, <2>3 DEF MInv
  <1>14. ASSUME NEW s \in Sessions, Recycle(i, s) PROVE MInv'
    <2>1. TypeOK'
      <3>1. Close(i, {s}) /\ {s} \in SUBSET Sessions
        BY <1>14 DEF Recycle
      <3>2. QED
        BY <1>14, <1>t, <3>1, CloseTypes DEF Recycle, TypeOK
    <2>2. Frame /\ Progress(i)'
      BY <1>14, <1>t DEF Recycle, Progress
    <2>3. RecordedWasApplied' /\ AppliedInOrder'
      BY <1>14, <1>t DEF Recycle, RecordedWasApplied, AppliedInOrder
    <2>4. QED
      BY <1>f, <2>1, <2>2, <2>3 DEF MInv
  <1>15. QED
    BY <1>2, <1>3, <1>4, <1>5, <1>6, <1>7, <1>8, <1>9, <1>10, <1>11, <1>12,
       <1>13, <1>14 DEF Step

LEMMA AlwaysMInv == Spec => []MInv
    BY InitMInv, NextMInv, PTL DEF Spec

-----------------------------------------------------------------------------
(* The variables of Migrate, of the pools and of the database are typed.    *)
THEOREM TypeCorrect == Spec => []TypeOK
  <1>1. MInv => TypeOK
    BY DEF MInv
  <1>2. QED
    BY <1>1, AlwaysMInv, PTL

(* schema_migrations lists no file that was not executed.                   *)
THEOREM RecordedWasAppliedAlways == Spec => []RecordedWasApplied
  <1>1. MInv => RecordedWasApplied
    BY DEF MInv
  <1>2. QED
    BY <1>1, AlwaysMInv, PTL

(* No file is executed before all earlier ones are recorded.                *)
THEOREM AppliedInOrderAlways == Spec => []AppliedInOrder
  <1>1. MInv => AppliedInOrder
    BY DEF MInv
  <1>2. QED
    BY <1>1, AlwaysMInv, PTL

(* An instance whose Migrate returned nil serves a complete schema.         *)
THEOREM ReadyMeansMigratedAlways == Spec => []ReadyMeansMigrated
  <1>1. MInv => ReadyMeansMigrated
    BY DEF MInv, TypeOK, Progress, ReadyMeansMigrated
  <1>2. QED
    BY <1>1, AlwaysMInv, PTL
=============================================================================
