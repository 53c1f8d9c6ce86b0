----------------------------- MODULE Bottleneck -----------------------------
(***************************************************************************)
(* DetectBottlenecks of internal/mcp/server.go as an operator.  An agg is   *)
(* one row of the query of handleBottlenecks: [context, dimension, avg,     *)
(* max], in percent, or in MiB for memory.  Confidences are hundredths, as  *)
(* round2 leaves them.  The contexts that begin with "disk.util" are one.   *)
(***************************************************************************)
EXTENDS Naturals, SequencesExt

Capped(c) == IF c > 100 THEN 100 ELSE c           \* math.Min(1.0, c)

\* The rows of a context, by position, and those of one of its dimensions.
Rows(aggs, ctx) == {i \in 1..Len(aggs) : aggs[i].context = ctx}
RowsOf(aggs, ctx, dim) == {i \in Rows(aggs, ctx) : aggs[i].dimension = dim}

\* "+=" and the running maximum of the loop, and an assignment that keeps the
\* last row's value; zero where there is no row.
Total(terms) ==
    LET sum[i \in 0..Len(terms)] == IF i = 0 THEN 0 ELSE sum[i - 1] + terms[i]
    IN  sum[Len(terms)]
SumAvg(aggs, rows) == Total([i \in 1..Len(aggs) |-> IF i \in rows THEN aggs[i].avg ELSE 0])
MaxMax(aggs, rows) == Max({0} \cup {aggs[i].max : i \in rows})
LastRow(aggs, rows) == IF rows = {} THEN [avg |-> 0, max |-> 0] ELSE aggs[Max(rows)]

CPUCandidate(aggs) ==
    LET busy == Rows(aggs, "system.cpu") \ RowsOf(aggs, "system.cpu", "idle")
        avg == SumAvg(aggs, busy)
        max == MaxMax(aggs, busy)
    IN  IF avg > 80 \/ max > 95
        THEN <<[type |-> "cpu", confidence |-> Capped((6 * (avg + max) + 5) \div 10)]>>
        ELSE <<>>

RAMCandidate(aggs) ==
    LET used == LastRow(aggs, RowsOf(aggs, "system.ram", "used"))
        swap == LastRow(aggs, RowsOf(aggs, "system.swap", "used")).avg
    IN  IF used.max > 0 /\ (swap > 100 \/ 10 * used.avg > 9 * used.max)
        THEN <<[type |-> "ram", confidence |-> IF swap > 500 THEN 90 ELSE 60]>>
        ELSE <<>>

\* (util/100 + iowait/20) / 2 * 1.3.  The inputs of the runs avoid exact
\* halves, where floating point may round either way.
DiskCandidate(aggs) ==
    LET disk == Rows(aggs, "disk.util")
        util == MaxMax(aggs, disk)
        iowait == LastRow(aggs, RowsOf(aggs, "system.cpu", "iowait")).avg
    IN  IF (disk # {} \/ iowait > 5) /\ (util > 80 \/ iowait > 10)
        THEN <<[type |-> "disk",
                confidence |-> Capped((65 * util + 325 * iowait + 50) \div 100)]>>
        ELSE <<>>

Bug_PicksLowest(aggs) ==
    LET found == CPUCandidate(aggs) \o RAMCandidate(aggs) \o DiskCandidate(aggs)
        best == SelectInSeq(found, LAMBDA c : \A i \in 1..Len(found) :
                                       found[i].confidence >= c.confidence)
    IN  IF found = <<>> THEN [type |-> "none", confidence |-> 90] ELSE found[best]

\* The first candidate of highest confidence: sort.Slice keeps the order of
\* equals for so few elements.
DetectBottlenecks(aggs) ==
    LET found == CPUCandidate(aggs) \o RAMCandidate(aggs) \o DiskCandidate(aggs)
        best == SelectInSeq(found, LAMBDA c : \A i \in 1..Len(found) :
                                       found[i].confidence <= c.confidence)
    IN  IF found = <<>> THEN [type |-> "none", confidence |-> 90] ELSE found[best]
=============================================================================
