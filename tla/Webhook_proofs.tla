--------------------------- MODULE Webhook_proofs ---------------------------
(***************************************************************************)
(* DetectBottlenecks for every list of aggregates: what it answers, and     *)
(* that it is monotone.  The notifier for every set of nodes, every list of *)
(* webhooks and every default: the spacing of what a webhook is told, and   *)
(* that a failed send silences nobody.                                      *)
(***************************************************************************)
EXTENDS Webhook, TLAPS, WellFoundedInduction

(* A set of numbers has a least one.  The library's induction theorems take *)
(* an operator, which the provers cannot instantiate; its theorem on        *)
(* minimal elements takes a set, and is as good.                            *)
LEMMA LeastNumber ==
    ASSUME NEW T, T \subseteq Nat, T # {}
    PROVE  \E m \in T : \A k \in T : m <= k
  <1> DEFINE R == OpToRel(<, Nat)
  <1>1. IsWellFoundedOn(R, Nat)
    BY NatLessThanWellFounded
  <1>2. \A x \in Nat, y \in Nat : x < y => <<x, y>> \in R
    BY DEF OpToRel
  <1> HIDE DEF R
  <1>3. PICK m \in T : \A k \in T : ~(<<k, m>> \in R)
    BY <1>1, WFMin
  <1>4. m \in Nat /\ \A k \in T : k \in Nat /\ ~(k < m)
    BY <1>2, <1>3
  <1>5. QED
    BY <1>4

(* Induction, for the property of being in T.                               *)
LEMMA SetInduction ==
    ASSUME NEW T, 0 \in T, \A n \in Nat : n \in T => n + 1 \in T
    PROVE  \A n \in Nat : n \in T
  <1> SUFFICES ASSUME Nat \ T # {} PROVE FALSE
    OBVIOUS
  <1>1. Nat \ T \subseteq Nat
    OBVIOUS
  <1>2. PICK m \in Nat \ T : \A k \in Nat \ T : m <= k
    BY <1>1, LeastNumber
  <1>3. m # 0 /\ m - 1 \in Nat /\ m - 1 \in T
    BY <1>2
  <1>4. QED
    BY <1>2, <1>3

(* A bounded set of integers has a greatest member, and Max is it.          *)
LEMMA MaxFacts ==
    ASSUME NEW S, S \subseteq Int, S # {},
           NEW b \in Int, \A x \in S : x <= b
    PROVE  Max(S) \in S /\ \A x \in S : x <= Max(S)
  <1> DEFINE T == {b - x : x \in S}
  <1>1. T \subseteq Nat /\ T # {}
    <2>1. \A x \in S : b - x \in Nat
      OBVIOUS
    <2>2. QED
      BY <2>1
  <1>2. PICK m \in T : \A k \in T : m <= k
    BY <1>1, LeastNumber
  <1>3. PICK x \in S : m = b - x
    BY <1>2
  <1>4. \A y \in S : x >= y
    BY <1>2, <1>3
  <1>5. QED
    BY <1>3, <1>4 DEF Max

LEMMA MinFacts ==
    ASSUME NEW S, S \subseteq Nat, S # {}
    PROVE  Min(S) \in S
  BY LeastNumber DEF Min

(* The sum that Total builds up along g, and the equation it is chosen by.  *)
SumsUp(f, n, g) == f = [i \in 0..n |-> IF i = 0 THEN 0 ELSE f[i - 1] + g[i]]
Running(n, g) == CHOOSE f : SumsUp(f, n, g)

(* The equation has a solution, so Running is one.                          *)
LEMMA RunningSum ==
    ASSUME NEW n \in Nat, NEW g \in [1..n -> Int]
    PROVE  SumsUp(Running(n, g), n, g)
  <1> DEFINE Solved(k) == k <= n => \E f \in [0..k -> Int] : SumsUp(f, k, g)
             T == {k \in Nat : Solved(k)}
  <1>1. Solved(0)
    <2> DEFINE f == [i \in 0..0 |-> 0]
    <2>1. f \in [0..0 -> Int] /\ SumsUp(f, 0, g)
      BY DEF SumsUp
    <2>2. QED
      BY <2>1
  <1>2. ASSUME NEW k \in Nat, Solved(k) PROVE Solved(k + 1)
    <2> SUFFICES ASSUME k + 1 <= n PROVE \E f \in [0..(k+1) -> Int] : SumsUp(f, k + 1, g)
      OBVIOUS
    <2>1. PICK f \in [0..k -> Int] : SumsUp(f, k, g)
      BY <1>2
    <2> DEFINE h == [i \in 0..(k+1) |-> IF i = k + 1 THEN f[k] + g[k + 1] ELSE f[i]]
    <2>2. k + 1 \in 1..n /\ g[k + 1] \in Int
      OBVIOUS
    <2>3. h \in [0..(k+1) -> Int]
      BY <2>2
    <2>4. \A i \in 0..(k+1) : h[i] = IF i = 0 THEN 0 ELSE h[i - 1] + g[i]
      <3> SUFFICES ASSUME NEW i \in 0..(k+1)
                   PROVE  h[i] = IF i = 0 THEN 0 ELSE h[i - 1] + g[i]
        OBVIOUS
      <3>1. CASE i = k + 1
        BY <3>1
      <3>2. CASE i # k + 1
        <4>1. i \in 0..k /\ h[i] = f[i] /\ f[i] = IF i = 0 THEN 0 ELSE f[i - 1] + g[i]
          BY <2>1, <3>2 DEF SumsUp
        <4>2. i # 0 => i - 1 \in 0..k /\ h[i - 1] = f[i - 1]
          BY <3>2
        <4> HIDE DEF h
        <4>3. QED
          BY <4>1, <4>2
      <3>3. QED
        BY <3>1, <3>2
    <2>5. SumsUp(h, k + 1, g)
      BY <2>3, <2>4 DEF SumsUp
    <2> HIDE DEF h
    <2>6. QED
      BY <2>3, <2>5
  <1> HIDE DEF Solved
  <1>3. 0 \in T /\ \A k \in Nat : k \in T => k + 1 \in T
    BY <1>1, <1>2
  <1> HIDE DEF T
  <1>4. n \in T
    BY <1>3, SetInduction
  <1>5. \E f : SumsUp(f, n, g)
    BY <1>4 DEF T, Solved
  <1>6. QED
    BY <1>5, Zenon DEF Running

(* And every solution adds up integers, row by row.                         *)
LEMMA RunningSteps ==
    ASSUME NEW n \in Nat, NEW g \in [1..n -> Int], NEW s, SumsUp(s, n, g)
    PROVE  /\ s \in [0..n -> Int]
           /\ s[0] = 0
           /\ \A i \in 1..n : s[i] = s[i - 1] + g[i]
  <1>1. /\ s = [i \in 0..n |-> IF i = 0 THEN 0 ELSE s[i - 1] + g[i]]
        /\ s[0] = 0
        /\ \A i \in 1..n : s[i] = s[i - 1] + g[i]
    BY DEF SumsUp
  <1> DEFINE T == {k \in Nat : k <= n => s[k] \in Int}
  <1>2. 0 \in T
    BY <1>1
  <1>3. ASSUME NEW k \in Nat, k \in T PROVE k + 1 \in T
    <2> SUFFICES ASSUME k + 1 <= n PROVE s[k + 1] \in Int
      OBVIOUS
    <2>1. s[k] \in Int /\ k + 1 \in 1..n /\ (k + 1) - 1 = k
      BY <1>3
    <2>2. QED
      BY <1>1, <2>1
  <1> HIDE DEF T
  <1>4. \A k \in Nat : k \in T
    BY <1>2, <1>3, SetInduction
  <1>5. \A k \in 0..n : s[k] \in Int
    BY <1>4 DEF T
  <1>6. QED
    BY <1>1, <1>5

(* So Total is where the running sum ends.                                  *)
LEMMA TotalSteps ==
    ASSUME NEW t \in Seq(Int)
    PROVE  \E s \in [0..Len(t) -> Int] :
             /\ Total(t) = s[Len(t)] /\ s[0] = 0
             /\ \A i \in 1..Len(t) : s[i] = s[i - 1] + t[i]
  <1>1. Len(t) \in Nat /\ t \in [1..Len(t) -> Int]
    OBVIOUS
  <1>2. Total(t) = Running(Len(t), t)[Len(t)]
    BY Zenon DEF Total, Running, SumsUp
  <1>3. SumsUp(Running(Len(t), t), Len(t), t)
    BY <1>1, RunningSum
  <1> DEFINE s == Running(Len(t), t)
  <1> HIDE DEF s
  <1>4. /\ s \in [0..Len(t) -> Int] /\ s[0] = 0
        /\ \A i \in 1..Len(t) : s[i] = s[i - 1] + t[i]
    BY <1>1, <1>3, RunningSteps DEF s
  <1>5. Total(t) = s[Len(t)]
    BY <1>2 DEF s
  <1>6. QED
    BY <1>4, <1>5

(* More in every row is more in total.                                      *)
LEMMA TotalMonotone ==
    ASSUME NEW t \in Seq(Int), NEW u \in Seq(Int), Len(t) = Len(u),
           \A i \in 1..Len(t) : t[i] <= u[i]
    PROVE  Total(t) \in Int /\ Total(u) \in Int /\ Total(t) <= Total(u)
  <1> DEFINE n == Len(t)
  <1>1. PICK r \in [0..n -> Int] : /\ Total(t) = r[n] /\ r[0] = 0
                                   /\ \A i \in 1..n : r[i] = r[i - 1] + t[i]
    BY TotalSteps
  <1>2. PICK s \in [0..n -> Int] : /\ Total(u) = s[n] /\ s[0] = 0
                                   /\ \A i \in 1..n : s[i] = s[i - 1] + u[i]
    BY TotalSteps
  <1>3. /\ n \in Nat
        /\ \A i \in 1..n : t[i] \in Int /\ u[i] \in Int /\ t[i] <= u[i]
    OBVIOUS
  <1> HIDE DEF n
  <1> DEFINE T == {k \in Nat : k <= n => r[k] <= s[k]}
  <1>4. 0 \in T
    BY <1>1, <1>2
  <1>5. ASSUME NEW k \in Nat, k \in T PROVE k + 1 \in T
    <2> SUFFICES ASSUME k + 1 <= n PROVE r[k + 1] <= s[k + 1]
      OBVIOUS
    <2>1. k \in 0..n /\ k + 1 \in 1..n /\ (k + 1) - 1 = k /\ r[k] <= s[k]
      BY <1>3, <1>5
    <2>2. r[k] \in Int /\ s[k] \in Int
      BY <2>1
    <2>3. r[k + 1] = r[k] + t[k + 1] /\ s[k + 1] = s[k] + u[k + 1]
      BY <1>1, <1>2, <2>1
    <2>4. t[k + 1] \in Int /\ u[k + 1] \in Int /\ t[k + 1] <= u[k + 1]
      BY <1>3, <2>1
    <2>5. QED
      BY <2>1, <2>2, <2>3, <2>4
  <1> HIDE DEF T
  <1>6. n \in T
    BY <1>3, <1>4, <1>5, SetInduction
  <1>7. r[n] <= s[n] /\ r[n] \in Int /\ s[n] \in Int
    BY <1>3, <1>6 DEF T
  <1>8. QED
    BY <1>1, <1>2, <1>7

-----------------------------------------------------------------------------
Row == [context : STRING, dimension : STRING, avg : Int, max : Int]
Aggs == Seq(Row)

LEMMA RowTypes ==
    ASSUME NEW a \in Aggs, NEW i \in 1..Len(a)
    PROVE  /\ a[i].context \in STRING /\ a[i].dimension \in STRING
           /\ a[i].avg \in Int /\ a[i].max \in Int
  <1>1. a[i] \in Row
    BY DEF Aggs
  <1>2. QED
    BY <1>1 DEF Row

(* The peaks of finitely many rows have a bound.                            *)
LEMMA Bounded ==
    ASSUME NEW a \in Aggs
    PROVE  \E b \in Int : 0 <= b /\ \A i \in 1..Len(a) : a[i].max <= b
  <1> DEFINE Bound(k) == k <= Len(a)
                          => \E b \in Int : 0 <= b /\ \A i \in 1..k : a[i].max <= b
             T == {k \in Nat : Bound(k)}
  <1>1. Len(a) \in Nat
    BY DEF Aggs
  <1>2. Bound(0)
    OBVIOUS
  <1>3. ASSUME NEW k \in Nat, Bound(k) PROVE Bound(k + 1)
    <2> SUFFICES ASSUME k + 1 <= Len(a)
                 PROVE  \E b \in Int : 0 <= b /\ \A i \in 1..(k + 1) : a[i].max <= b
      OBVIOUS
    <2>1. PICK b \in Int : 0 <= b /\ \A i \in 1..k : a[i].max <= b
      BY <1>1, <1>3
    <2>2. \A i \in 1..(k + 1) : a[i].max \in Int /\ (i \in 1..k \/ i = k + 1)
      BY <1>1, RowTypes
    <2>3. k + 1 \in 1..(k + 1)
      OBVIOUS
    <2>4. CASE a[k + 1].max <= b
      BY <2>1, <2>2, <2>4
    <2>5. CASE ~(a[k + 1].max <= b)
      <3> DEFINE c == a[k + 1].max
      <3>1. c \in Int /\ b < c
        BY <2>2, <2>3, <2>5
      <3>2. \A i \in 1..(k + 1) : a[i].max <= c
        BY <2>1, <2>2, <3>1
      <3> HIDE DEF c
      <3>3. QED
        BY <2>1, <3>1, <3>2
    <2>6. QED
      BY <2>4, <2>5
  <1> HIDE DEF Bound
  <1>4. 0 \in T /\ \A k \in Nat : k \in T => k + 1 \in T
    BY <1>2, <1>3
  <1> HIDE DEF T
  <1>5. Len(a) \in T
    BY <1>1, <1>4, SetInduction
  <1>6. QED
    BY <1>1, <1>5 DEF T, Bound

(* The running maximum is one of the peaks or zero, and no peak is higher.  *)
LEMMA MaxMaxFacts ==
    ASSUME NEW a \in Aggs, NEW rows, rows \subseteq 1..Len(a)
    PROVE  /\ MaxMax(a, rows) \in Int /\ 0 <= MaxMax(a, rows)
           /\ MaxMax(a, rows) = 0 \/ \E i \in rows : MaxMax(a, rows) = a[i].max
           /\ \A i \in rows : a[i].max <= MaxMax(a, rows)
  <1> DEFINE S == {0} \cup {a[i].max : i \in rows}
  <1>1. PICK b \in Int : 0 <= b /\ \A i \in 1..Len(a) : a[i].max <= b
    BY Bounded
  <1>2. S \subseteq Int /\ S # {} /\ \A x \in S : x <= b
    BY <1>1, RowTypes
  <1>3. MaxMax(a, rows) = Max(S)
    BY DEF MaxMax
  <1>4. Max(S) \in S /\ \A x \in S : x <= Max(S)
    <2> HIDE DEF S
    <2>1. QED
      BY <1>2, MaxFacts
  <1>5. QED
    BY <1>2, <1>3, <1>4

LEMMA MaxMaxMonotone ==
    ASSUME NEW a \in Aggs, NEW b \in Aggs, Len(a) = Len(b),
           NEW rows, rows \subseteq 1..Len(a),
           \A i \in rows : a[i].max <= b[i].max
    PROVE  MaxMax(a, rows) <= MaxMax(b, rows)
  <1>1. \A i \in rows : a[i].max \in Int /\ b[i].max \in Int
    BY RowTypes
  <1>2. /\ MaxMax(a, rows) \in Int /\ MaxMax(b, rows) \in Int /\ 0 <= MaxMax(b, rows)
        /\ MaxMax(a, rows) = 0 \/ \E i \in rows : MaxMax(a, rows) = a[i].max
        /\ \A i \in rows : b[i].max <= MaxMax(b, rows)
    BY MaxMaxFacts
  <1>3. CASE MaxMax(a, rows) = 0
    BY <1>2, <1>3
  <1>4. CASE \E i \in rows : MaxMax(a, rows) = a[i].max
    <2>1. PICK i \in rows : MaxMax(a, rows) = a[i].max
      BY <1>4
    <2>2. a[i].max <= b[i].max /\ b[i].max <= MaxMax(b, rows)
      BY <1>2
    <2>3. QED
      BY <1>1, <1>2, <2>1, <2>2
  <1>5. QED
    BY <1>2, <1>3, <1>4

LEMMA SumMonotone ==
    ASSUME NEW a \in Aggs, NEW b \in Aggs, Len(a) = Len(b),
           NEW rows, rows \subseteq 1..Len(a),
           \A i \in rows : a[i].avg <= b[i].avg
    PROVE  /\ SumAvg(a, rows) \in Int /\ SumAvg(b, rows) \in Int
           /\ SumAvg(a, rows) <= SumAvg(b, rows)
  <1> DEFINE t == [i \in 1..Len(a) |-> IF i \in rows THEN a[i].avg ELSE 0]
             u == [i \in 1..Len(b) |-> IF i \in rows THEN b[i].avg ELSE 0]
  <1>1. Len(a) \in Nat /\ \A i \in 1..Len(a) : a[i].avg \in Int /\ b[i].avg \in Int
    BY RowTypes DEF Aggs
  <1>2. t \in Seq(Int) /\ u \in Seq(Int) /\ Len(t) = Len(a) /\ Len(u) = Len(a)
    BY <1>1
  <1>3. \A i \in 1..Len(a) : t[i] <= u[i]
    BY <1>1
  <1>4. SumAvg(a, rows) = Total(t) /\ SumAvg(b, rows) = Total(u)
    BY DEF SumAvg
  <1> HIDE DEF t, u
  <1>5. QED
    BY <1>2, <1>3, <1>4, TotalMonotone

(* LastRow reads one of its rows, the same one of two loads of one shape.   *)
LEMMA LastRowFacts ==
    ASSUME NEW a \in Aggs, NEW rows, rows \subseteq 1..Len(a), rows # {}
    PROVE  Max(rows) \in rows /\ LastRow(a, rows) = a[Max(rows)]
  <1>1. Len(a) \in Int /\ rows \subseteq Int /\ \A i \in rows : i <= Len(a)
    BY DEF Aggs
  <1>2. QED
    BY <1>1, MaxFacts DEF LastRow

-----------------------------------------------------------------------------
(* A candidate list: empty, or one candidate of its type.                   *)
Candidate(s, type) ==
    s = <<>> \/ \E c \in Int : c <= 100 /\ s = <<[type |-> type, confidence |-> c]>>

(* What was a candidate still is, with no less confidence.                  *)
Grows(s, t) == s # <<>> => t # <<>> /\ s[1].confidence <= t[1].confidence

LEMMA CappedFacts ==
    ASSUME NEW c \in Int
    PROVE  /\ Capped(c) \in Int /\ Capped(c) <= 100
           /\ \A d \in Int : c <= d => Capped(c) <= Capped(d)
  BY DEF Capped

LEMMA RowsFacts ==
    ASSUME NEW a, NEW ctx
    PROVE  /\ Rows(a, ctx) \subseteq 1..Len(a)
           /\ \A dim : RowsOf(a, ctx, dim) \subseteq Rows(a, ctx)
           /\ \A i \in Rows(a, ctx) : a[i].context = ctx
  BY DEF Rows, RowsOf

LEMMA SameRows ==
    ASSUME NEW a, NEW b, Heavier(a, b), NEW ctx
    PROVE  /\ Rows(a, ctx) = Rows(b, ctx)
           /\ \A dim : RowsOf(a, ctx, dim) = RowsOf(b, ctx, dim)
  <1>1. /\ Len(a) = Len(b)
        /\ \A i \in 1..Len(a) : /\ a[i].context = b[i].context
                                /\ a[i].dimension = b[i].dimension
    BY DEF Heavier
  <1>2. Rows(a, ctx) = Rows(b, ctx)
    BY <1>1 DEF Rows
  <1>3. QED
    BY <1>1, <1>2, RowsFacts DEF RowsOf

LEMMA CPUCandidateFacts ==
    ASSUME NEW a \in Aggs
    PROVE  /\ Candidate(CPUCandidate(a), "cpu")
           /\ \A b \in Aggs : Heavier(a, b) => Grows(CPUCandidate(a), CPUCandidate(b))
  <1> DEFINE Busy(x) == Rows(x, "system.cpu") \ RowsOf(x, "system.cpu", "idle")
             Avg(x) == SumAvg(x, Busy(x))
             Peak(x) == MaxMax(x, Busy(x))
             Conf(x) == Capped((6 * (Avg(x) + Peak(x)) + 5) \div 10)
             High(x) == Avg(x) > 80 \/ Peak(x) > 95
  <1>1. ASSUME NEW x \in Aggs
        PROVE  /\ Busy(x) \subseteq 1..Len(x)
               /\ Avg(x) \in Int /\ Peak(x) \in Int
               /\ CPUCandidate(x) = IF High(x)
                    THEN <<[type |-> "cpu", confidence |-> Conf(x)]>> ELSE <<>>
    <2>1. Busy(x) \subseteq 1..Len(x)
      BY RowsFacts
    <2>2. \A i \in Busy(x) : x[i].avg <= x[i].avg
      BY <2>1, RowTypes
    <2>3. CPUCandidate(x) = IF High(x)
                    THEN <<[type |-> "cpu", confidence |-> Conf(x)]>> ELSE <<>>
      BY DEF CPUCandidate
    <2> HIDE DEF Busy
    <2>4. Avg(x) \in Int /\ Peak(x) \in Int
      BY <2>1, <2>2, SumMonotone, MaxMaxFacts
    <2>5. QED
      BY <2>1, <2>3, <2>4
  <1>2. ASSUME NEW b \in Aggs, Heavier(a, b)
        PROVE  Avg(a) <= Avg(b) /\ Peak(a) <= Peak(b)
    <2>1. Len(a) = Len(b) /\ Busy(b) = Busy(a)
      BY <1>2, SameRows DEF Heavier
    <2>2. \A i \in Busy(a) : a[i].avg <= b[i].avg /\ a[i].max <= b[i].max
      <3> SUFFICES ASSUME NEW i \in Busy(a)
                   PROVE  a[i].avg <= b[i].avg /\ a[i].max <= b[i].max
        OBVIOUS
      <3>1. i \in 1..Len(a) /\ a[i].context = "system.cpu"
        BY RowsFacts
      <3>2. QED
        BY <1>2, <3>1 DEF Heavier
    <2>3. Busy(a) \subseteq 1..Len(a)
      BY RowsFacts
    <2> HIDE DEF Busy
    <2>4. QED
      BY <2>1, <2>2, <2>3, SumMonotone, MaxMaxMonotone
  <1> HIDE DEF Avg, Peak
  <1>3. Candidate(CPUCandidate(a), "cpu")
    <2>1. Conf(a) \in Int /\ Conf(a) <= 100
      BY <1>1, CappedFacts
    <2> HIDE DEF High, Conf
    <2>2. QED
      BY <1>1, <2>1 DEF Candidate
  <1>4. ASSUME NEW b \in Aggs, Heavier(a, b)
        PROVE  Grows(CPUCandidate(a), CPUCandidate(b))
    <2>1. /\ Avg(a) \in Int /\ Peak(a) \in Int /\ Avg(b) \in Int /\ Peak(b) \in Int
          /\ Avg(a) <= Avg(b) /\ Peak(a) <= Peak(b)
      BY <1>1, <1>2, <1>4
    <2>2. /\ (6 * (Avg(a) + Peak(a)) + 5) \div 10 \in Int
          /\ (6 * (Avg(b) + Peak(b)) + 5) \div 10 \in Int
          /\ (6 * (Avg(a) + Peak(a)) + 5) \div 10 <= (6 * (Avg(b) + Peak(b)) + 5) \div 10
      BY <2>1
    <2>3. Conf(a) <= Conf(b)
      BY <2>2, CappedFacts
    <2>4. High(a) => High(b)
      BY <2>1
    <2> HIDE DEF High, Conf
    <2>5. QED
      BY <1>1, <2>3, <2>4 DEF Grows
  <1>5. QED
    BY <1>3, <1>4

(* A heavier load has the same memory, and no less swap, iowait or disk.    *)
LEMMA LastMonotone ==
    ASSUME NEW a \in Aggs, NEW b \in Aggs, Heavier(a, b), NEW ctx, NEW dim
    PROVE  LET p == LastRow(a, RowsOf(a, ctx, dim))
               q == LastRow(b, RowsOf(b, ctx, dim))
           IN  /\ p.avg \in Int /\ p.max \in Int /\ q.avg \in Int /\ q.max \in Int
               /\ ctx = "system.ram" => p = q
               /\ ctx # "system.ram" => p.avg <= q.avg /\ p.max <= q.max
  <1> DEFINE rows == RowsOf(a, ctx, dim)
             p == LastRow(a, rows)
             q == LastRow(b, rows)
  <1>1. RowsOf(b, ctx, dim) = rows /\ Len(a) = Len(b)
    <2>1. RowsOf(b, ctx, dim) = rows
      BY SameRows
    <2>2. Len(a) = Len(b)
      BY DEF Heavier
    <2>3. QED
      BY <2>1, <2>2
  <1>2. rows \subseteq 1..Len(a) /\ \A i \in rows : a[i].context = ctx
    <2>1. rows \subseteq Rows(a, ctx)
      BY RowsFacts
    <2> HIDE DEF rows
    <2>2. QED
      BY <2>1, RowsFacts
  <1>3. /\ p.avg \in Int /\ p.max \in Int /\ q.avg \in Int /\ q.max \in Int
        /\ ctx = "system.ram" => p = q
        /\ ctx # "system.ram" => p.avg <= q.avg /\ p.max <= q.max
    <2>1. CASE rows = {}
      <3>1. p = [avg |-> 0, max |-> 0] /\ q = [avg |-> 0, max |-> 0]
        BY <2>1 DEF LastRow
      <3>2. QED
        BY <3>1
    <2>2. CASE rows # {}
      <3>1. PICK i \in rows : p = a[i] /\ q = b[i]
        <4> HIDE DEF rows
        <4>1. Max(rows) \in rows /\ p = a[Max(rows)] /\ q = b[Max(rows)]
          BY <1>1, <1>2, <2>2, LastRowFacts
        <4>2. QED
          BY <4>1
      <3>2. i \in 1..Len(a) /\ i \in 1..Len(b) /\ a[i].context = ctx
        BY <1>1, <1>2
      <3>3. /\ a[i].avg \in Int /\ a[i].max \in Int
            /\ b[i].avg \in Int /\ b[i].max \in Int
        BY <3>2, RowTypes
      <3>4. IF ctx = "system.ram" THEN a[i] = b[i]
            ELSE a[i].avg <= b[i].avg /\ a[i].max <= b[i].max
        BY <3>2 DEF Heavier
      <3>5. QED
        BY <3>1, <3>3, <3>4
    <2>3. QED
      BY <2>1, <2>2
  <1>4. QED
    BY <1>1, <1>3

(* Every load is as heavy as itself.                                        *)
LEMMA SelfHeavier == ASSUME NEW a \in Aggs PROVE Heavier(a, a)
  BY RowTypes DEF Heavier

LEMMA RAMCandidateFacts ==
    ASSUME NEW a \in Aggs
    PROVE  /\ Candidate(RAMCandidate(a), "ram")
           /\ \A b \in Aggs : Heavier(a, b) => Grows(RAMCandidate(a), RAMCandidate(b))
  <1> DEFINE Used(x) == LastRow(x, RowsOf(x, "system.ram", "used"))
             Swap(x) == LastRow(x, RowsOf(x, "system.swap", "used")).avg
             High(x) == Used(x).max > 0
                        /\ (Swap(x) > 100 \/ 10 * Used(x).avg > 9 * Used(x).max)
             Conf(x) == IF Swap(x) > 500 THEN 90 ELSE 60
  <1>1. ASSUME NEW x
        PROVE  RAMCandidate(x) = IF High(x)
                 THEN <<[type |-> "ram", confidence |-> Conf(x)]>> ELSE <<>>
    BY DEF RAMCandidate
  <1>2. ASSUME NEW b \in Aggs, Heavier(a, b)
        PROVE  /\ Used(a) = Used(b) /\ Used(a).avg \in Int /\ Used(a).max \in Int
               /\ Swap(a) \in Int /\ Swap(b) \in Int /\ Swap(a) <= Swap(b)
    <2>1. Used(a) = Used(b) /\ Used(a).avg \in Int /\ Used(a).max \in Int
      BY <1>2, LastMonotone
    <2>2. Swap(a) \in Int /\ Swap(b) \in Int /\ Swap(a) <= Swap(b)
      BY <1>2, LastMonotone
    <2>3. QED
      BY <2>1, <2>2
  <1> HIDE DEF Used, Swap
  <1>3. Candidate(RAMCandidate(a), "ram")
    <2>1. Conf(a) \in Int /\ Conf(a) <= 100
      BY <1>2, SelfHeavier
    <2> HIDE DEF High, Conf
    <2>2. QED
      BY <1>1, <2>1 DEF Candidate
  <1>4. ASSUME NEW b \in Aggs, Heavier(a, b)
        PROVE  Grows(RAMCandidate(a), RAMCandidate(b))
    <2>1. (High(a) => High(b)) /\ Conf(a) <= Conf(b)
      BY <1>2, <1>4
    <2> HIDE DEF High, Conf
    <2>2. QED
      BY <1>1, <2>1 DEF Grows
  <1>5. QED
    BY <1>3, <1>4

LEMMA DiskCandidateFacts ==
    ASSUME NEW a \in Aggs
    PROVE  /\ Candidate(DiskCandidate(a), "disk")
           /\ \A b \in Aggs : Heavier(a, b) => Grows(DiskCandidate(a), DiskCandidate(b))
  <1> DEFINE Disk(x) == Rows(x, "disk.util")
             Util(x) == MaxMax(x, Disk(x))
             Wait(x) == LastRow(x, RowsOf(x, "system.cpu", "iowait")).avg
             High(x) == (Disk(x) # {} \/ Wait(x) > 5) /\ (Util(x) > 80 \/ Wait(x) > 10)
             Conf(x) == Capped((65 * Util(x) + 325 * Wait(x) + 50) \div 100)
  <1>1. ASSUME NEW x
        PROVE  DiskCandidate(x) = IF High(x)
                 THEN <<[type |-> "disk", confidence |-> Conf(x)]>> ELSE <<>>
    BY DEF DiskCandidate
  <1>2. ASSUME NEW b \in Aggs, Heavier(a, b)
        PROVE  /\ Disk(a) = Disk(b)
               /\ Util(a) \in Int /\ Util(b) \in Int /\ Util(a) <= Util(b)
               /\ Wait(a) \in Int /\ Wait(b) \in Int /\ Wait(a) <= Wait(b)
    <2>1. Wait(a) \in Int /\ Wait(b) \in Int /\ Wait(a) <= Wait(b)
      BY <1>2, LastMonotone
    <2>2. Len(a) = Len(b) /\ Disk(a) = Disk(b) /\ Disk(a) \subseteq 1..Len(a)
      BY <1>2, SameRows, RowsFacts DEF Heavier
    <2>3. \A i \in Disk(a) : a[i].context = "disk.util"
      BY RowsFacts
    <2>4. \A i \in Disk(a) : a[i].max <= b[i].max
      BY <1>2, <2>2, <2>3 DEF Heavier
    <2> HIDE DEF Disk
    <2>5. Util(a) \in Int /\ Util(b) \in Int /\ Util(a) <= Util(b)
      BY <2>2, <2>4, MaxMaxFacts, MaxMaxMonotone
    <2>6. QED
      BY <2>1, <2>2, <2>5
  <1> HIDE DEF Disk, Util, Wait
  <1>3. Candidate(DiskCandidate(a), "disk")
    <2>1. Util(a) \in Int /\ Wait(a) \in Int
      BY <1>2, SelfHeavier
    <2>2. Conf(a) \in Int /\ Conf(a) <= 100
      BY <2>1, CappedFacts
    <2> HIDE DEF High, Conf
    <2>3. QED
      BY <1>1, <2>2 DEF Candidate
  <1>4. ASSUME NEW b \in Aggs, Heavier(a, b)
        PROVE  Grows(DiskCandidate(a), DiskCandidate(b))
    <2>1. High(a) => High(b)
      BY <1>2, <1>4
    <2> DEFINE c(x) == (65 * Util(x) + 325 * Wait(x) + 50) \div 100
    <2>2. c(a) \in Int /\ c(b) \in Int /\ c(a) <= c(b)
      BY <1>2, <1>4
    <2>3. Conf(a) <= Conf(b)
      BY <2>2, CappedFacts
    <2> HIDE DEF High, Conf
    <2>4. QED
      BY <1>1, <2>1, <2>3 DEF Grows
  <1>5. QED
    BY <1>3, <1>4

-----------------------------------------------------------------------------
(* What is in one of two lists is in their concatenation, and conversely.   *)
In(x, s) == \E i \in 1..Len(s) : s[i] = x

LEMMA InConcat ==
    ASSUME NEW S, NEW s \in Seq(S), NEW t \in Seq(S), NEW x
    PROVE  s \o t \in Seq(S) /\ (In(x, s \o t) <=> In(x, s) \/ In(x, t))
  <1>1. /\ s \o t \in Seq(S) /\ Len(s) \in Nat /\ Len(t) \in Nat
        /\ Len(s \o t) = Len(s) + Len(t)
        /\ \A i \in 1..(Len(s) + Len(t)) :
             (s \o t)[i] = IF i <= Len(s) THEN s[i] ELSE t[i - Len(s)]
    OBVIOUS
  <1>2. ASSUME In(x, s \o t) PROVE In(x, s) \/ In(x, t)
    <2>1. PICK i \in 1..(Len(s) + Len(t)) : (s \o t)[i] = x
      BY <1>1, <1>2 DEF In
    <2>2. CASE i <= Len(s)
      <3>1. i \in 1..Len(s) /\ s[i] = x
        BY <1>1, <2>1, <2>2
      <3>2. QED
        BY <3>1 DEF In
    <2>3. CASE ~(i <= Len(s))
      <3>1. i - Len(s) \in 1..Len(t) /\ t[i - Len(s)] = x
        BY <1>1, <2>1, <2>3
      <3>2. QED
        BY <3>1 DEF In
    <2>4. QED
      BY <2>2, <2>3
  <1>3. ASSUME In(x, s) PROVE In(x, s \o t)
    <2>1. PICK i \in 1..Len(s) : s[i] = x
      BY <1>3 DEF In
    <2>2. i \in 1..Len(s \o t) /\ (s \o t)[i] = x
      BY <1>1, <2>1
    <2>3. QED
      BY <2>2 DEF In
  <1>4. ASSUME In(x, t) PROVE In(x, s \o t)
    <2>1. PICK i \in 1..Len(t) : t[i] = x
      BY <1>4 DEF In
    <2>2. Len(s) + i \in 1..Len(s \o t) /\ (s \o t)[Len(s) + i] = x
      BY <1>1, <2>1
    <2>3. QED
      BY <2>2 DEF In
  <1>5. QED
    BY <1>1, <1>2, <1>3, <1>4

(* The three lists that DetectBottlenecks chooses from.                     *)
Candidates(a) == {CPUCandidate(a), RAMCandidate(a), DiskCandidate(a)}
Verdicts == [type : Types, confidence : {c \in Int : c <= 100}]

LEMMA CandidateFacts ==
    ASSUME NEW s, NEW type \in Types, Candidate(s, type)
    PROVE  /\ s \in Seq(Verdicts)
           /\ \A x : In(x, s) <=> s # <<>> /\ x = s[1]
  <1>1. CASE s = <<>>
    BY <1>1 DEF In
  <1>2. CASE s # <<>>
    <2>1. PICK c \in Int : c <= 100 /\ s = <<[type |-> type, confidence |-> c]>>
      BY <1>2 DEF Candidate
    <2>2. [type |-> type, confidence |-> c] \in Verdicts
      BY <2>1 DEF Verdicts
    <2>3. s \in Seq(Verdicts) /\ Len(s) = 1
      BY <2>1, <2>2
    <2>4. QED
      BY <1>2, <2>3 DEF In
  <1>3. QED
    BY <1>1, <1>2

(* DetectBottlenecks reports none if there is no candidate, else one whose  *)
(* confidence no other candidate exceeds.                                   *)
LEMMA DetectFacts ==
    ASSUME NEW a \in Aggs
    PROVE  LET r == DetectBottlenecks(a)
           IN  \/ r.type = "none" /\ \A s \in Candidates(a) : s = <<>>
               \/ /\ r \in Verdicts
                  /\ \E s \in Candidates(a) : s # <<>> /\ r = s[1]
                  /\ \A s \in Candidates(a) : s # <<>> => s[1].confidence <= r.confidence
  <1> DEFINE cpu == CPUCandidate(a)
             ram == RAMCandidate(a)
             disk == DiskCandidate(a)
             found == cpu \o ram \o disk
             r == DetectBottlenecks(a)
  <1>1. /\ Candidate(cpu, "cpu") /\ Candidate(ram, "ram") /\ Candidate(disk, "disk")
        /\ "cpu" \in Types /\ "ram" \in Types /\ "disk" \in Types
    BY CPUCandidateFacts, RAMCandidateFacts, DiskCandidateFacts DEF Types
  <1> DEFINE I == {i \in 1..Len(found) : \A j \in 1..Len(found) :
                                    found[j].confidence <= found[i].confidence}
  <1>2. r = IF found = <<>> THEN [type |-> "none", confidence |-> 90]
            ELSE found[IF I # {} THEN Min(I) ELSE 0]
    BY DEF DetectBottlenecks, SelectInSeq
  <1>3. Candidates(a) = {cpu, ram, disk}
    BY DEF Candidates
  <1> HIDE DEF cpu, ram, disk, r
  <1>4. /\ cpu \in Seq(Verdicts) /\ ram \in Seq(Verdicts) /\ disk \in Seq(Verdicts)
        /\ \A x : In(x, cpu) <=> cpu # <<>> /\ x = cpu[1]
        /\ \A x : In(x, ram) <=> ram # <<>> /\ x = ram[1]
        /\ \A x : In(x, disk) <=> disk # <<>> /\ x = disk[1]
    BY <1>1, CandidateFacts
  <1>5. /\ found \in Seq(Verdicts)
        /\ \A x : In(x, found) <=> In(x, cpu) \/ In(x, ram) \/ In(x, disk)
    <2>1. /\ cpu \o ram \in Seq(Verdicts)
          /\ \A x : In(x, cpu \o ram) <=> In(x, cpu) \/ In(x, ram)
      BY <1>4, InConcat
    <2>2. QED
      BY <1>4, <2>1, InConcat
  <1>6. \A x : In(x, found) <=> \E s \in Candidates(a) : s # <<>> /\ x = s[1]
    BY <1>3, <1>4, <1>5
  <1> HIDE DEF found, I
  <1>7. /\ Len(found) \in Nat /\ found = <<>> <=> Len(found) = 0
        /\ \A i \in 1..Len(found) : found[i] \in Verdicts /\ In(found[i], found)
    BY <1>5 DEF In
  <1>8. \A v \in Verdicts : v.type \in Types /\ v.confidence \in Int /\ v.confidence <= 100
    BY DEF Verdicts
  <1>9. CASE found = <<>>
    <2>1. r.type = "none"
      BY <1>2, <1>9
    <2>2. \A x : ~In(x, found)
      BY <1>7, <1>9 DEF In
    <2>3. QED
      BY <1>6, <2>1, <2>2 DEF r
  <1>10. CASE found # <<>>
    <2> DEFINE S == {found[i].confidence : i \in 1..Len(found)}
    <2>1. S \subseteq Int /\ S # {} /\ \A x \in S : x <= 100
      <3>1. 1 \in 1..Len(found)
        BY <1>7, <1>10
      <3>2. QED
        BY <1>7, <1>8, <3>1
    <2>2. Max(S) \in S /\ \A x \in S : x <= Max(S)
      <3>1. \E b \in Int : \A x \in S : x <= b
        <4> HIDE DEF S
        <4>1. 100 \in Int
          OBVIOUS
        <4>2. QED
          BY <2>1, <4>1, Zenon
      <3> HIDE DEF S
      <3>2. QED
        BY <2>1, <3>1, MaxFacts
    <2>3. I # {} /\ I \subseteq Nat
      <3>1. PICK i \in 1..Len(found) : found[i].confidence = Max(S)
        BY <2>2
      <3>2. \A j \in 1..Len(found) : found[j].confidence <= found[i].confidence
        BY <2>2, <3>1
      <3>3. i \in I
        BY <3>2 DEF I
      <3>4. QED
        BY <1>7, <3>3 DEF I
    <2>4. Min(I) \in I /\ r = found[Min(I)]
      BY <1>2, <1>10, <2>3, MinFacts
    <2>5. PICK i \in 1..Len(found) :
            /\ r = found[i]
            /\ \A j \in 1..Len(found) : found[j].confidence <= found[i].confidence
      BY <2>4 DEF I
    <2>6. r \in Verdicts /\ In(r, found)
      BY <1>7, <2>5
    <2>7. \A x : In(x, found) => x.confidence <= r.confidence
      BY <2>5 DEF In
    <2>8. QED
      BY <1>6, <2>6, <2>7 DEF r
  <1>11. QED
    BY <1>9, <1>10

(* A heavier load yields no weaker verdict.                                 *)
LEMMA DetectMonotone ==
    ASSUME NEW a \in Aggs, NEW b \in Aggs, Heavier(a, b),
           DetectBottlenecks(a).type # "none"
    PROVE  /\ DetectBottlenecks(b).type # "none"
           /\ DetectBottlenecks(b).confidence >= DetectBottlenecks(a).confidence
  <1> DEFINE p == DetectBottlenecks(a)
             q == DetectBottlenecks(b)
  <1>1. PICK s \in Candidates(a) : s # <<>> /\ p = s[1] /\ p \in Verdicts
    BY DetectFacts
  <1>2. PICK t \in Candidates(b) : Grows(s, t)
    BY CPUCandidateFacts, RAMCandidateFacts, DiskCandidateFacts DEF Candidates
  <1>3. t # <<>> /\ p.confidence <= t[1].confidence
    BY <1>1, <1>2 DEF Grows
  <1>4. q \in Verdicts /\ t[1].confidence <= q.confidence
    BY <1>3, DetectFacts
  <1>6. t[1] \in Verdicts
    <2>1. Candidate(t, "cpu") \/ Candidate(t, "ram") \/ Candidate(t, "disk")
      BY CPUCandidateFacts, RAMCandidateFacts, DiskCandidateFacts DEF Candidates
    <2>2. t \in Seq(Verdicts)
      BY <2>1, CandidateFacts DEF Types
    <2>3. Len(t) \in Nat /\ Len(t) # 0 /\ \A i \in 1..Len(t) : t[i] \in Verdicts
      BY <1>3, <2>2
    <2>4. QED
      BY <2>3
  <1>7. \A v \in Verdicts : v.type # "none" /\ v.confidence \in Int
    BY DEF Verdicts, Types
  <1> HIDE DEF p, q
  <1>8. q.type # "none" /\ q.confidence >= p.confidence
    BY <1>1, <1>3, <1>4, <1>6, <1>7
  <1>9. QED
    BY <1>8 DEF p, q

-----------------------------------------------------------------------------
(* The notifier.                                                            *)

Ages == 0..AgeCap

Typed ==
    /\ node \in Nodes
    /\ at \in 0..Len(Configs)
    /\ at # 0 => result.type \in Types
    /\ lastSent \in [Keys -> Ages]
    /\ told \in [Hooks -> [Keys -> Ages]]

(* The shared date of a key is no older than what any webhook was told.     *)
Later == \A c \in Hooks, k \in Keys : told[c][k] >= lastSent[k]

(* And it is the date at which one of them was told.                        *)
Witness ==
    \A k \in Keys : lastSent[k] < AgeCap => \E d \in Hooks : told[d][k] = lastSent[k]

(* The configurations that Notify has dealt with so far.                    *)
Heard(n) ==
    \A c \in 1..n : Qualifies(c) /\ c \notin failed => lastSent[Key] < Cooldown(c)

Visited == at # 0 => Heard(at - 1)

HInv == Typed /\ Later /\ Witness /\ Visited

-----------------------------------------------------------------------------

LEMMA LoadTypes == Loads \subseteq Aggs
  BY LoadsAssumption DEF Aggs, Row

LEMMA ConfigFacts ==
    /\ Len(Configs) \in Nat /\ AgeCap \in Nat /\ AgeCap >= 1
    /\ Hooks = 1..Len(Configs)
    /\ \A c \in Hooks : Cooldown(c) \in 1..AgeCap
    /\ Configs = <<>> \/ Len(Configs) >= 1
  <1>1. Len(Configs) \in Nat /\ (Configs = <<>> \/ Len(Configs) >= 1)
    BY ConfigsAssumption
  <1>2. AgeCap \in Nat /\ DefaultCooldown \in 1..AgeCap
        /\ \A c \in Hooks : Configs[c].cooldown \in 0..AgeCap
    BY AgeCapAssumption
  <1>3. \A c \in Hooks : Cooldown(c) \in 1..AgeCap
    BY <1>2 DEF Cooldown
  <1>4. QED
    BY <1>1, <1>2, <1>3 DEF Hooks

LEMMA KeyInKeys == ASSUME Typed, at # 0 PROVE Key \in Keys /\ at \in Hooks
  <1>1. node \in Nodes /\ result.type \in Types
    BY DEF Typed
  <1>2. Key \in Keys
    BY <1>1 DEF Key, Keys
  <1>3. at \in Hooks
    BY ConfigFacts DEF Typed
  <1>4. QED
    BY <1>2, <1>3

LEMMA OlderFacts ==
    ASSUME NEW a \in Ages, NEW b \in Ages
    PROVE  /\ Older(a) \in Ages
           /\ a >= b => Older(a) >= Older(b)
           /\ Older(a) < AgeCap => a < AgeCap
  BY ConfigFacts DEF Ages, Older

LEMMA InitHInv == Init => HInv
  <1> SUFFICES ASSUME Init PROVE HInv
    OBVIOUS
  <1>1. Typed
    BY ConfigFacts DEF Init, Typed, Ages
  <1>2. Later /\ Witness /\ Visited
    BY ConfigFacts DEF Init, Later, Witness, Visited
  <1>3. QED
    BY <1>1, <1>2 DEF HInv

(* A turn of Notify's loop: afterwards the configuration it was at has been *)
(* told, or failed, or is within its cooldown, or does not qualify.         *)
Turn == Skip \/ SendOK \/ SendFails

LEMMA TurnHInv ==
    ASSUME HInv, Turn
    PROVE  /\ Typed' /\ Later' /\ Witness'
           /\ at # 0 /\ Continue /\ UNCHANGED <<node, result>>
           /\ \A c \in 1..at : Qualifies(c) /\ c \notin failed'
                                 => lastSent'[Key] < Cooldown(c)
  <1>1. Typed /\ Later /\ Witness /\ Visited
    BY DEF HInv
  <1>2. at # 0 /\ Continue /\ UNCHANGED <<node, result>>
    BY DEF Turn, Skip, SendOK, SendFails, Sends
  <1>3. Key \in Keys /\ at \in Hooks /\ at \in 1..Len(Configs)
    BY <1>1, <1>2, KeyInKeys, ConfigFacts
  <1>4. at' \in 0..Len(Configs)
    BY <1>2, <1>3, ConfigFacts DEF Continue
  <1>5. node' \in Nodes /\ result'.type \in Types
    BY <1>1, <1>2 DEF Typed
  <1>6. \A c \in 1..(at - 1) : Qualifies(c) /\ c \notin failed => lastSent[Key] < Cooldown(c)
    BY <1>1, <1>2 DEF Visited, Heard
  <1>7. \A c \in 1..at : c \in Hooks /\ (c \in 1..(at - 1) \/ c = at)
    BY <1>3, ConfigFacts
  <1>8. CASE Skip \/ SendFails
    <2>1. UNCHANGED <<lastSent, told>> /\ failed \subseteq failed'
      BY <1>8 DEF Skip, SendFails
    <2>2. Typed' /\ Later' /\ Witness'
      BY <1>1, <1>4, <1>5, <2>1 DEF Typed, Later, Witness
    <2>3. Qualifies(at) /\ at \notin failed' => lastSent[Key] < Cooldown(at)
      BY <1>8 DEF Skip, SendFails
    <2>4. QED
      BY <1>2, <1>6, <1>7, <2>1, <2>2, <2>3
  <1>9. CASE SendOK
    <2>1. /\ lastSent' = [lastSent EXCEPT ![Key] = 0]
          /\ told' = [told EXCEPT ![at][Key] = 0]
      BY <1>9 DEF SendOK
    <2>2. lastSent \in [Keys -> Ages] /\ told \in [Hooks -> [Keys -> Ages]] /\ 0 \in Ages
      BY <1>1, ConfigFacts DEF Typed, Ages
    <2>3. /\ lastSent'[Key] = 0 /\ told'[at][Key] = 0
          /\ \A k \in Keys \ {Key} : lastSent'[k] = lastSent[k]
          /\ \A k \in Keys \ {Key} : told'[at][k] = told[at][k]
          /\ \A c \in Hooks \ {at} : told'[c] = told[c]
      BY <1>3, <2>1, <2>2
    <2>4. lastSent' \in [Keys -> Ages] /\ told' \in [Hooks -> [Keys -> Ages]]
      BY <1>3, <2>1, <2>2
    <2>5. Typed'
      BY <1>4, <1>5, <2>4 DEF Typed
    <2>6. Later'
      <3> SUFFICES ASSUME NEW c \in Hooks, NEW k \in Keys PROVE told'[c][k] >= lastSent'[k]
        BY DEF Later
      <3>1. told'[c][k] \in Nat
        BY <2>4, ConfigFacts DEF Ages
      <3>2. CASE k = Key
        BY <2>3, <3>1, <3>2
      <3>3. CASE k # Key
        <4>1. told'[c][k] = told[c][k] /\ lastSent'[k] = lastSent[k]
          BY <2>3, <3>3
        <4>2. QED
          BY <1>1, <4>1 DEF Later
      <3>4. QED
        BY <3>2, <3>3
    <2>7. Witness'
      <3> SUFFICES ASSUME NEW k \in Keys, lastSent'[k] < AgeCap
                   PROVE  \E d \in Hooks : told'[d][k] = lastSent'[k]
        BY DEF Witness
      <3>1. CASE k = Key
        BY <1>3, <2>3, <3>1
      <3>2. CASE k # Key
        <4>1. lastSent'[k] = lastSent[k]
          BY <2>3, <3>2
        <4>2. PICK d \in Hooks : told[d][k] = lastSent[k]
          BY <1>1, <4>1 DEF Witness
        <4>3. told'[d][k] = told[d][k]
          BY <2>3, <3>2
        <4>4. QED
          BY <4>1, <4>2, <4>3
      <3>3. QED
        BY <3>1, <3>2
    <2>8. \A c \in 1..at : lastSent'[Key] < Cooldown(c)
      BY <1>7, <2>3, ConfigFacts
    <2>9. QED
      BY <1>2, <2>5, <2>6, <2>7, <2>8
  <1>10. QED
    BY <1>8, <1>9 DEF Turn

LEMMA NextHInv == HInv /\ [Next]_vars => HInv'
  <1> SUFFICES ASSUME HInv, [Next]_vars PROVE HInv'
    OBVIOUS
  <1>1. Typed /\ Later /\ Witness /\ Visited
    BY DEF HInv
  <1>2. ASSUME NEW n \in Nodes, NEW aggs \in Loads, Detect(n, aggs) PROVE HInv'
    <2>1. /\ node' = n /\ UNCHANGED <<lastSent, told>>
          /\ result' = DetectBottlenecks(aggs)
          /\ at' = IF Configs = <<>> \/ result'.type = "none" THEN 0 ELSE 1
      BY <1>2 DEF Detect
    <2>6. result'.type \in Types \cup {"none"}
      BY <2>1, LoadTypes, DetectFacts DEF Verdicts
    <2>2. at' \in 0..Len(Configs) /\ (at' # 0 => result'.type \in Types)
      BY <2>1, <2>6, ConfigFacts
    <2>3. Typed' /\ Later' /\ Witness'
      BY <1>1, <2>1, <2>2 DEF Typed, Later, Witness
    <2>4. Visited'
      <3>1. at' # 0 => at' - 1 = 0
        BY <2>1
      <3>2. QED
        BY <3>1 DEF Visited, Heard
    <2>5. QED
      BY <2>3, <2>4 DEF HInv
  <1>3. CASE Turn
    <2>1. /\ Typed' /\ Later' /\ Witness' /\ at # 0 /\ Continue
          /\ node' = node /\ result' = result
          /\ \A c \in 1..at : Qualifies(c) /\ c \notin failed'
                                => lastSent'[Key] < Cooldown(c)
      BY <1>3, TurnHInv
    <2>2. Visited'
      <3> SUFFICES ASSUME at' # 0, NEW c \in 1..(at' - 1), Qualifies(c)', c \notin failed'
                   PROVE  lastSent'[Key'] < Cooldown(c)
        BY DEF Visited, Heard
      <3>1. Key' = Key /\ Qualifies(c)
        BY <2>1 DEF Key, Qualifies
      <3>2. at' - 1 = at
        BY <1>1, <2>1, ConfigFacts DEF Continue, Typed
      <3>3. QED
        BY <2>1, <3>1, <3>2
    <2>3. QED
      BY <2>1, <2>2 DEF HInv
  <1>4. CASE Tick
    <2>1. /\ at = 0 /\ UNCHANGED <<result, node, at, failed>>
          /\ lastSent' = [k \in Keys |-> Older(lastSent[k])]
          /\ told' = [c \in Hooks |-> [k \in Keys |-> Older(told[c][k])]]
      BY <1>4 DEF Tick
    <2>2. /\ \A k \in Keys : lastSent[k] \in Ages
          /\ \A c \in Hooks, k \in Keys : told[c][k] \in Ages
      BY <1>1 DEF Typed
    <2>3. Typed'
      BY <1>1, <2>1, <2>2, OlderFacts DEF Typed
    <2>4. /\ \A k \in Keys : lastSent'[k] = Older(lastSent[k])
          /\ \A c \in Hooks, k \in Keys : told'[c][k] = Older(told[c][k])
      BY <2>1
    <2>5. Later'
      BY <1>1, <2>2, <2>4, OlderFacts DEF Later
    <2>6. Witness'
      <3> SUFFICES ASSUME NEW k \in Keys, lastSent'[k] < AgeCap
                   PROVE  \E d \in Hooks : told'[d][k] = lastSent'[k]
        BY DEF Witness
      <3>1. lastSent[k] < AgeCap
        BY <2>2, <2>4, OlderFacts
      <3>2. PICK d \in Hooks : told[d][k] = lastSent[k]
        BY <1>1, <3>1 DEF Witness
      <3>3. QED
        BY <2>4, <3>2
    <2>7. QED
      BY <2>1, <2>3, <2>5, <2>6 DEF HInv, Visited
  <1>5. CASE UNCHANGED vars
    <2>1. Typed' /\ Later' /\ Witness'
      BY <1>1, <1>5 DEF vars, Typed, Later, Witness
    <2>2. Visited'
      BY <1>1, <1>5 DEF vars, Visited, Heard, Qualifies, Key
    <2>3. QED
      BY <2>1, <2>2 DEF HInv
  <1>6. QED
    BY <1>2, <1>3, <1>4, <1>5 DEF Next, Turn

LEMMA SpecHInv == Spec => []HInv
  BY InitHInv, NextHInv, PTL DEF Spec

(* The webhooks share one date per key; still, no webhook acknowledges two  *)
(* payloads of a key within its own cooldown.                               *)
THEOREM SpacedAlways == Spec => Spaced
  <1>1. HInv => (SendOK => told[at][Key] >= Cooldown(at))
    <2> SUFFICES ASSUME HInv, SendOK PROVE told[at][Key] >= Cooldown(at)
      OBVIOUS
    <2>1. Typed /\ Later /\ at # 0 /\ lastSent[Key] >= Cooldown(at)
      BY DEF HInv, SendOK, Sends
    <2>2. Key \in Keys /\ at \in Hooks
      BY <2>1, KeyInKeys
    <2>3. told[at][Key] >= lastSent[Key]
      BY <2>1, <2>2 DEF Later
    <2>4. told[at][Key] \in Nat /\ lastSent[Key] \in Nat /\ Cooldown(at) \in Nat
      BY <2>1, <2>2, ConfigFacts DEF Typed, Ages
    <2>5. QED
      BY <2>1, <2>3, <2>4
  <1>2. QED
    BY <1>1, SpecHInv, PTL DEF Spaced

(* When Notify returns, everybody who qualifies and could be reached has    *)
(* been told, or someone has within that webhook's cooldown.                *)
THEOREM SomeoneHearsAlways == Spec => SomeoneHears
  <1> DEFINE Hears == at # 0 /\ at' = 0
                        => \A c \in Hooks : Qualifies(c) /\ c \notin failed'
                             => \E d \in Hooks : told'[d][Key] < Cooldown(c)
  <1>1. HInv /\ [Next]_vars => [Hears]_vars
    <2> SUFFICES ASSUME HInv, Next, at # 0, at' = 0,
                        NEW c \in Hooks, Qualifies(c), c \notin failed'
                 PROVE  \E d \in Hooks : told'[d][Key] < Cooldown(c)
      OBVIOUS
    <2>1. Turn
      BY DEF Next, Turn, Detect, Tick
    <2>2. /\ Typed' /\ Witness' /\ Continue
          /\ \A b \in 1..at : Qualifies(b) /\ b \notin failed'
                                => lastSent'[Key] < Cooldown(b)
      BY <2>1, TurnHInv
    <2>3. Typed
      BY DEF HInv
    <2>4. Key \in Keys /\ at \in 0..Len(Configs)
      BY <2>3, KeyInKeys DEF Typed
    <2>5. at = Len(Configs)
      BY <2>2, <2>4, ConfigFacts DEF Continue
    <2>6. c \in 1..at
      BY <2>5, ConfigFacts
    <2>7. lastSent'[Key] < Cooldown(c) /\ Cooldown(c) \in 1..AgeCap
      BY <2>2, <2>6, ConfigFacts
    <2>8. lastSent'[Key] \in Nat
      BY <2>2, <2>4, ConfigFacts DEF Typed, Ages
    <2>9. PICK d \in Hooks : told'[d][Key] = lastSent'[Key]
      BY <2>2, <2>4, <2>7, <2>8, ConfigFacts DEF Witness
    <2>10. QED
      BY <2>7, <2>9
  <1>2. QED
    BY <1>1, SpecHInv, PTL DEF Spec, SomeoneHears

(* The verdict on record is that of the load on record, if it named one.    *)
Judged ==
    load \in Aggs /\ (result.type # "none" => result = DetectBottlenecks(load))

LEMMA SpecJudged == Spec => []Judged
  <1>1. Init => Judged
    BY DEF Init, Judged, Aggs
  <1>2. Judged /\ [Next]_vars => Judged'
    <2> SUFFICES ASSUME Judged, [Next]_vars PROVE Judged'
      OBVIOUS
    <2>1. ASSUME NEW n \in Nodes, NEW aggs \in Loads, Detect(n, aggs) PROVE Judged'
      BY <2>1, LoadTypes DEF Detect, Judged
    <2>2. CASE UNCHANGED <<load, result>>
      BY <2>2 DEF Judged
    <2>3. QED
      BY <2>1, <2>2 DEF Next, Skip, SendOK, SendFails, Tick, vars
  <1>3. QED
    BY <1>1, <1>2, PTL DEF Spec

(* More load never looks like less: from one detection to the next, if CPU, *)
(* disk and swap only grew, a bottleneck is still named and with no less    *)
(* confidence, for any number of rows, cores and disks.                     *)
THEOREM LoadMonotoneAlways == Spec => LoadMonotone
  <1> DEFINE Monotone == result.type # "none" /\ Heavier(load, load')
                => result'.type # "none" /\ result'.confidence >= result.confidence
  <1>1. Judged /\ Judged' /\ [Next]_vars => [Monotone]_vars
    <2> SUFFICES ASSUME Judged, Judged', Next, result.type # "none", Heavier(load, load')
                 PROVE  result'.type # "none" /\ result'.confidence >= result.confidence
      OBVIOUS
    <2>1. /\ load \in Aggs /\ load' \in Aggs
          /\ result = DetectBottlenecks(load)
      BY DEF Judged
    <2>2. result' = DetectBottlenecks(load')
      BY <2>1 DEF Next, Detect, Skip, SendOK, SendFails, Tick
    <2>3. QED
      BY <2>1, <2>2, DetectMonotone
  <1>2. QED
    BY <1>1, SpecJudged, PTL DEF Spec, LoadMonotone
=============================================================================
