--------------------------- MODULE Parsers_proofs ---------------------------
(***************************************************************************)
(* What the collector makes of an agent's answers, for inputs of any size:  *)
(* the filter of the Prometheus endpoint for every list of contexts, every  *)
(* metric name and every unit; the labels of a line for values of any       *)
(* length; a poll of a context with any number of dimensions.               *)
(***************************************************************************)
EXTENDS Parsers, TLAPS, WellFoundedInduction, FiniteSetTheorems

(* What sticking a word to a name and trimming it again does.               *)
LEMMA Stuck ==
    ASSUME NEW W, NEW s \in Seq(W), NEW w \in W
    PROVE  /\ s \o <<w>> \in Seq(W)
           /\ Len(s) \in Nat /\ Len(s \o <<w>>) = Len(s) + 1
           /\ (s \o <<w>>)[Len(s) + 1] = w
           /\ \A i \in 1..Len(s) : (s \o <<w>>)[i] = s[i]
  OBVIOUS

LEMMA TrimLast ==
    ASSUME NEW W, NEW s \in Seq(W), s # <<>>, NEW w \in W, NEW v
    PROVE  TrimWord(s \o <<w>>, v) = IF w = v THEN s ELSE s \o <<w>>
  <1> DEFINE t == s \o <<w>>
  <1>1. Len(s) \in Nat /\ Len(s) # 0
    OBVIOUS
  <1>2. /\ t \in Seq(W) /\ Len(t) = Len(s) + 1 /\ t[Len(s) + 1] = w
        /\ \A i \in 1..Len(s) : t[i] = s[i]
    BY Stuck
  <1> HIDE DEF t
  <1>3. Front(t) = s
    <2>1. SubSeq(t, 1, Len(s)) = s
      BY <1>1, <1>2
    <2>2. QED
      BY <1>1, <1>2, <2>1 DEF Front
  <1>4. TrimWord(t, v) = IF w = v THEN s ELSE t
    <2>1. Len(t) > 1 /\ t[Len(t)] = w
      BY <1>1, <1>2
    <2>2. QED
      BY <1>3, <2>1 DEF TrimWord
  <1>5. QED
    BY <1>4 DEF t

(* The provers do not know that a literal is a string.                      *)
Words == STRING \cup {"netdata", "c", "average"}

LEMMA Wider ==
    ASSUME NEW A, NEW C, A \subseteq C, NEW s \in Seq(A)
    PROVE  s \in Seq(C)
  <1>1. Len(s) \in Nat /\ s = [i \in 1..Len(s) |-> s[i]] /\ \A i \in 1..Len(s) : s[i] \in C
    OBVIOUS
  <1>2. QED
    BY <1>1

(* The words an agent puts around a name, and what Bare leaves of them.     *)
Full(name) == <<"netdata">> \o name

LEMMA FullFacts ==
    ASSUME NEW name \in Seq(Words)
    PROVE  /\ Full(name) \in Seq(Words) /\ Full(name) # <<>>
           /\ Len(name) \in Nat /\ Len(Full(name)) = Len(name) + 1
           /\ Full(name)[1] = "netdata"
           /\ \A i \in 1..Len(name) : Full(name)[i + 1] = name[i]
  <1> DEFINE w == "netdata"
  <1>1. w \in Words
    BY DEF Words
  <1>2. ASSUME NEW W, NEW x \in W, NEW n \in Seq(W)
        PROVE  /\ <<x>> \o n \in Seq(W) /\ <<x>> \o n # <<>>
               /\ Len(n) \in Nat /\ Len(<<x>> \o n) = Len(n) + 1
               /\ (<<x>> \o n)[1] = x
               /\ \A i \in 1..Len(n) : (<<x>> \o n)[i + 1] = n[i]
    OBVIOUS
  <1> HIDE DEF w
  <1>3. Full(name) = <<w>> \o name
    BY DEF Full, w
  <1>4. QED
    BY <1>1, <1>2, <1>3 DEF w

LEMMA BareName ==
    ASSUME NEW name \in Seq(Words), NEW unit \in Words, ~Contains(Aggregations, unit)
    PROVE  Bare(MetricName(name, unit)) = Full(name) \o <<unit>>
  <1> DEFINE s == Full(name)
             t == s \o <<unit>>
  <1>1. s \in Seq(Words) /\ s # <<>>
    BY FullFacts
  <1>2. t \in Seq(Words) /\ t # <<>>
    <2> HIDE DEF s
    <2>1. t \in Seq(Words) /\ Len(t) = Len(s) + 1 /\ Len(s) \in Nat
      BY <1>1, Stuck
    <2> HIDE DEF t
    <2>2. t # <<>>
      BY <2>1
    <2>3. QED
      BY <2>1, <2>2
  <1>3. MetricName(name, unit) = t \o <<"average">>
    BY <1>1 DEF MetricName, Full
  <1>4. /\ Aggregations[1] = "average" /\ Aggregations[2] = "total"
        /\ Aggregations[3] = "sum" /\ Len(Aggregations) = 3
    BY DEF Aggregations
  <1>5. unit # "total" /\ unit # "sum"
    BY <1>4 DEF Contains
  <1> HIDE DEF s, t
  <1>6. TrimWord(t \o <<"average">>, "average") = t
    <2>1. "average" \in Words
      BY DEF Words
    <2>2. QED
      BY <1>2, <2>1, TrimLast
  <1>7. TrimWord(t, "total") = t /\ TrimWord(t, "sum") = t
    BY <1>1, <1>5, TrimLast DEF t
  <1>8. QED
    BY <1>3, <1>4, <1>6, <1>7 DEF Bare, s, t

LEMMA UnitsDiffer ==
    \A i, j \in 1..Len(Units) : Units[i] = Units[j] => i = j
  BY DEF Units

(* A known unit is trimmed and nothing else is: the name's own words stay,  *)
(* also if they look like units or aggregations.                            *)
LEMMA ContextOfName ==
    ASSUME NEW name \in Seq(Words), NEW unit \in Words, ~Contains(Aggregations, unit)
    PROVE  prometheusNameToContext(MetricName(name, unit))
             = IF Contains(Units, unit) THEN Full(name) ELSE Full(name) \o <<unit>>
  <1> DEFINE s == Full(name)
             bare == s \o <<unit>>
             I == {i \in 1..Len(Units) : TrimWord(bare, Units[i]) # bare}
             at == IF I # {} THEN Min(I) ELSE 0
  <1>1. s \in Seq(Words) /\ s # <<>> /\ Bare(MetricName(name, unit)) = bare
    BY FullFacts, BareName
  <1>2. prometheusNameToContext(MetricName(name, unit))
          = IF at = 0 THEN bare ELSE TrimWord(bare, Units[at])
    BY <1>1 DEF prometheusNameToContext, SelectInSeq
  <1> HIDE DEF s
  <1>3. \A v : TrimWord(bare, v) = IF unit = v THEN s ELSE bare
    BY <1>1, TrimLast
  <1>4. s # bare
    BY <1>1, Stuck
  <1> HIDE DEF bare
  <1>5. I = {i \in 1..Len(Units) : Units[i] = unit}
    BY <1>3, <1>4
  <1>6. CASE Contains(Units, unit)
    <2>1. PICK k \in 1..Len(Units) : Units[k] = unit
      BY <1>6 DEF Contains
    <2>2. I = {k}
      BY <1>5, <2>1, UnitsDiffer
    <2> HIDE DEF I
    <2>3. at = k
      BY <2>2 DEF Min
    <2>4. k # 0
      BY <2>1
    <2> HIDE DEF at
    <2>5. QED
      BY <1>2, <1>3, <1>6, <2>1, <2>3, <2>4 DEF s
  <1>7. CASE ~Contains(Units, unit)
    <2>1. I = {}
      BY <1>5, <1>7 DEF Contains
    <2>2. QED
      BY <1>2, <1>7, <2>1 DEF bare, s
  <1>8. QED
    BY <1>6, <1>7

-----------------------------------------------------------------------------
(* HasPrefix, word by word.                                                 *)
LEMMA PrefixWords ==
    ASSUME NEW W, NEW name \in Seq(W), NEW p \in Seq(W), p # <<>>
    PROVE  HasPrefix(name, p)
             <=> /\ Len(p) <= Len(name)
                 /\ \A i \in 1..(Len(p) - 1) : name[i] = p[i]
                 /\ name[Len(p)] \in Longer[p[Len(p)]] \cup {p[Len(p)]}
  <1> DEFINE n == Len(p)
  <1>1. n \in Nat /\ n # 0 /\ Len(name) \in Nat
    OBVIOUS
  <1>2. ASSUME n <= Len(name)
        PROVE  SubSeq(name, 1, n - 1) = SubSeq(p, 1, n - 1)
                 <=> \A i \in 1..(n - 1) : name[i] = p[i]
    <2> DEFINE s == SubSeq(name, 1, n - 1)
               t == SubSeq(p, 1, n - 1)
    <2>1. /\ s = [i \in 1..(n - 1) |-> name[i]]
          /\ t = [i \in 1..(n - 1) |-> p[i]]
      BY <1>1, <1>2
    <2>2. QED
      BY <2>1
  <1>3. QED
    BY <1>1, <1>2 DEF HasPrefix

LEMMA PrefixOfFull ==
    ASSUME NEW name \in Seq(Words), NEW ctx \in Seq(Words), ctx # <<>>
    PROVE  HasPrefix(Full(name), Full(ctx)) <=> HasPrefix(name, ctx)
  <1> DEFINE n == Len(ctx)
             f == Full(name)
             g == Full(ctx)
  <1>1. /\ f \in Seq(Words) /\ g \in Seq(Words) /\ g # <<>>
        /\ Len(f) = Len(name) + 1 /\ Len(g) = n + 1 /\ Len(name) \in Nat /\ n \in Nat
        /\ f[1] = "netdata" /\ g[1] = "netdata"
        /\ \A i \in 1..Len(name) : f[i + 1] = name[i]
        /\ \A i \in 1..n : g[i + 1] = ctx[i]
    BY FullFacts
  <1>2. n # 0
    OBVIOUS
  <1> HIDE DEF n, f, g
  <1>3. HasPrefix(f, g) <=> /\ n + 1 <= Len(name) + 1
                            /\ \A i \in 1..n : f[i] = g[i]
                            /\ f[n + 1] \in Longer[g[n + 1]] \cup {g[n + 1]}
    <2>1. HasPrefix(f, g) <=> /\ Len(g) <= Len(f)
                              /\ \A i \in 1..(Len(g) - 1) : f[i] = g[i]
                              /\ f[Len(g)] \in Longer[g[Len(g)]] \cup {g[Len(g)]}
      BY <1>1, PrefixWords
    <2>2. Len(g) - 1 = n
      BY <1>1
    <2>3. QED
      BY <1>1, <2>1, <2>2
  <1>4. HasPrefix(name, ctx) <=> /\ n <= Len(name)
                                 /\ \A i \in 1..(n - 1) : name[i] = ctx[i]
                                 /\ name[n] \in Longer[ctx[n]] \cup {ctx[n]}
    BY PrefixWords DEF n
  <1>5. ASSUME n <= Len(name)
        PROVE  /\ f[n + 1] = name[n] /\ g[n + 1] = ctx[n]
               /\ (\A i \in 1..n : f[i] = g[i]) <=> \A i \in 1..(n - 1) : name[i] = ctx[i]
    <2>1. f[n + 1] = name[n] /\ g[n + 1] = ctx[n]
      BY <1>1, <1>2, <1>5
    <2>2. ASSUME \A i \in 1..n : f[i] = g[i], NEW i \in 1..(n - 1)
          PROVE  name[i] = ctx[i]
      <3>1. i + 1 \in 1..n /\ i \in 1..Len(name) /\ i \in 1..n
        BY <1>1, <1>5
      <3>2. QED
        BY <1>1, <2>2, <3>1
    <2>3. ASSUME \A i \in 1..(n - 1) : name[i] = ctx[i], NEW i \in 1..n
          PROVE  f[i] = g[i]
      <3>1. CASE i = 1
        BY <1>1, <3>1
      <3>2. CASE i # 1
        <4>1. /\ i - 1 \in 1..(n - 1) /\ i - 1 \in 1..Len(name) /\ i - 1 \in 1..n
              /\ (i - 1) + 1 = i
          BY <1>1, <1>5, <3>2
        <4>2. QED
          BY <1>1, <2>3, <4>1
      <3>3. QED
        BY <3>1, <3>2
    <2>4. QED
      BY <2>1, <2>2, <2>3
  <1>6. n + 1 <= Len(name) + 1 <=> n <= Len(name)
    BY <1>1
  <1>7. HasPrefix(f, g) <=> HasPrefix(name, ctx)
    BY <1>3, <1>4, <1>5, <1>6
  <1>8. QED
    BY <1>7 DEF f, g

(* A name that goes on still has its prefixes.                              *)
LEMMA PrefixGoesOn ==
    ASSUME NEW W, NEW name \in Seq(W), NEW p \in Seq(W), p # <<>>, NEW w \in W,
           HasPrefix(name, p)
    PROVE  HasPrefix(name \o <<w>>, p)
  <1> DEFINE t == name \o <<w>>
  <1>1. /\ t \in Seq(W) /\ Len(name) \in Nat /\ Len(t) = Len(name) + 1
        /\ \A i \in 1..Len(name) : t[i] = name[i]
    BY Stuck
  <1>2. /\ Len(p) <= Len(name) /\ \A i \in 1..(Len(p) - 1) : name[i] = p[i]
        /\ name[Len(p)] \in Longer[p[Len(p)]] \cup {p[Len(p)]}
    BY PrefixWords
  <1>3. Len(p) \in Nat /\ Len(p) # 0
    OBVIOUS
  <1> HIDE DEF t
  <1>4. /\ Len(p) <= Len(t) /\ t[Len(p)] = name[Len(p)]
        /\ \A i \in 1..(Len(p) - 1) : t[i] = p[i]
    BY <1>1, <1>2, <1>3
  <1>5. HasPrefix(t, p)
    BY <1>1, <1>2, <1>4, PrefixWords
  <1>6. QED
    BY <1>5 DEF t

-----------------------------------------------------------------------------
(* What the filter says of a name that begins as an agent's names do.       *)
Wanted(name) ==
    \/ \E ctx \in Contexts : HasPrefix(name, ctx)
    \/ \E ctx \in Undotted : HasPrefix(Full(name), ctx)

LEMMA ContextWords ==
    \A ctx \in Contexts : ctx \in Seq(Words) /\ ctx # <<>>
  <1> SUFFICES ASSUME NEW ctx \in Contexts
               PROVE  ctx \in Seq(Words) /\ ctx # <<>>
    OBVIOUS
  <1>1. ctx \in Seq(STRING) /\ ctx # <<>>
    BY ContextsAssumption
  <1>2. STRING \subseteq Words
    BY DEF Words
  <1>3. QED
    BY <1>1, <1>2, Wider

LEMMA EnabledFull ==
    ASSUME NEW name \in Seq(Words)
    PROVE  Enabled(Full(name)) <=> Wanted(name)
  <1>1. \A ctx \in Contexts : HasPrefix(Full(name), Full(ctx)) <=> HasPrefix(name, ctx)
    BY ContextWords, PrefixOfFull
  <1>2. Enabled(Full(name)) <=>
          \/ \E ctx \in Contexts : HasPrefix(Full(name), Full(ctx))
          \/ \E ctx \in Undotted : HasPrefix(Full(name), ctx)
    BY Zenon DEF Enabled, Full
  <1>3. QED
    BY <1>1, <1>2, Zenon DEF Wanted

LEMMA FullGoesOn ==
    ASSUME NEW name \in Seq(Words), NEW w \in Words
    PROVE  Full(name) \o <<w>> = Full(name \o <<w>>)
  <1>1. ASSUME NEW W, NEW n \in Seq(W), NEW x \in W, NEW y \in W
        PROVE  (<<x>> \o n) \o <<y>> = <<x>> \o (n \o <<y>>)
    OBVIOUS
  <1>2. "netdata" \in Words
    BY DEF Words
  <1>3. QED
    BY <1>1, <1>2 DEF Full

(* A name that goes on is wanted if its beginning is.                       *)
LEMMA WantedGoesOn ==
    ASSUME NEW name \in Seq(Words), NEW w \in Words, Wanted(name)
    PROVE  Wanted(name \o <<w>>)
  <1>1. ASSUME NEW ctx \in Contexts, HasPrefix(name, ctx)
        PROVE  HasPrefix(name \o <<w>>, ctx)
    BY <1>1, ContextWords, PrefixGoesOn
  <1>2. ASSUME NEW ctx \in Undotted, HasPrefix(Full(name), ctx)
        PROVE  HasPrefix(Full(name \o <<w>>), ctx)
    <2>1. ctx \in Seq(Words) /\ ctx # <<>>
      BY ContextWords, ContextsAssumption
    <2>2. Full(name) \in Seq(Words)
      BY FullFacts
    <2>3. HasPrefix(Full(name) \o <<w>>, ctx)
      BY <1>2, <2>1, <2>2, PrefixGoesOn
    <2>4. QED
      BY <2>3, FullGoesOn
  <1>3. QED
    BY <1>1, <1>2, Zenon DEF Wanted

(* The filter on the context that a metric's name is turned into.           *)
LEMMA FilterOfName ==
    ASSUME NEW name \in Seq(Words), NEW unit \in Words, ~Contains(Aggregations, unit)
    PROVE  LET kept == Enabled(prometheusNameToContext(MetricName(name, unit)))
           IN  /\ Wanted(name) => kept
               /\ Contains(Units, unit) /\ kept => Wanted(name)
  <1> DEFINE c == prometheusNameToContext(MetricName(name, unit))
  <1>1. c = IF Contains(Units, unit) THEN Full(name) ELSE Full(name) \o <<unit>>
    BY ContextOfName
  <1> HIDE DEF c
  <1>2. CASE Contains(Units, unit)
    <2>1. Enabled(c) <=> Wanted(name)
      BY <1>1, <1>2, EnabledFull
    <2>2. QED
      BY <2>1 DEF c
  <1>3. CASE ~Contains(Units, unit)
    <2>1. name \o <<unit>> \in Seq(Words)
      BY Stuck
    <2>2. c = Full(name \o <<unit>>)
      BY <1>1, <1>3, FullGoesOn
    <2>3. Enabled(c) <=> Wanted(name \o <<unit>>)
      BY <2>1, <2>2, EnabledFull
    <2>4. Wanted(name) => Enabled(c)
      BY <2>3, WantedGoesOn
    <2>5. QED
      BY <1>3, <2>4 DEF c
  <1>4. QED
    BY <1>2, <1>3

-----------------------------------------------------------------------------
(* FlattenSeq is chosen by an equation, which has a solution for one part.  *)
Joins(f, seqs) ==
    f = [i \in 1..Len(seqs) |-> IF i = 1 THEN seqs[i] ELSE f[i - 1] \o seqs[i]]
Joined(seqs) == CHOOSE f : Joins(f, seqs)

LEMMA FlattenOne ==
    ASSUME NEW seqs, Len(seqs) = 1
    PROVE  FlattenSeq(seqs) = seqs[1]
  <1> DEFINE g == [i \in 1..1 |-> seqs[1]]
  <1>1. \A i \in 1..1 : i = 1
    OBVIOUS
  <1>2. g = [i \in 1..Len(seqs) |-> IF i = 1 THEN seqs[i] ELSE g[i - 1] \o seqs[i]]
    BY <1>1
  <1>3. Joins(g, seqs)
    BY <1>2 DEF Joins
  <1> HIDE DEF g
  <1>4. Joins(Joined(seqs), seqs)
    BY <1>3, Zenon DEF Joined
  <1>5. Joined(seqs)[1] = seqs[1]
    BY <1>4 DEF Joins
  <1>6. FlattenSeq(seqs) = Joined(seqs)[Len(seqs)]
    BY DEF FlattenSeq, Joined, Joins
  <1>7. QED
    BY <1>5, <1>6

(* A line without labels is kept if the filter keeps its context.           *)
Unlabelled(nm) == [name |-> nm, labelled |-> FALSE, rest |-> <<"0">>]

LEMMA OneLine ==
    ASSUME NEW nm
    PROVE  parsePrometheusResponse(<<Unlabelled(nm)>>) # <<>>
             <=> Enabled(prometheusNameToContext(nm))
  <1> DEFINE line == Unlabelled(nm)
             s == parsePrometheusLine(line)
             k == IF s.ok /\ Enabled(s.context) THEN <<s>> ELSE <<>>
             seqs == [i \in 1..Len(<<line>>) |->
                        LET p == parsePrometheusLine(<<line>>[i])
                        IN  IF p.ok /\ Enabled(p.context) THEN <<p>> ELSE <<>>]
  <1>1. line.labelled = FALSE /\ line.name = nm /\ line.rest = <<"0">>
    BY DEF Unlabelled
  <1>2. parseFloat(<<"0">>)
    BY NumbersAssumption DEF parseFloat
  <1>3. SubSeq(<<"0">>, 1, 1) = <<"0">>
    <2>1. ASSUME NEW W, NEW t \in Seq(W), Len(t) = 1 PROVE SubSeq(t, 1, 1) = t
      BY <2>1
    <2>2. <<"0">> \in Seq({"0"}) /\ Len(<<"0">>) = 1
      OBVIOUS
    <2>3. QED
      BY <2>1, <2>2
  <1> HIDE DEF line
  <1>4. s.ok = TRUE /\ s.context = prometheusNameToContext(nm)
    BY <1>1, <1>2, <1>3 DEF parsePrometheusLine
  <1>5. Len(seqs) = 1 /\ seqs[1] = k
    <2> HIDE DEF s
    <2>1. QED
      BY DEF s
  <1>6. parsePrometheusResponse(<<line>>) = FlattenSeq(seqs)
    BY DEF parsePrometheusResponse
  <1> HIDE DEF s, seqs
  <1>7. parsePrometheusResponse(<<line>>) = k
    BY <1>5, <1>6, FlattenOne
  <1>8. <<s>> # <<>>
    OBVIOUS
  <1>9. QED
    BY <1>4, <1>7, <1>8 DEF line

-----------------------------------------------------------------------------
(* The filter of parsePrometheusResponse, whatever contexts are enabled,    *)
(* whatever names and units an agent has: an enabled context is never lost, *)
(* not even if its own words look like units or aggregations, and with a    *)
(* known unit nothing else is kept.                                         *)
THEOREM FilterExactAlways == Spec => []FilterExact
  <1>1. Init => FilterExact
    BY DEF Init, None, FilterExact
  <1>2. ASSUME FilterExact, [Next]_vars PROVE FilterExact'
    <2>1. ASSUME NEW name \in Names, NEW unit \in UnitWords, ReadName(name, unit)
          PROVE  FilterExact'
      <3>1. name \in Seq(Words) /\ unit \in Words /\ ~Contains(Aggregations, unit)
        <4>1. name \in Seq(STRING) /\ unit \in STRING /\ ~Contains(Aggregations, unit)
          BY NamesAssumption
        <4>2. STRING \subseteq Words
          BY DEF Words
        <4>3. QED
          BY <4>1, <4>2, Wider
      <3> DEFINE nm == MetricName(name, unit)
      <3>2. /\ input' = [kind |-> "name", name |-> name, unit |-> unit]
            /\ output' = parsePrometheusResponse(<<Unlabelled(nm)>>)
        BY <2>1, Zenon DEF ReadName, Unlabelled
      <3>3. input'.name = name /\ input'.unit = unit
        BY <3>2
      <3>4. output' # <<>> <=> Enabled(prometheusNameToContext(nm))
        BY <3>2, OneLine
      <3>5. /\ Wanted(name) => output' # <<>>
            /\ Contains(Units, unit) /\ output' # <<>> => Wanted(name)
        BY <3>1, <3>4, FilterOfName
      <3>6. QED
        BY <3>3, <3>5, Zenon DEF FilterExact, Wanted, Full
    <2>2. ASSUME input'.kind # "name" PROVE FilterExact'
      BY <2>2 DEF FilterExact
    <2>3. ASSUME NEW msg, NEW inner, NEW extra, Receive(msg, inner, extra)
          PROVE  input'.kind # "name"
      BY <2>3 DEF Receive
    <2>4. ASSUME NEW keys, NEW labels, ReadLine(keys, labels)
          PROVE  input'.kind # "name"
      BY <2>4 DEF ReadLine
    <2>5. ASSUME NEW values, NEW gaps, NEW shape, NEW status, NEW promStatus,
                 Poll(values, gaps, shape, status, promStatus)
          PROVE  input'.kind # "name"
      BY <2>5 DEF Poll
    <2>6. CASE Idle
      <3>1. input'.kind # "name"
        BY <2>6 DEF Idle, None
      <3>2. QED
        BY <2>2, <3>1
    <2>7. CASE Feed
      <3>1. CASE \E msg \in Messages, inner \in Extras, extra \in Extras :
                   Receive(msg, inner, extra)
        BY <2>2, <2>3, <3>1
      <3>2. CASE \E labels \in [LabelKeys -> LabelValues] :
                   \E keys \in {k \in [1..2 -> LabelKeys] : k[1] # k[2]} :
                      ReadLine(keys, labels)
        BY <2>2, <2>4, <3>2
      <3>3. CASE \E name \in Names, unit \in UnitWords : ReadName(name, unit)
        BY <2>1, <3>3
      <3>4. CASE \E values \in [1..Len(Dims) -> Numbers \cup {NotANumber}],
                    gaps \in SUBSET (1..Len(Dims)),
                    shape \in {"grouped", "flat", "objects", "other"},
                    status \in {0, 200, 503}, promStatus \in {0, 200, 503} :
                   Poll(values, gaps, shape, status, promStatus)
        BY <2>2, <2>5, <3>4
      <3>5. QED
        BY <2>7, <3>1, <3>2, <3>3, <3>4 DEF Feed
    <2>8. CASE UNCHANGED vars
      BY <1>2, <2>8 DEF vars, FilterExact
    <2>9. QED
      BY <1>2, <2>6, <2>7, <2>8 DEF Next
  <1>3. QED
    BY <1>1, <1>2, PTL DEF Spec

-----------------------------------------------------------------------------
(* Induction.  The library's induction theorems take an operator, which the *)
(* provers cannot instantiate; its theorem on minimal elements takes a set. *)
LEMMA SetInduction ==
    ASSUME NEW T, 0 \in T, \A n \in Nat : n \in T => n + 1 \in T
    PROVE  \A n \in Nat : n \in T
  <1> SUFFICES ASSUME Nat \ T # {} PROVE FALSE
    OBVIOUS
  <1> DEFINE R == OpToRel(<, Nat)
             U == Nat \ T
  <1>1. IsWellFoundedOn(R, Nat)
    BY NatLessThanWellFounded
  <1>2. \A x \in Nat, y \in Nat : x < y => <<x, y>> \in R
    BY DEF OpToRel
  <1>3. U \subseteq Nat /\ U # {}
    OBVIOUS
  <1> HIDE DEF R, U
  <1>4. PICK m \in U : \A k \in U : ~(<<k, m>> \in R)
    BY <1>1, <1>3, WFMin
  <1>5. m \in Nat /\ m \notin T /\ \A k \in Nat : k < m => k \in T
    BY <1>2, <1>4 DEF U
  <1>6. m # 0 /\ m - 1 \in Nat /\ m - 1 \in T
    BY <1>5
  <1>7. QED
    BY <1>5, <1>6

LEMMA Unstuck ==
    ASSUME NEW W, NEW s \in Seq(W), NEW n \in Nat, Len(s) = n + 1
    PROVE  /\ SubSeq(s, 1, n) \in Seq(W) /\ Len(SubSeq(s, 1, n)) = n
           /\ s[n + 1] \in W
           /\ s = SubSeq(s, 1, n) \o <<s[n + 1]>>
  <1>1. /\ SubSeq(s, 1, n) \in Seq(W) /\ Len(SubSeq(s, 1, n)) = n
        /\ \A i \in 1..n : SubSeq(s, 1, n)[i] = s[i]
        /\ s[n + 1] \in W
    OBVIOUS
  <1> DEFINE t == SubSeq(s, 1, n)
             u == t \o <<s[n + 1]>>
  <1> HIDE DEF t
  <1>2. /\ u \in Seq(W) /\ Len(u) = n + 1 /\ u[n + 1] = s[n + 1]
        /\ \A i \in 1..n : u[i] = t[i]
    BY <1>1, Stuck DEF t
  <1> HIDE DEF u
  <1>3. \A i \in 1..(n + 1) : u[i] = s[i]
    BY <1>1, <1>2 DEF t
  <1>4. u = s
    BY <1>2, <1>3
  <1>5. QED
    BY <1>1, <1>4 DEF t, u

LEMMA SeqInduction ==
    ASSUME NEW W, NEW T, <<>> \in T,
           \A s \in Seq(W), x \in W : s \in T => s \o <<x>> \in T
    PROVE  \A s \in Seq(W) : s \in T
  <1> DEFINE U == {n \in Nat : \A s \in Seq(W) : Len(s) = n => s \in T}
  <1>1. 0 \in U
    <2>1. \A s \in Seq(W) : Len(s) = 0 => s = <<>>
      OBVIOUS
    <2>2. QED
      BY <2>1
  <1>2. ASSUME NEW n \in Nat, n \in U PROVE n + 1 \in U
    <2> SUFFICES ASSUME NEW s \in Seq(W), Len(s) = n + 1 PROVE s \in T
      OBVIOUS
    <2> DEFINE t == SubSeq(s, 1, n)
               x == s[n + 1]
    <2>1. t \in Seq(W) /\ Len(t) = n /\ x \in W /\ s = t \o <<x>>
      BY Unstuck
    <2> HIDE DEF t, x
    <2>2. t \in T
      BY <1>2, <2>1
    <2>3. QED
      BY <2>1, <2>2
  <1> HIDE DEF U
  <1>3. \A n \in Nat : n \in U
    BY <1>1, <1>2, SetInduction
  <1>4. QED
    BY <1>3 DEF U

(* Sequences put together.                                                  *)
LEMMA Together ==
    ASSUME NEW W, NEW s \in Seq(W), NEW t \in Seq(W)
    PROVE  /\ s \o t \in Seq(W)
           /\ Len(s) \in Nat /\ Len(t) \in Nat /\ Len(s \o t) = Len(s) + Len(t)
           /\ \A i \in 1..Len(s) : (s \o t)[i] = s[i]
           /\ \A i \in 1..Len(t) : (s \o t)[Len(s) + i] = t[i]
           /\ s \o <<>> = s /\ <<>> \o s = s
  OBVIOUS

LEMMA Associative ==
    ASSUME NEW W, NEW s \in Seq(W), NEW t \in Seq(W), NEW u \in Seq(W)
    PROVE  (s \o t) \o u = s \o (t \o u)
  OBVIOUS

LEMMA TwoMore ==
    ASSUME NEW W, NEW s \in Seq(W), NEW x \in W, NEW y \in W
    PROVE  s \o <<x>> \in Seq(W) /\ (s \o <<x>>) \o <<y>> = s \o <<x, y>>
  <1> DEFINE p == (s \o <<x>>) \o <<y>>
             q == s \o <<x, y>>
             n == Len(s)
  <1>1. s \o <<x>> \in Seq(W)
    OBVIOUS
  <1>2. /\ p \in Seq(W) /\ Len(p) = n + 2 /\ n \in Nat /\ p[n + 1] = x /\ p[n + 2] = y
        /\ \A i \in 1..n : p[i] = s[i]
    OBVIOUS
  <1>3. /\ q \in Seq(W) /\ Len(q) = n + 2 /\ q[n + 1] = x /\ q[n + 2] = y
        /\ \A i \in 1..n : q[i] = s[i]
    OBVIOUS
  <1> HIDE DEF p, q, n
  <1>4. \A i \in 1..(n + 2) : i \in 1..n \/ i = n + 1 \/ i = n + 2
    BY <1>2
  <1>5. \A i \in 1..(n + 2) : p[i] = q[i]
    BY <1>2, <1>3, <1>4
  <1>6. p = q
    BY <1>2, <1>3, <1>5
  <1>7. QED
    BY <1>1, <1>6 DEF p, q

LEMMA AppendSecond ==
    ASSUME NEW x, NEW y
    PROVE  Append(<<x>>, y) = <<x, y>>
  <1> DEFINE W == {x, y}
             p == Append(<<x>>, y)
             q == <<x, y>>
  <1>1. /\ p \in Seq(W) /\ Len(p) = 2 /\ p[1] = x /\ p[2] = y
    OBVIOUS
  <1>2. /\ q \in Seq(W) /\ Len(q) = 2 /\ q[1] = x /\ q[2] = y
    OBVIOUS
  <1> HIDE DEF W, p, q
  <1>3. p = q
    BY <1>1, <1>2
  <1>4. QED
    BY <1>3 DEF p, q

LEMMA AppendSticks ==
    ASSUME NEW W, NEW s \in Seq(W), NEW x \in W
    PROVE  Append(s, x) = s \o <<x>> /\ <<x>> \in Seq(W) /\ <<>> \in Seq(W)
  OBVIOUS

-----------------------------------------------------------------------------
(* FlattenSeq, part by part.                                                *)
JoinsTo(f, n, seqs) ==
    f = [i \in 1..n |-> IF i = 1 THEN seqs[i] ELSE f[i - 1] \o seqs[i]]
JoinedUp(seqs) == CHOOSE f : JoinsTo(f, Len(seqs), seqs)

LEMMA JoinsExist ==
    ASSUME NEW seqs, NEW n \in Nat
    PROVE  \E f : JoinsTo(f, n, seqs)
  <1> DEFINE Solved(k) == \E f : JoinsTo(f, k, seqs)
             T == {k \in Nat : Solved(k)}
  <1>1. Solved(0)
    <2> DEFINE f == [i \in 1..0 |-> 0]
    <2>1. JoinsTo(f, 0, seqs)
      BY DEF JoinsTo
    <2> HIDE DEF f
    <2>2. QED
      BY <2>1
  <1>2. ASSUME NEW k \in Nat, Solved(k) PROVE Solved(k + 1)
    <2>1. PICK f : JoinsTo(f, k, seqs)
      BY <1>2
    <2> DEFINE new == IF k = 0 THEN seqs[1] ELSE f[k] \o seqs[k + 1]
               h == [i \in 1..(k + 1) |-> IF i = k + 1 THEN new ELSE f[i]]
    <2>2. ASSUME NEW i \in 1..(k + 1)
          PROVE  h[i] = IF i = 1 THEN seqs[i] ELSE h[i - 1] \o seqs[i]
      <3>1. CASE i = k + 1
        <4>1. h[i] = new
          BY <3>1
        <4>2. k # 0 => i # 1 /\ i - 1 = k /\ h[k] = f[k]
          BY <3>1
        <4> HIDE DEF h
        <4>3. QED
          BY <3>1, <4>1, <4>2
      <3>2. CASE i # k + 1
        <4>1. i \in 1..k
          BY <3>2
        <4>2. f[i] = IF i = 1 THEN seqs[i] ELSE f[i - 1] \o seqs[i]
          BY <2>1, <4>1 DEF JoinsTo
        <4>3. h[i] = f[i] /\ (i # 1 => h[i - 1] = f[i - 1])
          BY <3>2, <4>1
        <4> HIDE DEF h
        <4>4. QED
          BY <4>2, <4>3
      <3>3. QED
        BY <3>1, <3>2
    <2> HIDE DEF new
    <2>3. JoinsTo(h, k + 1, seqs)
      BY <2>2 DEF JoinsTo
    <2> HIDE DEF h
    <2>4. QED
      BY <2>3
  <1> HIDE DEF Solved
  <1>3. 0 \in T /\ \A k \in Nat : k \in T => k + 1 \in T
    BY <1>1, <1>2
  <1> HIDE DEF T
  <1>4. n \in T
    BY <1>3, SetInduction
  <1>5. QED
    BY <1>4 DEF T, Solved

LEMMA JoinsAgree ==
    ASSUME NEW s, NEW t, NEW n \in Nat, NEW m \in Nat,
           NEW f, JoinsTo(f, n, s), NEW g, JoinsTo(g, m, t),
           NEW j \in Nat, j <= n, j <= m, \A i \in 1..j : s[i] = t[i]
    PROVE  j # 0 => f[j] = g[j]
  <1> DEFINE T == {k \in Nat : k # 0 /\ k <= j => f[k] = g[k]}
  <1>1. \A i \in 1..j : /\ f[i] = IF i = 1 THEN s[i] ELSE f[i - 1] \o s[i]
                        /\ g[i] = IF i = 1 THEN t[i] ELSE g[i - 1] \o t[i]
    <2>1. \A i \in 1..j : i \in 1..n /\ i \in 1..m
      OBVIOUS
    <2>2. QED
      BY <2>1 DEF JoinsTo
  <1>2. 0 \in T
    OBVIOUS
  <1>3. ASSUME NEW k \in Nat, k \in T PROVE k + 1 \in T
    <2> SUFFICES ASSUME k + 1 <= j PROVE f[k + 1] = g[k + 1]
      OBVIOUS
    <2>1. k + 1 \in 1..j /\ (k + 1 # 1 <=> k # 0) /\ (k + 1) - 1 = k /\ k <= j
      OBVIOUS
    <2>2. k # 0 => f[k] = g[k]
      BY <1>3, <2>1
    <2>3. QED
      BY <1>1, <2>1, <2>2
  <1> HIDE DEF T
  <1>4. j \in T
    BY <1>2, <1>3, SetInduction
  <1>5. QED
    BY <1>4 DEF T

LEMMA JoinedSolves ==
    ASSUME NEW seqs, Len(seqs) \in Nat
    PROVE  /\ JoinsTo(JoinedUp(seqs), Len(seqs), seqs)
           /\ FlattenSeq(seqs) = IF Len(seqs) = 0 THEN seqs
                                 ELSE JoinedUp(seqs)[Len(seqs)]
  <1>1. \E f : JoinsTo(f, Len(seqs), seqs)
    BY JoinsExist
  <1>2. JoinsTo(JoinedUp(seqs), Len(seqs), seqs)
    BY <1>1, Zenon DEF JoinedUp
  <1>3. FlattenSeq(seqs) = IF Len(seqs) = 0 THEN seqs ELSE JoinedUp(seqs)[Len(seqs)]
    BY DEF FlattenSeq, JoinedUp, JoinsTo
  <1>4. QED
    BY <1>2, <1>3

LEMMA FlattenNext ==
    ASSUME NEW W, NEW s \in Seq(W), NEW x \in W
    PROVE  FlattenSeq(s \o <<x>>) = IF s = <<>> THEN x ELSE FlattenSeq(s) \o x
  <1> DEFINE t == s \o <<x>>
             n == Len(s)
  <1>1. /\ n \in Nat /\ Len(t) = n + 1 /\ t[n + 1] = x
        /\ \A i \in 1..n : t[i] = s[i]
    BY Stuck
  <1>2. s = <<>> <=> n = 0
    OBVIOUS
  <1> HIDE DEF t
  <1>3. /\ JoinsTo(JoinedUp(s), n, s) /\ FlattenSeq(s) = IF n = 0 THEN s ELSE JoinedUp(s)[n]
    BY <1>1, JoinedSolves
  <1> HIDE DEF n
  <1>4. JoinsTo(JoinedUp(t), n + 1, t) /\ FlattenSeq(t) = JoinedUp(t)[n + 1]
    BY <1>1, JoinedSolves
  <1> DEFINE f == JoinedUp(s)
             g == JoinedUp(t)
  <1>5. n # 0 => g[n] = f[n]
    BY <1>1, <1>3, <1>4, JoinsAgree
  <1>6. g[n + 1] = IF n + 1 = 1 THEN x ELSE g[n] \o x
    <2>1. \A i \in 1..(n + 1) : g[i] = IF i = 1 THEN t[i] ELSE g[i - 1] \o t[i]
      <3> HIDE DEF g
      <3>1. QED
        BY <1>4 DEF JoinsTo, g
    <2>2. n + 1 \in 1..(n + 1) /\ (n + 1) - 1 = n
      BY <1>1
    <2>3. QED
      BY <1>1, <2>1, <2>2
  <1>7. n + 1 = 1 <=> n = 0
    BY <1>1
  <1>8. FlattenSeq(t) = IF s = <<>> THEN x ELSE FlattenSeq(s) \o x
    BY <1>2, <1>3, <1>4, <1>5, <1>6, <1>7
  <1>9. QED
    BY <1>8 DEF t

LEMMA FlattenNone == FlattenSeq(<<>>) = <<>>
  BY DEF FlattenSeq

LEMMA FlattenAppend ==
    ASSUME NEW W, NEW s \in Seq(Seq(W)), NEW x \in Seq(W)
    PROVE  /\ FlattenSeq(s) \in Seq(W)
           /\ FlattenSeq(s \o <<x>>) = FlattenSeq(s) \o x
  <1> DEFINE Q == Seq(W)
             T == {u \in Seq(Q) : FlattenSeq(u) \in Q}
  <1>1. <<>> \in T
    <2>1. <<>> \in Seq(Q) /\ <<>> \in Q
      OBVIOUS
    <2>2. QED
      BY <2>1, FlattenNone
  <1>2. ASSUME NEW a \in Q, NEW b \in Q PROVE a \o b \in Q /\ <<>> \o b = b
    BY Together
  <1> HIDE DEF Q
  <1>3. ASSUME NEW u \in Seq(Q), NEW y \in Q, u \in T PROVE u \o <<y>> \in T
    <2>1. u \o <<y>> \in Seq(Q)
      BY Stuck
    <2>2. FlattenSeq(u \o <<y>>) = IF u = <<>> THEN y ELSE FlattenSeq(u) \o y
      BY FlattenNext
    <2>3. FlattenSeq(u) \in Q
      BY <1>3
    <2>4. FlattenSeq(u) \o y \in Q
      BY <1>2, <2>3
    <2>5. QED
      BY <2>1, <2>2, <2>4
  <1> HIDE DEF T
  <1>4. s \in T
    <2>1. \A u \in Seq(Q) : u \in T
      BY <1>1, <1>3, SeqInduction
    <2>2. QED
      BY <2>1 DEF Q
  <1>5. x \in Q /\ s \in Seq(Q) /\ FlattenSeq(s) \in Q
    BY <1>4 DEF T, Q
  <1>6. FlattenSeq(s \o <<x>>) = IF s = <<>> THEN x ELSE FlattenSeq(s) \o x
    BY <1>5, FlattenNext
  <1>7. <<>> \o x = x
    BY <1>2, <1>5
  <1>8. FlattenSeq(s \o <<x>>) = FlattenSeq(s) \o x
    BY <1>6, <1>7, FlattenNone
  <1>9. QED
    BY <1>5, <1>8 DEF Q

-----------------------------------------------------------------------------
(* splitLabels, character by character.                                     *)
Fresh == Scanner(<<>>, <<>>, FALSE, FALSE)
Scans(f, n, text) ==
    f = [i \in 0..n |-> IF i = 0 THEN Fresh ELSE ScanChar(f[i - 1], text[i])]
Scanned(text) == CHOOSE f : Scans(f, Len(text), text)
After(text) == Scanned(text)[Len(text)]

LEMMA ScansExist ==
    ASSUME NEW text, NEW n \in Nat
    PROVE  \E f : Scans(f, n, text)
  <1> DEFINE Solved(k) == \E f : Scans(f, k, text)
             T == {k \in Nat : Solved(k)}
  <1>1. Solved(0)
    <2> DEFINE f == [i \in 0..0 |-> Fresh]
    <2>1. \A i \in 0..0 : i = 0
      OBVIOUS
    <2>2. Scans(f, 0, text)
      BY <2>1 DEF Scans
    <2> HIDE DEF f
    <2>3. QED
      BY <2>2
  <1>2. ASSUME NEW k \in Nat, Solved(k) PROVE Solved(k + 1)
    <2>1. PICK f : Scans(f, k, text)
      BY <1>2
    <2> DEFINE new == ScanChar(f[k], text[k + 1])
               h == [i \in 0..(k + 1) |-> IF i = k + 1 THEN new ELSE f[i]]
    <2>2. ASSUME NEW i \in 0..(k + 1)
          PROVE  h[i] = IF i = 0 THEN Fresh ELSE ScanChar(h[i - 1], text[i])
      <3>1. CASE i = k + 1
        <4>1. h[i] = new /\ i # 0 /\ i - 1 = k /\ h[k] = f[k]
          BY <3>1
        <4> HIDE DEF h
        <4>2. QED
          BY <3>1, <4>1
      <3>2. CASE i # k + 1
        <4>1. i \in 0..k
          BY <3>2
        <4>2. f[i] = IF i = 0 THEN Fresh ELSE ScanChar(f[i - 1], text[i])
          BY <2>1, <4>1 DEF Scans
        <4>3. h[i] = f[i] /\ (i # 0 => h[i - 1] = f[i - 1])
          BY <3>2, <4>1
        <4> HIDE DEF h
        <4>4. QED
          BY <4>2, <4>3
      <3>3. QED
        BY <3>1, <3>2
    <2> HIDE DEF new
    <2>3. Scans(h, k + 1, text)
      BY <2>2 DEF Scans
    <2> HIDE DEF h
    <2>4. QED
      BY <2>3
  <1> HIDE DEF Solved
  <1>3. 0 \in T /\ \A k \in Nat : k \in T => k + 1 \in T
    BY <1>1, <1>2
  <1> HIDE DEF T
  <1>4. n \in T
    BY <1>3, SetInduction
  <1>5. QED
    BY <1>4 DEF T, Solved

LEMMA ScansStep ==
    ASSUME NEW f, NEW n \in Nat, NEW text, Scans(f, n, text)
    PROVE  /\ f[0] = Fresh
           /\ \A i \in 1..n : f[i] = ScanChar(f[i - 1], text[i])
  <1>1. 0 \in 0..n /\ \A i \in 1..n : i \in 0..n /\ i # 0
    OBVIOUS
  <1>2. QED
    BY <1>1 DEF Scans

LEMMA ScansAgree ==
    ASSUME NEW s, NEW t, NEW n \in Nat, NEW m \in Nat,
           NEW f, Scans(f, n, s), NEW g, Scans(g, m, t),
           NEW j \in Nat, j <= n, j <= m, \A i \in 1..j : s[i] = t[i]
    PROVE  f[j] = g[j]
  <1> DEFINE T == {k \in Nat : k <= j => f[k] = g[k]}
  <1>1. /\ f[0] = Fresh /\ g[0] = Fresh
        /\ \A i \in 1..n : f[i] = ScanChar(f[i - 1], s[i])
        /\ \A i \in 1..m : g[i] = ScanChar(g[i - 1], t[i])
    BY ScansStep
  <1>2. 0 \in T
    BY <1>1
  <1>3. ASSUME NEW k \in Nat, k \in T PROVE k + 1 \in T
    <2> SUFFICES ASSUME k + 1 <= j PROVE f[k + 1] = g[k + 1]
      OBVIOUS
    <2>1. k + 1 \in 1..j /\ k + 1 \in 1..n /\ k + 1 \in 1..m /\ (k + 1) - 1 = k /\ k <= j
      OBVIOUS
    <2>2. f[k] = g[k]
      BY <1>3, <2>1
    <2>3. QED
      BY <1>1, <2>1, <2>2
  <1> HIDE DEF T
  <1>4. j \in T
    BY <1>2, <1>3, SetInduction
  <1>5. QED
    BY <1>4 DEF T

LEMMA ScannedSolves ==
    ASSUME NEW text, Len(text) \in Nat
    PROVE  /\ Scans(Scanned(text), Len(text), text)
           /\ splitLabels(text) = Push(After(text)).done
  <1>1. \E f : Scans(f, Len(text), text)
    BY ScansExist
  <1>2. Scans(Scanned(text), Len(text), text)
    BY <1>1, Zenon DEF Scanned
  <1>3. splitLabels(text) = Push(After(text)).done
    BY DEF splitLabels, After, Scanned, Scans, Fresh
  <1>4. QED
    BY <1>2, <1>3

LEMMA AfterNothing == After(<<>>) = Fresh
  <1> DEFINE e == <<>>
  <1>1. Len(e) = 0
    OBVIOUS
  <1> HIDE DEF e
  <1>2. Scans(Scanned(e), 0, e)
    BY <1>1, ScannedSolves
  <1>3. Scanned(e)[0] = Fresh
    BY <1>2, ScansStep
  <1>4. QED
    BY <1>1, <1>3 DEF After, e

LEMMA AfterOneMore ==
    ASSUME NEW W, NEW s \in Seq(W), NEW x \in W
    PROVE  After(s \o <<x>>) = ScanChar(After(s), x)
  <1> DEFINE t == s \o <<x>>
             n == Len(s)
  <1>1. /\ n \in Nat /\ Len(t) = n + 1 /\ t[n + 1] = x
        /\ \A i \in 1..n : t[i] = s[i]
    BY Stuck
  <1> HIDE DEF t
  <1>2. Scans(Scanned(s), n, s)
    BY <1>1, ScannedSolves
  <1>3. After(s) = Scanned(s)[n]
    BY DEF After
  <1> HIDE DEF n
  <1>4. Scans(Scanned(t), n + 1, t) /\ After(t) = Scanned(t)[n + 1]
    BY <1>1, ScannedSolves DEF After
  <1> DEFINE f == Scanned(s)
             g == Scanned(t)
  <1> HIDE DEF f, g
  <1>5. g[n] = f[n]
    <2>1. Scans(f, n, s) /\ Scans(g, n + 1, t) /\ n + 1 \in Nat /\ n <= n /\ n <= n + 1
      BY <1>1, <1>2, <1>4 DEF f, g
    <2>2. \A i \in 1..n : s[i] = t[i]
      BY <1>1
    <2>3. QED
      BY <1>1, <2>1, <2>2, ScansAgree
  <1>6. g[n + 1] = ScanChar(g[n], x)
    <2>1. \A i \in 1..(n + 1) : g[i] = ScanChar(g[i - 1], t[i])
      BY <1>1, <1>4, ScansStep DEF g
    <2>2. n + 1 \in 1..(n + 1) /\ (n + 1) - 1 = n
      BY <1>1
    <2>3. QED
      BY <1>1, <2>1, <2>2
  <1>7. After(t) = ScanChar(After(s), x)
    BY <1>3, <1>4, <1>5, <1>6 DEF f, g
  <1>8. QED
    BY <1>7 DEF t

-----------------------------------------------------------------------------
(* The characters of a line, and those that splitLabels merely copies.      *)
Chars == STRING \cup {",", "=", "\"", "\\", CloseBrace, "d"}
Plain == Chars \ {",", "\"", "\\"}

(* The translation to SMT cannot handle the literal that CloseBrace stands  *)
(* for.                                                                     *)
LEMMA BraceDiffers == CloseBrace \notin {",", "=", "\"", "\\", "0", "d"}
  BY Zenon DEF CloseBrace

LEMMA SpecialChars ==
    /\ "," \in Chars /\ "=" \in Chars /\ "\"" \in Chars /\ "\\" \in Chars /\ CloseBrace \in Chars
    /\ "=" \in Plain /\ "d" \in Plain /\ "d" \in Chars
  BY DEF Chars, Plain

(* One pass of the loop, by the state it starts in and the character.       *)
LEMMA ScanPlain ==
    ASSUME NEW d, NEW c, NEW ch \in Plain
    PROVE  ScanChar(Scanner(d, c, FALSE, FALSE), ch) = Scanner(d, Append(c, ch), FALSE, FALSE)
  <1>1. ch \notin {",", "\"", "\\"}
    BY DEF Plain
  <1>2. QED
    BY <1>1 DEF ScanChar, Scanner

LEMMA ScanInQuotes ==
    ASSUME NEW d, NEW c, NEW ch, ch \notin {"\"", "\\"}
    PROVE  ScanChar(Scanner(d, c, TRUE, FALSE), ch) = Scanner(d, Append(c, ch), TRUE, FALSE)
  BY DEF ScanChar, Scanner

LEMMA ScanBackslash ==
    ASSUME NEW d, NEW c
    PROVE  ScanChar(Scanner(d, c, TRUE, FALSE), "\\") = Scanner(d, Append(c, "\\"), TRUE, TRUE)
  BY DEF ScanChar, Scanner

LEMMA ScanHidden ==
    ASSUME NEW d, NEW c, NEW ch
    PROVE  ScanChar(Scanner(d, c, TRUE, TRUE), ch) = Scanner(d, Append(c, ch), TRUE, FALSE)
  BY DEF ScanChar, Scanner

LEMMA ScanOpening ==
    ASSUME NEW d, NEW c
    PROVE  ScanChar(Scanner(d, c, FALSE, FALSE), "\"") = Scanner(d, Append(c, "\""), TRUE, FALSE)
  BY DEF ScanChar, Scanner

LEMMA ScanClosing ==
    ASSUME NEW d, NEW c
    PROVE  ScanChar(Scanner(d, c, TRUE, FALSE), "\"") = Scanner(d, Append(c, "\""), FALSE, FALSE)
  BY DEF ScanChar, Scanner

LEMMA ScanComma ==
    ASSUME NEW d, NEW c, c # <<>>
    PROVE  ScanChar(Scanner(d, c, FALSE, FALSE), ",") = Scanner(Append(d, c), <<>>, FALSE, FALSE)
  BY DEF ScanChar, Scanner, Push

(* After t the scanner is between quoted texts, or inside one, with the     *)
(* pieces d behind it and c of the current one.                             *)
Between(t, d, c) == After(t) = Scanner(d, c, FALSE, FALSE)
Quoted(t, d, c) == After(t) = Scanner(d, c, TRUE, FALSE)

LEMMA StepPlain ==
    ASSUME NEW t \in Seq(Chars), NEW d, NEW c \in Seq(Chars), Between(t, d, c),
           NEW ch \in Plain
    PROVE  Between(t \o <<ch>>, d, c \o <<ch>>)
  <1>1. ch \in Chars
    BY DEF Plain
  <1>2. After(t \o <<ch>>) = ScanChar(After(t), ch) /\ Append(c, ch) = c \o <<ch>>
    BY <1>1, AfterOneMore, AppendSticks
  <1>3. ScanChar(Scanner(d, c, FALSE, FALSE), ch) = Scanner(d, Append(c, ch), FALSE, FALSE)
    BY ScanPlain
  <1>4. QED
    BY <1>2, <1>3 DEF Between

LEMMA StepInside ==
    ASSUME NEW t \in Seq(Chars), NEW d, NEW c \in Seq(Chars), Quoted(t, d, c),
           NEW ch \in Chars, ch \notin {"\"", "\\"}
    PROVE  Quoted(t \o <<ch>>, d, c \o <<ch>>)
  <1>1. After(t \o <<ch>>) = ScanChar(After(t), ch) /\ Append(c, ch) = c \o <<ch>>
    BY AfterOneMore, AppendSticks
  <1>2. ScanChar(Scanner(d, c, TRUE, FALSE), ch) = Scanner(d, Append(c, ch), TRUE, FALSE)
    BY ScanInQuotes
  <1>3. QED
    BY <1>1, <1>2 DEF Quoted

LEMMA StepEscaped ==
    ASSUME NEW t \in Seq(Chars), NEW d, NEW c \in Seq(Chars), Quoted(t, d, c),
           NEW ch \in Chars
    PROVE  Quoted(t \o <<"\\", ch>>, d, c \o <<"\\", ch>>)
  <1> DEFINE y == "\\"
             t2 == t \o <<y>>
             c2 == c \o <<y>>
  <1>1. y \in Chars
    BY SpecialChars
  <1>2. ScanChar(Scanner(d, c, TRUE, FALSE), y) = Scanner(d, Append(c, y), TRUE, TRUE)
    BY ScanBackslash
  <1> HIDE DEF y
  <1>3. /\ t2 \in Seq(Chars) /\ t2 \o <<ch>> = t \o <<y, ch>>
        /\ c2 \in Seq(Chars) /\ c2 \o <<ch>> = c \o <<y, ch>>
    <2>1. ASSUME NEW r \in Seq(Chars)
          PROVE  r \o <<y>> \in Seq(Chars) /\ (r \o <<y>>) \o <<ch>> = r \o <<y, ch>>
      BY <1>1, TwoMore
    <2>2. QED
      BY <2>1
  <1>4. After(t2) = ScanChar(After(t), y) /\ Append(c, y) = c2
    BY <1>1, AfterOneMore, AppendSticks
  <1> HIDE DEF t2, c2
  <1>5. After(t2 \o <<ch>>) = ScanChar(After(t2), ch) /\ Append(c2, ch) = c2 \o <<ch>>
    BY <1>3, AfterOneMore, AppendSticks
  <1>6. ScanChar(Scanner(d, c2, TRUE, TRUE), ch) = Scanner(d, Append(c2, ch), TRUE, FALSE)
    BY ScanHidden
  <1>7. Quoted(t2 \o <<ch>>, d, c2 \o <<ch>>)
    BY <1>2, <1>4, <1>5, <1>6 DEF Quoted
  <1>8. QED
    BY <1>3, <1>7 DEF y

LEMMA StepQuote ==
    ASSUME NEW t \in Seq(Chars), NEW d, NEW c \in Seq(Chars)
    PROVE  /\ Between(t, d, c) => Quoted(t \o <<"\"">>, d, c \o <<"\"">>)
           /\ Quoted(t, d, c) => Between(t \o <<"\"">>, d, c \o <<"\"">>)
  <1> DEFINE q == "\""
  <1>1. q \in Chars
    BY SpecialChars
  <1>2. /\ ScanChar(Scanner(d, c, FALSE, FALSE), q) = Scanner(d, Append(c, q), TRUE, FALSE)
        /\ ScanChar(Scanner(d, c, TRUE, FALSE), q) = Scanner(d, Append(c, q), FALSE, FALSE)
    BY ScanOpening, ScanClosing
  <1> HIDE DEF q
  <1>3. After(t \o <<q>>) = ScanChar(After(t), q) /\ Append(c, q) = c \o <<q>>
    BY <1>1, AfterOneMore, AppendSticks
  <1>4. /\ Between(t, d, c) => Quoted(t \o <<q>>, d, c \o <<q>>)
        /\ Quoted(t, d, c) => Between(t \o <<q>>, d, c \o <<q>>)
    BY <1>2, <1>3 DEF Between, Quoted
  <1>5. QED
    BY <1>4 DEF q

LEMMA StepComma ==
    ASSUME NEW t \in Seq(Chars), NEW d, NEW c, c # <<>>, Between(t, d, c)
    PROVE  Between(t \o <<",">>, Append(d, c), <<>>)
  <1> DEFINE x == ","
  <1>1. x \in Chars
    BY SpecialChars
  <1>2. ScanChar(Scanner(d, c, FALSE, FALSE), x) = Scanner(Append(d, c), <<>>, FALSE, FALSE)
    BY ScanComma
  <1> HIDE DEF x
  <1>3. After(t \o <<x>>) = ScanChar(After(t), x)
    BY <1>1, AfterOneMore
  <1>4. Between(t \o <<x>>, Append(d, c), <<>>)
    BY <1>2, <1>3 DEF Between
  <1>5. QED
    BY <1>4 DEF x

(* Copied characters, outside quotes.                                       *)
LEMMA PlainRun ==
    ASSUME NEW t \in Seq(Chars), NEW d, NEW c \in Seq(Chars),
           Between(t, d, c), NEW u \in Seq(Plain)
    PROVE  Between(t \o u, d, c \o u)
  <1> DEFINE T == {v \in Seq(Plain) : Between(t \o v, d, c \o v)}
  <1>1. <<>> \in T
    <2>1. <<>> \in Seq(Plain) /\ t \o <<>> = t /\ c \o <<>> = c
      BY Together
    <2>2. QED
      BY <2>1
  <1>2. ASSUME NEW v \in Seq(Plain), NEW x \in Plain, v \in T PROVE v \o <<x>> \in T
    <2>1. v \in Seq(Chars) /\ x \in Chars /\ v \o <<x>> \in Seq(Plain) /\ <<x>> \in Seq(Chars)
      <3>1. Plain \subseteq Chars
        BY DEF Plain
      <3>2. v \in Seq(Chars) /\ x \in Chars
        BY <3>1, Wider
      <3>3. QED
        BY <3>2, Stuck, AppendSticks
    <2>2. t \o v \in Seq(Chars) /\ c \o v \in Seq(Chars)
      BY <2>1, Together
    <2>3. /\ (t \o v) \o <<x>> = t \o (v \o <<x>>)
          /\ (c \o v) \o <<x>> = c \o (v \o <<x>>)
      BY <2>1
    <2> DEFINE a == t \o v
               b == c \o v
    <2>4. a \in Seq(Chars) /\ b \in Seq(Chars) /\ Between(a, d, b)
      BY <1>2, <2>2
    <2> HIDE DEF a, b
    <2>5. Between(a \o <<x>>, d, b \o <<x>>)
      BY <2>4, StepPlain
    <2>8. Between(t \o (v \o <<x>>), d, c \o (v \o <<x>>))
      BY <2>3, <2>5 DEF a, b
    <2>9. QED
      BY <2>1, <2>8
  <1> HIDE DEF T
  <1>3. u \in T
    BY <1>1, <1>2, SeqInduction
  <1>4. QED
    BY <1>3 DEF T

(* A value as it is escaped, character by character.                        *)
Escaped(ch) == IF ch \in {"\"", "\\"} THEN <<"\\", ch>> ELSE <<ch>>

LEMMA EscapedFacts ==
    ASSUME NEW ch \in Chars
    PROVE  /\ Escaped(ch) \in Seq(Chars)
           /\ Len(Escaped(ch)) \in 1..2
           /\ Escaped(ch)[1] # "\""
           /\ Escaped(ch)[Len(Escaped(ch))] = ch
           /\ ch # CloseBrace => \A i \in 1..Len(Escaped(ch)) : Escaped(ch)[i] # CloseBrace
  <1>1. CASE ch \in {"\"", "\\"}
    <2> DEFINE y == "\\"
               e == <<y, ch>>
    <2>1. y \in Chars /\ y # CloseBrace
      BY SpecialChars, BraceDiffers
    <2>2. y # "\""
      OBVIOUS
    <2>3. Escaped(ch) = e
      BY <1>1 DEF Escaped
    <2> HIDE DEF y
    <2>4. e \in Seq(Chars) /\ Len(e) = 2 /\ e[1] = y /\ e[2] = ch
      BY <2>1
    <2> HIDE DEF e
    <2>5. ch # CloseBrace => \A i \in 1..Len(e) : e[i] # CloseBrace
      BY <2>1, <2>4
    <2>6. Len(e) \in 1..2 /\ e[Len(e)] = ch
      BY <2>4
    <2>7. QED
      BY <2>3, <2>4, <2>5, <2>6, <2>2, Zenon
  <1>2. CASE ch \notin {"\"", "\\"}
    <2> DEFINE e == <<ch>>
    <2>1. e \in Seq(Chars) /\ Len(e) = 1 /\ e[1] = ch
      OBVIOUS
    <2>2. Escaped(ch) = e
      BY <1>2 DEF Escaped
    <2> HIDE DEF e
    <2>3. ch # CloseBrace => \A i \in 1..Len(e) : e[i] # CloseBrace
      BY <2>1
    <2>4. Len(e) \in 1..2 /\ e[Len(e)] = ch
      BY <2>1
    <2>5. ch # "\""
      BY <1>2
    <2>6. QED
      BY <2>1, <2>2, <2>3, <2>4, <2>5, Zenon
  <1>3. QED
    BY <1>1, <1>2

LEMMA EscapeNothing == EscapeValue(<<>>) = <<>>
  <1>1. Len(<<>>) = 0 /\ 1..0 = {}
    OBVIOUS
  <1>2. [i \in 1..Len(<<>>) |-> Escaped(<<>>[i])] = <<>>
    BY <1>1
  <1>3. EscapeValue(<<>>) = FlattenSeq([i \in 1..Len(<<>>) |-> Escaped(<<>>[i])])
    BY DEF EscapeValue, Escaped
  <1>4. QED
    BY <1>2, <1>3, FlattenNone

LEMMA EscapeOneMore ==
    ASSUME NEW v \in Seq(Chars), NEW ch \in Chars
    PROVE  /\ EscapeValue(v) \in Seq(Chars)
           /\ EscapeValue(v \o <<ch>>) = EscapeValue(v) \o Escaped(ch)
  <1> DEFINE parts(s) == [i \in 1..Len(s) |-> Escaped(s[i])]
             w == v \o <<ch>>
             Q == Seq(Chars)
  <1>1. /\ Len(v) \in Nat /\ w \in Seq(Chars) /\ Len(w) = Len(v) + 1 /\ w[Len(v) + 1] = ch
        /\ \A i \in 1..Len(v) : w[i] = v[i]
    BY Stuck
  <1>2. Escaped(ch) \in Q /\ \A i \in 1..Len(v) : Escaped(v[i]) \in Q
    <2>1. \A i \in 1..Len(v) : v[i] \in Chars
      OBVIOUS
    <2>2. QED
      BY <2>1, EscapedFacts
  <1> HIDE DEF w, Q
  <1>3. parts(v) \in Seq(Q) /\ Len(parts(v)) = Len(v)
    BY <1>1, <1>2
  <1>4. parts(w) = parts(v) \o <<Escaped(ch)>>
    <2> DEFINE p == parts(v)
               q == p \o <<Escaped(ch)>>
    <2>1. \A i \in 1..Len(v) : p[i] = Escaped(v[i])
      BY <1>1
    <2>2. p \in Seq(Q) /\ Len(p) = Len(v)
      BY <1>3
    <2> HIDE DEF p
    <2>3. /\ q \in Seq(Q) /\ Len(q) = Len(v) + 1 /\ q[Len(v) + 1] = Escaped(ch)
          /\ \A i \in 1..Len(v) : q[i] = p[i]
      BY <1>2, <2>2, Stuck
    <2> HIDE DEF q
    <2>4. \A i \in 1..(Len(v) + 1) : q[i] = Escaped(w[i])
      <3> SUFFICES ASSUME NEW i \in 1..(Len(v) + 1) PROVE q[i] = Escaped(w[i])
        OBVIOUS
      <3>1. i = Len(v) + 1 \/ i \in 1..Len(v)
        BY <1>1
      <3>2. QED
        BY <1>1, <2>1, <2>3, <3>1
    <2>5. q = parts(w)
      BY <1>1, <2>3, <2>4
    <2>6. QED
      BY <2>5 DEF q, p
  <1>5. EscapeValue(v) = FlattenSeq(parts(v)) /\ EscapeValue(w) = FlattenSeq(parts(w))
    BY DEF EscapeValue, Escaped
  <1> HIDE DEF parts
  <1>6. FlattenSeq(parts(v)) \in Q /\ FlattenSeq(parts(w)) = FlattenSeq(parts(v)) \o Escaped(ch)
    BY <1>2, <1>3, <1>4, FlattenAppend DEF Q
  <1>7. QED
    BY <1>5, <1>6 DEF Q, w

(* Inside quotes an escaped value is copied, whatever is in it.             *)
LEMMA QuotedRun ==
    ASSUME NEW t \in Seq(Chars), NEW d, NEW c \in Seq(Chars),
           Quoted(t, d, c), NEW v \in Seq(Chars)
    PROVE  Quoted(t \o EscapeValue(v), d, c \o EscapeValue(v))
  <1> DEFINE T == {u \in Seq(Chars) :
                     Quoted(t \o EscapeValue(u), d, c \o EscapeValue(u))}
  <1>1. <<>> \in T
    <2>1. <<>> \in Seq(Chars) /\ t \o <<>> = t /\ c \o <<>> = c
      BY Together
    <2>2. QED
      BY <2>1, EscapeNothing
  <1>2. ASSUME NEW u \in Seq(Chars), NEW x \in Chars, u \in T PROVE u \o <<x>> \in T
    <2> DEFINE e == EscapeValue(u)
               a == t \o e
               b == c \o e
    <2>1. e \in Seq(Chars) /\ EscapeValue(u \o <<x>>) = e \o Escaped(x)
      BY EscapeOneMore
    <2>2. u \o <<x>> \in Seq(Chars) /\ Escaped(x) \in Seq(Chars)
      BY Stuck, EscapedFacts
    <2> HIDE DEF e
    <2>3. /\ a \in Seq(Chars) /\ b \in Seq(Chars)
          /\ a \o Escaped(x) = t \o (e \o Escaped(x))
          /\ b \o Escaped(x) = c \o (e \o Escaped(x))
      <3>1. ASSUME NEW q \in Seq(Chars), NEW r \in Seq(Chars), NEW k \in Seq(Chars)
            PROVE  (q \o r) \o k = q \o (r \o k)
        OBVIOUS
      <3>2. a \in Seq(Chars) /\ b \in Seq(Chars)
        BY <2>1, Together
      <3> DEFINE z == Escaped(x)
      <3>3. z \in Seq(Chars) /\ e \in Seq(Chars)
        BY <2>1, <2>2
      <3> HIDE DEF z
      <3>4. (t \o e) \o z = t \o (e \o z)
        BY <3>1, <3>3
      <3>5. (c \o e) \o z = c \o (e \o z)
        BY <3>1, <3>3
      <3>6. QED
        BY <3>2, <3>4, <3>5 DEF z
    <2>4. Quoted(a, d, b)
      BY <1>2 DEF e
    <2> HIDE DEF a, b
    <2>5. Quoted(a \o Escaped(x), d, b \o Escaped(x))
      <3>1. CASE x \in {"\"", "\\"}
        <4>1. Escaped(x) = <<"\\", x>>
          BY <3>1 DEF Escaped
        <4>2. Quoted(a \o <<"\\", x>>, d, b \o <<"\\", x>>)
          BY <2>3, <2>4, StepEscaped
        <4>3. QED
          BY <4>1, <4>2
      <3>2. CASE x \notin {"\"", "\\"}
        <4>1. Escaped(x) = <<x>>
          BY <3>2 DEF Escaped
        <4>2. Quoted(a \o <<x>>, d, b \o <<x>>)
          BY <2>3, <2>4, <3>2, StepInside
        <4>3. QED
          BY <4>1, <4>2
      <3>3. QED
        BY <3>1, <3>2
    <2>6. Quoted(t \o EscapeValue(u \o <<x>>), d, c \o EscapeValue(u \o <<x>>))
      BY <2>1, <2>3, <2>5
    <2>7. QED
      BY <2>2, <2>6
  <1> HIDE DEF T
  <1>3. v \in T
    BY <1>1, <1>2, SeqInduction
  <1>4. QED
    BY <1>3 DEF T

(* A label that splitLabels comes to between two pieces becomes a piece.    *)
LEMMA PairRun ==
    ASSUME NEW t \in Seq(Chars), NEW d, Between(t, d, <<>>),
           NEW k \in Seq(Plain), NEW v \in Seq(Chars)
    PROVE  /\ LabelPair(k, v) \in Seq(Chars) /\ LabelPair(k, v) # <<>>
           /\ Between(t \o LabelPair(k, v), d, LabelPair(k, v))
  <1> DEFINE eq == "="
             q == "\""
             e == EscapeValue(v)
             k2 == k \o <<eq>>
             k3 == k2 \o <<q>>
             k4 == k3 \o e
             k5 == k4 \o <<q>>
  <1>1. eq \in Plain /\ eq \in Chars /\ q \in Chars
    BY SpecialChars
  <1>2. e \in Seq(Chars)
    BY EscapeOneMore, SpecialChars
  <1>3. k \in Seq(Chars)
    <2>1. Plain \subseteq Chars
      BY DEF Plain
    <2>2. QED
      BY <2>1, Wider
  <1>4. LabelPair(k, v) = ((k \o <<eq, q>>) \o e) \o <<q>>
    BY DEF LabelPair
  <1>5. ASSUME NEW r \in Seq(Chars), NEW c \in Seq(Chars)
        PROVE  /\ Between(r, d, c) => Quoted(r \o <<q>>, d, c \o <<q>>)
               /\ Quoted(r, d, c) => Between(r \o <<q>>, d, c \o <<q>>)
    BY StepQuote
  <1> HIDE DEF eq, q, e
  <1>7. k2 \in Seq(Plain) /\ k2 \in Seq(Chars)
    BY <1>1, <1>3, Stuck
  <1>8. k3 \in Seq(Chars) /\ k3 = k \o <<eq, q>>
    <2>1. (k \o <<eq>>) \o <<q>> = k \o <<eq, q>>
      BY <1>1, <1>3, TwoMore
    <2>2. ASSUME NEW r \in Seq(Chars) PROVE r \o <<q>> \in Seq(Chars)
      BY <1>1, Stuck
    <2>3. QED
      BY <1>7, <2>1, <2>2
  <1> HIDE DEF k2
  <1>9. Between(t \o k2, d, k2) /\ t \o k2 \in Seq(Chars)
    <2> DEFINE nil == <<>>
    <2>1. nil \in Seq(Chars) /\ nil \o k2 = k2 /\ Between(t, d, nil)
      BY <1>7, Together
    <2> HIDE DEF nil
    <2>2. Between(t \o k2, d, nil \o k2)
      BY <1>7, <2>1, PlainRun
    <2>3. QED
      BY <1>7, <2>1, <2>2, Together
  <1>10. Quoted((t \o k2) \o <<q>>, d, k3)
    BY <1>5, <1>7, <1>9
  <1>11. (t \o k2) \o <<q>> = t \o k3
    BY <1>1, <1>7
  <1> HIDE DEF k3
  <1>12. t \o k3 \in Seq(Chars) /\ k4 \in Seq(Chars)
    BY <1>2, <1>8, Together
  <1>13. Quoted((t \o k3) \o e, d, k4)
    <2> DEFINE w == t \o k3
    <2>1. w \in Seq(Chars) /\ Quoted(w, d, k3) /\ k3 \in Seq(Chars)
      BY <1>8, <1>10, <1>11, <1>12
    <2> HIDE DEF w
    <2>2. Quoted(w \o EscapeValue(v), d, k3 \o EscapeValue(v))
      BY <2>1, QuotedRun
    <2>3. QED
      BY <2>2 DEF e, w
  <1>14. (t \o k3) \o e = t \o k4
    BY <1>2, <1>8
  <1> HIDE DEF k4
  <1>15. t \o k4 \in Seq(Chars)
    BY <1>12, Together
  <1>16. Between((t \o k4) \o <<q>>, d, k5)
    BY <1>5, <1>12, <1>13, <1>14, <1>15
  <1>17. (t \o k4) \o <<q>> = t \o k5
    BY <1>1, <1>12
  <1>18. k5 \in Seq(Chars) /\ k5 # <<>>
    BY <1>1, <1>12
  <1>19. LabelPair(k, v) = k5
    BY <1>4, <1>8 DEF k4
  <1> HIDE DEF k5
  <1>20. QED
    BY <1>16, <1>17, <1>18, <1>19

(* The text of two labels, and that it is split between them.               *)
LEMMA TwoPairs ==
    ASSUME NEW keys \in [1..2 -> Seq(Plain)], NEW labels,
           labels[keys[1]] \in Seq(Chars), labels[keys[2]] \in Seq(Chars)
    PROVE  LET p1 == LabelPair(keys[1], labels[keys[1]])
               p2 == LabelPair(keys[2], labels[keys[2]])
           IN  /\ p1 \in Seq(Chars) /\ p2 \in Seq(Chars)
               /\ LabelText(keys, labels) = (p1 \o <<",">>) \o p2
               /\ splitLabels(LabelText(keys, labels)) = <<p1, p2>>
  <1> DEFINE p1 == LabelPair(keys[1], labels[keys[1]])
             p2 == LabelPair(keys[2], labels[keys[2]])
             c == ","
             t == (p1 \o <<c>>) \o p2
             nil == <<>>
             Q == Seq(Chars)
             part(i) == (IF i > 1 THEN <<c>> ELSE <<>>) \o LabelPair(keys[i], labels[keys[i]])
  <1>1. keys[1] \in Seq(Plain) /\ keys[2] \in Seq(Plain)
    OBVIOUS
  <1>2. nil \in Seq(Chars) /\ Between(nil, nil, <<>>)
    <2>1. nil \in Seq(Chars)
      OBVIOUS
    <2>2. Between(nil, nil, <<>>)
      BY AfterNothing, Zenon DEF Fresh, Between
    <2>3. QED
      BY <2>1, <2>2
  <1>3. /\ p1 \in Seq(Chars) /\ p1 # <<>> /\ p2 \in Seq(Chars) /\ p2 # <<>>
        /\ Between(nil \o p1, nil, p1)
    <2> HIDE DEF nil
    <2>1. QED
      BY <1>1, <1>2, PairRun
  <1>4. c \in Chars
    BY SpecialChars
  <1>5. ASSUME NEW r \in Seq(Chars), NEW d, NEW x, x # <<>>, Between(r, d, x)
        PROVE  Between(r \o <<c>>, Append(d, x), <<>>)
    BY <1>5, StepComma
  <1>6. LabelText(keys, labels) = FlattenSeq([i \in 1..Len(keys) |-> part(i)])
    BY DEF LabelText
  <1> HIDE DEF c
  <1>7. part(1) = <<>> \o p1 /\ part(2) = <<c>> \o p2
    OBVIOUS
  <1>8. Between(p1 \o <<c>>, <<p1>>, <<>>)
    <2>1. <<>> \o p1 = p1
      BY <1>3, Together
    <2>2. Append(<<>>, p1) = <<p1>>
      OBVIOUS
    <2>3. Between(p1, <<>>, p1)
      BY <1>3, <2>1
    <2> HIDE DEF p1
    <2>4. QED
      BY <1>3, <1>5, <2>2, <2>3
  <1>9. p1 \o <<c>> \in Seq(Chars)
    BY <1>3, <1>4, Stuck
  <1>10. Between(t, <<p1>>, p2)
    <2> DEFINE w == p1 \o <<c>>
               d == <<p1>>
    <2>1. w \in Seq(Chars) /\ Between(w, d, <<>>)
      BY <1>8, <1>9
    <2> HIDE DEF w, d
    <2>2. Between(w \o p2, d, p2)
      BY <1>1, <2>1, PairRun
    <2>3. QED
      BY <2>2 DEF w, d
  <1>11. t \in Seq(Chars) /\ Len(t) \in Nat
    BY <1>3, <1>9, Together
  <1> HIDE DEF p1, p2
  <1>12. LabelText(keys, labels) = t
    <2>1. Len(keys) = 2
      OBVIOUS
    <2> DEFINE ps == [i \in 1..Len(keys) |-> part(i)]
               a == <<>> \o p1
               b == <<c>> \o p2
    <2>2. ps = <<a>> \o <<b>>
      <3> DEFINE r == <<a>> \o <<b>>
      <3>1. Len(r) = 2 /\ r[1] = a /\ r[2] = b /\ r \in Seq({a, b})
        OBVIOUS
      <3>2. ps = [i \in 1..2 |-> part(i)]
        BY <2>1
      <3>3. \A i \in 1..2 : i = 1 \/ i = 2
        OBVIOUS
      <3> HIDE DEF r, a, b, part
      <3>4. \A i \in 1..2 : r[i] = part(i)
        BY <1>7, <3>1, <3>3 DEF a, b
      <3>5. r = [i \in 1..2 |-> part(i)]
        BY <3>1, <3>4
      <3>6. QED
        BY <3>2, <3>5 DEF r
    <2>3. a = p1 /\ a \in Q /\ b \in Q
      BY <1>3, <1>4
    <2> HIDE DEF a, b, Q
    <2>4. FlattenSeq(<<a>>) = a
      BY FlattenOne
    <2>5. <<a>> \in Seq(Q) /\ <<a>> # <<>>
      BY <2>3
    <2>6. FlattenSeq(<<a>> \o <<b>>) = FlattenSeq(<<a>>) \o b
      BY <2>3, <2>5, FlattenNext
    <2>7. p1 \o b = t
      BY <1>3, <1>4 DEF b
    <2>8. QED
      BY <1>6, <2>2, <2>3, <2>4, <2>6, <2>7
  <1> HIDE DEF t
  <1>13. splitLabels(t) = Push(After(t)).done
    BY <1>11, ScannedSolves
  <1>14. Push(Scanner(<<p1>>, p2, FALSE, FALSE)) = Scanner(Append(<<p1>>, p2), <<>>, FALSE, FALSE)
    BY <1>3 DEF Push, Scanner
  <1>15. Append(<<p1>>, p2) = <<p1, p2>>
    BY AppendSecond
  <1>16. splitLabels(t) = <<p1, p2>>
    <2>1. \A x : Scanner(x, <<>>, FALSE, FALSE).done = x
      BY DEF Scanner
    <2>2. QED
      BY <1>10, <1>13, <1>14, <1>15, <2>1 DEF Between
  <1>17. QED
    BY <1>3, <1>12, <1>16 DEF p1, p2, t, c

-----------------------------------------------------------------------------
(* What LabelMap reads of a piece.                                          *)
LEMMA MinIs ==
    ASSUME NEW S, S \subseteq Nat, NEW x \in S, \A y \in S : x <= y
    PROVE  Min(S) = x /\ S # {}
  <1>1. \A y \in S : (\A z \in S : y <= z) => y = x
    OBVIOUS
  <1>2. Min(S) \in S /\ \A z \in S : Min(S) <= z
    BY DEF Min
  <1>3. QED
    BY <1>1, <1>2

LEMMA MaxIs ==
    ASSUME NEW S, S \subseteq Nat, NEW x \in S, \A y \in S : y <= x
    PROVE  Max(S) = x /\ S # {}
  <1>1. \A y \in S : (\A z \in S : y >= z) => y = x
    OBVIOUS
  <1>2. Max(S) \in S /\ \A z \in S : Max(S) >= z
    BY DEF Max
  <1>3. QED
    BY <1>1, <1>2

(* An escaped value begins with no quote, ends as the value does, and has   *)
(* only what the value has, or backslashes.                                 *)
LEMMA EscapeEnds ==
    ASSUME NEW v \in Seq(Chars)
    PROVE  /\ EscapeValue(v) \in Seq(Chars)
           /\ v = <<>> => EscapeValue(v) = <<>>
           /\ v # <<>> => /\ Len(EscapeValue(v)) >= 1
                          /\ EscapeValue(v)[1] # "\""
                          /\ EscapeValue(v)[Len(EscapeValue(v))] = v[Len(v)]
  <1> DEFINE q == "\""
             Good(u) == LET e == EscapeValue(u)
                        IN  u # <<>> => Len(e) >= 1 /\ e[1] # q /\ e[Len(e)] = u[Len(u)]
             T == {u \in Seq(Chars) : Good(u)}
  <1>1. \A x \in Chars : Escaped(x)[1] # q
    BY EscapedFacts
  <1> HIDE DEF q
  <1>2. <<>> \in T
    OBVIOUS
  <1>3. ASSUME NEW u \in Seq(Chars), NEW x \in Chars, u \in T PROVE u \o <<x>> \in T
    <2> DEFINE w == u \o <<x>>
               a == EscapeValue(u)
               b == Escaped(x)
               e == EscapeValue(w)
    <2>1. w \in Seq(Chars) /\ w[Len(w)] = x
      BY Stuck
    <2>2. a \in Seq(Chars) /\ e = a \o b
      BY EscapeOneMore
    <2>3. b \in Seq(Chars) /\ Len(b) \in 1..2 /\ b[1] # q /\ b[Len(b)] = x
      BY <1>1, EscapedFacts
    <2>4. u # <<>> => Len(a) >= 1 /\ a[1] # q
      BY <1>3
    <2>5. u = <<>> => a = <<>>
      BY EscapeNothing
    <2> HIDE DEF w, a, b, e
    <2>6. /\ Len(a) \in Nat /\ Len(b) \in Nat /\ Len(e) = Len(a) + Len(b)
          /\ \A i \in 1..Len(a) : e[i] = a[i]
          /\ \A i \in 1..Len(b) : e[Len(a) + i] = b[i]
      BY <2>2, <2>3, Together
    <2>7. Len(e) >= 1 /\ e[Len(e)] = x
      BY <2>3, <2>6
    <2>8. e[1] # q
      <3>1. CASE u = <<>>
        <4>1. Len(a) = 0 /\ e[0 + 1] = b[1]
          BY <2>3, <2>5, <2>6, <3>1
        <4>2. QED
          BY <2>3, <4>1
      <3>2. CASE u # <<>>
        BY <2>4, <2>6, <3>2
      <3>3. QED
        BY <3>1, <3>2
    <2>9. Good(w)
      BY <2>1, <2>7, <2>8 DEF e
    <2> HIDE DEF Good
    <2>10. QED
      BY <2>1, <2>9 DEF w
  <1> HIDE DEF T
  <1>4. v \in T
    BY <1>2, <1>3, SeqInduction
  <1>5. EscapeValue(v) \in Seq(Chars)
    BY EscapeOneMore, SpecialChars
  <1>6. v = <<>> => EscapeValue(v) = <<>>
    BY EscapeNothing
  <1>7. Good(v)
    BY <1>4 DEF T
  <1>8. QED
    BY <1>5, <1>6, <1>7 DEF q

LEMMA EscapeNoBrace ==
    ASSUME NEW v \in Seq(Chars \ {CloseBrace})
    PROVE  EscapeValue(v) \in Seq(Chars \ {CloseBrace})
  <1> DEFINE W == Chars \ {CloseBrace}
             T == {u \in Seq(W) : EscapeValue(u) \in Seq(W)}
  <1>1. <<>> \in T
    <2>1. <<>> \in Seq(W)
      OBVIOUS
    <2>2. QED
      BY <2>1, EscapeNothing
  <1>2. ASSUME NEW u \in Seq(W), NEW x \in W, u \in T PROVE u \o <<x>> \in T
    <2>1. u \in Seq(Chars) /\ x \in Chars /\ x # CloseBrace
      <3>1. W \subseteq Chars
        OBVIOUS
      <3>2. QED
        BY <3>1, Wider
    <2>2. EscapeValue(u \o <<x>>) = EscapeValue(u) \o Escaped(x)
      BY <2>1, EscapeOneMore
    <2>3. Escaped(x) \in Seq(W)
      <3> DEFINE b == Escaped(x)
      <3>1. b \in Seq(Chars) /\ \A i \in 1..Len(b) : b[i] # CloseBrace
        BY <2>1, EscapedFacts
      <3> HIDE DEF b
      <3>2. Len(b) \in Nat /\ \A i \in 1..Len(b) : b[i] \in W
        BY <3>1
      <3>3. b \in Seq(W)
        BY <3>1, <3>2
      <3>4. QED
        BY <3>3 DEF b
    <2> HIDE DEF W
    <2>4. u \o <<x>> \in Seq(W)
      BY Stuck
    <2>5. EscapeValue(u) \in Seq(W)
      BY <1>2
    <2>6. EscapeValue(u) \o Escaped(x) \in Seq(W)
      BY <2>3, <2>5, Together
    <2>7. QED
      BY <2>2, <2>4, <2>6
  <1> HIDE DEF T, W
  <1>3. v \in Seq(W)
    BY DEF W
  <1>4. v \in T
    BY <1>1, <1>2, <1>3, SeqInduction
  <1>5. QED
    BY <1>4 DEF T, W

(* Where the parts of a label are in its text.                              *)
Layout(p, W, k, eq, q, e, n, m) ==
    /\ p \in Seq(W) /\ n \in Nat /\ m \in Nat /\ Len(p) = n + m + 3
    /\ \A i \in 1..n : p[i] = k[i]
    /\ p[n + 1] = eq /\ p[n + 2] = q
    /\ \A i \in 1..m : p[n + 2 + i] = e[i]
    /\ p[n + m + 3] = q

LEMMA PairLayout ==
    ASSUME NEW W, NEW eq \in W, NEW q \in W, NEW k \in Seq(W), NEW e \in Seq(W),
           NEW n, n = Len(k), NEW m, m = Len(e)
    PROVE  Layout(((k \o <<eq, q>>) \o e) \o <<q>>, W, k, eq, q, e, n, m)
  <1> DEFINE a == k \o <<eq, q>>
             b == a \o e
             p == b \o <<q>>
  <1>1. /\ a \in Seq(W) /\ n \in Nat /\ Len(a) = n + 2
        /\ a[n + 1] = eq /\ a[n + 2] = q /\ \A i \in 1..n : a[i] = k[i]
    OBVIOUS
  <1> HIDE DEF a
  <1>2. /\ b \in Seq(W) /\ m \in Nat /\ Len(b) = n + 2 + m
        /\ \A i \in 1..(n + 2) : b[i] = a[i]
        /\ \A i \in 1..m : b[n + 2 + i] = e[i]
    <2>1. a \in Seq(W)
      BY <1>1
    <2>2. /\ b \in Seq(W) /\ m \in Nat /\ Len(b) = Len(a) + m
          /\ \A i \in 1..Len(a) : b[i] = a[i]
          /\ \A i \in 1..m : b[Len(a) + i] = e[i]
      BY <2>1, Together
    <2> HIDE DEF b
    <2>3. QED
      BY <1>1, <2>2
  <1> HIDE DEF b
  <1>3. /\ p \in Seq(W) /\ Len(p) = (n + 2 + m) + 1 /\ p[(n + 2 + m) + 1] = q
        /\ \A i \in 1..(n + 2 + m) : p[i] = b[i]
    <2>1. b \in Seq(W)
      BY <1>2
    <2>2. /\ p \in Seq(W) /\ Len(p) = Len(b) + 1 /\ p[Len(b) + 1] = q
          /\ \A i \in 1..Len(b) : p[i] = b[i]
      BY <2>1, Stuck
    <2> HIDE DEF p
    <2>3. QED
      BY <1>2, <2>2
  <1> HIDE DEF p
  <1>4. (n + 2 + m) + 1 = n + m + 3
    BY <1>1, <1>2
  <1>5. \A i \in 1..n : p[i] = k[i]
    <2>1. \A i \in 1..n : i \in 1..(n + 2) /\ i \in 1..(n + 2 + m)
      BY <1>1, <1>2
    <2>2. QED
      BY <1>1, <1>2, <1>3, <2>1
  <1>6. p[n + 1] = eq /\ p[n + 2] = q
    <2>1. \A i \in {n + 1, n + 2} : i \in 1..(n + 2) /\ i \in 1..(n + 2 + m)
      BY <1>1, <1>2
    <2>2. QED
      BY <1>1, <1>2, <1>3, <2>1
  <1>7. \A i \in 1..m : p[n + 2 + i] = e[i]
    <2>1. \A i \in 1..m : n + 2 + i \in 1..(n + 2 + m)
      BY <1>1, <1>2
    <2>2. QED
      BY <1>2, <1>3, <2>1
  <1>8. Layout(p, W, k, eq, q, e, n, m)
    BY <1>1, <1>2, <1>3, <1>4, <1>5, <1>6, <1>7 DEF Layout
  <1>9. QED
    BY <1>8 DEF p, b, a

LEMMA FirstOf ==
    ASSUME NEW p, NEW x, NEW n \in Nat, Len(p) \in Nat, n + 1 <= Len(p),
           p[n + 1] = x, \A i \in 1..n : p[i] # x
    PROVE  /\ {i \in 1..Len(p) : p[i] = x} # {}
           /\ Min({i \in 1..Len(p) : p[i] = x}) = n + 1
  <1> DEFINE S == {i \in 1..Len(p) : p[i] = x}
  <1>1. S \subseteq Nat /\ n + 1 \in S
    OBVIOUS
  <1>2. \A y \in S : n + 1 <= y
    OBVIOUS
  <1> HIDE DEF S
  <1>3. Min(S) = n + 1 /\ S # {}
    BY <1>1, <1>2, MinIs
  <1>4. QED
    BY <1>3 DEF S

InQuotes(s, e, m, W, q) ==
    /\ s \in Seq(W) /\ e \in Seq(W) /\ m \in Nat /\ Len(e) = m
    /\ Len(s) = m + 2 /\ s[1] = q /\ s[m + 2] = q /\ \A i \in 1..m : s[1 + i] = e[i]
    /\ m # 0 => e[1] # q /\ e[m] # q

Core(I, s, e, m) ==
    IF m = 0 THEN I = {} /\ e = <<>>
    ELSE I # {} /\ Min(I) = 2 /\ Max(I) = m + 1 /\ SubSeq(s, 2, m + 1) = e

LEMMA Trimmed ==
    ASSUME NEW W, NEW q, NEW s, NEW e, NEW m, InQuotes(s, e, m, W, q)
    PROVE  Core({i \in 1..Len(s) : s[i] # q}, s, e, m)
  <1> DEFINE I == {i \in 1..Len(s) : s[i] # q}
  <1>0. /\ s \in Seq(W) /\ e \in Seq(W) /\ m \in Nat /\ Len(e) = m
        /\ Len(s) = m + 2 /\ s[1] = q /\ s[m + 2] = q /\ \A i \in 1..m : s[1 + i] = e[i]
        /\ m # 0 => e[1] # q /\ e[m] # q
    BY DEF InQuotes
  <1>1. CASE m = 0
    <2>1. I = {}
      BY <1>0, <1>1
    <2>2. e = <<>>
      BY <1>0, <1>1
    <2>3. QED
      BY <1>1, <2>1, <2>2 DEF Core
  <1>2. CASE m # 0
    <2>1. s[2] = e[1] /\ s[m + 1] = e[m]
      <3>1. 1 \in 1..m /\ m \in 1..m /\ 1 + 1 = 2 /\ 1 + m = m + 1
        BY <1>0, <1>2
      <3>2. QED
        BY <1>0, <3>1
    <2>2. I \subseteq Nat /\ 2 \in I /\ m + 1 \in I
      BY <1>0, <1>2, <2>1
    <2>3. \A i \in I : 2 <= i /\ i <= m + 1
      <3> SUFFICES ASSUME NEW i \in I PROVE 2 <= i /\ i <= m + 1
        OBVIOUS
      <3>1. i \in 1..(m + 2) /\ s[i] # q
        BY <1>0
      <3>2. i # 1 /\ i # m + 2
        BY <1>0, <3>1
      <3>3. QED
        BY <1>0, <3>1, <3>2
    <2> HIDE DEF I
    <2>4. I # {} /\ Min(I) = 2 /\ Max(I) = m + 1
      BY <2>2, <2>3, MinIs, MaxIs
    <2>5. SubSeq(s, 2, m + 1) = e
      <3> DEFINE t == SubSeq(s, 2, m + 1)
      <3>1. t \in Seq(W) /\ Len(t) = m /\ \A i \in 1..m : t[i] = s[1 + i]
        BY <1>0, <1>2
      <3> HIDE DEF t
      <3>2. \A i \in 1..m : t[i] = e[i]
        BY <1>0, <3>1
      <3>3. t = e
        BY <1>0, <3>1, <3>2
      <3>4. QED
        BY <3>3 DEF t
    <2>6. QED
      BY <1>2, <2>4, <2>5 DEF Core, I
  <1>3. QED
    BY <1>1, <1>2

(* A label's key and value are found again; the value as it was escaped.    *)
LEMMA PairRead ==
    ASSUME NEW k \in Seq(Chars), \A i \in 1..Len(k) : k[i] # "=", NEW v \in Seq(Chars)
    PROVE  /\ Contains(LabelPair(k, v), "=")
           /\ LabelKey(LabelPair(k, v)) = k
           /\ v = <<>> \/ v[Len(v)] # "\"" => LabelValue(LabelPair(k, v)) = EscapeValue(v)
  <1> DEFINE eq == "="
             q == "\""
             e == EscapeValue(v)
             p == LabelPair(k, v)
             n == Len(k)
             m == Len(e)
             s == SubSeq(p, n + 2, Len(p))
             I == {i \in 1..Len(s) : s[i] # q}
  <1>1. eq \in Chars /\ q \in Chars
    BY SpecialChars
  <1>2. /\ e \in Seq(Chars)
        /\ v = <<>> => e = <<>>
        /\ v # <<>> => Len(e) >= 1 /\ e[1] # q /\ e[Len(e)] = v[Len(v)]
    BY EscapeEnds
  <1>3. p = ((k \o <<eq, q>>) \o e) \o <<q>>
    BY DEF LabelPair
  <1>4. EqualSign(p) = LET S == {i \in 1..Len(p) : p[i] = eq} IN IF S # {} THEN Min(S) ELSE 0
    BY DEF EqualSign, SelectInSeq
  <1>5. TrimQuotes(s) = LET first == IF I # {} THEN Min(I) ELSE 0
                            last == IF I # {} THEN Max(I) ELSE 0
                        IN  IF first = 0 THEN <<>> ELSE SubSeq(s, first, last)
    BY DEF TrimQuotes, SelectInSeq, SelectLastInSeq
  <1>6. \A i \in 1..n : k[i] # eq
    OBVIOUS
  <1> HIDE DEF eq, q, e, p
  <1>7. /\ p \in Seq(Chars) /\ n \in Nat /\ m \in Nat /\ Len(p) = n + m + 3
        /\ \A i \in 1..n : p[i] = k[i]
        /\ p[n + 1] = eq /\ p[n + 2] = q
        /\ \A i \in 1..m : p[n + 2 + i] = e[i]
        /\ p[n + m + 3] = q
    <2>1. e \in Seq(Chars) /\ n = Len(k) /\ m = Len(e)
      BY <1>2
    <2> HIDE DEF n, m
    <2>2. Layout(((k \o <<eq, q>>) \o e) \o <<q>>, Chars, k, eq, q, e, n, m)
      BY <1>1, <2>1, PairLayout
    <2>3. Layout(p, Chars, k, eq, q, e, n, m)
      BY <1>3, <2>2
    <2>4. QED
      BY <2>3 DEF Layout
  <1> HIDE DEF n, m
  <1>8. EqualSign(p) = n + 1
    <2>1. Len(p) \in Nat /\ n + 1 <= Len(p) /\ \A i \in 1..n : p[i] # eq
      BY <1>6, <1>7
    <2>2. /\ {i \in 1..Len(p) : p[i] = eq} # {}
          /\ Min({i \in 1..Len(p) : p[i] = eq}) = n + 1
      BY <1>7, <2>1, FirstOf
    <2>3. QED
      BY <1>4, <2>2
  <1>9. Contains(p, eq)
    <2>1. n + 1 \in 1..Len(p) /\ p[n + 1] = eq
      BY <1>7
    <2>2. QED
      BY <2>1 DEF Contains
  <1>10. LabelKey(p) = k
    <2> DEFINE t == SubSeq(p, 1, n)
    <2>1. t \in Seq(Chars) /\ Len(t) = n /\ \A i \in 1..n : t[i] = p[i]
      BY <1>7
    <2> HIDE DEF t
    <2>2. Len(k) = n
      BY DEF n
    <2>3. \A i \in 1..n : t[i] = k[i]
      BY <1>7, <2>1
    <2>4. t = k
      BY <2>1, <2>2, <2>3
    <2>5. EqualSign(p) - 1 = n
      BY <1>7, <1>8
    <2>6. QED
      BY <2>4, <2>5 DEF LabelKey, t
  <1>11. LabelValue(p) = TrimQuotes(s)
    <2>1. EqualSign(p) + 1 = n + 2
      BY <1>7, <1>8
    <2>2. QED
      BY <2>1 DEF LabelValue
  <1>12. /\ s \in Seq(Chars) /\ Len(s) = m + 2 /\ s[1] = q /\ s[m + 2] = q
         /\ \A i \in 1..m : s[1 + i] = e[i]
    <2>1. s \in Seq(Chars) /\ Len(s) = m + 2 /\ \A i \in 1..(m + 2) : s[i] = p[n + 1 + i]
      BY <1>7
    <2> HIDE DEF s
    <2>2. s[1] = p[n + 2] /\ s[m + 2] = p[n + m + 3]
      <3>1. /\ 1 \in 1..(m + 2) /\ n + 1 + 1 = n + 2
            /\ m + 2 \in 1..(m + 2) /\ n + 1 + (m + 2) = n + m + 3
        BY <1>7
      <3>2. s[1] = p[n + 1 + 1] /\ s[m + 2] = p[n + 1 + (m + 2)]
        BY <2>1, <3>1
      <3>3. QED
        BY <3>1, <3>2
    <2>3. \A i \in 1..m : s[1 + i] = e[i]
      <3> SUFFICES ASSUME NEW i \in 1..m PROVE s[1 + i] = e[i]
        OBVIOUS
      <3>1. 1 + i \in 1..(m + 2) /\ n + 1 + (1 + i) = n + 2 + i
        BY <1>7
      <3>2. s[1 + i] = p[n + 1 + (1 + i)]
        BY <2>1, <3>1
      <3>3. QED
        BY <1>7, <3>1, <3>2
    <2>4. QED
      BY <1>7, <2>1, <2>2, <2>3
  <1> HIDE DEF s
  <1>13. ASSUME v = <<>> \/ v[Len(v)] # q
         PROVE  TrimQuotes(s) = e
    <2>1. e \in Seq(Chars) /\ Len(e) = m /\ m \in Nat
      BY <1>2, <1>7 DEF m
    <2>2. m # 0 => e[1] # q /\ e[m] # q
      <3>1. v = <<>> => m = 0
        BY <1>2, <2>1
      <3>2. QED
        BY <1>2, <1>13, <2>1, <3>1
    <2>3. InQuotes(s, e, m, Chars, q)
      BY <1>12, <2>1, <2>2 DEF InQuotes
    <2>4. Core(I, s, e, m)
      BY <2>3, Trimmed
    <2> HIDE DEF I
    <2>5. QED
      BY <1>5, <2>4 DEF Core
  <1>14. QED
    BY <1>9, <1>10, <1>11, <1>13 DEF eq, q, e, p

(* The map made of two labels with different keys.                          *)
Pieces(text, p1, p2) ==
    /\ splitLabels(text) = <<p1, p2>>
    /\ Contains(p1, "=") /\ Contains(p2, "=") /\ LabelKey(p1) # LabelKey(p2)

Mapped(map, p1, p2) ==
    /\ DOMAIN map = {LabelKey(p1), LabelKey(p2)}
    /\ map[LabelKey(p1)] = LabelValue(p1) /\ map[LabelKey(p2)] = LabelValue(p2)

LEMMA TwoLabels ==
    ASSUME NEW text, NEW p1, NEW p2, Pieces(text, p1, p2)
    PROVE  Mapped(LabelMap(text), p1, p2)
  <1> DEFINE piece == <<p1, p2>>
             has(p) == Contains(p, "=")
             pairs == {i \in 1..Len(piece) : has(piece[i])}
             last(k) == Max({i \in pairs : LabelKey(piece[i]) = k})
             k1 == LabelKey(p1)
             k2 == LabelKey(p2)
  <1>1. LabelMap(text) = [k \in {LabelKey(piece[i]) : i \in pairs} |-> LabelValue(piece[last(k)])]
    BY DEF LabelMap, Pieces
  <1>2. has(p1) /\ has(p2) /\ k1 # k2
    BY DEF Pieces
  <1> HIDE DEF has, k1, k2
  <1>3. Len(piece) = 2 /\ piece[1] = p1 /\ piece[2] = p2
    OBVIOUS
  <1>4. LabelKey(piece[1]) = k1 /\ LabelKey(piece[2]) = k2
    BY <1>3 DEF k1, k2
  <1> HIDE DEF piece
  <1>5. pairs = {1, 2}
    BY <1>2, <1>3
  <1> HIDE DEF pairs
  <1>6. {LabelKey(piece[i]) : i \in pairs} = {k1, k2}
    BY <1>4, <1>5
  <1>7. last(k1) = 1
    <2> DEFINE S == {i \in pairs : LabelKey(piece[i]) = k1}
    <2>1. S = {1}
      BY <1>2, <1>4, <1>5
    <2>2. Max({1}) = 1
      BY MaxIs
    <2>3. QED
      BY <2>1, <2>2
  <1>8. last(k2) = 2
    <2> DEFINE S == {i \in pairs : LabelKey(piece[i]) = k2}
    <2>1. S = {2}
      BY <1>2, <1>4, <1>5
    <2>2. Max({2}) = 2
      BY MaxIs
    <2>3. QED
      BY <2>1, <2>2
  <1> HIDE DEF last
  <1>9. QED
    BY <1>1, <1>3, <1>6, <1>7, <1>8 DEF k1, k2, Mapped

(* A line with labels: they end at the brace, and the number is read.       *)
Labelled(nm, text, v) ==
    [name |-> nm, labelled |-> TRUE, rest |-> text \o <<CloseBrace, v, "2">>]

ReadAs(out, nm, map, v) ==
    /\ out.ok = TRUE /\ out.labels = map
    /\ out.context = prometheusNameToContext(nm) /\ out.value = v
    /\ Dimension \in DOMAIN map /\ map[Dimension] # <<>> => out.dimension = map[Dimension]

LEMMA LabelledLine ==
    ASSUME NEW nm, NEW text \in Seq(Chars \ {CloseBrace}), NEW a \in Numbers
    PROVE  ReadAs(parsePrometheusLine(Labelled(nm, text, a)), nm, LabelMap(text), a)
  <1> DEFINE b == "2"
             y == CloseBrace
             tail == <<y, a, b>>
             r == text \o tail
             n == Len(text)
             W == Chars \cup {y, a, b}
             end == LET S == {i \in 1..Len(r) : r[i] = y} IN IF S # {} THEN Min(S) ELSE 0
             front == SubSeq(r, 1, end - 1)
             value == SubSeq(r, end + 1, Len(r))
             labels == LabelMap(front)
             named == Dimension \in DOMAIN labels /\ labels[Dimension] # <<>>
             out == parsePrometheusLine(Labelled(nm, text, a))
  <1>1. /\ Labelled(nm, text, a).labelled = TRUE /\ Labelled(nm, text, a).rest = r
        /\ Labelled(nm, text, a).name = nm
    BY DEF Labelled
  <1>2. end = SelectInSeq(r, LAMBDA ch : ch = CloseBrace)
    BY DEF SelectInSeq
  <1>3. parseFloat(value)
          => out = [ok |-> TRUE, context |-> prometheusNameToContext(nm), labels |-> labels,
                    dimension |-> IF named THEN labels[Dimension] ELSE nm, value |-> value[1]]
    <2> DEFINE line == Labelled(nm, text, a)
    <2>1. line.labelled = TRUE /\ line.rest = r /\ line.name = nm
      BY <1>1
    <2>2. out = parsePrometheusLine(line)
      OBVIOUS
    <2> HIDE DEF out, line
    <2>3. QED
      BY <1>2, <2>1, <2>2, Zenon DEF parsePrometheusLine
  <1>4. text \in Seq(W) /\ \A i \in 1..n : text[i] # y
    <2>1. Chars \ {CloseBrace} \subseteq W
      OBVIOUS
    <2>2. QED
      BY <2>1, Wider
  <1> HIDE DEF b, y
  <1>5. /\ r \in Seq(W) /\ n \in Nat /\ Len(r) = n + 3 /\ r[n + 1] = y /\ r[n + 2] = a
        /\ \A i \in 1..n : r[i] = text[i]
    BY <1>4
  <1> HIDE DEF r, n
  <1>6. end = n + 1
    <2>1. Len(r) \in Nat /\ n + 1 <= Len(r) /\ \A i \in 1..n : r[i] # y
      BY <1>4, <1>5
    <2>2. /\ {i \in 1..Len(r) : r[i] = y} # {}
          /\ Min({i \in 1..Len(r) : r[i] = y}) = n + 1
      BY <1>5, <2>1, FirstOf
    <2>3. QED
      BY <2>2
  <1> HIDE DEF end
  <1>7. front = text
    <2>1. front \in Seq(W) /\ Len(front) = n /\ \A i \in 1..n : front[i] = r[i]
      BY <1>5, <1>6
    <2>2. Len(text) = n
      BY DEF n
    <2> HIDE DEF front
    <2>3. QED
      BY <1>4, <1>5, <2>1, <2>2
  <1>8. Len(value) = 2 /\ value[1] = a /\ value \in Seq(W)
    BY <1>5, <1>6
  <1> HIDE DEF value, front
  <1>9. parseFloat(value)
    <2>1. value # <<>> /\ value # <<Special>>
      <3>1. Len(value) = 2
        BY <1>8
      <3>2. ASSUME value = <<>> PROVE FALSE
        <4>1. Len(<<>>) = 0
          OBVIOUS
        <4>2. Len(<<>>) = 2
          BY <3>1, <3>2, Zenon
        <4>3. QED
          BY <4>1, <4>2
      <3>3. ASSUME value = <<Special>> PROVE FALSE
        <4>1. Len(<<Special>>) = 1
          OBVIOUS
        <4>2. Len(<<Special>>) = 2
          BY <3>1, <3>3, Zenon
        <4>3. QED
          BY <4>1, <4>2
      <3>4. QED
        BY <3>2, <3>3
    <2>2. value[1] \in Numbers \cup {Special}
      BY <1>8
    <2>3. QED
      BY <2>1, <2>2 DEF parseFloat
  <1>10. labels = LabelMap(text)
    BY <1>7
  <1> HIDE DEF labels, out
  <1>11. ReadAs(out, nm, labels, a)
    BY <1>3, <1>8, <1>9 DEF ReadAs
  <1>12. QED
    BY <1>10, <1>11 DEF out

(* What the assumption on the labels says of the two labels of a line.      *)
LEMMA KeysAndValues ==
    ASSUME NEW labels \in [LabelKeys -> LabelValues], NEW k \in LabelKeys
    PROVE  /\ k \in Seq(Plain) /\ k \in Seq(Chars \ {CloseBrace}) /\ k \in Seq(Chars)
           /\ \A i \in 1..Len(k) : k[i] # "="
           /\ labels[k] \in Seq(Chars) /\ labels[k] \in Seq(Chars \ {CloseBrace})
  <1> DEFINE v == labels[k]
             W == Chars \ {CloseBrace}
             bad == {",", "=", "\"", "\\", CloseBrace}
  <1>1. k \in Seq(STRING) /\ \A i \in 1..Len(k) : k[i] \notin bad
    BY LabelsAssumption
  <1>2. v \in LabelValues
    OBVIOUS
  <1>3. v \in Seq(STRING) /\ \A i \in 1..Len(v) : v[i] # CloseBrace
    BY <1>2, LabelsAssumption
  <1>4. STRING \subseteq Chars
    BY DEF Chars
  <1>5. \A x \in Chars : x \notin bad => x \in Plain /\ x \in W /\ x # "="
    BY DEF Plain
  <1>6. \A x \in Chars : x # CloseBrace => x \in W
    OBVIOUS
  <1> HIDE DEF v, W, bad
  <1>7. k \in Seq(Chars) /\ v \in Seq(Chars)
    BY <1>1, <1>3, <1>4, Wider
  <1>8. \A i \in 1..Len(k) : k[i] \in Plain /\ k[i] \in W /\ k[i] # "="
    <2>1. \A i \in 1..Len(k) : k[i] \in Chars
      BY <1>7
    <2>2. QED
      BY <1>1, <1>5, <2>1
  <1>9. \A i \in 1..Len(v) : v[i] \in W
    BY <1>3, <1>6, <1>7
  <1>10. k \in Seq(Plain) /\ k \in Seq(W)
    <2>1. \A i \in 1..Len(k) : k[i] \in Plain /\ k[i] \in W
      BY <1>8
    <2>2. QED
      BY <1>7, <2>1
  <1>11. v \in Seq(W)
    BY <1>7, <1>9
  <1>12. \A i \in 1..Len(k) : k[i] # "="
    BY <1>8
  <1>13. QED
    BY <1>7, <1>10, <1>11, <1>12 DEF v, W

LEMMA PairNoBrace ==
    ASSUME NEW k \in Seq(Chars \ {CloseBrace}), NEW v \in Seq(Chars \ {CloseBrace})
    PROVE  LabelPair(k, v) \in Seq(Chars \ {CloseBrace})
  <1> DEFINE W == Chars \ {CloseBrace}
             eq == "="
             q == "\""
             e == EscapeValue(v)
  <1>1. e \in Seq(W)
    BY EscapeNoBrace
  <1>2. eq \in W /\ q \in W
    BY SpecialChars, BraceDiffers
  <1>3. LabelPair(k, v) = ((k \o <<eq, q>>) \o e) \o <<q>>
    BY DEF LabelPair
  <1>4. k \in Seq(W)
    OBVIOUS
  <1> DEFINE n == Len(k)
             m == Len(e)
  <1>5. n = Len(k) /\ m = Len(e)
    OBVIOUS
  <1> HIDE DEF W, eq, q, e, n, m
  <1>6. Layout(((k \o <<eq, q>>) \o e) \o <<q>>, W, k, eq, q, e, n, m)
    BY <1>1, <1>2, <1>4, <1>5, PairLayout
  <1>7. LabelPair(k, v) \in Seq(W)
    BY <1>3, <1>6 DEF Layout
  <1>8. QED
    BY <1>7 DEF W

(* What is read of the two labels of a line, in whichever order they come.  *)
ReadBack(out, keys, labels) ==
    /\ out.ok = TRUE
    /\ DOMAIN out.labels = keys
    /\ \A k \in keys :
         LET v == labels[k] IN
         v = <<>> \/ v[Len(v)] # "\"" => out.labels[k] = EscapeValue(v)

LEMMA LineRead ==
    ASSUME NEW labels \in [LabelKeys -> LabelValues],
           NEW keys \in [1..2 -> LabelKeys], keys[1] # keys[2],
           NEW nm, NEW out,
           out = parsePrometheusLine(Labelled(nm, LabelText(keys, labels), "0"))
    PROVE  ReadBack(out, {keys[1], keys[2]}, labels)
  <1> DEFINE k1 == keys[1]
             k2 == keys[2]
             v1 == labels[k1]
             v2 == labels[k2]
             p1 == LabelPair(k1, v1)
             p2 == LabelPair(k2, v2)
             W == Chars \ {CloseBrace}
             c == ","
             text == LabelText(keys, labels)
             ends(v) == v = <<>> \/ v[Len(v)] # "\""
  <1>1. k1 \in LabelKeys /\ k2 \in LabelKeys /\ k1 # k2
    OBVIOUS
  <1>2. /\ k1 \in Seq(Plain) /\ k1 \in Seq(W) /\ k1 \in Seq(Chars)
        /\ \A i \in 1..Len(k1) : k1[i] # "="
        /\ v1 \in Seq(Chars) /\ v1 \in Seq(W)
    BY <1>1, KeysAndValues
  <1>3. /\ k2 \in Seq(Plain) /\ k2 \in Seq(W) /\ k2 \in Seq(Chars)
        /\ \A i \in 1..Len(k2) : k2[i] # "="
        /\ v2 \in Seq(Chars) /\ v2 \in Seq(W)
    BY <1>1, KeysAndValues
  <1>4. keys \in [1..2 -> Seq(Plain)]
    <2>1. keys[1] \in Seq(Plain) /\ keys[2] \in Seq(Plain)
      BY <1>2, <1>3
    <2>2. QED
      BY <2>1
  <1>5. text = (p1 \o <<c>>) \o p2 /\ splitLabels(text) = <<p1, p2>>
    BY <1>2, <1>3, <1>4, TwoPairs
  <1>6. p1 \in Seq(W) /\ p2 \in Seq(W)
    BY <1>2, <1>3, PairNoBrace
  <1>7. c \in W
    BY SpecialChars, BraceDiffers
  <1>8. /\ Contains(p1, "=") /\ LabelKey(p1) = k1
        /\ ends(v1) => LabelValue(p1) = EscapeValue(v1)
    BY <1>2, PairRead
  <1>9. /\ Contains(p2, "=") /\ LabelKey(p2) = k2
        /\ ends(v2) => LabelValue(p2) = EscapeValue(v2)
    BY <1>3, PairRead
  <1>10. text \in Seq(W)
    <2> HIDE DEF W, p1, p2, c, text
    <2>1. p1 \o <<c>> \in Seq(W)
      BY <1>6, <1>7, Stuck
    <2>2. (p1 \o <<c>>) \o p2 \in Seq(W)
      BY <1>6, <2>1, Together
    <2>3. QED
      BY <1>5, <2>2
  <1>11. out.ok = TRUE /\ out.labels = LabelMap(text)
    <2> HIDE DEF text
    <2>1. text \in Seq(Chars \ {CloseBrace})
      BY <1>10
    <2>2. out = parsePrometheusLine(Labelled(nm, text, "0")) /\ "0" \in Numbers
      BY NumbersAssumption DEF text
    <2>3. ReadAs(parsePrometheusLine(Labelled(nm, text, "0")), nm, LabelMap(text), "0")
      BY <2>1, <2>2, LabelledLine
    <2>4. QED
      BY <2>2, <2>3 DEF ReadAs
  <1> HIDE DEF text, p1, p2, k1, k2, ends
  <1>12. LabelKey(p1) # LabelKey(p2)
    BY <1>1, <1>8, <1>9
  <1>13. /\ DOMAIN LabelMap(text) = {LabelKey(p1), LabelKey(p2)}
         /\ LabelMap(text)[LabelKey(p1)] = LabelValue(p1)
         /\ LabelMap(text)[LabelKey(p2)] = LabelValue(p2)
    <2>1. Pieces(text, p1, p2)
      BY <1>5, <1>8, <1>9, <1>12 DEF Pieces
    <2>2. Mapped(LabelMap(text), p1, p2)
      BY <2>1, TwoLabels
    <2>3. QED
      BY <2>2 DEF Mapped
  <1>14. DOMAIN out.labels = {k1, k2}
    BY <1>8, <1>9, <1>11, <1>13
  <1>15. ASSUME NEW k \in {k1, k2}, ends(labels[k])
         PROVE  out.labels[k] = EscapeValue(labels[k])
    <2>1. CASE k = k1
      BY <1>8, <1>11, <1>13, <1>15, <2>1
    <2>2. CASE k = k2
      BY <1>9, <1>11, <1>13, <1>15, <2>2
    <2>3. QED
      BY <2>1, <2>2
  <1>16. \A k \in {k1, k2} : ends(labels[k]) => out.labels[k] = EscapeValue(labels[k])
    BY <1>15
  <1>17. QED
    BY <1>11, <1>14, <1>16, Zenon DEF k1, k2, ends, ReadBack

-----------------------------------------------------------------------------
(* The labels of a line of the text format, whatever their values are made  *)
(* of and in whichever order they come: splitLabels and the reading of each *)
(* piece keep every key, and every value as it was escaped unless it ends   *)
(* in a quote.                                                              *)
THEOREM LabelsSurviveAlways == Spec => []LabelsSurvive
  <1>1. Init => LabelsSurvive
    <2>1. Init => input.kind # "line"
      BY DEF Init, None
    <2>2. QED
      BY <2>1, Zenon DEF LabelsSurvive
  <1>2. ASSUME LabelsSurvive, [Next]_vars PROVE LabelsSurvive'
    <2>1. ASSUME NEW labels \in [LabelKeys -> LabelValues],
                 NEW keys \in [1..2 -> LabelKeys], keys[1] # keys[2], ReadLine(keys, labels)
          PROVE  LabelsSurvive'
      <3> DEFINE nm == <<"netdata", "x", "average">>
      <3>1. /\ input' = [kind |-> "line", labels |-> labels]
            /\ output' = parsePrometheusLine(Labelled(nm, LabelText(keys, labels), "0"))
        BY <2>1, Zenon DEF ReadLine, Labelled
      <3>2. input'.labels = labels
        BY <3>1
      <3> HIDE DEF nm
      <3>3. ReadBack(output', {keys[1], keys[2]}, labels)
        BY <2>1, <3>1, LineRead
      <3>4. LabelKeys = {keys[1], keys[2]}
        <4>1. PICK k1 \in LabelKeys, k2 \in LabelKeys : k1 # k2 /\ LabelKeys = {k1, k2}
          BY LabelsAssumption, Zenon
        <4>2. keys[1] \in LabelKeys /\ keys[2] \in LabelKeys
          OBVIOUS
        <4>3. QED
          BY <2>1, <4>1, <4>2
      <3>5. QED
        BY <3>2, <3>3, <3>4, Zenon DEF LabelsSurvive, ReadBack
    <2>2. ASSUME input'.kind # "line" PROVE LabelsSurvive'
      BY <2>2 DEF LabelsSurvive
    <2>3. ASSUME NEW msg, NEW inner, NEW extra, Receive(msg, inner, extra)
          PROVE  input'.kind # "line"
      BY <2>3 DEF Receive
    <2>4. ASSUME NEW name, NEW unit, ReadName(name, unit)
          PROVE  input'.kind # "line"
      BY <2>4 DEF ReadName
    <2>5. ASSUME NEW values, NEW gaps, NEW shape, NEW status, NEW promStatus,
                 Poll(values, gaps, shape, status, promStatus)
          PROVE  input'.kind # "line"
      BY <2>5 DEF Poll
    <2>6. CASE Idle
      <3>1. input'.kind # "line"
        BY <2>6 DEF Idle, None
      <3>2. QED
        BY <2>2, <3>1
    <2>7. CASE Feed
      <3>1. CASE \E msg \in Messages, inner \in Extras, extra \in Extras :
                   Receive(msg, inner, extra)
        BY <2>2, <2>3, <3>1
      <3>2. CASE \E labels \in [LabelKeys -> LabelValues] :
                   \E keys \in {k \in [1..2 -> LabelKeys] : k[1] # k[2]} :
                      ReadLine(keys, labels)
        BY <2>1, <3>2
      <3>3. CASE \E name \in Names, unit \in UnitWords : ReadName(name, unit)
        BY <2>2, <2>4, <3>3
      <3>4. CASE \E values \in [1..Len(Dims) -> Numbers \cup {NotANumber}],
                    gaps \in SUBSET (1..Len(Dims)),
                    shape \in {"grouped", "flat", "objects", "other"},
                    status \in {0, 200, 503}, promStatus \in {0, 200, 503} :
                   Poll(values, gaps, shape, status, promStatus)
        BY <2>2, <2>5, <3>4
      <3>5. QED
        BY <2>7, <3>1, <3>2, <3>3, <3>4 DEF Feed
    <2>8. CASE UNCHANGED vars
      BY <1>2, <2>8 DEF vars, LabelsSurvive
    <2>9. QED
      BY <1>2, <2>6, <2>7, <2>8 DEF Next
  <1>3. QED
    BY <1>1, <1>2, PTL DEF Spec

-----------------------------------------------------------------------------
(* A sequence that lists f[i], once for each i of a set.                    *)
Once(s, P, f, pos) ==
    /\ pos \in [1..Len(s) -> P]
    /\ \A k \in 1..Len(s) : s[k] = f[pos[k]]
    /\ \A j, k \in 1..Len(s) : pos[j] = pos[k] => j = k
    /\ \A i \in P : \E k \in 1..Len(s) : pos[k] = i

Lists(s, W, P, f) == s \in Seq(W) /\ \E pos : Once(s, P, f, pos)

LEMMA ListsNone ==
    ASSUME NEW W, NEW f
    PROVE  Lists(<<>>, W, {}, f)
  <1> DEFINE s == <<>>
  <1>1. s \in Seq(W) /\ 1..Len(s) = {}
    OBVIOUS
  <1>2. Once(s, {}, f, [k \in {} |-> 0])
    BY <1>1 DEF Once
  <1>3. QED
    BY <1>1, <1>2, Zenon DEF Lists

LEMMA ListsMore ==
    ASSUME NEW s, NEW W, NEW P, NEW f, Lists(s, W, P, f), NEW x, x \notin P, f[x] \in W
    PROVE  Lists(s \o <<f[x]>>, W, P \cup {x}, f)
  <1> DEFINE t == s \o <<f[x]>>
             n == Len(s)
             Q == P \cup {x}
  <1>1. s \in Seq(W) /\ f[x] \in W
    BY DEF Lists
  <1>2. PICK pos : Once(s, P, f, pos)
    BY DEF Lists
  <1>3. /\ t \in Seq(W) /\ n \in Nat /\ Len(t) = n + 1 /\ t[n + 1] = f[x]
        /\ \A i \in 1..n : t[i] = s[i]
    BY <1>1, Stuck
  <1>4. /\ pos \in [1..n -> P]
        /\ \A k \in 1..n : s[k] = f[pos[k]]
        /\ \A j, k \in 1..n : pos[j] = pos[k] => j = k
        /\ \A i \in P : \E k \in 1..n : pos[k] = i
    BY <1>2 DEF Once
  <1> HIDE DEF t, n
  <1> DEFINE at == [k \in 1..(n + 1) |-> IF k = n + 1 THEN x ELSE pos[k]]
  <1>5. \A k \in 1..(n + 1) : k = n + 1 \/ k \in 1..n
    BY <1>3
  <1>6. n + 1 \in 1..(n + 1) /\ \A k \in 1..n : k \in 1..(n + 1) /\ k # n + 1
    BY <1>3
  <1>7. at[n + 1] = x /\ \A k \in 1..n : at[k] = pos[k] /\ at[k] \in P
    BY <1>4, <1>6
  <1>8. at \in [1..(n + 1) -> Q]
    BY <1>4, <1>5
  <1> HIDE DEF at
  <1>9. \A k \in 1..(n + 1) : t[k] = f[at[k]]
    BY <1>3, <1>4, <1>5, <1>7
  <1>10. \A j, k \in 1..(n + 1) : at[j] = at[k] => j = k
    BY <1>4, <1>5, <1>7
  <1>11. \A i \in Q : \E k \in 1..(n + 1) : at[k] = i
    BY <1>4, <1>6, <1>7
  <1>12. Once(t, Q, f, at)
    <2> HIDE DEF Q
    <2>1. QED
      BY <1>3, <1>8, <1>9, <1>10, <1>11 DEF Once
  <1>13. QED
    BY <1>3, <1>12, Zenon DEF Lists, t

(* What a loop leaves that appends f[i] or nothing in its i-th pass.        *)
Passes(f, P, n) == [i \in 1..n |-> IF i \in P THEN <<f[i]>> ELSE <<>>]

LEMMA PassesNext ==
    ASSUME NEW f, NEW P, NEW W, \A i \in P : f[i] \in W, NEW n \in Nat
    PROVE  /\ Passes(f, P, n) \in Seq(Seq(W))
           /\ Passes(f, P, n + 1) = Passes(f, P, n) \o <<IF n + 1 \in P THEN <<f[n + 1]>> ELSE <<>>>>
  <1> DEFINE a == Passes(f, P, n)
             b == Passes(f, P, n + 1)
             Q == Seq(W)
             part(i) == IF i \in P THEN <<f[i]>> ELSE <<>>
             c == a \o <<part(n + 1)>>
  <1>1. ASSUME NEW i PROVE part(i) \in Q
    OBVIOUS
  <1>2. /\ a = [i \in 1..n |-> part(i)]
        /\ b = [i \in 1..(n + 1) |-> part(i)]
    BY DEF Passes
  <1> HIDE DEF part, a, b, Q
  <1>3. a \in Seq(Q) /\ b \in Seq(Q) /\ Len(a) = n /\ Len(b) = n + 1
    BY <1>1, <1>2
  <1>4. /\ c \in Seq(Q) /\ Len(c) = n + 1 /\ c[n + 1] = part(n + 1)
        /\ \A i \in 1..n : c[i] = a[i]
    BY <1>1, <1>3, Stuck
  <1> HIDE DEF c
  <1>5. \A i \in 1..(n + 1) : c[i] = b[i]
    <2>1. \A i \in 1..(n + 1) : i \in 1..n \/ i = n + 1
      OBVIOUS
    <2>2. \A i \in 1..n : i \in 1..(n + 1)
      OBVIOUS
    <2>3. n + 1 \in 1..(n + 1)
      OBVIOUS
    <2>4. QED
      BY <1>2, <1>4, <2>1, <2>2, <2>3
  <1>6. b = c
    BY <1>3, <1>4, <1>5
  <1>7. QED
    BY <1>3, <1>6 DEF a, b, c, Q, part

LEMMA Gathered ==
    ASSUME NEW n \in Nat, NEW P, P \subseteq 1..n, NEW f, NEW W, \A i \in P : f[i] \in W
    PROVE  Lists(FlattenSeq(Passes(f, P, n)), W, P, f)
  <1> DEFINE F(m) == FlattenSeq(Passes(f, P, m))
             T == {m \in Nat : Lists(F(m), W, P \cap (1..m), f)}
  <1>1. 0 \in T
    <2>1. Passes(f, P, 0) = <<>>
      BY DEF Passes
    <2>2. P \cap (1..0) = {}
      OBVIOUS
    <2>3. QED
      BY <2>1, <2>2, FlattenNone, ListsNone
  <1>2. ASSUME NEW m \in Nat, m \in T PROVE m + 1 \in T
    <2> DEFINE x == m + 1
               Q == P \cap (1..m)
               part == IF x \in P THEN <<f[x]>> ELSE <<>>
    <2>1. /\ Passes(f, P, m) \in Seq(Seq(W))
          /\ Passes(f, P, x) = Passes(f, P, m) \o <<part>>
      BY PassesNext
    <2>2. part \in Seq(W)
      OBVIOUS
    <2> HIDE DEF part
    <2>3. F(m) \in Seq(W) /\ F(x) = F(m) \o part
      BY <2>1, <2>2, FlattenAppend
    <2>4. Lists(F(m), W, Q, f)
      BY <1>2
    <2>5. x \notin Q /\ P \cap (1..x) = IF x \in P THEN Q \cup {x} ELSE Q
      OBVIOUS
    <2> HIDE DEF x, Q, F
    <2>6. CASE x \in P
      <3>1. f[x] \in W
        BY <2>6
      <3>2. Lists(F(m) \o <<f[x]>>, W, Q \cup {x}, f)
        BY <2>4, <2>5, <3>1, ListsMore
      <3>3. Lists(F(x), W, P \cap (1..x), f)
        BY <2>3, <2>5, <2>6, <3>2 DEF part
      <3>4. QED
        BY <3>3 DEF x
    <2>7. CASE x \notin P
      <3>1. F(x) = F(m)
        BY <2>3, <2>7, Together DEF part
      <3>2. Lists(F(x), W, P \cap (1..x), f)
        BY <2>4, <2>5, <2>7, <3>1
      <3>3. QED
        BY <3>2 DEF x
    <2>8. QED
      BY <2>6, <2>7
  <1> HIDE DEF T
  <1>3. n \in T
    BY <1>1, <1>2, SetInduction
  <1>4. P \cap (1..n) = P
    OBVIOUS
  <1>5. QED
    BY <1>3, <1>4 DEF T

(* The same sequence, its entries known by other names.                     *)
LEMMA ListsRenamed ==
    ASSUME NEW s, NEW W, NEW Q, NEW g, Lists(s, W, Q, g), NEW P, NEW f,
           NEW r \in [Q -> P], \A i, j \in Q : r[i] = r[j] => i = j,
           \A i \in P : \E j \in Q : r[j] = i, \A j \in Q : g[j] = f[r[j]]
    PROVE  Lists(s, W, P, f)
  <1>1. PICK pos : Once(s, Q, g, pos)
    BY DEF Lists
  <1> DEFINE n == Len(s)
             at == [k \in 1..n |-> r[pos[k]]]
             N == 1..n
  <1>2. /\ pos \in [N -> Q]
        /\ \A k \in N : s[k] = g[pos[k]]
        /\ \A j, k \in N : pos[j] = pos[k] => j = k
        /\ \A i \in Q : \E k \in N : pos[k] = i
    BY <1>1 DEF Once
  <1>3. at = [k \in N |-> r[pos[k]]]
    OBVIOUS
  <1> HIDE DEF N, at
  <1>4. /\ at \in [N -> P]
        /\ \A k \in N : s[k] = f[at[k]]
        /\ \A j, k \in N : at[j] = at[k] => j = k
        /\ \A i \in P : \E k \in N : at[k] = i
    BY <1>2, <1>3
  <1>5. Once(s, P, f, at)
    BY <1>4 DEF Once, N
  <1>6. s \in Seq(W)
    BY DEF Lists
  <1>7. QED
    BY <1>5, <1>6, Zenon DEF Lists

(* Samples that report a set of dimensions with their values, none twice.   *)
Tells(s, due) ==
    /\ ToSet(Told(s)) = due /\ Len(Told(s)) = Cardinality(due)
    /\ s = <<>> <=> due = {}
PairSet(d, v, P) == {<<d[i], v[i]>> : i \in P}

LEMMA ListsTell ==
    ASSUME NEW s, NEW W, NEW P, NEW f, Lists(s, W, P, f), NEW d, NEW v,
           \A i \in P : f[i].dimension = d[i] /\ f[i].value = v[i],
           \A i, j \in P : d[i] = d[j] => i = j
    PROVE  Tells(s, PairSet(d, v, P))
  <1> DEFINE n == Len(s)
             N == 1..n
             t == Told(s)
             due == {<<d[i], v[i]>> : i \in P}
  <1>1. PICK pos : Once(s, P, f, pos)
    BY DEF Lists
  <1>2. n \in Nat /\ (s = <<>> <=> n = 0)
    BY DEF Lists
  <1>3. /\ pos \in [N -> P]
        /\ \A k \in N : s[k] = f[pos[k]]
        /\ \A j, k \in N : pos[j] = pos[k] => j = k
        /\ \A i \in P : \E k \in N : pos[k] = i
    BY <1>1 DEF Once
  <1>4. t = [k \in N |-> <<s[k].dimension, s[k].value>>]
    BY DEF Told
  <1>5. n = 0 <=> N = {}
    BY <1>2
  <1>6. DOMAIN t = N /\ Len(t) = n
    BY <1>2, <1>4
  <1> HIDE DEF N, t
  <1>7. \A k \in N : t[k] = <<d[pos[k]], v[pos[k]]>> /\ t[k] \in due
    BY <1>3, <1>4
  <1>8. \A j, k \in N : t[j] = t[k] => j = k
    BY <1>3, <1>7
  <1>9. \A e \in due : \E k \in N : t[k] = e
    BY <1>3, <1>7
  <1>10. t \in [N -> due]
    BY <1>4, <1>7
  <1>11. t \in Bijection(N, due)
    BY <1>8, <1>9, <1>10 DEF Bijection, Injection, Surjection, IsInjective
  <1>12. ToSet(t) = due
    BY <1>6, <1>7, <1>9 DEF ToSet
  <1> HIDE DEF due, n
  <1>13. Cardinality(due) = n
    <2>1. ExistsBijection(1..n, due)
      BY <1>11 DEF ExistsBijection, N
    <2>2. QED
      BY <1>2, <2>1, FS_CountingElements
  <1>14. due = {} <=> N = {}
    BY <1>9, <1>10
  <1>15. QED
    BY <1>2, <1>5, <1>6, <1>12, <1>13, <1>14 DEF Tells, PairSet, t, due

(* The dimensions of the polled context that have a value.                  *)
With(values) == {i \in 1..Len(Dims) : values[i] \in Numbers}

LEMMA DimsFacts ==
    /\ Len(Dims) \in Nat
    /\ \A i \in 1..Len(Dims) : Dims[i] \in Seq(STRING) /\ Dims[i] # <<>>
    /\ \A i, j \in 1..Len(Dims) : Dims[i] = Dims[j] => i = j
  <1>1. Dims \in Seq(Seq(STRING) \ {<<>>})
    BY DimsAssumption
  <1>2. \A i, j \in 1..Len(Dims) : Dims[i] = Dims[j] => i = j
    BY DimsAssumption
  <1>3. Len(Dims) \in Nat /\ \A i \in 1..Len(Dims) : Dims[i] \in Seq(STRING) \ {<<>>}
    BY <1>1
  <1>4. QED
    BY <1>2, <1>3

LEMMA PairsTold ==
    ASSUME NEW s, NEW W, NEW f, NEW values, NEW P, P = With(values), Lists(s, W, P, f),
           \A i \in P : f[i].dimension = Dims[i] /\ f[i].value = values[i]
    PROVE  Tells(s, Pairs(values))
  <1>1. P \subseteq 1..Len(Dims)
    BY DEF With
  <1>2. \A i, j \in P : Dims[i] = Dims[j] => i = j
    BY <1>1, DimsFacts
  <1>3. Pairs(values) = PairSet(Dims, values, P)
    BY DEF Pairs, With, PairSet
  <1>4. Tells(s, PairSet(Dims, values, P))
    BY <1>2, ListsTell
  <1>5. QED
    BY <1>3, <1>4

(* The three shapes of the JSON endpoint.                                   *)
LEMMA GroupedTells ==
    ASSUME NEW json
    PROVE  Tells(GroupedSamples(Body(json, "grouped")), Pairs(json))
  <1> DEFINE n == Len(Dims)
             c == <<"c">>
             entry(i) == [key |-> <<c, Dims[i], <<"n">>, <<"i">>>>, point |-> <<json[i]>>]
             res == [i \in 1..n |-> entry(i)]
             P == With(json)
             f == [i \in 1..n |-> [context |-> c, dimension |-> Dims[i],
                                   value |-> json[i], at |-> "now"]]
             W == {f[i] : i \in P}
             usable(e) == e.point # <<>> /\ IsNumber(e.point[1]) /\ Len(e.key) >= 2
                          /\ e.key[1] # <<>> /\ e.key[2] # <<>>
             sample(e) == [context |-> e.key[1], dimension |-> e.key[2],
                           value |-> e.point[1], at |-> "now"]
             kept(e) == IF usable(e) THEN <<sample(e)>> ELSE <<>>
  <1>1. n \in Nat /\ \A i \in 1..n : Dims[i] # <<>>
    BY DimsFacts
  <1>2. Body(json, "grouped").result = res
    BY DEF Body, Empty
  <1>3. Len(res) = n
    BY <1>1
  <1>4. GroupedSamples(Body(json, "grouped")) = FlattenSeq([i \in 1..n |-> kept(res[i])])
    <2> HIDE DEF res
    <2>1. QED
      BY <1>2, <1>3 DEF GroupedSamples
  <1>5. ASSUME NEW i \in 1..n PROVE kept(res[i]) = IF i \in P THEN <<f[i]>> ELSE <<>>
    <2> DEFINE e == entry(i)
    <2>1. e.point = <<json[i]>> /\ e.key = <<c, Dims[i], <<"n">>, <<"i">>>>
      OBVIOUS
    <2>2. e.point[1] = json[i] /\ e.point # <<>>
      BY <2>1
    <2>3. e.key[1] = c /\ e.key[2] = Dims[i] /\ Len(e.key) = 4 /\ c # <<>>
      BY <2>1
    <2> HIDE DEF e
    <2>4. usable(e) <=> i \in P
      BY <1>1, <2>2, <2>3 DEF IsNumber, With
    <2>5. sample(e) = f[i]
      BY <2>2, <2>3
    <2>6. res[i] = e
      BY DEF e
    <2> HIDE DEF usable, sample, P, f, res
    <2>7. QED
      BY <2>4, <2>5, <2>6
  <1> HIDE DEF kept, res
  <1>6. [i \in 1..n |-> kept(res[i])] = Passes(f, P, n)
    <2> HIDE DEF f, P
    <2>1. QED
      BY <1>5 DEF Passes
  <1>7. P \subseteq 1..n
    BY DEF With
  <1>8. \A i \in P : f[i].dimension = Dims[i] /\ f[i].value = json[i]
    BY <1>7
  <1>9. P = With(json) /\ \A i \in P : f[i] \in W
    OBVIOUS
  <1> HIDE DEF f, P, W, n
  <1>10. Lists(FlattenSeq(Passes(f, P, n)), W, P, f)
    BY <1>1, <1>7, <1>9, Gathered
  <1>11. QED
    BY <1>4, <1>6, <1>8, <1>9, <1>10, PairsTold

LEMMA ObjectsTell ==
    ASSUME NEW json
    PROVE  Tells(ObjectSamples(Body(json, "objects")), Pairs(Zeroed(json)))
  <1> DEFINE n == Len(Dims)
             c == <<"c">>
             z == Zeroed(json)
             entry(i) == [context |-> c, dimension |-> Dims[i], value |-> json[i]]
             obj == [i \in 1..n |-> entry(i)]
             P == With(z)
             f == [i \in 1..n |-> [context |-> c, dimension |-> Dims[i],
                                   value |-> z[i], at |-> "now"]]
             W == {f[i] : i \in P}
             sample(o) == [context |-> o.context, dimension |-> o.dimension,
                           value |-> IF IsNumber(o.value) THEN o.value ELSE "0",
                           at |-> "now"]
             kept(o) == IF o.context # <<>> /\ o.dimension # <<>> THEN <<sample(o)>> ELSE <<>>
  <1>1. n \in Nat /\ \A i \in 1..n : Dims[i] # <<>>
    BY DimsFacts
  <1>2. Body(json, "objects").objects = obj
    BY DEF Body, Empty
  <1>3. Len(obj) = n
    BY <1>1
  <1>4. ObjectSamples(Body(json, "objects")) = FlattenSeq([i \in 1..n |-> kept(obj[i])])
    <2> HIDE DEF obj
    <2>1. QED
      BY <1>2, <1>3 DEF ObjectSamples
  <1>5. \A i \in 1..n : z[i] = IF json[i] \in Numbers THEN json[i] ELSE "0"
    BY DEF Zeroed
  <1>6. P = 1..n
    BY <1>5, NumbersAssumption DEF With
  <1>7. ASSUME NEW i \in 1..n PROVE kept(obj[i]) = IF i \in P THEN <<f[i]>> ELSE <<>>
    <2> DEFINE o == entry(i)
    <2>1. o.context = c /\ o.dimension = Dims[i] /\ o.value = json[i] /\ c # <<>>
      OBVIOUS
    <2> HIDE DEF o, z
    <2>2. o.context # <<>> /\ o.dimension # <<>>
      BY <1>1, <2>1
    <2>3. sample(o) = f[i]
      BY <1>5, <2>1 DEF IsNumber
    <2>4. obj[i] = o
      BY DEF o
    <2> HIDE DEF sample, f, obj
    <2>5. QED
      BY <1>6, <2>2, <2>3, <2>4
  <1> HIDE DEF kept, obj
  <1>8. [i \in 1..n |-> kept(obj[i])] = Passes(f, P, n)
    <2> HIDE DEF f, P
    <2>1. QED
      BY <1>7 DEF Passes
  <1>9. P \subseteq 1..n
    BY <1>6
  <1>10. \A i \in P : f[i].dimension = Dims[i] /\ f[i].value = z[i]
    BY <1>9
  <1>11. P = With(z) /\ \A i \in P : f[i] \in W
    OBVIOUS
  <1> HIDE DEF f, P, W, n, z
  <1>12. Lists(FlattenSeq(Passes(f, P, n)), W, P, f)
    BY <1>1, <1>9, <1>11, Gathered
  <1>13. Tells(FlattenSeq(Passes(f, P, n)), Pairs(z))
    BY <1>10, <1>11, <1>12, PairsTold
  <1>14. QED
    BY <1>4, <1>8, <1>13 DEF z

LEMMA FlatTells ==
    ASSUME NEW V, NEW json \in [1..Len(Dims) -> V], NEW s, s = FlatSamples(Body(json, "flat"))
    PROVE  /\ Tells(s, Pairs(json))
           /\ \A i \in 1..Len(s) : s[i].at = "2"
  <1> DEFINE n == Len(Dims)
             u == <<"unknown">>
             two == "2"
             time == <<"time">>
             names == <<time>> \o Dims
             row == <<two>> \o json
             g == [i \in 1..(n + 1) |-> Cell(names, row, i)]
             Q == {i \in 1..(n + 1) : 1 < i /\ row[i] \in Numbers}
             P == With(json)
             f == [i \in 1..n |-> [context |-> u, dimension |-> Dims[i],
                                   value |-> json[i], at |-> two]]
             W == {g[i] : i \in Q}
             r == [i \in Q |-> i - 1]
             cells == [i \in 1..Len(row) |->
                         IF 1 < i /\ i <= Len(names) /\ IsNumber(row[i])
                         THEN <<Cell(names, row, i)>> ELSE <<>>]
  <1>1. n \in Nat
    BY DimsFacts
  <1>2. Body(json, "flat").data = <<row>> /\ Body(json, "flat").labels = names
    BY DEF Body, Empty
  <1>3. two \in Numbers /\ two # "0"
    BY DimsAssumption
  <1>4. /\ Dims \in Seq(Seq(STRING) \ {<<>>})
        /\ json \in Seq(V) /\ Len(json) = n
    <2>1. json \in Seq(V) /\ Len(json) = n
      BY <1>1
    <2>2. QED
      BY <2>1, DimsAssumption
  <1> HIDE DEF two
  <1>5. /\ Len(names) = n + 1 /\ Len(row) = n + 1 /\ row[1] = two
        /\ \A i \in 1..n : names[i + 1] = Dims[i] /\ row[i + 1] = json[i]
    <2> DEFINE D == {time} \cup (Seq(STRING) \ {<<>>})
               X == {two} \cup V
    <2>1. Dims \in Seq(D) /\ <<time>> \in Seq(D) /\ json \in Seq(X) /\ <<two>> \in Seq(X)
      <3>1. Seq(STRING) \ {<<>>} \subseteq D /\ V \subseteq X
        OBVIOUS
      <3>2. time \in D /\ two \in X
        OBVIOUS
      <3> HIDE DEF D, X, time
      <3>3. QED
        BY <1>4, <3>1, <3>2, Wider
    <2> HIDE DEF D, X, time
    <2>2. Len(<<time>>) = 1 /\ Len(<<two>>) = 1 /\ <<two>>[1] = two
      OBVIOUS
    <2>3. Len(names) = 1 + n /\ \A i \in 1..n : names[1 + i] = Dims[i]
      BY <2>1, <2>2, Together
    <2>4. Len(row) = 1 + n /\ row[1] = two /\ \A i \in 1..n : row[1 + i] = json[i]
      BY <1>4, <2>1, <2>2, Together
    <2> HIDE DEF names, row
    <2>5. QED
      BY <1>1, <2>3, <2>4
  <1> HIDE DEF names, row
  <1>6. cells = Passes(g, Q, n + 1)
    <2>1. \A i \in 1..(n + 1) : 1 < i /\ i <= Len(names) /\ IsNumber(row[i]) <=> i \in Q
      BY <1>1, <1>5 DEF IsNumber
    <2>2. \A i \in 1..(n + 1) : g[i] = Cell(names, row, i)
      OBVIOUS
    <2> HIDE DEF g, Q
    <2>3. QED
      BY <1>5, <2>1, <2>2 DEF Passes
  <1>7. FlatSamples(Body(json, "flat")) = FlattenSeq(cells)
    <2> DEFINE body == Body(json, "flat")
               flat(lab, x) == FlattenSeq([i \in 1..Len(x) |->
                                 IF 1 < i /\ i <= Len(lab) /\ IsNumber(x[i])
                                 THEN <<Cell(lab, x, i)>> ELSE <<>>])
               all == [k \in 1..Len(body.data) |-> flat(body.labels, body.data[k])]
    <2>1. FlatSamples(body) = FlattenSeq(all)
      BY DEF FlatSamples
    <2>2. body.data = <<row>> /\ body.labels = names
      BY <1>2
    <2> HIDE DEF body
    <2>3. Len(body.data) = 1 /\ body.data[1] = row
      BY <2>2
    <2>4. flat(names, row) = FlattenSeq(cells)
      OBVIOUS
    <2> HIDE DEF flat, cells
    <2>5. Len(all) = 1 /\ all[1] = FlattenSeq(cells)
      BY <2>2, <2>3, <2>4
    <2> HIDE DEF all
    <2>6. FlattenSeq(all) = all[1]
      BY <2>5, FlattenOne
    <2>7. QED
      BY <2>1, <2>5, <2>6 DEF body
  <1>8. Lists(FlattenSeq(Passes(g, Q, n + 1)), W, Q, g)
    <2>1. Q \subseteq 1..(n + 1) /\ n + 1 \in Nat /\ \A i \in Q : g[i] \in W
      BY <1>1
    <2> HIDE DEF Q, g, W
    <2>2. QED
      BY <2>1, Gathered
  <1>9. s = FlattenSeq(Passes(g, Q, n + 1))
    BY <1>6, <1>7
  <1>10. \A i \in Q : i - 1 \in P
    BY <1>1, <1>5 DEF With
  <1>11. \A i \in P : i + 1 \in Q /\ (i + 1) - 1 = i
    BY <1>1, <1>5 DEF With
  <1>12. \A i \in Q : g[i] = f[i - 1]
    <2> SUFFICES ASSUME NEW i \in Q PROVE g[i] = f[i - 1]
      OBVIOUS
    <2>1. i - 1 \in 1..n /\ (i - 1) + 1 = i /\ i \in 1..(n + 1)
      BY <1>1
    <2>2. names[i] = Dims[i - 1] /\ row[i] = json[i - 1]
      BY <1>5, <2>1
    <2>3. g[i] = [context |-> u, dimension |-> names[i], value |-> row[i], at |-> two]
      BY <1>3, <1>5, <2>1 DEF Cell, IsNumber
    <2>4. QED
      BY <2>1, <2>2, <2>3
  <1>13. \A i, j \in Q : i - 1 = j - 1 => i = j
    OBVIOUS
  <1>14. P \subseteq 1..n
    BY DEF With
  <1>15. \A i \in P : f[i].dimension = Dims[i] /\ f[i].value = json[i] /\ f[i].at = two
    BY <1>14
  <1>16. \A e \in W : e.at = two
    <2> HIDE DEF f, g, P, Q
    <2>1. \A i \in Q : g[i].at = two
      BY <1>10, <1>12, <1>15
    <2>2. QED
      BY <2>1
  <1>17. P = With(json)
    OBVIOUS
  <1> HIDE DEF Q, P, f, g, W
  <1>18. Lists(s, W, P, f)
    <2>1. r \in [Q -> P] /\ \A i \in Q : r[i] = i - 1
      BY <1>10
    <2> HIDE DEF r
    <2>2. \A i, j \in Q : r[i] = r[j] => i = j
      BY <1>13, <2>1
    <2>3. \A i \in P : \E j \in Q : r[j] = i
      BY <1>11, <2>1
    <2>4. \A j \in Q : g[j] = f[r[j]]
      BY <1>12, <2>1
    <2>5. Lists(s, W, Q, g)
      BY <1>8, <1>9
    <2>6. QED
      BY <2>1, <2>2, <2>3, <2>4, <2>5, ListsRenamed
  <1>19. Tells(s, Pairs(json))
    BY <1>15, <1>17, <1>18, PairsTold
  <1>20. \A i \in 1..Len(s) : s[i].at = two
    <2>1. s \in Seq(W)
      BY <1>18 DEF Lists
    <2>2. \A i \in 1..Len(s) : s[i] \in W
      BY <2>1
    <2>3. QED
      BY <1>16, <2>2
  <1>21. QED
    BY <1>19, <1>20 DEF two

(* The Prometheus endpoint: a line with one label, its value written as is. *)
Unescaped(v) == \A i \in 1..Len(v) : v[i] \notin {"\"", "\\"}

LEMMA EscapePlain ==
    ASSUME NEW v \in Seq(Chars), Unescaped(v)
    PROVE  EscapeValue(v) = v
  <1> DEFINE Bad == {"\"", "\\"}
             W == Chars \ Bad
             T == {u \in Seq(W) : EscapeValue(u) = u}
  <1>1. <<>> \in T
    <2>1. <<>> \in Seq(W)
      OBVIOUS
    <2>2. QED
      BY <2>1, EscapeNothing
  <1>2. ASSUME NEW u \in Seq(W), NEW x \in W, u \in T PROVE u \o <<x>> \in T
    <2>1. u \in Seq(Chars) /\ x \in Chars /\ x \notin Bad
      <3>1. W \subseteq Chars
        OBVIOUS
      <3>2. QED
        BY <3>1, Wider
    <2>2. EscapeValue(u \o <<x>>) = EscapeValue(u) \o Escaped(x)
      BY <2>1, EscapeOneMore
    <2>3. Escaped(x) = <<x>>
      BY <2>1 DEF Escaped
    <2>4. EscapeValue(u) = u
      BY <1>2
    <2> HIDE DEF W
    <2>5. u \o <<x>> \in Seq(W)
      BY Stuck
    <2>6. QED
      BY <2>2, <2>3, <2>4, <2>5
  <1> HIDE DEF T
  <1>3. \A i \in 1..Len(v) : v[i] \notin Bad
    BY DEF Unescaped
  <1>4. v \in Seq(W)
    <2> HIDE DEF Bad
    <2>1. \A i \in 1..Len(v) : v[i] \in W
      BY <1>3
    <2> HIDE DEF W
    <2>2. QED
      BY <2>1
  <1> HIDE DEF W
  <1>5. v \in T
    BY <1>1, <1>2, <1>4, SeqInduction
  <1>6. QED
    BY <1>5 DEF T

LEMMA OnePair ==
    ASSUME NEW k \in Seq(Plain), NEW v \in Seq(Chars)
    PROVE  splitLabels(LabelPair(k, v)) = <<LabelPair(k, v)>>
  <1> DEFINE p == LabelPair(k, v)
             nil == <<>>
  <1>1. nil \in Seq(Chars)
    OBVIOUS
  <1>2. Between(nil, nil, <<>>)
    BY AfterNothing, Zenon DEF Fresh, Between
  <1>3. p \in Seq(Chars) /\ p # <<>> /\ Between(nil \o p, nil, p)
    <2> HIDE DEF nil
    <2>1. QED
      BY <1>1, <1>2, PairRun
  <1> HIDE DEF p
  <1>4. <<>> \o p = p /\ Len(p) \in Nat
    BY <1>3, Together
  <1>5. After(p) = Scanner(<<>>, p, FALSE, FALSE)
    BY <1>3, <1>4 DEF Between
  <1>6. splitLabels(p) = Push(After(p)).done
    BY <1>4, ScannedSolves
  <1>7. Push(Scanner(<<>>, p, FALSE, FALSE)) = Scanner(Append(<<>>, p), <<>>, FALSE, FALSE)
    BY <1>3 DEF Push, Scanner
  <1>8. Append(<<>>, p) = <<p>>
    OBVIOUS
  <1>9. \A x : Scanner(x, <<>>, FALSE, FALSE).done = x
    BY DEF Scanner
  <1>10. splitLabels(p) = <<p>>
    BY <1>5, <1>6, <1>7, <1>8, <1>9
  <1>11. QED
    BY <1>10 DEF p

LEMMA OneLabel ==
    ASSUME NEW text, NEW p, splitLabels(text) = <<p>>, Contains(p, "=")
    PROVE  DOMAIN LabelMap(text) = {LabelKey(p)} /\ LabelMap(text)[LabelKey(p)] = LabelValue(p)
  <1> DEFINE piece == <<p>>
             has(x) == Contains(x, "=")
             pairs == {i \in 1..Len(piece) : has(piece[i])}
             last(k) == Max({i \in pairs : LabelKey(piece[i]) = k})
             k1 == LabelKey(p)
  <1>1. LabelMap(text) = [k \in {LabelKey(piece[i]) : i \in pairs} |-> LabelValue(piece[last(k)])]
    BY DEF LabelMap
  <1>2. has(p)
    OBVIOUS
  <1> HIDE DEF has, k1
  <1>3. Len(piece) = 1 /\ piece[1] = p
    OBVIOUS
  <1>4. LabelKey(piece[1]) = k1
    BY <1>3 DEF k1
  <1> HIDE DEF piece
  <1>5. pairs = {1}
    BY <1>2, <1>3
  <1> HIDE DEF pairs
  <1>6. {LabelKey(piece[i]) : i \in pairs} = {k1}
    BY <1>4, <1>5
  <1>7. last(k1) = 1
    <2> DEFINE S == {i \in pairs : LabelKey(piece[i]) = k1}
    <2>1. S = {1}
      BY <1>4, <1>5
    <2>2. Max({1}) = 1
      BY MaxIs
    <2>3. QED
      BY <2>1, <2>2
  <1> HIDE DEF last
  <1>8. QED
    BY <1>1, <1>3, <1>6, <1>7 DEF k1

(* The polled context is enabled under the name that allmetrics gives it.   *)
PolledName == <<"netdata", "c", "average">>

LEMMA PolledEnabled == Enabled(prometheusNameToContext(PolledName))
  <1> DEFINE w == "netdata"
             c == "c"
             x == <<w>> \o <<c>>
  <1>1. c \in Words /\ ~Contains(Aggregations, c) /\ ~Contains(Units, c) /\ <<>> \in Seq(Words)
    BY DEF Words, Contains, Aggregations, Units
  <1>2. MetricName(<<>>, c) = PolledName
    <2> DEFINE av == "average"
    <2>1. ASSUME NEW a, NEW b, NEW d PROVE <<a>> \o <<>> \o <<b, d>> = <<a, b, d>>
      <3> DEFINE s == <<a>> \o <<b, d>>
                 t == <<a, b, d>>
      <3>1. <<a>> \o <<>> = <<a>>
        OBVIOUS
      <3>2. /\ s \in Seq({a, b, d}) /\ Len(s) = 3 /\ s[1] = a /\ s[2] = b /\ s[3] = d
            /\ t \in Seq({a, b, d}) /\ Len(t) = 3 /\ t[1] = a /\ t[2] = b /\ t[3] = d
        OBVIOUS
      <3> HIDE DEF s, t
      <3>3. s = t
        BY <3>2
      <3>4. QED
        BY <3>1, <3>3 DEF s, t
    <2>2. <<w>> \o <<>> \o <<c, av>> = <<w, c, av>>
      <3> HIDE DEF w, c, av
      <3>1. QED
        BY <2>1
    <2>3. QED
      BY <2>2, Zenon DEF MetricName, PolledName
  <1>3. prometheusNameToContext(MetricName(<<>>, c)) = Full(<<>>) \o <<c>>
    BY <1>1, ContextOfName
  <1>4. Full(<<>>) = <<w>>
    BY DEF Full
  <1>5. prometheusNameToContext(PolledName) = x
    BY <1>2, <1>3, <1>4
  <1>6. <<c>> \in Contexts
    BY DimsAssumption
  <1>7. Len(x) = 2
    OBVIOUS
  <1> HIDE DEF x
  <1>8. HasPrefix(x, x)
    BY <1>7 DEF HasPrefix
  <1>9. x = <<"netdata">> \o <<c>>
    BY DEF x
  <1>10. QED
    BY <1>5, <1>6, <1>8, <1>9, Zenon DEF Enabled

Reported(out, dim, v) ==
    out.ok = TRUE /\ Enabled(out.context) /\ out.dimension = dim /\ out.value = v

LEMMA DimensionLine ==
    ASSUME NEW i \in 1..Len(Dims), NEW v \in Numbers
    PROVE  Reported(parsePrometheusLine(
                      Labelled(PolledName, LabelPair(Dimension, Dims[i]), v)), Dims[i], v)
  <1> DEFINE d == Dims[i]
             k == Dimension
             p == LabelPair(k, d)
             W == Chars \ {CloseBrace}
             bad == {",", "\"", "\\", CloseBrace}
             map == LabelMap(p)
             out == parsePrometheusLine(Labelled(PolledName, p, v))
  <1>1. k \in Seq(Plain) /\ k \in Seq(W) /\ k \in Seq(Chars) /\ \A j \in 1..Len(k) : k[j] # "="
    <2> DEFINE x == "d"
               eq == "="
    <2>1. x \in Plain /\ x \in W /\ x \in Chars /\ x # eq
      BY SpecialChars, BraceDiffers
    <2>2. k = <<x>>
      BY DEF Dimension
    <2> HIDE DEF x, eq, k, W
    <2>3. k \in Seq(Plain) /\ k \in Seq(W) /\ k \in Seq(Chars) /\ \A j \in 1..Len(k) : k[j] # eq
      BY <2>1, <2>2
    <2>4. QED
      BY <2>3 DEF eq
  <1>2. d \in Seq(STRING) /\ d # <<>>
    BY DimsFacts
  <1>3. \A j \in 1..Len(d) : d[j] \notin bad
    BY DimsAssumption
  <1>4. d \in Seq(Chars)
    <2>1. STRING \subseteq Chars
      BY DEF Chars
    <2>2. QED
      BY <1>2, <2>1, Wider
  <1>5. d \in Seq(W)
    <2>1. \A x \in Chars : x \notin bad => x \in W
      OBVIOUS
    <2> HIDE DEF W, bad, d
    <2>2. \A j \in 1..Len(d) : d[j] \in W
      BY <1>3, <1>4, <2>1
    <2>3. QED
      BY <1>4, <2>2
  <1>6. EscapeValue(d) = d
    <2>1. Unescaped(d)
      BY <1>3 DEF Unescaped
    <2> HIDE DEF d
    <2>2. QED
      BY <1>4, <2>1, EscapePlain
  <1>7. d = <<>> \/ d[Len(d)] # "\""
    <2> DEFINE q == "\""
    <2>1. \A j \in 1..Len(d) : d[j] # q
      BY <1>3
    <2> HIDE DEF q, d
    <2>2. Len(d) \in 1..Len(d)
      BY <1>2
    <2>3. QED
      BY <2>1, <2>2 DEF q
  <1> HIDE DEF d, k
  <1>8. Contains(p, "=") /\ LabelKey(p) = k /\ LabelValue(p) = d
    BY <1>1, <1>4, <1>6, <1>7, PairRead
  <1>9. p \in Seq(W)
    BY <1>1, <1>5, PairNoBrace
  <1>10. splitLabels(p) = <<p>>
    BY <1>1, <1>4, OnePair
  <1>11. p \in Seq(Chars \ {CloseBrace})
    BY <1>9
  <1> HIDE DEF p
  <1>12. DOMAIN map = {k} /\ map[k] = d
    BY <1>8, <1>10, OneLabel
  <1>13. ReadAs(out, PolledName, map, v)
    BY <1>11, LabelledLine
  <1> HIDE DEF map, out
  <1>14. Reported(out, d, v)
    BY <1>2, <1>12, <1>13, PolledEnabled DEF ReadAs, Reported, k
  <1>15. QED
    BY <1>14 DEF out, p, d, k

LEMMA LinesTell ==
    ASSUME NEW values
    PROVE  Tells(parsePrometheusResponse(Lines(values)), Pairs(values))
  <1> DEFINE n == Len(Dims)
             P == With(values)
             text(i) == Labelled(PolledName, LabelPair(Dimension, Dims[i]), values[i])
             line == [i \in 1..n |-> text(i)]
             V == {line[i] : i \in P}
             L == Lines(values)
             m == Len(L)
             parse(x) == parsePrometheusLine(x)
             kept(s) == IF s.ok /\ Enabled(s.context) THEN <<s>> ELSE <<>>
             g == [k \in 1..m |-> parse(L[k])]
             f == [i \in 1..n |-> parse(line[i])]
             X == {g[k] : k \in 1..m}
             N == 1..m
             resp == parsePrometheusResponse(L)
  <1>1. n \in Nat
    BY DimsFacts
  <1>2. P \subseteq 1..n /\ (\A i \in P : values[i] \in Numbers) /\ P = With(values)
    BY DEF With
  <1>3. \A i \in 1..n : i \in P <=> values[i] \in Numbers
    BY DEF With
  <1>4. L = FlattenSeq(Passes(line, P, n))
    <2>1. L = FlattenSeq([i \in 1..n |-> IF values[i] \in Numbers THEN <<text(i)>> ELSE <<>>])
      BY Zenon DEF Lines, Labelled, PolledName
    <2>2. \A i \in 1..n : line[i] = text(i)
      OBVIOUS
    <2> HIDE DEF text, line, P
    <2>3. [i \in 1..n |-> IF values[i] \in Numbers THEN <<text(i)>> ELSE <<>>] = Passes(line, P, n)
      BY <1>3, <2>2 DEF Passes
    <2>4. QED
      BY <2>1, <2>3
  <1>5. \A i \in P : line[i] \in V
    OBVIOUS
  <1>6. ASSUME NEW i \in P
        PROVE  LET s == parse(line[i])
               IN  s.ok = TRUE /\ Enabled(s.context) /\ s.dimension = Dims[i] /\ s.value = values[i]
    <2>1. line[i] = text(i) /\ i \in 1..Len(Dims) /\ values[i] \in Numbers
      BY <1>2
    <2>2. Reported(parse(text(i)), Dims[i], values[i])
      BY <2>1, DimensionLine
    <2> HIDE DEF line, P, text, parse
    <2>3. QED
      BY <2>1, <2>2 DEF Reported
  <1> HIDE DEF line, P, V, L
  <1>7. Lists(L, V, P, line)
    <2>1. Lists(FlattenSeq(Passes(line, P, n)), V, P, line)
      BY <1>1, <1>2, <1>5, Gathered
    <2>2. QED
      BY <1>4, <2>1
  <1>8. PICK pos : Once(L, P, line, pos)
    BY <1>7 DEF Lists
  <1>9. m \in Nat
    BY <1>7 DEF Lists
  <1>10. /\ pos \in [1..m -> P]
         /\ \A k \in 1..m : L[k] = line[pos[k]]
         /\ \A j, k \in 1..m : pos[j] = pos[k] => j = k
         /\ \A i \in P : \E k \in 1..m : pos[k] = i
    BY <1>8 DEF Once
  <1>11. resp = FlattenSeq([k \in 1..m |-> kept(parse(L[k]))])
    BY DEF parsePrometheusResponse
  <1>12. ASSUME NEW k \in 1..m PROVE kept(parse(L[k])) = <<g[k]>> /\ g[k] = f[pos[k]]
    <2>1. pos[k] \in P /\ L[k] = line[pos[k]] /\ pos[k] \in 1..n
      BY <1>2, <1>10
    <2>2. g[k] = parse(L[k]) /\ f[pos[k]] = parse(line[pos[k]])
      BY <2>1
    <2> HIDE DEF g, f, parse
    <2>3. g[k].ok = TRUE /\ Enabled(g[k].context)
      BY <1>6, <2>1, <2>2
    <2>4. QED
      BY <2>1, <2>2, <2>3
  <1>13. \A k \in 1..m : g[k] \in X
    OBVIOUS
  <1>14. \A i \in P : f[i].dimension = Dims[i] /\ f[i].value = values[i]
    <2>1. \A i \in P : f[i] = parse(line[i])
      BY <1>2
    <2> HIDE DEF f, parse
    <2>2. QED
      BY <1>6, <2>1
  <1> HIDE DEF g, f, X, kept, parse, resp, m, n
  <1>15. [k \in 1..m |-> kept(parse(L[k]))] = Passes(g, N, m)
    BY <1>12 DEF Passes
  <1>16. Lists(resp, X, N, g)
    <2>1. N \subseteq 1..m /\ \A k \in N : g[k] \in X
      BY <1>13
    <2> HIDE DEF N
    <2>2. Lists(FlattenSeq(Passes(g, N, m)), X, N, g)
      BY <1>9, <2>1, Gathered
    <2>3. QED
      BY <1>11, <1>15, <2>2
  <1>17. Lists(resp, X, P, f)
    <2>1. /\ pos \in [N -> P]
          /\ \A j, k \in N : pos[j] = pos[k] => j = k
          /\ \A i \in P : \E k \in N : pos[k] = i
          /\ \A k \in N : g[k] = f[pos[k]]
      BY <1>10, <1>12
    <2> HIDE DEF N
    <2>2. QED
      BY <1>16, <2>1, ListsRenamed
  <1>18. Tells(resp, Pairs(values))
    BY <1>2, <1>14, <1>17, PairsTold
  <1>19. QED
    BY <1>18 DEF resp, L

-----------------------------------------------------------------------------
(* What the JSON endpoint yields.                                           *)
JsonYields(first, shape, json) ==
    /\ Tells(first.samples, Due(shape, json))
    /\ first.err \in BOOLEAN /\ (first.err => first.samples = <<>>)
    /\ shape = "flat" => \A i \in 1..Len(first.samples) : first.samples[i].at = "2"

LEMMA TellsNothing == Tells(<<>>, {})
  <1> DEFINE s == <<>>
  <1>1. Told(s) = <<>> /\ Len(<<>>) = 0 /\ DOMAIN <<>> = {}
    BY DEF Told
  <1>2. Cardinality({}) = 0
    BY FS_EmptySet
  <1>3. QED
    BY <1>1, <1>2 DEF Tells, ToSet

LEMMA NoDims ==
    ASSUME Len(Dims) = 0, NEW json PROVE Pairs(json) = {}
  BY DEF Pairs

LEMMA ParsedYields ==
    ASSUME NEW V, NEW json \in [1..Len(Dims) -> V],
           NEW shape \in {"grouped", "flat", "objects", "other"}
    PROVE  JsonYields(parseJSONResponse(Body(json, shape)), shape, json)
  <1> DEFINE body == Body(json, shape)
             n == Len(Dims)
             first == parseJSONResponse(body)
  <1>1. n \in Nat
    BY DimsFacts
  <1>2. Failure.err = TRUE /\ Failure.samples = <<>>
    BY DEF Failure
  <1>3. Due("grouped", json) = Pairs(json) /\ Due("flat", json) = Pairs(json)
    BY DEF Due
  <1>4. Due("objects", json) = Pairs(Zeroed(json)) /\ Due("other", json) = {}
    BY DEF Due
  <1>5. ASSUME NEW s PROVE [err |-> FALSE, samples |-> s].err = FALSE
                           /\ [err |-> FALSE, samples |-> s].samples = s
    OBVIOUS
  <1>6. CASE shape = "other"
    <2>1. body.result = <<>> /\ body.data = <<>> /\ body.objects = <<>>
      BY <1>6 DEF Body, Empty
    <2>2. first = Failure
      BY <2>1 DEF parseJSONResponse
    <2>3. QED
      BY <1>2, <1>4, <1>6, <2>2, TellsNothing DEF JsonYields
  <1>7. CASE shape = "grouped"
    <2>1. body.data = <<>> /\ body.objects = <<>> /\ (body.result = <<>> <=> n = 0)
      <3>1. body.data = <<>> /\ body.objects = <<>>
        BY <1>7 DEF Body, Empty
      <3>2. Len(body.result) = n /\ (body.result = <<>> <=> Len(body.result) = 0)
        BY <1>1, <1>7 DEF Body, Empty
      <3>3. QED
        BY <3>1, <3>2
    <2>2. Tells(GroupedSamples(body), Pairs(json))
      BY <1>7, GroupedTells
    <2> HIDE DEF body
    <2>3. CASE n = 0
      <3>1. first = Failure
        BY <2>1, <2>3 DEF parseJSONResponse
      <3>2. Pairs(json) = {}
        BY <2>3, NoDims
      <3>3. QED
        BY <1>2, <1>3, <1>7, <3>1, <3>2, TellsNothing DEF JsonYields, body
    <2>4. CASE n # 0
      <3>1. first = [err |-> FALSE, samples |-> GroupedSamples(body)]
        BY <2>1, <2>4 DEF parseJSONResponse
      <3>2. first.err = FALSE /\ first.samples = GroupedSamples(body)
        BY <1>5, <3>1
      <3> HIDE DEF first
      <3>3. JsonYields(first, shape, json)
        BY <1>3, <1>7, <2>2, <3>2 DEF JsonYields
      <3>4. QED
        BY <3>3 DEF first, body
    <2>5. QED
      BY <2>3, <2>4
  <1>8. CASE shape = "objects"
    <2>1. body.data = <<>> /\ body.result = <<>> /\ (body.objects = <<>> <=> n = 0)
      <3>1. body.data = <<>> /\ body.result = <<>>
        BY <1>8 DEF Body, Empty
      <3>2. Len(body.objects) = n /\ (body.objects = <<>> <=> Len(body.objects) = 0)
        BY <1>1, <1>8 DEF Body, Empty
      <3>3. QED
        BY <3>1, <3>2
    <2>2. Tells(ObjectSamples(body), Pairs(Zeroed(json)))
      BY <1>8, ObjectsTell
    <2> HIDE DEF body
    <2>3. CASE n = 0
      <3>1. first = Failure
        BY <2>1, <2>3 DEF parseJSONResponse
      <3>2. Pairs(Zeroed(json)) = {}
        BY <2>3, NoDims
      <3>3. QED
        BY <1>2, <1>4, <1>8, <3>1, <3>2, TellsNothing DEF JsonYields, body
    <2>4. CASE n # 0
      <3>1. first = [err |-> FALSE, samples |-> ObjectSamples(body)]
        BY <2>1, <2>4 DEF parseJSONResponse
      <3>2. first.err = FALSE /\ first.samples = ObjectSamples(body)
        BY <1>5, <3>1
      <3> HIDE DEF first
      <3>3. JsonYields(first, shape, json)
        BY <1>4, <1>8, <2>2, <3>2 DEF JsonYields
      <3>4. QED
        BY <3>3 DEF first, body
    <2>5. QED
      BY <2>3, <2>4
  <1>9. CASE shape = "flat"
    <2> DEFINE s == FlatSamples(body)
    <2>1. body.result = <<>> /\ body.data # <<>> /\ body.labels # <<>>
      <3>1. body.result = <<>> /\ body.data = <<<<"2">> \o json>>
        BY <1>9 DEF Body, Empty
      <3>2. body.labels = <<<<"time">>>> \o Dims
        BY <1>9 DEF Body, Empty
      <3>3. <<<<"time">>>> \o Dims # <<>>
        <4> DEFINE x == <<"time">>
                   D == {x} \cup (Seq(STRING) \ {<<>>})
        <4>1. Dims \in Seq(D)
          <5>1. Seq(STRING) \ {<<>>} \subseteq D
            OBVIOUS
          <5>2. QED
            BY <5>1, DimsAssumption, Wider
        <4>2. x \in D
          OBVIOUS
        <4> HIDE DEF x, D
        <4>3. <<x>> \in Seq(D) /\ Len(<<x>>) = 1
          BY <4>2
        <4>4. Len(<<x>> \o Dims) = 1 + n
          BY <4>1, <4>3, Together
        <4>5. <<x>> \o Dims # <<>>
          BY <1>1, <4>4
        <4>6. QED
          BY <4>5 DEF x
      <3>4. QED
        BY <3>1, <3>2, <3>3
    <2>2. s = FlatSamples(Body(json, "flat"))
      BY <1>9
    <2> HIDE DEF body, s
    <2>3. Tells(s, Pairs(json)) /\ \A i \in 1..Len(s) : s[i].at = "2"
      BY <2>2, FlatTells
    <2>4. first = [err |-> FALSE, samples |-> s]
      BY <2>1 DEF parseJSONResponse, s
    <2>5. first.err = FALSE /\ first.samples = s
      BY <1>5, <2>4
    <2> HIDE DEF first
    <2>6. JsonYields(first, shape, json)
      BY <1>3, <1>9, <2>3, <2>5 DEF JsonYields
    <2>7. QED
      BY <2>6 DEF first, body
  <1>10. QED
    BY <1>6, <1>7, <1>8, <1>9

LEMMA EndpointYields ==
    ASSUME NEW V, NEW json \in [1..Len(Dims) -> V], NEW status,
           NEW shape \in {"grouped", "flat", "objects", "other"}
    PROVE  JsonYields(collectJSON([status |-> status, body |-> Body(json, shape)]),
                      IF status = 200 THEN shape ELSE "other", json)
  <1> DEFINE body == Body(json, shape)
             answer == [status |-> status, body |-> body]
  <1>1. answer.status = status /\ answer.body = body
    OBVIOUS
  <1>2. JsonYields(parseJSONResponse(body), shape, json)
    BY ParsedYields
  <1> HIDE DEF answer
  <1>3. CASE status = 200
    <2>1. collectJSON(answer) = parseJSONResponse(body)
      BY <1>1, <1>3 DEF collectJSON, doGet
    <2>2. QED
      BY <1>2, <1>3, <2>1 DEF answer
  <1>4. CASE status # 200
    <2>1. collectJSON(answer) = Failure
      BY <1>1, <1>4 DEF collectJSON, doGet
    <2>2. Failure.err = TRUE /\ Failure.samples = <<>>
      BY DEF Failure
    <2>3. Due("other", json) = {}
      BY DEF Due
    <2>4. JsonYields(Failure, "other", json)
      BY <2>2, <2>3, TellsNothing DEF JsonYields
    <2>5. QED
      BY <1>4, <2>1, <2>4 DEF answer
  <1>5. QED
    BY <1>3, <1>4

(* The step of CollectsTruth: which endpoint is asked, and what it adds.    *)
Truth(out, shape, json, values, promUp) ==
    LET due == IF Due(shape, json) # {} THEN Due(shape, json)
               ELSE IF promUp THEN Pairs(values) ELSE {}
    IN  /\ Tells(out.samples, due)
        /\ out.err <=> Due(shape, json) = {} /\ ~promUp
        /\ shape = "flat" /\ Due(shape, json) # {}
             => \A i \in 1..Len(out.samples) : out.samples[i].at = "2"

Polled(json, values, shape, status, promStatus) ==
    Truth(Collect([status |-> status, body |-> Body(json, shape)],
                  [status |-> promStatus, lines |-> Lines(values)]),
          IF status = 200 THEN shape ELSE "other", json, values, promStatus = 200)

LEMMA PollTells ==
    ASSUME NEW V, NEW json \in [1..Len(Dims) -> V], NEW values, NEW status, NEW promStatus,
           NEW shape \in {"grouped", "flat", "objects", "other"}
    PROVE  Polled(json, values, shape, status, promStatus)
  <1> DEFINE a == [status |-> status, body |-> Body(json, shape)]
             b == [status |-> promStatus, lines |-> Lines(values)]
             sh == IF status = 200 THEN shape ELSE "other"
             first == collectJSON(a)
             second == collectPrometheus(b)
             out == Collect(a, b)
             promUp == promStatus = 200
             due == Due(sh, json)
  <1>1. JsonYields(first, sh, json)
    BY EndpointYields
  <1>2. b.status = promStatus /\ b.lines = Lines(values)
    OBVIOUS
  <1>3. Tells(parsePrometheusResponse(Lines(values)), Pairs(values))
    BY LinesTell
  <1> HIDE DEF a, b, sh
  <1>4. promUp => second.err = FALSE /\ Tells(second.samples, Pairs(values))
    BY <1>2, <1>3 DEF collectPrometheus, doGet
  <1>5. ~promUp => second.err = TRUE /\ Tells(second.samples, {})
    <2>1. Failure.err = TRUE /\ Failure.samples = <<>>
      BY DEF Failure
    <2>2. QED
      BY <1>2, <2>1, TellsNothing DEF collectPrometheus, doGet
  <1>6. out = IF first.err \/ first.samples = <<>> THEN second ELSE first
    BY DEF Collect
  <1>7. /\ Tells(first.samples, due)
        /\ first.err \in BOOLEAN /\ (first.err => first.samples = <<>>)
        /\ sh = "flat" => \A i \in 1..Len(first.samples) : first.samples[i].at = "2"
    BY <1>1 DEF JsonYields
  <1>8. first.samples = <<>> <=> due = {}
    BY <1>7 DEF Tells
  <1> HIDE DEF first, second, out, promUp, due
  <1>9. CASE due = {}
    <2>1. out = second
      BY <1>6, <1>8, <1>9
    <2>2. Truth(out, sh, json, values, promUp)
      BY <1>4, <1>5, <1>9, <2>1 DEF Truth, due
    <2>3. QED
      BY <2>2 DEF out, sh, promUp, a, b, Polled
  <1>10. CASE due # {}
    <2>1. out = first /\ first.err = FALSE
      BY <1>6, <1>7, <1>8, <1>10
    <2>2. Truth(out, sh, json, values, promUp)
      BY <1>7, <1>10, <2>1 DEF Truth, due
    <2>3. QED
      BY <2>2 DEF out, sh, promUp, a, b, Polled
  <1>11. QED
    BY <1>9, <1>10

(* What Collect reports of the polled context, whatever dimensions it has,  *)
(* whatever their values and whichever of them the JSON endpoint misses, in *)
(* whichever shape it answers and whichever endpoints fail: every value     *)
(* under its own dimension, none twice and none invented.                   *)
THEOREM CollectsTruthAlways == Spec => []CollectsTruth
  <1>1. Init => CollectsTruth
    <2>1. Init => input.kind # "poll"
      BY DEF Init, None
    <2>2. QED
      BY <2>1, Zenon DEF CollectsTruth
  <1>2. ASSUME CollectsTruth, [Next]_vars PROVE CollectsTruth'
    <2>1. ASSUME NEW values, NEW gaps, NEW shape \in {"grouped", "flat", "objects", "other"},
                 NEW status, NEW promStatus, Poll(values, gaps, shape, status, promStatus)
          PROVE  CollectsTruth'
      <3> DEFINE json == [i \in 1..Len(Dims) |-> IF i \in gaps THEN NotANumber ELSE values[i]]
                 V == {json[i] : i \in 1..Len(Dims)}
                 sh == IF status = 200 THEN shape ELSE "other"
                 up == promStatus = 200
      <3>1. /\ input' = [kind |-> "poll", values |-> values, json |-> json,
                         shape |-> sh, promUp |-> up]
            /\ output' = Collect([status |-> status, body |-> Body(json, shape)],
                                 [status |-> promStatus, lines |-> Lines(values)])
        BY <2>1, Zenon DEF Poll
      <3>2. json \in [1..Len(Dims) -> V]
        OBVIOUS
      <3> HIDE DEF json, V
      <3>3. Truth(output', sh, json, values, up)
        <4>1. Truth(Collect([status |-> status, body |-> Body(json, shape)],
                            [status |-> promStatus, lines |-> Lines(values)]),
                    sh, json, values, up)
          <5>1. Polled(json, values, shape, status, promStatus)
            BY <3>2, PollTells
          <5>2. QED
            BY <5>1 DEF Polled
        <4> HIDE DEF sh, up
        <4>2. QED
          BY <3>1, <4>1
      <3> HIDE DEF sh, up
      <3>4. /\ input'.values = values /\ input'.json = json /\ input'.shape = sh
            /\ input'.promUp = up
        BY <3>1
      <3>5. QED
        BY <3>3, <3>4, Zenon DEF CollectsTruth, Truth, Tells
    <2>2. ASSUME input'.kind # "poll" PROVE CollectsTruth'
      BY <2>2, Zenon DEF CollectsTruth
    <2>3. ASSUME NEW msg, NEW inner, NEW extra, Receive(msg, inner, extra)
          PROVE  input'.kind # "poll"
      BY <2>3 DEF Receive
    <2>4. ASSUME NEW name, NEW unit, ReadName(name, unit)
          PROVE  input'.kind # "poll"
      BY <2>4 DEF ReadName
    <2>5. ASSUME NEW keys, NEW labels, ReadLine(keys, labels)
          PROVE  input'.kind # "poll"
      BY <2>5 DEF ReadLine
    <2>6. CASE Idle
      <3>1. input'.kind # "poll"
        BY <2>6 DEF Idle, None
      <3>2. QED
        BY <2>2, <3>1
    <2>7. CASE Feed
      <3>1. CASE \E msg \in Messages, inner \in Extras, extra \in Extras :
                   Receive(msg, inner, extra)
        BY <2>2, <2>3, <3>1
      <3>2. CASE \E labels \in [LabelKeys -> LabelValues] :
                   \E keys \in {k \in [1..2 -> LabelKeys] : k[1] # k[2]} :
                      ReadLine(keys, labels)
        BY <2>2, <2>5, <3>2
      <3>3. CASE \E name \in Names, unit \in UnitWords : ReadName(name, unit)
        BY <2>2, <2>4, <3>3
      <3>4. CASE \E values \in [1..Len(Dims) -> Numbers \cup {NotANumber}],
                    gaps \in SUBSET (1..Len(Dims)),
                    shape \in {"grouped", "flat", "objects", "other"},
                    status \in {0, 200, 503}, promStatus \in {0, 200, 503} :
                   Poll(values, gaps, shape, status, promStatus)
        BY <2>1, <3>4
      <3>5. QED
        BY <2>7, <3>1, <3>2, <3>3, <3>4 DEF Feed
    <2>8. CASE UNCHANGED vars
      <3>1. input' = input /\ output' = output
        BY <2>8 DEF vars
      <3>2. QED
        BY <1>2, <3>1, Zenon DEF CollectsTruth
    <2>9. QED
      BY <1>2, <2>6, <2>7, <2>8 DEF Next
  <1>3. QED
    BY <1>1, <1>2, PTL DEF Spec

=============================================================================
