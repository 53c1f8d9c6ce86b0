------------------------- MODULE RemoteWrite_proofs -------------------------
(***************************************************************************)
(* The remote-write receiver for every set of senders, requests and         *)
(* handlers, every payload, batch size and number of faults.                *)
(***************************************************************************)
EXTENDS RemoteWrite, FiniteSetTheorems, WellFoundedInduction, TLAPS

(* The rows of h's request that it has sent.                                *)
Sent(h) == {Rows(job[h])[i] : i \in 1..pos[h]}

(* A handler before its commit: what it has sent is in its transaction or   *)
(* was in the table; the statement under way holds the next row.            *)
Inserting(h) ==
    /\ pos[h] < Len(Rows(job[h])) /\ pos[h] < count[h] + BatchSize
    /\ count[h] <= pos[h]

Writing(h) ==
    /\ job[h] \in Accepted
    /\ tx[h] \subseteq Keys(job[h])
    /\ Sent(h) \subseteq tx[h] \cup table

(* A handler after its commit.                                              *)
Written(h) ==
    /\ job[h] \in Accepted
    /\ Keys(job[h]) \subseteq table
    /\ count[h] = Len(Rows(job[h]))

HandlerInv(h) ==
    /\ pc[h] = "idle" <=> job[h] = None
    /\ pc[h] = "idle" => client[h] = None /\ pos[h] = 0 /\ count[h] = 0
    /\ pc[h] \notin {"insert", "commit"} => tx[h] = {}
    /\ pc[h] = "insert" => Writing(h) /\ Inserting(h)
    /\ pc[h] = "commit" => /\ Writing(h)
                           /\ pos[h] = Len(Rows(job[h])) /\ count[h] = pos[h]
    /\ pc[h] \in {"count", "reply"} => Written(h)

(* A sender waits for one answer at a time, to a request it has not passed. *)
SenderInv ==
    /\ \A h \in Handlers : client[h] # None =>
          next[client[h]] <= Len(Queue[client[h]])
    /\ \A g, h \in Handlers : client[g] = client[h] /\ client[g] # None => g = h

Vars ==
    /\ configured \in BOOLEAN /\ registered \in BOOLEAN
    /\ next \in [Senders -> Nat \ {0}]
    /\ \A s \in Senders : next[s] <= Len(Queue[s]) + 1
    /\ pc \in [Handlers -> PCs]
    /\ job \in [Handlers -> Requests \cup {None}]
    /\ client \in [Handlers -> Senders \cup {None}]
    /\ pos \in [Handlers -> Nat]
    /\ count \in [Handlers -> Nat]
    /\ tx \in [Handlers -> SUBSET AllKeys]
    /\ table \subseteq AllKeys
    /\ rwSamples \in Nat /\ ackedRows \in Nat
    /\ rwErrors \in 0..ErrorCap
    /\ acked \subseteq Accepted
    /\ faults \in 0..MaxFaults

WInv ==
    /\ Vars
    /\ SenderInv
    /\ \A h \in Handlers : HandlerInv(h)
    /\ AllOrNothing
    /\ AckedIsStored

(* Rows counted by a handler that has not written its answer yet.           *)
Unanswered ==
    {p \in Handlers \X Nat : pc[p[1]] = "reply" /\ p[2] \in 1..count[p[1]]}

(* The inductive form of AckedIsCounted.                                    *)
Counted ==
    /\ IsFiniteSet(Unanswered)
    /\ rwSamples >= ackedRows + Cardinality(Unanswered)

-----------------------------------------------------------------------------
(* The rows of a request.                                                   *)

(* Induction for the property of being in T, from the library's theorem on  *)
(* minimal elements.                                                        *)
LEMMA SetInduction ==
    ASSUME NEW T, 0 \in T, \A n \in Nat : n \in T => n + 1 \in T
    PROVE  \A n \in Nat : n \in T
  <1> SUFFICES ASSUME Nat \ T # {} PROVE FALSE
    OBVIOUS
  <1> DEFINE R == OpToRel(<, Nat)
             U == Nat \ T
  <1>1. IsWellFoundedOn(R, Nat)
    BY NatLessThanWellFounded
  <1>2. \A x \in Nat, y \in Nat : x < y => <<x, y>> \in R
    BY DEF OpToRel
  <1>3. U \subseteq Nat /\ U # {}
    OBVIOUS
  <1> HIDE DEF R, U
  <1>4. PICK m \in U : \A k \in U : ~(<<k, m>> \in R)
    BY <1>1, <1>3, WFMin
  <1>5. m \in Nat /\ m \notin T /\ \A k \in Nat : k < m => k \in T
    BY <1>2, <1>4 DEF U
  <1>6. m # 0 /\ m - 1 \in Nat /\ m - 1 \in T
    BY <1>5
  <1>7. QED
    BY <1>5, <1>6

(* The equation that FlattenSeq is chosen by.                               *)
Joins(f, n, seqs) ==
    f = [i \in 1..n |-> IF i = 1 THEN seqs[i] ELSE f[i - 1] \o seqs[i]]
Joined(seqs) == CHOOSE f : Joins(f, Len(seqs), seqs)

(* It has a solution, one part after the other, and what it chooses is a    *)
(* sequence of what the parts are made of.                                  *)
LEMMA FlattenType ==
    ASSUME NEW W, NEW seqs \in Seq(Seq(W))
    PROVE  FlattenSeq(seqs) \in Seq(W)
  <1> DEFINE n == Len(seqs)
             Solved(k) == k + 1 <= n =>
                            \E f \in [1..(k + 1) -> Seq(W)] : Joins(f, k + 1, seqs)
             T == {k \in Nat : Solved(k)}
  <1>1. n \in Nat /\ \A i \in 1..n : seqs[i] \in Seq(W)
    OBVIOUS
  <1>2. CASE n = 0
    <2>1. seqs = <<>> /\ <<>> \in Seq(W)
      BY <1>2
    <2>2. QED
      BY <1>2, <2>1 DEF FlattenSeq
  <1> SUFFICES ASSUME n # 0 PROVE FlattenSeq(seqs) \in Seq(W)
    BY <1>2
  <1> HIDE DEF n
  <1>3. Solved(0)
    <2> DEFINE f == [i \in 1..1 |-> seqs[1]]
    <2>1. \A i \in 1..1 : i = 1
      OBVIOUS
    <2>2. f \in [1..1 -> Seq(W)]
      BY <1>1
    <2>3. Joins(f, 1, seqs)
      BY <2>1 DEF Joins
    <2> HIDE DEF f
    <2>4. QED
      BY <2>2, <2>3
  <1>4. ASSUME NEW k \in Nat, Solved(k) PROVE Solved(k + 1)
    <2> SUFFICES ASSUME (k + 1) + 1 <= n
                 PROVE  \E f \in [1..((k + 1) + 1) -> Seq(W)] : Joins(f, (k + 1) + 1, seqs)
      OBVIOUS
    <2> DEFINE m == k + 1
    <2>1. m \in Nat \ {0} /\ m + 1 \in 1..n
      BY <1>1
    <2>2. PICK f \in [1..m -> Seq(W)] : Joins(f, m, seqs)
      BY <1>1, <1>4
    <2> HIDE DEF m
    <2> DEFINE h == [i \in 1..(m + 1) |-> IF i = m + 1 THEN f[m] \o seqs[m + 1] ELSE f[i]]
    <2>3. f[m] \o seqs[m + 1] \in Seq(W)
      <3>1. f[m] \in Seq(W) /\ seqs[m + 1] \in Seq(W)
        BY <1>1, <2>1, <2>2
      <3>2. QED
        BY <3>1
    <2>4. h \in [1..(m + 1) -> Seq(W)]
      <3>1. \A i \in 1..(m + 1) : i # m + 1 => i \in 1..m
        BY <2>1
      <3>2. QED
        BY <2>3, <3>1
    <2>5. \A i \in 1..(m + 1) : h[i] = IF i = 1 THEN seqs[i] ELSE h[i - 1] \o seqs[i]
      <3> SUFFICES ASSUME NEW i \in 1..(m + 1)
                   PROVE  h[i] = IF i = 1 THEN seqs[i] ELSE h[i - 1] \o seqs[i]
        OBVIOUS
      <3>1. CASE i = m + 1
        <4>1. i # 1 /\ i - 1 = m /\ m \in 1..(m + 1) /\ m # m + 1
          BY <2>1, <3>1
        <4>2. QED
          BY <3>1, <4>1
      <3>2. CASE i # m + 1
        <4>1. i \in 1..m
          BY <2>1, <3>2
        <4>2. f[i] = IF i = 1 THEN seqs[i] ELSE f[i - 1] \o seqs[i]
          BY <2>2, <4>1 DEF Joins
        <4>3. h[i] = f[i]
          BY <3>2
        <4>4. i # 1 => h[i - 1] = f[i - 1]
          BY <2>1, <4>1
        <4> HIDE DEF h
        <4>5. QED
          BY <4>2, <4>3, <4>4
      <3>3. QED
        BY <3>1, <3>2
    <2>6. Joins(h, m + 1, seqs)
      BY <2>5 DEF Joins
    <2> HIDE DEF h
    <2>7. QED
      BY <2>4, <2>6 DEF m
  <1> HIDE DEF Solved
  <1>5. 0 \in T /\ \A k \in Nat : k \in T => k + 1 \in T
    BY <1>3, <1>4
  <1> HIDE DEF T
  <1>6. \A k \in Nat : k \in T
    BY <1>5, SetInduction
  <1>7. \E f \in [1..n -> Seq(W)] : Joins(f, n, seqs)
    <2>1. n - 1 \in Nat /\ (n - 1) + 1 = n
      BY <1>1
    <2>2. Solved(n - 1)
      BY <1>6, <2>1 DEF T
    <2>3. QED
      BY <1>1, <2>1, <2>2 DEF Solved
  <1>8. Joins(Joined(seqs), n, seqs)
    BY <1>7, Zenon DEF Joined, n
  <1> DEFINE g == Joined(seqs)
             V == {k \in Nat : k + 1 <= n => g[k + 1] \in Seq(W)}
  <1> HIDE DEF g
  <1>9. \A i \in 1..n : g[i] = IF i = 1 THEN seqs[i] ELSE g[i - 1] \o seqs[i]
    BY <1>8 DEF Joins, g
  <1>10. 0 \in V
    BY <1>1, <1>9
  <1>11. ASSUME NEW k \in Nat, k \in V PROVE k + 1 \in V
    <2> SUFFICES ASSUME (k + 1) + 1 <= n PROVE g[(k + 1) + 1] \in Seq(W)
      OBVIOUS
    <2>1. k + 1 <= n /\ (k + 1) + 1 \in 1..n /\ (k + 1) + 1 # 1 /\ ((k + 1) + 1) - 1 = k + 1
      BY <1>1
    <2>2. g[k + 1] \in Seq(W) /\ seqs[(k + 1) + 1] \in Seq(W)
      BY <1>1, <1>11, <2>1
    <2>3. g[(k + 1) + 1] = g[k + 1] \o seqs[(k + 1) + 1]
      BY <1>9, <2>1
    <2>4. QED
      BY <2>2, <2>3
  <1> HIDE DEF V
  <1>12. \A k \in Nat : k \in V
    BY <1>10, <1>11, SetInduction
  <1>13. g[n] \in Seq(W)
    <2>1. n - 1 \in Nat /\ (n - 1) + 1 = n
      BY <1>1
    <2>2. QED
      BY <1>12, <2>1 DEF V
  <1>14. FlattenSeq(seqs) = Joined(seqs)[n]
    BY DEF FlattenSeq, Joined, Joins, n
  <1>15. QED
    BY <1>13, <1>14 DEF g

LEMMA RowsFacts ==
    ASSUME NEW r \in Accepted
    PROVE  /\ Len(Rows(r)) \in Nat
           /\ Rows(r) = <<>> <=> Len(Rows(r)) = 0
           /\ \A i \in 1..Len(Rows(r)) : Rows(r)[i] \in Keys(r)
           /\ Keys(r) = {Rows(r)[i] : i \in 1..Len(Rows(r))}
           /\ Keys(r) \subseteq AllKeys
  <1>1. Rows(r) \in Seq(Keys(r))
    <2> DEFINE p == Payload[r]
               row(s) == IF s.name # "" /\ s.finite
                         THEN << <<s.name, s.instance, s.time>> >> ELSE <<>>
               W == {<<p[i].name, p[i].instance, p[i].time>> : i \in 1..Len(p)}
               parts == [i \in 1..Len(p) |-> row(p[i])]
    <2>1. Len(p) \in Nat
      BY PayloadAssumption
    <2> HIDE DEF p
    <2>2. ASSUME NEW i \in 1..Len(p) PROVE row(p[i]) \in Seq(W)
      <3> DEFINE x == <<p[i].name, p[i].instance, p[i].time>>
      <3>1. x \in W
        OBVIOUS
      <3> HIDE DEF x, W
      <3>2. <<x>> \in Seq(W) /\ <<>> \in Seq(W)
        BY <3>1
      <3>3. row(p[i]) \in {<<x>>, <<>>}
        BY DEF x
      <3>4. QED
        BY <3>2, <3>3
    <2> HIDE DEF W, row
    <2>3. parts \in Seq(Seq(W))
      <3> DEFINE Q == Seq(W)
      <3>1. \A i \in 1..Len(p) : row(p[i]) \in Q
        BY <2>2
      <3> HIDE DEF Q
      <3>2. parts \in Seq(Q)
        BY <2>1, <3>1
      <3>3. QED
        BY <3>2 DEF Q
    <2>4. Rows(r) = FlattenSeq(parts)
      BY DEF Rows, p, row
    <2>5. Rows(r) \in Seq(W)
      BY <2>3, <2>4, FlattenType
    <2>6. ASSUME NEW s \in Seq(W) PROVE s \in Seq({s[i] : i \in 1..Len(s)})
      <3>1. Len(s) \in Nat /\ s = [i \in 1..Len(s) |-> s[i]]
        OBVIOUS
      <3>2. QED
        BY <3>1
    <2>7. QED
      BY <2>5, <2>6 DEF Keys
  <1>2. Keys(r) = {Rows(r)[i] : i \in 1..Len(Rows(r))}
    BY DEF Keys
  <1>3. Keys(r) \subseteq AllKeys
    BY DEF AllKeys
  <1>4. QED
    BY <1>1, <1>2, <1>3

(* A handler that does nothing is not disturbed by a table that grows, nor  *)
(* by a sender that hangs up.                                               *)
LEMMA Frame ==
    ASSUME NEW h \in Handlers, HandlerInv(h), table \subseteq table',
           pc'[h] = pc[h], job'[h] = job[h], pos'[h] = pos[h], count'[h] = count[h],
           tx'[h] = tx[h], client'[h] \in {client[h], None}
    PROVE  HandlerInv(h)'
  <1>1. Sent(h)' = Sent(h)
    BY DEF Sent
  <1>2. Writing(h) => Writing(h)'
    BY <1>1 DEF Writing
  <1>3. Inserting(h) => Inserting(h)'
    BY DEF Inserting
  <1>4. Written(h) => Written(h)'
    BY DEF Written
  <1>5. QED
    BY <1>2, <1>3, <1>4 DEF HandlerInv

LEMMA InitWInv == Init => WInv
  <1> SUFFICES ASSUME Init PROVE WInv
    OBVIOUS
  <1>1. \A s \in Senders : Len(Queue[s]) \in Nat
    BY QueueAssumption
  <1>2. Vars
    <2>1. next \in [Senders -> Nat \ {0}] /\ \A s \in Senders : next[s] <= Len(Queue[s]) + 1
      BY <1>1 DEF Init
    <2>2. rwErrors \in 0..ErrorCap /\ faults \in 0..MaxFaults
      BY BoundsAssumption DEF Init
    <2>3. rwSamples \in Nat /\ ackedRows \in Nat
      BY DEF Init
    <2>4. /\ pc \in [Handlers -> PCs] /\ job \in [Handlers -> Requests \cup {None}]
          /\ client \in [Handlers -> Senders \cup {None}]
          /\ pos \in [Handlers -> Nat] /\ count \in [Handlers -> Nat]
          /\ tx \in [Handlers -> SUBSET AllKeys] /\ table \subseteq AllKeys
      BY DEF Init, PCs
    <2>5. configured \in BOOLEAN /\ registered \in BOOLEAN /\ acked \subseteq Accepted
      BY DEF Init
    <2>6. QED
      BY <2>1, <2>2, <2>3, <2>4, <2>5 DEF Vars
  <1>3. SenderInv
    BY DEF Init, SenderInv
  <1>4. \A h \in Handlers : HandlerInv(h)
    BY DEF Init, HandlerInv
  <1>5. AllOrNothing
    <2>1. {} \in SUBSET Accepted /\ table = UNION {Keys(r) : r \in {}}
      BY DEF Init
    <2>2. QED
      BY <2>1 DEF AllOrNothing
  <1>6. AckedIsStored
    BY DEF Init, AckedIsStored
  <1>7. QED
    BY <1>2, <1>3, <1>4, <1>5, <1>6 DEF WInv

-----------------------------------------------------------------------------
(* The actions, one by one.                                                 *)

LEMMA ArriveWInv ==
    ASSUME WInv, NEW h \in Handlers, NEW s \in Senders, Arrive(h, s)
    PROVE  WInv'
  <1> DEFINE r == Queue[s][next[s]]
  <1>1. Vars /\ SenderInv /\ HandlerInv(h)
    BY DEF WInv
  <1>2. /\ pc[h] = "idle" /\ ~Waits(s) /\ next[s] <= Len(Queue[s])
        /\ job' = [job EXCEPT ![h] = r]
        /\ client' = [client EXCEPT ![h] = s]
        /\ pc' = [pc EXCEPT ![h] = IF Payload[r] = Rejected THEN "reject"
                                   ELSE IF Rows(r) = <<>> THEN "count" ELSE "insert"]
        /\ UNCHANGED <<configured, registered, table, next, acked, ackedRows, pos,
                       count, tx, rwSamples, rwErrors, faults>>
    BY DEF Arrive, Goto, senderVars, counters
  <1>3. r \in Requests /\ r # None
    <2>1. Queue[s] \in Seq(Requests) /\ next[s] \in Nat \ {0}
      BY <1>1, QueueAssumption DEF Vars
    <2>2. next[s] \in 1..Len(Queue[s])
      BY <1>2, <2>1
    <2>3. r \in Requests
      BY <2>1, <2>2
    <2>4. QED
      BY <2>3, NoneAssumption
  <1> HIDE DEF r
  <1>4. Vars'
    BY <1>1, <1>2, <1>3 DEF Vars, PCs
  <1>5. SenderInv'
    <2>1. s # None
      BY NoneAssumption
    <2>2. client'[h] = s /\ \A g \in Handlers \ {h} : client'[g] = client[g] /\ client[g] # s
      BY <1>1, <1>2 DEF Vars, Waits
    <2>3. \A g \in Handlers : client'[g] # None => next'[client'[g]] <= Len(Queue[client'[g]])
      BY <1>1, <1>2, <2>2 DEF SenderInv
    <2>4. \A f, g \in Handlers : client'[f] = client'[g] /\ client'[f] # None => f = g
      BY <1>1, <2>2 DEF SenderInv
    <2>5. QED
      BY <2>3, <2>4 DEF SenderInv
  <1>6. HandlerInv(h)'
    <2>1. /\ job'[h] = r /\ client'[h] = s /\ pos'[h] = 0 /\ count'[h] = 0 /\ tx'[h] = {}
          /\ pc'[h] = IF Payload[r] = Rejected THEN "reject"
                      ELSE IF Rows(r) = <<>> THEN "count" ELSE "insert"
      BY <1>1, <1>2 DEF Vars, HandlerInv
    <2>2. CASE Payload[r] = Rejected
      BY <1>3, <2>1, <2>2 DEF HandlerInv
    <2>3. CASE Payload[r] # Rejected
      <3>1. r \in Accepted
        BY <1>3, <2>3 DEF Accepted
      <3>2. CASE Rows(r) = <<>>
        <4>1. Len(Rows(r)) = 0 /\ Keys(r) = {}
          BY <3>1, <3>2, RowsFacts
        <4>2. Written(h)'
          BY <2>1, <3>1, <4>1 DEF Written
        <4>3. QED
          BY <1>3, <2>1, <2>3, <3>2, <4>2 DEF HandlerInv
      <3>3. CASE Rows(r) # <<>>
        <4>1. Len(Rows(r)) \in Nat /\ Len(Rows(r)) > 0
          BY <3>1, <3>3, RowsFacts
        <4>2. Inserting(h)'
          BY <2>1, <4>1, BatchSizeAssumption DEF Inserting
        <4>3. Writing(h)'
          BY <2>1, <3>1 DEF Writing, Sent
        <4>4. QED
          BY <1>3, <2>1, <2>3, <3>3, <4>2, <4>3 DEF HandlerInv
      <3>4. QED
        BY <3>2, <3>3
    <2>4. QED
      BY <2>2, <2>3
  <1>7. ASSUME NEW g \in Handlers \ {h} PROVE HandlerInv(g)'
    <2>1. /\ HandlerInv(g) /\ table \subseteq table'
          /\ pc'[g] = pc[g] /\ job'[g] = job[g] /\ pos'[g] = pos[g]
          /\ count'[g] = count[g] /\ tx'[g] = tx[g] /\ client'[g] = client[g]
      BY <1>1, <1>2 DEF WInv, Vars
    <2>2. QED
      BY <2>1, Frame
  <1>8. AllOrNothing' /\ AckedIsStored'
    BY <1>2 DEF WInv, AllOrNothing, AckedIsStored
  <1>9. QED
    BY <1>4, <1>5, <1>6, <1>7, <1>8 DEF WInv

LEMMA InsertRowWInv ==
    ASSUME WInv, NEW h \in Handlers, InsertRow(h)
    PROVE  WInv'
  <1> DEFINE len == Len(Rows(job[h]))
  <1>1. /\ Vars /\ SenderInv /\ HandlerInv(h)
    BY DEF WInv
  <1>2. /\ pc[h] = "insert"
        /\ tx' = [tx EXCEPT ![h] = @ \cup ({NextKey(h)} \ table)]
        /\ pos' = [pos EXCEPT ![h] = @ + 1]
        /\ pc' = [pc EXCEPT ![h] = IF pos[h] + 1 = len THEN "commit" ELSE "insert"]
        /\ count' = [count EXCEPT ![h] = IF pos'[h] = StatementEnd(h) THEN pos'[h] ELSE @]
        /\ UNCHANGED <<configured, registered, next, acked, ackedRows, job, client,
                       rwSamples, rwErrors, faults, table>>
    BY DEF InsertRow, SendRow, Goto, senderVars, counters
  <1>3. /\ Writing(h) /\ Inserting(h) /\ job[h] \in Accepted
        /\ pos[h] \in Nat /\ count[h] \in Nat
    BY <1>1, <1>2 DEF HandlerInv, Vars, Writing
  <1>4. len \in Nat /\ NextKey(h) \in Keys(job[h]) /\ NextKey(h) \in AllKeys
    <2>1. len \in Nat
      BY <1>3, RowsFacts
    <2>2. pos[h] + 1 \in 1..len
      BY <1>3, <2>1 DEF Inserting
    <2>3. NextKey(h) \in Keys(job[h])
      BY <1>3, <2>2, RowsFacts DEF NextKey
    <2>4. QED
      BY <1>3, <2>1, <2>3, RowsFacts
  <1>5. /\ tx'[h] = tx[h] \cup ({NextKey(h)} \ table) /\ pos'[h] = pos[h] + 1
        /\ pc'[h] = IF pos[h] + 1 = len THEN "commit" ELSE "insert"
        /\ count'[h] = IF pos[h] + 1 = StatementEnd(h) THEN pos[h] + 1 ELSE count[h]
        /\ job'[h] = job[h] /\ table' = table /\ client' = client
    BY <1>1, <1>2 DEF Vars
  <1>6. count'[h] \in Nat
    BY <1>3, <1>5
  <1>7. Vars'
    <2>1. pos' \in [Handlers -> Nat] /\ pc' \in [Handlers -> PCs]
      BY <1>1, <1>2, <1>3 DEF Vars, PCs
    <2>2. tx' \in [Handlers -> SUBSET AllKeys]
      BY <1>1, <1>2, <1>4 DEF Vars
    <2>3. count' \in [Handlers -> Nat]
      BY <1>1, <1>2, <1>5, <1>6 DEF Vars
    <2>4. QED
      BY <1>1, <1>2, <2>1, <2>2, <2>3 DEF Vars
  <1>8. Writing(h)'
    <2>1. tx'[h] \subseteq Keys(job[h])
      BY <1>3, <1>4, <1>5 DEF Writing
    <2>2. Sent(h)' = Sent(h) \cup {NextKey(h)}
      <3>1. 1..(pos[h] + 1) = 1..pos[h] \cup {pos[h] + 1}
        BY <1>3
      <3>2. QED
        BY <1>5, <3>1 DEF Sent, NextKey
    <2>3. Sent(h)' \subseteq tx'[h] \cup table'
      BY <1>3, <1>5, <2>2 DEF Writing
    <2>4. QED
      BY <1>3, <1>5, <2>1, <2>3 DEF Writing
  <1>9. HandlerInv(h)'
    <2>1. StatementEnd(h) = IF count[h] + BatchSize > len THEN len ELSE count[h] + BatchSize
      BY DEF StatementEnd
    <2>2. /\ pos[h] < len /\ pos[h] < count[h] + BatchSize /\ count[h] <= pos[h]
          /\ BatchSize \in Nat /\ BatchSize > 0
      BY <1>3, BatchSizeAssumption DEF Inserting
    <2>3. pc[h] # "idle" /\ pc'[h] \in {"insert", "commit"} /\ job'[h] # None
      BY <1>1, <1>2, <1>5 DEF HandlerInv
    <2>4. CASE pos[h] + 1 = len
      <3>1. count'[h] = pos'[h] /\ pos'[h] = len /\ pc'[h] = "commit"
        BY <1>3, <1>4, <1>5, <2>1, <2>2, <2>4
      <3>2. QED
        BY <1>5, <1>8, <2>3, <3>1 DEF HandlerInv
    <2>5. CASE pos[h] + 1 # len
      <3>1. /\ pos'[h] < len /\ pos'[h] < count'[h] + BatchSize
            /\ count'[h] <= pos'[h] /\ pc'[h] = "insert"
        BY <1>3, <1>4, <1>5, <2>1, <2>2, <2>5
      <3>2. Inserting(h)'
        BY <1>5, <3>1 DEF Inserting
      <3>3. QED
        BY <1>8, <2>3, <3>1, <3>2 DEF HandlerInv
    <2>6. QED
      BY <2>4, <2>5
  <1>10. ASSUME NEW g \in Handlers \ {h} PROVE HandlerInv(g)'
    <2>1. /\ HandlerInv(g) /\ table \subseteq table'
          /\ pc'[g] = pc[g] /\ job'[g] = job[g] /\ pos'[g] = pos[g]
          /\ count'[g] = count[g] /\ tx'[g] = tx[g] /\ client'[g] = client[g]
      BY <1>1, <1>2 DEF WInv, Vars
    <2>2. QED
      BY <2>1, Frame
  <1>11. SenderInv' /\ AllOrNothing' /\ AckedIsStored'
    BY <1>1, <1>2 DEF WInv, SenderInv, AllOrNothing, AckedIsStored
  <1>12. QED
    BY <1>7, <1>9, <1>10, <1>11 DEF WInv

LEMMA CommitWInv ==
    ASSUME WInv, NEW h \in Handlers, pc[h] = "commit",
           Commit(h) \/ CommitUnknown(h)
    PROVE  WInv'
  <1>1. /\ Vars /\ SenderInv /\ HandlerInv(h) /\ AllOrNothing /\ AckedIsStored
    BY DEF WInv
  <1>2. /\ table' = table \cup tx[h] /\ tx' = [tx EXCEPT ![h] = {}]
        /\ UNCHANGED <<configured, registered, next, acked, ackedRows, job, client,
                       rwSamples, rwErrors>>
        /\ faults' \in 0..MaxFaults
        /\ \/ UNCHANGED <<pos, count>> /\ pc' = [pc EXCEPT ![h] = "count"]
           \/ /\ pos' = [pos EXCEPT ![h] = 0] /\ count' = [count EXCEPT ![h] = 0]
              /\ pc' = [pc EXCEPT ![h] = "error"]
    BY <1>1, BoundsAssumption
       DEF Commit, CommitUnknown, Rollback, Goto, Fault, senderVars, counters, Vars
  <1>3. Writing(h) /\ job[h] \in Accepted /\ pos[h] = Len(Rows(job[h])) /\ count[h] = pos[h]
    BY <1>1 DEF HandlerInv, Writing
  <1>4. table' = table \cup Keys(job[h])
    <2>1. Sent(h) = Keys(job[h])
      BY <1>3, RowsFacts DEF Sent
    <2>2. QED
      BY <1>2, <1>3, <2>1 DEF Writing
  <1>5. Vars'
    <2>1. pos' \in [Handlers -> Nat] /\ count' \in [Handlers -> Nat] /\ pc' \in [Handlers -> PCs]
      <3>1. /\ pos \in [Handlers -> Nat] /\ count \in [Handlers -> Nat]
            /\ pc \in [Handlers -> PCs] /\ "count" \in PCs /\ "error" \in PCs
        BY <1>1 DEF Vars, PCs
      <3>2. CASE UNCHANGED <<pos, count>> /\ pc' = [pc EXCEPT ![h] = "count"]
        BY <3>1, <3>2
      <3>3. CASE /\ pos' = [pos EXCEPT ![h] = 0] /\ count' = [count EXCEPT ![h] = 0]
                 /\ pc' = [pc EXCEPT ![h] = "error"]
        BY <3>1, <3>3
      <3>4. QED
        BY <1>2, <3>2, <3>3
    <2>2. tx' \in [Handlers -> SUBSET AllKeys] /\ table' \subseteq AllKeys
      BY <1>1, <1>2 DEF Vars
    <2>3. QED
      BY <1>1, <1>2, <2>1, <2>2 DEF Vars
  <1>6. HandlerInv(h)'
    <2>1. /\ job'[h] = job[h] /\ tx'[h] = {} /\ job'[h] # None
          /\ pc'[h] = "error" \/ (pc'[h] = "count" /\ count'[h] = count[h])
      BY <1>1, <1>2 DEF Vars, HandlerInv
    <2>2. pc'[h] = "count" => Written(h)'
      BY <1>3, <1>4, <2>1 DEF Written
    <2>3. QED
      BY <2>1, <2>2 DEF HandlerInv
  <1>7. ASSUME NEW g \in Handlers \ {h} PROVE HandlerInv(g)'
    <2>1. /\ HandlerInv(g) /\ table \subseteq table'
          /\ pc'[g] = pc[g] /\ job'[g] = job[g] /\ pos'[g] = pos[g]
          /\ count'[g] = count[g] /\ tx'[g] = tx[g] /\ client'[g] = client[g]
      BY <1>1, <1>2 DEF WInv, Vars
    <2>2. QED
      BY <2>1, Frame
  <1>8. AllOrNothing'
    <2>1. PICK R \in SUBSET Accepted : table = UNION {Keys(r) : r \in R}
      BY <1>1 DEF AllOrNothing
    <2>2. R \cup {job[h]} \in SUBSET Accepted
      BY <1>3
    <2>3. table' = UNION {Keys(r) : r \in R \cup {job[h]}}
      BY <1>4, <2>1
    <2>4. QED
      BY <2>2, <2>3 DEF AllOrNothing
  <1>9. SenderInv' /\ AckedIsStored'
    BY <1>1, <1>2 DEF SenderInv, AckedIsStored
  <1>10. QED
    BY <1>5, <1>6, <1>7, <1>8, <1>9 DEF WInv

(* InsertRefused and CallFails: the transaction is rolled back.             *)
LEMMA RollbackWInv ==
    ASSUME WInv, NEW h \in Handlers, InsertRefused(h) \/ CallFails(h)
    PROVE  WInv'
  <1>1. /\ Vars /\ SenderInv /\ HandlerInv(h) /\ AllOrNothing /\ AckedIsStored
    BY DEF WInv
  <1>2. /\ pc[h] \in {"insert", "commit"}
        /\ tx' = [tx EXCEPT ![h] = {}] /\ pos' = [pos EXCEPT ![h] = 0]
        /\ count' = [count EXCEPT ![h] = 0] /\ pc' = [pc EXCEPT ![h] = "error"]
        /\ UNCHANGED <<configured, registered, table, next, acked, ackedRows, job,
                       client, rwSamples, rwErrors>>
        /\ faults' \in 0..MaxFaults
    BY <1>1, BoundsAssumption
       DEF InsertRefused, CallFails, Rollback, Goto, Fault, senderVars, counters, Vars
  <1>3. Vars'
    BY <1>1, <1>2 DEF Vars, PCs
  <1>4. HandlerInv(h)'
    BY <1>1, <1>2 DEF HandlerInv, Vars
  <1>5. ASSUME NEW g \in Handlers \ {h} PROVE HandlerInv(g)'
    <2>1. /\ HandlerInv(g) /\ table \subseteq table'
          /\ pc'[g] = pc[g] /\ job'[g] = job[g] /\ pos'[g] = pos[g]
          /\ count'[g] = count[g] /\ tx'[g] = tx[g] /\ client'[g] = client[g]
      BY <1>1, <1>2 DEF WInv, Vars
    <2>2. QED
      BY <2>1, Frame
  <1>6. SenderInv' /\ AllOrNothing' /\ AckedIsStored'
    BY <1>1, <1>2 DEF SenderInv, AllOrNothing, AckedIsStored
  <1>7. QED
    BY <1>3, <1>4, <1>5, <1>6 DEF WInv

LEMMA CountWInv ==
    ASSUME WInv, NEW h \in Handlers, Count(h)
    PROVE  WInv'
  <1>1. /\ Vars /\ SenderInv /\ HandlerInv(h) /\ AllOrNothing /\ AckedIsStored
    BY DEF WInv
  <1>2. /\ pc[h] = "count" /\ pc' = [pc EXCEPT ![h] = "reply"]
        /\ rwSamples' = rwSamples + count[h]
        /\ UNCHANGED <<configured, registered, table, next, acked, ackedRows, job,
                       client, pos, count, tx, rwErrors, faults>>
    BY DEF Count, Goto, senderVars
  <1>3. Vars'
    BY <1>1, <1>2 DEF Vars, PCs
  <1>4. HandlerInv(h)'
    <2>1. Written(h)' /\ pc'[h] = "reply" /\ job'[h] # None /\ tx'[h] = {}
      BY <1>1, <1>2 DEF HandlerInv, Vars, Written
    <2>2. QED
      BY <2>1 DEF HandlerInv
  <1>5. ASSUME NEW g \in Handlers \ {h} PROVE HandlerInv(g)'
    <2>1. /\ HandlerInv(g) /\ table \subseteq table'
          /\ pc'[g] = pc[g] /\ job'[g] = job[g] /\ pos'[g] = pos[g]
          /\ count'[g] = count[g] /\ tx'[g] = tx[g] /\ client'[g] = client[g]
      BY <1>1, <1>2 DEF WInv, Vars
    <2>2. QED
      BY <2>1, Frame
  <1>6. SenderInv' /\ AllOrNothing' /\ AckedIsStored'
    BY <1>1, <1>2 DEF SenderInv, AllOrNothing, AckedIsStored
  <1>7. QED
    BY <1>3, <1>4, <1>5, <1>6 DEF WInv

(* Reply204, Reply500, Reply4xx: the answer, and the end of the handler.    *)
LEMMA ReplyWInv ==
    ASSUME WInv, NEW h \in Handlers, Reply204(h) \/ Reply500(h) \/ Reply4xx(h)
    PROVE  WInv'
  <1>1. /\ Vars /\ SenderInv /\ HandlerInv(h) /\ AllOrNothing /\ AckedIsStored
    BY DEF WInv
  <1>2. /\ pc[h] \in {"reply", "error", "reject"}
        /\ pc' = [pc EXCEPT ![h] = "idle"]
        /\ job' = [job EXCEPT ![h] = None] /\ client' = [client EXCEPT ![h] = None]
        /\ pos' = [pos EXCEPT ![h] = 0] /\ count' = [count EXCEPT ![h] = 0]
        /\ UNCHANGED <<configured, registered, table, tx, rwSamples, faults>>
    BY DEF Reply204, Reply500, Reply4xx, Finish, Goto
  <1>3. \/ next' = next
        \/ /\ client[h] # None
           /\ next' = [next EXCEPT ![client[h]] = @ + 1]
    BY DEF Reply204, Reply500, Reply4xx, Advance, senderVars
  <1>4. \/ acked' = acked /\ ackedRows' = ackedRows
        \/ /\ pc[h] = "reply" /\ acked' = acked \cup {job[h]}
           /\ ackedRows' = ackedRows + Len(Rows(job[h]))
    BY DEF Reply204, Reply500, Reply4xx, senderVars
  <1>5. rwErrors' \in 0..ErrorCap
    <2>1. rwErrors' = rwErrors \/ CountError
      BY DEF Reply204, Reply500, Reply4xx
    <2>2. QED
      BY <1>1, <2>1, BoundsAssumption DEF CountError, Vars
  <1>6. pc[h] = "reply" => Written(h)
    BY <1>1 DEF HandlerInv
  <1>7. acked' \subseteq Accepted /\ ackedRows' \in Nat /\ AckedIsStored'
    <2>1. CASE acked' = acked /\ ackedRows' = ackedRows
      BY <1>1, <1>2, <2>1 DEF Vars, AckedIsStored
    <2>2. CASE /\ pc[h] = "reply" /\ acked' = acked \cup {job[h]}
               /\ ackedRows' = ackedRows + Len(Rows(job[h]))
      <3>1. job[h] \in Accepted /\ Keys(job[h]) \subseteq table
        BY <1>6, <2>2 DEF Written
      <3>2. Len(Rows(job[h])) \in Nat
        BY <3>1, RowsFacts
      <3>3. QED
        BY <1>1, <1>2, <2>2, <3>1, <3>2 DEF Vars, AckedIsStored
    <2>3. QED
      BY <1>4, <2>1, <2>2
  <1>8. next' \in [Senders -> Nat \ {0}] /\ \A s \in Senders : next'[s] <= Len(Queue[s]) + 1
    <2>1. CASE next' = next
      BY <1>1, <2>1 DEF Vars
    <2>2. CASE client[h] # None /\ next' = [next EXCEPT ![client[h]] = @ + 1]
      <3>1. client[h] \in Senders /\ next[client[h]] <= Len(Queue[client[h]])
        BY <1>1, <2>2 DEF Vars, SenderInv
      <3>2. next \in [Senders -> Nat \ {0}] /\ \A s \in Senders : next[s] <= Len(Queue[s]) + 1
        BY <1>1 DEF Vars
      <3>3. \A s \in Senders : Len(Queue[s]) \in Nat
        BY QueueAssumption
      <3>4. QED
        BY <2>2, <3>1, <3>2, <3>3
    <2>3. QED
      BY <1>3, <2>1, <2>2
  <1>9. Vars'
    BY <1>1, <1>2, <1>5, <1>7, <1>8 DEF Vars, PCs
  <1>10. SenderInv'
    <2>1. client'[h] = None /\ \A g \in Handlers \ {h} : client'[g] = client[g]
      BY <1>1, <1>2 DEF Vars
    <2>2. ASSUME NEW g \in Handlers, client'[g] # None
          PROVE  next'[client'[g]] <= Len(Queue[client'[g]])
      <3>1. g # h /\ client'[g] = client[g]
        BY <2>1, <2>2
      <3>2. client[g] # client[h] /\ client[g] \in Senders
        BY <1>1, <2>2, <3>1 DEF SenderInv, Vars
      <3>3. next'[client[g]] = next[client[g]]
        BY <1>1, <1>3, <3>2 DEF Vars
      <3>4. QED
        BY <1>1, <2>2, <3>1, <3>3 DEF SenderInv
    <2>3. \A f, g \in Handlers : client'[f] = client'[g] /\ client'[f] # None => f = g
      BY <1>1, <2>1 DEF SenderInv
    <2>4. QED
      BY <2>2, <2>3 DEF SenderInv
  <1>11. HandlerInv(h)'
    BY <1>1, <1>2 DEF HandlerInv, Vars
  <1>12. ASSUME NEW g \in Handlers \ {h} PROVE HandlerInv(g)'
    <2>1. /\ HandlerInv(g) /\ table \subseteq table'
          /\ pc'[g] = pc[g] /\ job'[g] = job[g] /\ pos'[g] = pos[g]
          /\ count'[g] = count[g] /\ tx'[g] = tx[g] /\ client'[g] = client[g]
      BY <1>1, <1>2 DEF WInv, Vars
    <2>2. QED
      BY <2>1, Frame
  <1>13. AllOrNothing'
    BY <1>1, <1>2 DEF AllOrNothing
  <1>14. QED
    BY <1>7, <1>9, <1>10, <1>11, <1>12, <1>13 DEF WInv

LEMMA NextWInv == WInv /\ [Next]_vars => WInv'
  <1> SUFFICES ASSUME WInv, [Next]_vars PROVE WInv'
    OBVIOUS
  <1>1. /\ Vars /\ SenderInv /\ AllOrNothing /\ AckedIsStored
        /\ \A h \in Handlers : HandlerInv(h)
    BY DEF WInv
  <1>2. ASSUME NEW h \in Handlers, Step(h) PROVE WInv'
    BY <1>2, RollbackWInv, CommitWInv, CountWInv, ReplyWInv DEF Step, Commit
  <1>3. ASSUME NEW h \in Handlers, CommitUnknown(h) PROVE WInv'
    BY <1>3, CommitWInv DEF CommitUnknown
  <1>4. ASSUME NEW h \in Handlers, HangUp(h) PROVE WInv'
    <2>1. /\ client' = [client EXCEPT ![h] = None] /\ faults' \in 0..MaxFaults
          /\ UNCHANGED <<configured, registered, table, next, acked, ackedRows, pc, job,
                         pos, count, tx, rwSamples, rwErrors>>
      BY <1>1, <1>4, BoundsAssumption DEF HangUp, Fault, senderVars, counters, Vars
    <2>2. Vars'
      BY <1>1, <2>1 DEF Vars
    <2>3. client'[h] = None /\ \A g \in Handlers \ {h} : client'[g] = client[g]
      BY <1>1, <2>1 DEF Vars
    <2>4. ASSUME NEW g \in Handlers PROVE HandlerInv(g)'
      BY <1>1, <2>1, <2>3, Frame
    <2>5. SenderInv'
      BY <1>1, <2>1, <2>3 DEF SenderInv
    <2>6. AllOrNothing' /\ AckedIsStored'
      BY <1>1, <2>1 DEF AllOrNothing, AckedIsStored
    <2>7. QED
      BY <2>2, <2>4, <2>5, <2>6 DEF WInv
  <1>5. CASE Register
    <2>1. registered' = TRUE
          /\ UNCHANGED <<configured, table, next, acked, ackedRows, pc, job, client, pos,
                         count, tx, rwSamples, rwErrors, faults>>
      BY <1>5 DEF Register, senderVars, handlerVars, counters
    <2>2. Vars'
      BY <1>1, <2>1 DEF Vars
    <2>3. \A g \in Handlers : HandlerInv(g)'
      BY <1>1, <2>1, Frame
    <2>4. SenderInv' /\ AllOrNothing' /\ AckedIsStored'
      BY <1>1, <2>1 DEF SenderInv, AllOrNothing, AckedIsStored
    <2>5. QED
      BY <2>2, <2>3, <2>4 DEF WInv
  <1>6. CASE Crash
    <2>1. /\ pc' = [h \in Handlers |-> "idle"] /\ job' = [h \in Handlers |-> None]
          /\ client' = [h \in Handlers |-> None] /\ pos' = [h \in Handlers |-> 0]
          /\ count' = [h \in Handlers |-> 0] /\ tx' = [h \in Handlers |-> {}]
          /\ rwSamples' = 0 /\ rwErrors' = 0 /\ ackedRows' = 0
          /\ faults' \in 0..MaxFaults
          /\ UNCHANGED <<configured, registered, table, next, acked>>
      BY <1>1, <1>6, BoundsAssumption DEF Crash, Fault, Vars
    <2>2. rwErrors' \in 0..ErrorCap
      BY <2>1, BoundsAssumption
    <2>3. Vars'
      BY <1>1, <2>1, <2>2 DEF Vars, PCs
    <2>4. (\A g \in Handlers : HandlerInv(g)') /\ SenderInv'
      BY <2>1 DEF HandlerInv, SenderInv
    <2>5. AllOrNothing' /\ AckedIsStored'
      BY <1>1, <2>1 DEF AllOrNothing, AckedIsStored
    <2>6. QED
      BY <2>3, <2>4, <2>5 DEF WInv
  <1>7. CASE UNCHANGED vars
    <2>1. Vars'
      BY <1>1, <1>7 DEF vars, Vars
    <2>2. \A g \in Handlers : HandlerInv(g)'
      BY <1>1, <1>7, Frame DEF vars
    <2>3. SenderInv' /\ AllOrNothing' /\ AckedIsStored'
      BY <1>1, <1>7 DEF vars, SenderInv, AllOrNothing, AckedIsStored
    <2>4. QED
      BY <2>1, <2>2, <2>3 DEF WInv
  <1>8. CASE Drained
    BY <1>7, <1>8 DEF Drained
  <1>9. QED
    BY <1>2, <1>3, <1>4, <1>5, <1>6, <1>7, <1>8, ArriveWInv, InsertRowWInv, RollbackWInv
    DEF Next

LEMMA SpecWInv == Spec => []WInv
  BY InitWInv, NextWInv, PTL DEF Spec

(* Every variable of the handlers, the senders and the counters stays in    *)
(* range: ingest never sends more rows than it has, nor does its count pass *)
(* what it sent.                                                            *)
THEOREM TypeCorrect == Spec => []TypeOK
  <1>1. WInv => TypeOK
    <2> SUFFICES ASSUME WInv PROVE TypeOK
      OBVIOUS
    <2>1. Vars /\ \A h \in Handlers : HandlerInv(h)
      BY DEF WInv
    <2>2. ASSUME NEW h \in Handlers, pc[h] \in {"insert", "commit"}
          PROVE  pos[h] \in 0..Len(Rows(job[h])) /\ count[h] \in 0..pos[h]
      <3>1. job[h] \in Accepted /\ pos[h] \in Nat /\ count[h] \in Nat
        BY <2>1, <2>2 DEF HandlerInv, Writing, Vars
      <3>2. Len(Rows(job[h])) \in Nat
        BY <3>1, RowsFacts
      <3>3. QED
        BY <2>1, <2>2, <3>1, <3>2 DEF HandlerInv, Inserting
    <2>3. ASSUME NEW h \in Handlers
          PROVE  (pc[h] = "idle" <=> job[h] = None) /\ tx[h] \subseteq AllKeys
      BY <2>1 DEF HandlerInv, Vars
    <2>4. \A s \in Senders : next[s] \in 1..(Len(Queue[s]) + 1)
      <3>1. \A s \in Senders : Len(Queue[s]) \in Nat
        BY QueueAssumption
      <3>2. QED
        BY <2>1, <3>1 DEF Vars
    <2>5. QED
      BY <2>1, <2>2, <2>3, <2>4 DEF TypeOK, Vars
  <1>2. QED
    BY <1>1, SpecWInv, PTL

(* Whatever fails, is repeated, or runs in parallel on the same rows, the   *)
(* table is the union of whole requests.                                    *)
THEOREM AllOrNothingAlways == Spec => []AllOrNothing
  <1>1. WInv => AllOrNothing
    BY DEF WInv
  <1>2. QED
    BY <1>1, SpecWInv, PTL

(* What was answered with 204 is in the table, also when ON CONFLICT left   *)
(* some of its rows to another transaction.                                 *)
THEOREM AckedIsStoredAlways == Spec => []AckedIsStored
  <1>1. WInv => AckedIsStored
    BY DEF WInv
  <1>2. QED
    BY <1>1, SpecWInv, PTL

-----------------------------------------------------------------------------
(* The counter.                                                             *)

LEMMA ColumnSize ==
    ASSUME NEW h, NEW n \in Nat
    PROVE  IsFiniteSet({h} \X (1..n)) /\ Cardinality({h} \X (1..n)) = n
  <1>1. IsFiniteSet({h}) /\ Cardinality({h}) = 1
    BY FS_Singleton
  <1>2. IsFiniteSet(1..n) /\ Cardinality(1..n) = n
    <2>1. 1 \in Int /\ n \in Int
      OBVIOUS
    <2>2. IsFiniteSet(1..n) /\ Cardinality(1..n) = IF 1 > n THEN 0 ELSE n - 1 + 1
      BY <2>1, FS_Interval
    <2>3. QED
      BY <2>2
  <1>3. IsFiniteSet({h} \X (1..n)) /\ Cardinality({h} \X (1..n)) = 1 * n
    <2>1. Cardinality({h} \X (1..n)) = Cardinality({h}) * Cardinality(1..n)
      BY <1>1, <1>2, FS_Product
    <2>2. IsFiniteSet({h} \X (1..n))
      BY <1>1, <1>2, FS_Product
    <2>3. QED
      BY <1>1, <1>2, <2>1, <2>2
  <1>4. QED
    BY <1>3

LEMMA InitCounted == Init => Counted
  <1> SUFFICES ASSUME Init PROVE Counted
    OBVIOUS
  <1>1. Unanswered = {}
    BY DEF Init, Unanswered
  <1>2. QED
    BY <1>1, FS_EmptySet DEF Init, Counted

LEMMA NextCounted == WInv /\ Counted /\ [Next]_vars => Counted'
  <1> SUFFICES ASSUME WInv, Counted, [Next]_vars PROVE Counted'
    OBVIOUS
  <1>1. /\ rwSamples \in Nat /\ ackedRows \in Nat
        /\ pc \in [Handlers -> PCs] /\ count \in [Handlers -> Nat]
    BY DEF WInv, Vars
  <1>2. /\ IsFiniteSet(Unanswered) /\ Cardinality(Unanswered) \in Nat
        /\ rwSamples >= ackedRows + Cardinality(Unanswered)
    BY FS_CardinalityType DEF Counted
  \* Steps of handlers that do not reply.
  <1> DEFINE quiet == /\ rwSamples' = rwSamples /\ ackedRows' = ackedRows
                      /\ \A g \in Handlers : \/ pc'[g] = pc[g] /\ count'[g] = count[g]
                                             \/ pc[g] # "reply" /\ pc'[g] # "reply"
  <1>3. ASSUME quiet PROVE Counted'
    <2>1. Unanswered' = Unanswered
      BY <1>3 DEF Unanswered
    <2>2. QED
      BY <1>2, <1>3, <2>1 DEF Counted
  <1>4. ASSUME NEW h \in Handlers, Count(h) PROVE Counted'
    <2>1. /\ pc[h] = "count" /\ pc' = [pc EXCEPT ![h] = "reply"]
          /\ rwSamples' = rwSamples + count[h] /\ UNCHANGED <<ackedRows, count>>
      BY <1>4 DEF Count, Goto, senderVars
    <2>2. pc'[h] = "reply" /\ \A g \in Handlers \ {h} : pc'[g] = pc[g]
      BY <1>1, <2>1
    <2>3. count[h] \in Nat
      BY <1>1
    <2> DEFINE col == {h} \X (1..count[h])
    <2>4. Unanswered' = Unanswered \cup col
      BY <2>1, <2>2, <2>3 DEF Unanswered
    <2>5. Unanswered \cap col = {}
      BY <2>1 DEF Unanswered
    <2>6. IsFiniteSet(col) /\ Cardinality(col) = count[h]
      BY <2>3, ColumnSize
    <2> HIDE DEF col
    <2>7. /\ IsFiniteSet(Unanswered')
          /\ Cardinality(Unanswered') = Cardinality(Unanswered) + count[h] - Cardinality({})
      BY <1>2, <2>4, <2>5, <2>6, FS_Union
    <2>8. Cardinality({}) = 0
      BY FS_EmptySet
    <2>9. QED
      BY <1>1, <1>2, <2>1, <2>3, <2>7, <2>8 DEF Counted
  <1>5. ASSUME NEW h \in Handlers, Reply204(h) PROVE Counted'
    <2>1. /\ pc[h] = "reply" /\ pc' = [pc EXCEPT ![h] = "idle"]
          /\ count' = [count EXCEPT ![h] = 0] /\ rwSamples' = rwSamples
          /\ ackedRows' = ackedRows \/ ackedRows' = ackedRows + Len(Rows(job[h]))
      BY <1>5 DEF Reply204, Finish, Goto, senderVars
    <2>2. count[h] = Len(Rows(job[h])) /\ count[h] \in Nat
      BY <1>1, <2>1 DEF WInv, HandlerInv, Written
    <2>3. pc'[h] = "idle" /\ \A g \in Handlers \ {h} : pc'[g] = pc[g] /\ count'[g] = count[g]
      BY <1>1, <2>1
    <2> DEFINE col == {h} \X (1..count[h])
    <2>4. Unanswered' = Unanswered \ col
      BY <2>1, <2>2, <2>3 DEF Unanswered
    <2>5. col = Unanswered \cap col
      BY <2>1, <2>2 DEF Unanswered
    <2>6. IsFiniteSet(col) /\ Cardinality(col) = count[h]
      BY <2>2, ColumnSize
    <2> HIDE DEF col
    <2>7. IsFiniteSet(Unanswered') /\ Cardinality(Unanswered') = Cardinality(Unanswered) - count[h]
      <3>1. /\ IsFiniteSet(Unanswered \ col)
            /\ Cardinality(Unanswered \ col)
                 = Cardinality(Unanswered) - Cardinality(Unanswered \cap col)
        BY <1>2, FS_Difference
      <3>2. QED
        BY <2>4, <2>5, <2>6, <3>1
    <2>8. QED
      BY <1>1, <1>2, <2>1, <2>2, <2>7 DEF Counted
  <1>6. ASSUME NEW h \in Handlers,
               \/ \E s \in Senders : Arrive(h, s)
               \/ InsertRefused(h) \/ Commit(h) \/ Reply500(h) \/ Reply4xx(h)
               \/ InsertRow(h) \/ CallFails(h) \/ CommitUnknown(h)
        PROVE  Counted'
    <2>1. pc[h] # "reply"
      BY <1>6 DEF Arrive, InsertRefused, Commit, Reply500, Reply4xx, InsertRow, SendRow,
                  CallFails, CommitUnknown
    <2>2. \E p \in PCs \ {"reply"} : pc' = [pc EXCEPT ![h] = p]
      BY <1>6 DEF Arrive, InsertRefused, Commit, Reply500, Reply4xx, InsertRow, SendRow,
                  CallFails, CommitUnknown, Finish, Goto, PCs
    <2>3. \A g \in Handlers \ {h} : count'[g] = count[g]
      BY <1>1, <1>6 DEF Arrive, InsertRefused, Commit, Reply500, Reply4xx, InsertRow,
                  CallFails, CommitUnknown, Rollback, Finish
    <2>4. rwSamples' = rwSamples /\ ackedRows' = ackedRows
      BY <1>6 DEF Arrive, InsertRefused, Commit, Reply500, Reply4xx, InsertRow, SendRow,
                  CallFails, CommitUnknown, Finish, senderVars, counters
    <2>5. pc'[h] # "reply" /\ \A g \in Handlers \ {h} : pc'[g] = pc[g]
      BY <1>1, <2>2
    <2>6. quiet
      BY <2>1, <2>3, <2>4, <2>5
    <2>7. QED
      BY <1>3, <2>6
  <1>7. ASSUME NEW h \in Handlers, HangUp(h) PROVE Counted'
    <2>1. /\ rwSamples' = rwSamples /\ ackedRows' = ackedRows
          /\ pc' = pc /\ count' = count
      BY <1>7 DEF HangUp, senderVars, counters
    <2>2. quiet
      BY <2>1
    <2>3. QED
      BY <1>3, <2>2
  <1>8. CASE Register
    <2>1. /\ rwSamples' = rwSamples /\ ackedRows' = ackedRows
          /\ pc' = pc /\ count' = count
      BY <1>8 DEF Register, senderVars, handlerVars, counters
    <2>2. quiet
      BY <2>1
    <2>3. QED
      BY <1>3, <2>2
  <1>9. CASE Crash
    <2>1. Unanswered' = {}
      BY <1>9 DEF Crash, Unanswered
    <2>2. rwSamples' = 0 /\ ackedRows' = 0
      BY <1>9 DEF Crash
    <2>3. QED
      BY <2>1, <2>2, FS_EmptySet DEF Counted
  <1>10. CASE Drained \/ UNCHANGED vars
    <2>1. /\ rwSamples' = rwSamples /\ ackedRows' = ackedRows
          /\ pc' = pc /\ count' = count
      BY <1>10 DEF Drained, vars
    <2>2. quiet
      BY <2>1
    <2>3. QED
      BY <1>3, <2>2
  <1>11. QED
    BY <1>4, <1>5, <1>6, <1>7, <1>8, <1>9, <1>10 DEF Next, Step

(* Since the process started, the sample counter has been raised by every   *)
(* row it acknowledged, whichever handlers have counted and not answered.   *)
THEOREM AckedIsCountedAlways == Spec => []AckedIsCounted
  <1>1. WInv /\ Counted => AckedIsCounted
    <2> SUFFICES ASSUME WInv, Counted PROVE rwSamples >= ackedRows
      BY DEF AckedIsCounted
    <2>1. rwSamples \in Nat /\ ackedRows \in Nat
      BY DEF WInv, Vars
    <2>2. Cardinality(Unanswered) \in Nat
      BY FS_CardinalityType DEF Counted
    <2>3. QED
      BY <2>1, <2>2 DEF Counted
  <1>2. Spec => []Counted
    BY SpecWInv, InitCounted, NextCounted, PTL DEF Spec
  <1>3. QED
    BY <1>1, <1>2, SpecWInv, PTL
=============================================================================
