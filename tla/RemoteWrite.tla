---------------------------- MODULE RemoteWrite ----------------------------
(***************************************************************************)
(* The remote-write receiver of internal/remotewrite/handler.go: one        *)
(* goroutine per HTTP request decodes the body (module WireFormat), writes  *)
(* its rows in one transaction, counts them and answers.  The senders are   *)
(* Prometheus servers: each works through its queue in order, repeats a     *)
(* request that failed or was not answered in time, and drops one that is   *)
(* answered with 4xx.                                                       *)
(*                                                                          *)
(* Data.  A payload is what the decoder returns, one sample per series, or  *)
(* Rejected for everything ServeHTTP answers with 4xx; bodies on which the  *)
(* decoder aborts, which no Prometheus sends, are left out.  A row is its   *)
(* key in the unique index; metric_context is a function of the name and    *)
(* ingest drops all other labels, so two series may share a row.            *)
(*                                                                          *)
(* PostgreSQL.  ON CONFLICT DO NOTHING waits for an open transaction that   *)
(* has inserted the same key, row by row; a cycle of waiters is broken by   *)
(* aborting one of them; the foreign key wants the node registered.         *)
(***************************************************************************)
EXTENDS Integers, FiniteSets, SequencesExt

CONSTANTS
    Senders,
    Queue,        \* Queue[s]: the requests that sender s has to deliver
    Requests,
    Payload,      \* Payload[r]: what decoding the body of r gives
    Rejected,     \* the payload of a request that is answered with 4xx
    BatchSize,    \* rows per INSERT (500 in the code)
    Handlers,     \* goroutines of net/http
    None,         \* no request, or nobody who waits for the answer
    MaxFaults,    \* bound on crashes, failing calls and impatient senders
    ErrorCap      \* bound on the error counter (saturating)

ASSUME BatchSizeAssumption == BatchSize \in Nat \ {0}
ASSUME QueueAssumption == Queue \in [Senders -> Seq(Requests)]
ASSUME NoneAssumption == None \notin Senders \cup Requests
ASSUME BoundsAssumption == MaxFaults \in Nat /\ ErrorCap \in Nat

\* ingest: samples without a name or with a value that is not finite are left
\* out; of the labels only __name__ and instance are kept.
Rows(r) ==
    LET row(s) == IF s.name # "" /\ s.finite THEN << <<s.name, s.instance, s.time>> >>
                  ELSE <<>>
    IN  FlattenSeq([i \in 1..Len(Payload[r]) |-> row(Payload[r][i])])

Keys(r) == {Rows(r)[i] : i \in 1..Len(Rows(r))}

Accepted == {r \in Requests : Payload[r] # Rejected}
AllKeys == UNION {Keys(r) : r \in Accepted}

ASSUME PayloadAssumption ==
    \A r \in Accepted :
        Payload[r] \in Seq([name : STRING, instance : STRING, time : Int, finite : BOOLEAN])

VARIABLES
    configured,   \* rwNodeID is the ID of a scheduler's node: cfg.NodeID is set
                  \* (else it is "remote-write") and no list of nodes overrides it
    registered,   \* netdata_nodes has rwNodeID
    table,        \* keys of hardware_metric_samples
    next,         \* next[s]: position of s in its queue
    pc, job,      \* where handler h is, and with which request
    client,       \* client[h]: the sender that still waits for h's answer
    pos,          \* pos[h]: rows sent in h's transaction
    count,        \* count[h]: the variable count of ingest
    tx,           \* tx[h]: keys inserted by h's open transaction
    rwSamples, rwErrors,  \* the counters of internal/metrics
    acked,        \* history: requests answered with 204
    ackedRows,    \* history: rows of those answered since the process started
    faults        \* faults so far

vars == <<configured, registered, table, next, pc, job, client, pos, count,
          tx, rwSamples, rwErrors, acked, ackedRows, faults>>
handlerVars == <<pc, job, client, pos, count, tx>>
senderVars == <<next, acked, ackedRows>>
counters == <<rwSamples, rwErrors>>

PCs == {"idle", "reject", "insert", "commit", "count", "reply", "error"}

TypeOK ==
    /\ configured \in BOOLEAN /\ registered \in BOOLEAN
    /\ table \subseteq AllKeys
    /\ \A s \in Senders : next[s] \in 1..(Len(Queue[s]) + 1)
    /\ pc \in [Handlers -> PCs]
    /\ job \in [Handlers -> Requests \cup {None}]
    /\ client \in [Handlers -> Senders \cup {None}]
    /\ \A h \in Handlers :
        /\ pc[h] = "idle" <=> job[h] = None
        /\ pc[h] \in {"insert", "commit"} =>
             /\ pos[h] \in 0..Len(Rows(job[h]))
             /\ count[h] \in 0..pos[h]
        /\ tx[h] \subseteq AllKeys
    /\ rwSamples \in Nat /\ ackedRows \in Nat
    /\ rwErrors \in 0..ErrorCap
    /\ acked \subseteq Accepted
    /\ faults \in 0..MaxFaults

Init ==
    /\ configured \in BOOLEAN /\ registered = FALSE
    /\ table = {}
    /\ next = [s \in Senders |-> 1]
    /\ pc = [h \in Handlers |-> "idle"]
    /\ job = [h \in Handlers |-> None]
    /\ client = [h \in Handlers |-> None]
    /\ pos = [h \in Handlers |-> 0]
    /\ count = [h \in Handlers |-> 0]
    /\ tx = [h \in Handlers |-> {}]
    /\ rwSamples = 0 /\ rwErrors = 0
    /\ acked = {} /\ ackedRows = 0
    /\ faults = 0

Goto(h, p) == pc' = [pc EXCEPT ![h] = p]
Fault == faults < MaxFaults /\ faults' = faults + 1

-----------------------------------------------------------------------------
(* ServeHTTP and ingest.                                                    *)

Waits(s) == \E h \in Handlers : client[h] = s

\* Goroutines have no identity: any one that is free will do.
Free(h) == h = CHOOSE g \in Handlers : pc[g] = "idle"

\* A request arrives.  Without a row to write, ingest returns 0 at once;
\* otherwise it opens a transaction.
Arrive(h, s) ==
    LET r == Queue[s][next[s]]
    IN  /\ pc[h] = "idle" /\ Free(h) /\ ~Waits(s) /\ next[s] <= Len(Queue[s])
        /\ job' = [job EXCEPT ![h] = r]
        /\ client' = [client EXCEPT ![h] = s]
        /\ Goto(h, IF Payload[r] = Rejected THEN "reject"
                   ELSE IF Rows(r) = <<>> THEN "count" ELSE "insert")
        /\ UNCHANGED <<configured, registered, table, senderVars, pos, count,
                       tx, counters, faults>>

NextKey(h) == Rows(job[h])[pos[h] + 1]
StatementEnd(h) ==
    LET end == count[h] + BatchSize
    IN  IF end > Len(Rows(job[h])) THEN Len(Rows(job[h])) ELSE end

\* h waits for the transaction of g, which has inserted the same key.
WaitsFor(h, g) ==
    g # h /\ pc[h] = "insert" /\ NextKey(h) \in tx[g]

Deadlocked(h) ==
    \E C \in SUBSET Handlers :
        /\ h \in C
        /\ \A g \in C : \E k \in C : WaitsFor(g, k)
        /\ \A k \in C : \E g \in C : WaitsFor(g, k)

\* One row of the current statement; a key that the table or the transaction
\* has already is skipped.
SendRow(h) ==
    /\ pc[h] = "insert" /\ registered
    /\ ~\E g \in Handlers : WaitsFor(h, g)
    /\ tx' = [tx EXCEPT ![h] = @ \cup ({NextKey(h)} \ table)]
    /\ pos' = [pos EXCEPT ![h] = @ + 1]
    /\ Goto(h, IF pos[h] + 1 = Len(Rows(job[h])) THEN "commit" ELSE "insert")
    /\ UNCHANGED <<configured, registered, senderVars, job, client, counters,
                   faults>>

Bug_CountsFullBatches(h) ==
    /\ SendRow(h)
    /\ count' = [count EXCEPT ![h] =
                   IF pos'[h] = StatementEnd(h) THEN @ + BatchSize ELSE @]
    /\ UNCHANGED table

Bug_CountsLastBatch(h) ==
    /\ SendRow(h)
    /\ count' = [count EXCEPT ![h] =
                   IF pos'[h] = StatementEnd(h) THEN StatementEnd(h) - @ ELSE @]
    /\ UNCHANGED table

Bug_AutoCommit(h) ==
    /\ SendRow(h)
    /\ count' = [count EXCEPT ![h] =
                   IF pos'[h] = StatementEnd(h) THEN pos'[h] ELSE @]
    /\ table' = table \cup {NextKey(h)}

\* The end of a statement moves count past its batch.
InsertRow(h) ==
    /\ SendRow(h)
    /\ count' = [count EXCEPT ![h] =
                   IF pos'[h] = StatementEnd(h) THEN pos'[h] ELSE @]
    /\ UNCHANGED table

\* The deferred Rollback, and the error returned to ServeHTTP.
Rollback(h) ==
    /\ tx' = [tx EXCEPT ![h] = {}]
    /\ pos' = [pos EXCEPT ![h] = 0]
    /\ count' = [count EXCEPT ![h] = 0]

\* The statement violates the foreign key, or is the victim of a deadlock.
InsertRefused(h) ==
    /\ pc[h] = "insert" /\ (~registered \/ Deadlocked(h))
    /\ Rollback(h)
    /\ Goto(h, "error")
    /\ UNCHANGED <<configured, registered, table, senderVars, job, client,
                   counters, faults>>

\* A call fails: the connection, the 30 s deadline, or the request's context,
\* which is done when the sender has hung up.
CallFails(h) ==
    /\ pc[h] \in {"insert", "commit"}
    /\ \/ Fault
       \/ client[h] = None /\ UNCHANGED faults
    /\ Rollback(h)
    /\ Goto(h, "error")
    /\ UNCHANGED <<configured, registered, table, senderVars, job, client,
                   counters>>

Commit(h) ==
    /\ pc[h] = "commit"
    /\ table' = table \cup tx[h]
    /\ tx' = [tx EXCEPT ![h] = {}]
    /\ Goto(h, "count")
    /\ UNCHANGED <<configured, registered, senderVars, job, client, pos, count,
                   counters, faults>>

Bug_CommitErrorIgnored(h) ==
    /\ pc[h] = "commit"
    /\ Fault \/ (client[h] = None /\ UNCHANGED faults)
    /\ table' \in {table, table \cup tx[h]}
    /\ tx' = [tx EXCEPT ![h] = {}]
    /\ Goto(h, "count")
    /\ UNCHANGED <<configured, registered, senderVars, job, client, pos, count,
                   counters>>

\* The answer to COMMIT is lost: PostgreSQL has committed, the code sees an
\* error.
CommitUnknown(h) ==
    /\ pc[h] = "commit"
    /\ Fault \/ (client[h] = None /\ UNCHANGED faults)
    /\ table' = table \cup tx[h]
    /\ Rollback(h)
    /\ Goto(h, "error")
    /\ UNCHANGED <<configured, registered, senderVars, job, client, counters>>

Count(h) ==
    /\ pc[h] = "count"
    /\ rwSamples' = rwSamples + count[h]
    /\ Goto(h, "reply")
    /\ UNCHANGED <<configured, registered, table, senderVars, job, client, pos,
                   count, tx, rwErrors, faults>>

\* The handler returns.
Finish(h) ==
    /\ Goto(h, "idle")
    /\ job' = [job EXCEPT ![h] = None]
    /\ client' = [client EXCEPT ![h] = None]
    /\ pos' = [pos EXCEPT ![h] = 0]
    /\ count' = [count EXCEPT ![h] = 0]
    /\ UNCHANGED <<configured, registered, table, tx, rwSamples, faults>>

Advance(s) == next' = [next EXCEPT ![s] = @ + 1]

\* 204 is written: a sender that still waits goes on to its next request.
Reply204(h) ==
    /\ pc[h] = "reply"
    /\ IF client[h] # None
       THEN /\ Advance(client[h])
            /\ acked' = acked \cup {job[h]}
            /\ ackedRows' = ackedRows + Len(Rows(job[h]))
       ELSE UNCHANGED senderVars
    /\ UNCHANGED rwErrors
    /\ Finish(h)

CountError == rwErrors' = IF rwErrors < ErrorCap THEN rwErrors + 1 ELSE rwErrors

Bug_Reply400(h) ==
    /\ pc[h] = "error"
    /\ CountError
    /\ IF client[h] # None THEN Advance(client[h]) ELSE UNCHANGED next
    /\ UNCHANGED <<acked, ackedRows>>
    /\ Finish(h)

\* The error is counted and answered with 500: the sender will repeat the
\* request.
Reply500(h) ==
    /\ pc[h] = "error"
    /\ CountError
    /\ UNCHANGED senderVars
    /\ Finish(h)

\* 405 or 400: the sender drops the request.
Reply4xx(h) ==
    /\ pc[h] = "reject"
    /\ IF client[h] # None THEN Advance(client[h]) ELSE UNCHANGED next
    /\ UNCHANGED <<acked, ackedRows, rwErrors>>
    /\ Finish(h)

-----------------------------------------------------------------------------
(* The rest of the process, and its environment.                            *)

\* The first cycle of that scheduler registers the node.
Register ==
    /\ configured /\ ~registered
    /\ registered' = TRUE
    /\ UNCHANGED <<configured, table, senderVars, handlerVars, counters, faults>>

\* The sender's timeout, or a connection lost on the way: the handler goes on
\* until it notices, and the sender may repeat the request meanwhile.
HangUp(h) ==
    /\ client[h] # None /\ Fault
    /\ client' = [client EXCEPT ![h] = None]
    /\ UNCHANGED <<configured, registered, table, senderVars, pc, job, pos,
                   count, tx, counters>>

\* The process dies and starts anew; PostgreSQL aborts what was open.
Crash ==
    /\ Fault
    /\ pc' = [h \in Handlers |-> "idle"]
    /\ job' = [h \in Handlers |-> None]
    /\ client' = [h \in Handlers |-> None]
    /\ pos' = [h \in Handlers |-> 0]
    /\ count' = [h \in Handlers |-> 0]
    /\ tx' = [h \in Handlers |-> {}]
    /\ rwSamples' = 0 /\ rwErrors' = 0 /\ ackedRows' = 0
    /\ UNCHANGED <<configured, registered, table, next, acked>>

\* All queues are empty.
Drained ==
    /\ \A s \in Senders : next[s] > Len(Queue[s])
    /\ \A h \in Handlers : pc[h] = "idle"
    /\ UNCHANGED vars

Step(h) ==
    \/ InsertRefused(h) \/ Commit(h) \/ Count(h)
    \/ Reply204(h) \/ Reply500(h) \/ Reply4xx(h)

Next ==
    \/ \E h \in Handlers :
        \/ \E s \in Senders : Arrive(h, s)
        \/ Step(h) \/ InsertRow(h) \/ CallFails(h) \/ CommitUnknown(h) \/ HangUp(h)
    \/ Register \/ Crash \/ Drained

Spec == Init /\ [][Next]_vars

\* Every call returns.  A transaction that waits for a key gets it if the key
\* becomes free again and again: PostgreSQL wakes the waiter at once, while
\* the sender of the aborted request backs off before it repeats it.
Fairness ==
    /\ \A h \in Handlers : WF_vars(Step(h))
    /\ \A r \in Accepted : \A i \in 1..Len(Rows(r)) :
          SF_vars(\E h \in Handlers : job[h] = r /\ pos[h] = i - 1 /\ InsertRow(h))
    /\ \A s \in Senders : WF_vars(\E h \in Handlers : Arrive(h, s))
    /\ WF_vars(Register)

FairSpec == Spec /\ Fairness

-----------------------------------------------------------------------------
(* A reader of the table never sees part of a request: ingest writes all    *)
(* batches in one transaction, whatever fails, is repeated or runs in       *)
(* parallel.                                                                *)
AllOrNothing ==
    \E R \in SUBSET Accepted : table = UNION {Keys(r) : r \in R}

(* A request answered with 204 has all its rows in the table, whichever     *)
(* transaction put them there: Prometheus forgets what was acknowledged.    *)
AckedIsStored == \A r \in acked : Keys(r) \subseteq table

(* The sample counter covers every row acknowledged since the process       *)
(* started: it is raised before the answer is written.  It may be larger,   *)
(* by requests that were stored and not acknowledged.                       *)
AckedIsCounted == rwSamples >= ackedRows

(* Once the node is registered, every request that can be decoded is        *)
(* acknowledged in the end, through repeats, concurrent handlers of the     *)
(* same rows and deadlocks between them.                                    *)
Delivered ==
    registered ~> \A s \in Senders : \A i \in 1..Len(Queue[s]) :
                      Queue[s][i] \in acked \/ Payload[Queue[s][i]] = Rejected
=============================================================================
