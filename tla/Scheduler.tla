----------------------------- MODULE Scheduler -----------------------------
(***************************************************************************)
(* The collection schedulers of internal/scheduler/scheduler.go inside the  *)
(* process that cmd/netdata-postgres-mcp/main.go builds: one goroutine, one *)
(* ticker and one circuit breaker per monitored node, a shared PostgreSQL,  *)
(* shared counters and one context that SIGINT/SIGTERM cancels.             *)
(*                                                                          *)
(* A cycle is collectOnce, cut at every call that leaves the process, so    *)
(* that outages, cancellation and crashes fall between any two of them:     *)
(*                                                                          *)
(*   begin -> upsert -> collect <-> backoff,  collect -> insert -> idle     *)
(*                                                                          *)
(* Clock ticks are seconds scaled down: backoff takes 1 then 2 of them, the *)
(* ticker Interval, the breaker's timeout ResetTimeout.                     *)
(***************************************************************************)
EXTENDS Breaker, FiniteSets

CONSTANTS
    Nodes,        \* monitored Netdata nodes (NETDATA_NODES)
    MainNode,     \* the node whose scheduler runs on the main goroutine
    Keys,         \* unique-index keys of the samples Netdata can report
    BatchSize,    \* rows per INSERT statement (500 in the code)
    Interval,     \* ticks between two ticks of the collection ticker
    CounterCap    \* bound on the collection counters (saturating)

ASSUME NodesAssumption == MainNode \in Nodes /\ IsFiniteSet(Nodes)
ASSUME KeysAssumption == IsFiniteSet(Keys)
ASSUME BatchSizeAssumption == BatchSize \in Nat \ {0}
ASSUME IntervalAssumption == Interval \in Nat \ {0}
ASSUME CounterCapAssumption == CounterCap \in Nat

VARIABLES
    alive,        \* the process runs
    cancelled,    \* ctx is done
    pc,           \* pc[n]: where scheduler n is
    attempt,      \* attempt[n]: fetches made in this cycle
    lastErr,      \* lastErr[n]: some fetch of this cycle failed
    timer,        \* timer[n]: ticks left of the backoff
    ticker,       \* ticker[n]: ticks until the ticker fires; 0: not created
    fired,        \* fired[n]: ticker.C (capacity 1) holds a tick
    breaker,      \* breaker[n]
    fetched,      \* fetched[n]: the samples this cycle collected
    todo,         \* todo[n]: those not yet sent in a statement
    tx,           \* tx[n]: rows written by the open transaction
    ret,          \* ret[n]: what the last collectOnce returned
    total,        \* CollectionTotal
    errors,       \* CollectionErrors
    inserted,     \* SamplesInserted
    registered,   \* database: rows of netdata_nodes
    rows,         \* database: rows[n], committed samples of node n
    offered,      \* history: offered[n], sample sets handed to InsertSamples
    dbUp,         \* environment: PostgreSQL answers
    agent         \* environment: agent[n], what Netdata answers

cycleVars == <<attempt, lastErr, timer, fetched, todo, tx>>
counters  == <<total, errors, inserted>>
dbVars    == <<registered, rows, offered>>
envVars   == <<dbUp, agent>>
vars == <<alive, cancelled, pc, cycleVars, ticker, fired, breaker, ret,
          counters, dbVars, envVars>>

MaxAttempts == 3

\* 1 << (attempt - 1) for the attempts that are retried.
Backoff == <<1, 2>>

PCs == {"begin", "upsert", "collect", "backoff", "insert", "idle", "stopped"}
InCycle == {"upsert", "collect", "backoff", "insert"}
Returns == {"none", "nil", "open", "upsert", "fetch", "insert", "cancel"}

TypeOK ==
    /\ alive \in BOOLEAN /\ cancelled \in BOOLEAN
    /\ pc \in [Nodes -> PCs]
    /\ attempt \in [Nodes -> 0..MaxAttempts]
    /\ lastErr \in [Nodes -> BOOLEAN]
    /\ timer \in [Nodes -> 0..2]
    /\ ticker \in [Nodes -> 0..Interval]
    /\ fired \in [Nodes -> BOOLEAN]
    /\ breaker \in [Nodes -> BreakerType]
    /\ fetched \in [Nodes -> SUBSET Keys]
    /\ todo \in [Nodes -> SUBSET Keys]
    /\ tx \in [Nodes -> SUBSET Keys]
    /\ ret \in [Nodes -> Returns]
    /\ total \in 0..CounterCap /\ errors \in 0..CounterCap
    /\ inserted \in Nat
    /\ registered \subseteq Nodes
    /\ rows \in [Nodes -> SUBSET Keys]
    /\ offered \in [Nodes -> SUBSET SUBSET Keys]
    /\ dbUp \in BOOLEAN
    /\ agent \in [Nodes -> {"up", "empty", "down"}]

Each(v) == [n \in Nodes |-> v]
Count(c) == IF c < CounterCap THEN c + 1 ELSE c

\* A fresh process: New for every node, then Run, which collects at once.
Init ==
    /\ alive = TRUE /\ cancelled = FALSE
    /\ pc = Each("begin")
    /\ attempt = Each(0) /\ lastErr = Each(FALSE) /\ timer = Each(0)
    /\ ticker = Each(0) /\ fired = Each(FALSE)
    /\ breaker = Each(New)
    /\ fetched = Each({}) /\ todo = Each({}) /\ tx = Each({})
    /\ ret = Each("none")
    /\ total = 0 /\ errors = 0 /\ inserted = 0
    /\ registered = {} /\ rows = Each({}) /\ offered = Each({})
    /\ dbUp = TRUE /\ agent = Each("up")

-----------------------------------------------------------------------------
(* The steps of collectOnce.                                                *)

\* A database call succeeds only while PostgreSQL answers and ctx is live.
DbOK == dbUp /\ ~cancelled

Goto(n, l) == pc' = [pc EXCEPT ![n] = l]

\* collectOnce returns r; after the first cycle Run creates the ticker.
Return(n, r) ==
    /\ Goto(n, "idle")
    /\ ret' = [ret EXCEPT ![n] = r]
    /\ ticker' = [ticker EXCEPT ![n] = IF @ = 0 THEN Interval ELSE @]
    /\ attempt' = [attempt EXCEPT ![n] = 0]
    /\ lastErr' = [lastErr EXCEPT ![n] = FALSE]
    /\ timer' = [timer EXCEPT ![n] = 0]
    /\ fetched' = [fetched EXCEPT ![n] = {}]
    /\ todo' = [todo EXCEPT ![n] = {}]
    /\ tx' = [tx EXCEPT ![n] = {}]

Record(n, b) == breaker' = [breaker EXCEPT ![n] = b]

\* breaker.Allow, then UpsertNode or an early return.  That return also logs
\* breaker.State(), which refreshes the state once more: at the same tick, so
\* to no effect, and at a later one as the next Allow would.
Bug_BeginIgnoresBreaker(n) ==
    /\ alive /\ pc[n] = "begin"
    /\ Record(n, CurrentState(breaker[n]))
    /\ Goto(n, "upsert")
    /\ UNCHANGED <<alive, cancelled, cycleVars, ticker, fired, ret, counters,
                   dbVars, envVars>>

Begin(n) ==
    /\ alive /\ pc[n] = "begin"
    /\ Record(n, CurrentState(breaker[n]))
    /\ \/ /\ Admits(breaker[n])
          /\ Goto(n, "upsert")
          /\ UNCHANGED <<cycleVars, ticker, ret>>
       \/ /\ ~Admits(breaker[n])
          /\ Return(n, "open")
    /\ UNCHANGED <<alive, cancelled, fired, counters, dbVars, envVars>>

UpsertOK(n) ==
    /\ alive /\ pc[n] = "upsert" /\ DbOK
    /\ registered' = registered \cup {n}
    /\ attempt' = [attempt EXCEPT ![n] = 1]
    /\ Goto(n, "collect")
    /\ UNCHANGED <<alive, cancelled, lastErr, timer, fetched, todo, tx, ticker,
                   fired, breaker, ret, counters, rows, offered, envVars>>

\* A failed upsert ends the cycle: neither breaker nor counter hears of it.
\* PostgreSQL may have stored the row and lost the answer.
Bug_UpsertFailIgnored(n) ==
    /\ alive /\ pc[n] = "upsert" /\ ~DbOK
    /\ attempt' = [attempt EXCEPT ![n] = 1]
    /\ Goto(n, "collect")
    /\ UNCHANGED <<alive, cancelled, lastErr, timer, fetched, todo, tx, ticker,
                   fired, breaker, ret, counters, dbVars, envVars>>

UpsertFail(n) ==
    /\ alive /\ pc[n] = "upsert" /\ ~DbOK
    /\ registered' \in {registered, registered \cup {n}}
    /\ Return(n, "upsert")
    /\ UNCHANGED <<alive, cancelled, fired, breaker, counters, rows, offered,
                   envVars>>

\* Three failed fetches, or an empty answer after a failed one.
FetchFailed(n) ==
    /\ errors' = Count(errors)
    /\ Record(n, RecordFailure(breaker[n]))
    /\ Return(n, "fetch")
    /\ UNCHANGED <<alive, cancelled, fired, total, inserted, dbVars, envVars>>

\* collector.Collect returns samples.
CollectSome(n) ==
    /\ alive /\ pc[n] = "collect" /\ ~cancelled /\ agent[n] = "up"
    /\ \E s \in SUBSET Keys \ {{}} :
          /\ fetched' = [fetched EXCEPT ![n] = s]
          /\ todo' = [todo EXCEPT ![n] = s]
          /\ offered' = [offered EXCEPT ![n] = @ \cup {s}]
    /\ Goto(n, "insert")
    /\ UNCHANGED <<alive, cancelled, attempt, lastErr, timer, tx, ticker, fired,
                   breaker, ret, counters, registered, rows, envVars>>

\* It returns no sample and no error; an earlier error is still in lastErr.
CollectEmpty(n) ==
    /\ alive /\ pc[n] = "collect" /\ ~cancelled /\ agent[n] = "empty"
    /\ \/ lastErr[n] /\ FetchFailed(n)
       \/ /\ ~lastErr[n]
          /\ Return(n, "nil")
          /\ UNCHANGED <<alive, cancelled, fired, breaker, counters, dbVars,
                         envVars>>

Bug_RetriesWithoutLimit(n) ==
    /\ alive /\ pc[n] = "collect" /\ (cancelled \/ agent[n] = "down")
    /\ lastErr' = [lastErr EXCEPT ![n] = TRUE]
    /\ timer' = [timer EXCEPT ![n] = Backoff[1]]
    /\ Goto(n, "backoff")
    /\ UNCHANGED <<alive, cancelled, attempt, fetched, todo, tx, ticker, fired,
                   breaker, ret, counters, dbVars, envVars>>

\* It fails (both endpoints did): back off 1 then 2, give up after 3.
CollectError(n) ==
    /\ alive /\ pc[n] = "collect" /\ (cancelled \/ agent[n] = "down")
    /\ \/ attempt[n] = MaxAttempts /\ FetchFailed(n)
       \/ /\ attempt[n] < MaxAttempts
          /\ lastErr' = [lastErr EXCEPT ![n] = TRUE]
          /\ timer' = [timer EXCEPT ![n] = Backoff[attempt[n]]]
          /\ Goto(n, "backoff")
          /\ UNCHANGED <<alive, cancelled, attempt, fetched, todo, tx, ticker,
                         fired, breaker, ret, counters, dbVars, envVars>>

BackoffOver(n) ==
    /\ alive /\ pc[n] = "backoff" /\ timer[n] = 0
    /\ attempt' = [attempt EXCEPT ![n] = @ + 1]
    /\ Goto(n, "collect")
    /\ UNCHANGED <<alive, cancelled, lastErr, timer, fetched, todo, tx, ticker,
                   fired, breaker, ret, counters, dbVars, envVars>>

BackoffCancelled(n) ==
    /\ alive /\ pc[n] = "backoff" /\ cancelled
    /\ Return(n, "cancel")
    /\ UNCHANGED <<alive, cancelled, fired, breaker, counters, dbVars, envVars>>

(* InsertSamples: one transaction, one statement per BatchSize samples.  A  *)
(* statement skips the rows that exist (ON CONFLICT DO NOTHING) and fails   *)
(* when the node is not registered (foreign key).                           *)
Slices(s) ==
    {b \in SUBSET s : Cardinality(b) = IF Cardinality(s) < BatchSize
                                       THEN Cardinality(s) ELSE BatchSize}

Bug_AutoCommitBatch(n) ==
    /\ alive /\ pc[n] = "insert" /\ todo[n] # {} /\ DbOK /\ n \in registered
    /\ \E b \in Slices(todo[n]) :
          /\ todo' = [todo EXCEPT ![n] = @ \ b]
          /\ tx' = [tx EXCEPT ![n] = @ \cup (b \ rows[n])]
          /\ rows' = [rows EXCEPT ![n] = @ \cup b]
    /\ UNCHANGED <<alive, cancelled, pc, attempt, lastErr, timer, fetched,
                   ticker, fired, breaker, ret, counters, registered, offered,
                   envVars>>

Bug_BatchCountsDuplicates(n) ==
    /\ alive /\ pc[n] = "insert" /\ todo[n] # {} /\ DbOK /\ n \in registered
    /\ \E b \in Slices(todo[n]) :
          /\ todo' = [todo EXCEPT ![n] = @ \ b]
          /\ tx' = [tx EXCEPT ![n] = @ \cup b]
    /\ UNCHANGED <<alive, cancelled, pc, attempt, lastErr, timer, fetched,
                   ticker, fired, breaker, ret, counters, dbVars, envVars>>

InsertBatch(n) ==
    /\ alive /\ pc[n] = "insert" /\ todo[n] # {} /\ DbOK /\ n \in registered
    /\ \E b \in Slices(todo[n]) :
          /\ todo' = [todo EXCEPT ![n] = @ \ b]
          /\ tx' = [tx EXCEPT ![n] = @ \cup (b \ rows[n])]
    /\ UNCHANGED <<alive, cancelled, pc, attempt, lastErr, timer, fetched,
                   ticker, fired, breaker, ret, counters, dbVars, envVars>>

\* Begin or a statement fails: the deferred Rollback drops the transaction.
InsertFail(n) ==
    /\ alive /\ pc[n] = "insert" /\ todo[n] # {}
    /\ ~DbOK \/ n \notin registered
    /\ Record(n, RecordFailure(breaker[n]))
    /\ Return(n, "insert")
    /\ UNCHANGED <<alive, cancelled, fired, counters, dbVars, envVars>>

CommitOK(n) ==
    /\ alive /\ pc[n] = "insert" /\ todo[n] = {} /\ DbOK
    /\ rows' = [rows EXCEPT ![n] = @ \cup tx[n]]
    /\ Record(n, RecordSuccess(breaker[n]))
    /\ total' = Count(total)
    /\ inserted' = inserted + Cardinality(tx[n])
    /\ Return(n, "nil")
    /\ UNCHANGED <<alive, cancelled, fired, errors, registered, offered, envVars>>

\* Commit reports an error; the server may or may not have committed.
Bug_CommitErrorIgnored(n) ==
    /\ alive /\ pc[n] = "insert" /\ todo[n] = {} /\ ~DbOK
    /\ Record(n, RecordSuccess(breaker[n]))
    /\ total' = Count(total)
    /\ inserted' = inserted
    /\ Return(n, "nil")
    /\ UNCHANGED <<alive, cancelled, fired, errors, dbVars, envVars>>

CommitFail(n) ==
    /\ alive /\ pc[n] = "insert" /\ todo[n] = {} /\ ~DbOK
    /\ rows' \in {rows, [rows EXCEPT ![n] = @ \cup tx[n]]}
    /\ Record(n, RecordFailure(breaker[n]))
    /\ Return(n, "insert")
    /\ UNCHANGED <<alive, cancelled, fired, counters, registered, offered,
                   envVars>>

-----------------------------------------------------------------------------
(* Run's select loop, the process and its environment.                      *)

\* case <-ticker.C
TickerCase(n) ==
    /\ alive /\ pc[n] = "idle" /\ fired[n]
    /\ fired' = [fired EXCEPT ![n] = FALSE]
    /\ Goto(n, "begin")
    /\ UNCHANGED <<alive, cancelled, cycleVars, ticker, breaker, ret, counters,
                   dbVars, envVars>>

Bug_DoneCaseIgnored(n) ==
    /\ alive /\ pc[n] = "idle" /\ cancelled
    /\ UNCHANGED vars

\* case <-ctx.Done()
Stop(n) ==
    /\ alive /\ pc[n] = "idle" /\ cancelled
    /\ Goto(n, "stopped")
    /\ UNCHANGED <<alive, cancelled, cycleVars, ticker, fired, breaker, ret,
                   counters, dbVars, envVars>>

\* The process is gone and its memory with it: connections drop, open
\* transactions roll back, and what comes next is a fresh Run.
Die ==
    /\ alive' = FALSE /\ cancelled' = FALSE
    /\ pc' = Each("begin")
    /\ attempt' = Each(0) /\ lastErr' = Each(FALSE) /\ timer' = Each(0)
    /\ ticker' = Each(0) /\ fired' = Each(FALSE)
    /\ breaker' = Each(New)
    /\ fetched' = Each({}) /\ todo' = Each({}) /\ tx' = Each({})
    /\ ret' = Each("none")
    /\ total' = 0 /\ errors' = 0 /\ inserted' = 0
    /\ UNCHANGED <<dbVars, envVars>>

\* main goes on when the first scheduler returns; it waits for no other one.
Exit == alive /\ pc[MainNode] = "stopped" /\ Die

Crash == alive /\ Die

\* A new process gets past connecting and migrating only if PostgreSQL answers.
Restart ==
    /\ ~alive /\ dbUp
    /\ alive' = TRUE
    /\ UNCHANGED <<cancelled, pc, cycleVars, ticker, fired, breaker, ret,
                   counters, dbVars, envVars>>

\* SIGINT or SIGTERM.
Cancel ==
    /\ alive /\ ~cancelled
    /\ cancelled' = TRUE
    /\ UNCHANGED <<alive, pc, cycleVars, ticker, fired, breaker, ret, counters,
                   dbVars, envVars>>

\* A ticker that finds its channel full drops the tick.
Tick ==
    /\ alive
    /\ timer' = [n \in Nodes |-> IF timer[n] > 0 THEN timer[n] - 1 ELSE 0]
    /\ ticker' = [n \in Nodes |-> CASE ticker[n] = 0 -> 0
                                    [] ticker[n] = 1 -> Interval
                                    [] OTHER -> ticker[n] - 1]
    /\ fired' = [n \in Nodes |-> fired[n] \/ ticker[n] = 1]
    /\ breaker' = [n \in Nodes |-> Elapse(breaker[n])]
    /\ UNCHANGED <<alive, cancelled, pc, attempt, lastErr, fetched, todo, tx,
                   ret, counters, dbVars, envVars>>

DbChange ==
    /\ dbUp' = ~dbUp
    /\ UNCHANGED <<alive, cancelled, pc, cycleVars, ticker, fired, breaker, ret,
                   counters, dbVars, agent>>

AgentChange(n) ==
    /\ \E a \in {"up", "empty", "down"} \ {agent[n]} :
          agent' = [agent EXCEPT ![n] = a]
    /\ UNCHANGED <<alive, cancelled, pc, cycleVars, ticker, fired, breaker, ret,
                   counters, dbVars, dbUp>>

\* What scheduler n does by itself, the choice to stop apart.
Step(n) ==
    \/ Begin(n) \/ UpsertOK(n) \/ UpsertFail(n)
    \/ CollectSome(n) \/ CollectEmpty(n) \/ CollectError(n)
    \/ BackoffOver(n) \/ BackoffCancelled(n)
    \/ InsertBatch(n) \/ InsertFail(n) \/ CommitOK(n) \/ CommitFail(n)
    \/ TickerCase(n)

Next ==
    \/ \E n \in Nodes : Step(n) \/ Stop(n) \/ AgentChange(n)
    \/ Exit \/ Crash \/ Restart \/ Cancel \/ Tick \/ DbChange

(* Every external call returns and every goroutine is scheduled (weak       *)
(* fairness); a select whose two cases stay ready picks at random, so it    *)
(* takes ctx.Done in the end (strong fairness of Stop).                     *)
Fairness ==
    /\ \A n \in Nodes : WF_vars(Step(n)) /\ SF_vars(Stop(n))
    /\ WF_vars(Tick) /\ WF_vars(Exit)

Spec == Init /\ [][Next]_vars /\ Fairness

-----------------------------------------------------------------------------
(* No request leaves for Netdata or PostgreSQL on behalf of a node whose    *)
(* breaker is open (the early return after Allow, and no other path into    *)
(* the cycle).                                                              *)
QuietWhileOpen ==
    \A n \in Nodes : pc[n] \in InCycle => breaker[n].state # "Open"

(* InsertSamples is reached only for a registered node, so its foreign key  *)
(* never rejects a batch (UpsertNode comes first and its failure returns).  *)
NodeBeforeSamples ==
    \A n \in Nodes : pc[n] \in {"collect", "backoff", "insert"}
                       => n \in registered

(* What a reader of the table sees of a node is always a union of whole     *)
(* collections: outages, cancellation, crashes and ambiguous commits never  *)
(* leave part of a cycle behind (the single transaction of InsertSamples).  *)
WholeCycles ==
    \A n \in Nodes : \E S \in SUBSET offered[n] : rows[n] = UNION S

\* The rows the schedulers have committed (retention deletes none here).
Stored == {r \in Nodes \X Keys : r[2] \in rows[r[1]]}

(* SamplesInserted never claims more rows than were committed, though the   *)
(* same sample is collected again and again, by cycles that fail after some *)
(* statements or whose commit is ambiguous (RowsAffected, not batch size,   *)
(* and added only after Commit).                                            *)
InsertedIsHonest == inserted <= Cardinality(Stored)

(* When collectOnce reports success after an insert, every sample it        *)
(* collected is in the table, its own or an earlier cycle's copy.           *)
SuccessIsDurable ==
    [][\A n \in Nodes :
         pc[n] = "insert" /\ pc'[n] = "idle" /\ ret'[n] = "nil"
           => fetched[n] \subseteq rows'[n]]_vars

(* Once the database and the agent of a node stay healthy, its breaker      *)
(* closes for good and its cycles end in success for good: no outage locks  *)
(* a node out (Allow, the half-open trials, the ticker).                    *)
Healthy(n) == alive /\ ~cancelled /\ dbUp /\ agent[n] = "up"

RecoversFromOutage ==
    \A n \in Nodes :
        <>[]Healthy(n) =>
            /\ <>[](breaker[n].state = "Closed" /\ ret[n] = "nil")
            /\ []<>(pc[n] = "insert")

(* A cancelled process ends, whatever its schedulers were doing (ctx reaches *)
(* the backoff, the calls and the select loop).                              *)
CancelEndsProcess == cancelled ~> ~alive
=============================================================================
