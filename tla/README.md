# A TLA+ model of netdata-postgres-mcp

netdata-postgres-mcp is a sidecar that polls Netdata agents, stores the samples
in PostgreSQL, rolls them up and deletes the old ones, accepts further samples
by Prometheus remote write, and serves all of them to MCP clients over HTTP. This
directory models the parts of it that keep state and run concurrently and the
parsers at its edges, checks them with TLC on small instances and proves the
safety properties with TLAPS for all instances, except for the two of the protobuf
decoder.

## Inventory

| Component (source) | State | Operations | Talks to |
|---|---|---|---|
| Circuit breaker (`internal/circuitbreaker`) | state, failures, lastFailure, halfOpenOK under one mutex | New, Allow, State, RecordSuccess, RecordFailure, Reset | called by the scheduler |
| Scheduler (`internal/scheduler`) | its breaker, a ticker, the cycle in progress | Run, collectOnce | collector, store, breaker, global counters |
| Store (`internal/store`) | the database: nodes, samples, rollups, schema_migrations | UpsertNode, InsertSamples, DeleteOldSamples, AggregateHourly, AggregateDaily, Migrate | PostgreSQL through a pgx pool |
| Retention (`scheduler.go`, `rollup.go`) | one loop per scheduler, its local retention | retentionLoop, runRetention | store; SIGHUP goroutine of main |
| Process (`cmd/.../main.go`) | ctx, the configuration | start-up order, signals, SIGHUP, shutdown | everything |
| Rate limiter (`internal/middleware`) | table of token buckets under one mutex | Allow, cleanupLoop | HTTP handler |
| Collector (`internal/collector`) | none | Collect with a fallback, parsers | Netdata over HTTP |
| Remote write (`internal/remotewrite`) | none of its own | ServeHTTP, ingest, protobuf decoder | the sample table, counters |
| Metrics (`internal/metrics`) | atomic counters, a locked duration | Record, Snapshot, Handler | everyone writes, the scrape reads |
| Webhook (`internal/webhook`) | date of the last payload per node and bottleneck type | Notify, send | called by nobody yet; HTTP |
| Bottleneck rules (`internal/mcp/server.go`) | none | DetectBottlenecks | aggregates of a query |
| Other MCP tools (`internal/mcp`) | none | read-only queries | PostgreSQL |
| Reload, tenant, derived | small tables | not called from main | - |
| Configuration, tracing | none | pure functions, I/O | - |

What is hard in this code:

- **Failure between steps.** A collection cycle is a dozen calls to two remote
  systems. Any of them may fail, the process may crash between two of them, a
  commit may succeed and report an error, a signal cancels the context at any
  moment. The correctness of the table rests on one transaction per cycle and on
  a unique index.
- **Feedback.** The breaker decides which cycles run and the cycles feed the
  breaker; a mistake in either locks a node out for good.
- **Time windows.** Retention runs once a day, aggregates a window of three hours
  and deletes by a cutoff; the windows must fit each other.
- **Session-level locks over a pool.** The migration lock belongs to a session,
  the statements to whichever session the pool hands out.
- **Repeated and overlapping writes.** A Prometheus server repeats what was not
  acknowledged, perhaps while the first handler is still writing the same rows,
  and a second server of an HA pair sends the same series in another order.
- **Hand-written parsers.** Protobuf, the exposition format and three JSON shapes
  are decoded by hand; what they get wrong is stored.
- **Unsynchronised configuration.** SIGHUP writes a field that other goroutines
  read.

The hazards are listed one by one, with the line where each bites, in
`PROJECT.json`.

## Modules

| Module | Models | State and actions |
|---|---|---|
| `Breaker` | the breaker as a value | one operator per method on a record; used by the two modules below |
| `CircuitBreaker` | one breaker, concurrent callers | `Allow`, `State`, `Succeed`, `Fail`, `Abandon`, `ResetBreaker`, `Tick`; callers report whenever they like |
| `Scheduler` | the schedulers of one process | `collectOnce` cut at each external call: `Begin`, `UpsertOK`/`UpsertFail`, `CollectSome`/`CollectEmpty`/`CollectError`, `BackoffOver`/`BackoffCancelled`, `InsertBatch`/`InsertFail`, `CommitOK`/`CommitFail`; `Run`'s select as `TickerCase` and `Stop`; `Cancel`, `Exit`, `Crash`, `Restart`; the environment as `DbChange`, `AgentChange`, `Tick` |
| `NodeBreaker` | how a scheduler uses its breaker | `Scheduler` with the history that `CircuitBreaker` keeps, for one node; maps each step to what it means to that node's breaker |
| `Retention` | retention loops over the shared tables | `Run`, `LoopStarts`, `HourlyStep`, `DailyStep`, `DeleteStep`, `TickerFires`; `Collect`, `Receive`, `Reload`, `Crash`, `Restart`, `Tick` |
| `Migration` | `Migrate` in several instances | one action per statement, the pool's sessions, the lock's owner |
| `TokenBucket` | what a rate limiter promises | abstract specification, no table and no cleanup |
| `RateLimiter` | the rate limiter | `Allow`, `Sweep`, `Tick`; implements `TokenBucket` |
| `RemoteWrite` | ServeHTTP and ingest, with senders and PostgreSQL's row locks | `Arrive`, `InsertRow` (one row of a batch), `InsertRefused`, `CallFails`, `Commit`, `CommitUnknown`, `Count`, `Reply204`/`Reply500`/`Reply4xx`; `Register` from the scheduler; `HangUp`, `Crash` |
| `WireFormat` | the protobuf decoder | `decodeVarint`, `decodeTag`, `skipField` and the four parsers over sequences of bytes; the sender's encoder |
| `Collector` | the collector's parsers and fallback | `Collect`, the three JSON strategies, `parsePrometheusLine`, `splitLabels`, `prometheusNameToContext`, the filter |
| `Parsers` | the two above, fed by their peers | one action per kind of input: `Receive`, `ReadLine`, `ReadName`, `Poll` |
| `Bottleneck` | DetectBottlenecks | one operator per candidate |
| `Webhook` | Notify, told of bottlenecks | `Detect`, then per configuration `Skip`, `SendOK` or `SendFails`; `Tick` |
| `CircuitBreaker_proofs`, `Scheduler_proofs`, `Migration_proofs`, `RateLimiter_proofs`, `Retention_proofs`, `RemoteWrite_proofs`, `Webhook_proofs`, `Parsers_proofs` | | theorems |
| `MC*` | | instances for TLC |

Operators called `Bug_...` stand before the definition they are a faulty variant
of; they are there to see that the properties can fail, and nothing uses them.

Abstractions, by module:

- *Breaker.* The date of the last failure is kept as its age, saturating one
  tick past the timeout; `failures` saturates at `FailureCap >= Threshold`. The
  code compares both with a constant only, so nothing is lost.
- *Scheduler.* A sample is its key in the unique index. A healthy call succeeds
  and one made during an outage, or after the context is done, fails; a failed
  upsert or commit may have taken effect. `Collect` is its outcome: samples, no
  sample, or an error of both endpoints. Collection counters saturate at
  `CounterCap`. Retention deletes nothing here. The one-shot command
  `collect-once` is one cycle of this model.
- *Retention.* One series; an hourly row is the set of samples it aggregates, a
  daily row its sample count, summed as the number of pairs of an hourly row and a
  sample in it. A run takes less than a tick, but everything else
  that can happen happens between its statements. The reload writes all
  schedulers in one step: each loop reads its own copy once, so a reload that is
  half done cannot be told from one just before or after that read. A sample is
  dated now (`Collect`) or by whoever sent it (`Receive`: a remote-write request,
  whose missing timestamp is 1970, or an agent's answer in the flat JSON shape), so it
  may be older than any retention when it arrives, or lie in the future; `Stamps` are
  the dates that occur. A deleted sample may be sent again. `arrived`, `swept` and
  `asked` are history.
- *Migration.* A statement may run on any session of the pool: pgx takes an idle
  one or opens another, and opens idle ones in the background (MinConns is 2).
  Each migration file is one transaction and may be repeated (`IF NOT EXISTS`).
- *RateLimiter.* Tokens are integers (`Cost` units each) where the code has
  floating point. The observer's window is history.
- *RemoteWrite.* A request is what `WireFormat` decodes it to, with one sample per
  series; a row is its key in the unique index. An INSERT with ON CONFLICT is
  performed row by row, because it is by rows that PostgreSQL makes it wait for
  another open transaction. Goroutines are interchangeable. A failed call, a
  hang-up and a crash each use up one of `MaxFaults`; deadlocks and refusals by
  the foreign key are not bounded. The request's context is done once its sender
  has hung up, so the calls of its handler may fail from then on, and need not.
  The receiver's node may be one a scheduler registers (`configured`) or not.
- *WireFormat.* Bytes and integers are scaled down (`GroupBits`, `Width`), with
  the proportions kept: the last byte of the longest varint has bits that do not
  fit. A slice expression out of range is the outcome "abort"; net/http recovers
  from it and closes the connection. Snappy is taken to be lossless.
- *Collector.* Names are sequences of words, label texts sequences of characters,
  numbers atoms. `Longer` says which words begin with which, since the filter
  compares string prefixes. The columns that the labels chart, family, instance and
  units fill are treated as the dimension is, and left out.
- *Bottleneck, Webhook.* Percentages are integers and confidences hundredths, as
  round2 leaves them; the inputs avoid exact halves. A tick is longer than a
  call. A failed send is one the receiver did not get: one that it got but could
  not answer is sent again at the next detection, which no sender can avoid.

## Runs

| Run | Instance | Shows |
|---|---|---|
| `breaker` | 2 callers, threshold 2, timeout 2 ticks | the breaker's rules and that it never refuses for ever |
| `scheduler` | 1 node, 2 samples, 1 row per statement | whole cycles, honest counter, durable success, through outages and crashes |
| `scheduler_live` | 1 node, 1 sample | the scheduler keeps to the breaker's protocol (refinement of `CircuitBreaker`); recovery from any outage that ends; a cancelled process ends |
| `retention` | 2 loops, 2 samples, dated now or 0 or 14, from tick 10 to 21, retention 1 or 2, faults | daily rows count nothing twice, storage stays bounded, hourly rows are exact and stay so while two loops interleave |
| `retention_loss` | days of 24 hours, no faults | counterexample: samples deleted that no rollup took in |
| `retention_reload` | days of 24 hours, retention 1 or 2, no faults | counterexample: runs after a reload delete by the old retention |
| `migration` | 2 instances, 2 sessions each, 2 files | the record is true, gapless and complete; nobody waits for ever |
| `migration_exclusion` | the same | counterexample: two instances migrate at once |
| `ratelimiter` | 2 clients, burst 2, 4 ticks to fill, cleanup every 4 | the rate bound, refinement of `TokenBucket`, no starvation |
| `remotewrite` | 2 senders, 4 requests, 3 handlers, 2 rows per statement, 1 fault | nothing partial, acknowledged means stored and counted, everything is delivered |
| `parsers` | bytes of 6 bits, integers of 11, 118 requests cut at every byte; 2 labels of up to 2 characters; 42 names; 2 dimensions | what is decoded is what was encoded; `Collect` tells the truth |
| `alerting` | 1 node, 32 loads, 3 configurations, cooldowns of 2 and 3 ticks | webhooks are told, and not too often; detection is monotone |

**Bounds.** Two callers are enough for a report to arrive in a state its call was
not admitted in. A threshold of 2 tells "in a row" from "in total". Two samples
with one row per statement make a transaction of two statements, so that failure
falls before, between and after them. Days of five hours are the shortest in
which the four hours the hourly window reaches back fit; two ticks an hour let a
run fall in the middle of an hour; the clock starts at tick 10, so that a sample
may be dated a day before the process starts, and runs for a bit more than a day: a
sample dated 0 arrives while the loops sleep and is older than the retention of one day
and another day before they sleep again, one dated 14 falls before, into and behind
the window, depending on when it comes, and the daily rollup runs twice; the runs on
the plain arithmetic of the windows use the real 24. `retention` leaves
out a retention of 0 (the theorems do not, save one), with which `RollupsExact` fails: a
SIGHUP that stores 0
between the check in `Run` and the read in the loop makes the first run delete
every sample, where scheduler.go:53 says "Set to 0 to disable". The rate
limiter's properties need a cleanup period in which a bucket fills up
(`FillAssumption`): otherwise a swept client comes back to a full
bucket. With the burst that main derives this holds for all rates from one
request in 180 seconds up. Two files show order, two instances competition, two
sessions the gap between lock and statements. Time in `Retention` ends at
`MaxTime`, where only clockless steps remain possible.

In `remotewrite` the two senders share two rows and insert them in opposite order,
which makes them deadlock; one request has two series that ingest maps to the same
row, one has nothing to store and one does not decode. Three handlers let a
request be repeated while the abandoned one still runs beside the other sender's.
Batches of two cut a request of three rows unevenly. One fault is enough for
each kind of fault to meet every other state, as a deadlock or refusal costs none.
The instance of `parsers` has varints of one, two and three bytes, both signs and
both ends of the range; the label characters are those the parser treats
specially, and the words include units, aggregations and a word that begins with
another. The loads of `alerting` lie on both sides of every threshold, and the
webhook with the longer cooldown comes first.

**Fairness.** In `Scheduler`, every call returns and every goroutine is
scheduled (weak fairness of `Step`, `Tick`, `Exit`): the HTTP client has a
timeout and a dead database connection returns an error. Go's select picks at
random among ready cases, so a `Stop` that is enabled again and again is taken in
the end (strong fairness). Nothing is assumed of outages: recovery is stated
under the premise that they end. In `Migration`, calls return, PostgreSQL grants
a lock to its waiters in turn (strong fairness of `Granted`), and the pool
retires every session (MaxConnLifetime). In `RemoteWrite`, calls return (they have
a deadline of 30 seconds), a sender repeats what was not acknowledged (weak
fairness), and a transaction that waits for a row gets it if the row becomes free
again and again (strong fairness, per request and row): PostgreSQL wakes a waiter
as soon as the owner is aborted, while the owner's sender backs off first. Without
it two senders could abort each other for ever. `CircuitBreaker` and `RateLimiter`
assume only that time passes.

## Properties

- *Breaker*: `StateMatchesCounters`, `TripNeedsFailureRun`, `ClosingIsEarned`,
  `CoolingOff`, `AdmitsAgain`. The last four compare the record with a history of
  the reports, not with itself.
- *Scheduler*: `WholeCycles` (a reader of the table never sees part of a cycle),
  `InsertedIsHonest`, `SuccessIsDurable`, `NodeBeforeSamples`,
  `RecoversFromOutage`, `CancelEndsProcess`, and `UsesBreaker`: `collectOnce` has
  seven ways out, and reports to the breaker on exactly those that its result
  says. `GivenUpForReason`, `TrustIsEarned` and `LeftAlone` say what follows for a
  node; they are proved from `UsesBreaker` and have no run, like `QuietWhileOpen`,
  which it implies.
- *Retention*: `NoDoubleCounting`, `RollupsExact`, and `StorageBounded`: between two
  runs of a loop nothing stays for more than a day after it got too old or, dated
  back, arrived too old. No bound on the age alone holds, as a sender may date a
  sample as it likes, and the retention meant is the one the loop has read;
  `DocReloadApplies` is about the configured one.
- *Migration*: `RecordedWasApplied`, `AppliedInOrder`, `ReadyMeansMigrated`,
  `LockWaitEnds`.
- *RateLimiter*: `RateBound`, `RefinesTokenBucket`, `NeverStarved`.
- *RemoteWrite*: `AllOrNothing`, `AckedIsStored`, `AckedIsCounted`, `Delivered`.
- *Parsers*: `RoundTrip` and `TruncationDetected` against the encoder,
  `LabelsSurvive` and `FilterExact` against the labels and contexts the agent
  rendered, `CollectsTruth` against the values it had.
- *Webhook*: `Spaced`, `SomeoneHears`; of the rules that feed it, `LoadMonotone`.

Properties named `Doc...` state what the repository's docs and comments say, where
the code does otherwise; each has a run that ends in a counterexample, and an
entry under "findings" that quotes the text.

- Most samples are deleted without having been rolled up: the window is 3 hours,
  the period 24 ("aggregate first, delete later"). The run has no faults; with them a
  failed rollup, which is only logged, loses samples as well.
- A running retention loop has read `retention_days` once: after a reload to a longer
  retention it goes on deleting what should now be kept (.env.example:66). Likewise a
  loop that was not started, with 0, is not started by a reload.
- The migration lock does not keep instances apart (ADR-002): the pool may retire
  the session that owns it while Migrate goes on elsewhere. What saves the schema
  is not the lock: see the proofs. Likewise the unlock may run on a session that
  does not own the lock; `LockWaitEnds` holds because sessions are retired.

Read off the models, without a run of their own:

- *Shutdown.* A signal makes a cycle that already has its samples fail in the
  insert (`Cancel`, then `InsertFail`), where README.md:322 speaks of "completing
  in-flight collection cycles".
- *Rollup.* A second run within 4 hours overwrites the row of the hour that its
  window's lower bound cuts by an aggregate over the later part (the exception in
  `RollupsExact`), where rollup.go:17 says "safe to re-run on overlapping ranges".
- *Errors counter.* A cycle that fails in PostgreSQL (`UpsertFail`, `InsertFail`,
  `CommitFail`) leaves `errors` alone, although its HELP text (metrics.go:77) says
  "failed collection cycles"; a failed upsert does not reach the breaker.
- *Remote write.* The default node ID "remote-write" is registered by nobody, so
  every request is answered with 500 for as long as it is used; `Delivered`
  therefore starts from `registered`. The sample counter counts rows that were
  duplicates, so `AckedIsCounted` is a lower bound. All labels but `__name__` and `instance` are dropped, so series that
  differ in another label share a row and the first value wins. Metrics named
  `node_cpu...` are stored under the context `system.cpu`, where
  `DetectBottlenecks` reads percentages.
- *Decoder.* A length-delimited field that the receiver does not know and that
  runs past the end aborts the handler instead of being answered with 400.
- *Collector.* The fallback stores a context as `netdata_system_cpu`, where the
  comment at collector.go:363 says `system.cpu`. The filter also lets through a
  longer last word (`disk.iotime` for `disk.io`). A `}` in a label's value ends the
  labels. A special value followed by a timestamp is kept. The third JSON strategy
  stores 0 for a missing value. The first strategy that finds its shape decides,
  even if it yields nothing. A context without a dot is also compared with the
  name as it stands, so that one with which "netdata" begins, such as `net`, enables
  every metric of the text format.
- *Webhook.* Since the date of the last payload is shared, only the first of two
  webhooks with equal settings is told, where the comment of Notify says "to all
  configured webhooks"; `SomeoneHears` says what is left. Notify's map is not
  synchronised: the model, like every caller so far (none but tests), calls it from
  one goroutine.

## Proofs

All are checked by TLAPS (SMT, Zenon, LS4), from the ASSUMEs of the modules only.
The constants are arbitrary: any threshold of at least 1 and any timeout, any
finite sets of nodes and keys, any batch size, interval, number of instances,
sessions and files.

*`CircuitBreaker_proofs`*: `TypeCorrect`, `StateMatchesCountersAlways`,
`TripNeedsFailureRunAlways`, `ClosingIsEarnedAlways`, `CoolingOffAlways`. It first
states what each method does to a well-formed record, which `Scheduler_proofs` cites
through its instance (`MethodsSound`). The inductive invariant adds `HistoryInv` to the type and `StateMatchesCounters`: a
closed breaker has counted no more failures than the current run of failures has,
a half-open one no more successes than the current run of successes, and the
failure that dates an open breaker is no older than its trip. Without it the
action properties do not follow, since they speak about the history and the code
only sees the counters.

*`Scheduler_proofs`*: `TypeCorrect`, `QuietWhileOpenAlways`,
`NodeBeforeSamplesAlways`, `WholeCyclesAlways`, `SuccessIsDurableAlways`,
`InsertedIsHonestAlways`, for any number of schedulers (TLC's instance has one).
The invariant `SInv` is the type and, for each node, `NodeInv`. Its core is
`TxInv`: the open transaction holds only fetched samples that the table lacks,
and each fetched sample is still to be sent, in the transaction, or in the table
already. With nothing left to send, a commit therefore adds exactly the missing
part of one whole collection, which gives `WholeCycles` and `SuccessIsDurable`;
that the transaction and the table are disjoint makes the row count additive,
which gives `InsertedIsHonest`.

The same module shows the refinement. `NodeBreaker` takes one node, `Watched`, adds
the history variables of `CircuitBreaker` (runs of failures and of successes, age
of the trip) and instantiates `CircuitBreaker_proofs` with that node as the only
caller, admitted while its cycle runs. The history is fed by what `collectOnce`
returns and by where the cycle was, not by the breaker, so the mapping cannot hold
by definition. `UsesBreakerAlways`: every step is an `Allow`, `Succeed`, `Fail`,
`Abandon` or `Tick` of that breaker, leaves it alone, or ends the process, which
starts the next one with a new breaker. `Reset` does not occur. The lemmas follow
the cases: `OtherStep` (a step of another node changes nothing here), `OwnStep` (what
a step of the node does to its breaker, by where it was and what it returned),
`StepUses` (so it is one of the four). With this, `IInv` of `CircuitBreaker_proofs`
is an invariant of the scheduler (`NodeIInv`), and its step lemmas `TripStep`,
`ClosingStep` and `AdmissionStep`, cited through the instance, give
`GivenUpForReasonAlways`, `TrustIsEarnedAlways` and `LeftAloneAlways`: what was
proved of a breaker among arbitrary callers, said of the cycles of a node. They
hold for any node among any number of schedulers.

*`Migration_proofs`*: `TypeCorrect`, `RecordedWasAppliedAlways`,
`AppliedInOrderAlways`, `ReadyMeansMigratedAlways`. The invariant says that
everything before the file an instance is at has been recorded. No step of these
proofs uses the lock: order comes from checking the record file by file, safety
of overlap from idempotent files and the primary key.

*`RateLimiter_proofs`*: `TypeCorrect`, `RateBoundAlways`, `Refinement`. `Level(ip)`
is what a client could spend now. One lemma per action says what it does to the
levels: `Allow` takes a token or nothing, `Sweep` changes no level (a stale entry
is a full bucket, by `FillAssumption`), `Tick` adds `Rate` up to the capacity, also
where `idle` saturates (by `IdleCapAssumption`). These are the steps of
`TokenBucket`, which is the refinement; only the safety part is claimed, as
`TokenBucket` states no fairness. `RateBound` is not inductive, since it forgets
what is still in the bucket: `Budget` adds the level to what was admitted.

*`Retention_proofs`*: `TypeCorrect`, `NoDoubleCountingAlways`,
`StorageBoundedAlways`, `RollupsExactAlways`, for any number of loops, any length
of the hour and any day of at least five hours. `RowsHeld` says that a row holds
collected samples of its own hour only; a sample then determines its row, so the
pairs that a daily row counts map one to one into the samples of that day, which
gives `NoDoubleCounting` and with it the type of `daily`. `Sleeping` is the
inductive form of `StorageBounded`: it looks ahead to the time the ticker fires, as
the age of a sample alone says nothing about the next tick, and lets what arrived
since the delete be of any age, as the ticker fires within a day of it. `Recent` says that no
loop has deleted a sample the hourly window can still reach. It needs a retention
of at least a day, so `RollupsExactAlways` has the hypothesis
`0 \notin DayValues`; under "Bounds" stands how a reload to 0 breaks it.

*`RemoteWrite_proofs`*: `TypeCorrect`, `AllOrNothingAlways`, `AckedIsStoredAlways`,
`AckedIsCountedAlways`, for any payloads, handlers, senders and faults. `HandlerInv`
says of a handler before its commit that every row sent is in its transaction or
in the table and that the transaction holds rows of its request only, so a commit
adds a whole request whoever else wrote part of it; and that `count` lags behind
`pos` by less than a batch, so it is the number of rows when the last one is sent.
The only fact about other handlers it needs is that the table never shrinks
(`Frame`): no step uses the row locks, which matter for `Delivered` alone.
`SenderInv` (a sender waits for one handler at a time) keeps a sender within its
queue. `AckedIsCounted` is not inductive: `Counted` adds the rows of the handlers
that have counted and not yet answered. That the rows of a request, what its series
leave one after the other, are a sequence of rows is shown by induction over the
series (`FlattenType`).

*`Webhook_proofs`*: `SpacedAlways`, `SomeoneHearsAlways`, for any list of webhooks.
The shared date of a key is no older than what any webhook was told (`Later`, for
`Spaced`) and is the date one of them was told (`Witness`); `Visited` says what the
loop has achieved for the configurations behind it. `LoadMonotoneAlways`, for loads
of any number of rows: the sum and the maxima of a heavier load are no smaller, the
sum by induction over the rows; so each candidate of the lighter load has one of the
heavier load with no less confidence, and the best of the latter is no worse than
the best of the former.

*`Parsers_proofs`*: three properties of the collector, each a fact about one input of
any size, as a step of `Parsers` is one input.
- `FilterExactAlways`, for all lists of contexts, names and units. Of a metric name
  `Bare` trims the aggregation that the agent appended and no more, and then at most
  one unit goes (`ContextOfName`), so what the filter compares is the agent's name
  behind `netdata`, perhaps with its unit (`PrefixOfFull`, `PrefixGoesOn`).
- `LabelsSurviveAlways`, for values of any length. The scanner of `splitLabels` is
  followed over the text by induction: outside quotes over a key (`PlainRun`), inside
  them over an escaped value (`QuotedRun`: whatever the character, the scanner is
  back inside the quotes and not in an escape after it), which gives one piece per
  label (`TwoPairs`). Each piece is then taken apart (`PairRead`): the first `=` is
  the one after the key, and trimming quotes takes the two that were added, as an
  escaped value never begins with one. The text ends at the first `}`
  (`LabelledLine`).
- `CollectsTruthAlways`, for any dimensions, values and gaps. `Lists(s, W, P, f)` says
  that s has `f[i]` for each i of P exactly once; a loop that appends or skips leaves
  such a sequence (`Gathered`, by induction over its passes). The three JSON
  strategies and the text format list the dimensions that have a number
  (`GroupedTells`, `FlatTells`, `ObjectsTell`, `LinesTell`); that they are different
  makes the number of samples that of the pairs due (`ListsTell`). `PollTells`
  follows the fallback.

*Induction.* The library's induction theorems take an operator as a parameter, which
the provers cannot instantiate; its theorem on minimal elements (`WFMin`) takes a
set. `SetInduction` follows from it, and `SeqInduction` for sequences. A recursive
function is a CHOOSE over its defining equation: by induction the equation has a
solution and all its solutions agree (`ScansExist`, `ScansAgree` for `splitLabels`,
`JoinsExist`, `JoinsAgree` for `FlattenSeq`).

The ASSUMEs beyond types and sizes say what the environment provides, and TLC
evaluates each on its run. `ConfigsAssumption` and `AgeCapAssumption`: a configured
cooldown is not negative, which the code does not enforce. `ContextsAssumption`: no
context is the empty string, which would enable everything. `NamesAssumption`: no
unit is called like an aggregation. `LabelsAssumption`: keys have none of the
characters that mean something in the format, values no `}`, which the code does not
handle; a line has two labels. `DimsAssumption`: the dimensions of a context have
different, nonempty names, without commas (the grouped JSON shape is split at
them), quotes, backslashes or `}`, and the polled context is an enabled one.

Only model-checked: liveness (`AdmitsAgain`, `RecoversFromOutage`,
`CancelEndsProcess`, `LockWaitEnds`, `NeverStarved`, `Delivered`), which needs
fairness and ENABLED; and `RoundTrip` and `TruncationDetected`, as the provers know
nothing about exponentiation, by which varints are defined: without it not even one
varint can be shown to decode to what was encoded.

## Not modelled

- *Configuration loading* (`config`): a pure function from files and environment
  to the constants of these models.
- *Tracing*: I/O.
- *MCP tools other than the bottleneck rules*: each is one read-only query, whose
  SQL does the work, and formatting; forecasts and anomalies are floating-point
  statistics.
- *Config file watcher, tenant registry, derived metrics*: main does not use them,
  and they share no state with what it does use.
- *The scrape handler of `metrics`*: independent atomic reads, between which the
  code promises no relation.
- *`ResolveNodeID` and `setAuth` of the collector*, the HTTP mux with TLS and
  authentication, `DeleteOldRollups` (nobody calls it).
- TimescaleDB (migration 002) is taken as one more idempotent file.

## Plan

Every safety property of the runs but `RoundTrip` and `TruncationDetected` is proved.
Further along the same line:

1. A composition of `Scheduler` and `Retention` over one table.
2. The choice of rollup table by the MCP tools.
