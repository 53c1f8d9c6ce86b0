----------------------------- MODULE Retention -----------------------------
(***************************************************************************)
(* Rollups and retention: Scheduler.retentionLoop and runRetention          *)
(* (internal/scheduler/scheduler.go), the aggregate and delete statements   *)
(* of internal/store, and the SIGHUP goroutine of main that rewrites        *)
(* retentionDays.  Every scheduler of the process runs its own loop over    *)
(* the same tables.                                                         *)
(*                                                                          *)
(* Time.  HourTicks ticks make an hour, DayHours hours a day (24 in the     *)
(* code).  One run of a loop takes less than a tick, so the clock waits for *)
(* it, but crashes, other loops, collections and SIGHUP do not.             *)
(*                                                                          *)
(* Data.  One series; a sample is its collected_at, which the collector     *)
(* sets to now for most answers, while senders of remote-write requests and *)
(* agents that answer in the flat JSON shape choose it: it may lie far in   *)
(* the past or in the future.  An hourly row is the set of samples it       *)
(* aggregates ({}: no row), from which avg, min, max and sample_count       *)
(* follow; a daily row is its sample_count.                                 *)
(***************************************************************************)
EXTENDS Naturals, FiniteSets

CONSTANTS
    Loops,        \* the schedulers, one retention loop each
    HourTicks,    \* ticks per hour
    DayHours,     \* hours per day
    DayValues,    \* values retention_days takes in the configuration
    Start,        \* when the first process starts; samples may be older
    Stamps,       \* dates that senders and agents put on samples
    Faults,       \* may statements fail and processes crash?
    MaxTime,      \* bound on the clock
    MaxSamples    \* bound on the samples collected

ASSUME HourTicksAssumption == HourTicks \in Nat \ {0}
\* The hourly window reaches 4 hours back: less than a day.
ASSUME DayHoursAssumption == DayHours \in Nat /\ DayHours >= 5
ASSUME DayValuesAssumption == DayValues \subseteq Nat /\ DayValues # {}
ASSUME FaultsAssumption == Faults \in BOOLEAN
ASSUME BoundsAssumption == MaxTime \in Nat /\ MaxSamples \in Nat
ASSUME StampsAssumption == Stamps \subseteq 0..MaxTime /\ Start \in 0..MaxTime

Day == DayHours * HourTicks
Times == 0..MaxTime
Hours == 0..(MaxTime \div HourTicks)
Days == 0..(MaxTime \div Day)
HourOf(s) == s \div HourTicks
DayOf(h) == h \div DayHours

VARIABLES
    now,
    alive,      \* the process runs
    days,       \* retention_days: cfg.RetentionDays in main and
                \* s.retentionDays in every scheduler, always equal
    pc,         \* pc[l]: where retention loop l is
    keep,       \* keep[l]: its local variable retention, in ticks
    due,        \* due[l]: when its ticker fires next
    samples,    \* hardware_metric_samples
    hourly,     \* hardware_metric_rollups_1h
    daily,      \* hardware_metric_rollups_1d
    ingested,   \* history: every sample ever inserted
    arrived,    \* history: arrived[s], when the stored sample s was inserted
    swept,      \* history: swept[l], did the last delete of l succeed?
    asked       \* history: asked[l], retention_days when the present run of l
                \* began; 0 between two runs

tables == <<samples, hourly, daily, ingested, arrived>>
vars == <<now, alive, days, pc, keep, due, tables, swept, asked>>

PCs == {"run", "spawned", "hourly", "daily", "delete", "wait", "off"}

TypeOK ==
    /\ now \in Times
    /\ alive \in BOOLEAN
    /\ days \in DayValues
    /\ pc \in [Loops -> PCs]
    /\ keep \in [Loops -> {d * Day : d \in DayValues}]
    /\ due \in [Loops -> 0..(MaxTime + Day)]
    /\ samples \subseteq Times /\ ingested \subseteq Times
    /\ samples \subseteq ingested
    /\ hourly \in [Hours -> SUBSET Times]
    /\ daily \in [Days -> 0..MaxSamples]
    /\ arrived \in [samples -> Times]
    /\ swept \in [Loops -> BOOLEAN]
    /\ asked \in [Loops -> DayValues \cup {0}]

Init ==
    /\ now = Start
    /\ alive = TRUE
    /\ days \in DayValues
    /\ pc = [l \in Loops |-> "run"]
    /\ keep = [l \in Loops |-> days * Day]
    /\ due = [l \in Loops |-> 0]
    /\ samples = {} /\ ingested = {}
    /\ hourly = [h \in Hours |-> {}]
    /\ daily = [d \in Days |-> 0]
    /\ arrived = [s \in samples |-> 0]
    /\ swept = [l \in Loops |-> FALSE]
    /\ asked = [l \in Loops |-> 0]

-----------------------------------------------------------------------------
(* The statements.                                                          *)

\* AggregateHourly(now - 1h): samples of the last 3 hours before that.
HourlyWindow == {s \in samples : s + 4 * HourTicks >= now /\ s + HourTicks < now}

\* Each bucket that has a sample in the window is inserted or overwritten.
AggregateHourly ==
    hourly' = [h \in Hours |->
                 LET group == {s \in HourlyWindow : HourOf(s) = h}
                 IN  IF group = {} THEN hourly[h] ELSE group]

\* AggregateDaily(now - 24h): hourly rows whose bucket starts before that.
DailyInput(d) ==
    {h \in Hours : hourly[h] # {} /\ DayOf(h) = d /\ h * HourTicks + Day < now}

\* SUM(sample_count) of those rows: one for each pair of a row and a sample in
\* it, so a sample that two rows held would count twice.
DailyCount(d) == Cardinality(UNION {{h} \X hourly[h] : h \in DailyInput(d)})

Bug_DailyAccumulates ==
    daily' = [d \in Days |-> daily[d] + DailyCount(d)]

AggregateDaily ==
    daily' = [d \in Days |->
                IF DailyInput(d) = {} THEN daily[d]
                ELSE DailyCount(d)]

Bug_DeleteHoursForDays(k) ==
    samples' = {s \in samples : s + (k \div DayHours) >= now}

Bug_DeleteDayLate(k) == samples' = {s \in samples : s + k + Day >= now}

\* DeleteOldSamples(k): collected_at < now - k.
DeleteOldSamples(k) == samples' = {s \in samples : s + k >= now}

-----------------------------------------------------------------------------
(* The retention loop.                                                      *)

Goto(l, p) == pc' = [pc EXCEPT ![l] = p]

\* Run: if s.retentionDays > 0 { go s.retentionLoop(ctx) }
Run(l) ==
    /\ alive /\ pc[l] = "run"
    /\ Goto(l, IF days > 0 THEN "spawned" ELSE "off")
    /\ UNCHANGED <<now, alive, days, keep, due, tables, swept, asked>>

\* The new goroutine reads retentionDays, once and for all.
LoopStarts(l) ==
    /\ alive /\ pc[l] = "spawned"
    /\ keep' = [keep EXCEPT ![l] = days * Day]
    /\ asked' = [asked EXCEPT ![l] = days]
    /\ Goto(l, "hourly")
    /\ UNCHANGED <<now, alive, days, due, tables, swept>>

TickerFires(l) ==
    /\ alive /\ pc[l] = "wait" /\ now = due[l]
    /\ asked' = [asked EXCEPT ![l] = days]
    /\ Goto(l, "hourly")
    /\ UNCHANGED <<now, alive, days, keep, due, tables, swept>>

\* A failed rollup is logged; the run goes on.
HourlyStep(l) ==
    /\ alive /\ pc[l] = "hourly"
    /\ AggregateHourly \/ (Faults /\ UNCHANGED hourly)
    /\ Goto(l, "daily")
    /\ UNCHANGED <<now, alive, days, keep, due, samples, daily,
                   ingested, arrived, swept, asked>>

DailyStep(l) ==
    /\ alive /\ pc[l] = "daily"
    /\ AggregateDaily \/ (Faults /\ UNCHANGED daily)
    /\ Goto(l, "delete")
    /\ UNCHANGED <<now, alive, days, keep, due, samples, hourly,
                   ingested, arrived, swept, asked>>

\* The ticker is created after the first run and keeps its pace from there.
Sleep(l) ==
    /\ Goto(l, "wait")
    /\ due' = [due EXCEPT ![l] = now + Day]

DeleteStep(l) ==
    /\ alive /\ pc[l] = "delete"
    /\ \/ /\ DeleteOldSamples(keep[l])
          /\ swept' = [swept EXCEPT ![l] = TRUE]
       \/ /\ Faults /\ UNCHANGED samples
          /\ swept' = [swept EXCEPT ![l] = FALSE]
    /\ arrived' = [s \in samples' |-> arrived[s]]
    /\ asked' = [asked EXCEPT ![l] = 0]
    /\ Sleep(l)
    /\ UNCHANGED <<now, alive, days, keep, hourly, daily, ingested>>

-----------------------------------------------------------------------------
(* The rest of the process, and its environment.                            *)

\* A transaction commits a sample; one that is there already stays as it is.
\* A sample that was deleted may come again.
Insert(t) ==
    /\ alive /\ t \notin samples /\ Cardinality(ingested \cup {t}) <= MaxSamples
    /\ samples' = samples \cup {t}
    /\ ingested' = ingested \cup {t}
    /\ arrived' = [s \in samples' |-> IF s = t THEN now ELSE arrived[s]]
    /\ UNCHANGED <<now, alive, days, pc, keep, due, hourly, daily, swept, asked>>

\* A collection cycle dates its samples itself.
Collect == Insert(now)

\* A remote-write request, or an answer in the flat JSON shape, has dates.
Receive(t) == Insert(t)

\* SIGHUP: a changed retention_days goes to every scheduler and into cfg.
Reload(d) ==
    /\ alive /\ d # days
    /\ days' = d
    /\ UNCHANGED <<now, alive, pc, keep, due, tables, swept, asked>>

Crash ==
    /\ Faults /\ alive
    /\ alive' = FALSE
    /\ pc' = [l \in Loops |-> "run"]
    /\ swept' = [l \in Loops |-> FALSE]
    /\ asked' = [l \in Loops |-> 0]
    /\ due' = [l \in Loops |-> 0]
    /\ keep' = [l \in Loops |-> days * Day]
    /\ UNCHANGED <<now, days, tables>>

\* A new process loads the configuration anew.
Restart ==
    /\ ~alive
    /\ alive' = TRUE
    /\ days' \in DayValues
    /\ keep' = [l \in Loops |-> days' * Day]
    /\ UNCHANGED <<now, pc, due, tables, swept, asked>>

\* Time passes once no loop has anything to do at this tick.
Tick ==
    /\ now < MaxTime
    /\ alive => \A l \in Loops : \/ pc[l] = "off"
                                 \/ pc[l] = "wait" /\ now < due[l]
    /\ now' = now + 1
    /\ UNCHANGED <<alive, days, pc, keep, due, tables, swept, asked>>

Next ==
    \/ \E l \in Loops : \/ Run(l) \/ LoopStarts(l) \/ TickerFires(l)
                        \/ HourlyStep(l) \/ DailyStep(l) \/ DeleteStep(l)
    \/ Collect
    \/ \E t \in Stamps : Receive(t)
    \/ \E d \in DayValues : Reload(d)
    \/ Crash \/ Restart \/ Tick

Spec == Init /\ [][Next]_vars

-----------------------------------------------------------------------------
(* A daily row never counts a sample twice, however often runs are repeated *)
(* or interleaved: AggregateHourly and AggregateDaily overwrite, they do    *)
(* not add.                                                                 *)
NoDoubleCounting ==
    \A d \in Days :
        daily[d] <= Cardinality({s \in ingested : DayOf(HourOf(s)) = d})

(* Whenever a loop sleeps after a delete that succeeded, no sample has      *)
(* outstayed its retention by more than the day until the loop runs again,  *)
(* counted from when the sample got too old or, if its sender dated it      *)
(* back, from when it arrived (the 24h ticker, the cutoff of                *)
(* DeleteOldSamples and the immediate first run).  The retention is the one *)
(* the loop has read: see DocReloadApplies for the one that is configured.  *)
StorageBounded ==
    \A l \in Loops :
        alive /\ pc[l] = "wait" /\ swept[l]
          => \A s \in samples : \/ now <= s + keep[l] + Day
                               \/ now <= arrived[s] + Day

(* After a successful hourly rollup, every bucket that lies wholly in the   *)
(* window holds exactly the samples ever collected in that hour: no loop    *)
(* has deleted any of them first.  And no step ever takes a sample out of a *)
(* row, save in the one bucket that the lower bound of the window cuts,     *)
(* which a repeated run overwrites with its later part.                     *)
WholeHour(h) ==
    h * HourTicks + 4 * HourTicks >= now /\ (h + 2) * HourTicks <= now

CutHour(h) ==
    h * HourTicks + 4 * HourTicks < now /\ (h + 1) * HourTicks + 4 * HourTicks > now

RollupsExact ==
    [][/\ (\E l \in Loops : HourlyStep(l)) /\ AggregateHourly =>
            \A h \in {g \in Hours : WholeHour(g)} :
                LET all == {s \in ingested : HourOf(s) = h}
                IN  all # {} => hourly'[h] = all
       /\ hourly' # hourly =>
            \A h \in Hours : hourly[h] \subseteq hourly'[h] \/ CutHour(h)]_vars

(* scheduler.go: "aggregate first, delete later".  A sample is deleted only *)
(* once some hourly row has taken it in, although a failed rollup is only   *)
(* logged and the window of the rollup is short.                            *)
DocAggregateBeforeDelete ==
    [][\A s \in samples \ samples' : \E h \in Hours : s \in hourly[h]]_vars

(* .env.example: "send SIGHUP to reload retention_days ... without          *)
(* restarting the service".  A run deletes the samples that are too old by  *)
(* the retention_days configured when it began, and no others; 0 disables   *)
(* the deletion.  A reload in the middle of a run may come too late for it. *)
Outdated(d) == IF d = 0 THEN {} ELSE {s \in samples : s + d * Day < now}

DocReloadApplies ==
    [][\A l \in Loops :
          DeleteStep(l) => samples \ samples' \in {{}, Outdated(asked[l])}]_vars
=============================================================================
