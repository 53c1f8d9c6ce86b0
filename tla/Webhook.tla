------------------------------ MODULE Webhook ------------------------------
(***************************************************************************)
(* The webhook notifier of internal/webhook/webhook.go, told of the results *)
(* of DetectBottlenecks.  main does not wire the two together; the caller   *)
(* here reports one detection after the other.                              *)
(*                                                                          *)
(* Time.  A tick is a minute; a call takes less (the client gives up after  *)
(* 10 seconds).  lastSent is kept as the time since then, saturating at     *)
(* AgeCap, which stands for "longer ago than any cooldown, or never".       *)
(***************************************************************************)
EXTENDS Bottleneck, Integers, FiniteSets

CONSTANTS
    Nodes,
    Loads,             \* the aggregates that are analysed
    Configs,           \* n.configs: a sequence of [url, minConf, cooldown]
    DefaultMinConf,    \* 70 hundredths
    DefaultCooldown,   \* 15 minutes
    AgeCap             \* bound on ages (saturating)

Types == {"cpu", "ram", "disk"}
Keys == Nodes \X Types          \* the cooldown keys
Hooks == 1..Len(Configs)

MinConf(c) == IF Configs[c].minConf = 0 THEN DefaultMinConf ELSE Configs[c].minConf

Cooldown(c) == IF Configs[c].cooldown = 0 THEN DefaultCooldown ELSE Configs[c].cooldown

ASSUME AgeCapAssumption ==
    AgeCap \in Nat /\ DefaultCooldown \in 1..AgeCap
    /\ \A c \in Hooks : Configs[c].cooldown \in 0..AgeCap

\* A configured cooldown is not negative (nothing in the code checks that).
ASSUME ConfigsAssumption ==
    Configs \in Seq([url : BOOLEAN, minConf : Int, cooldown : Nat])

ASSUME LoadsAssumption ==
    Loads \subseteq Seq([context : STRING, dimension : STRING, avg : Int, max : Int])

VARIABLES
    load,        \* the aggregates analysed last
    result,      \* what DetectBottlenecks said of them
    node,        \* the node they are of
    at,          \* the configuration Notify is at; 0: no call is under way
    lastSent,    \* lastSent[k]: age of n.lastSent[k]
    told,        \* history: told[c][k], time since c acknowledged a payload of k
    failed       \* history: webhooks whose send failed in this call

vars == <<load, result, node, at, lastSent, told, failed>>

Init ==
    /\ load = <<>> /\ node \in Nodes
    /\ result = [type |-> "none", confidence |-> 90]
    /\ at = 0
    /\ lastSent = [k \in Keys |-> AgeCap]
    /\ told = [c \in Hooks |-> [k \in Keys |-> AgeCap]]
    /\ failed = {}

\* A detection, and the call of Notify, which returns at once if there is
\* nothing to report.
Detect(n, aggs) ==
    /\ at = 0
    /\ load' = aggs /\ node' = n
    /\ result' = DetectBottlenecks(aggs)
    /\ at' = IF Configs = <<>> \/ result'.type = "none" THEN 0 ELSE 1
    /\ failed' = {}
    /\ UNCHANGED <<lastSent, told>>

Key == <<node, result.type>>

\* The loop goes on to the next configuration, or Notify returns.
Continue == at' = IF at < Len(Configs) THEN at + 1 ELSE 0

Qualifies(c) == Configs[c].url /\ result.confidence >= MinConf(c)

Skip ==
    /\ at # 0
    /\ ~Qualifies(at) \/ lastSent[Key] < Cooldown(at)
    /\ Continue
    /\ UNCHANGED <<load, result, node, lastSent, told, failed>>

Bug_SendsDuringCooldown == at # 0 /\ Qualifies(at)

Sends == at # 0 /\ Qualifies(at) /\ lastSent[Key] >= Cooldown(at)

SendOK ==
    /\ Sends
    /\ lastSent' = [lastSent EXCEPT ![Key] = 0]
    /\ told' = [told EXCEPT ![at][Key] = 0]
    /\ Continue
    /\ UNCHANGED <<load, result, node, failed>>

Bug_FailureStartsCooldown ==
    /\ Sends
    /\ lastSent' = [lastSent EXCEPT ![Key] = 0]
    /\ failed' = failed \cup {at}
    /\ Continue
    /\ UNCHANGED <<load, result, node, told>>

\* No connection, no answer in time, or a status of 400 and above.
SendFails ==
    /\ Sends
    /\ failed' = failed \cup {at}
    /\ Continue
    /\ UNCHANGED <<load, result, node, lastSent, told>>

Older(age) == IF age < AgeCap THEN age + 1 ELSE age

Tick ==
    /\ at = 0
    /\ lastSent' = [k \in Keys |-> Older(lastSent[k])]
    /\ told' = [c \in Hooks |-> [k \in Keys |-> Older(told[c][k])]]
    /\ UNCHANGED <<load, result, node, at, failed>>

Next ==
    \/ \E n \in Nodes, aggs \in Loads : Detect(n, aggs)
    \/ Skip \/ SendOK \/ SendFails \/ Tick

Spec == Init /\ [][Next]_vars

-----------------------------------------------------------------------------
(* Two payloads of one key that a webhook acknowledges are at least its     *)
(* cooldown apart, although all webhooks share the date of the last one.    *)
Spaced == [][SendOK => told[at][Key] >= Cooldown(at)]_vars

(* When Notify returns, every webhook that is configured for a bottleneck   *)
(* of this confidence and could be reached has either been told, or some    *)
(* webhook has been within its cooldown: a failed send silences nobody.     *)
SomeoneHears ==
    [][at # 0 /\ at' = 0
         => \A c \in Hooks : Qualifies(c) /\ c \notin failed'
              => \E d \in Hooks : told'[d][Key] < Cooldown(c)]_vars

(* More load never looks like less: as long as only the load of CPU, disk   *)
(* and swap grows, a bottleneck found before is not followed by none, and   *)
(* confidence does not fall, whichever resource is named.                   *)
Heavier(a, b) ==
    /\ Len(a) = Len(b)
    /\ \A i \in 1..Len(a) :
         /\ a[i].context = b[i].context /\ a[i].dimension = b[i].dimension
         /\ IF a[i].context = "system.ram" THEN a[i] = b[i]
            ELSE a[i].avg <= b[i].avg /\ a[i].max <= b[i].max

LoadMonotone ==
    [][result.type # "none" /\ Heavier(load, load')
         => result'.type # "none" /\ result'.confidence >= result.confidence]_vars
=============================================================================
