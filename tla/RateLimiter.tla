---------------------------- MODULE RateLimiter ----------------------------
(***************************************************************************)
(* The HTTP rate limiter of internal/middleware/ratelimit.go: a table of    *)
(* token buckets that are refilled lazily, when their client comes back,    *)
(* and a goroutine that removes the entries of clients not seen lately.     *)
(* rl.mu makes Allow and a sweep of the table atomic.                       *)
(*                                                                          *)
(* Numbers.  The code counts tokens in floating point; here a token is Cost *)
(* units and Rate units flow in per tick.  lastSeen is kept as the time     *)
(* since then, saturating at IdleCap, where every bucket is full again and  *)
(* every entry is stale.                                                    *)
(***************************************************************************)
EXTENDS Naturals, FiniteSets

CONSTANTS
    IPs,        \* clients, as extractIP names them
    Rate,       \* units gained per tick
    Cost,       \* units per token
    Burst,      \* tokens in a full bucket
    Cleanup,    \* rl.cleanup in ticks: sweep period and age of a stale entry
    IdleCap,    \* bound on the time since lastSeen (saturating)
    MaxWindow   \* bound on the length of an observed window

ASSUME RateAssumption == Rate \in Nat \ {0} /\ Cost \in Nat \ {0}
ASSUME BurstAssumption == Burst \in Nat \ {0}
ASSUME CleanupAssumption == Cleanup \in Nat \ {0}
ASSUME IdleCapAssumption ==
    IdleCap \in Nat /\ IdleCap > Cleanup /\ IdleCap * Rate >= Burst * Cost
ASSUME MaxWindowAssumption == MaxWindow \in Nat
\* A bucket fills up within the cleanup period (3 minutes), else a client that
\* is swept comes back to a bucket that should not be full.  main makes
\* Burst = 2 * int(rps) + 1, so this holds from one request in 180 seconds up.
ASSUME FillAssumption == Cleanup * Rate >= Burst * Cost

Capacity == Burst * Cost

VARIABLES
    known,      \* keys of rl.visitors
    tokens,     \* tokens[ip]: b.tokens, in units (Capacity when not known)
    idle,       \* idle[ip]: time since b.lastSeen
    sweep,      \* ticks until the cleanup ticker fires
    served,     \* the last reply: <<ip, admitted?>>, or <<>> after a tick
    granted,    \* history: granted[ip], requests admitted in the window
    window      \* history: length of the window so far

vars == <<known, tokens, idle, sweep, served, granted, window>>

TypeOK ==
    /\ known \subseteq IPs
    /\ tokens \in [IPs -> 0..Capacity]
    /\ idle \in [IPs -> 0..IdleCap]
    /\ sweep \in 0..Cleanup
    /\ served \in {<<>>} \cup (IPs \X BOOLEAN)
    /\ granted \in [IPs -> Nat]
    /\ window \in 0..MaxWindow

Init ==
    /\ known = {}
    /\ tokens = [ip \in IPs |-> Capacity]
    /\ idle = [ip \in IPs |-> 0]
    /\ sweep = Cleanup
    /\ served = <<>>
    /\ granted = [ip \in IPs |-> 0]
    /\ window = 0

Bug_RefillUncapped(ip) == tokens[ip] + idle[ip] * Rate

\* What Allow finds in the bucket: elapsed time refills it up to burst.
Refilled(ip) ==
    LET t == tokens[ip] + idle[ip] * Rate
    IN  IF t > Capacity THEN Capacity ELSE t

\* Allow: a new client gets a full bucket less this request; a known one is
\* refilled, and pays if it can.  A refusal is counted and answered with 429.
Bug_RefusalEmptiesBucket(ip) ==
    LET full == IF ip \in known THEN Refilled(ip) ELSE Capacity
        ok == full >= Cost
    IN  /\ known' = known \cup {ip}
        /\ tokens' = [tokens EXCEPT ![ip] = IF ok THEN full - Cost ELSE 0]
        /\ idle' = [idle EXCEPT ![ip] = 0]
        /\ served' = <<ip, ok>>
        /\ granted' = [granted EXCEPT ![ip] = IF ok THEN @ + 1 ELSE @]
        /\ UNCHANGED <<sweep, window>>

Bug_LastSeenKept(ip) ==
    LET full == IF ip \in known THEN Refilled(ip) ELSE Capacity
        ok == full >= Cost
    IN  /\ known' = known \cup {ip}
        /\ tokens' = [tokens EXCEPT ![ip] = IF ok THEN full - Cost ELSE full]
        /\ served' = <<ip, ok>>
        /\ granted' = [granted EXCEPT ![ip] = IF ok THEN @ + 1 ELSE @]
        /\ UNCHANGED <<idle, sweep, window>>

Allow(ip) ==
    LET full == IF ip \in known THEN Refilled(ip) ELSE Capacity
        ok == full >= Cost
    IN  /\ known' = known \cup {ip}
        /\ tokens' = [tokens EXCEPT ![ip] = IF ok THEN full - Cost ELSE full]
        /\ idle' = [idle EXCEPT ![ip] = 0]
        /\ served' = <<ip, ok>>
        /\ granted' = [granted EXCEPT ![ip] = IF ok THEN @ + 1 ELSE @]
        /\ UNCHANGED <<sweep, window>>

\* cleanupLoop: drop the entries last seen more than Cleanup ago.
Bug_SweepEverything ==
    /\ sweep = 0
    /\ sweep' = Cleanup
    /\ known' = {}
    /\ tokens' = [ip \in IPs |-> Capacity]
    /\ idle' = [ip \in IPs |-> 0]
    /\ UNCHANGED <<served, granted, window>>

Sweep ==
    /\ sweep = 0
    /\ sweep' = Cleanup
    /\ LET stale == {ip \in known : idle[ip] > Cleanup}
       IN  /\ known' = known \ stale
           /\ tokens' = [ip \in IPs |-> IF ip \in stale THEN Capacity ELSE tokens[ip]]
           /\ idle' = [ip \in IPs |-> IF ip \in stale THEN 0 ELSE idle[ip]]
    /\ UNCHANGED <<served, granted, window>>

Tick ==
    /\ window < MaxWindow
    /\ window' = window + 1
    /\ idle' = [ip \in IPs |-> IF ip \in known /\ idle[ip] < IdleCap
                               THEN idle[ip] + 1 ELSE idle[ip]]
    /\ sweep' = IF sweep > 0 THEN sweep - 1 ELSE 0
    /\ served' = <<>>
    /\ UNCHANGED <<known, tokens, granted>>

\* An observer starts counting admissions anew, at any moment.
OpenWindow ==
    /\ window' = 0
    /\ granted' = [ip \in IPs |-> 0]
    /\ UNCHANGED <<known, tokens, idle, sweep, served>>

Next == (\E ip \in IPs : Allow(ip)) \/ Sweep \/ Tick \/ OpenWindow

\* Time goes on, and whoever watches starts again when a window is full.
Fairness == WF_vars(Tick) /\ WF_vars(OpenWindow /\ window = MaxWindow)

Spec == Init /\ [][Next]_vars /\ Fairness

-----------------------------------------------------------------------------
(* Over any window of time a client is admitted at most Burst times plus    *)
(* what Rate brings in, wherever the window starts, and although its entry  *)
(* may be removed and made anew meanwhile (Allow and cleanupLoop together). *)
RateBound ==
    \A ip \in IPs : granted[ip] * Cost <= Capacity + window * Rate

(* A client that keeps asking is not starved: refused requests take nothing *)
(* from the bucket and lose none of the time that refills it.               *)
NeverStarved ==
    \A ip \in IPs : []<>(ip \notin known \/ Refilled(ip) >= Cost)

(* The lazily refilled, swept table is indistinguishable from the ideal     *)
(* bucket per client: every step of it is a step of TokenBucket.            *)
Ideal == INSTANCE TokenBucket
            WITH level <- [ip \in IPs |-> IF ip \in known THEN Refilled(ip)
                                          ELSE Capacity]

RefinesTokenBucket == Ideal!Spec
=============================================================================
