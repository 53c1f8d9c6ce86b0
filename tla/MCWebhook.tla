----------------------------- MODULE MCWebhook -----------------------------
(* Two webhooks that differ in threshold and cooldown, one of them with the *)
(* defaults (a cooldown of 15 minutes is three ticks here), between which a *)
(* configuration without URL stands; loads on both sides of every limit.    *)
EXTENDS Webhook

Agg(ctx, dim, a, m) == [context |-> ctx, dimension |-> dim, avg |-> a, max |-> m]

MCLoads ==
    {<<Agg("system.cpu", "user", u, u + 15), Agg("system.cpu", "idle", 90, 99),
       Agg("system.cpu", "iowait", w, w), Agg("system.ram", "used", r, 100),
       Agg("system.swap", "used", s, s), Agg("disk.util", "util", d, d)>>
       : u \in {30, 75}, w \in {0, 12}, r \in {50, 95}, s \in {0, 600}, d \in {0, 96}}

MCConfigs == <<[url |-> TRUE, minConf |-> 0, cooldown |-> 0],
               [url |-> FALSE, minConf |-> 0, cooldown |-> 1],
               [url |-> TRUE, minConf |-> 50, cooldown |-> 2]>>
=============================================================================
