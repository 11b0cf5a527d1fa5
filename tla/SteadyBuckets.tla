---------------------------- MODULE SteadyBuckets ----------------------------
(***************************************************************************)
(* What a rate limiter promises: every client has, per tier, a level that  *)
(* grows with every second up to its capacity whether or not anybody looks *)
(* at it; a request takes one token or is refused with the time after      *)
(* which a token will be there.  No bucket is ever created, refilled late, *)
(* or forgotten.  Limiter is shown to implement this.                      *)
(*                                                                         *)
(* Levels are counted in parts: a token is Minute parts, and Rpm[t] parts  *)
(* arrive per second, so that rpm tokens arrive per minute.                *)
(***************************************************************************)
EXTENDS Integers

CONSTANTS Ips, Tiers, Minute, Rpm

VARIABLES
    level,    \* level[c][t]: the parts client c has in tier t
    verdict   \* the last answer

Capacity(t) == Minute * (IF Rpm[t] = 0 THEN 1 ELSE Rpm[t])

Grown(n, t) == IF n + Rpm[t] <= Capacity(t) THEN n + Rpm[t] ELSE Capacity(t)

SteadyInit ==
    /\ level = [c \in Ips |-> [t \in Tiers |-> Capacity(t)]]
    /\ verdict = [kind |-> "none"]

Second ==
    /\ level' = [c \in Ips |-> [t \in Tiers |-> Grown(level[c][t], t)]]
    /\ UNCHANGED verdict

Grant(c, t) ==
    /\ level[c][t] >= Minute
    /\ level' = [level EXCEPT ![c][t] = @ - Minute]
    /\ verdict'.kind = "admitted"

(* retry is the first second at which the client will have a token again *)
Deny(c, t) ==
    /\ level[c][t] < Minute
    /\ verdict'.kind = "refused"
    /\ level[c][t] + verdict'.retry * Rpm[t] >= Minute
    /\ level[c][t] + (verdict'.retry - 1) * Rpm[t] < Minute
    /\ UNCHANGED level

(* a client the configuration exempts *)
Exempt == verdict'.kind = "exempt" /\ UNCHANGED level

SteadyNext ==
    \/ Second
    \/ Exempt
    \/ \E c \in Ips, t \in Tiers : Grant(c, t) \/ Deny(c, t)

SteadySpec == SteadyInit /\ [][SteadyNext]_<<level, verdict>>
=============================================================================
