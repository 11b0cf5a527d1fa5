------------------------------- MODULE Limiter -------------------------------
(***************************************************************************)
(* The token buckets of src/utils/ratelimit.rs, the middleware of          *)
(* src/server/ratelimit.rs that charges every request to one of them, the  *)
(* gateway (src/server/gateway.rs) that may stand in front of it and the   *)
(* worker of src/main.rs that forgets idle clients.                        *)
(*                                                                         *)
(* A bucket is refilled only when a request looks at it: what it holds now *)
(* depends on how long ago that was.  RateLimiter keeps its map behind one *)
(* Mutex, so a request is one step.  Tokens are counted in parts, Minute   *)
(* parts to a token, so that a second brings Rpm[t] parts exactly where    *)
(* the code adds Rpm[t] / 60 of a token; time passes in whole seconds and  *)
(* the rounding of f64 is left out.                                        *)
(***************************************************************************)
EXTENDS Integers, Maps

CONSTANTS
    Ips,         \* addresses of clients and of this host
    Loopback,    \* the addresses of this host
    Private,     \* is_private_or_loopback_ip
    NoIp,        \* a forwarding header that is missing or does not parse
    Enabled,     \* ratelimit.enabled
    Whitelist,   \* ratelimit.whitelist_private
    Requests,    \* the requests clients send, as [method, path]
    Minute,      \* seconds of a minute (60 in the code)
    Rpm,         \* general_rpm, bancho_rpm, direct_rpm, sensitive_rpm
    MaxIdle,     \* seconds after which a client is forgotten (600)
    Watched,     \* the address and tier whose requests are counted
    MaxWindow    \* bound of the model: seconds a count may last

Tiers == {"general", "bancho", "direct", "sensitive"}

ASSUME LimiterAssumption ==
    /\ Loopback \subseteq Private /\ Private \subseteq Ips /\ NoIp \notin Ips
    /\ Enabled \in BOOLEAN /\ Whitelist \in BOOLEAN
    /\ Minute \in Nat \ {0}
    /\ Rpm \in [Tiers -> Nat]
    /\ MaxIdle \in Nat /\ MaxIdle >= Minute
    /\ Watched.ip \in Ips /\ Watched.tier \in Tiers

VARIABLES
    clients,   \* clients: address -> its buckets and when it was last seen
    verdict,   \* the answer to the last request
    taken,     \* history: what Watched was admitted since the count began
    since      \* history: the seconds since the count began

history == <<taken, since>>
vars    == <<clients, verdict, history>>

-----------------------------------------------------------------------------
(* TokenBucket *)

Capacity(t) == Minute * (IF Rpm[t] = 0 THEN 1 ELSE Rpm[t])

Refilled(b, t) == IF b.tokens + b.age * Rpm[t] <= Capacity(t)
                  THEN b.tokens + b.age * Rpm[t] ELSE Capacity(t)

(* the ceiling of what is missing over the rate; asked only when less than  *)
(* a token is left                                                          *)
RetryAfter(parts, t) ==
    IF Rpm[t] = 0 THEN Minute
    ELSE (Minute - parts + Rpm[t] - 1) \div Rpm[t]

(* age: the seconds since last_update, idle: those since last_seen *)
NewClient == [idle |-> 0,
              bucket |-> [t \in Tiers |-> [tokens |-> Capacity(t), age |-> 0]]]

Buckets(c) == IF c \in DOMAIN clients THEN clients[c] ELSE NewClient

-----------------------------------------------------------------------------
(* Whose bucket a request is charged to *)

(* Mutant: forwarding headers are believed whoever sends them. *)
ClientIpOfAnyone(peer, forwarded) == IF forwarded # NoIp THEN forwarded ELSE peer

(* forwarded: the first of the three forwarding headers that parses *)
ClientIp(peer, forwarded) ==
    IF peer \in Loopback /\ forwarded # NoIp THEN forwarded ELSE peer

(* The gateway strips the forwarding headers of the client and puts the     *)
(* client's address in their place; behind it the peer is this host.  It    *)
(* charges the request to a limiter of its own before: any subset of what   *)
(* clients send arrives here.                                               *)
ThroughGateway(sender) == sender

SensitivePaths ==
    {"/api/register", "/api/login", "/users", "/users/", "/api/profile/update",
     "/api/profile/avatar", "/api/profile/banner", "/api/backgrounds/upload",
     "/web/osu-submit-modular-selector.php", "/web/osu-submit-modular.php"}

DirectPaths == {"/web/osu-search.php", "/web/osu-search-set.php", "/d/"}

ClassifyTier(r) ==
    CASE r.path \in SensitivePaths                       -> "sensitive"
      [] r.path \in DirectPaths                          -> "direct"
      [] r.method = "POST" /\ r.path \in {"/", "/c"}     -> "bancho"
      [] OTHER                                           -> "general"

IsExempt(c) == ~Enabled \/ (Whitelist /\ c \in Private)

-----------------------------------------------------------------------------
(* RateLimiter::check for a request of sender charged to c in tier t *)

Answer(kind, sender, c, t, retry) ==
    [kind |-> kind, sender |-> sender, ip |-> c, tier |-> t, retry |-> retry]

Charge(c, t, parts) ==
    clients' = Put(clients, c,
        [idle |-> 0,
         bucket |-> [Buckets(c).bucket EXCEPT ![t] = [tokens |-> parts, age |-> 0]]])

Admit(sender, c, t) ==
    LET parts == Refilled(Buckets(c).bucket[t], t)
    IN /\ ~IsExempt(c)
       /\ parts >= Minute
       /\ Charge(c, t, parts - Minute)
       /\ verdict' = Answer("admitted", sender, c, t, 0)
       /\ taken' = taken + (IF sender = Watched.ip /\ t = Watched.tier THEN 1 ELSE 0)
       /\ UNCHANGED since

(* Mutant: a refused request costs a token as well. *)
RefuseCharging(sender, c, t) ==
    LET parts == Refilled(Buckets(c).bucket[t], t)
    IN /\ ~IsExempt(c)
       /\ parts < Minute
       /\ Charge(c, t, 0)
       /\ verdict' = Answer("refused", sender, c, t, RetryAfter(parts, t))
       /\ UNCHANGED history

(* a refusal still refills the bucket and makes the client seen *)
Refuse(sender, c, t) ==
    LET parts == Refilled(Buckets(c).bucket[t], t)
    IN /\ ~IsExempt(c)
       /\ parts < Minute
       /\ Charge(c, t, parts)
       /\ verdict' = Answer("refused", sender, c, t, RetryAfter(parts, t))
       /\ UNCHANGED history

LetThrough(sender, c, t) ==
    /\ IsExempt(c)
    /\ verdict' = Answer("exempt", sender, c, t, 0)
    /\ UNCHANGED <<clients, history>>

Check(sender, c, t) ==
    Admit(sender, c, t) \/ Refuse(sender, c, t) \/ LetThrough(sender, c, t)

-----------------------------------------------------------------------------
(* A client connects itself, with whatever headers, or by way of the        *)
(* gateway, which believes only the address it is connected to.             *)
DirectRequest(sender, forwarded, r) ==
    Check(sender, ClientIp(sender, forwarded), ClassifyTier(r))

GatewayRequest(sender, r) ==
    \E host \in Loopback :
        Check(sender, ClientIp(host, ThroughGateway(sender)), ClassifyTier(r))

(* Ages stop at MaxIdle: by then every bucket with a rate is full. *)
Older(n) == IF n < MaxIdle THEN n + 1 ELSE MaxIdle

Aged(cl) == [idle |-> Older(cl.idle),
             bucket |-> [t \in Tiers |-> [cl.bucket[t] EXCEPT !.age = Older(@)]]]

Second ==
    /\ since < MaxWindow
    /\ clients' = [c \in DOMAIN clients |-> Aged(clients[c])]
    /\ since' = since + 1
    /\ UNCHANGED <<verdict, taken>>

(* Mutant: clients are forgotten while a bucket may still be filling. *)
PruneStaleEarly ==
    /\ clients' = Without(clients, {c \in DOMAIN clients : clients[c].idle >= 1})
    /\ UNCHANGED <<verdict, history>>

PruneStale ==
    /\ clients' = Without(clients, {c \in DOMAIN clients : clients[c].idle >= MaxIdle})
    /\ UNCHANGED <<verdict, history>>

(* the count begins anew: any moment may start a window *)
OpenWindow == taken' = 0 /\ since' = 0 /\ UNCHANGED <<clients, verdict>>

Init ==
    /\ clients = << >>
    /\ verdict = [kind |-> "none"]
    /\ taken = 0
    /\ since = 0

Next ==
    \/ \E sender \in Ips, r \in Requests :
        \/ \E forwarded \in Ips \cup {NoIp} : DirectRequest(sender, forwarded, r)
        \/ GatewayRequest(sender, r)
    \/ Second
    \/ PruneStale
    \/ OpenWindow

Spec == Init /\ [][Next]_vars

-----------------------------------------------------------------------------
(* Properties *)

Bucket(t) == [tokens : 0 .. Capacity(t), age : 0 .. MaxIdle]

LimiterTypeOK ==
    /\ DOMAIN clients \subseteq Ips
    /\ \A c \in DOMAIN clients :
        /\ clients[c].idle \in 0 .. MaxIdle
        /\ DOMAIN clients[c].bucket = Tiers
        /\ \A t \in Tiers : clients[c].bucket[t] \in Bucket(t)
    /\ taken \in Nat
    /\ since \in Nat

(* In any window of d seconds, whenever it starts, at most the capacity    *)
(* and d seconds' worth of tokens are admitted from one address in one     *)
(* tier: not more by way of another tier, of headers that name somebody    *)
(* else, of the gateway, or of being forgotten while idle.                 *)
WindowBound ==
    Rpm[Watched.tier] > 0 /\ ~IsExempt(Watched.ip) /\ Watched.ip \notin Loopback =>
        taken * Minute <= Capacity(Watched.tier) + since * Rpm[Watched.tier]

(* A client that does not connect from this host pays for its own requests *)
(* and for nobody else's, directly and through the gateway.                *)
BilledToSender ==
    verdict.kind # "none" /\ verdict.sender \notin Loopback =>
        verdict.ip = verdict.sender

(* What a bucket holds, counting what the next look at it will add. *)
Level == [c \in Ips |-> [t \in Tiers |-> Refilled(Buckets(c).bucket[t], t)]]

Steady == INSTANCE SteadyBuckets WITH level <- Level

(* The lazily refilled, forgetful buckets behave like ones that grow every *)
(* second and are never forgotten: what is admitted, what is refused, and  *)
(* the seconds named in the refusal are the same.                          *)
LimiterIsSteady == Steady!SteadySpec

=============================================================================
