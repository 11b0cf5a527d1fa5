---------------------------- MODULE LimiterProofs ----------------------------
(***************************************************************************)
(* Proofs about what comes in over the network.  About Limiter: its type   *)
(* invariant, who pays for a request, the bound on any window, and that    *)
(* lazily refilled buckets implement steady ones.  About Wire: that what   *)
(* one side writes, the other reads.  Uleb, Number and Packets are         *)
(* recursive functions, and MeasuredRecursion (Sums) gives what each       *)
(* computes from a measure that goes down: the length itself, or that of   *)
(* the sequence.  What is false of some length or stream is then false of  *)
(* a least one, which its recursion refutes.                               *)
(***************************************************************************)
EXTENDS Limiter, Wire, Sums, SequenceTheorems, TLAPS

Rated == \A t \in Tiers : Rpm[t] > 0

(* A client as the type invariant wants it, and a client is never seen      *)
(* before one of its buckets is: what is idle long enough to be forgotten   *)
(* has long been full.                                                      *)
Client(cl) ==
    /\ cl = [idle |-> cl.idle, bucket |-> cl.bucket]
    /\ cl.idle \in 0 .. MaxIdle
    /\ cl.bucket \in [Tiers -> [tokens : Nat, age : 0 .. MaxIdle]]
    /\ \A t \in Tiers : cl.bucket[t].tokens <= Capacity(t)
    /\ \A t \in Tiers : cl.idle <= cl.bucket[t].age

Typed ==
    /\ clients \in [DOMAIN clients -> {clients[c] : c \in DOMAIN clients}]
    /\ DOMAIN clients \subseteq Ips
    /\ \A c \in DOMAIN clients : Client(clients[c])
    /\ taken \in Nat
    /\ since \in Nat

LEMMA CapacityPositive ==
    \A t \in Tiers : Capacity(t) \in Nat /\ Capacity(t) >= Minute
<1> TAKE t \in Tiers
<1> DEFINE r == IF Rpm[t] = 0 THEN 1 ELSE Rpm[t]
<1>1. r \in Nat /\ r >= 1
  BY LimiterAssumption
<1>2. Minute \in Nat
  BY LimiterAssumption
<1> HIDE DEF r
<1>3. Minute * r \in Nat /\ Minute * r >= Minute
  BY <1>1, <1>2
<1> QED
  BY <1>3 DEF Capacity, r

LEMMA RefilledRange ==
    ASSUME NEW t \in Tiers, NEW b, b.tokens \in Nat, b.age \in Nat
    PROVE  Refilled(b, t) \in Nat /\ Refilled(b, t) <= Capacity(t)
<1>1. Rpm[t] \in Nat
  BY LimiterAssumption
<1>2. b.age * Rpm[t] \in Nat
  BY <1>1
<1>3. Capacity(t) \in Nat
  BY CapacityPositive
<1> HIDE DEF Capacity
<1> DEFINE x == b.tokens + b.age * Rpm[t]
<1>4. x \in Nat
  BY <1>2
<1> HIDE DEF x
<1>5. (IF x <= Capacity(t) THEN x ELSE Capacity(t)) \in Nat
      /\ (IF x <= Capacity(t) THEN x ELSE Capacity(t)) <= Capacity(t)
  BY <1>3, <1>4
<1> QED
  BY <1>5 DEF Refilled, x

LEMMA BucketsTyped ==
    ASSUME Typed, NEW c \in Ips
    PROVE  Client(Buckets(c))
<1>1. CASE c \in DOMAIN clients
  BY <1>1 DEF Typed, Buckets
<1>2. CASE c \notin DOMAIN clients
  <2>1. \A t \in Tiers : Capacity(t) \in Nat
    BY CapacityPositive
  <2>2. MaxIdle \in Nat
    BY LimiterAssumption
  <2> QED
    BY <1>2, <2>1, <2>2 DEF Buckets, NewClient, Client
<1> QED
  BY <1>1, <1>2

(* A second more, capped as the ages are. *)
LEMMA OlderRange ==
    ASSUME NEW n \in 0 .. MaxIdle
    PROVE  Older(n) \in 0 .. MaxIdle
BY LimiterAssumption DEF Older

LEMMA AgedTyped ==
    ASSUME NEW cl, Client(cl)
    PROVE  Client(Aged(cl))
<1> DEFINE nb == [t \in Tiers |-> [cl.bucket[t] EXCEPT !.age = Older(@)]]
<1>1. \A t \in Tiers : /\ nb[t] = [tokens |-> cl.bucket[t].tokens,
                                   age |-> Older(cl.bucket[t].age)]
                       /\ Older(cl.bucket[t].age) \in 0 .. MaxIdle
  BY OlderRange DEF Client
<1>2. nb \in [Tiers -> [tokens : Nat, age : 0 .. MaxIdle]]
  BY <1>1 DEF Client
<1>3. \A t \in Tiers : nb[t].tokens <= Capacity(t)
  BY <1>1 DEF Client
<1>4. Aged(cl) = [idle |-> Older(cl.idle), bucket |-> nb]
  BY DEF Aged
<1>5. Older(cl.idle) \in 0 .. MaxIdle
  BY OlderRange DEF Client
<1>6. \A t \in Tiers : Older(cl.idle) <= nb[t].age
  <2> SUFFICES ASSUME NEW t \in Tiers PROVE Older(cl.idle) <= Older(cl.bucket[t].age)
    BY <1>1
  <2>1. /\ cl.idle \in 0 .. MaxIdle /\ cl.bucket[t].age \in 0 .. MaxIdle
        /\ cl.idle <= cl.bucket[t].age
    BY DEF Client
  <2> QED
    BY <2>1, LimiterAssumption DEF Older
<1> QED
  BY <1>2, <1>3, <1>4, <1>5, <1>6 DEF Client

-----------------------------------------------------------------------------
(* What a second adds *)

(* A bucket nobody looked at for a whole minute is full. *)
LEMMA FullWhenOld ==
    ASSUME NEW t \in Tiers, Rpm[t] > 0, NEW b, b.tokens \in Nat,
           b.age \in 0 .. MaxIdle, b.age = MaxIdle
    PROVE  Refilled(b, t) = Capacity(t)
<1> DEFINE r == Rpm[t]
           a == b.age
           n == b.tokens
<1>1. r \in Nat /\ r >= 1 /\ a \in Nat /\ a >= Minute /\ Minute \in Nat /\ n \in Nat
  BY LimiterAssumption
<1>2. Capacity(t) = Minute * r
  BY <1>1 DEF Capacity
<1>3. Refilled(b, t) = IF n + a * r <= Capacity(t) THEN n + a * r ELSE Capacity(t)
  BY DEF Refilled
<1> HIDE DEF r, a, n, Capacity
<1>4. a * r >= Minute * r /\ a * r \in Nat /\ Minute * r \in Nat
  BY <1>1
<1> QED
  BY <1>1, <1>2, <1>3, <1>4

(* The level of a new client is the capacity. *)
LEMMA NewIsFull ==
    ASSUME NEW t \in Tiers
    PROVE  Refilled(NewClient.bucket[t], t) = Capacity(t)
<1>1. Capacity(t) \in Nat /\ 0 * Rpm[t] = 0
  BY CapacityPositive, LimiterAssumption
<1> QED
  BY <1>1 DEF Refilled, NewClient

(* What was just put into a bucket is what it holds. *)
LEMMA JustCharged ==
    ASSUME NEW t \in Tiers, NEW n \in Nat, n <= Capacity(t)
    PROVE  Refilled([tokens |-> n, age |-> 0], t) = n
<1>1. Capacity(t) \in Nat /\ 0 * Rpm[t] = 0
  BY CapacityPositive, LimiterAssumption
<1> QED
  BY <1>1 DEF Refilled

LEMMA AgedLevel ==
    ASSUME NEW t \in Tiers, Rpm[t] > 0, NEW cl, Client(cl)
    PROVE  Refilled(Aged(cl).bucket[t], t) = Steady!Grown(Refilled(cl.bucket[t], t), t)
<1> DEFINE b == cl.bucket[t]
           r == Rpm[t]
           n == b.tokens
           a == b.age
<1>1. /\ n \in Nat /\ a \in 0 .. MaxIdle /\ r \in Nat /\ r >= 1 /\ MaxIdle \in Nat
  BY LimiterAssumption DEF Client
<1>2. Aged(cl).bucket[t] = [tokens |-> n, age |-> Older(a)]
  BY Zenon DEF Aged, Client
<1>3. Capacity(t) \in Nat /\ Steady!Capacity(t) = Capacity(t)
  BY CapacityPositive DEF Steady!Capacity, Capacity
<1>4. CASE a = MaxIdle
  <2>1. Refilled(b, t) = Capacity(t)
    BY <1>1, <1>4, FullWhenOld
  <2>2. Older(a) = MaxIdle
    BY <1>1, <1>4 DEF Older
  <2>3. Refilled([tokens |-> n, age |-> MaxIdle], t) = Capacity(t)
    BY <1>1, FullWhenOld
  <2>4. Steady!Grown(Capacity(t), t) = Capacity(t)
    BY <1>1, <1>3 DEF Steady!Grown
  <2> QED
    BY <1>2, <2>1, <2>2, <2>3, <2>4
<1>5. CASE a < MaxIdle
  <2>1. Older(a) = a + 1
    BY <1>5 DEF Older
  <2>2. (a + 1) * r = a * r + r /\ a * r \in Nat
    BY <1>1
  <2>3. Refilled([tokens |-> n, age |-> a + 1], t) =
            IF n + a * r + r <= Capacity(t) THEN n + a * r + r ELSE Capacity(t)
    <3>1. Refilled([tokens |-> n, age |-> a + 1], t) =
            IF n + (a + 1) * r <= Capacity(t) THEN n + (a + 1) * r ELSE Capacity(t)
      BY DEF Refilled
    <3>2. n + (a + 1) * r = n + a * r + r
      BY <1>1, <2>2
    <3> QED
      BY <3>1, <3>2
  <2>4. Refilled(b, t) = IF n + a * r <= Capacity(t) THEN n + a * r ELSE Capacity(t)
    BY DEF Refilled
  <2> DEFINE x == n + a * r
  <2>5. x \in Nat
    BY <1>1, <2>2
  <2> HIDE DEF x
  <2>6. (IF x + r <= Capacity(t) THEN x + r ELSE Capacity(t)) =
            Steady!Grown(IF x <= Capacity(t) THEN x ELSE Capacity(t), t)
    BY <1>1, <1>3, <2>5 DEF Steady!Grown
  <2> QED
    BY <1>2, <2>1, <2>3, <2>4, <2>6 DEF x
<1> QED
  BY <1>1, <1>4, <1>5

-----------------------------------------------------------------------------
(* How the levels move.  Held is Level one bucket at a time. *)

Held(c, t) == Refilled(Buckets(c).bucket[t], t)

LEMMA LevelIsHeld == Level = [c \in Ips |-> [t \in Tiers |-> Held(c, t)]]
BY DEF Level, Held

LEMMA HeldRange ==
    ASSUME Typed, NEW c \in Ips, NEW t \in Tiers
    PROVE  Held(c, t) \in Nat /\ Held(c, t) <= Capacity(t)
<1>1. Client(Buckets(c))
  BY BucketsTyped
<1>2. Buckets(c).bucket[t].tokens \in Nat /\ Buckets(c).bucket[t].age \in Nat
  BY <1>1, LimiterAssumption DEF Client
<1> QED
  BY <1>2, RefilledRange DEF Held

LEMMA SecondHeld ==
    ASSUME Typed, Second, NEW c \in Ips, NEW t \in Tiers, Rpm[t] > 0
    PROVE  Held(c, t)' = Steady!Grown(Held(c, t), t)
<1>1. CASE c \in DOMAIN clients
  <2>1. Buckets(c)' = Aged(Buckets(c))
    BY <1>1 DEF Second, Buckets
  <2>2. Client(Buckets(c))
    BY BucketsTyped
  <2>3. Held(c, t)' = Refilled(Aged(Buckets(c)).bucket[t], t)
    BY <2>1 DEF Held, Refilled, Capacity
  <2> QED
    BY <2>2, <2>3, AgedLevel DEF Held
<1>2. CASE c \notin DOMAIN clients
  <2>1. Buckets(c)' = NewClient /\ Buckets(c) = NewClient
    BY <1>2 DEF Second, Buckets, NewClient
  <2>2. Held(c, t)' = Capacity(t) /\ Held(c, t) = Capacity(t)
    BY <2>1, NewIsFull DEF Held, Refilled, Capacity
  <2>3. Steady!Grown(Capacity(t), t) = Capacity(t)
    BY CapacityPositive, LimiterAssumption DEF Steady!Grown, Steady!Capacity, Capacity
  <2> QED
    BY <2>2, <2>3
<1> QED
  BY <1>1, <1>2

LEMMA PruneHeld ==
    ASSUME Typed, PruneStale, NEW c \in Ips, NEW t \in Tiers, Rpm[t] > 0
    PROVE  Held(c, t)' = Held(c, t)
<1> DEFINE gone == {d \in DOMAIN clients : clients[d].idle >= MaxIdle}
<1>1. clients' = Without(clients, gone)
  BY DEF PruneStale
<1>2. CASE c \in gone
  <2>1. c \in DOMAIN clients /\ Buckets(c) = clients[c] /\ Client(clients[c])
    BY <1>2 DEF Buckets, Typed
  <2>2. clients[c].bucket[t].age = MaxIdle
    BY <1>2, <2>1, LimiterAssumption, SMTT(20) DEF Client
  <2>3. Held(c, t) = Capacity(t)
    BY <2>1, <2>2, FullWhenOld DEF Held, Client
  <2>4. c \notin DOMAIN clients'
    BY <1>1, <1>2 DEF Without, Restrict
  <2>5. Held(c, t)' = Capacity(t)
    BY <2>4, NewIsFull DEF Held, Buckets, NewClient, Refilled, Capacity
  <2> QED
    BY <2>3, <2>5
<1>3. CASE c \notin gone
  <2>1. Buckets(c)' = Buckets(c)
    BY <1>1, <1>3 DEF Without, Restrict, Buckets, NewClient, Capacity
  <2> QED
    BY <2>1 DEF Held, Refilled, Capacity
<1> QED
  BY <1>2, <1>3

LEMMA ChargeHeld ==
    ASSUME Typed, NEW c \in Ips, NEW t \in Tiers, NEW n \in Nat, n <= Capacity(t),
           Charge(c, t, n)
    PROVE  /\ taken' \in Nat /\ since' \in Nat => Typed'
           /\ \A d \in Ips, u \in Tiers :
                Held(d, u)' = IF d = c /\ u = t THEN n ELSE Held(d, u)
<1> DEFINE nb == [Buckets(c).bucket EXCEPT ![t] = [tokens |-> n, age |-> 0]]
           nc == [idle |-> 0, bucket |-> nb]
<1>1. clients' = Put(clients, c, nc)
  BY DEF Charge
<1>2. Client(Buckets(c)) /\ MaxIdle \in Nat
  BY BucketsTyped, LimiterAssumption
<1>3. \A u \in Tiers : nb[u] = IF u = t THEN [tokens |-> n, age |-> 0]
                               ELSE Buckets(c).bucket[u]
  BY <1>2 DEF Client
<1>4. Client(nc)
  <2>1. nb \in [Tiers -> [tokens : Nat, age : 0 .. MaxIdle]]
    BY <1>2 DEF Client
  <2>2. \A u \in Tiers : nb[u].tokens <= Capacity(u)
    BY <1>2, <1>3 DEF Client
  <2>3. \A u \in Tiers : 0 <= nb[u].age
    BY <2>1
  <2> QED
    BY <1>2, <2>1, <2>2, <2>3 DEF Client
<1>5. /\ DOMAIN clients' = DOMAIN clients \cup {c}
      /\ \A d \in DOMAIN clients' : clients'[d] = IF d = c THEN nc ELSE clients[d]
  BY <1>1 DEF Put
<1>6. ASSUME taken' \in Nat, since' \in Nat PROVE Typed'
  <2>1. \A d \in DOMAIN clients' : Client(clients'[d])
    BY <1>4, <1>5 DEF Typed
  <2>2. clients' \in [DOMAIN clients' -> {clients'[d] : d \in DOMAIN clients'}]
    BY <1>1 DEF Put
  <2>3. \A d \in DOMAIN clients' : Client(clients[d])'
    BY <2>1 DEF Client, Capacity
  <2>4. DOMAIN clients' \subseteq Ips /\ taken' \in Nat /\ since' \in Nat
    BY <1>5, <1>6 DEF Typed
  <2> QED
    BY <2>2, <2>3, <2>4 DEF Typed
<1>7. ASSUME NEW d \in Ips, NEW u \in Tiers
      PROVE  Held(d, u)' = IF d = c /\ u = t THEN n ELSE Held(d, u)
  <2>1. Buckets(d)' = IF d = c THEN nc ELSE Buckets(d)
    BY <1>5 DEF Buckets, NewClient, Capacity
  <2>2. Held(d, u)' = Refilled((IF d = c THEN nc ELSE Buckets(d)).bucket[u], u)
    BY <2>1 DEF Held, Refilled, Capacity
  <2>3. CASE d = c /\ u = t
    BY <1>3, <2>2, <2>3, JustCharged
  <2>4. CASE d = c /\ u # t
    BY <1>3, <2>2, <2>4 DEF Held
  <2>5. CASE d # c
    BY <2>2, <2>5 DEF Held
  <2> QED
    BY <2>3, <2>4, <2>5
<1> QED
  BY <1>6, <1>7

-----------------------------------------------------------------------------
(* The invariant *)

(* The count of a window, with what is still in the bucket, is paid for. *)
Paid ==
    Rpm[Watched.tier] > 0 /\ ~IsExempt(Watched.ip) /\ Watched.ip \notin Loopback =>
        taken * Minute + Held(Watched.ip, Watched.tier)
            <= Capacity(Watched.tier) + since * Rpm[Watched.tier]

LimiterInv == Typed /\ BilledToSender /\ Paid

(* The answer to a request of sender. *)
Billed(sender, c) == sender \notin Loopback => c = sender

LEMMA TierOfRequest == ASSUME NEW r PROVE ClassifyTier(r) \in Tiers
BY DEF ClassifyTier, Tiers

LEMMA RequestIsCheck ==
    ASSUME NEW sender \in Ips, NEW r,
           \/ \E forwarded \in Ips \cup {NoIp} : DirectRequest(sender, forwarded, r)
           \/ GatewayRequest(sender, r)
    PROVE  \E c \in Ips, t \in Tiers : Billed(sender, c) /\ Check(sender, c, t)
<1>1. ASSUME NEW forwarded \in Ips \cup {NoIp}, DirectRequest(sender, forwarded, r)
      PROVE  \E c \in Ips, t \in Tiers : Billed(sender, c) /\ Check(sender, c, t)
  <2>1. ClientIp(sender, forwarded) \in Ips /\ Billed(sender, ClientIp(sender, forwarded))
    BY LimiterAssumption DEF ClientIp, Billed
  <2> QED
    BY <1>1, <2>1, TierOfRequest DEF DirectRequest
<1>2. ASSUME GatewayRequest(sender, r)
      PROVE  \E c \in Ips, t \in Tiers : Billed(sender, c) /\ Check(sender, c, t)
  <2>1. PICK host \in Loopback :
            Check(sender, ClientIp(host, ThroughGateway(sender)), ClassifyTier(r))
    BY <1>2 DEF GatewayRequest
  <2>2. ClientIp(host, ThroughGateway(sender)) = sender
    BY LimiterAssumption DEF ClientIp, ThroughGateway
  <2> QED
    BY <2>1, <2>2, TierOfRequest DEF Billed
<1> QED
  BY <1>1, <1>2

LEMMA AdmitStep ==
    ASSUME LimiterInv, NEW sender \in Ips, NEW c \in Ips, NEW t \in Tiers,
           Billed(sender, c), Admit(sender, c, t)
    PROVE  /\ LimiterInv'
           /\ Held(c, t) >= Minute
           /\ \A d \in Ips, u \in Tiers :
                Held(d, u)' = IF d = c /\ u = t THEN Held(c, t) - Minute ELSE Held(d, u)
<1> DEFINE hit == IF sender = Watched.ip /\ t = Watched.tier THEN 1 ELSE 0
<1>1. /\ Held(c, t) >= Minute
      /\ Charge(c, t, Held(c, t) - Minute)
      /\ verdict' = Answer("admitted", sender, c, t, 0)
      /\ taken' = taken + hit
      /\ since' = since
  BY DEF Admit, Held
<1>2. /\ Typed /\ BilledToSender /\ Paid
      /\ Minute \in Nat \ {0}
      /\ Watched.ip \in Ips /\ Watched.tier \in Tiers
  BY LimiterAssumption DEF LimiterInv
<1>3. Held(c, t) \in Nat /\ Held(c, t) <= Capacity(t) /\ Capacity(t) \in Nat
  BY <1>2, HeldRange, CapacityPositive
<1>4. Held(c, t) - Minute \in Nat /\ Held(c, t) - Minute <= Capacity(t)
  BY <1>1, <1>2, <1>3
<1>5. \A d \in Ips, u \in Tiers :
          Held(d, u)' = IF d = c /\ u = t THEN Held(c, t) - Minute ELSE Held(d, u)
  BY <1>1, <1>2, <1>4, ChargeHeld
<1>6. Typed'
  <2>1. taken' \in Nat /\ since' \in Nat
    BY <1>1, <1>2 DEF Typed
  <2> QED
    BY <1>1, <1>2, <1>4, <2>1, ChargeHeld
<1>7. BilledToSender'
  BY <1>1 DEF BilledToSender, Billed, Answer
<1>8. Paid'
  <2>1. SUFFICES ASSUME Rpm[Watched.tier] > 0, ~IsExempt(Watched.ip),
                        Watched.ip \notin Loopback
                 PROVE  taken' * Minute + Held(Watched.ip, Watched.tier)'
                            <= Capacity(Watched.tier) + since' * Rpm[Watched.tier]
    BY DEF Paid, IsExempt, Capacity
  <2>2. taken * Minute + Held(Watched.ip, Watched.tier)
            <= Capacity(Watched.tier) + since * Rpm[Watched.tier]
    BY <1>2, <2>1 DEF Paid
  <2>3. /\ taken \in Nat /\ since \in Nat /\ Rpm[Watched.tier] \in Nat
        /\ Held(Watched.ip, Watched.tier) \in Nat
        /\ Capacity(Watched.tier) \in Nat
    BY <1>2, HeldRange, CapacityPositive, LimiterAssumption DEF Typed
  <2>4. hit = 1 => c = Watched.ip /\ t = Watched.tier
    BY <2>1 DEF Billed
  <2>5. hit \in {0, 1} /\ taken' * Minute = taken * Minute + hit * Minute
        /\ taken * Minute \in Nat /\ since * Rpm[Watched.tier] \in Nat
    <3>1. hit \in {0, 1}
      OBVIOUS
    <3> HIDE DEF hit
    <3> QED
      BY <1>1, <1>2, <2>3, <3>1
  <2>6. Held(Watched.ip, Watched.tier)' =
            IF Watched.ip = c /\ Watched.tier = t
            THEN Held(Watched.ip, Watched.tier) - Minute ELSE Held(Watched.ip, Watched.tier)
    BY <1>2, <1>5
  <2> HIDE DEF hit
  <2> QED
    BY <1>1, <1>2, <2>2, <2>3, <2>4, <2>5, <2>6
<1> QED
  BY <1>1, <1>5, <1>6, <1>7, <1>8 DEF LimiterInv

LEMMA RefuseStep ==
    ASSUME LimiterInv, NEW sender \in Ips, NEW c \in Ips, NEW t \in Tiers,
           Billed(sender, c), Refuse(sender, c, t)
    PROVE  /\ LimiterInv'
           /\ Held(c, t) < Minute
           /\ \A d \in Ips, u \in Tiers : Held(d, u)' = Held(d, u)
<1>1. /\ Held(c, t) < Minute
      /\ Charge(c, t, Held(c, t))
      /\ verdict' = Answer("refused", sender, c, t, RetryAfter(Held(c, t), t))
      /\ taken' = taken /\ since' = since
  BY DEF Refuse, Held, history
<1>2. Typed /\ BilledToSender /\ Paid /\ Watched.ip \in Ips /\ Watched.tier \in Tiers
  BY LimiterAssumption DEF LimiterInv
<1>3. Held(c, t) \in Nat /\ Held(c, t) <= Capacity(t)
  BY <1>2, HeldRange
<1>4. \A d \in Ips, u \in Tiers : Held(d, u)' = Held(d, u)
  BY <1>1, <1>2, <1>3, ChargeHeld
<1>5. Typed'
  <2>1. taken' \in Nat /\ since' \in Nat
    BY <1>1, <1>2 DEF Typed
  <2> QED
    BY <1>1, <1>2, <1>3, <2>1, ChargeHeld
<1>6. BilledToSender'
  BY <1>1 DEF BilledToSender, Billed, Answer
<1>7. Paid'
  <2>1. Held(Watched.ip, Watched.tier)' = Held(Watched.ip, Watched.tier)
    BY <1>2, <1>4
  <2> QED
    BY <1>1, <1>2, <2>1 DEF Paid, IsExempt, Capacity
<1> QED
  BY <1>1, <1>4, <1>5, <1>6, <1>7 DEF LimiterInv

LEMMA SecondStep ==
    ASSUME LimiterInv, Second
    PROVE  LimiterInv'
<1>1. /\ clients' = [c \in DOMAIN clients |-> Aged(clients[c])]
      /\ since' = since + 1 /\ taken' = taken /\ verdict' = verdict
  BY DEF Second
<1>2. Typed /\ BilledToSender /\ Paid /\ Watched.ip \in Ips /\ Watched.tier \in Tiers
  BY LimiterAssumption DEF LimiterInv
<1>3. Typed'
  <2>1. DOMAIN clients' = DOMAIN clients /\ \A c \in DOMAIN clients' : Client(clients'[c])
    BY <1>1, <1>2, AgedTyped DEF Typed
  <2>2. clients' \in [DOMAIN clients' -> {clients'[c] : c \in DOMAIN clients'}]
    BY <1>1
  <2>3. \A c \in DOMAIN clients' : Client(clients[c])'
    BY <2>1 DEF Client, Capacity
  <2> QED
    BY <1>1, <1>2, <2>1, <2>2, <2>3 DEF Typed
<1>4. Paid'
  <2>1. SUFFICES ASSUME Rpm[Watched.tier] > 0, ~IsExempt(Watched.ip),
                        Watched.ip \notin Loopback
                 PROVE  taken' * Minute + Held(Watched.ip, Watched.tier)'
                            <= Capacity(Watched.tier) + since' * Rpm[Watched.tier]
    BY DEF Paid, IsExempt, Capacity
  <2> DEFINE h == Held(Watched.ip, Watched.tier)
             r == Rpm[Watched.tier]
             k == taken * Minute
  <2>2. k + h <= Capacity(Watched.tier) + since * r
    BY <1>2, <2>1 DEF Paid
  <2>3. Held(Watched.ip, Watched.tier)' = Steady!Grown(h, Watched.tier)
    BY <1>2, <2>1, SecondHeld
  <2>4. /\ h \in Nat /\ h <= Capacity(Watched.tier) /\ Capacity(Watched.tier) \in Nat
        /\ r \in Nat /\ since \in Nat /\ taken \in Nat /\ Minute \in Nat
    BY <1>2, HeldRange, CapacityPositive, LimiterAssumption DEF Typed
  <2>5. Steady!Grown(h, Watched.tier) <= h + r /\ Steady!Grown(h, Watched.tier) \in Nat
    <3>1. Steady!Capacity(Watched.tier) = Capacity(Watched.tier)
      BY DEF Steady!Capacity, Capacity
    <3> HIDE DEF h
    <3> QED
      BY <2>4, <3>1 DEF Steady!Grown
  <2>6. (since + 1) * r = since * r + r /\ since * r \in Nat /\ k \in Nat
    BY <2>4
  <2> HIDE DEF h, k, r
  <2>7. k + Steady!Grown(h, Watched.tier) <= Capacity(Watched.tier) + (since + 1) * r
    BY <2>2, <2>4, <2>5, <2>6
  <2> QED
    BY <1>1, <2>3, <2>7 DEF h, k, r
<1> QED
  BY <1>1, <1>2, <1>3, <1>4 DEF LimiterInv, BilledToSender

LEMMA PruneStep ==
    ASSUME LimiterInv, PruneStale
    PROVE  LimiterInv'
<1>1. /\ clients' = Without(clients, {c \in DOMAIN clients : clients[c].idle >= MaxIdle})
      /\ since' = since /\ taken' = taken /\ verdict' = verdict
  BY DEF PruneStale, history
<1>2. Typed /\ BilledToSender /\ Paid /\ Watched.ip \in Ips /\ Watched.tier \in Tiers
  BY LimiterAssumption DEF LimiterInv
<1>3. Typed'
  <2>1. /\ DOMAIN clients' \subseteq DOMAIN clients
        /\ \A c \in DOMAIN clients' : clients'[c] = clients[c]
        /\ clients' \in [DOMAIN clients' -> {clients'[c] : c \in DOMAIN clients'}]
    BY <1>1 DEF Without, Restrict
  <2>2. \A c \in DOMAIN clients' : Client(clients[c])'
    BY <1>2, <2>1 DEF Typed, Client, Capacity
  <2> QED
    BY <1>1, <1>2, <2>1, <2>2 DEF Typed
<1>4. Paid'
  <2>1. Rpm[Watched.tier] > 0 =>
            Held(Watched.ip, Watched.tier)' = Held(Watched.ip, Watched.tier)
    BY <1>2, PruneHeld
  <2> QED
    BY <1>1, <1>2, <2>1 DEF Paid, IsExempt, Capacity
<1> QED
  BY <1>1, <1>2, <1>3, <1>4 DEF LimiterInv, BilledToSender

LEMMA OpenWindowStep ==
    ASSUME LimiterInv, OpenWindow
    PROVE  LimiterInv' /\ UNCHANGED <<clients, verdict>>
<1>1. taken' = 0 /\ since' = 0 /\ clients' = clients /\ verdict' = verdict
  BY DEF OpenWindow
<1>2. Typed /\ BilledToSender /\ Watched.ip \in Ips /\ Watched.tier \in Tiers
  BY LimiterAssumption DEF LimiterInv
<1>3. Typed' /\ BilledToSender'
  BY <1>1, <1>2 DEF Typed, Client, Capacity, BilledToSender
<1>4. Paid'
  <2>1. /\ Held(Watched.ip, Watched.tier)' = Held(Watched.ip, Watched.tier)
        /\ Held(Watched.ip, Watched.tier) <= Capacity(Watched.tier)
        /\ Held(Watched.ip, Watched.tier) \in Nat
        /\ Capacity(Watched.tier) \in Nat
    BY <1>1, <1>2, HeldRange, CapacityPositive
       DEF Held, Buckets, Refilled, NewClient, Capacity
  <2>2. 0 * Minute = 0 /\ 0 * Rpm[Watched.tier] = 0
    BY <1>2, LimiterAssumption
  <2>3. 0 * Minute + Held(Watched.ip, Watched.tier)'
            <= Capacity(Watched.tier) + 0 * Rpm[Watched.tier]
    BY <2>1, <2>2
  <2> QED
    BY <1>1, <2>3 DEF Paid, IsExempt, Capacity
<1> QED
  BY <1>1, <1>3, <1>4 DEF LimiterInv

LEMMA LetThroughStep ==
    ASSUME LimiterInv, NEW sender \in Ips, NEW c \in Ips, NEW t \in Tiers,
           Billed(sender, c), LetThrough(sender, c, t)
    PROVE  LimiterInv' /\ UNCHANGED clients /\ verdict'.kind = "exempt"
<1>1. /\ verdict' = Answer("exempt", sender, c, t, 0)
      /\ clients' = clients /\ taken' = taken /\ since' = since
  BY DEF LetThrough, history
<1> QED
  BY <1>1 DEF LimiterInv, Typed, Client, Capacity, BilledToSender, Billed, Answer,
              Paid, IsExempt, Held, Buckets, NewClient, Refilled

LEMMA InitInv == Init => LimiterInv
<1> SUFFICES ASSUME Init PROVE LimiterInv
  OBVIOUS
<1>1. clients = << >> /\ taken = 0 /\ since = 0 /\ verdict.kind = "none"
  BY DEF Init
<1>2. Typed
  BY <1>1 DEF Typed
<1>3. Paid
  <2>1. Watched.ip \in Ips /\ Watched.tier \in Tiers
    BY LimiterAssumption
  <2>2. /\ Held(Watched.ip, Watched.tier) <= Capacity(Watched.tier)
        /\ Held(Watched.ip, Watched.tier) \in Nat
        /\ Capacity(Watched.tier) \in Nat
    BY <1>2, <2>1, HeldRange, CapacityPositive
  <2>3. 0 * Minute = 0 /\ 0 * Rpm[Watched.tier] = 0
    BY <2>1, LimiterAssumption
  <2> QED
    BY <1>1, <2>2, <2>3 DEF Paid
<1> QED
  BY <1>1, <1>2, <1>3 DEF LimiterInv, BilledToSender

LEMMA NextInv == LimiterInv /\ [Next]_vars => LimiterInv'
<1> SUFFICES ASSUME LimiterInv, [Next]_vars PROVE LimiterInv'
  OBVIOUS
<1>1. ASSUME NEW sender \in Ips, NEW r \in Requests,
             \/ \E forwarded \in Ips \cup {NoIp} : DirectRequest(sender, forwarded, r)
             \/ GatewayRequest(sender, r)
      PROVE  LimiterInv'
  <2>1. PICK c \in Ips, t \in Tiers : Billed(sender, c) /\ Check(sender, c, t)
    BY <1>1, RequestIsCheck
  <2> QED
    BY <2>1, AdmitStep, RefuseStep, LetThroughStep DEF Check
<1>2. ASSUME UNCHANGED vars PROVE LimiterInv'
  BY <1>2 DEF vars, history, LimiterInv, Typed, Client, Capacity, BilledToSender,
              Paid, IsExempt, Held, Buckets, NewClient, Refilled
<1> QED
  BY <1>1, <1>2, SecondStep, PruneStep, OpenWindowStep DEF Next

(* Every bucket stays within its capacity and every age within its bound.   *)
THEOREM LimiterTyped == Spec => []LimiterTypeOK
<1>1. LimiterInv => LimiterTypeOK
  <2> SUFFICES ASSUME LimiterInv PROVE LimiterTypeOK
    OBVIOUS
  <2>1. ASSUME NEW c \in DOMAIN clients
        PROVE  /\ clients[c].idle \in 0 .. MaxIdle
               /\ DOMAIN clients[c].bucket = Tiers
               /\ \A t \in Tiers : clients[c].bucket[t] \in Bucket(t)
    <3>1. Client(clients[c])
      BY DEF LimiterInv, Typed
    <3>2. \A t \in Tiers : Capacity(t) \in Nat
      BY CapacityPositive
    <3> QED
      BY <3>1, <3>2 DEF Client, Bucket
  <2> QED
    BY <2>1 DEF LimiterInv, Typed, LimiterTypeOK
<1> QED
  BY <1>1, InitInv, NextInv, PTL DEF Spec

(* Whoever does not connect from this host is charged for its own requests. *)
THEOREM SenderPays == Spec => []BilledToSender
<1>1. LimiterInv => BilledToSender
  BY DEF LimiterInv
<1> QED
  BY <1>1, InitInv, NextInv, PTL DEF Spec

(* No window of requests exceeds the capacity and what its seconds add.     *)
THEOREM WindowsBounded == Spec => []WindowBound
<1>1. LimiterInv => WindowBound
  <2> SUFFICES ASSUME LimiterInv, Rpm[Watched.tier] > 0, ~IsExempt(Watched.ip),
                      Watched.ip \notin Loopback
               PROVE  taken * Minute <= Capacity(Watched.tier) + since * Rpm[Watched.tier]
    BY DEF WindowBound
  <2>1. taken * Minute + Held(Watched.ip, Watched.tier)
            <= Capacity(Watched.tier) + since * Rpm[Watched.tier]
    BY DEF LimiterInv, Paid
  <2>2. /\ Held(Watched.ip, Watched.tier) \in Nat /\ Capacity(Watched.tier) \in Nat
        /\ taken \in Nat /\ since \in Nat /\ Minute \in Nat /\ Rpm[Watched.tier] \in Nat
    BY HeldRange, CapacityPositive, LimiterAssumption DEF LimiterInv, Typed
  <2>3. taken * Minute \in Nat /\ since * Rpm[Watched.tier] \in Nat
    BY <2>2
  <2> QED
    BY <2>1, <2>2, <2>3
<1> QED
  BY <1>1, InitInv, NextInv, PTL DEF Spec

-----------------------------------------------------------------------------
(* The refinement *)

(* The seconds of a refusal are the first after which a token is there. *)
LEMMA RetryIsFirst ==
    ASSUME NEW t \in Tiers, Rpm[t] > 0, NEW n \in Nat, n < Minute
    PROVE  /\ n + RetryAfter(n, t) * Rpm[t] >= Minute
           /\ n + (RetryAfter(n, t) - 1) * Rpm[t] < Minute
<1> DEFINE r == Rpm[t]
           x == Minute - n + r - 1
           q == x \div r
<1>1. r \in Nat /\ r > 0 /\ Minute \in Nat /\ x \in Nat
  BY LimiterAssumption
<1>2. RetryAfter(n, t) = q
  BY <1>1 DEF RetryAfter
<1> HIDE DEF r, x
<1>3. q \in Nat /\ r * q <= x /\ x < r * q + r
  BY <1>1
<1> HIDE DEF q
<1>4. q * r = r * q /\ (q - 1) * r = r * q - r /\ r * q \in Nat
  BY <1>1, <1>3
<1>5. n + q * r >= Minute /\ n + (q - 1) * r < Minute
  BY <1>1, <1>3, <1>4 DEF x
<1> QED
  BY <1>2, <1>5 DEF r

(* With a rate in every tier, the buckets of the code implement steady      *)
(* ones: refilling late and forgetting idle clients cannot be noticed.      *)
THEOREM ImplementsSteady == ASSUME Rated PROVE Spec => LimiterIsSteady
<1>1. Init => Steady!SteadyInit
  <2> SUFFICES ASSUME Init PROVE Steady!SteadyInit
    OBVIOUS
  <2>1. \A c \in Ips, t \in Tiers : Held(c, t) = Steady!Capacity(t)
    BY NewIsFull DEF Init, Held, Buckets, Capacity, Steady!Capacity
  <2> QED
    BY <2>1, LevelIsHeld DEF Init, Steady!SteadyInit
<1>2. LimiterInv /\ [Next]_vars => [Steady!SteadyNext]_<<Level, verdict>>
  <2> SUFFICES ASSUME LimiterInv, [Next]_vars
               PROVE  [Steady!SteadyNext]_<<Level, verdict>>
    OBVIOUS
  <2>0. Typed
    BY DEF LimiterInv
  <2>a. /\ Level = [c \in Ips |-> [t \in Tiers |-> Held(c, t)]]
        /\ Level' = [c \in Ips |-> [t \in Tiers |-> Held(c, t)']]
    BY Zenon DEF Level, Held, Refilled, Buckets, NewClient, Capacity
  <2>1. ASSUME NEW sender \in Ips, NEW r \in Requests,
               \/ \E forwarded \in Ips \cup {NoIp} : DirectRequest(sender, forwarded, r)
               \/ GatewayRequest(sender, r)
        PROVE  Steady!SteadyNext
    <3>1. PICK c \in Ips, t \in Tiers : Billed(sender, c) /\ Check(sender, c, t)
      BY <2>1, RequestIsCheck
    <3>2. ASSUME Admit(sender, c, t) PROVE Steady!Grant(c, t)
      <4>1. /\ Held(c, t) >= Minute
            /\ \A d \in Ips, u \in Tiers :
                  Held(d, u)' = IF d = c /\ u = t THEN Held(c, t) - Minute ELSE Held(d, u)
        BY <3>1, <3>2, AdmitStep
      <4>2. Level[c][t] = Held(c, t)
        BY <2>a
      <4>3. Level' = [Level EXCEPT ![c][t] = @ - Minute]
        <5>1. Level' = [d \in Ips |-> [u \in Tiers |->
                            IF d = c /\ u = t THEN Held(c, t) - Minute ELSE Held(d, u)]]
          BY <2>a, <4>1
        <5> QED
          BY <2>a, <4>2, <5>1
      <4>4. verdict'.kind = "admitted"
        BY <3>2 DEF Admit, Answer
      <4> QED
        BY <4>1, <4>2, <4>3, <4>4 DEF Steady!Grant
    <3>3. ASSUME Refuse(sender, c, t) PROVE Steady!Deny(c, t)
      <4>1. /\ Held(c, t) < Minute /\ Held(c, t) \in Nat
            /\ \A d \in Ips, u \in Tiers : Held(d, u)' = Held(d, u)
        BY <2>0, <3>1, <3>3, RefuseStep, HeldRange
      <4>2. Level[c][t] = Held(c, t) /\ Level' = Level
        BY <2>a, <4>1
      <4>3. verdict'.kind = "refused" /\ verdict'.retry = RetryAfter(Held(c, t), t)
        BY <3>3 DEF Refuse, Answer, Held
      <4>4. Rpm[t] > 0
        BY DEF Rated
      <4> QED
        BY <4>1, <4>2, <4>3, <4>4, RetryIsFirst DEF Steady!Deny
    <3>4. ASSUME LetThrough(sender, c, t) PROVE Steady!Exempt
      BY <3>1, <3>4, LetThroughStep
         DEF Steady!Exempt, Level, Buckets, NewClient, Refilled, Capacity
    <3> QED
      BY <3>1, <3>2, <3>3, <3>4 DEF Check, Steady!SteadyNext
  <2>2. ASSUME Second PROVE Steady!SteadyNext
    <3>1. \A c \in Ips, t \in Tiers : Held(c, t)' = Steady!Grown(Held(c, t), t)
      BY <2>0, <2>2, SecondHeld DEF Rated
    <3>2. Level' = [c \in Ips |-> [t \in Tiers |-> Steady!Grown(Level[c][t], t)]]
      BY <2>a, <3>1
    <3>3. verdict' = verdict
      BY <2>2 DEF Second
    <3> QED
      BY <3>2, <3>3 DEF Steady!Second, Steady!SteadyNext
  <2>3. ASSUME PruneStale PROVE UNCHANGED <<Level, verdict>>
    <3>1. \A c \in Ips, t \in Tiers : Held(c, t)' = Held(c, t)
      BY <2>0, <2>3, PruneHeld DEF Rated
    <3> QED
      BY <2>3, <2>a, <3>1 DEF PruneStale
  <2>4. ASSUME UNCHANGED <<clients, verdict>> PROVE UNCHANGED <<Level, verdict>>
    BY <2>4 DEF Level, Buckets, NewClient, Refilled, Capacity
  <2>5. ASSUME OpenWindow PROVE UNCHANGED <<Level, verdict>>
    BY <2>4, <2>5 DEF OpenWindow
  <2>6. ASSUME UNCHANGED vars PROVE UNCHANGED <<Level, verdict>>
    BY <2>4, <2>6 DEF vars
  <2> QED
    BY <2>1, <2>2, <2>3, <2>5, <2>6 DEF Next
<1> QED
  BY <1>1, <1>2, InitInv, NextInv, PTL DEF Spec, LimiterIsSteady, Steady!SteadySpec

-----------------------------------------------------------------------------
(* Packets.  Lengths are digits, and digits say lengths. *)

(* n of n divided by Half: what is left over is a digit, and the rest is   *)
(* less.                                                                   *)
LEMMA DivMod ==
    ASSUME NEW n \in Nat
    PROVE  /\ n \div Half \in Nat
           /\ n % Half \in 0 .. Half - 1
           /\ n = Half * (n \div Half) + (n % Half)
           /\ n >= Half => n \div Half < n
<1>1. Half \in Nat /\ Half >= 2
  BY WireAssumption
<1>2. /\ n \div Half \in Int
      /\ n % Half \in 0 .. Half - 1
      /\ n = Half * (n \div Half) + (n % Half)
  BY <1>1
<1>3. PICK q \in Int, r \in 0 .. Half - 1 : q = n \div Half /\ r = n % Half
  BY <1>2
<1>4. n = Half * q + r
  BY <1>2, <1>3
<1>5. q >= 0
  <2>1. SUFFICES ASSUME q <= -1 PROVE FALSE
    BY <1>3
  <2>2. Half * q <= -Half
    BY <1>1, <2>1
  <2> QED
    BY <1>1, <1>3, <1>4, <2>2
<1>6. n >= Half => q < n
  <2>1. SUFFICES ASSUME n >= Half, q >= n PROVE FALSE
    BY <1>3
  <2>2. Half * q >= 2 * q
    BY <1>1, <1>5
  <2> QED
    BY <1>1, <1>3, <1>4, <2>1, <2>2
<1> QED
  BY <1>2, <1>3, <1>5, <1>6

(* What a digit says, marked or not. *)
LEMMA LowDigit ==
    ASSUME NEW r \in 0 .. Half - 1
    PROVE  (Half + r) % Half = r /\ r % Half = r
<1>1. Half \in Nat /\ Half >= 2
  BY WireAssumption
<1>2. r % Half = r
  BY <1>1
<1>3. (Half + r) % Half = r
  BY <1>1
<1> QED
  BY <1>2, <1>3

(* A length gets shorter by its lowest digit. *)
LEMMA UlebDescends ==
    Descends(Nat, [n \in Nat |-> n], [n \in Nat |-> n \div Half], {n \in Nat : n < Half})
<1>1. \A n \in Nat : n \div Half \in Nat /\ (n >= Half => n \div Half < n)
  BY DivMod
<1> QED
  BY <1>1, WireAssumption DEF Descends

(* Uleb is what its definition says, and a sequence of digits. *)
LEMMA UlebRecurses ==
    /\ Uleb \in [Nat -> Seq(Nat)]
    /\ \A n \in Nat : Uleb[n] = IF n < Half THEN <<n>> ELSE <<Half + (n % Half)>> \o Uleb[n \div Half]
<1> DEFINE V == Seq(Nat)
           m == [n \in Nat |-> n]
           next == [n \in Nat |-> n \div Half]
           last == {n \in Nat : n < Half}
           base == [n \in Nat |-> <<n>>]
           comb == [n \in Nat |-> [v \in V |-> <<Half + (n % Half)>> \o v]]
           Body(f) == [n \in Nat |-> IF n < Half THEN <<n>> ELSE <<Half + (n % Half)>> \o f[n \div Half]]
<1>1. Descends(Nat, m, next, last)
  BY UlebDescends
<1>2. \A n \in Nat : base[n] \in V
  OBVIOUS
<1>3. \A n \in Nat, v \in V : comb[n][v] \in V /\ comb[n][v] = <<Half + (n % Half)>> \o v
  <2>1. \A n \in Nat : Half + (n % Half) \in Nat
    BY DivMod, WireAssumption
  <2> QED
    BY <2>1, SMTT(20)
<1>4. PICK f \in [Nat -> V] : Obeys(f, next, last, base, comb)
  <2>1. StaysIn(Nat, V, base, comb)
    BY <1>2, <1>3 DEF StaysIn
  <2> HIDE DEF V, m, next, last, base, comb
  <2> QED
    BY <1>1, <2>1, MeasuredRecursion
<1>5. \A n \in Nat : f[n] = IF n < Half THEN <<n>> ELSE <<Half + (n % Half)>> \o f[n \div Half]
  <2> TAKE n \in Nat
  <2>1. n \div Half \in Nat
    BY DivMod
  <2>2. f[n \div Half] \in V
    BY <2>1
  <2>3. f[n] = IF n \in last THEN base[n] ELSE comb[n][f[next[n]]]
    BY <1>4 DEF Obeys
  <2> HIDE DEF V
  <2> QED
    BY <2>2, <2>3
<1>6. f = Body(f)
  BY <1>5
<1>7. Uleb = Body(Uleb)
  <2> HIDE DEF V
  <2> QED
    BY <1>6, Zenon DEF Uleb
<1>8. \A n \in Nat : Uleb[n] = IF n < Half THEN <<n>> ELSE <<Half + (n % Half)>> \o Uleb[n \div Half]
  BY <1>7
<1>9. Carries(Nat, V, next, last, Uleb)
  <2> SUFFICES ASSUME NEW n \in Nat
               PROVE  /\ n \in last => Uleb[n] \in V
                      /\ n \notin last /\ Uleb[next[n]] \in V => Uleb[n] \in V
    BY DEF Carries
  <2>1. n \in last => Uleb[n] = base[n]
    BY <1>8
  <2>2. n \notin last => Uleb[n] = <<Half + (n % Half)>> \o Uleb[next[n]]
    BY <1>8
  <2> HIDE DEF V, next, last, base, comb
  <2> QED
    BY <1>2, <1>3, <2>1, <2>2
<1>10. \A n \in Nat : Uleb[n] \in V
  <2> HIDE DEF V, m, next, last
  <2> QED
    BY <1>1, <1>9, RangeByRecursion
<1> QED
  BY <1>7, <1>8, <1>10

(* Reading one digit leaves fewer. *)
LEMMA TailShorter ==
    ASSUME NEW s \in Seq(Int), s # << >>
    PROVE  Tail(s) \in Seq(Int) /\ Len(Tail(s)) < Len(s)
<1>1. Len(s) # 0
  BY EmptySeq
<1> QED
  BY <1>1, HeadTailProperties

(* Number is what its definition says, and a number. *)
LEMMA NumberRecurses ==
    /\ Number \in [Seq(Int) -> Int]
    /\ \A s \in Seq(Int) :
          Number[s] = IF s = << >> THEN 0 ELSE (s[1] % Half) + Half * Number[Tail(s)]
<1> DEFINE D == Seq(Int)
           m == [s \in D |-> Len(s)]
           next == [s \in D |-> Tail(s)]
           last == {<< >>}
           base == [s \in D |-> 0]
           comb == [s \in D |-> [v \in Int |-> IF s = << >> THEN 0 ELSE (s[1] % Half) + Half * v]]
           Body(f) == [s \in D |-> IF s = << >> THEN 0 ELSE (s[1] % Half) + Half * f[Tail(s)]]
<1>1. Descends(D, m, next, last)
  BY TailShorter DEF Descends
<1>2. \A s \in D, v \in Int : s # << >> => (s[1] % Half) + Half * v \in Int
  <2> SUFFICES ASSUME NEW s \in D, NEW v \in Int, s # << >>
               PROVE  (s[1] % Half) + Half * v \in Int
    OBVIOUS
  <2>1. s[1] \in Int
    BY EmptySeq, ElementOfSeq
  <2>2. s[1] % Half \in Int
    BY <2>1, WireAssumption
  <2> QED
    BY <2>2, WireAssumption
<1>3. StaysIn(D, Int, base, comb)
  BY <1>2 DEF StaysIn
<1>4. PICK f \in [D -> Int] : Obeys(f, next, last, base, comb)
  <2> HIDE DEF D, m, next, last, base, comb
  <2> QED
    BY <1>1, <1>3, MeasuredRecursion
<1>5. \A s \in D : f[s] = IF s = << >> THEN 0 ELSE (s[1] % Half) + Half * f[Tail(s)]
  <2> TAKE s \in D
  <2>1. f[s] = IF s \in last THEN base[s] ELSE comb[s][f[next[s]]]
    BY <1>4 DEF Obeys
  <2>2. s # << >> => f[Tail(s)] \in Int
    BY TailShorter
  <2> QED
    BY <2>1, <2>2
<1>6. f = Body(f)
  BY <1>5
<1>7. Number = Body(Number)
  <2> HIDE DEF D
  <2>1. \E g : g = Body(g)
    BY <1>6
  <2> QED
    BY <2>1, Zenon DEF Number, D
<1>8. \A s \in D : Number[s] = IF s = << >> THEN 0 ELSE (s[1] % Half) + Half * Number[Tail(s)]
  BY <1>7
<1>9. Carries(D, Int, next, last, Number)
  <2> SUFFICES ASSUME NEW s \in D
               PROVE  /\ s \in last => Number[s] \in Int
                      /\ s \notin last /\ Number[next[s]] \in Int => Number[s] \in Int
    BY DEF Carries
  <2>1. s \in last => Number[s] = 0
    BY <1>8
  <2>2. s \notin last => s # << >> /\ Number[s] = (s[1] % Half) + Half * Number[next[s]]
    BY <1>8
  <2>3. ASSUME s # << >>, NEW v \in Int PROVE (s[1] % Half) + Half * v \in Int
    BY <1>2, <2>3
  <2> HIDE DEF D, next, last
  <2>4. s \notin last /\ Number[next[s]] \in Int => Number[s] \in Int
    BY <2>2, <2>3, Zenon
  <2> QED
    BY <2>1, <2>4
<1>10. \A s \in D : Number[s] \in Int
  <2> HIDE DEF D, m, next, last
  <2> QED
    BY <1>1, <1>9, RangeByRecursion
<1> QED
  BY <1>7, <1>8, <1>10

(* what is read of the packets first in s *)
Whole(s) == Len(s) >= 2 /\ s[2] \in 0 .. Len(s) - 2

(* the first of them, *)
PacketIn(s) == [id |-> s[1], payload |-> SubSeq(s, 3, 2 + s[2])]

(* and what is left behind it *)
Behind(s) == Drop(s, 2 + s[2])

(* What is left without the first n. *)
LEMMA DropProperties ==
    ASSUME NEW s \in Seq(Int), NEW n \in 0 .. Len(s)
    PROVE  /\ Drop(s, n) \in Seq(Int)
           /\ Len(Drop(s, n)) = Len(s) - n
           /\ \A i \in 1 .. Len(s) - n : Drop(s, n)[i] = s[n + i]
<1>1. n + 1 \in 1 .. Len(s) + 1 /\ Len(s) \in n + 1 - 1 .. Len(s)
  OBVIOUS
<1> QED
  BY <1>1, SubSeqProperties DEF Drop

(* Packets is what its definition says: the first packet, if it is there   *)
(* as a whole, and those behind it.                                        *)
LEMMA PacketsRecurses ==
    /\ Packets \in [Seq(Int) -> Seq([id : Int, payload : Seq(Int)])]
    /\ \A s \in Seq(Int) :
          Packets[s] = IF ~ Whole(s) THEN << >> ELSE <<PacketIn(s)>> \o Packets[Behind(s)]
<1> DEFINE D == Seq(Int)
           P == [id : Int, payload : D]
           V == Seq(P)
           m == [s \in D |-> Len(s)]
           next == [s \in D |-> Behind(s)]
           last == {s \in D : ~ Whole(s)}
           base == [s \in D |-> << >>]
           comb == [s \in D |-> [v \in V |-> IF ~ Whole(s) THEN << >> ELSE <<PacketIn(s)>> \o v]]
           Body(f) == [s \in D |-> IF ~ Whole(s) THEN << >> ELSE <<PacketIn(s)>> \o f[Behind(s)]]
<1>1. \A s \in D : Whole(s) => Behind(s) \in D /\ Len(Behind(s)) < Len(s)
  <2> SUFFICES ASSUME NEW s \in D, Whole(s)
               PROVE  Behind(s) \in D /\ Len(Behind(s)) < Len(s)
    OBVIOUS
  <2>1. PICK n : n = 2 + s[2]
    OBVIOUS
  <2>2. Len(s) \in Nat /\ n \in 0 .. Len(s) /\ n > 0
    BY <2>1, LenProperties DEF Whole
  <2>3. Drop(s, n) \in D /\ Len(Drop(s, n)) = Len(s) - n
    BY <2>2, DropProperties
  <2> QED
    BY <2>1, <2>2, <2>3 DEF Behind
<1>2. \A s \in D : Whole(s) => PacketIn(s) \in P
  <2> SUFFICES ASSUME NEW s \in D, Whole(s) PROVE PacketIn(s) \in P
    OBVIOUS
  <2>1. s[1] \in Int
    BY ElementOfSeq DEF Whole
  <2>2. SubSeq(s, 3, 2 + s[2]) \in D
    <3>1. 3 \in 1 .. Len(s) + 1 /\ 2 + s[2] \in 3 - 1 .. Len(s)
      BY DEF Whole
    <3> QED
      BY <3>1, SubSeqProperties
  <2> QED
    BY <2>1, <2>2 DEF PacketIn
<1>3. \A s \in D, v \in V : Whole(s) => <<PacketIn(s)>> \o v \in V
  <2> HIDE DEF P, D
  <2> QED
    BY <1>2
<1>4. Descends(D, m, next, last)
  <2> HIDE DEF D
  <2> QED
    BY <1>1, LenProperties DEF Descends, D
<1>5. StaysIn(D, V, base, comb)
  <2>1. << >> \in V
    OBVIOUS
  <2> HIDE DEF V, D
  <2> QED
    BY <1>3, <2>1 DEF StaysIn
<1>6. PICK f \in [D -> V] : Obeys(f, next, last, base, comb)
  <2> HIDE DEF V, D, m, next, last, base, comb
  <2> QED
    BY <1>4, <1>5, MeasuredRecursion
<1>7. \A s \in D : f[s] = IF ~ Whole(s) THEN << >> ELSE <<PacketIn(s)>> \o f[Behind(s)]
  <2> TAKE s \in D
  <2>1. f[s] = IF s \in last THEN base[s] ELSE comb[s][f[next[s]]]
    BY <1>6 DEF Obeys
  <2>2. Whole(s) => f[Behind(s)] \in V
    BY <1>1
  <2> HIDE DEF D, V
  <2> QED
    BY <2>1, <2>2
<1>8. f = Body(f)
  BY <1>7
<1>9. Packets = Body(Packets)
  <2> DEFINE Code(g) == [s \in D |->
                 IF Len(s) < 2 \/ s[2] \notin 0 .. Len(s) - 2 THEN << >>
                 ELSE <<[id |-> s[1], payload |-> SubSeq(s, 3, 2 + s[2])]>> \o g[Drop(s, 2 + s[2])]]
  <2>1. \A g : Code(g) = Body(g)
    <3> TAKE g
    <3>1. \A s \in D : Whole(s) <=> ~ (Len(s) < 2 \/ s[2] \notin 0 .. Len(s) - 2)
      BY DEF Whole
    <3> QED
      BY <3>1 DEF PacketIn, Behind
  <2>2. f = Code(f)
    BY <1>8, <2>1
  <2>3. Packets = Code(Packets)
    <3> HIDE DEF V, D
    <3>1. \E g : g = Code(g)
      BY <2>2
    <3> QED
      BY <3>1, Zenon DEF Packets, D
  <2> QED
    BY <2>1, <2>3
<1>10. \A s \in D : Packets[s] = IF ~ Whole(s) THEN << >> ELSE <<PacketIn(s)>> \o Packets[Behind(s)]
  BY <1>9
<1>11. Carries(D, V, next, last, Packets)
  <2> SUFFICES ASSUME NEW s \in D
               PROVE  /\ s \in last => Packets[s] \in V
                      /\ s \notin last /\ Packets[next[s]] \in V => Packets[s] \in V
    BY DEF Carries
  <2>1. s \in last => Packets[s] = << >>
    BY <1>10
  <2>2. s \notin last => Packets[s] = <<PacketIn(s)>> \o Packets[next[s]] /\ Whole(s)
    BY <1>10
  <2>3. << >> \in V
    OBVIOUS
  <2> HIDE DEF V, D, next, last
  <2> QED
    BY <1>3, <2>1, <2>2, <2>3
<1>12. \A s \in D : Packets[s] \in V
  <2> HIDE DEF V, D, m, next, last
  <2> QED
    BY <1>4, <1>11, RangeByRecursion
<1> QED
  BY <1>9, <1>10, <1>12

(* what Uleb[n] is *)
Encodes(u, n) ==
    /\ Len(u) >= 1
    /\ \A k \in 1 .. Len(u) - 1 : u[k] >= Half
    /\ u[Len(u)] < Half
    /\ Number[u] = n

(* A sequence with one more element at its head. *)
LEMMA PrependProperties ==
    ASSUME NEW h \in Int, NEW t \in Seq(Int)
    PROVE  /\ <<h>> \o t \in Seq(Int)
           /\ Len(<<h>> \o t) = 1 + Len(t)
           /\ (<<h>> \o t)[1] = h
           /\ \A k \in 1 .. Len(t) : (<<h>> \o t)[k + 1] = t[k]
           /\ Tail(<<h>> \o t) = t
           /\ <<h>> \o t # << >>
<1>1. <<h>> \in Seq(Int) /\ Len(<<h>>) = 1 /\ <<h>>[1] = h
  OBVIOUS
<1>2. PICK u : u = <<h>> \o t
  OBVIOUS
<1>3. /\ u \in Seq(Int) /\ Len(u) = 1 + Len(t) /\ u[1] = h
      /\ \A k \in 1 .. Len(t) : u[k + 1] = t[k]
  <2>1. \A i \in 1 .. 1 + Len(t) : (<<h>> \o t)[i] = IF i <= 1 THEN <<h>>[i] ELSE t[i - 1]
    BY <1>1, ConcatProperties
  <2>2. u \in Seq(Int) /\ Len(u) = 1 + Len(t)
    BY <1>1, <1>2, ConcatProperties
  <2>3. Len(t) \in Nat
    BY LenProperties
  <2>4. u[1] = h
    BY <1>1, <1>2, <2>1, <2>3
  <2>5. \A k \in 1 .. Len(t) : u[k + 1] = t[k]
    <3> TAKE k \in 1 .. Len(t)
    <3>1. k + 1 \in 1 .. 1 + Len(t) /\ ~ (k + 1 <= 1) /\ k + 1 - 1 = k
      BY <2>3
    <3> QED
      BY <1>2, <2>1, <3>1
  <2> QED
    BY <2>2, <2>4, <2>5
<1>4. u # << >>
  BY <1>3, EmptySeq, LenProperties
<1>5. Tail(u) = t
  <2>1. Tail(u) \in Seq(Int) /\ Len(Tail(u)) = Len(u) - 1 /\ \A i \in 1 .. Len(Tail(u)) : Tail(u)[i] = u[i + 1]
    BY <1>3, <1>4, HeadTailProperties
  <2>2. Len(Tail(u)) = Len(t)
    BY <1>3, <2>1, LenProperties
  <2>3. \A i \in 1 .. Len(Tail(u)) : Tail(u)[i] = t[i]
    BY <1>3, <2>1, <2>2
  <2> QED
    BY <2>1, <2>2, <2>3, SeqEqual
<1> QED
  BY <1>2, <1>3, <1>4, <1>5

(* Every length is written as digits that say it (write_uleb128). *)
LEMMA UlebEncodes ==
    ASSUME NEW n \in Nat
    PROVE  Uleb[n] \in Seq(Int) /\ Encodes(Uleb[n], n)
<1> DEFINE B == {k \in Nat : ~ Encodes(Uleb[k], k)}
<1>1. \A k \in Nat : Uleb[k] \in Seq(Int)
  BY UlebRecurses
<1>2. SUFFICES ASSUME B # {} PROVE FALSE
  BY <1>1
<1>3. PICK y \in B : y >= Half => y \div Half \in Nat /\ y \div Half \notin B
  <2> DEFINE m == [k \in Nat |-> k]
             next == [k \in Nat |-> k \div Half]
             last == {k \in Nat : k < Half}
  <2>1. B \in SUBSET Nat
    OBVIOUS
  <2> HIDE DEF B
  <2>2. PICK y \in B : y \notin last => next[y] \in Nat /\ next[y] \notin B
    <3>1. Descends(Nat, m, next, last)
      BY UlebDescends
    <3> HIDE DEF m, next, last
    <3>2. PICK D : D = Nat
      OBVIOUS
    <3>3. Descends(D, m, next, last) /\ B \in SUBSET D
      BY <2>1, <3>1, <3>2
    <3>4. \E y \in B : y \notin last => next[y] \in D /\ next[y] \notin B
      BY <1>2, <3>3, Descent
    <3> QED
      BY <3>2, <3>4
  <2> QED
    BY <2>1, <2>2, WireAssumption
<1>4. Half \in Nat /\ Half >= 2
  BY WireAssumption
<1>5. CASE y < Half
  <2>1. Uleb[y] = <<y>>
    BY <1>5, UlebRecurses
  <2>2. <<y>> \in Seq(Int) /\ Len(<<y>>) = 1 /\ <<y>>[1] = y /\ Tail(<<y>>) = << >> /\ <<y>> # << >>
    OBVIOUS
  <2>3. Number[<<y>>] = (<<y>>[1] % Half) + Half * Number[Tail(<<y>>)]
    BY <2>2, NumberRecurses
  <2>4. Number[<< >>] = 0
    <3>1. << >> \in Seq(Int)
      OBVIOUS
    <3> QED
      BY <3>1, NumberRecurses, Zenon
  <2>5. y % Half = y
    BY <1>4, <1>5, LowDigit
  <2>6. Number[<<y>>] = y
    BY <1>4, <2>2, <2>3, <2>4, <2>5
  <2>7. Encodes(<<y>>, y)
    BY <1>5, <2>2, <2>6 DEF Encodes
  <2> QED
    BY <2>1, <2>7
<1>6. CASE y >= Half
  <2>1. PICK t, q, r : t = Uleb[q] /\ q = y \div Half /\ r = y % Half
    OBVIOUS
  <2>2. q \in Nat /\ r \in 0 .. Half - 1 /\ y = Half * q + r
    BY <2>1, DivMod
  <2>3. t \in Seq(Int) /\ Encodes(t, q)
    BY <1>1, <1>3, <1>6, <2>1, <2>2
  <2>4. Uleb[y] = <<Half + r>> \o t
    <3>1. Uleb[y] = IF y < Half THEN <<y>> ELSE <<Half + (y % Half)>> \o Uleb[y \div Half]
      BY UlebRecurses
    <3>2. ~ (y < Half)
      BY <1>4, <1>6
    <3> QED
      BY <2>1, <3>1, <3>2, Zenon
  <2>5. PICK u : u = <<Half + r>> \o t
    OBVIOUS
  <2>6. /\ u \in Seq(Int) /\ Len(u) = 1 + Len(t) /\ u[1] = Half + r
        /\ \A k \in 1 .. Len(t) : u[k + 1] = t[k]
        /\ Tail(u) = t /\ u # << >>
    <3>1. Half + r \in Int
      BY <1>4, <2>2
    <3> QED
      BY <2>3, <2>5, <3>1, PrependProperties
  <2>7. Number[u] = y
    <3>1. Number[u] = ((Half + r) % Half) + Half * Number[t]
      BY <2>6, NumberRecurses
    <3>2. Number[t] = q
      BY <2>3 DEF Encodes
    <3>3. (Half + r) % Half = r
      BY <2>2, LowDigit
    <3>4. Half * q \in Int
      BY <1>4, <2>2
    <3> QED
      BY <2>2, <3>1, <3>2, <3>3, <3>4
  <2>8. PICK l \in Nat : l = Len(t)
    BY <2>3, LenProperties
  <2>9. l >= 1
    BY <2>3, <2>8 DEF Encodes
  <2>10. u[Len(u)] < Half
    BY <2>3, <2>6, <2>8, <2>9 DEF Encodes
  <2>11. ASSUME NEW k \in 1 .. Len(u) - 1
         PROVE  u[k] >= Half
    <3>1. CASE k = 1
      BY <1>4, <2>2, <2>6, <3>1
    <3>2. CASE k # 1
      <4>1. k - 1 \in 1 .. l - 1
        BY <2>6, <2>8, <2>11, <3>2
      <4>2. k - 1 \in 1 .. Len(t) /\ (k - 1) + 1 = k
        BY <2>8, <4>1
      <4>3. u[(k - 1) + 1] = t[k - 1]
        BY <2>6, <4>2
      <4>4. t[k - 1] >= Half
        BY <2>3, <2>8, <4>1 DEF Encodes
      <4> QED
        BY <4>2, <4>3, <4>4
    <3> QED
      BY <3>1, <3>2
  <2>12. Len(u) >= 1
    BY <2>6, <2>8
  <2>13. Encodes(u, y)
    BY <2>7, <2>10, <2>11, <2>12 DEF Encodes
  <2> QED
    BY <2>4, <2>5, <2>13
<1> QED
  BY <1>4, <1>5, <1>6

-----------------------------------------------------------------------------
(* What is written is read back: strings, *)

(* A sequence and what follows it, and how to take them apart. *)
LEMMA AppendedProperties ==
    ASSUME NEW a \in Seq(Int), NEW r \in Seq(Int)
    PROVE  /\ a \o r \in Seq(Int)
           /\ Len(a \o r) = Len(a) + Len(r)
           /\ \A k \in 1 .. Len(a) : (a \o r)[k] = a[k]
           /\ \A k \in 1 .. Len(r) : (a \o r)[Len(a) + k] = r[k]
           /\ SubSeq(a \o r, 1, Len(a)) = a
           /\ Drop(a \o r, Len(a)) = r
<1>1. PICK u : u = a \o r
  OBVIOUS
<1>2. PICK l \in Nat, k \in Nat : l = Len(a) /\ k = Len(r)
  BY LenProperties
<1>3. u \in Seq(Int) /\ Len(u) = l + k
  BY <1>1, <1>2, ConcatProperties
<1>4. \A i \in 1 .. l + k : u[i] = IF i <= l THEN a[i] ELSE r[i - l]
  BY <1>1, <1>2, ConcatProperties
<1>5. \A i \in 1 .. l : u[i] = a[i]
  BY <1>2, <1>4
<1>6. \A i \in 1 .. k : u[l + i] = r[i]
  <2> TAKE i \in 1 .. k
  <2>1. l + i \in 1 .. l + k /\ ~ (l + i <= l) /\ (l + i) - l = i
    BY <1>2
  <2> QED
    BY <1>4, <2>1
<1>7. SubSeq(u, 1, l) = a
  <2>1. PICK v : v = SubSeq(u, 1, l)
    OBVIOUS
  <2>2. 1 \in 1 .. Len(u) + 1 /\ l \in 1 - 1 .. Len(u)
    BY <1>2, <1>3
  <2>3. v \in Seq(Int) /\ Len(v) = l - 1 + 1 /\ \A i \in 1 .. l - 1 + 1 : v[i] = u[1 + i - 1]
    BY <1>3, <2>1, <2>2, SubSeqProperties
  <2>4. \A i \in 1 .. Len(v) : v[i] = a[i]
    BY <1>2, <1>5, <2>3
  <2>5. Len(v) = Len(a)
    BY <1>2, <2>3
  <2> QED
    BY <2>1, <2>3, <2>4, <2>5, SeqEqual
<1>8. Drop(u, l) = r
  <2>1. PICK v : v = Drop(u, l)
    OBVIOUS
  <2>2. l \in 0 .. Len(u)
    BY <1>2, <1>3
  <2>3. v \in Seq(Int) /\ Len(v) = Len(u) - l /\ \A i \in 1 .. Len(u) - l : v[i] = u[l + i]
    BY <1>3, <2>1, <2>2, DropProperties
  <2>4. Len(v) = Len(r) /\ \A i \in 1 .. Len(v) : v[i] = r[i]
    BY <1>2, <1>3, <1>6, <2>3
  <2> QED
    BY <2>1, <2>3, <2>4, SeqEqual
<1> QED
  BY <1>1, <1>2, <1>3, <1>5, <1>6, <1>7, <1>8

(* u is a with r behind it. *)
Appended(a, r, u) ==
    /\ u \in Seq(Int) /\ Len(u) = Len(a) + Len(r)
    /\ \A k \in 1 .. Len(a) : u[k] = a[k]
    /\ \A k \in 1 .. Len(r) : u[Len(a) + k] = r[k]

(* The same, of a name for the two together. *)
LEMMA Appending ==
    ASSUME NEW a \in Seq(Int), NEW r \in Seq(Int), NEW u, u = a \o r
    PROVE  Appended(a, r, u)
BY AppendedProperties DEF Appended

(* As many as were written are read back. *)
LEMMA ManyReadBack ==
    ASSUME NEW a \in Seq(Int), NEW r \in Seq(Int), NEW n, n = Len(a)
    PROVE  ReadMany(a \o r, n) = Read(a, r)
<1>1. ~ (Len(a \o r) < n)
  BY AppendedProperties, LenProperties
<1> QED
  BY <1>1, AppendedProperties DEF ReadMany

(* A length that fits is read back (read_uleb128 after write_uleb128). *)
LEMMA LengthReadBack ==
    ASSUME NEW n \in Nat, Len(Uleb[n]) <= MaxDigits, NEW r \in Seq(Int)
    PROVE  ReadLength(Uleb[n] \o r) = Read(n, r)
<1>1. PICK u : u = Uleb[n]
  OBVIOUS
<1>2. u \in Seq(Int) /\ Encodes(u, n)
  BY <1>1, UlebEncodes
<1>3. PICK l \in Nat, e \in Nat : l = Len(u) /\ e = Len(r)
  BY <1>2, LenProperties
<1>4. PICK s : s = u \o r
  OBVIOUS
<1>5. /\ s \in Seq(Int) /\ Len(s) = l + e /\ \A k \in 1 .. l : s[k] = u[k]
      /\ SubSeq(s, 1, l) = u /\ Drop(s, l) = r
  BY <1>2, <1>3, <1>4, AppendedProperties
<1>6. l >= 1 /\ s[l] < Half /\ \A k \in 1 .. l - 1 : s[k] >= Half
  <2>1. l >= 1 /\ u[l] < Half /\ \A k \in 1 .. l - 1 : u[k] >= Half
    BY <1>2, <1>3 DEF Encodes
  <2>2. l \in 1 .. l /\ \A k \in 1 .. l - 1 : k \in 1 .. l
    BY <1>3, <2>1
  <2> QED
    BY <1>5, <2>1, <2>2
<1>7. Digits(s) = {l}
  <2>1. l \in Digits(s)
    BY <1>1, <1>3, <1>5, <1>6 DEF Digits
  <2>2. ASSUME NEW k \in Digits(s) PROVE k = l
    <3>1. k \in 1 .. l + e /\ s[k] < Half /\ \A j \in 1 .. k - 1 : s[j] >= Half
      BY <1>5 DEF Digits
    <3>2. Half \in Nat /\ \A j \in 1 .. l + e : s[j] \in Int
      BY <1>5, ElementOfSeq, WireAssumption
    <3>3. ~ (k < l)
      <4>1. SUFFICES ASSUME k < l PROVE FALSE
        OBVIOUS
      <4>2. k \in 1 .. l - 1
        BY <3>1, <4>1
      <4>3. s[k] >= Half
        BY <1>6, <4>2
      <4> QED
        BY <3>1, <3>2, <4>3
    <3>4. ~ (l < k)
      <4>1. SUFFICES ASSUME l < k PROVE FALSE
        OBVIOUS
      <4>2. l \in 1 .. k - 1 /\ l \in 1 .. l + e
        BY <1>6, <3>1, <4>1
      <4>3. s[l] >= Half
        BY <3>1, <4>2
      <4> QED
        BY <1>6, <3>2, <4>2, <4>3
    <3> QED
      BY <3>1, <3>3, <3>4
  <2> QED
    BY <2>1, <2>2
<1>8. (CHOOSE k \in Digits(s) : TRUE) = l
  BY <1>7
<1>9. Number[u] = n
  BY <1>2 DEF Encodes
<1>10. ReadLength(s) = Read(Number[SubSeq(s, 1, l)], Drop(s, l))
  BY <1>7, <1>8 DEF ReadLength
<1> QED
  BY <1>1, <1>4, <1>5, <1>9, <1>10

(* What is left behind a marker. *)
LEMMA HeadedProperties ==
    ASSUME NEW h \in Int, NEW r \in Seq(Int), NEW s, s = <<h>> \o r
    PROVE  s \in Seq(Int) /\ s # << >> /\ s[1] = h /\ Drop(s, 1) = r
<1>1. <<h>> \in Seq(Int) /\ Len(<<h>>) = 1
  OBVIOUS
<1>2. Drop(<<h>> \o r, Len(<<h>>)) = r
  BY <1>1, AppendedProperties
<1> QED
  BY <1>1, <1>2, PrependProperties

(* A string whose length fits is read back, the empty one too (read_string *)
(* after write_string).                                                    *)
LEMMA StringReadBack ==
    ASSUME NEW x \in Seq(Int), Fits(x), NEW r \in Seq(Int)
    PROVE  /\ WriteString(x) \in Seq(Int)
           /\ ReadString(WriteString(x) \o r) = Read(x, r)
<1>1. CASE x = << >>
  <2>1. WriteString(x) = <<0>> /\ <<0>> \in Seq(Int)
    BY <1>1 DEF WriteString
  <2>2. PICK s : s = <<0>> \o r
    OBVIOUS
  <2>3. s # << >> /\ s[1] = 0 /\ Drop(s, 1) = r
    <3>1. 0 \in Int
      OBVIOUS
    <3> QED
      BY <2>2, <3>1, HeadedProperties, Zenon
  <2>4. ReadString(s) = Read(<< >>, r)
    BY <2>3 DEF ReadString
  <2> QED
    BY <1>1, <2>1, <2>2, <2>4
<1>2. CASE x # << >>
  <2>1. PICK u, n : n = Len(x) /\ u = Uleb[n]
    OBVIOUS
  <2>2. n \in Nat /\ u \in Seq(Int) /\ Len(u) <= MaxDigits
    BY <2>1, LenProperties, UlebEncodes DEF Fits
  <2>3. x \o r \in Seq(Int) /\ u \o (x \o r) \in Seq(Int)
    BY <2>2, AppendedProperties
  <2>4. <<11>> \in Seq(Int) /\ Len(<<11>>) = 1 /\ <<11>> \o u \in Seq(Int)
    BY <2>2
  <2>5. WriteString(x) = (<<11>> \o u) \o x /\ WriteString(x) \in Seq(Int)
    BY <1>2, <2>1, <2>4, AppendedProperties DEF WriteString
  <2>6. PICK s : s = <<11>> \o (u \o (x \o r))
    OBVIOUS
  <2>7. WriteString(x) \o r = s
    <3>1. Associates(<<11>> \o u, x, r)
      BY <2>4, Associative, Zenon
    <3>2. Associates(<<11>>, u, x \o r)
      BY <2>2, <2>3, <2>4, Associative, Zenon
    <3> QED
      BY <2>5, <2>6, <3>1, <3>2, Zenon DEF Associates
  <2>8. s # << >> /\ s[1] = 11 /\ Drop(s, 1) = u \o (x \o r)
    <3>1. PICK h, v : h = 11 /\ v = u \o (x \o r)
      OBVIOUS
    <3>2. h \in Int /\ v \in Seq(Int) /\ s = <<h>> \o v
      BY <2>3, <2>6, <3>1
    <3>3. s # << >> /\ s[1] = h /\ Drop(s, 1) = v
      BY <3>2, HeadedProperties
    <3> QED
      BY <3>1, <3>3
  <2>9. ReadLength(Drop(s, 1)) = Read(n, x \o r)
    BY <2>1, <2>2, <2>3, <2>8, LengthReadBack
  <2>10. ReadMany(x \o r, n) = Read(x, r)
    BY <2>1, ManyReadBack
  <2>11. PICK length : length = ReadLength(Drop(s, 1))
    OBVIOUS
  <2>12. ~ length.failed /\ length.value = n /\ length.rest = x \o r
    BY <2>9, <2>11 DEF Read
  <2>13. ReadString(s) = IF length.failed THEN Failed ELSE ReadMany(length.rest, length.value)
    BY <2>8, <2>11 DEF ReadString
  <2> QED
    BY <2>5, <2>7, <2>10, <2>12, <2>13
<1> QED
  BY <1>1, <1>2

-----------------------------------------------------------------------------
(* players, *)

(* The count of players goes up by one at every slot with a player. *)
LEMMA PlayersCount ==
    ASSUME NEW st
    PROVE  /\ \A i \in Nat : Players(st, i) \in Nat
           /\ Players(st, 0) = 0
           /\ \A i \in Nat \ {0} :
                 Players(st, i) = Players(st, i - 1) + (IF st[i] \in HasPlayer THEN 1 ELSE 0)
           /\ \A i \in Nat, j \in Nat : i <= j => Players(st, i) <= Players(st, j)
<1> DEFINE T(i) == {j \in 1 .. i : st[j] \in HasPlayer}
<1>1. ASSUME NEW i \in Int PROVE IsFiniteSet(T(i)) /\ Players(st, i) = Cardinality(T(i)) /\ Players(st, i) \in Nat
  <2>1. IsFiniteSet(1 .. i) /\ T(i) \subseteq 1 .. i
    BY FS_Interval
  <2>2. IsFiniteSet(T(i))
    BY <2>1, FS_Subset
  <2> QED
    BY <2>2, FS_CardinalityType DEF Players
<1>2. Players(st, 0) = 0
  <2>1. T(0) = {}
    OBVIOUS
  <2> QED
    BY <1>1, <2>1, FS_EmptySet
<1>3. ASSUME NEW i \in Nat \ {0}
      PROVE  Players(st, i) = Players(st, i - 1) + (IF st[i] \in HasPlayer THEN 1 ELSE 0)
  <2>1. i - 1 \in Int /\ IsFiniteSet(T(i - 1)) /\ i \notin T(i - 1)
    BY <1>1
  <2>2. CASE st[i] \in HasPlayer
    <3>1. T(i) = T(i - 1) \cup {i}
      BY <2>2
    <3>2. Cardinality(T(i)) = Cardinality(T(i - 1)) + 1
      <4> HIDE DEF T
      <4> QED
        BY <2>1, <3>1, FS_AddElement
    <3> QED
      BY <1>1, <2>1, <2>2, <3>2
  <2>3. CASE st[i] \notin HasPlayer
    <3>1. T(i) = T(i - 1)
      BY <2>3
    <3> HIDE DEF T
    <3> QED
      BY <1>1, <2>1, <2>3, <3>1
  <2> QED
    BY <2>2, <2>3
<1>4. ASSUME NEW i \in Nat, NEW j \in Nat, i <= j PROVE Players(st, i) <= Players(st, j)
  <2>1. T(i) \subseteq T(j)
    BY <1>4
  <2> HIDE DEF T
  <2> QED
    BY <1>1, <2>1, FS_Subset
<1>5. ASSUME NEW i \in Nat PROVE Players(st, i) \in Nat
  <2>1. i \in Int
    OBVIOUS
  <2> HIDE DEF T
  <2> QED
    BY <1>1, <2>1
<1> QED
  BY <1>2, <1>3, <1>4, <1>5

(* No two players have the same number. *)
LEMMA PlayersNumbered ==
    ASSUME NEW st, NEW i \in Slots, st[i] \in HasPlayer
    PROVE  /\ Players(st, i) \in 1 .. Players(st, NSlots)
           /\ \A j \in Slots : st[j] \in HasPlayer /\ Players(st, j) = Players(st, i) => j = i
<1>1. NSlots \in Nat /\ i \in Nat \ {0} /\ i <= NSlots /\ i - 1 \in Nat
  BY WireAssumption DEF Slots
<1>2. Players(st, i) = Players(st, i - 1) + 1 /\ Players(st, i - 1) \in Nat /\ Players(st, i) \in Nat
  BY <1>1, PlayersCount
<1>3. Players(st, i) <= Players(st, NSlots) /\ Players(st, NSlots) \in Nat
  BY <1>1, PlayersCount
<1>4. ASSUME NEW j \in Slots, st[j] \in HasPlayer, Players(st, j) = Players(st, i)
      PROVE  j = i
  <2>1. j \in Nat \ {0} /\ j - 1 \in Nat
    BY <1>1 DEF Slots
  <2>2. Players(st, j) = Players(st, j - 1) + 1 /\ Players(st, j - 1) \in Nat /\ Players(st, j) \in Nat
    BY <1>4, <2>1, PlayersCount
  <2>3. i < j => Players(st, i) <= Players(st, j - 1)
    <3>1. i < j => i <= j - 1
      BY <1>1, <2>1
    <3> QED
      BY <1>1, <2>1, <3>1, PlayersCount
  <2>4. j < i => Players(st, j) <= Players(st, i - 1)
    <3>1. j < i => j <= i - 1
      BY <1>1, <2>1
    <3> QED
      BY <1>1, <2>1, <3>1, PlayersCount
  <2> QED
    BY <1>1, <1>2, <1>4, <2>1, <2>2, <2>3, <2>4
<1> QED
  BY <1>2, <1>3, <1>4

(* Every number is that of a player. *)
LEMMA PlayersFound ==
    ASSUME NEW st, NEW n \in 1 .. Players(st, NSlots)
    PROVE  \E i \in Slots : st[i] \in HasPlayer /\ Players(st, i) = n
<1> DEFINE B == {i \in Nat : n <= Players(st, i)}
<1>1. NSlots \in Nat
  BY WireAssumption
<1>2. n \in Nat /\ n >= 1
  BY <1>1, PlayersCount
<1>3. NSlots \in B
  BY <1>1, PlayersCount
<1>4. PICK i \in B : \A j \in B : i <= j
  <2>1. B \in SUBSET Nat /\ B # {}
    BY <1>3
  <2> HIDE DEF B
  <2> QED
    BY <2>1, Least
<1>5. i \in Nat /\ n <= Players(st, i) /\ Players(st, i) \in Nat /\ i <= NSlots
  BY <1>3, <1>4, PlayersCount
<1>6. i # 0
  BY <1>2, <1>5, PlayersCount
<1>7. i \in Slots /\ i - 1 \in Nat /\ i \in Nat \ {0} /\ i - 1 < i
  BY <1>1, <1>5, <1>6 DEF Slots
<1>8. Players(st, i - 1) < n /\ Players(st, i - 1) \in Nat
  <2>1. i - 1 \notin B
    BY <1>4, <1>5, <1>7
  <2>2. Players(st, i - 1) \in Nat
    BY <1>7, PlayersCount
  <2> QED
    BY <1>2, <1>7, <2>1, <2>2
<1>9. Players(st, i) = Players(st, i - 1) + (IF st[i] \in HasPlayer THEN 1 ELSE 0)
  BY <1>7, PlayersCount
<1>10. st[i] \in HasPlayer /\ Players(st, i) = n
  BY <1>2, <1>5, <1>8, <1>9
<1> QED
  BY <1>7, <1>10

(* a row of slots *)
Row == [Slots -> [status : Int, user : Int, mods : Int]]

(* A column is a sequence, as long as there are slots. *)
LEMMA ColumnProperties ==
    ASSUME NEW f \in [Slots -> Int]
    PROVE  f \in Seq(Int) /\ Len(f) = NSlots
BY WireAssumption DEF Slots

(* Every player is found in UsersOf at the number of its slot. *)
LEMMA UsersProperties ==
    ASSUME NEW slots \in Row
    PROVE  /\ UsersOf(slots) \in Seq(Int)
           /\ Len(UsersOf(slots)) = Players(Column(slots, "status"), NSlots)
           /\ \A i \in Slots :
                 slots[i].status \in HasPlayer =>
                     UsersOf(slots)[Players(Column(slots, "status"), i)] = slots[i].user
<1> DEFINE st == Column(slots, "status")
           Is(n, i) == st[i] \in HasPlayer /\ Players(st, i) = n
           nth(n) == CHOOSE i \in Slots : Is(n, i)
           total == Players(st, NSlots)
<1>1. total \in Nat
  <2>1. NSlots \in Nat
    BY WireAssumption
  <2> HIDE DEF st
  <2> QED
    BY <2>1, PlayersCount
<1>2. UsersOf(slots) = [n \in 1 .. total |-> slots[nth(n)].user]
  BY DEF UsersOf
<1>3. ASSUME NEW n \in 1 .. total PROVE nth(n) \in Slots /\ Is(n, nth(n))
  <2>1. \E i \in Slots : Is(n, i)
    <3> HIDE DEF st
    <3> QED
      BY PlayersFound
  <2> HIDE DEF Is
  <2> QED
    BY <2>1
<1>4. \A i \in Slots : slots[i].user \in Int /\ st[i] = slots[i].status
  BY DEF Row, Column
<1>5. UsersOf(slots) \in [1 .. total -> Int]
  <2> HIDE DEF total, nth, st
  <2> QED
    BY <1>2, <1>3, <1>4
<1>6. UsersOf(slots) \in Seq(Int) /\ Len(UsersOf(slots)) = total
  <2> HIDE DEF total
  <2> QED
    BY <1>1, <1>5
<1>7. ASSUME NEW i \in Slots, slots[i].status \in HasPlayer
      PROVE  UsersOf(slots)[Players(st, i)] = slots[i].user
  <2>1. st[i] \in HasPlayer
    BY <1>4, <1>7
  <2>2. Players(st, i) \in 1 .. total /\ \A j \in Slots : Is(Players(st, i), j) => j = i
    <3> HIDE DEF st
    <3> QED
      BY <2>1, PlayersNumbered
  <2>3. nth(Players(st, i)) = i
    <3> HIDE DEF nth, Is, st, total
    <3> QED
      BY <1>3, <2>2
  <2> HIDE DEF nth, st, total
  <2> QED
    BY <1>2, <2>2, <2>3
<1> QED
  BY <1>6, <1>7

-----------------------------------------------------------------------------
(* rooms, *)

(* The parts of what is read. *)
LEMMA ReadFields ==
    ASSUME NEW value, NEW rest
    PROVE  ~ Read(value, rest).failed /\ Read(value, rest).value = value /\ Read(value, rest).rest = rest
BY DEF Read

(* The password that everybody sees fits. *)
LEMMA HiddenFits ==
    ASSUME NEW p \in Seq(Int), Fits(p)
    PROVE  Hidden(p) \in Seq(Int) /\ Fits(Hidden(p))
<1>1. CASE p = NoPassword
  BY <1>1 DEF Hidden
<1>2. CASE p # NoPassword
  <2>1. Hidden(p) = <<32>> /\ Len(<<32>>) = 1 /\ <<32>> \in Seq(Int)
    BY <1>2 DEF Hidden
  <2>2. Uleb[1] = <<1>>
    <3>1. 1 \in Nat /\ 1 < Half
      BY WireAssumption
    <3> QED
      BY <3>1, UlebRecurses
  <2>3. Len(<<1>>) = 1 /\ 1 <= MaxDigits
    BY WireAssumption
  <2> QED
    BY <2>1, <2>2, <2>3 DEF Fits
<1> QED
  BY <1>1, <1>2

(* the marker of freemod and the mods behind it *)
WriteMods(m) == IF m.freemod THEN <<1>> \o Column(m.slots, "mods") ELSE <<0>>

(* what is read of them *)
ModsRead(m) == IF m.freemod THEN Column(m.slots, "mods") ELSE [i \in Slots |-> 0]

(* The mods of the slots are read back under freemod, and none are         *)
(* otherwise.                                                              *)
LEMMA ModsReadBack ==
    ASSUME NEW m \in Rooms, NEW tail \in Seq(Int), NEW freemod, NEW mods,
           freemod = ReadMany(WriteMods(m) \o tail, 1),
           mods = IF freemod.value[1] # 0 THEN ReadMany(freemod.rest, NSlots)
                  ELSE Read([i \in Slots |-> 0], freemod.rest)
    PROVE  /\ WriteMods(m) \in Seq(Int)
           /\ ~ freemod.failed /\ (freemod.value[1] # 0 <=> m.freemod)
           /\ mods = Read(ModsRead(m), tail)
<1> DEFINE col == Column(m.slots, "mods")
<1>1. m.slots \in Row /\ m.freemod \in BOOLEAN
  BY WireAssumption DEF Row
<1>2. col \in Seq(Int) /\ Len(col) = NSlots
  <2>1. col \in [Slots -> Int]
    BY <1>1 DEF Column, Row
  <2> HIDE DEF col
  <2> QED
    BY <2>1, ColumnProperties
<1>3. CASE m.freemod
  <2>1. <<1>> \in Seq(Int) /\ Len(<<1>>) = 1 /\ <<1>>[1] = 1
    OBVIOUS
  <2> HIDE DEF col
  <2>2. WriteMods(m) = <<1>> \o col /\ WriteMods(m) \in Seq(Int)
    BY <1>2, <1>3, <2>1, AppendedProperties DEF WriteMods, col
  <2>3. WriteMods(m) \o tail = <<1>> \o (col \o tail) /\ col \o tail \in Seq(Int)
    BY <1>2, <2>1, <2>2, ConcatAssociative, AppendedProperties
  <2>4. PICK rest : rest = col \o tail
    OBVIOUS
  <2>5. freemod = Read(<<1>>, rest)
    BY <2>1, <2>3, <2>4, ManyReadBack
  <2>6. ~ freemod.failed /\ freemod.value = <<1>> /\ freemod.rest = rest
    BY <2>5, ReadFields
  <2>7. mods = ReadMany(rest, NSlots)
    BY <2>1, <2>6
  <2>8. mods = Read(col, tail)
    BY <1>2, <2>4, <2>7, ManyReadBack
  <2> QED
    BY <1>3, <2>1, <2>2, <2>6, <2>8 DEF ModsRead, col
<1>4. CASE ~ m.freemod
  <2>1. <<0>> \in Seq(Int) /\ Len(<<0>>) = 1 /\ <<0>>[1] = 0
    OBVIOUS
  <2>2. WriteMods(m) = <<0>>
    BY <1>4 DEF WriteMods
  <2>3. freemod = Read(<<0>>, tail)
    BY <2>1, <2>2, ManyReadBack
  <2>4. ~ freemod.failed /\ freemod.value = <<0>> /\ freemod.rest = tail
    BY <2>3, ReadFields
  <2> QED
    BY <1>4, <2>1, <2>2, <2>4 DEF ModsRead
<1> QED
  BY <1>1, <1>3, <1>4

(* the password of a packet *)
Password(m, sendPassword) == IF sendPassword THEN m.password ELSE Hidden(m.password)

(* The fields of a packet with a room in it, in their order. *)
Written(m, sendPassword, tail, name, password, statuses, users, mods) ==
    /\ name \in Seq(Int) /\ password \in Seq(Int) /\ mods \in Seq(Int)
    /\ statuses \in Seq(Int) /\ Len(statuses) = NSlots
    /\ users \in Seq(Int) /\ Len(users) = Players(statuses, NSlots)
    /\ WriteFields(m, sendPassword) \in Seq(Int)
    /\ WriteFields(m, sendPassword) \o tail
       = name \o (password \o (statuses \o (users \o (mods \o tail))))

(* A room is written as its fields one behind the other, and what follows  *)
(* it.                                                                     *)
LEMMA FieldsWritten ==
    ASSUME NEW m \in Rooms, NEW sendPassword \in BOOLEAN, NEW tail \in Seq(Int),
           NEW name, NEW password, NEW statuses, NEW users, NEW mods,
           name = WriteString(m.name), password = WriteString(Password(m, sendPassword)),
           statuses = Column(m.slots, "status"), users = UsersOf(m.slots), mods = WriteMods(m)
    PROVE  Written(m, sendPassword, tail, name, password, statuses, users, mods)
<1>1. /\ m.name \in Seq(Int) /\ Fits(m.name) /\ m.password \in Seq(Int) /\ Fits(m.password)
      /\ m.slots \in Row
  BY WireAssumption DEF Row
<1>2. Password(m, sendPassword) \in Seq(Int) /\ Fits(Password(m, sendPassword))
  BY <1>1, HiddenFits DEF Password
<1>3. name \in Seq(Int) /\ password \in Seq(Int)
  <2>1. << >> \in Seq(Int)
    OBVIOUS
  <2> QED
    BY <1>1, <1>2, <2>1, StringReadBack
<1>4. mods \in Seq(Int)
  BY ModsReadBack
<1>5. statuses \in Seq(Int) /\ Len(statuses) = NSlots
  <2>1. statuses \in [Slots -> Int]
    BY <1>1 DEF Column, Row
  <2> QED
    BY <2>1, ColumnProperties
<1>6. users \in Seq(Int) /\ Len(users) = Players(statuses, NSlots)
  BY <1>1, UsersProperties
<1>7. WriteFields(m, sendPassword) = ((name \o password) \o (statuses \o users)) \o mods
  BY DEF WriteFields, WriteSlots, WriteMods, Password
<1>8. InRow(Int, name, password, statuses, users, mods, tail)
  BY <1>3, <1>4, <1>5, <1>6, InARow, Zenon
<1> QED
  BY <1>3, <1>4, <1>5, <1>6, <1>7, <1>8 DEF InRow, Written

(* Every player is read back into its own slot, though only those that     *)
(* play are written.                                                       *)
LEMMA SlotsReadBack ==
    ASSUME NEW m \in Rooms
    PROVE  SlotsRead(Column(m.slots, "status"), UsersOf(m.slots), ModsRead(m))
           = [i \in Slots |-> IF m.freemod THEN m.slots[i] ELSE [m.slots[i] EXCEPT !.mods = 0]]
<1>1. /\ m.slots \in Row
      /\ \A i \in Slots : m.slots[i].status \notin HasPlayer => m.slots[i].user = Nobody
  BY WireAssumption DEF Row
<1> DEFINE st == Column(m.slots, "status")
           us == UsersOf(m.slots)
<1> SUFFICES ASSUME NEW i \in Slots
             PROVE  [status |-> st[i],
                     user |-> IF st[i] \in HasPlayer THEN us[Players(st, i)] ELSE Nobody,
                     mods |-> ModsRead(m)[i]]
                    = IF m.freemod THEN m.slots[i] ELSE [m.slots[i] EXCEPT !.mods = 0]
  BY DEF SlotsRead
<1>2. PICK slot : slot = m.slots[i]
  OBVIOUS
<1>3. slot \in [status : Int, user : Int, mods : Int]
  BY <1>1, <1>2 DEF Row
<1>4. st[i] = slot.status
  BY <1>2 DEF Column
<1>5. (IF st[i] \in HasPlayer THEN us[Players(st, i)] ELSE Nobody) = slot.user
  BY <1>1, <1>2, <1>4, UsersProperties
<1>6. ModsRead(m)[i] = IF m.freemod THEN slot.mods ELSE 0
  BY <1>2 DEF ModsRead, Column
<1>7. /\ slot = [status |-> slot.status, user |-> slot.user, mods |-> slot.mods]
      /\ [slot EXCEPT !.mods = 0] = [status |-> slot.status, user |-> slot.user, mods |-> 0]
  BY <1>3
<1> HIDE DEF st, us
<1> QED
  BY <1>2, <1>4, <1>5, <1>6, <1>7

(* What is read of a room that was written, and what follows it. *)
ReadAsWritten(m, sendPassword, tail) ==
    ReadRoom(WriteFields(m, sendPassword) \o tail)
    = Read([name |-> m.name, password |-> Password(m, sendPassword),
            slots |-> [i \in Slots |-> IF m.freemod THEN m.slots[i] ELSE [m.slots[i] EXCEPT !.mods = 0]],
            freemod |-> m.freemod,
            seed |-> IF tail = << >> THEN 0 ELSE tail[1]],
           Drop(tail, 1))

(* A room is read back, whatever follows it (parse_match after             *)
(* build_match_packet).                                                    *)
LEMMA RoomReadBack ==
    ASSUME NEW m \in Rooms, NEW sendPassword \in BOOLEAN, NEW tail \in Seq(Int)
    PROVE  ReadAsWritten(m, sendPassword, tail)
<1>1. PICK a, b, c, d, e :
          /\ a = WriteString(m.name) /\ b = WriteString(Password(m, sendPassword))
          /\ c = Column(m.slots, "status") /\ d = UsersOf(m.slots) /\ e = WriteMods(m)
  OBVIOUS
<1>2. PICK s : s = WriteFields(m, sendPassword) \o tail
  OBVIOUS
<1>3. PICK r4 : r4 = e \o tail
  OBVIOUS
<1>4. PICK r3 : r3 = d \o r4
  OBVIOUS
<1>5. PICK r2 : r2 = c \o r3
  OBVIOUS
<1>6. PICK r1 : r1 = b \o r2
  OBVIOUS
<1>7. /\ a \in Seq(Int) /\ b \in Seq(Int) /\ e \in Seq(Int)
      /\ c \in Seq(Int) /\ Len(c) = NSlots
      /\ d \in Seq(Int) /\ Len(d) = Players(c, NSlots)
      /\ s = a \o r1
  <2>1. Written(m, sendPassword, tail, a, b, c, d, e)
    BY <1>1, FieldsWritten, Zenon
  <2>2. /\ a \in Seq(Int) /\ b \in Seq(Int) /\ e \in Seq(Int)
        /\ c \in Seq(Int) /\ Len(c) = NSlots
        /\ d \in Seq(Int) /\ Len(d) = Players(c, NSlots)
        /\ WriteFields(m, sendPassword) \o tail = a \o (b \o (c \o (d \o (e \o tail))))
    BY <2>1 DEF Written
  <2>3. s = a \o r1
    BY <1>2, <1>3, <1>4, <1>5, <1>6, <2>2, Zenon
  <2> QED
    BY <2>2, <2>3
<1>8. r4 \in Seq(Int)
  BY <1>3, <1>7, AppendedProperties
<1>9. r3 \in Seq(Int)
  BY <1>4, <1>7, <1>8, AppendedProperties
<1>10. r2 \in Seq(Int)
  BY <1>5, <1>7, <1>9, AppendedProperties
<1>11. r1 \in Seq(Int)
  BY <1>6, <1>7, <1>10, AppendedProperties
<1>12. PICK name : name = ReadString(s)
  OBVIOUS
<1>13. PICK password : password = ReadString(name.rest)
  OBVIOUS
<1>14. PICK statuses : statuses = ReadMany(password.rest, NSlots)
  OBVIOUS
<1>15. PICK users : users = ReadMany(statuses.rest, Players(statuses.value, NSlots))
  OBVIOUS
<1>16. PICK freemod : freemod = ReadMany(users.rest, 1)
  OBVIOUS
<1>17. PICK mods : mods = IF freemod.value[1] # 0 THEN ReadMany(freemod.rest, NSlots)
                          ELSE Read([i \in Slots |-> 0], freemod.rest)
  OBVIOUS
<1>18. ReadRoom(s) =
          IF name.failed \/ password.failed \/ statuses.failed \/ users.failed \/ freemod.failed \/ mods.failed
          THEN Failed
          ELSE Read([name |-> name.value, password |-> password.value,
                     slots |-> SlotsRead(statuses.value, users.value, mods.value),
                     freemod |-> freemod.value[1] # 0,
                     seed |-> IF mods.rest = << >> THEN 0 ELSE mods.rest[1]],
                    Drop(mods.rest, 1))
  BY <1>12, <1>13, <1>14, <1>15, <1>16, <1>17, Zenon DEF ReadRoom
<1>19. ~ name.failed /\ name.value = m.name /\ name.rest = r1
  <2>1. m.name \in Seq(Int) /\ Fits(m.name)
    BY WireAssumption
  <2>2. name = Read(m.name, r1)
    BY <1>1, <1>7, <1>11, <1>12, <2>1, StringReadBack
  <2> QED
    BY <2>2, ReadFields
<1>20. ~ password.failed /\ password.value = Password(m, sendPassword) /\ password.rest = r2
  <2>1. Password(m, sendPassword) \in Seq(Int) /\ Fits(Password(m, sendPassword))
    BY HiddenFits, WireAssumption DEF Password
  <2>2. password = Read(Password(m, sendPassword), r2)
    BY <1>1, <1>6, <1>10, <1>13, <1>19, <2>1, StringReadBack
  <2> QED
    BY <2>2, ReadFields
<1>21. ~ statuses.failed /\ statuses.value = c /\ statuses.rest = r3
  <2>1. statuses = Read(c, r3)
    BY <1>5, <1>7, <1>9, <1>14, <1>20, ManyReadBack
  <2> QED
    BY <2>1, ReadFields
<1>22. ~ users.failed /\ users.value = d /\ users.rest = r4
  <2>1. users = Read(d, r4)
    BY <1>4, <1>7, <1>8, <1>15, <1>21, ManyReadBack
  <2> QED
    BY <2>1, ReadFields
<1>23. ~ freemod.failed /\ (freemod.value[1] # 0 <=> m.freemod) /\ mods = Read(ModsRead(m), tail)
  BY <1>1, <1>3, <1>16, <1>17, <1>22, ModsReadBack, SMTT(20)
<1>24. ~ mods.failed /\ mods.value = ModsRead(m) /\ mods.rest = tail
  BY <1>23, ReadFields
<1>25. (freemod.value[1] # 0) = m.freemod
  <2>1. m.freemod \in BOOLEAN
    BY WireAssumption
  <2> QED
    BY <1>23, <2>1
<1>26. ReadRoom(s)
       = Read([name |-> m.name, password |-> Password(m, sendPassword),
               slots |-> SlotsRead(c, d, ModsRead(m)), freemod |-> m.freemod,
               seed |-> IF tail = << >> THEN 0 ELSE tail[1]],
              Drop(tail, 1))
  BY <1>18, <1>19, <1>20, <1>21, <1>22, <1>23, <1>24, <1>25, Zenon
<1> QED
  BY <1>1, <1>2, <1>26, SlotsReadBack, Zenon DEF ReadAsWritten

(* A room is read as it was written, with or without its seed. *)
LEMMA RoomShown ==
    ASSUME NEW m \in Rooms, NEW about \in [password : BOOLEAN, seed : BOOLEAN], NEW s,
           s = IF about.seed THEN WriteRoom(m, about.password) ELSE WriteFields(m, about.password)
    PROVE  ~ ReadRoom(s).failed /\ ReadRoom(s).value = Shown(m, about)
<1> DEFINE tail == IF about.seed THEN <<m.seed>> ELSE << >>
           slots == [i \in Slots |-> IF m.freemod THEN m.slots[i] ELSE [m.slots[i] EXCEPT !.mods = 0]]
<1>1. /\ m \in [name : Seq(Int), password : Seq(Int),
                slots : [Slots -> [status : Int, user : Int, mods : Int]], freemod : BOOLEAN, seed : Int]
      /\ about.password \in BOOLEAN /\ about.seed \in BOOLEAN
  BY WireAssumption
<1>2. tail \in Seq(Int) /\ (IF tail = << >> THEN 0 ELSE tail[1]) = IF about.seed THEN m.seed ELSE 0
  BY <1>1
<1>3. s = WriteFields(m, about.password) \o tail
  <2>1. WriteFields(m, about.password) \in Seq(Int)
    BY <1>1, <1>2, FieldsWritten DEF Written
  <2>2. WriteFields(m, about.password) \o << >> = WriteFields(m, about.password)
    BY <2>1, ConcatEmptySeq
  <2> QED
    BY <1>1, <2>2 DEF WriteRoom
<1>4. PICK v : v = [name |-> m.name, password |-> Password(m, about.password), slots |-> slots,
                    freemod |-> m.freemod, seed |-> IF about.seed THEN m.seed ELSE 0]
  OBVIOUS
<1>5. ReadRoom(s) = Read(v, Drop(tail, 1))
  <2> HIDE DEF tail
  <2>1. ReadRoom(s) = Read([name |-> m.name, password |-> Password(m, about.password), slots |-> slots,
                            freemod |-> m.freemod, seed |-> IF tail = << >> THEN 0 ELSE tail[1]],
                           Drop(tail, 1))
    <3>1. ReadAsWritten(m, about.password, tail)
      BY <1>1, <1>2, RoomReadBack, Zenon
    <3> QED
      BY <1>3, <3>1 DEF ReadAsWritten
  <2> HIDE DEF slots
  <2> QED
    BY <1>2, <1>4, <2>1
<1>6. Shown(m, about) = v
  <2>1. Shown(m, about) = [m EXCEPT !.password = Password(m, about.password), !.slots = slots,
                                    !.seed = IF about.seed THEN m.seed ELSE 0]
    BY DEF Shown, Password
  <2> HIDE DEF slots
  <2> QED
    BY <1>1, <1>4, <2>1
<1> QED
  BY <1>5, <1>6, ReadFields

-----------------------------------------------------------------------------
(* frames *)

(* A relayed frame differs from the one sent by its slot                   *)
(* (build_relayed_match_score_update).                                     *)
LEMMA FrameRelayed ==
    ASSUME NEW p \in Seq(Int), NEW seat \in Int, ~ ReadFrame(p).failed
    PROVE  /\ ReadFrame(Relayed(p, seat)).value = [ReadFrame(p).value EXCEPT !.slot = seat]
           /\ Len(Relayed(p, seat)) = Len(p)
<1>1. ~ (Len(p) < 4)
  BY DEF ReadFrame, Failed
<1>2. PICK q : q = Relayed(p, seat)
  OBVIOUS
<1>3. PICK l \in Nat : l = Len(p)
  BY LenProperties
<1>4. Len(q) = l /\ q[2] = seat /\ q[1] = p[1] /\ q[3] = p[3] /\ q[4] = p[4] /\ (l >= 6 => q[5] = p[5] /\ q[6] = p[6])
  <2>1. p = [i \in 1 .. l |-> p[i]] /\ l >= 4
    BY <1>1, <1>3, LenProperties
  <2>2. q = [i \in 1 .. l |-> IF i = 2 THEN seat ELSE p[i]]
    BY <1>2, <2>1 DEF Relayed
  <2>3. q \in [1 .. l -> Int]
    <3>1. \A i \in 1 .. l : p[i] \in Int
      BY <1>3, ElementOfSeq
    <3> QED
      BY <2>2, <3>1
  <2>4. Len(q) = l
    BY <2>3
  <2> QED
    BY <2>1, <2>2, <2>4
<1>5. PICK both : both = (p[4] # 0 /\ l >= 6)
  OBVIOUS
<1>6. PICK v : v = [time |-> p[1], slot |-> p[2], score |-> p[3], scoreV2 |-> p[4] # 0,
                    portions |-> IF both THEN <<p[5], p[6]>> ELSE <<0, 0>>]
  OBVIOUS
<1>7. ReadFrame(p) = Read(v, Drop(p, IF both THEN 6 ELSE 4))
  BY <1>1, <1>3, <1>5, <1>6 DEF ReadFrame
<1>8. PICK w : w = [time |-> q[1], slot |-> q[2], score |-> q[3], scoreV2 |-> q[4] # 0,
                    portions |-> IF both THEN <<q[5], q[6]>> ELSE <<0, 0>>]
  OBVIOUS
<1>9. ReadFrame(q) = Read(w, Drop(q, IF both THEN 6 ELSE 4))
  BY <1>1, <1>3, <1>4, <1>5, <1>8 DEF ReadFrame
<1>10. (IF both THEN <<q[5], q[6]>> ELSE <<0, 0>>) = IF both THEN <<p[5], p[6]>> ELSE <<0, 0>>
  BY <1>4, <1>5
<1>11. w = [v EXCEPT !.slot = seat]
  <2>1. PICK portions : portions = IF both THEN <<p[5], p[6]>> ELSE <<0, 0>>
    OBVIOUS
  <2>2. v = [time |-> p[1], slot |-> p[2], score |-> p[3], scoreV2 |-> p[4] # 0, portions |-> portions]
    BY <1>6, <2>1
  <2>3. w = [time |-> p[1], slot |-> seat, score |-> p[3], scoreV2 |-> p[4] # 0, portions |-> portions]
    BY <1>4, <1>8, <1>10, <2>1
  <2> QED
    BY <2>2, <2>3
<1> QED
  BY <1>2, <1>3, <1>4, <1>7, <1>9, <1>11, ReadFields, SMTT(20)

(* A packet: its id, its length, its payload (build_packet). *)
LEMMA PacketProperties ==
    ASSUME NEW id \in Int, NEW p \in Seq(Int), NEW k, k = Packet(id, p)
    PROVE  /\ k \in Seq(Int) /\ Len(k) = 2 + Len(p)
           /\ k[1] = id /\ k[2] = Len(p)
           /\ \A j \in 1 .. Len(p) : k[2 + j] = p[j]
<1>1. PICK h : h = <<id, Len(p)>>
  OBVIOUS
<1>2. h \in Seq(Int) /\ Len(h) = 2 /\ h[1] = id /\ h[2] = Len(p)
  BY <1>1, LenProperties
<1>3. k = h \o p
  BY <1>1 DEF Packet
<1>4. /\ k \in Seq(Int) /\ Len(k) = Len(h) + Len(p)
      /\ \A j \in 1 .. Len(h) : k[j] = h[j]
      /\ \A j \in 1 .. Len(p) : k[Len(h) + j] = p[j]
  <2>1. h \in Seq(Int)
    BY <1>2
  <2>2. h \o p \in Seq(Int) /\ Len(h \o p) = Len(h) + Len(p)
    BY <2>1, AppendedProperties
  <2>3. \A j \in 1 .. Len(h) : (h \o p)[j] = h[j]
    BY <2>1, AppendedProperties
  <2>4. \A j \in 1 .. Len(p) : (h \o p)[Len(h) + j] = p[j]
    BY <2>1, AppendedProperties
  <2> QED
    BY <1>3, <2>2, <2>3, <2>4
<1>5. k[1] = h[1] /\ k[2] = h[2]
  BY <1>2, <1>4
<1> QED
  BY <1>2, <1>4, <1>5

(* To leave out n and then k is to leave out n + k. *)
LEMMA DropTwice ==
    ASSUME NEW s \in Seq(Int), NEW n \in 0 .. Len(s), NEW k \in 0 .. Len(s) - n
    PROVE  Drop(Drop(s, n), k) = Drop(s, n + k)
<1>1. PICK l \in Nat : l = Len(s)
  BY LenProperties
<1>2. PICK t : t = Drop(s, n)
  OBVIOUS
<1>3. n \in 0 .. l /\ k \in 0 .. l - n /\ n + k \in 0 .. l
  BY <1>1
<1>4. t \in Seq(Int) /\ Len(t) = l - n /\ \A i \in 1 .. l - n : t[i] = s[n + i]
  BY <1>1, <1>2, DropProperties
<1>5. PICK u : u = Drop(t, k)
  OBVIOUS
<1>6. u \in Seq(Int) /\ Len(u) = (l - n) - k /\ \A i \in 1 .. (l - n) - k : u[i] = t[k + i]
  <2>1. PICK m : m = l - n
    OBVIOUS
  <2>2. k \in 0 .. Len(t) /\ Len(t) = m
    BY <1>3, <1>4, <2>1
  <2>3. u \in Seq(Int) /\ Len(u) = Len(t) - k /\ \A i \in 1 .. Len(t) - k : u[i] = t[k + i]
    BY <1>4, <1>5, <2>2, DropProperties
  <2> QED
    BY <2>1, <2>2, <2>3
<1>7. PICK v : v = Drop(s, n + k)
  OBVIOUS
<1>8. v \in Seq(Int) /\ Len(v) = l - (n + k) /\ \A i \in 1 .. l - (n + k) : v[i] = s[(n + k) + i]
  BY <1>1, <1>3, <1>7, DropProperties
<1>9. Len(u) = Len(v)
  BY <1>3, <1>6, <1>8
<1>10. ASSUME NEW i \in 1 .. Len(u) PROVE u[i] = v[i]
  <2>1. i \in 1 .. (l - n) - k /\ i \in 1 .. l - (n + k) /\ k + i \in 1 .. l - n /\ n + (k + i) = (n + k) + i
    BY <1>3, <1>6
  <2>2. u[i] = t[k + i]
    BY <1>6, <2>1
  <2>3. t[k + i] = s[n + (k + i)]
    BY <1>4, <2>1
  <2>4. v[i] = s[(n + k) + i]
    BY <1>8, <2>1
  <2> QED
    BY <2>1, <2>2, <2>3, <2>4
<1> QED
  BY <1>2, <1>5, <1>6, <1>7, <1>8, <1>9, <1>10, SeqEqual

-----------------------------------------------------------------------------
(* and streams of packets. *)

(* a packet in the history *)
Sent == [id : Int, payload : Seq(Int), about : [password : BOOLEAN, seed : BOOLEAN], end : Nat]

(* where packet n of ps begins: behind the one before it *)
Start(ps, n) == IF n = 1 THEN 0 ELSE ps[n - 1].end

(* The stream s holds the packets ps one behind the other, as far as it goes. *)
Laid(s, ps) ==
    /\ s \in Seq(Int) /\ ps \in Seq(Sent)
    /\ \A n \in 1 .. Len(ps) : ps[n].end = Start(ps, n) + 2 + Len(ps[n].payload)
    /\ \A n \in 1 .. Len(ps) : \A j \in 1 .. 2 + Len(ps[n].payload) :
          Start(ps, n) + j <= Len(s) => s[Start(ps, n) + j] = Packet(ps[n].id, ps[n].payload)[j]
    /\ Len(s) <= Start(ps, Len(ps) + 1)

(* What the parts of a stream are. *)
LEMMA LaidTyped ==
    ASSUME NEW s, NEW ps, Laid(s, ps)
    PROVE  /\ Len(s) \in Nat /\ Len(ps) \in Nat /\ s \in Seq(Int)
           /\ \A n \in 1 .. Len(ps) :
                 /\ ps[n] \in Sent /\ ps[n].end \in Nat /\ ps[n].id \in Int
                 /\ ps[n].payload \in Seq(Int) /\ Len(ps[n].payload) \in Nat
           /\ \A n \in 1 .. Len(ps) + 1 : Start(ps, n) \in Nat
           /\ \A n \in 1 .. Len(ps) : Start(ps, n + 1) = ps[n].end
<1>1. Len(s) \in Nat /\ Len(ps) \in Nat /\ s \in Seq(Int) /\ ps \in Seq(Sent)
  BY LenProperties DEF Laid
<1>2. ASSUME NEW n \in 1 .. Len(ps)
      PROVE  /\ ps[n] \in Sent /\ ps[n].end \in Nat /\ ps[n].id \in Int
             /\ ps[n].payload \in Seq(Int) /\ Len(ps[n].payload) \in Nat
  <2>1. ps[n] \in Sent
    BY <1>1, ElementOfSeq
  <2> QED
    BY <2>1, LenProperties DEF Sent
<1>3. ASSUME NEW n \in 1 .. Len(ps) + 1 PROVE Start(ps, n) \in Nat
  <2>1. CASE n = 1
    BY <2>1 DEF Start
  <2>2. CASE n # 1
    <3>1. n - 1 \in 1 .. Len(ps)
      BY <1>1, <2>2
    <3> QED
      BY <1>2, <2>2, <3>1 DEF Start
  <2> QED
    BY <2>1, <2>2
<1>4. ASSUME NEW n \in 1 .. Len(ps) PROVE Start(ps, n + 1) = ps[n].end
  <2>1. n + 1 # 1 /\ (n + 1) - 1 = n
    BY <1>1
  <2> QED
    BY <2>1 DEF Start
<1> QED
  BY <1>1, <1>2, <1>3, <1>4

(* A packet behind another begins behind its end. *)
LEMMA StartsGrow ==
    ASSUME NEW s, NEW ps, Laid(s, ps), NEW n \in 1 .. Len(ps), NEW k \in n + 1 .. Len(ps) + 1
    PROVE  ps[n].end <= Start(ps, k)
<1> DEFINE B == {j \in Nat : j \in n + 1 .. Len(ps) + 1 /\ ~ (ps[n].end <= Start(ps, j))}
<1>1. Len(ps) \in Nat /\ n \in Nat /\ n >= 1 /\ ps[n].end \in Nat
  BY LaidTyped
<1>2. SUFFICES ASSUME B # {} PROVE FALSE
  BY <1>1
<1>3. PICK j \in B : \A i \in B : j <= i
  <2>1. B \in SUBSET Nat
    OBVIOUS
  <2> HIDE DEF B
  <2> QED
    BY <1>2, <2>1, Least
<1>4. j \in Nat /\ j \in n + 1 .. Len(ps) + 1 /\ ~ (ps[n].end <= Start(ps, j))
  OBVIOUS
<1>5. j # n + 1
  BY <1>1, <1>4, LaidTyped
<1>6. PICK i \in Nat : i = j - 1
  BY <1>1, <1>4
<1>7. i \in n + 1 .. Len(ps) + 1 /\ i \in 1 .. Len(ps) /\ ~ (j <= i) /\ j = i + 1
  BY <1>1, <1>4, <1>5, <1>6
<1>8. ps[n].end <= Start(ps, i)
  <2>1. i \notin B
    BY <1>3, <1>7
  <2> QED
    BY <1>7, <2>1
<1>9. /\ Start(ps, j) = ps[i].end /\ ps[i].end = Start(ps, i) + 2 + Len(ps[i].payload)
      /\ Start(ps, i) \in Nat /\ Len(ps[i].payload) \in Nat
  <2>1. Start(ps, i + 1) = ps[i].end /\ Len(ps[i].payload) \in Nat
    BY <1>7, LaidTyped
  <2>2. i \in 1 .. Len(ps) + 1
    BY <1>1, <1>7
  <2>3. Start(ps, i) \in Nat
    BY <2>2, LaidTyped
  <2> QED
    BY <1>7, <2>1, <2>3 DEF Laid
<1> QED
  BY <1>1, <1>4, <1>8, <1>9, SMTT(20)

(* what a packet is handled as *)
Handled(p) == [id |-> p.id, payload |-> p.payload]

(* where the stream goes on after n packets *)
After(s, ps, n) == Drop(s, Start(ps, n + 1))

(* A packet that is there as a whole is the next one handled, and what     *)
(* follows it is what is left.                                             *)
LEMMA PacketThere ==
    ASSUME NEW s, NEW ps, Laid(s, ps), NEW n \in 1 .. Len(ps), ps[n].end <= Len(s),
           NEW t, t = After(s, ps, n - 1)
    PROVE  /\ t \in Seq(Int) /\ Whole(t)
           /\ PacketIn(t) = Handled(ps[n])
           /\ Behind(t) = After(s, ps, n)
<1>1. PICK l \in Nat, b \in Nat, p \in Seq(Int), i \in Int, m \in Nat :
          l = Len(s) /\ b = Start(ps, n) /\ p = ps[n].payload /\ i = ps[n].id /\ m = Len(p)
  <2>1. n \in 1 .. Len(ps) + 1
    BY LaidTyped
  <2> QED
    BY <2>1, LaidTyped
<1>2. ps[n].end = b + 2 + m /\ b + 2 + m <= l
  BY <1>1 DEF Laid
<1>3. s \in Seq(Int) /\ b \in 0 .. l
  BY <1>1, <1>2 DEF Laid
<1>4. t = Drop(s, b)
  <2>1. (n - 1) + 1 = n
    BY LaidTyped
  <2> QED
    BY <1>1, <2>1 DEF After
<1>5. t \in Seq(Int) /\ Len(t) = l - b /\ \A j \in 1 .. l - b : t[j] = s[b + j]
  <2>1. b \in 0 .. Len(s)
    BY <1>1, <1>3
  <2>2. /\ Drop(s, b) \in Seq(Int)
        /\ Len(Drop(s, b)) = Len(s) - b
        /\ \A j \in 1 .. Len(s) - b : Drop(s, b)[j] = s[b + j]
    BY <1>3, <2>1, DropProperties, Zenon
  <2> QED
    BY <1>1, <1>4, <2>2, Zenon
<1>6. PICK k : k = Packet(i, p)
  OBVIOUS
<1>7. k[1] = i /\ k[2] = m /\ \A j \in 1 .. m : k[2 + j] = p[j]
  <2>1. k[1] = i /\ k[2] = Len(p) /\ \A j \in 1 .. Len(p) : k[2 + j] = p[j]
    BY <1>6, PacketProperties, SMTT(20)
  <2> QED
    BY <1>1, <2>1
<1>8. ASSUME NEW j \in 1 .. 2 + m PROVE t[j] = k[j]
  <2>1. j \in 1 .. l - b /\ b + j <= l
    BY <1>2
  <2>2. s[b + j] = k[j]
    BY <1>1, <1>6, <2>1 DEF Laid
  <2> QED
    BY <1>5, <2>1, <2>2
<1>9. t[1] = i /\ t[2] = m
  <2>1. 1 \in 1 .. 2 + m /\ 2 \in 1 .. 2 + m
    OBVIOUS
  <2> QED
    BY <1>7, <1>8, <2>1
<1>10. Whole(t)
  <2>1. PICK d \in Nat : d = Len(t)
    BY <1>5, LenProperties
  <2>2. d = l - b
    BY <1>5, <2>1
  <2>3. d >= 2 /\ m \in 0 .. d - 2
    BY <1>2, <2>2
  <2> QED
    BY <1>9, <2>1, <2>3 DEF Whole
<1>11. SubSeq(t, 3, 2 + m) = p
  <2>1. PICK u : u = SubSeq(t, 3, 2 + m)
    OBVIOUS
  <2>2. 3 \in 1 .. Len(t) + 1 /\ 2 + m \in 3 - 1 .. Len(t)
    BY <1>2, <1>5
  <2>3. u \in Seq(Int) /\ Len(u) = (2 + m) - 3 + 1 /\ \A j \in 1 .. (2 + m) - 3 + 1 : u[j] = t[3 + j - 1]
    <3>1. PICK c, e : c = 3 /\ e = 2 + m
      OBVIOUS
    <3>2. c \in 1 .. Len(t) + 1 /\ e \in c - 1 .. Len(t) /\ u = SubSeq(t, c, e)
      BY <2>1, <2>2, <3>1
    <3>3. u \in Seq(Int) /\ Len(u) = e - c + 1 /\ \A j \in 1 .. e - c + 1 : u[j] = t[c + j - 1]
      <4>1. t \in Seq(Int)
        BY <1>5
      <4> QED
        BY <3>2, <4>1, SubSeqProperties, SMTT(20)
    <3> QED
      BY <3>1, <3>3
  <2>4. Len(u) = Len(p)
    BY <1>1, <2>3
  <2>5. ASSUME NEW j \in 1 .. Len(u) PROVE u[j] = p[j]
    <3>1. j \in 1 .. m /\ j \in 1 .. (2 + m) - 3 + 1 /\ 3 + j - 1 = 2 + j /\ 2 + j \in 1 .. 2 + m
      BY <1>1, <2>4
    <3>2. u[j] = t[2 + j]
      BY <2>3, <3>1
    <3> QED
      BY <1>7, <1>8, <3>1, <3>2
  <2> QED
    BY <1>1, <2>1, <2>3, <2>4, <2>5, SeqEqual
<1>12. PacketIn(t) = Handled(ps[n])
  BY <1>1, <1>9, <1>11 DEF PacketIn, Handled
<1>13. Behind(t) = After(s, ps, n)
  <2>1. Start(ps, n + 1) = b + (2 + m)
    <3>1. Start(ps, n + 1) = ps[n].end
      BY LaidTyped
    <3> QED
      BY <1>2, <3>1
  <2>2. 2 + m \in 0 .. l - b
    BY <1>2, <1>3
  <2>3. Drop(Drop(s, b), 2 + m) = Drop(s, b + (2 + m))
    BY <1>1, <1>3, <2>2, DropTwice
  <2> QED
    BY <1>4, <1>9, <2>1, <2>3 DEF Behind, After
<1> QED
  BY <1>5, <1>10, <1>12, <1>13

(* the first w packets, and none behind them, are there as a whole *)
WholeUpTo(s, ps, w) ==
    /\ w \in 0 .. Len(ps)
    /\ \A n \in 1 .. Len(ps) : ps[n].end <= Len(s) <=> n <= w

(* The packets that are there as a whole are the first ones: those behind  *)
(* end later.                                                              *)
LEMMA WholeOnes ==
    ASSUME NEW s, NEW ps, Laid(s, ps)
    PROVE  \E w : WholeUpTo(s, ps, w)
<1> DEFINE B == {v \in Nat : v \in 1 .. Len(ps) + 1 /\ (v <= Len(ps) => Len(s) < ps[v].end)}
<1>1. Len(ps) \in Nat /\ Len(s) \in Nat
  BY LaidTyped
<1>2. PICK v \in B : \A u \in B : v <= u
  <2>1. Len(ps) + 1 \in B
    BY <1>1
  <2>2. B \in SUBSET Nat /\ B # {}
    BY <2>1
  <2> HIDE DEF B
  <2> QED
    BY <2>2, Least
<1>3. v \in Nat /\ v \in 1 .. Len(ps) + 1 /\ (v <= Len(ps) => Len(s) < ps[v].end)
  OBVIOUS
<1>4. PICK w : w = v - 1
  OBVIOUS
<1>5. w \in 0 .. Len(ps)
  BY <1>1, <1>3, <1>4
<1>6. ASSUME NEW n \in 1 .. Len(ps), n <= w PROVE ps[n].end <= Len(s)
  <2>1. n \in Nat /\ n \in 1 .. Len(ps) + 1 /\ n < v /\ n <= Len(ps)
    BY <1>1, <1>3, <1>4, <1>6
  <2>2. n \notin B
    <3> HIDE DEF B
    <3> QED
      BY <1>2, <1>3, <2>1
  <2>3. ~ (Len(s) < ps[n].end)
    BY <2>1, <2>2
  <2>4. ps[n].end \in Nat
    BY LaidTyped
  <2> QED
    BY <1>1, <2>3, <2>4
<1>7. ASSUME NEW n \in 1 .. Len(ps), ps[n].end <= Len(s) PROVE n <= w
  <2>1. SUFFICES ASSUME ~ (n <= w) PROVE FALSE
    OBVIOUS
  <2>2. v <= n /\ v \in 1 .. Len(ps) /\ n \in Nat
    BY <1>1, <1>3, <1>4, <2>1
  <2>3. Len(s) < ps[v].end /\ ps[v].end \in Nat /\ ps[n].end \in Nat
    BY <1>3, <2>2, LaidTyped
  <2>4. CASE v = n
    BY <1>1, <1>7, <2>3, <2>4
  <2>5. CASE v # n
    <3>1. n \in v + 1 .. Len(ps) + 1 /\ n \in 1 .. Len(ps) + 1
      BY <1>1, <1>3, <2>2, <2>5
    <3>2. ps[v].end <= Start(ps, n)
      BY <2>2, <3>1, StartsGrow
    <3>3. ps[n].end = Start(ps, n) + 2 + Len(ps[n].payload) /\ Start(ps, n) \in Nat /\ Len(ps[n].payload) \in Nat
      <4>1. Start(ps, n) \in Nat
        BY <3>1, LaidTyped
      <4>2. Len(ps[n].payload) \in Nat
        BY LaidTyped
      <4> QED
        BY <4>1, <4>2 DEF Laid
    <3> QED
      BY <1>1, <1>7, <2>3, <3>2, <3>3
  <2> QED
    BY <2>4, <2>5
<1>8. WholeUpTo(s, ps, w)
  BY <1>5, <1>6, <1>7 DEF WholeUpTo
<1> QED
  BY <1>8

(* Behind the last whole packet is no other. *)
LEMMA NothingWhole ==
    ASSUME NEW s, NEW ps, Laid(s, ps), NEW w, WholeUpTo(s, ps, w), NEW t, t = After(s, ps, w)
    PROVE  t \in Seq(Int) /\ ~ Whole(t)
<1>1. PICK l \in Nat, c \in Nat : l = Len(s) /\ c = Len(ps)
  BY LaidTyped
<1>2. s \in Seq(Int) /\ w \in 0 .. c
  BY <1>1 DEF Laid, WholeUpTo
<1>3. PICK b \in Nat : b = Start(ps, w + 1)
  <2>1. w + 1 \in 1 .. c + 1
    BY <1>1, <1>2
  <2> QED
    BY <1>1, <2>1, LaidTyped
<1>4. b <= l
  <2>1. CASE w = 0
    BY <1>1, <1>3, <2>1 DEF Start
  <2>2. CASE w # 0
    <3>1. w \in 1 .. Len(ps)
      BY <1>1, <1>2, <2>2
    <3>2. w <= w
      BY <1>1, <1>2
    <3>3. ps[w].end <= Len(s)
      BY <3>1, <3>2 DEF WholeUpTo
    <3>4. Start(ps, w + 1) = ps[w].end
      BY <3>1, LaidTyped
    <3> QED
      BY <1>1, <1>3, <3>3, <3>4
  <2> QED
    BY <2>1, <2>2
<1>5. t \in Seq(Int) /\ Len(t) = l - b /\ \A j \in 1 .. l - b : t[j] = s[b + j]
  <2>1. b \in 0 .. Len(s) /\ t = Drop(s, b)
    BY <1>1, <1>3, <1>4 DEF After
  <2> QED
    BY <1>1, <1>2, <2>1, DropProperties
<1>6. CASE w = c
  <2>1. l <= b
    BY <1>1, <1>3, <1>6 DEF Laid
  <2> QED
    BY <1>4, <1>5, <2>1 DEF Whole
<1>7. CASE w # c
  <2>1. PICK n : n = w + 1
    OBVIOUS
  <2>2. n \in 1 .. Len(ps) /\ ~ (n <= w)
    BY <1>1, <1>2, <1>7, <2>1
  <2>3. PICK p \in Seq(Int), i \in Int, m \in Nat : p = ps[n].payload /\ i = ps[n].id /\ m = Len(p)
    BY <2>2, LaidTyped
  <2>4. ps[n].end = b + 2 + m
    BY <1>3, <2>1, <2>2, <2>3 DEF Laid
  <2>5. ~ (ps[n].end <= Len(s))
    BY <2>2 DEF WholeUpTo
  <2>6. l < b + 2 + m
    BY <1>1, <2>4, <2>5
  <2>7. CASE l - b < 2
    BY <1>5, <2>7 DEF Whole
  <2>8. CASE ~ (l - b < 2)
    <3>1. PICK k : k = Packet(i, p)
      OBVIOUS
    <3>2. k[2] = Len(p)
      BY <3>1, PacketProperties
    <3>3. 2 \in 1 .. 2 + m /\ 2 \in 1 .. l - b /\ b + 2 <= l
      BY <1>4, <2>8
    <3>4. s[b + 2] = k[2]
      BY <1>1, <1>3, <2>1, <2>2, <2>3, <3>1, <3>3 DEF Laid
    <3>5. t[2] = m
      BY <1>5, <2>3, <3>2, <3>3, <3>4
    <3>6. ~ (m \in 0 .. (l - b) - 2)
      BY <1>4, <2>6
    <3> QED
      BY <1>5, <3>5, <3>6 DEF Whole
  <2> QED
    BY <2>7, <2>8
<1> QED
  BY <1>6, <1>7

(* What is handled behind k packets: those that are there as a whole. *)
LEMMA PacketsFrom ==
    ASSUME NEW s, NEW ps, Laid(s, ps), NEW w, WholeUpTo(s, ps, w), NEW k \in 0 .. w
    PROVE  Packets[After(s, ps, k)] = [n \in 1 .. w - k |-> Handled(ps[k + n])]
<1> DEFINE Lists(i) == Packets[After(s, ps, i)] = [n \in 1 .. w - i |-> Handled(ps[i + n])]
           B == {j \in Nat : j <= w /\ ~ Lists(w - j)}
<1>1. Len(ps) \in Nat /\ Len(s) \in Nat /\ w \in Nat /\ w <= Len(ps)
  BY LaidTyped DEF WholeUpTo
<1>2. B = {}
  <2>1. SUFFICES ASSUME B # {} PROVE FALSE
    OBVIOUS
  <2>2. PICK j \in B : \A i \in B : j <= i
    <3>1. B \in SUBSET Nat
      OBVIOUS
    <3> HIDE DEF B
    <3> QED
      BY <2>1, <3>1, Least
  <2> HIDE DEF Lists
  <2>3. PICK i \in Nat : i = w - j /\ i <= w /\ ~ Lists(i)
    <3>1. j \in Nat /\ j <= w /\ ~ Lists(w - j)
      OBVIOUS
    <3>2. w - j \in Nat /\ w - j <= w
      BY <1>1, <3>1
    <3> QED
      BY <3>1, <3>2
  <2>4. CASE i = w
    <3>1. PICK t : t = After(s, ps, w)
      OBVIOUS
    <3>2. t \in Seq(Int) /\ ~ Whole(t)
      BY <3>1, NothingWhole
    <3>3. Packets[t] = << >>
      BY <3>2, PacketsRecurses
    <3>4. << >> = [n \in 1 .. w - w |-> Handled(ps[w + n])]
      BY <1>1
    <3> QED
      BY <2>3, <2>4, <3>1, <3>3, <3>4 DEF Lists
  <2>5. CASE i # w
    <3>1. PICK n : n = i + 1
      OBVIOUS
    <3>2. n \in 1 .. Len(ps) /\ n <= w /\ n \in Nat /\ i = n - 1
      BY <1>1, <2>3, <2>5, <3>1
    <3>3. ps[n].end <= Len(s)
      BY <3>2 DEF WholeUpTo
    <3>4. PICK t : t = After(s, ps, i)
      OBVIOUS
    <3>5. t \in Seq(Int) /\ Whole(t) /\ PacketIn(t) = Handled(ps[n]) /\ Behind(t) = After(s, ps, n)
      BY <3>2, <3>3, <3>4, PacketThere
    <3>6. Lists(n)
      <4>1. w - n \notin B
        <5>1. j <= w /\ w - n < j /\ w - n \in Nat /\ j \in Nat
          BY <1>1, <2>3, <3>2
        <5> HIDE DEF B
        <5> QED
          BY <2>2, <5>1
      <4>2. w - n \in Nat /\ w - n <= w /\ w - (w - n) = n
        BY <1>1, <3>2
      <4> QED
        BY <4>1, <4>2
    <3>7. Packets[t] = <<Handled(ps[n])>> \o [m \in 1 .. w - n |-> Handled(ps[n + m])]
      <4>1. Packets[t] = <<PacketIn(t)>> \o Packets[Behind(t)]
        BY <3>5, PacketsRecurses
      <4> QED
        BY <3>5, <3>6, <4>1 DEF Lists
    <3>8. <<Handled(ps[n])>> \o [m \in 1 .. w - n |-> Handled(ps[n + m])]
          = [m \in 1 .. w - i |-> Handled(ps[i + m])]
      <4>1. PICK g, h : g = [m \in 1 .. w - n |-> Handled(ps[n + m])] /\ h = [m \in 1 .. w - i |-> Handled(ps[i + m])]
        OBVIOUS
      <4>2. PICK q \in Nat : q = w - n
        BY <1>1, <3>2
      <4>3. DOMAIN g = 1 .. q /\ g \in Seq({Handled(ps[m]) : m \in Nat}) /\ Len(g) = q
        <5>1. \A m \in 1 .. q : n + m \in Nat
          BY <3>2, <4>2
        <5> QED
          BY <4>1, <4>2, <5>1
      <4>4. DOMAIN h = 1 .. q + 1 /\ h \in Seq({Handled(ps[m]) : m \in Nat}) /\ Len(h) = q + 1
        <5>1. w - i = q + 1 /\ \A m \in 1 .. q + 1 : i + m \in Nat
          BY <1>1, <2>3, <3>2, <4>2
        <5> QED
          BY <4>1, <5>1, SMTT(20)
      <4>5. PICK f : f = <<Handled(ps[n])>> \o g
        OBVIOUS
      <4>6. Len(f) = q + 1 /\ f \in Seq({Handled(ps[m]) : m \in Nat})
        BY <3>2, <4>3, <4>5
      <4>7. ASSUME NEW m \in 1 .. q + 1 PROVE f[m] = h[m]
        <5>1. h[m] = Handled(ps[i + m])
          BY <4>1, <4>4
        <5>2. CASE m = 1
          BY <3>1, <4>3, <4>5, <5>1, <5>2
        <5>3. CASE m # 1
          <6>1. m - 1 \in 1 .. q /\ n + (m - 1) = i + m
            BY <2>3, <3>1, <4>2, <5>3
          <6>2. f[m] = g[m - 1]
            BY <4>3, <4>5, <5>3
          <6>3. g[m - 1] = Handled(ps[n + (m - 1)])
            BY <4>1, <4>2, <6>1
          <6> QED
            BY <5>1, <6>1, <6>2, <6>3
        <5> QED
          BY <5>2, <5>3
      <4> QED
        BY <4>1, <4>4, <4>5, <4>6, <4>7, SeqEqual
    <3> QED
      BY <2>3, <3>4, <3>7, <3>8 DEF Lists
  <2> QED
    BY <2>4, <2>5
<1>3. w - k \in Nat /\ w - k <= w /\ w - (w - k) = k
  BY <1>1
<1> QED
  BY <1>2, <1>3

-----------------------------------------------------------------------------
(* The invariant *)

(* the payload of a packet with room m in it *)
RoomWritten(m, about) == IF about.seed THEN WriteRoom(m, about.password) ELSE WriteFields(m, about.password)

(* Nothing of the stream is lost. *)
Complete(s, ps) == Len(s) = Start(ps, Len(ps) + 1)

(* The inductive invariant: the stream is laid, complete unless it was     *)
(* cut, and what was sent of the room is what it is written as.            *)
WireInv ==
    /\ room \in Rooms
    /\ cut \in BOOLEAN
    /\ Laid(stream, sent)
    /\ ~ cut => Complete(stream, sent)
    /\ \A n \in 1 .. Len(sent) : sent[n].id = RoomId => sent[n].payload = RoomWritten(room, sent[n].about)

(* An empty stream is laid. *)
LEMMA WireInitInv == WireInit => WireInv
<1> SUFFICES ASSUME WireInit PROVE WireInv
  OBVIOUS
<1>1. stream = << >> /\ sent = << >> /\ room \in Rooms /\ cut = FALSE
  BY DEF WireInit
<1>2. /\ << >> \in Seq(Int) /\ << >> \in Seq(Sent) /\ Len(<< >>) = 0
      /\ \A n \in 1 .. Len(<< >>) : FALSE
  OBVIOUS
<1>3. Start(sent, Len(sent) + 1) = 0
  BY <1>1, <1>2 DEF Start
<1>4. Laid(stream, sent)
  BY <1>1, <1>2, <1>3 DEF Laid
<1> QED
  BY <1>1, <1>2, <1>3, <1>4 DEF WireInv, Complete

(* A packet behind the others is laid like them. *)
LEMMA LaidLonger ==
    ASSUME NEW s, NEW ps, Laid(s, ps), Complete(s, ps),
           NEW r \in Sent, NEW k, k = Packet(r.id, r.payload),
           NEW t, t = s \o k, r.end = Len(t), NEW qs, qs = Append(ps, r)
    PROVE  Laid(t, qs) /\ Complete(t, qs)
<1>1. PICK l \in Nat, c \in Nat : l = Len(s) /\ c = Len(ps)
  BY LaidTyped
<1>2. PICK m \in Nat : m = Len(r.payload)
  BY LenProperties DEF Sent
<1>3. k \in Seq(Int) /\ Len(k) = 2 + m
  <2>1. r.id \in Int /\ r.payload \in Seq(Int)
    BY DEF Sent
  <2> QED
    BY <1>2, <2>1, PacketProperties
<1>4. s \in Seq(Int) /\ ps \in Seq(Sent) /\ l = Start(ps, c + 1)
  BY <1>1 DEF Laid, Complete
<1>5. Appended(s, k, t)
  BY <1>3, <1>4, Appending, Zenon
<1>6. t \in Seq(Int) /\ Len(t) = l + (2 + m) /\ \A j \in 1 .. l : t[j] = s[j]
  BY <1>1, <1>3, <1>5 DEF Appended
<1>7. \A j \in 1 .. 2 + m : t[l + j] = k[j]
  BY <1>1, <1>3, <1>5 DEF Appended
<1>8. /\ qs \in Seq(Sent) /\ Len(qs) = c + 1
      /\ \A n \in 1 .. c : qs[n] = ps[n]
      /\ qs[c + 1] = r
  BY <1>1, <1>4, AppendProperties
<1>9. ASSUME NEW n \in 1 .. c + 1 PROVE Start(qs, n) = Start(ps, n)
  <2>1. n # 1 => n - 1 \in 1 .. c
    BY <1>1
  <2> QED
    BY <1>8, <2>1 DEF Start
<1>10. Start(qs, (c + 1) + 1) = r.end
  <2>1. (c + 1) + 1 # 1 /\ ((c + 1) + 1) - 1 = c + 1
    BY <1>1
  <2> QED
    BY <1>8, <2>1 DEF Start
<1>11. ASSUME NEW n \in 1 .. c + 1
       PROVE  qs[n].end = Start(qs, n) + 2 + Len(qs[n].payload)
  <2>1. CASE n = c + 1
    <3>1. qs[n] = r /\ Start(qs, n) = l
      BY <1>4, <1>8, <1>9, <2>1
    <3>2. r.end = l + 2 + m
      <4>1. r.end = Len(t) /\ Len(t) = l + (2 + m)
        BY <1>6
      <4>2. \A i, j \in Nat : i + (2 + j) = i + 2 + j
        OBVIOUS
      <4> QED
        BY <4>1, <4>2, <1>1, <1>2, Zenon
    <3>3. r.end = l + 2 + Len(r.payload)
      BY <1>2, <3>2
    <3> QED
      BY <3>1, <3>3, Zenon
  <2>2. CASE n \in 1 .. c
    <3>1. ps[n].end = Start(ps, n) + 2 + Len(ps[n].payload)
      BY <1>1, <2>2 DEF Laid
    <3>2. qs[n] = ps[n] /\ Start(qs, n) = Start(ps, n)
      BY <1>8, <1>9, <2>2
    <3> QED
      BY <3>1, <3>2
  <2> QED
    BY <1>1, <2>1, <2>2
<1>12. ASSUME NEW n \in 1 .. c + 1, NEW j \in 1 .. 2 + Len(qs[n].payload)
       PROVE  t[Start(qs, n) + j] = Packet(qs[n].id, qs[n].payload)[j]
  <2>1. CASE n = c + 1
    <3>1. qs[n] = r /\ Start(qs, n) = l
      BY <1>4, <1>8, <1>9, <2>1
    <3>2. j \in 1 .. 2 + m
      BY <1>2, <3>1
    <3>3. t[l + j] = Packet(r.id, r.payload)[j]
      BY <1>7, <3>2
    <3> QED
      BY <3>1, <3>3, Zenon
  <2>2. CASE n \in 1 .. c
    <3>1. qs[n] = ps[n] /\ Start(qs, n) = Start(ps, n)
      BY <1>8, <1>9, <2>2
    <3>2. PICK b \in Nat, p \in Nat : b = Start(ps, n) /\ p = Len(ps[n].payload)
      <4>1. n \in 1 .. Len(ps) /\ n \in 1 .. Len(ps) + 1
        BY <1>1, <2>2
      <4> QED
        BY <4>1, LaidTyped
    <3>3. ps[n].end = b + 2 + p
      BY <1>1, <2>2, <3>2 DEF Laid
    <3>4. ps[n].end <= l
      <4>1. n \in 1 .. Len(ps) /\ c + 1 \in n + 1 .. Len(ps) + 1
        BY <1>1, <2>2
      <4> QED
        BY <1>4, <4>1, StartsGrow
    <3>5. j \in 1 .. 2 + p /\ b + j \in 1 .. l /\ b + j <= Len(s)
      <4>1. Len(qs[n].payload) = p
        BY <3>1, <3>2
      <4>2. j \in 1 .. 2 + p
        BY <4>1
      <4>3. b + 2 + p <= l
        BY <3>3, <3>4
      <4>4. b + j \in 1 .. l
        BY <4>2, <4>3
      <4> QED
        BY <1>1, <4>2, <4>4
    <3>6. s[b + j] = Packet(ps[n].id, ps[n].payload)[j]
      BY <1>1, <2>2, <3>2, <3>5 DEF Laid
    <3> QED
      <4>1. t[b + j] = s[b + j]
        BY <1>6, <3>5
      <4> QED
        BY <3>1, <3>2, <3>6, <4>1, Zenon
  <2>3. n = c + 1 \/ n \in 1 .. c
    BY <1>1
  <2> QED
    BY <2>1, <2>2, <2>3, Zenon
<1>13. Len(t) = Start(qs, Len(qs) + 1)
  BY <1>8, <1>10
<1>14. Len(t) <= Start(qs, Len(qs) + 1)
  BY <1>6, <1>13
<1>15. \A n \in 1 .. Len(qs) : qs[n].end = Start(qs, n) + 2 + Len(qs[n].payload)
  BY <1>8, <1>11, Zenon
<1>16. \A n \in 1 .. Len(qs) : \A j \in 1 .. 2 + Len(qs[n].payload) :
          Start(qs, n) + j <= Len(t) => t[Start(qs, n) + j] = Packet(qs[n].id, qs[n].payload)[j]
  BY <1>8, <1>12, Zenon
<1> QED
  BY <1>6, <1>8, <1>13, <1>14, <1>15, <1>16, Zenon DEF Laid, Complete

(* So is what is left of a stream. *)
LEMMA LaidShorter ==
    ASSUME NEW s, NEW ps, Laid(s, ps), NEW n \in 0 .. Len(s), NEW t, t = SubSeq(s, 1, n)
    PROVE  Laid(t, ps)
<1>1. PICK l \in Nat : l = Len(s) /\ s \in Seq(Int)
  BY LaidTyped
<1>2. t \in Seq(Int) /\ Len(t) = n /\ \A j \in 1 .. n : t[j] = s[j]
  BY <1>1, ElementOfSeq
<1>3. Start(ps, Len(ps) + 1) \in Nat
  BY LaidTyped
<1>4. Len(t) <= Start(ps, Len(ps) + 1)
  BY <1>1, <1>2, <1>3 DEF Laid
<1>5. ASSUME NEW k \in 1 .. Len(ps), NEW j \in 1 .. 2 + Len(ps[k].payload), Start(ps, k) + j <= Len(t)
      PROVE  t[Start(ps, k) + j] = Packet(ps[k].id, ps[k].payload)[j]
  <2>1. k \in 1 .. Len(ps) + 1 /\ Len(ps) \in Nat
    BY LaidTyped
  <2>2. PICK b \in Nat : b = Start(ps, k)
    BY <2>1, LaidTyped
  <2>3. b + j \in 1 .. n /\ b + j <= Len(s)
    <3>1. Len(ps[k].payload) \in Nat
      BY LaidTyped
    <3> QED
      BY <1>1, <1>2, <1>5, <2>2, <3>1
  <2>4. s[b + j] = Packet(ps[k].id, ps[k].payload)[j]
    BY <2>2, <2>3 DEF Laid
  <2> QED
    BY <1>2, <2>2, <2>3, <2>4
<1> QED
  BY <1>2, <1>4, <1>5 DEF Laid

(* Sending a packet keeps the invariant. *)
LEMMA SendInv ==
    ASSUME WireInv, NEW id \in Int, NEW payload \in Seq(Int), NEW about \in [password : BOOLEAN, seed : BOOLEAN],
           Send(id, payload, about), id = RoomId => payload = RoomWritten(room, about)
    PROVE  WireInv'
<1>1. PICK r : r = [id |-> id, payload |-> payload, about |-> about, end |-> Len(stream')]
  OBVIOUS
<1>2. PICK k : k = Packet(id, payload)
  OBVIOUS
<1>3. /\ ~ cut /\ room' = room /\ cut' = cut
      /\ stream' = stream \o k /\ sent' = Append(sent, r)
  BY <1>1, <1>2 DEF Send
<1>4. Laid(stream, sent) /\ Complete(stream, sent)
  BY <1>3 DEF WireInv
<1>5. r \in Sent /\ r.id = id /\ r.payload = payload /\ r.about = about /\ r.end = Len(stream')
  <2>1. k \in Seq(Int) /\ stream \in Seq(Int)
    BY <1>2, <1>4, PacketProperties DEF Laid
  <2>2. stream' \in Seq(Int)
    BY <1>3, <2>1, AppendedProperties
  <2>3. Len(stream') \in Nat
    BY <2>2, LenProperties
  <2> QED
    BY <1>1, <2>3 DEF Sent
<1>6. Laid(stream', sent') /\ Complete(stream', sent')
  <2>1. k = Packet(r.id, r.payload)
    BY <1>2, <1>5
  <2> QED
    BY <1>3, <1>4, <1>5, <2>1, LaidLonger, Zenon
<1>7. PICK c \in Nat : c = Len(sent)
  BY <1>4, LaidTyped
<1>8. Len(sent') = c + 1 /\ (\A n \in 1 .. c : sent'[n] = sent[n]) /\ sent'[c + 1] = r
  <2>1. sent \in Seq(Sent)
    BY <1>4 DEF Laid
  <2> QED
    BY <1>3, <1>5, <1>7, <2>1, AppendProperties
<1>9. ASSUME NEW n \in 1 .. Len(sent'), sent'[n].id = RoomId
      PROVE  sent'[n].payload = RoomWritten(room, sent'[n].about)
  <2>1. CASE n = c + 1
    BY <1>5, <1>8, <1>9, <2>1
  <2>2. CASE n \in 1 .. c
    BY <1>7, <1>8, <1>9, <2>2 DEF WireInv
  <2> QED
    BY <1>7, <1>8, <2>1, <2>2
<1>10. \A n \in 1 .. Len(sent') : sent'[n].id = RoomId => sent'[n].payload = RoomWritten(room', sent'[n].about)
  BY <1>3, <1>9
<1>11. room' \in Rooms /\ cut' \in BOOLEAN
  BY <1>3 DEF WireInv
<1> QED
  BY <1>6, <1>10, <1>11 DEF WireInv, Complete

(* So does losing the rest of the stream. *)
LEMMA CutInv == WireInv /\ Cut => WireInv'
<1> SUFFICES ASSUME WireInv, Cut PROVE WireInv'
  OBVIOUS
<1>1. cut' = TRUE /\ room' = room /\ sent' = sent
  BY DEF Cut
<1>2. PICK n : n \in 0 .. Len(stream) - 1 /\ stream' = SubSeq(stream, 1, n)
  BY DEF Cut
<1>3. Laid(stream, sent)
  BY DEF WireInv
<1>4. n \in 0 .. Len(stream)
  BY <1>2, <1>3, LaidTyped
<1>5. Laid(stream', sent)
  BY <1>2, <1>3, <1>4, LaidShorter, Zenon
<1> QED
  BY <1>1, <1>5 DEF WireInv

(* What is written of a room is a payload. *)
LEMMA RoomPayload ==
    ASSUME NEW m \in Rooms, NEW about \in [password : BOOLEAN, seed : BOOLEAN]
    PROVE  RoomWritten(m, about) \in Seq(Int)
<1>1. about.password \in BOOLEAN /\ m.seed \in Int /\ << >> \in Seq(Int) /\ <<m.seed>> \in Seq(Int)
  BY WireAssumption
<1>2. WriteFields(m, about.password) \in Seq(Int)
  BY <1>1, FieldsWritten DEF Written
<1>3. WriteRoom(m, about.password) \in Seq(Int)
  BY <1>1, <1>2, AppendedProperties DEF WriteRoom
<1> QED
  BY <1>2, <1>3 DEF RoomWritten

(* WireInv is inductive. *)
LEMMA WireNextInv == WireInv /\ [WireNext]_wireVars => WireInv'
<1> SUFFICES ASSUME WireInv, [WireNext]_wireVars PROVE WireInv'
  OBVIOUS
<1> DEFINE Abouts == [password : BOOLEAN, seed : BOOLEAN]
<1>1. RoomId \in Int /\ FrameId \in Int /\ OtherId \in Int /\ FrameId # RoomId /\ OtherId # RoomId
  BY DEF RoomId, FrameId, OtherId
<1>2. CASE SendRoom
  <2>1. PICK password \in BOOLEAN, seed \in BOOLEAN :
            Send(RoomId, IF seed THEN WriteRoom(room, password) ELSE WriteFields(room, password),
                 [password |-> password, seed |-> seed])
    BY <1>2 DEF SendRoom
  <2>2. PICK about : about = [password |-> password, seed |-> seed]
    OBVIOUS
  <2>3. about \in Abouts /\ about.password = password /\ about.seed = seed
    BY <2>2
  <2>4. Send(RoomId, RoomWritten(room, about), about)
    BY <2>1, <2>2, <2>3, Zenon DEF RoomWritten
  <2>5. RoomWritten(room, about) \in Seq(Int)
    <3>1. room \in Rooms
      BY DEF WireInv
    <3> QED
      BY <2>3, <3>1, RoomPayload
  <2> QED
    BY <1>1, <2>3, <2>4, <2>5, SendInv, Zenon
<1>3. CASE SendFrame \/ SendOther
  <2>1. PICK id \in Int, payload \in Seq(Int), about \in Abouts :
            id # RoomId /\ Send(id, payload, about)
    <3>1. Frames \subseteq Seq(Int) /\ Others \subseteq Seq(Int)
      BY WireAssumption
    <3>2. [password |-> FALSE, seed |-> FALSE] \in Abouts
      OBVIOUS
    <3> HIDE DEF Abouts
    <3>3. CASE SendFrame
      BY <1>1, <3>1, <3>2, <3>3, Zenon DEF SendFrame
    <3>4. CASE SendOther
      BY <1>1, <3>1, <3>2, <3>4, Zenon DEF SendOther
    <3> QED
      BY <1>3, <3>3, <3>4
  <2> QED
    BY <2>1, SendInv, Zenon
<1>4. CASE Cut
  BY <1>4, CutInv
<1>5. CASE UNCHANGED wireVars
  <2>1. room' = room /\ stream' = stream /\ sent' = sent /\ cut' = cut
    BY <1>5 DEF wireVars
  <2> QED
    BY <2>1 DEF WireInv
<1> QED
  BY <1>2, <1>3, <1>4, <1>5 DEF WireNext

(* Of a laid stream the whole packets are handled. *)
LEMMA WholePacketsOnlyHolds ==
    ASSUME WireInv
    PROVE  WholePacketsOnly
<1>1. Laid(stream, sent)
  BY DEF WireInv
<1>2. PICK w : WholeUpTo(stream, sent, w)
  BY <1>1, WholeOnes
<1>3. PICK l \in Nat : l = Len(sent) /\ DOMAIN sent = 1 .. l /\ w \in 0 .. l
  <2>1. sent \in Seq(Sent)
    BY <1>1 DEF Laid
  <2> QED
    BY <1>2, <2>1, LenProperties DEF WholeUpTo
<1>4. After(stream, sent, 0) = stream
  <2>1. stream \in Seq(Int)
    BY <1>1 DEF Laid
  <2>2. Start(sent, 0 + 1) = 0
    BY DEF Start
  <2>3. SubSeq(stream, 1, Len(stream)) = stream
    BY <2>1, SubSeqFull
  <2> QED
    BY <2>2, <2>3 DEF After, Drop
<1>5. Packets[stream] = [n \in 1 .. w - 0 |-> Handled(sent[0 + n])]
  <2>1. 0 \in 0 .. w
    BY <1>3
  <2> QED
    BY <1>1, <1>2, <1>4, <2>1, PacketsFrom
<1>6. DOMAIN Packets[stream] = 1 .. w /\ \A n \in 1 .. w : Packets[stream][n] = Handled(sent[n])
  <2>1. w - 0 = w /\ \A n \in 1 .. w : 0 + n = n
    BY <1>3
  <2> QED
    BY <1>5, <2>1
<1>7. {n \in DOMAIN sent : sent[n].end <= Len(stream)} = 1 .. w
  <2>1. \A n \in 1 .. l : sent[n].end <= Len(stream) <=> n <= w
    BY <1>2, <1>3 DEF WholeUpTo
  <2> QED
    BY <1>3, <2>1
<1> QED
  BY <1>6, <1>7 DEF WholePacketsOnly, Handled

(* A room is read as it was written, with its players in their slots. *)
LEMMA RoomsHold ==
    ASSUME WireInv
    PROVE  RoomsReadAsWritten
<1>1. Laid(stream, sent) /\ room \in Rooms
  BY DEF WireInv
<1>2. DOMAIN sent = 1 .. Len(sent)
  BY <1>1, LenProperties DEF Laid
<1>3. ASSUME NEW n \in 1 .. Len(sent), sent[n].id = RoomId
      PROVE  LET r == ReadRoom(sent[n].payload)
             IN  ~r.failed /\ r.value = Shown(room, sent[n].about)
  <2>1. sent[n].payload = RoomWritten(room, sent[n].about)
    BY <1>3 DEF WireInv
  <2>2. sent[n].about \in [password : BOOLEAN, seed : BOOLEAN]
    BY <1>1, LaidTyped DEF Sent
  <2> QED
    BY <1>1, <2>1, <2>2, RoomShown DEF RoomWritten
<1> QED
  BY <1>2, <1>3 DEF RoomsReadAsWritten

(* A relayed frame is read as the one the server keeps. *)
LEMMA FramesHold ==
    ASSUME WireInv
    PROVE  FramesRelayed
<1>1. Laid(stream, sent)
  BY DEF WireInv
<1>2. DOMAIN sent = 1 .. Len(sent)
  BY <1>1, LenProperties DEF Laid
<1>3. \A n \in 1 .. Len(sent) : sent[n].payload \in Seq(Int)
  BY <1>1, LaidTyped
<1>4. \A seat \in Slots : seat \in Int
  BY DEF Slots
<1> QED
  BY <1>2, <1>3, <1>4, FrameRelayed DEF FramesRelayed

(* What one side writes, the other reads: of the packets sent those are    *)
(* handled that arrived as a whole, a room is read with its players in     *)
(* their slots, and a relayed frame as the one kept for the result, for    *)
(* every number of slots, every base of lengths and every room whose       *)
(* strings fit.                                                            *)
THEOREM WireSurvives == WireSpec => []SurvivesTheWire
<1>1. WireInv => SurvivesTheWire
  BY WholePacketsOnlyHolds, RoomsHold, FramesHold DEF SurvivesTheWire
<1> QED
  BY <1>1, WireInitInv, WireNextInv, PTL DEF WireSpec
=============================================================================
