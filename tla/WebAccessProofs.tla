--------------------------- MODULE WebAccessProofs --------------------------
(***************************************************************************)
(* Proofs about WebAccess, Media and Sanitizer for any users, badges,      *)
(* hosts, pictures, bodies and number of requests.                         *)
(*                                                                         *)
(* A request has read what it relies on at some time, and the tables go    *)
(* on.  The invariant says what of it stays true: passwords only move      *)
(* away from that of a cookie, a revocation goes only when its cookie has  *)
(* expired, and whoever holds an admin badge while a request is under way  *)
(* is remembered as an administrator of it.                                *)
(*                                                                         *)
(* Of pictures it says what the only request about a kind has done so far, *)
(* and that nobody is at work on what an answer has settled.               *)
(*                                                                         *)
(* Of their contents it says nothing, for that is about functions: two     *)
(* bodies that are read alike from some place on come to the same, or else *)
(* there were a last place at which they do not.                           *)
(***************************************************************************)
EXTENDS WebAccess, Media, Sanitizer, Sums, SequenceTheorems

Request == {Idle} \cup [step : {"insert"}, token : Token] \cup AdminType

(* A request that is neither over nor a sign-out. *)
Sent(c) == client[c] \in AdminType

UntilExpiry == \A r \in revoked : r.until = Expires(r.token)

Remembered(c) ==
    /\ client[c].old => /\ client[c].token \in Token
                        /\ client[c].token.password < password[client[c].token.user]
    /\ client[c].out => /\ client[c].token \in Token
                        /\ SignedOut(client[c].token) \/ now >= Expires(client[c].token)
    /\ (At(c, "user") \/ Recognised(c)) /\ client[c].out => now >= Expires(client[c].token)
    /\ Recognised(c) => ~client[c].old

Granted(c) ==
    /\ Signed(client[c].token) /\ HoldsAM(client[c].token.user) => power[c]
    /\ At(c, "handler") /\ IsAdminRoute(client[c].route) => power[c]
    /\ At(c, "handler") /\ BrowserMutation(client[c].route) => client[c].here

Fine(c) ==
    Sent(c) => /\ client[c].step \in {"user", "badge", "changes"} => Signed(client[c].token)
               /\ client[c].arg \in Arguments(client[c].route[2])
               /\ Remembered(c) /\ Granted(c)

TablesOK ==
    /\ now \in 0 .. MaxTime
    /\ password \in [Users -> 0 .. MaxPassword]
    /\ revoked \subseteq [token : Token, until : 0 .. MaxTime + Ttl]
    /\ badges \in Seq(Tags \cup {"AM"})
    /\ awards \subseteq Users \X (1 .. Len(badges))
    /\ backgrounds \subseteq Files
    /\ power \in [Clients -> BOOLEAN]

WebInv ==
    /\ TablesOK /\ UntilExpiry
    /\ client \in [Clients -> Request]
    /\ \A c \in Clients : Fine(c)

-----------------------------------------------------------------------------
(* Requests and their records *)

LEMMA Distinct == Idle \notin AdminType /\ \A r \in [step : {"insert"}, token : Token] : r \notin AdminType
BY DEF Idle, AdminType

LEMMA SignedTokens ==
    /\ NoToken \notin Token
    /\ \A t \in Token \cup {NoToken} : Signed(t) <=> t \in Token
BY WebAccessAssumption DEF Token, NoToken, Signed

LEMMA Moved ==
    ASSUME NEW r \in AdminType, NEW s \in {"revoked", "user", "badge", "handler", "changes"},
           NEW q, q = [r EXCEPT !.step = s]
    PROVE  /\ q \in AdminType /\ q.step = s
           /\ q.route = r.route /\ q.token = r.token /\ q.here = r.here
           /\ q.arg = r.arg /\ q.out = r.out /\ q.old = r.old
BY DEF AdminType

LEMMA Expiries == \A t \in Token : Expires(t) \in Nat
BY WebAccessAssumption DEF Token, Expires

LEMMA TypesOfInv == WebInv => WebAccessTypeOK
<1> SUFFICES ASSUME WebInv, NEW c \in Clients
             PROVE  \/ client[c] = Idle
                    \/ At(c, "insert") /\ client[c].token \in Token
                    \/ client[c] \in AdminType
                       /\ client[c].step \in {"user", "badge", "changes"} => Signed(client[c].token)
  BY DEF WebInv, TablesOK, WebAccessTypeOK
<1> QED
  BY DEF WebInv, Fine, Sent, Request, At

-----------------------------------------------------------------------------
(* What other requests may do to what request d relies on. *)
Unharmed(d) ==
    /\ now <= now'
    /\ \A u \in Users : password[u] <= password'[u]
    /\ \A r \in revoked : r \in revoked' \/ r.until <= now'
    /\ power[d] => power'[d]
    /\ \A u \in Users : SentBy(d, u) /\ HoldsAM(u)' => HoldsAM(u) \/ power'[d]

LEMMA StaysFine ==
    ASSUME WebInv, TablesOK', NEW d \in Clients, client'[d] = client[d], Unharmed(d)
    PROVE  Fine(d)'
<1> SUFFICES ASSUME Sent(d)'
             PROVE  /\ (client[d].step \in {"user", "badge", "changes"} => Signed(client[d].token))'
                    /\ (client[d].arg \in Arguments(client[d].route[2]))'
                    /\ Remembered(d)' /\ Granted(d)'
  BY DEF Fine
<1>1. Sent(d) /\ client[d] \in AdminType
  BY DEF Sent
<1>2. /\ client[d].step \in {"user", "badge", "changes"} => Signed(client[d].token)
      /\ client[d].arg \in Arguments(client[d].route[2])
      /\ Remembered(d) /\ Granted(d)
  BY <1>1 DEF WebInv, Fine
<1>3. client[d].token \in Token \cup {NoToken}
  BY <1>1 DEF AdminType
<1>4. /\ now \in Nat /\ now' \in Nat /\ now <= now'
      /\ \A u \in Users : password[u] \in Nat /\ password'[u] \in Nat /\ password[u] <= password'[u]
  BY WebAccessAssumption DEF WebInv, TablesOK, Unharmed
<1>5. Remembered(d)'
  <2> DEFINE t == client[d].token
  <2>1. client[d].old => t \in Token /\ t.password < password'[t.user]
    <3> SUFFICES ASSUME client[d].old PROVE t \in Token /\ t.password < password'[t.user]
      OBVIOUS
    <3>1. t \in Token /\ t.password < password[t.user]
      BY <1>2 DEF Remembered
    <3>2. t.user \in Users /\ t.password \in Nat
      BY <3>1, WebAccessAssumption DEF Token
    <3> QED
      BY <3>1, <3>2, <1>4
  <2>2. t \in Token /\ now >= Expires(t) => now' >= Expires(t)
    BY <1>4, Expiries
  <2>3. t \in Token /\ SignedOut(t) => (\E r \in revoked' : r.token = t) \/ now' >= Expires(t)
    BY <1>4, Expiries DEF SignedOut, Unharmed, WebInv, UntilExpiry
  <2>4. client[d].out => t \in Token /\ ((\E r \in revoked' : r.token = t) \/ now' >= Expires(t))
    BY <1>2, <2>2, <2>3 DEF Remembered
  <2>5. (At(d, "user") \/ Recognised(d)) /\ client[d].out => now' >= Expires(t)
    BY <1>2, <2>2 DEF Remembered
  <2> QED
    BY <2>1, <2>4, <2>5, <1>2 DEF Remembered, SignedOut, Recognised, At
<1>6. Granted(d)'
  <2>1. ~At(d, "idle")
    BY <1>1 DEF AdminType, At
  <2>2. Signed(client[d].token) => client[d].token.user \in Users
    BY <1>3, SignedTokens DEF Token
  <2>3. Signed(client[d].token) /\ HoldsAM(client[d].token.user)' => power'[d]
    <3> SUFFICES ASSUME Signed(client[d].token), HoldsAM(client[d].token.user)' PROVE power'[d]
      OBVIOUS
    <3> DEFINE u == client[d].token.user
    <3>1. u \in Users /\ SentBy(d, u)
      BY <2>1, <2>2 DEF SentBy
    <3>2. \E b \in DOMAIN badges' : badges'[b] = "AM" /\ <<u, b>> \in awards'
      BY DEF HoldsAM
    <3>3. HoldsAM(u) \/ power'[d]
      BY <3>1, <3>2 DEF Unharmed, HoldsAM
    <3> QED
      BY <3>3, <1>2 DEF Granted, Unharmed
  <2> QED
    BY <2>3, <1>2 DEF Granted, Unharmed, At, HoldsAM
<1> QED
  BY <1>2, <1>5, <1>6

(* A step that moves request c and leaves the others unharmed. *)
LEMMA OneMoves ==
    ASSUME WebInv, TablesOK', UntilExpiry', NEW c \in Clients,
           client' = [client EXCEPT ![c] = client'[c]], client'[c] \in Request, Fine(c)',
           \A d \in Clients \ {c} : Unharmed(d)
    PROVE  WebInv'
<1>1. client' \in [Clients -> Request]
  BY DEF WebInv
<1>2. ASSUME NEW d \in Clients PROVE Fine(d)'
  <2>1. CASE d = c
    BY <2>1
  <2>2. CASE d # c
    <3>1. client'[d] = client[d]
      BY <2>2 DEF WebInv
    <3> QED
      BY <2>2, <3>1, StaysFine
  <2> QED
    BY <2>1, <2>2
<1> QED
  BY <1>1, <1>2 DEF WebInv, Request, AdminType

LEMMA NothingHarmed ==
    ASSUME WebInv, UNCHANGED <<now, tables, power>>
    PROVE  TablesOK' /\ UntilExpiry' /\ \A d \in Clients : Unharmed(d)
<1>1. TablesOK'
  BY DEF WebInv, TablesOK, tables
<1>2. UntilExpiry'
  BY DEF WebInv, UntilExpiry, tables, Expires
<1>3. now <= now' /\ \A u \in Users : password[u] <= password'[u]
  BY WebAccessAssumption DEF WebInv, TablesOK, tables
<1>4. \A u \in Users : HoldsAM(u)' => HoldsAM(u)
  BY DEF HoldsAM, tables
<1> QED
  BY <1>1, <1>2, <1>3, <1>4 DEF Unharmed, tables

(* A request that is over. *)
LEMMA IdleIsFine ==
    ASSUME WebInv, NEW c \in Clients, Done(c)
    PROVE  client' = [client EXCEPT ![c] = client'[c]] /\ client'[c] = Idle /\ Fine(c)'
           /\ client'[c] \in Request
BY Distinct DEF WebInv, Done, Goes, Fine, Sent, Request

LEMMA DoneStep ==
    ASSUME WebInv, NEW c \in Clients, Done(c), UNCHANGED <<now, tables, power>>
    PROVE  WebInv'
BY NothingHarmed, IdleIsFine, OneMoves

(* A request that takes its next step, as far as that does not depend on   *)
(* which step it is.                                                       *)
LEMMA MovesOn ==
    ASSUME WebInv, NEW c \in Clients, Sent(c),
           NEW s \in {"revoked", "user", "badge", "handler", "changes"}, Moves(c, s)
    PROVE  /\ client' = [client EXCEPT ![c] = client'[c]]
           /\ client'[c] \in AdminType /\ client'[c].step = s
           /\ client'[c].route = client[c].route /\ client'[c].token = client[c].token
           /\ client'[c].here = client[c].here /\ client'[c].arg = client[c].arg
           /\ client'[c].out = client[c].out /\ client'[c].old = client[c].old
<1>a. client[c] \in AdminType
  BY DEF Sent
<1>0. PICK r : r = [client[c] EXCEPT !.step = s]
  OBVIOUS
<1>1. client' = [client EXCEPT ![c] = r] /\ client \in [Clients -> Request]
  BY <1>0 DEF WebInv, Moves, Goes
<1>2. /\ r \in AdminType /\ r.step = s /\ r.route = client[c].route /\ r.token = client[c].token
      /\ r.here = client[c].here /\ r.arg = client[c].arg
      /\ r.out = client[c].out /\ r.old = client[c].old
  BY <1>0, <1>a, Moved
<1>3. client'[c] = r
  BY <1>1
<1> QED
  BY <1>1, <1>2, <1>3

LEMMA StepsAreSent ==
    ASSUME WebInv, NEW c \in Clients, client[c].step \in {"revoked", "user", "badge", "handler", "changes"}
    PROVE  Sent(c)
BY DEF WebInv, Request, Idle, Sent

LEMMA RevokedChecked ==
    ASSUME WebInv, NEW c \in Clients, CheckRevoked(c)
    PROVE  WebInv'
<1>1. CASE Done(c)
  BY <1>1, DoneStep DEF CheckRevoked
<1>2. CASE Signed(client[c].token) /\ ~IsRevoked(client[c].token) /\ Moves(c, "user")
  <2>1. Sent(c) /\ UNCHANGED <<now, tables, power>>
    BY StepsAreSent DEF CheckRevoked, At
  <2>2. /\ client' = [client EXCEPT ![c] = client'[c]]
        /\ client'[c] \in AdminType /\ client'[c].step = "user"
        /\ client'[c].route = client[c].route /\ client'[c].token = client[c].token
        /\ client'[c].here = client[c].here /\ client'[c].arg = client[c].arg
        /\ client'[c].out = client[c].out /\ client'[c].old = client[c].old
    BY <1>2, <2>1, MovesOn
  <2>3. Remembered(c) /\ Granted(c) /\ client[c].arg \in Arguments(client[c].route[2])
    BY <2>1 DEF WebInv, Fine
  <2>4. client[c].out => now >= Expires(client[c].token)
    <3> SUFFICES ASSUME client[c].out PROVE now >= Expires(client[c].token)
      OBVIOUS
    <3>1. client[c].token \in Token /\ (SignedOut(client[c].token) \/ now >= Expires(client[c].token))
      BY <2>3 DEF Remembered
    <3>2. ASSUME SignedOut(client[c].token) PROVE now >= Expires(client[c].token)
      <4>1. PICK r \in revoked : r.token = client[c].token
        BY <3>2 DEF SignedOut
      <4>2. r.until = Expires(client[c].token) /\ ~(r.until > now)
        BY <4>1, <1>2 DEF WebInv, UntilExpiry, IsRevoked
      <4>3. Expires(client[c].token) \in Nat /\ now \in Nat
        BY <3>1, Expiries, WebAccessAssumption DEF WebInv, TablesOK
      <4> QED
        BY <4>2, <4>3
    <3> QED
      BY <3>1, <3>2
  <2>5. Remembered(c)'
    BY <2>1, <2>2, <2>3, <2>4 DEF Remembered, Recognised, At, SignedOut, Expires, tables
  <2>6. Granted(c)'
    BY <2>1, <2>2, <2>3 DEF Granted, At, HoldsAM, tables
  <2>7. Fine(c)'
    BY <1>2, <2>2, <2>3, <2>5, <2>6 DEF Fine
  <2> QED
    BY <2>1, <2>2, <2>7, NothingHarmed, OneMoves DEF Request
<1> QED
  BY <1>1, <1>2 DEF CheckRevoked

LEMMA UserLookedUp ==
    ASSUME WebInv, NEW c \in Clients, LookUpUser(c)
    PROVE  WebInv'
<1>1. CASE Done(c)
  BY <1>1, DoneStep DEF LookUpUser
<1>2. CASE VerifySession(client[c].token) /\ Moves(c, Afterwards(c))
  <2>1. Sent(c) /\ UNCHANGED <<now, tables, power>> /\ At(c, "user")
    BY StepsAreSent DEF LookUpUser, At
  <2>2. /\ client' = [client EXCEPT ![c] = client'[c]]
        /\ client'[c] \in AdminType /\ client'[c].step \in {"badge", "changes"}
        /\ client'[c].route = client[c].route /\ client'[c].token = client[c].token
        /\ client'[c].here = client[c].here /\ client'[c].arg = client[c].arg
        /\ client'[c].out = client[c].out /\ client'[c].old = client[c].old
    BY <1>2, <2>1, MovesOn DEF Afterwards
  <2>3. /\ Remembered(c) /\ Granted(c) /\ client[c].arg \in Arguments(client[c].route[2])
        /\ Signed(client[c].token)
    BY <2>1 DEF WebInv, Fine, At
  <2>4. ~client[c].old
    <3> SUFFICES ASSUME client[c].old PROVE FALSE
      OBVIOUS
    <3>1. client[c].token \in Token /\ client[c].token.password < password[client[c].token.user]
      BY <2>3 DEF Remembered
    <3>2. client[c].token.password = password[client[c].token.user]
      BY <1>2 DEF VerifySession
    <3>3. client[c].token.password \in Nat
      BY <3>1, WebAccessAssumption DEF Token
    <3> QED
      BY <3>1, <3>2, <3>3
  <2>5. Remembered(c)'
    BY <2>1, <2>2, <2>3, <2>4 DEF Remembered, Recognised, At, SignedOut, Expires, tables
  <2>6. Granted(c)'
    BY <2>1, <2>2, <2>3 DEF Granted, At, HoldsAM, tables
  <2>7. Fine(c)'
    BY <2>2, <2>3, <2>5, <2>6 DEF Fine
  <2> QED
    BY <2>1, <2>2, <2>7, NothingHarmed, OneMoves DEF Request
<1> QED
  BY <1>1, <1>2 DEF LookUpUser

LEMMA BadgeChecked ==
    ASSUME WebInv, NEW c \in Clients, CheckBadge(c)
    PROVE  WebInv'
<1>1. CASE Done(c)
  BY <1>1, DoneStep DEF CheckBadge
<1>2. CASE /\ HoldsAM(client[c].token.user) /\ Moves(c, "handler")
           /\ BrowserMutation(client[c].route) => client[c].here
  <2>1. Sent(c) /\ UNCHANGED <<now, tables, power>> /\ At(c, "badge")
    BY StepsAreSent DEF CheckBadge, At
  <2>2. /\ client' = [client EXCEPT ![c] = client'[c]]
        /\ client'[c] \in AdminType /\ client'[c].step = "handler"
        /\ client'[c].route = client[c].route /\ client'[c].token = client[c].token
        /\ client'[c].here = client[c].here /\ client'[c].arg = client[c].arg
        /\ client'[c].out = client[c].out /\ client'[c].old = client[c].old
    BY <1>2, <2>1, MovesOn
  <2>3. /\ Remembered(c) /\ Granted(c) /\ client[c].arg \in Arguments(client[c].route[2])
        /\ Signed(client[c].token)
    BY <2>1 DEF WebInv, Fine, At
  <2>4. power[c] /\ ~client[c].old /\ (client[c].out => now >= Expires(client[c].token))
    BY <1>2, <2>1, <2>3 DEF Granted, Remembered, Recognised, At
  <2>5. Remembered(c)'
    BY <2>1, <2>2, <2>3, <2>4 DEF Remembered, Recognised, At, SignedOut, Expires, tables
  <2>6. Granted(c)'
    BY <1>2, <2>1, <2>2, <2>3, <2>4 DEF Granted, At
  <2>7. Fine(c)'
    BY <2>2, <2>3, <2>5, <2>6 DEF Fine
  <2> QED
    BY <2>1, <2>2, <2>7, NothingHarmed, OneMoves DEF Request
<1> QED
  BY <1>1, <1>2 DEF CheckBadge, Handed, Moves, Goes, Done

LEMMA RequestArrives ==
    ASSUME WebInv, NEW c \in Clients, NEW route \in Routes, NEW t \in Token \cup {NoToken},
           NEW here \in BOOLEAN, NEW arg \in Arguments(route[2]),
           arg \in Users \X (1 .. MaxBadges) \cup Tags \cup Files \cup {Nobody},
           Arrive(c, route, t, here, arg)
    PROVE  WebInv'
<1> DEFINE q == [step |-> "revoked", route |-> route, token |-> t, here |-> here, arg |-> arg,
                 out |-> SignedOut(t), old |-> Outdated(t)]
<1>1. /\ client \in [Clients -> Request] /\ TablesOK /\ UntilExpiry
      /\ power' = [power EXCEPT ![c] = Signed(t) /\ HoldsAM(t.user)]
      /\ UNCHANGED <<now, tables>>
  BY DEF WebInv, Arrive
<1>2. SignedOut(t) \in BOOLEAN /\ Outdated(t) \in BOOLEAN
  BY DEF SignedOut, Outdated
<1>3. q \in AdminType /\ [q EXCEPT !.step = "handler"] \in AdminType
  BY <1>2 DEF AdminType
<1>4. TablesOK' /\ UntilExpiry'
  <2>1. (Signed(t) /\ HoldsAM(t.user)) \in BOOLEAN
    BY DEF Signed, HoldsAM
  <2>2. power' \in [Clients -> BOOLEAN]
    BY <1>1, <2>1 DEF TablesOK
  <2> QED
    BY <1>1, <2>2 DEF TablesOK, UntilExpiry, tables, Expires
<1>5. ASSUME NEW d \in Clients \ {c} PROVE Unharmed(d)
  <2>1. power'[d] = power[d]
    BY <1>1 DEF TablesOK
  <2>2. now <= now' /\ \A u \in Users : password[u] <= password'[u]
    BY <1>1, WebAccessAssumption DEF TablesOK, tables
  <2>3. \A u \in Users : HoldsAM(u)' => HoldsAM(u)
    BY <1>1 DEF HoldsAM, tables
  <2> QED
    BY <1>1, <2>1, <2>2, <2>3 DEF Unharmed, tables
<1>6. power'[c] = (Signed(t) /\ HoldsAM(t.user))
  BY <1>1 DEF TablesOK
<1>7. SignedOut(t) => t \in Token
  BY <1>1 DEF SignedOut, TablesOK
<1>8. Outdated(t) => t \in Token /\ t.password < password[t.user]
  <2> SUFFICES ASSUME Outdated(t) PROVE t \in Token /\ t.password < password[t.user]
    OBVIOUS
  <2>1. t \in Token /\ t.password # password[t.user] /\ t.password <= password[t.user]
    BY SignedTokens DEF Outdated, Arrive, Issued
  <2>2. t.password \in Nat /\ password[t.user] \in Nat
    BY <2>1, <1>1, WebAccessAssumption DEF Token, TablesOK
  <2> QED
    BY <2>1, <2>2
<1>9. ASSUME client'[c] = q PROVE Fine(c)'
  <2>1. /\ client'[c].step = "revoked" /\ client'[c].route = route /\ client'[c].token = t
        /\ client'[c].arg = arg /\ client'[c].out = SignedOut(t) /\ client'[c].old = Outdated(t)
    BY <1>9
  <2>2. Remembered(c)'
    BY <2>1, <1>1, <1>7, <1>8 DEF Remembered, Recognised, At, SignedOut, tables
  <2>3. Granted(c)'
    BY <2>1, <1>1, <1>6 DEF Granted, At, HoldsAM, tables
  <2> QED
    BY <2>1, <2>2, <2>3 DEF Fine
<1>10. ASSUME client'[c] = [q EXCEPT !.step = "handler"], ~IsAdminRoute(route), BrowserMutation(route) => here
       PROVE  Fine(c)'
  <2>1. /\ client'[c].step = "handler" /\ client'[c].route = route /\ client'[c].token = t
        /\ client'[c].here = here
        /\ client'[c].arg = arg /\ client'[c].out = SignedOut(t) /\ client'[c].old = Outdated(t)
    BY <1>10
  <2>2. Remembered(c)'
    BY <2>1, <1>1, <1>7, <1>8, <1>10 DEF Remembered, Recognised, At, SignedOut, tables
  <2>3. Granted(c)'
    BY <2>1, <1>1, <1>6, <1>10 DEF Granted, At, HoldsAM, tables
  <2> QED
    BY <2>1, <2>2, <2>3 DEF Fine
<1>11. \/ Goes(c, q) \/ Done(c)
       \/ Goes(c, [q EXCEPT !.step = "handler"]) /\ ~IsAdminRoute(route) /\ (BrowserMutation(route) => here)
  <2>1. Handed(q) = IF BrowserMutation(route) /\ ~here THEN Idle ELSE [q EXCEPT !.step = "handler"]
    BY DEF Handed
  <2>2. IF IsAdminRoute(route) THEN Goes(c, q)
        ELSE IF route[2] # "profile" THEN Goes(c, Handed(q))
        ELSE IF Handed(q) # Idle THEN Goes(c, q) ELSE Done(c)
    BY DEF Arrive
  <2> HIDE DEF q
  <2> QED
    BY <2>1, <2>2 DEF Done
<1>12. CASE Goes(c, q)
  <2>1. client' = [client EXCEPT ![c] = q] /\ client'[c] = q
    BY <1>12, <1>1 DEF Goes
  <2> HIDE DEF q
  <2> QED
    BY <2>1, <1>3, <1>4, <1>5, <1>9, OneMoves DEF Request
<1>13. CASE Done(c)
  BY <1>13, <1>4, <1>5, IdleIsFine, OneMoves
<1>14. CASE /\ Goes(c, [q EXCEPT !.step = "handler"]) /\ ~IsAdminRoute(route)
            /\ BrowserMutation(route) => here
  <2> DEFINE r == [q EXCEPT !.step = "handler"]
  <2>1. client' = [client EXCEPT ![c] = r] /\ client'[c] = r
    BY <1>14, <1>1 DEF Goes
  <2>2. r \in AdminType /\ Fine(c)'
    BY <2>1, <1>3, <1>10, <1>14
  <2> HIDE DEF r, q
  <2> QED
    BY <2>1, <2>2, <1>4, <1>5, OneMoves DEF Request
<1> QED
  BY <1>11, <1>12, <1>13, <1>14

-----------------------------------------------------------------------------
(* The frontend *)

LEMMA TimePasses == ASSUME WebInv, Tick PROVE WebInv'
<1>1. now \in 0 .. MaxTime /\ now < MaxTime /\ now' = now + 1 /\ MaxTime \in Nat
  BY WebAccessAssumption DEF WebInv, TablesOK, Tick
<1>2. now' \in 0 .. MaxTime /\ now <= now'
  BY <1>1
<1>3. TablesOK' /\ UntilExpiry'
  BY <1>2 DEF WebInv, TablesOK, UntilExpiry, Tick, tables, Expires
<1>4. \A u \in Users : password[u] <= password'[u]
  BY WebAccessAssumption DEF WebInv, TablesOK, Tick, tables
<1>5. \A d \in Clients : Unharmed(d)
  BY <1>2, <1>4 DEF Unharmed, Tick, tables, HoldsAM
<1>6. \A d \in Clients : Fine(d)'
  BY <1>3, <1>5, StaysFine DEF Tick
<1> QED
  BY <1>3, <1>6 DEF WebInv, Tick, Request, AdminType

LEMMA PasswordChanges == ASSUME WebInv, NEW u \in Users, ChangePassword(u) PROVE WebInv'
<1>1. /\ password \in [Users -> 0 .. MaxPassword] /\ MaxPassword \in Nat
      /\ password[u] < MaxPassword /\ password' = [password EXCEPT ![u] = password[u] + 1]
  BY WebAccessAssumption DEF WebInv, TablesOK, ChangePassword
<1>2. password' \in [Users -> 0 .. MaxPassword] /\ \A v \in Users : password[v] <= password'[v]
  BY <1>1
<1>3. TablesOK' /\ UntilExpiry'
  BY <1>2 DEF WebInv, TablesOK, UntilExpiry, ChangePassword, Expires
<1>4. now <= now'
  BY WebAccessAssumption DEF WebInv, TablesOK, ChangePassword
<1>5. \A d \in Clients : Unharmed(d)
  BY <1>2, <1>4 DEF Unharmed, ChangePassword, HoldsAM
<1>6. \A d \in Clients : Fine(d)'
  BY <1>3, <1>5, StaysFine DEF ChangePassword
<1> QED
  BY <1>3, <1>6 DEF WebInv, ChangePassword, Request, AdminType

(* Signing out forgets the revocations of cookies that have expired. *)
LEMMA SigningOut == ASSUME WebInv, NEW c \in Clients, NEW t \in Token, SignOut(c, t) PROVE WebInv'
<1> DEFINE r == [step |-> "insert", token |-> t]
<1>1. client \in [Clients -> Request] /\ client' = [client EXCEPT ![c] = r]
  BY DEF WebInv, SignOut, Goes
<1>2. client'[c] = r /\ r \in [step : {"insert"}, token : Token]
  BY <1>1
<1>3. r \notin AdminType
  BY <1>2, Distinct
<1> HIDE DEF r
<1>4. TablesOK' /\ UntilExpiry'
  BY DEF WebInv, TablesOK, UntilExpiry, SignOut, Expires
<1>5. /\ now \in Nat /\ now <= now' /\ (\A u \in Users : password[u] <= password'[u])
      /\ \A x \in revoked : x.until \in Nat
  BY WebAccessAssumption DEF WebInv, TablesOK, SignOut
<1>6. \A x \in revoked : x \in revoked' \/ x.until <= now'
  BY <1>5 DEF SignOut
<1>7. \A d \in Clients : Unharmed(d)
  BY <1>5, <1>6 DEF Unharmed, SignOut, HoldsAM
<1>8. Fine(c)'
  BY <1>2, <1>3 DEF Fine, Sent
<1> QED
  BY <1>1, <1>2, <1>4, <1>7, <1>8, OneMoves DEF Request

LEMMA RevocationInserted == ASSUME WebInv, NEW c \in Clients, InsertRevoked(c) PROVE WebInv'
<1> DEFINE t == client[c].token
           r == [token |-> t, until |-> Expires(t)]
<1>1. t \in Token
  BY DEF WebInv, Request, AdminType, Idle, InsertRevoked, At
<1>2. Expires(t) \in 0 .. MaxTime + Ttl
  BY <1>1, WebAccessAssumption DEF Token, Expires
<1>3. r \in [token : Token, until : 0 .. MaxTime + Ttl] /\ r.until = Expires(r.token)
  BY <1>1, <1>2
<1>4. revoked' = revoked \cup {r}
  BY DEF InsertRevoked
<1> HIDE DEF r
<1>5. TablesOK' /\ UntilExpiry'
  BY <1>3, <1>4 DEF WebInv, TablesOK, UntilExpiry, InsertRevoked, Expires
<1>6. now <= now' /\ \A u \in Users : password[u] <= password'[u]
  BY WebAccessAssumption DEF WebInv, TablesOK, InsertRevoked
<1>7. \A d \in Clients : Unharmed(d)
  BY <1>4, <1>6 DEF Unharmed, InsertRevoked, HoldsAM
<1> QED
  BY <1>5, <1>7, IdleIsFine, OneMoves DEF InsertRevoked

-----------------------------------------------------------------------------
(* The handlers *)

LEMMA Handled ==
    ASSUME WebInv, NEW c \in Clients, Done(c), UNCHANGED <<now, password, revoked>>, TablesOK',
           \A d \in Clients : power[d] => power'[d],
           \A d \in Clients, u \in Users : SentBy(d, u) /\ HoldsAM(u)' => HoldsAM(u) \/ power'[d]
    PROVE  WebInv'
<1>1. UntilExpiry'
  BY DEF WebInv, UntilExpiry, Expires
<1>2. now <= now' /\ \A u \in Users : password[u] <= password'[u]
  BY WebAccessAssumption DEF WebInv, TablesOK
<1>3. \A d \in Clients : Unharmed(d)
  BY <1>2 DEF Unharmed
<1> QED
  BY <1>1, <1>3, IdleIsFine, OneMoves

(* A handler has been let through, with what its route names. *)
LEMMA HandlersRequest ==
    ASSUME WebInv, NEW c \in Clients, NEW path, Handles(c, path)
    PROVE  /\ client[c] \in AdminType /\ client[c].route \in Routes /\ client[c].route[2] = path
           /\ client[c].arg \in Arguments(path) /\ Granted(c)
<1>1. Sent(c) /\ Fine(c)
  BY StepsAreSent DEF WebInv, Handles, At
<1> QED
  BY <1>1 DEF Handles, Fine, Sent, AdminType

(* The new badge is nobody's yet. *)
LEMMA BadgeCreated == ASSUME WebInv, NEW c \in Clients, CreateBadge(c) PROVE WebInv'
<1>1. client[c].arg \in Tags
  BY HandlersRequest DEF CreateBadge, Arguments
<1>2. /\ badges \in Seq(Tags \cup {"AM"}) /\ awards \subseteq Users \X (1 .. Len(badges))
      /\ badges' = Append(badges, client[c].arg) /\ awards' = awards
  BY DEF WebInv, TablesOK, CreateBadge
<1>3. /\ badges' \in Seq(Tags \cup {"AM"}) /\ Len(badges') = Len(badges) + 1 /\ Len(badges) \in Nat
      /\ \A b \in 1 .. Len(badges) : b \in DOMAIN badges /\ badges'[b] = badges[b]
  BY <1>1, <1>2
<1>4. awards' \subseteq Users \X (1 .. Len(badges'))
  <2>1. 1 .. Len(badges) \subseteq 1 .. Len(badges')
    BY <1>3
  <2> QED
    BY <1>2, <2>1
<1>5. TablesOK'
  BY <1>3, <1>4 DEF WebInv, TablesOK, CreateBadge
<1>6. \A u \in Users : HoldsAM(u)' => HoldsAM(u)
  BY <1>2, <1>3 DEF HoldsAM
<1> QED
  BY <1>5, <1>6, Handled DEF CreateBadge

(* Whoever is made an administrator while a request is under way is one of *)
(* that request.                                                           *)
LEMMA BadgeAwarded == ASSUME WebInv, NEW c \in Clients, AwardBadge(c) PROVE WebInv'
<1>1. client[c].arg \in Users \X (1 .. MaxBadges)
  BY HandlersRequest DEF AwardBadge, Arguments
<1>2. awards' \subseteq Users \X (1 .. Len(badges))
  <2>1. awards \subseteq Users \X (1 .. Len(badges)) /\ DOMAIN badges = 1 .. Len(badges)
    BY DEF WebInv, TablesOK
  <2>2. client[c].arg[2] \in DOMAIN badges => client[c].arg \in Users \X (1 .. Len(badges))
    BY <1>1, <2>1
  <2> QED
    BY <2>1, <2>2 DEF AwardBadge
<1>3. power' \in [Clients -> BOOLEAN]
  <2>1. \A d \in Clients : power[d] \in BOOLEAN
    BY DEF WebInv, TablesOK
  <2> QED
    BY <2>1 DEF AwardBadge
<1>4. TablesOK'
  BY <1>2, <1>3 DEF WebInv, TablesOK, AwardBadge
<1>5. \A d \in Clients : power[d] => power'[d]
  BY DEF AwardBadge
<1>6. \A d \in Clients, u \in Users : SentBy(d, u) /\ HoldsAM(u)' => power'[d]
  BY DEF AwardBadge
<1> QED
  BY <1>4, <1>5, <1>6, Handled DEF AwardBadge

LEMMA BadgeRevoked == ASSUME WebInv, NEW c \in Clients, RevokeBadge(c) PROVE WebInv'
<1>1. TablesOK'
  BY DEF WebInv, TablesOK, RevokeBadge
<1>2. \A u \in Users : HoldsAM(u)' => HoldsAM(u)
  BY DEF HoldsAM, RevokeBadge
<1> QED
  BY <1>1, <1>2, Handled DEF RevokeBadge

LEMMA BackgroundUploaded == ASSUME WebInv, NEW c \in Clients, UploadBackground(c) PROVE WebInv'
<1>1. client[c].arg \in Files
  BY HandlersRequest DEF UploadBackground, Arguments
<1>2. TablesOK'
  BY <1>1 DEF WebInv, TablesOK, UploadBackground
<1> QED
  BY <1>2, Handled DEF UploadBackground, HoldsAM

LEMMA BackgroundDeleted == ASSUME WebInv, NEW c \in Clients, DeleteBackground(c) PROVE WebInv'
<1>1. TablesOK'
  BY DEF WebInv, TablesOK, DeleteBackground
<1> QED
  BY <1>1, Handled DEF DeleteBackground, HoldsAM

-----------------------------------------------------------------------------
LEMMA ArgumentsTyped ==
    ASSUME NEW route \in Routes, NEW arg \in Arguments(route[2])
    PROVE  arg \in Users \X (1 .. MaxBadges) \cup Tags \cup Files \cup {Nobody}
BY DEF Routes, Arguments

LEMMA OriginsAreBoolean == Origins \subseteq BOOLEAN
<1> SUFFICES ASSUME NEW origin, NEW referer, NEW cross \in BOOLEAN
             PROVE  FromHere(origin, referer, cross) \in BOOLEAN
  BY DEF Origins
<1>1. CASE origin # NoHost
  BY <1>1 DEF FromHere
<1>2. CASE origin = NoHost /\ referer # NoHost
  BY <1>2 DEF FromHere
<1>3. CASE origin = NoHost /\ referer = NoHost
  BY <1>3 DEF FromHere
<1> QED
  BY <1>1, <1>2, <1>3

LEMMA WebInit == Init => WebInv
<1> SUFFICES ASSUME Init PROVE WebInv
  OBVIOUS
<1>1. TablesOK
  <2>1. now \in 0 .. MaxTime /\ password \in [Users -> 0 .. MaxPassword]
    BY WebAccessAssumption DEF Init
  <2>2. badges \in Seq(Tags \cup {"AM"})
    BY WebAccessAssumption DEF Init
  <2>3. awards \subseteq Users \X (1 .. Len(badges))
    BY WebAccessAssumption DEF Init
  <2> QED
    BY <2>1, <2>2, <2>3 DEF TablesOK, Init
<1>2. client \in [Clients -> Request] /\ \A c \in Clients : Fine(c)
  BY Distinct DEF Init, Request, Fine, Sent
<1> QED
  BY <1>1, <1>2 DEF WebInv, UntilExpiry, Init

LEMMA WebStep == WebInv /\ [Next]_vars => WebInv'
<1> SUFFICES ASSUME WebInv, [Next]_vars PROVE WebInv'
  OBVIOUS
<1>1. CASE Tick
  BY <1>1, TimePasses
<1>2. CASE \E u \in Users : ChangePassword(u)
  BY <1>2, PasswordChanges
<1>3. CASE \E c \in Clients, t \in Token : SignOut(c, t)
  BY <1>3, SigningOut
<1>4. CASE \E c \in Clients : Ask(c, Routes, Token)
  <2>1. PICK c \in Clients, route \in Routes, t \in Token \cup {NoToken}, here \in Origins :
            \E arg \in Arguments(route[2]) : Arrive(c, route, t, here, arg)
    BY <1>4 DEF Ask
  <2>2. PICK arg \in Arguments(route[2]) : Arrive(c, route, t, here, arg)
    BY <2>1
  <2> QED
    BY <2>2, ArgumentsTyped, OriginsAreBoolean, RequestArrives
<1>5. CASE \E c \in Clients : Proceed(c)
  <2>1. PICK c \in Clients : Proceed(c)
    BY <1>5
  <2>2. CASE InsertRevoked(c)
    BY <2>2, RevocationInserted
  <2>3. CASE CheckRevoked(c)
    BY <2>3, RevokedChecked
  <2>4. CASE LookUpUser(c)
    BY <2>4, UserLookedUp
  <2>5. CASE CheckBadge(c)
    BY <2>5, BadgeChecked
  <2>6. CASE CreateBadge(c)
    BY <2>6, BadgeCreated
  <2>7. CASE AwardBadge(c)
    BY <2>7, BadgeAwarded
  <2>8. CASE RevokeBadge(c)
    BY <2>8, BadgeRevoked
  <2>9. CASE UploadBackground(c)
    BY <2>9, BackgroundUploaded
  <2>10. CASE DeleteBackground(c)
    BY <2>10, BackgroundDeleted
  <2>11. CASE Answer(c)
    BY <2>11, DoneStep DEF Answer
  <2> QED
    BY <2>1, <2>2, <2>3, <2>4, <2>5, <2>6, <2>7, <2>8, <2>9, <2>10, <2>11 DEF Proceed
<1>6. CASE UNCHANGED vars
  <2>1. TablesOK' /\ \A d \in Clients : Unharmed(d)
    BY <1>6, NothingHarmed DEF vars, tables
  <2>2. UntilExpiry' /\ client' = client
    BY <1>6 DEF vars, WebInv, UntilExpiry, Expires
  <2> QED
    BY <2>1, <2>2, StaysFine DEF WebInv, Request, AdminType
<1> QED
  BY <1>1, <1>2, <1>3, <1>4, <1>5, <1>6 DEF Next

-----------------------------------------------------------------------------
(* Tables, files, cookies and requests keep their shape, and nobody is let *)
(* past a guard without a cookie.                                          *)
THEOREM WebAccessTyped == Spec => []WebAccessTypeOK
<1> QED
  BY WebInit, WebStep, TypesOfInv, PTL DEF Spec

(* A cookie of an old password, or one that was signed out and would still *)
(* be good, identifies nobody, however the queries of its request fall     *)
(* between a sign-out and a change of the password.                        *)
THEOREM DeadCookiesStayOut == Spec => []DeadStaysOut
<1>1. WebInv => DeadStaysOut
  <2> SUFFICES ASSUME WebInv, NEW c \in Clients, Recognised(c)
               PROVE  ~client[c].old /\ (client[c].out => now >= Expires(client[c].token))
    BY DEF DeadStaysOut
  <2>1. Sent(c)
    BY StepsAreSent DEF Recognised, At
  <2> QED
    BY <2>1 DEF WebInv, Fine, Remembered
<1> QED
  BY <1>1, WebInit, WebStep, PTL DEF Spec

Changed == <<badges, awards, backgrounds>>' # <<badges, awards, backgrounds>>

ByAdmin(c) == At(c, "handler") /\ client'[c] = Idle /\ power[c] /\ client[c].here

LEMMA HandlersByAdmins ==
    ASSUME WebInv, NEW c \in Clients, Done(c),
           NEW path \in {"badges/create", "badges/award", "badges/revoke", "backgrounds/upload",
                         "backgrounds/delete", "backgrounds/file"},
           Handles(c, path)
    PROVE  ByAdmin(c)
<1>1. client[c].route \in Routes /\ client[c].route[2] = path /\ Granted(c)
  BY HandlersRequest
<1>2. IsAdminRoute(client[c].route) /\ BrowserMutation(client[c].route)
  BY <1>1 DEF Routes, IsAdminRoute, BrowserMutation
<1>3. client'[c] = Idle
  BY IdleIsFine
<1> QED
  BY <1>1, <1>2, <1>3 DEF Granted, Handles, ByAdmin

LEMMA OnlyHandlersChange ==
    ASSUME Next, Changed
    PROVE  \E c \in Clients : \/ CreateBadge(c) \/ AwardBadge(c) \/ RevokeBadge(c)
                              \/ UploadBackground(c) \/ DeleteBackground(c)
<1>1. ~Tick
  BY DEF Changed, Tick, tables
<1>2. ASSUME NEW u \in Users PROVE ~ChangePassword(u)
  BY DEF Changed, ChangePassword
<1>3. ASSUME NEW c \in Clients, NEW t \in Token PROVE ~SignOut(c, t)
  BY DEF Changed, SignOut
<1>4. ASSUME NEW c \in Clients PROVE ~Ask(c, Routes, Token)
  <2> SUFFICES ASSUME NEW route, NEW t, NEW here, NEW arg, Arrive(c, route, t, here, arg) PROVE FALSE
    BY DEF Ask
  <2>1. UNCHANGED tables
    BY DEF Arrive
  <2> QED
    BY <2>1 DEF Changed, tables
<1>5. ASSUME NEW c \in Clients PROVE ~InsertRevoked(c)
  BY DEF Changed, InsertRevoked
<1>6. ASSUME NEW c \in Clients PROVE ~CheckRevoked(c) /\ ~LookUpUser(c) /\ ~CheckBadge(c) /\ ~Answer(c)
  BY DEF Changed, CheckRevoked, LookUpUser, CheckBadge, Answer, tables
<1> QED
  BY <1>1, <1>2, <1>3, <1>4, <1>5, <1>6 DEF Next, Proceed

LEMMA ChangedByAdmins ==
    ASSUME WebInv, Next, Changed
    PROVE  \E c \in Clients : ByAdmin(c)
<1>1. PICK c \in Clients :
          \/ CreateBadge(c) \/ AwardBadge(c) \/ RevokeBadge(c)
          \/ UploadBackground(c) \/ DeleteBackground(c)
  BY OnlyHandlersChange
<1> QED
  BY <1>1, HandlersByAdmins
     DEF CreateBadge, AwardBadge, RevokeBadge, UploadBackground, DeleteBackground

(* Badges, awards and backgrounds change only by the request of somebody   *)
(* who was an administrator while it was under way, and never from a       *)
(* foreign page.                                                           *)
THEOREM AdminsAlone == Spec => OnlyAdminsChange
<1>1. WebInv /\ [Next]_vars =>
        [<<badges, awards, backgrounds>>' # <<badges, awards, backgrounds>> =>
          \E c \in Clients : /\ At(c, "handler") /\ client'[c] = Idle
                            /\ power[c] /\ client[c].here]_vars
  BY ChangedByAdmins DEF Changed, ByAdmin
<1> QED
  BY <1>1, WebInit, WebStep, PTL DEF Spec, OnlyAdminsChange

-----------------------------------------------------------------------------
(* Pictures: what every file holds and who may be at work on it. *)
Uploads ==
    {NoUpload} \cup [step : {"remove", "sanitize", "open", "fill", "cache", "ok"}, kind : Kinds,
                     what : {"upload", "reset"}, picture : Pictures \cup {Junk}, i : 1 .. 4]

(* A file is opened only for a picture that passed the sanitizer.          *)
UploadOK(q) ==
    /\ q \in Uploads
    /\ q.step = "remove" /\ q.kind = "avatar" => q.what = "reset"
    /\ q.step \in {"sanitize", "open", "fill"} => q.what = "upload"
    /\ q.step \in {"open", "fill"} => q.picture # Junk
    /\ q.step \in {"cache", "ok"} /\ q.what = "upload" => q.picture \in Pictures
    /\ q.step = "cache" => q.kind = "avatar"

(* An opened file has the request that fills it. *)
FilesOK ==
    /\ files \in [Kinds -> [Named -> Contents]]
    /\ \A k \in Kinds, e \in Named : files[k][e] # None => e = "png" \/ files[k][e] = Whole(Old)
    /\ \A k \in Kinds, c \in Uploaders :
            files[k]["png"] = Opened(c) => upload[c].step = "fill" /\ upload[c].kind = k

AllNone(k) == \A e \in Named : files[k][e] = None

Shows(k, x) == IF x = None THEN AllNone(k) ELSE files[k]["png"] = x

(* What the only request of a kind has done so far. *)
DoneBy(k, c) ==
    /\ UploadAt(c, "remove") => \A j \in 1 .. upload[c].i - 1 : files[k][Extensions[j]] = None
    /\ UploadAt(c, "fill") => files[k]["png"] = Opened(c)
    /\ UploadAt(c, "cache") \/ UploadAt(c, "ok") => Shows(k, Meant(c))
    /\ UploadAt(c, "ok") /\ k = "avatar" /\ synced => cache = Meant(c)

(* Whoever is expected alone is alone, and nobody is at work on what is    *)
(* settled.                                                                *)
Promise(k) ==
    /\ \A c \in Uploaders : expected[k] = Pending(c) =>
            /\ Writers(k) \subseteq {c}
            /\ c \in Writers(k) => DoneBy(k, c)
    /\ Settled(k) => /\ Writers(k) = {} /\ Shows(k, expected[k])
                     /\ k = "avatar" /\ synced => cache = expected[k]

Expectations ==
    {Unknown, None} \cup {Pending(c) : c \in Uploaders} \cup {Whole(p) : p \in Pictures}

MediaInv ==
    /\ FilesOK
    /\ cache \in {None, Torn} \cup {Whole(p) : p \in Pictures}
    /\ synced \in BOOLEAN
    /\ DOMAIN upload = Uploaders /\ \A c \in Uploaders : UploadOK(upload[c])
    /\ expected \in [Kinds -> Expectations]
    /\ \A k \in Kinds : Promise(k)

-----------------------------------------------------------------------------
(* What is written differs. *)
LEMMA Apart ==
    /\ None # Torn /\ Unknown # None
    /\ \A p : Whole(p) # None /\ Whole(p) # Torn /\ Whole(p) # Unknown
    /\ \A c : Opened(c) # None /\ Opened(c) # Torn /\ Pending(c) # None /\ Pending(c) # Unknown
    /\ \A c, p : Opened(c) # Whole(p) /\ Pending(c) # Whole(p)
    /\ \A c, d : (Opened(c) = Opened(d) => c = d) /\ (Pending(c) = Pending(d) => c = d)
<1>1. None # Torn /\ Unknown # None
  BY DEF None, Torn, Unknown
<1>2. ASSUME NEW p PROVE Whole(p) # None /\ Whole(p) # Torn /\ Whole(p) # Unknown
  BY DEF Whole, None, Torn, Unknown
<1>3. ASSUME NEW c PROVE Opened(c) # None /\ Opened(c) # Torn /\ Pending(c) # None /\ Pending(c) # Unknown
  BY DEF Opened, Pending, None, Torn, Unknown
<1>4. ASSUME NEW c, NEW p PROVE Opened(c) # Whole(p) /\ Pending(c) # Whole(p)
  BY DEF Opened, Pending, Whole
<1>5. ASSUME NEW c, NEW d PROVE (Opened(c) = Opened(d) => c = d) /\ (Pending(c) = Pending(d) => c = d)
  BY DEF Opened, Pending
<1> QED
  BY <1>1, <1>2, <1>3, <1>4, <1>5

(* png comes first among the four extensions. *)
LEMMA FirstPng ==
    /\ DOMAIN Extensions = 1 .. 4 /\ Extensions[1] = "png" /\ Len(Extensions) = 4
    /\ Named = {"png", "jpg", "jpeg", "webp"}
    /\ \A e \in Named : \E j \in 1 .. 4 : e = Extensions[j]
    /\ \A j \in 1 .. 4 : Extensions[j] \in Named
BY DEF Extensions, Named

(* The first file that is there is what is shown. *)
LEMMA WhatIsShown ==
    ASSUME NEW k, NEW x, Shows(k, x)
    PROVE  Picture(k) = x
<1> DEFINE there == {i \in DOMAIN Extensions : files[k][Extensions[i]] # None}
<1>1. CASE x = None
  <2>1. there = {}
    BY <1>1, FirstPng DEF Shows, AllNone
  <2> QED
    BY <1>1, <2>1 DEF Picture
<1>2. CASE x # None
  <2>1. files[k]["png"] = x
    BY <1>2 DEF Shows
  <2>2. 1 \in there /\ \A i \in there : 1 <= i /\ i \in Nat
    BY <1>2, <2>1, FirstPng
  <2>3. PICK n : n = CHOOSE i \in there : \A j \in there : i <= j
    OBVIOUS
  <2>4. Picture(k) = files[k][Extensions[n]]
    BY <2>2, <2>3, Zenon DEF Picture
  <2> HIDE DEF there
  <2>5. n = 1
    <3>1. n \in there /\ \A j \in there : n <= j
      BY <2>2, <2>3
    <3> QED
      BY <2>2, <3>1
  <2> QED
    BY <2>1, <2>4, <2>5, FirstPng
<1> QED
  BY <1>1, <1>2

(* Nothing happens to the other kind, *)
LEMMA Elsewhere ==
    ASSUME NEW k, Promise(k), files'[k] = files[k], expected'[k] = expected[k],
           k = "avatar" => cache' = cache /\ synced' = synced, Writers(k)' = Writers(k),
           \A c \in Writers(k) : upload'[c] = upload[c]
    PROVE  Promise(k)'
<1>1. Settled(k)' = Settled(k)
  BY DEF Settled
<1>2. ASSUME NEW c \in Writers(k), DoneBy(k, c)
      PROVE  DoneBy(k, c)'
  <2>1. upload'[c] = upload[c] /\ Meant(c)' = Meant(c)
    BY DEF Meant
  <2>2. \A x : Shows(k, x)' = Shows(k, x)
    BY DEF Shows, AllNone
  <2> QED
    BY <1>2, <2>1, <2>2 DEF DoneBy, UploadAt
<1>3. \A x : Shows(k, x)' = Shows(k, x)
  BY DEF Shows, AllNone
<1> QED
  BY <1>1, <1>2, <1>3 DEF Promise

(* A request goes on to q and touches nothing but what belongs to its kind k. *)
OwnOnly(c, k, q) ==
    /\ ~UploadAt(c, "idle") /\ k = upload[c].kind
    /\ UploadGoes(c, q) /\ (q = NoUpload \/ (q.step # "idle" /\ q.kind = k))
    /\ \A l \in Kinds \ {k} : files'[l] = files[l] /\ expected'[l] = expected[l]
    /\ k # "avatar" => cache' = cache /\ synced' = synced
    /\ synced' \in BOOLEAN /\ expected'[k] \in {expected[k], Unknown}
    /\ expected'[k] = Pending(c) /\ q # NoUpload => DoneBy(k, c)'

(* Of its own kind only the request that moves can be waited for. *)
LEMMA OneUpload ==
    ASSUME MediaInv, NEW c \in Uploaders, NEW k \in Kinds, NEW q, OwnOnly(c, k, q)
    PROVE  \A l \in Kinds : Promise(l)'
<1>0. /\ ~UploadAt(c, "idle") /\ k = upload[c].kind
      /\ UploadGoes(c, q) /\ (q = NoUpload \/ (q.step # "idle" /\ q.kind = k))
      /\ \A l \in Kinds \ {k} : files'[l] = files[l] /\ expected'[l] = expected[l]
      /\ k # "avatar" => cache' = cache /\ synced' = synced
      /\ synced' \in BOOLEAN /\ expected'[k] \in {expected[k], Unknown}
      /\ expected'[k] = Pending(c) /\ q # NoUpload => DoneBy(k, c)'
  BY DEF OwnOnly
<1>1. upload'[c] = q /\ \A d \in Uploaders \ {c} : upload'[d] = upload[d]
  BY <1>0 DEF UploadGoes, MediaInv
<1>2. q = NoUpload => q.step = "idle"
  BY DEF NoUpload
<1>3. ASSUME NEW l \in Kinds \ {k}
      PROVE  Promise(l)'
  <2>1. Writers(l)' = Writers(l) /\ c \notin Writers(l)
    BY <1>0, <1>1, <1>2 DEF Writers, UploadAt
  <2>2. \A d \in Writers(l) : upload'[d] = upload[d]
    BY <1>1, <2>1 DEF Writers
  <2>3. l = "avatar" => cache' = cache /\ synced' = synced
    BY <1>0 DEF Kinds
  <2>4. Promise(l)
    BY DEF MediaInv
  <2> QED
    BY <1>0, <2>1, <2>2, <2>3, <2>4, Elsewhere
<1>4. Promise(k)'
  <2>1. Promise(k)
    BY DEF MediaInv
  <2>2. c \in Writers(k) /\ Writers(k)' \subseteq Writers(k)
    BY <1>0, <1>1, <1>2 DEF Writers, UploadAt
  <2>3. ~Settled(k)
    BY <2>1, <2>2 DEF Promise
  <2>4. ~Settled(k)'
    BY <1>0, <2>3, Apart DEF Settled
  <2>5. ASSUME NEW d \in Uploaders, expected'[k] = Pending(d)
        PROVE  Writers(k)' \subseteq {d} /\ (d \in Writers(k)' => DoneBy(k, d)')
    <3>1. expected[k] = Pending(d)
      BY <1>0, <2>5, Apart
    <3>2. Writers(k) \subseteq {d} /\ d = c
      BY <3>1, <2>1, <2>2 DEF Promise
    <3>3. c \in Writers(k)' => q # NoUpload
      BY <1>0, <1>1, <1>2 DEF Writers, UploadAt
    <3> QED
      BY <1>0, <3>2, <3>3, <2>2, <2>5
  <2> QED
    BY <2>4, <2>5 DEF Promise
<1> QED
  BY <1>3, <1>4

(* What a request can be next. *)
LEMMA Typed ==
    ASSUME MediaInv, NEW c \in Uploaders, NEW q, UploadOK(q), UploadGoes(c, q)
    PROVE  DOMAIN upload' = Uploaders /\ \A d \in Uploaders : UploadOK(upload'[d])
BY DEF MediaInv, UploadGoes

(* A file that somebody else fills is not opened by me. *)
LEMMA FilesUntouched ==
    ASSUME MediaInv, NEW c \in Uploaders, NEW q, UploadGoes(c, q), files' = files,
           upload[c].step = "fill" => q.step = "fill" /\ q.kind = upload[c].kind
    PROVE  FilesOK'
<1>1. \A d \in Uploaders : upload[d].step = "fill" =>
            upload'[d].step = "fill" /\ upload'[d].kind = upload[d].kind
  BY DEF MediaInv, UploadGoes
<1> QED
  BY <1>1 DEF MediaInv, FilesOK, Contents

(* A file that is written belongs to whoever writes it. *)
LEMMA FilesWritten ==
    ASSUME MediaInv, NEW c \in Uploaders, NEW q, UploadGoes(c, q), NEW k \in Kinds, k = upload[c].kind,
           NEW e \in Named, NEW x \in Contents, PutFile(k, e, x),
           x # None => e = "png",
           \A d \in Uploaders : x = Opened(d) => d = c /\ q.step = "fill" /\ q.kind = k,
           upload[c].step = "fill" => e = "png"
    PROVE  FilesOK'
<1>1. \A d \in Uploaders \ {c} : upload'[d] = upload[d]
  BY DEF MediaInv, UploadGoes
<1>2. upload'[c] = q
  BY DEF MediaInv, UploadGoes
<1>3. /\ files' \in [Kinds -> [Named -> Contents]]
      /\ files'[k][e] = x
      /\ \A l \in Kinds, n \in Named : l # k \/ n # e => files'[l][n] = files[l][n]
  BY DEF PutFile, MediaInv, FilesOK
<1>4. \A l \in Kinds, n \in Named : files'[l][n] # None => n = "png" \/ files'[l][n] = Whole(Old)
  BY <1>3 DEF MediaInv, FilesOK
<1>5. ASSUME NEW l \in Kinds, NEW d \in Uploaders, files'[l]["png"] = Opened(d)
      PROVE  upload'[d].step = "fill" /\ upload'[d].kind = l
  <2>1. "png" \in Named
    BY FirstPng
  <2>2. CASE l = k /\ e = "png"
    BY <2>2, <1>2, <1>3, <1>5
  <2>3. CASE ~(l = k /\ e = "png")
    <3>1. files[l]["png"] = Opened(d)
      BY <2>1, <2>3, <1>3, <1>5
    <3>2. upload[d].step = "fill" /\ upload[d].kind = l
      BY <3>1 DEF MediaInv, FilesOK
    <3>3. d # c
      BY <3>2, <2>3
    <3> QED
      BY <3>2, <3>3, <1>1
  <2> QED
    BY <2>2, <2>3
<1> QED
  BY <1>3, <1>4, <1>5 DEF FilesOK, Contents

(* At first there may be files of older versions, and nobody is at work. *)
LEMMA MediaStart == MediaInit => MediaInv
<1> SUFFICES ASSUME MediaInit PROVE MediaInv
  OBVIOUS
<1>1. \A c \in Uploaders : upload[c] = NoUpload /\ UploadOK(upload[c])
  BY DEF MediaInit, UploadOK, Uploads, NoUpload
<1>2. PICK olds \in [Kinds -> SUBSET {"jpg", "webp"}] :
        files = [k \in Kinds |-> [e \in Named |-> IF e \in olds[k] THEN Whole(Old) ELSE None]]
  <2>1. \A k \in Kinds : \E old \in SUBSET {"jpg", "webp"} :
            files[k] = [e \in Named |-> IF e \in old THEN Whole(Old) ELSE None]
    <3> DEFINE Start(old) == [e \in Named |-> IF e \in old THEN Whole(Old) ELSE None]
    <3>1. files \in [Kinds -> {Start(old) : old \in SUBSET {"jpg", "webp"}}]
      BY DEF MediaInit
    <3> HIDE DEF Start
    <3>2. \A k \in Kinds : \E old \in SUBSET {"jpg", "webp"} : files[k] = Start(old)
      BY <3>1
    <3> QED
      BY <3>2 DEF Start
  <2> DEFINE olds == [k \in Kinds |-> CHOOSE old \in SUBSET {"jpg", "webp"} :
                            files[k] = [e \in Named |-> IF e \in old THEN Whole(Old) ELSE None]]
  <2>2. olds \in [Kinds -> SUBSET {"jpg", "webp"}]
        /\ \A k \in Kinds : files[k] = [e \in Named |-> IF e \in olds[k] THEN Whole(Old) ELSE None]
    BY <2>1, Zenon
  <2>3. files = [k \in Kinds |-> files[k]]
    BY DEF MediaInit
  <2> HIDE DEF olds
  <2> QED
    BY <2>2, <2>3, Zenon
<1>3. \A k \in Kinds, e \in Named : files[k][e] \in {None, Whole(Old)} /\ (files[k][e] # None => files[k][e] = Whole(Old))
  BY <1>2
<1>4. files \in [Kinds -> [Named -> Contents]]
  <2>1. Whole(Old) \in Contents /\ None \in Contents
    BY DEF Contents
  <2> QED
    BY <2>1, <1>2
<1>5. FilesOK
  <2>1. "png" \in Named
    BY FirstPng
  <2> QED
    BY <2>1, <1>3, <1>4, Apart DEF FilesOK
<1>6. ASSUME NEW k \in Kinds
      PROVE  Promise(k)
  BY <1>1, Apart DEF MediaInit, Promise, Settled
<1> QED
  BY <1>1, <1>5, <1>6 DEF MediaInit, MediaInv, Expectations

(* A request that begins alone is the one waited for; any other spoils it. *)
LEMMA BeginKeeps ==
    ASSUME MediaInv, NEW c \in Uploaders, NEW k \in Kinds,
           NEW what \in {"upload", "reset"}, NEW p \in Pictures \cup {Junk}, Begin(c, k, what, p)
    PROVE  MediaInv'
<1> DEFINE q == [step |-> IF what = "reset" \/ k = "banner" THEN "remove" ELSE "sanitize",
                 kind |-> k, what |-> what, picture |-> p, i |-> 1]
<1>1. /\ UploadGoes(c, q) /\ UploadAt(c, "idle") /\ files' = files /\ cache' = cache
      /\ synced' \in BOOLEAN /\ (k # "avatar" => synced' = synced)
  BY DEF Begin, MediaInv
<1>2. q.step \in {"remove", "sanitize"} /\ q.kind = k /\ UploadOK(q) /\ q.i = 1
  BY DEF UploadOK, Uploads, Kinds
<1> HIDE DEF q
<1>3. DOMAIN upload' = Uploaders /\ \A d \in Uploaders : UploadOK(upload'[d])
  BY <1>1, <1>2, Typed
<1>4. FilesOK'
  BY <1>1, <1>2, FilesUntouched DEF UploadAt
<1>5. upload'[c] = q /\ \A d \in Uploaders \ {c} : upload'[d] = upload[d]
  BY <1>1 DEF UploadGoes, MediaInv
<1>6. expected' = [expected EXCEPT ![k] = IF Writers(k) = {} THEN Pending(c) ELSE Unknown]
  BY DEF Begin
<1>7. expected' \in [Kinds -> Expectations]
  BY <1>6 DEF MediaInv, Expectations
<1>8. ASSUME NEW l \in Kinds \ {k}
      PROVE  Promise(l)'
  <2>1. Writers(l)' = Writers(l) /\ \A d \in Writers(l) : upload'[d] = upload[d]
    BY <1>1, <1>2, <1>5 DEF Writers, UploadAt
  <2>2. Promise(l) /\ expected'[l] = expected[l] /\ (l = "avatar" => synced' = synced)
    BY <1>1, <1>6 DEF MediaInv, Kinds
  <2> QED
    BY <1>1, <2>1, <2>2, Elsewhere
<1>9. Promise(k)'
  <2>1. ~Settled(k)' /\ expected'[k] = IF Writers(k) = {} THEN Pending(c) ELSE Unknown
    BY <1>6, Apart DEF Settled, MediaInv
  <2>2. ASSUME NEW d \in Uploaders, expected'[k] = Pending(d)
        PROVE  Writers(k)' \subseteq {d} /\ (d \in Writers(k)' => DoneBy(k, d)')
    <3>1. Writers(k) = {} /\ d = c
      BY <2>1, <2>2, Apart
    <3>2. Writers(k)' \subseteq {c}
      BY <1>5, <3>1 DEF Writers, UploadAt
    <3>3. DoneBy(k, c)'
      BY <1>2, <1>5 DEF DoneBy, UploadAt
    <3> QED
      BY <3>1, <3>2, <3>3
  <2> QED
    BY <2>1, <2>2 DEF Promise
<1> QED
  BY <1>1, <1>3, <1>4, <1>7, <1>8, <1>9 DEF MediaInv

(* A request that only goes on. *)
LEMMA GoesOn ==
    ASSUME MediaInv, NEW c \in Uploaders, ~UploadAt(c, "idle"), NEW q, UploadGoes(c, q), UploadOK(q),
           q = NoUpload \/ (q.step \in {"sanitize", "open"} /\ q.kind = upload[c].kind),
           upload[c].step # "fill", UNCHANGED <<files, cache, expected, synced>>
    PROVE  MediaInv'
<1>0. PICK k : k = upload[c].kind
  OBVIOUS
<1>1. k \in Kinds /\ upload[c] \in Uploads
  BY <1>0 DEF MediaInv, UploadOK, Uploads, UploadAt, NoUpload
<1>2. upload'[c] = q
  BY DEF UploadGoes, MediaInv
<1>3. q # NoUpload => DoneBy(k, c)'
  BY <1>2 DEF DoneBy, UploadAt
<1>4. q = NoUpload \/ (q.step # "idle" /\ q.kind = k)
  BY <1>0
<1>5. \A l \in Kinds : Promise(l)'
  <2>1. /\ expected'[k] \in {expected[k], Unknown}
        /\ \A l \in Kinds \ {k} : files'[l] = files[l] /\ expected'[l] = expected[l]
    OBVIOUS
  <2>2. OwnOnly(c, k, q)
    BY <1>0, <1>1, <1>3, <1>4, <2>1 DEF OwnOnly, MediaInv
  <2> QED
    BY Zenon, <1>0, <1>1, <1>3, <1>4, <2>1, <2>2, OneUpload
<1>6. FilesOK'
  BY FilesUntouched
<1>7. DOMAIN upload' = Uploaders /\ \A d \in Uploaders : UploadOK(upload'[d])
  BY Typed
<1> QED
  BY <1>5, <1>6, <1>7 DEF MediaInv

(* Where a request goes after a removal: on to the next extension, or *)
(* past the last.                                                     *)
LEMMA RemovedIs ==
    ASSUME MediaInv, NEW c \in Uploaders, UploadAt(c, "remove"), Removed(c)
    PROVE  \E q : /\ UploadGoes(c, q) /\ UploadOK(q) /\ q.kind = upload[c].kind /\ q.what = upload[c].what
                  /\ IF upload[c].i < 4 THEN q.step = "remove" /\ q.i = upload[c].i + 1
                     ELSE /\ q.step \in {"sanitize", "cache", "ok"}
                          /\ q.step # "sanitize" => q.what = "reset"
                          /\ q.step = "ok" => q.kind # "avatar"
<1>1. upload[c] \in Uploads /\ upload[c].step = "remove" /\ UploadOK(upload[c])
  BY DEF MediaInv, UploadOK, UploadAt
<1>2. upload[c] \in Uploads \ {NoUpload}
  BY <1>1 DEF NoUpload
<1>3. PICK u : u = upload[c]
  OBVIOUS
<1>4. CASE upload[c].i < 4
  <2>1. UploadGoes(c, [u EXCEPT !.i = u.i + 1])
    BY <1>3, <1>4, FirstPng DEF Removed
  <2>2. UploadOK([u EXCEPT !.i = u.i + 1])
    BY <1>1, <1>2, <1>3, <1>4 DEF UploadOK, Uploads
  <2>3. LET q == [u EXCEPT !.i = u.i + 1]
        IN  q.kind = u.kind /\ q.what = u.what /\ q.step = "remove" /\ q.i = u.i + 1
    BY <1>1, <1>2, <1>3 DEF Uploads
  <2> QED
    BY <1>3, <1>4, <2>1, <2>2, <2>3
<1>5. CASE ~(upload[c].i < 4)
  <2> DEFINE s == IF u.what = "upload" THEN "sanitize" ELSE IF u.kind = "avatar" THEN "cache" ELSE "ok"
             q == [u EXCEPT !.step = s]
  <2>1. UploadGoes(c, q)
    BY <1>3, <1>5, FirstPng DEF Removed, UploadMoves
  <2>2. UploadOK(q)
    BY <1>1, <1>2, <1>3 DEF UploadOK, Uploads
  <2>3. q.kind = u.kind /\ q.what = u.what /\ q.step = s
    BY <1>1, <1>2, <1>3 DEF Uploads
  <2>4. /\ s \in {"sanitize", "cache", "ok"}
        /\ s # "sanitize" => u.what = "reset"
        /\ s = "ok" => u.kind # "avatar"
    BY <1>2, <1>3 DEF Uploads
  <2> HIDE DEF q, s
  <2> QED
    BY <1>3, <1>5, <2>1, <2>2, <2>3, <2>4
<1> QED
  BY <1>4, <1>5

(* One more extension is gone; after the last none is left. *)
LEMMA RemoveKeeps ==
    ASSUME MediaInv, NEW c \in Uploaders, Remove(c)
    PROVE  MediaInv'
<1>1. UploadAt(c, "remove") /\ Removed(c) /\ UNCHANGED <<cache, expected, synced>>
  BY DEF Remove
<1>2. PICK q : /\ UploadGoes(c, q) /\ UploadOK(q) /\ q.kind = upload[c].kind /\ q.what = upload[c].what
               /\ IF upload[c].i < 4 THEN q.step = "remove" /\ q.i = upload[c].i + 1
                  ELSE /\ q.step \in {"sanitize", "cache", "ok"}
                       /\ q.step # "sanitize" => q.what = "reset"
                       /\ q.step = "ok" => q.kind # "avatar"
  BY <1>1, RemovedIs, Zenon
<1>3. PICK k, n : k = upload[c].kind /\ n = upload[c].i
  OBVIOUS
<1>4. k \in Kinds /\ n \in 1 .. 4 /\ ~UploadAt(c, "idle") /\ upload[c].step = "remove"
  BY <1>1, <1>3 DEF MediaInv, UploadOK, Uploads, UploadAt, NoUpload
<1>5. PutFile(k, Extensions[n], None)
  BY <1>3 DEF Remove
<1>6. FilesOK'
  <2>1. Extensions[n] \in Named /\ None \in Contents /\ \A d : None # Opened(d)
    BY <1>4, FirstPng, Apart DEF Contents
  <2> QED
    BY <1>2, <1>3, <1>4, <1>5, <2>1, FilesWritten
<1>7. upload'[c] = q
  BY <1>2 DEF UploadGoes, MediaInv
<1>8. /\ \A l \in Kinds \ {k} : files'[l] = files[l] /\ expected'[l] = expected[l]
      /\ \A e \in Named : files'[k][e] = IF e = Extensions[n] THEN None ELSE files[k][e]
  BY <1>1, <1>4, <1>5, FirstPng DEF PutFile, MediaInv, FilesOK
<1>9. ASSUME expected'[k] = Pending(c)
      PROVE  DoneBy(k, c)'
  <2>1. DoneBy(k, c)
    BY <1>1, <1>3, <1>4, <1>9 DEF MediaInv, Promise, Writers
  <2>2. \A j \in 1 .. n - 1 : files[k][Extensions[j]] = None
    BY <1>1, <1>3, <2>1 DEF DoneBy
  <2>3. \A j \in 1 .. n : Extensions[j] \in Named /\ files'[k][Extensions[j]] = None
    <3> SUFFICES ASSUME NEW j \in 1 .. n PROVE Extensions[j] \in Named /\ files'[k][Extensions[j]] = None
      OBVIOUS
    <3>1. Extensions[j] \in Named
      BY <1>4, FirstPng
    <3>2. j \in 1 .. n - 1 \/ j = n
      BY <1>4
    <3> QED
      BY <1>8, <2>2, <3>1, <3>2
  <2>4. CASE n < 4
    <3>1. q.step = "remove" /\ q.i - 1 = n
      BY <1>2, <1>3, <1>4, <2>4
    <3> QED
      BY <1>7, <2>3, <3>1 DEF DoneBy, UploadAt
  <2>5. CASE ~(n < 4)
    <3>1. n = 4
      BY <1>4, <2>5
    <3>2. AllNone(k)'
      BY <2>3, <3>1, FirstPng DEF AllNone
    <3>3. q.step \in {"sanitize", "cache", "ok"} /\ (q.step # "sanitize" => q.what = "reset")
          /\ (q.step = "ok" => k # "avatar")
      BY <1>2, <1>3, <2>5
    <3>4. q.step # "sanitize" => Meant(c)' = None
      BY <1>7, <3>3 DEF Meant
    <3> QED
      BY <1>7, <3>2, <3>3, <3>4 DEF DoneBy, UploadAt, Shows
  <2> QED
    BY <2>4, <2>5
<1>10. q.step # "idle" /\ q.kind = k
  BY <1>2, <1>3
<1>11. \A l \in Kinds : Promise(l)'
  <2>1. OwnOnly(c, k, q)
    BY <1>1, <1>2, <1>3, <1>4, <1>8, <1>9, <1>10 DEF OwnOnly, MediaInv
  <2> QED
    BY Zenon, <1>1, <1>2, <1>3, <1>4, <1>8, <1>9, <1>10, <2>1, OneUpload
<1>12. DOMAIN upload' = Uploaders /\ \A d \in Uploaders : UploadOK(upload'[d])
  BY <1>2, Typed
<1> QED
  BY <1>1, <1>6, <1>11, <1>12 DEF MediaInv

(* A removal that fails promises nothing. *)
LEMMA RemoveFailsKeeps ==
    ASSUME MediaInv, NEW c \in Uploaders, RemoveFails(c)
    PROVE  MediaInv'
<1>1. UploadAt(c, "remove") /\ Removed(c) /\ UNCHANGED <<files, cache, synced>>
  BY DEF RemoveFails
<1>2. PICK q : UploadGoes(c, q) /\ UploadOK(q) /\ q.kind = upload[c].kind /\ q.step # "idle"
  <2>1. \E q : /\ UploadGoes(c, q) /\ UploadOK(q) /\ q.kind = upload[c].kind /\ q.what = upload[c].what
               /\ IF upload[c].i < 4 THEN q.step = "remove" /\ q.i = upload[c].i + 1
                  ELSE /\ q.step \in {"sanitize", "cache", "ok"}
                       /\ q.step # "sanitize" => q.what = "reset"
                       /\ q.step = "ok" => q.kind # "avatar"
    BY <1>1, RemovedIs, Zenon
  <2> QED
    BY <2>1
<1>3. PICK k : k = upload[c].kind
  OBVIOUS
<1>4. k \in Kinds /\ ~UploadAt(c, "idle") /\ upload[c].step = "remove"
  BY <1>1, <1>3 DEF MediaInv, UploadOK, Uploads, UploadAt, NoUpload
<1>5. expected' = [expected EXCEPT ![k] = Unknown]
  BY <1>3 DEF RemoveFails
<1>6. /\ expected'[k] = Unknown /\ \A l \in Kinds \ {k} : expected'[l] = expected[l]
      /\ expected' \in [Kinds -> Expectations]
  BY <1>4, <1>5 DEF MediaInv, Expectations
<1>7. FilesOK'
  BY <1>1, <1>2, <1>4, FilesUntouched
<1>8. DOMAIN upload' = Uploaders /\ \A d \in Uploaders : UploadOK(upload'[d])
  BY <1>2, Typed
<1>9. expected'[k] # Pending(c)
  BY <1>6, Apart
<1>10. \A l \in Kinds : Promise(l)'
  <2>1. OwnOnly(c, k, q)
    BY <1>1, <1>2, <1>3, <1>4, <1>6, <1>9 DEF OwnOnly, MediaInv
  <2> QED
    BY Zenon, <1>1, <1>2, <1>3, <1>4, <1>6, <1>9, <2>1, OneUpload
<1> QED
  BY <1>1, <1>6, <1>7, <1>8, <1>10 DEF MediaInv

(* Junk ends the request before a file is opened. *)
LEMMA SanitizeKeeps ==
    ASSUME MediaInv, NEW c \in Uploaders, Sanitize(c)
    PROVE  MediaInv'
<1>1. UploadAt(c, "sanitize") /\ UNCHANGED <<files, cache, expected, synced>>
  BY DEF Sanitize
<1>2. upload[c] \in Uploads \ {NoUpload} /\ upload[c].step = "sanitize" /\ upload[c].what = "upload" /\ ~UploadAt(c, "idle")
  BY <1>1 DEF MediaInv, UploadOK, UploadAt, NoUpload
<1>3. CASE upload[c].picture = Junk
  <2>1. UploadGoes(c, NoUpload) /\ UploadOK(NoUpload)
    BY <1>3 DEF Sanitize, UploadOK, Uploads, NoUpload
  <2> QED
    BY <1>1, <1>2, <2>1, GoesOn
<1>4. CASE upload[c].picture # Junk
  <2>1. PICK q : q = [upload[c] EXCEPT !.step = "open"]
    OBVIOUS
  <2>2. UploadGoes(c, q)
    BY <1>4, <2>1 DEF Sanitize, UploadMoves
  <2>3. UploadOK(q) /\ q.step = "open" /\ q.kind = upload[c].kind
    BY <1>2, <1>4, <2>1 DEF UploadOK, Uploads
  <2> QED
    BY <1>1, <1>2, <2>2, <2>3, GoesOn
<1> QED
  BY <1>3, <1>4

(* A request that is refused has changed nothing. *)
LEMMA RefuseKeeps ==
    ASSUME MediaInv, NEW c \in Uploaders, Refuse(c)
    PROVE  MediaInv'
<1>1. UploadOK(NoUpload) /\ UploadGoes(c, NoUpload) /\ UNCHANGED <<files, cache, expected, synced>>
  BY DEF Refuse, UploadOK, Uploads, NoUpload
<1>2. ~UploadAt(c, "idle") /\ upload[c].step # "fill"
  BY DEF Refuse, UploadAt
<1> QED
  BY <1>1, <1>2, GoesOn

(* The file that is opened is the one request's. *)
LEMMA OpenKeeps ==
    ASSUME MediaInv, NEW c \in Uploaders, Open(c)
    PROVE  MediaInv'
<1>1. UploadAt(c, "open") /\ UNCHANGED <<cache, expected, synced>>
  BY DEF Open
<1>2. upload[c] \in Uploads \ {NoUpload} /\ upload[c].step = "open" /\ UploadOK(upload[c]) /\ ~UploadAt(c, "idle")
  BY <1>1 DEF MediaInv, UploadOK, UploadAt, NoUpload
<1>3. PICK k, q : k = upload[c].kind /\ q = [upload[c] EXCEPT !.step = "fill"]
  OBVIOUS
<1>4. UploadGoes(c, q) /\ PutFile(k, "png", Opened(c))
  BY <1>3 DEF Open, UploadMoves
<1>5. UploadOK(q) /\ q.step = "fill" /\ q.kind = k /\ k \in Kinds
  BY <1>2, <1>3 DEF UploadOK, Uploads
<1>6. Opened(c) \in Contents /\ "png" \in Named /\ \A d \in Uploaders : Opened(c) = Opened(d) => d = c
  BY FirstPng, Apart DEF Contents
<1>7. FilesOK'
  <2>1. PICK x : x = Opened(c)
    OBVIOUS
  <2>2. /\ x \in Contents /\ "png" \in Named /\ PutFile(k, "png", x)
        /\ \A d \in Uploaders : x = Opened(d) => d = c /\ q.step = "fill" /\ q.kind = k
    BY <1>4, <1>5, <1>6, <2>1
  <2>3. x # None => "png" = "png"
    OBVIOUS
  <2>4. k \in Kinds /\ k = upload[c].kind /\ UploadGoes(c, q) /\ (upload[c].step = "fill" => "png" = "png")
    BY <1>3, <1>4, <1>5
  <2> QED
    BY <2>2, <2>3, <2>4, FilesWritten
<1>8. /\ files'[k]["png"] = Opened(c) /\ \A l \in Kinds \ {k} : files'[l] = files[l]
      /\ upload'[c] = q
  BY <1>4, <1>5, <1>6 DEF PutFile, UploadGoes, MediaInv, FilesOK
<1>9. DoneBy(k, c)'
  BY <1>5, <1>8 DEF DoneBy, UploadAt
<1>10. \A l \in Kinds : Promise(l)'
  <2>1. expected'[k] \in {expected[k], Unknown} /\ \A l \in Kinds \ {k} : files'[l] = files[l] /\ expected'[l] = expected[l]
    BY <1>1, <1>8
  <2>2. OwnOnly(c, k, q)
    BY <1>1, <1>2, <1>3, <1>4, <1>5, <1>9, <2>1 DEF OwnOnly, MediaInv
  <2> QED
    BY Zenon, <1>1, <1>2, <1>3, <1>4, <1>5, <1>9, <2>1, <2>2, OneUpload
<1>11. DOMAIN upload' = Uploaders /\ \A d \in Uploaders : UploadOK(upload'[d])
  BY <1>4, <1>5, Typed
<1> QED
  BY <1>1, <1>7, <1>10, <1>11 DEF MediaInv

(* Who fills the file alone has it as it was opened, and it becomes whole. *)
LEMMA FillKeeps ==
    ASSUME MediaInv, NEW c \in Uploaders, Fill(c)
    PROVE  MediaInv'
<1>1. UploadAt(c, "fill") /\ UNCHANGED <<cache, expected, synced>>
  BY DEF Fill
<1>2. /\ upload[c] \in Uploads \ {NoUpload} /\ upload[c].step = "fill" /\ UploadOK(upload[c]) /\ ~UploadAt(c, "idle")
      /\ upload[c].picture \in Pictures /\ upload[c].what = "upload"
  BY <1>1 DEF MediaInv, UploadOK, UploadAt, NoUpload, Uploads
<1>3. PICK k, q : k = upload[c].kind /\ q = [upload[c] EXCEPT !.step = Filled(c)]
  OBVIOUS
<1>4. UploadGoes(c, q)
  BY <1>3 DEF Fill, UploadMoves
<1>5. UploadOK(q) /\ q.step = Filled(c) /\ q.step # "idle" /\ q.kind = k /\ k \in Kinds
      /\ q.picture = upload[c].picture /\ q.what = "upload"
  BY <1>2, <1>3 DEF UploadOK, Uploads, Filled
<1>6. Filled(c) \in {"cache", "ok"} /\ (Filled(c) = "ok" => k # "avatar")
  BY <1>3 DEF Filled
<1>7. PICK x \in {Whole(upload[c].picture), Torn} :
        PutFile(k, "png", x) /\ (x = Torn => files[k]["png"] # Opened(c))
  <2>1. CASE PutFile(k, "png", Whole(upload[c].picture))
    BY <2>1, Apart
  <2>2. CASE files[k]["png"] # Opened(c) /\ PutFile(k, "png", Torn)
    BY <2>2
  <2> QED
    BY <2>1, <2>2, <1>3 DEF Fill
<1>8. x \in Contents /\ "png" \in Named /\ \A d \in Uploaders : x # Opened(d)
  BY <1>2, FirstPng, Apart DEF Contents
<1>9. FilesOK'
  BY <1>2, <1>3, <1>4, <1>5, <1>7, <1>8, FilesWritten
<1>10. /\ files'[k]["png"] = x /\ \A l \in Kinds \ {k} : files'[l] = files[l]
       /\ upload'[c] = q
  BY <1>4, <1>5, <1>7, <1>8 DEF PutFile, UploadGoes, MediaInv, FilesOK
<1>11. ASSUME expected'[k] = Pending(c)
       PROVE  DoneBy(k, c)'
  <2>1. DoneBy(k, c)
    BY <1>1, <1>2, <1>3, <1>5, <1>11 DEF MediaInv, Promise, Writers
  <2>2. x = Whole(upload[c].picture)
    BY <1>1, <1>7, <2>1 DEF DoneBy
  <2>3. Meant(c)' = x
    BY <1>5, <1>10, <2>2 DEF Meant
  <2>4. Shows(k, x)'
    BY <1>10, <2>2, Apart DEF Shows
  <2> QED
    BY <1>5, <1>6, <1>10, <2>3, <2>4 DEF DoneBy, UploadAt
<1>12. \A l \in Kinds : Promise(l)'
  <2>1. expected'[k] \in {expected[k], Unknown} /\ \A l \in Kinds \ {k} : files'[l] = files[l] /\ expected'[l] = expected[l]
    BY <1>1, <1>10
  <2>2. OwnOnly(c, k, q)
    BY <1>1, <1>2, <1>3, <1>4, <1>5, <1>11, <2>1 DEF OwnOnly, MediaInv
  <2> QED
    BY Zenon, <1>1, <1>2, <1>3, <1>4, <1>5, <1>11, <2>1, <2>2, OneUpload
<1>13. DOMAIN upload' = Uploaders /\ \A d \in Uploaders : UploadOK(upload'[d])
  BY <1>4, <1>5, Typed
<1> QED
  BY <1>1, <1>9, <1>12, <1>13 DEF MediaInv

(* A write that fails leaves the request without an answer. *)
LEMMA WriteFailsKeeps ==
    ASSUME MediaInv, NEW c \in Uploaders, WriteFails(c)
    PROVE  MediaInv'
<1>1. UploadAt(c, "fill") /\ UNCHANGED <<cache, expected, synced>> /\ UploadGoes(c, NoUpload)
  BY DEF WriteFails
<1>2. upload[c] \in Uploads \ {NoUpload} /\ upload[c].step = "fill" /\ ~UploadAt(c, "idle") /\ UploadOK(NoUpload)
  BY <1>1 DEF MediaInv, UploadOK, UploadAt, NoUpload, Uploads
<1>3. PICK k : k = upload[c].kind
  OBVIOUS
<1>4. k \in Kinds /\ PutFile(k, "png", Torn)
  BY <1>2, <1>3 DEF WriteFails, Uploads
<1>5. Torn \in Contents /\ "png" \in Named /\ \A d \in Uploaders : Torn # Opened(d)
  BY FirstPng, Apart DEF Contents
<1>6. FilesOK'
  BY <1>1, <1>2, <1>3, <1>4, <1>5, FilesWritten
<1>7. \A l \in Kinds \ {k} : files'[l] = files[l]
  BY <1>4, <1>5 DEF PutFile, MediaInv, FilesOK
<1>8. \A l \in Kinds : Promise(l)'
  <2>1. expected'[k] \in {expected[k], Unknown} /\ \A l \in Kinds \ {k} : files'[l] = files[l] /\ expected'[l] = expected[l]
    BY <1>1, <1>7
  <2>2. OwnOnly(c, k, NoUpload)
    BY <1>1, <1>2, <1>3, <1>4, <2>1 DEF OwnOnly, MediaInv, NoUpload
  <2> QED
    BY Zenon, <1>1, <1>2, <1>3, <1>4, <2>1, <2>2, OneUpload
<1>9. DOMAIN upload' = Uploaders /\ \A d \in Uploaders : UploadOK(upload'[d])
  BY <1>1, <1>2, Typed
<1> QED
  BY <1>1, <1>6, <1>8, <1>9 DEF MediaInv

(* The local client gets what the file holds, or nothing is said of it. *)
LEMMA SyncKeeps ==
    ASSUME MediaInv, NEW c \in Uploaders, SyncCache(c) \/ SyncFails(c)
    PROVE  MediaInv'
<1>1. /\ UploadAt(c, "cache") /\ UNCHANGED <<files, expected>> /\ UploadMoves(c, "ok")
      /\ synced' \in BOOLEAN /\ (synced' => cache' = Meant(c))
  BY DEF SyncCache, SyncFails
<1>2. /\ upload[c] \in Uploads \ {NoUpload} /\ upload[c].step = "cache" /\ UploadOK(upload[c]) /\ ~UploadAt(c, "idle")
      /\ upload[c].kind = "avatar" /\ (upload[c].what = "upload" => upload[c].picture \in Pictures)
  BY <1>1 DEF MediaInv, UploadOK, UploadAt, NoUpload, Uploads
<1>3. PICK q : q = [upload[c] EXCEPT !.step = "ok"]
  OBVIOUS
<1>4. UploadGoes(c, q)
  BY <1>1, <1>3 DEF UploadMoves
<1>5. UploadOK(q) /\ q.step = "ok" /\ q.kind = "avatar" /\ q.what = upload[c].what /\ q.picture = upload[c].picture
  BY <1>2, <1>3 DEF UploadOK, Uploads
<1>6. FilesOK'
  BY <1>1, <1>2, <1>4, FilesUntouched
<1>7. upload'[c] = q /\ Meant(c)' = Meant(c)
  BY <1>4, <1>5 DEF UploadGoes, MediaInv, Meant
<1>8. ASSUME expected'["avatar"] = Pending(c)
      PROVE  DoneBy("avatar", c)'
  <2>1. DoneBy("avatar", c)
    BY <1>1, <1>2, <1>8 DEF MediaInv, Promise, Writers, Kinds
  <2>2. Shows("avatar", Meant(c))
    BY <1>1, <2>1 DEF DoneBy
  <2>3. \A x : Shows("avatar", x)' = Shows("avatar", x)
    BY <1>1 DEF Shows, AllNone
  <2> QED
    BY <1>1, <1>5, <1>7, <2>2, <2>3 DEF DoneBy, UploadAt
<1>9. \A l \in Kinds : Promise(l)'
  <2>1. "avatar" \in Kinds /\ expected'["avatar"] \in {expected["avatar"], Unknown}
        /\ \A l \in Kinds \ {"avatar"} : files'[l] = files[l] /\ expected'[l] = expected[l]
    BY <1>1 DEF Kinds
  <2>2. OwnOnly(c, "avatar", q)
    BY <1>1, <1>2, <1>4, <1>5, <1>8, <2>1 DEF OwnOnly, MediaInv
  <2> QED
    BY Zenon, <1>1, <1>2, <1>4, <1>5, <1>8, <2>1, <2>2, OneUpload
<1>10. DOMAIN upload' = Uploaders /\ \A d \in Uploaders : UploadOK(upload'[d])
  BY <1>4, <1>5, Typed
<1>11. cache' \in {None, Torn} \cup {Whole(p) : p \in Pictures}
  BY <1>2 DEF Meant, SyncCache, SyncFails, MediaInv
<1> QED
  BY <1>1, <1>6, <1>9, <1>10, <1>11 DEF MediaInv

(* The answer: the request waited for has done what it promises. *)
LEMMA SucceedKeeps ==
    ASSUME MediaInv, NEW c \in Uploaders, Succeed(c)
    PROVE  MediaInv'
<1>1. UploadAt(c, "ok") /\ UNCHANGED <<files, cache, synced>> /\ UploadGoes(c, NoUpload)
  BY DEF Succeed
<1>2. /\ upload[c] \in Uploads \ {NoUpload} /\ upload[c].step = "ok" /\ ~UploadAt(c, "idle") /\ UploadOK(NoUpload)
      /\ (upload[c].what = "upload" => upload[c].picture \in Pictures)
  BY <1>1 DEF MediaInv, UploadOK, UploadAt, NoUpload, Uploads
<1>3. PICK k : k = upload[c].kind
  OBVIOUS
<1>4. k \in Kinds /\ expected' = [expected EXCEPT ![k] = IF expected[k] = Pending(c) THEN Meant(c) ELSE expected[k]]
  BY <1>2, <1>3 DEF Succeed, Uploads
<1>5. Meant(c) = None \/ \E p \in Pictures : Meant(c) = Whole(p)
  BY <1>2 DEF Meant
<1>6. FilesOK'
  BY <1>1, <1>2, FilesUntouched
<1>7. DOMAIN upload' = Uploaders /\ \A d \in Uploaders : UploadOK(upload'[d])
  BY <1>1, <1>2, Typed
<1>8. expected' \in [Kinds -> Expectations]
  BY <1>4, <1>5 DEF MediaInv, Expectations
<1>9. CASE expected[k] = Pending(c)
  <2>1. Writers(k) = {c} /\ DoneBy(k, c)
    BY <1>2, <1>3, <1>4, <1>9 DEF MediaInv, Promise, Writers
  <2>2. upload'[c] = NoUpload /\ \A d \in Uploaders \ {c} : upload'[d] = upload[d]
    BY <1>1 DEF UploadGoes, MediaInv
  <2>3. Writers(k)' = {}
    BY <2>1, <2>2 DEF Writers, UploadAt, NoUpload
  <2>4. Shows(k, Meant(c)) /\ (k = "avatar" /\ synced => cache = Meant(c))
    BY <1>1, <2>1 DEF DoneBy
  <2>5. \A x : Shows(k, x)' = Shows(k, x)
    BY <1>1 DEF Shows, AllNone
  <2>6. expected'[k] = Meant(c) /\ \A l \in Kinds \ {k} : expected'[l] = expected[l]
    BY <1>4, <1>9 DEF MediaInv
  <2>7. Promise(k)'
    <3>1. \A d \in Uploaders : expected'[k] # Pending(d)
      BY <1>5, <2>6, Apart
    <3>2. Shows(k, expected[k])'
      BY <2>4, <2>5, <2>6
    <3> QED
      BY <1>1, <2>3, <2>4, <2>6, <3>1, <3>2 DEF Promise
  <2>8. ASSUME NEW l \in Kinds \ {k}
        PROVE  Promise(l)'
    <3>1. Writers(l)' = Writers(l) /\ \A d \in Writers(l) : upload'[d] = upload[d]
      BY <1>3, <2>2 DEF Writers, UploadAt, NoUpload
    <3>2. Promise(l)
      BY DEF MediaInv
    <3> QED
      BY <1>1, <2>6, <3>1, <3>2, Elsewhere
  <2> QED
    BY <1>1, <1>6, <1>7, <1>8, <2>7, <2>8 DEF MediaInv
<1>10. CASE expected[k] # Pending(c)
  <2>1. expected'[k] \in {expected[k], Unknown} /\ \A l \in Kinds \ {k} : files'[l] = files[l] /\ expected'[l] = expected[l]
    BY <1>1, <1>4, <1>10 DEF MediaInv
  <2>2. OwnOnly(c, k, NoUpload)
    BY <1>1, <1>2, <1>3, <1>4, <2>1 DEF OwnOnly, MediaInv, NoUpload
  <2>3. \A l \in Kinds : Promise(l)'
    BY Zenon, <1>1, <1>2, <1>3, <1>4, <2>2, OneUpload
  <2> QED
    BY <1>1, <1>6, <1>7, <1>8, <2>3 DEF MediaInv
<1> QED
  BY <1>9, <1>10

(* A crash tears open files only, and what is settled is not open. *)
LEMMA CrashKeeps ==
    ASSUME MediaInv, Crash
    PROVE  MediaInv'
<1>1. \A c \in Uploaders : upload'[c] = NoUpload
  BY DEF Crash
<1>2. DOMAIN upload' = Uploaders /\ \A c \in Uploaders : UploadOK(upload'[c])
  BY <1>1 DEF Crash, UploadOK, Uploads, NoUpload
<1>3. \A k \in Kinds, e \in Named :
        files'[k][e] = IF \E c \in Uploaders : files[k][e] = Opened(c) THEN Torn ELSE files[k][e]
  BY DEF Crash, MediaInv, FilesOK
<1>4. files' \in [Kinds -> [Named -> Contents]]
  <2>1. \A k \in Kinds : DOMAIN files[k] = Named
    BY DEF MediaInv, FilesOK
  <2>2. files' = [k \in Kinds |-> [e \in Named |->
                    IF \E c \in Uploaders : files[k][e] = Opened(c) THEN Torn ELSE files[k][e]]]
    BY <2>1 DEF Crash
  <2>3. \A k \in Kinds, e \in Named : files[k][e] \in Contents /\ Torn \in Contents
    BY DEF MediaInv, FilesOK, Contents
  <2> QED
    BY <2>2, <2>3
<1>5. FilesOK'
  <2>1. \A k \in Kinds, e \in Named : files'[k][e] # None => e = "png" \/ files'[k][e] = Whole(Old)
    BY <1>3, Apart DEF MediaInv, FilesOK
  <2>2. "png" \in Named
    BY FirstPng
  <2>3. \A k \in Kinds, c \in Uploaders : files'[k]["png"] # Opened(c)
    BY <1>3, <2>2, Apart
  <2> QED
    BY <1>4, <2>1, <2>3 DEF FilesOK, Contents
<1>6. ASSUME NEW k \in Kinds
      PROVE  Promise(k)'
  <2>1. Writers(k)' = {}
    BY <1>1 DEF Writers, UploadAt, NoUpload
  <2>2. expected' = expected /\ synced' = synced /\ Promise(k)
    BY DEF Crash, MediaInv
  <2>0. ASSUME Settled(k), k = "avatar"
        PROVE  cache' = cache
    <3>1. Writers("avatar") = {}
      BY <2>0, <2>2 DEF Promise
    <3>2. \A c \in Uploaders : UploadAt(c, "cache") => upload[c].kind = "avatar" /\ ~UploadAt(c, "idle")
      BY DEF MediaInv, UploadOK, UploadAt
    <3> QED
      BY <3>1, <3>2 DEF Crash, Writers
  <2>3. ASSUME Settled(k)
        PROVE  Shows(k, expected[k])'
    <3>1. Shows(k, expected[k])
      BY <2>2, <2>3 DEF Promise
    <3>2. "png" \in Named
      BY FirstPng
    <3>3. CASE expected[k] = None
      BY <1>3, <2>2, <3>1, <3>3, Apart DEF Shows, AllNone
    <3>4. CASE expected[k] # None
      <4>1. files[k]["png"] = expected[k]
        BY <3>1, <3>4 DEF Shows
      <4>2. \A c \in Uploaders : files[k]["png"] # Opened(c)
        BY <2>3, <3>4, <4>1, Apart DEF Settled
      <4>3. files'[k]["png"] = files[k]["png"]
        BY <1>3, <3>2, <4>2
      <4> QED
        BY <2>2, <3>4, <4>1, <4>3 DEF Shows
    <3> QED
      BY <3>3, <3>4
  <2>4. Settled(k)' = Settled(k)
    BY <2>2 DEF Settled
  <2> QED
    BY <2>0, <2>1, <2>2, <2>3, <2>4 DEF Promise
<1>7. cache' \in {None, Torn} \cup {Whole(p) : p \in Pictures} /\ synced' \in BOOLEAN
  BY DEF Crash, MediaInv
<1> QED
  BY <1>2, <1>5, <1>6, <1>7 DEF Crash, MediaInv

(* Other steps leave everything as it is. *)
LEMMA MediaStutters ==
    ASSUME MediaInv, UNCHANGED mediaVars
    PROVE  MediaInv'
<1>1. FilesOK'
  BY DEF MediaInv, FilesOK, Contents, mediaVars
<1>2. ASSUME NEW k \in Kinds
      PROVE  Promise(k)'
  <2>1. Promise(k) /\ Writers(k)' = Writers(k)
    BY DEF MediaInv, mediaVars, Writers, UploadAt
  <2> QED
    BY <2>1, Elsewhere DEF mediaVars
<1> QED
  BY <1>1, <1>2 DEF MediaInv, mediaVars

(* All of it holds always. *)
LEMMA MediaKept == MediaSpec => []MediaInv
<1>1. MediaInv /\ [MediaNext]_mediaVars => MediaInv'
  <2> SUFFICES ASSUME MediaInv, [MediaNext]_mediaVars PROVE MediaInv'
    OBVIOUS
  <2>1. ASSUME NEW c \in Uploaders, NEW k \in Kinds, Begin(c, k, "reset", Junk)
        PROVE  MediaInv'
    BY <2>1, BeginKeeps
  <2>2. ASSUME NEW c \in Uploaders, NEW k \in Kinds, NEW p \in Pictures \cup {Junk}, Begin(c, k, "upload", p)
        PROVE  MediaInv'
    BY <2>2, BeginKeeps
  <2>3. CASE \E c \in Uploaders : Remove(c)
    BY <2>3, RemoveKeeps
  <2>4. CASE \E c \in Uploaders : RemoveFails(c)
    BY <2>4, RemoveFailsKeeps
  <2>5. CASE \E c \in Uploaders : Refuse(c)
    BY <2>5, RefuseKeeps
  <2>6. CASE \E c \in Uploaders : Sanitize(c)
    BY <2>6, SanitizeKeeps
  <2>7. CASE \E c \in Uploaders : Open(c)
    BY <2>7, OpenKeeps
  <2>8. CASE \E c \in Uploaders : Fill(c)
    BY <2>8, FillKeeps
  <2>9. CASE \E c \in Uploaders : WriteFails(c)
    BY <2>9, WriteFailsKeeps
  <2>10. CASE \E c \in Uploaders : SyncCache(c) \/ SyncFails(c)
    BY <2>10, SyncKeeps
  <2>11. CASE \E c \in Uploaders : Succeed(c)
    BY <2>11, SucceedKeeps
  <2>12. CASE Crash
    BY <2>12, CrashKeeps
  <2>13. CASE UNCHANGED mediaVars
    BY <2>13, MediaStutters
  <2> QED
    BY <2>1, <2>2, <2>3, <2>4, <2>5, <2>6, <2>7, <2>8, <2>9, <2>10, <2>11, <2>12, <2>13 DEF MediaNext
<1> QED
  BY <1>1, MediaStart, PTL DEF MediaSpec

(* Files hold what somebody may have left in them, never junk. *)
THEOREM MediaTyped == MediaSpec => []MediaTypeOK
<1>1. MediaInv => MediaTypeOK
  <2> SUFFICES ASSUME MediaInv PROVE MediaTypeOK
    OBVIOUS
  <2>1. \A c \in Uploaders : ~UploadAt(c, "idle") => <<upload[c].kind, upload[c].what>> \in Kinds \X {"upload", "reset"}
    <3> SUFFICES ASSUME NEW c \in Uploaders, ~UploadAt(c, "idle")
                 PROVE  upload[c].kind \in Kinds /\ upload[c].what \in {"upload", "reset"}
      OBVIOUS
    <3>1. upload[c] \in Uploads \ {NoUpload}
      BY DEF MediaInv, UploadOK, UploadAt, NoUpload
    <3> QED
      BY <3>1 DEF Uploads
  <2>2. expected \in [Kinds -> {Unknown, None} \cup {Pending(c) : c \in Uploaders} \cup {Whole(p) : p \in Pictures}]
    BY DEF MediaInv, Expectations
  <2> QED
    BY <2>1, <2>2 DEF MediaInv, FilesOK, MediaTypeOK
<1> QED
  BY <1>1, MediaKept, PTL

(* An answer of success to a request that ran alone is true of what       *)
(* everybody is shown, and of the local client if its cache was written,  *)
(* until the next request, whatever lies beside the file and whenever the *)
(* server is killed, provided that the files to be removed could be.      *)
THEOREM PicturesAsAnswered == MediaSpec => []AsAnswered
<1>1. MediaInv => AsAnswered
  <2> SUFFICES ASSUME MediaInv, NEW k \in Kinds, Settled(k)
               PROVE  Picture(k) = expected[k] /\ (k = "avatar" /\ synced => cache = expected[k])
    BY DEF AsAnswered
  <2>1. Shows(k, expected[k]) /\ (k = "avatar" /\ synced => cache = expected[k])
    BY DEF MediaInv, Promise
  <2> QED
    BY <2>1, WhatIsShown
<1> QED
  BY <1>1, MediaKept, PTL

(* A file of the avatar changes only through a request for the avatar. *)
LEMMA OneChange ==
    ASSUME MediaInv, NEW k \in Kinds, NEW e \in Named, NEW x, PutFile(k, e, x), files'["avatar"] # files["avatar"]
    PROVE  k = "avatar"
BY DEF PutFile, MediaInv, FilesOK, Kinds

(* Whoever changes the avatar resets it or brings a good picture; who has *)
(* opened a file that a crash tears is past the sanitizer, too.           *)
LEMMA AvatarChanges ==
    ASSUME MediaInv, [MediaNext]_mediaVars, files'["avatar"] # files["avatar"]
    PROVE  \E c \in Writers("avatar") :
                /\ upload'[c] # upload[c]
                /\ (upload[c].what = "reset" \/ upload[c].picture # Junk)
<1> DEFINE Goal == \E c \in Writers("avatar") :
                /\ upload'[c] # upload[c]
                /\ (upload[c].what = "reset" \/ upload[c].picture # Junk)
<1>1. "png" \in Named /\ "avatar" \in Kinds
  BY FirstPng DEF Kinds
<1>2. ASSUME NEW c \in Uploaders, Remove(c)
      PROVE  Goal
  <2>1. /\ upload[c] \in Uploads \ {NoUpload} /\ upload[c].step = "remove" /\ ~UploadAt(c, "idle")
        /\ upload[c].kind = "avatar" => upload[c].what = "reset"
    BY <1>2 DEF Remove, MediaInv, UploadOK, UploadAt, NoUpload
  <2>2. upload[c].kind = "avatar"
    <3>1. PutFile(upload[c].kind, Extensions[upload[c].i], None)
      BY <1>2 DEF Remove
    <3>2. upload[c].kind \in Kinds /\ Extensions[upload[c].i] \in Named
      BY <2>1, FirstPng DEF Uploads
    <3> QED
      BY <3>1, <3>2, OneChange
  <2>3. UploadAt(c, "remove") /\ Removed(c)
    BY <1>2 DEF Remove
  <2>4. PICK q : UploadGoes(c, q) /\ (q.step # "remove" \/ q.i = upload[c].i + 1)
    <3>1. \E q : /\ UploadGoes(c, q) /\ UploadOK(q) /\ q.kind = upload[c].kind /\ q.what = upload[c].what
                 /\ IF upload[c].i < 4 THEN q.step = "remove" /\ q.i = upload[c].i + 1
                    ELSE /\ q.step \in {"sanitize", "cache", "ok"}
                         /\ q.step # "sanitize" => q.what = "reset"
                         /\ q.step = "ok" => q.kind # "avatar"
      BY <2>3, RemovedIs, Zenon
    <3> QED
      BY <3>1
  <2>5. upload'[c] = q /\ upload[c].i \in Nat
    BY <2>1, <2>4 DEF UploadGoes, MediaInv, Uploads
  <2>6. upload'[c] # upload[c]
    BY <2>1, <2>4, <2>5
  <2> QED
    BY <2>1, <2>2, <2>6 DEF Writers
<1>3. ASSUME NEW c \in Uploaders, NEW step \in {"open", "fill"}, UploadAt(c, step),
             NEW x, PutFile(upload[c].kind, "png", x), NEW q, UploadGoes(c, q), q.step # step
      PROVE  Goal
  <2>1. upload[c] \in Uploads \ {NoUpload} /\ upload[c].picture # Junk /\ ~UploadAt(c, "idle")
    BY <1>3 DEF MediaInv, UploadOK, UploadAt, NoUpload
  <2>2. upload[c].kind = "avatar"
    BY <1>1, <1>3, <2>1, OneChange DEF Uploads
  <2>3. upload'[c] = q /\ upload[c].step = step
    BY <1>3 DEF UploadGoes, MediaInv, UploadAt
  <2>4. upload'[c] # upload[c]
    BY <1>3, <2>3
  <2> QED
    BY <2>1, <2>2, <2>4 DEF Writers
<1>4. ASSUME NEW c \in Uploaders, Open(c)
      PROVE  Goal
  <2>1. PICK q : q = [upload[c] EXCEPT !.step = "fill"]
    OBVIOUS
  <2>2. UploadAt(c, "open") /\ PutFile(upload[c].kind, "png", Opened(c)) /\ UploadGoes(c, q)
    BY <1>4, <2>1 DEF Open, UploadMoves
  <2>3. q.step # "open"
    <3>1. upload[c] \in Uploads \ {NoUpload}
      BY <2>2 DEF MediaInv, UploadOK, UploadAt, NoUpload
    <3> QED
      BY <2>1, <3>1 DEF Uploads
  <2> QED
    BY <1>3, <2>2, <2>3
<1>5. ASSUME NEW c \in Uploaders, Fill(c)
      PROVE  Goal
  <2>1. PICK q : q = [upload[c] EXCEPT !.step = Filled(c)]
    OBVIOUS
  <2>2. UploadAt(c, "fill") /\ UploadGoes(c, q) /\ \E x : PutFile(upload[c].kind, "png", x)
    BY <1>5, <2>1 DEF Fill, UploadMoves
  <2>3. q.step # "fill"
    <3>1. upload[c] \in Uploads \ {NoUpload}
      BY <2>2 DEF MediaInv, UploadOK, UploadAt, NoUpload
    <3> QED
      BY <2>1, <3>1 DEF Uploads, Filled
  <2> QED
    BY <1>3, <2>2, <2>3
<1>6. ASSUME NEW c \in Uploaders, WriteFails(c)
      PROVE  Goal
  <2>1. UploadAt(c, "fill") /\ UploadGoes(c, NoUpload) /\ PutFile(upload[c].kind, "png", Torn)
    BY <1>6 DEF WriteFails
  <2>2. NoUpload.step # "fill"
    BY DEF NoUpload
  <2> QED
    BY <1>3, <2>1, <2>2
<1>7. ASSUME Crash
      PROVE  Goal
  <2>1. PICK e \in Named, c \in Uploaders : files["avatar"][e] = Opened(c)
    <3>1. files["avatar"] \in [Named -> Contents]
      BY <1>1 DEF MediaInv, FilesOK
    <3>2. files'["avatar"] = [e \in Named |->
                IF \E c \in Uploaders : files["avatar"][e] = Opened(c) THEN Torn ELSE files["avatar"][e]]
      BY <1>1, <1>7, <3>1 DEF Crash
    <3>3. ASSUME \A e \in Named : ~\E c \in Uploaders : files["avatar"][e] = Opened(c)
          PROVE  FALSE
      <4>1. files'["avatar"] = [e \in Named |-> files["avatar"][e]]
        BY <3>2, <3>3
      <4> QED
        BY <3>1, <4>1
    <3> QED
      BY <3>3
  <2>2. files["avatar"]["png"] = Opened(c)
    <3>1. e = "png" \/ files["avatar"][e] = Whole(Old)
      BY <1>1, <2>1, Apart DEF MediaInv, FilesOK
    <3> QED
      BY <2>1, <3>1, Apart
  <2>3. upload[c].step = "fill" /\ upload[c].kind = "avatar"
    BY <1>1, <2>2 DEF MediaInv, FilesOK
  <2>4. upload[c].picture # Junk /\ ~UploadAt(c, "idle")
    BY <2>3 DEF MediaInv, UploadOK, UploadAt
  <2>5. upload'[c] # upload[c]
    BY <1>7, <2>3 DEF Crash, NoUpload
  <2> QED
    BY <2>3, <2>4, <2>5 DEF Writers
<1>8. ~(files' = files)
  OBVIOUS
<1>9. (\E c \in Uploaders : Remove(c) \/ Open(c) \/ Fill(c) \/ WriteFails(c)) \/ Crash
  <2> HIDE DEF Goal
  <2> QED
    BY <1>8 DEF MediaNext, mediaVars, Begin, RemoveFails, Refuse, Sanitize, SyncCache, SyncFails, Succeed
<1> QED
  BY <1>2, <1>4, <1>5, <1>6, <1>7, <1>9

(* A refused upload takes no avatar away. *)
THEOREM RefusedLeavesAvatar == MediaSpec => RefusedKeepsAvatar
<1>1. MediaInv /\ [MediaNext]_mediaVars =>
        [files["avatar"]' # files["avatar"] =>
            \E c \in Writers("avatar") :
                          /\ upload'[c] # upload[c]
                          /\ (upload[c].what = "reset" \/ upload[c].picture # Junk)]_mediaVars
  BY AvatarChanges
<1> QED
  BY <1>1, MediaKept, PTL DEF MediaSpec, RefusedKeepsAvatar

-----------------------------------------------------------------------------
(* Pictures' contents: Sanitizer.  Its functions walk from a place in the  *)
(* body to a later one; what they come to is shown from the end backwards. *)

(* what a stripper returns for bodies of pieces of S *)
Outcomes(S) == {Refused} \cup {Kept(s) : s \in Seq(S)}

(* What Before does to a refusal and to what is kept. *)
LEMMA OutcomesApart ==
    /\ \A s : Kept(s) # Refused
    /\ \A s, t : Kept(s) = Kept(t) => s = t
    /\ \A p, s : Before(p, Kept(s)) = Kept(p \o s)
    /\ \A p : Before(p, Refused) = Refused
<1>1. \A s : Kept(s) # Refused
  BY DEF Kept, Refused
<1>2. \A s, t : Kept(s) = Kept(t) => s = t
  BY DEF Kept
<1>3. \A s : Kept(s)[2] = s
  BY DEF Kept
<1> QED
  BY <1>1, <1>2, <1>3 DEF Before

(* A piece put before what is kept of pieces of S. *)
LEMMA BeforeTyped ==
    ASSUME NEW S, NEW p \in Seq(S), NEW r \in Outcomes(S)
    PROVE  Before(p, r) \in Outcomes(S)
<1>1. CASE r = Refused
  BY <1>1, OutcomesApart DEF Outcomes
<1>2. ASSUME NEW s \in Seq(S), r = Kept(s) PROVE Before(p, r) \in Outcomes(S)
  <2>1. p \o s \in Seq(S)
    OBVIOUS
  <2> QED
    BY <1>2, <2>1, OutcomesApart DEF Outcomes
<1> QED
  BY <1>1, <1>2 DEF Outcomes

(* What is left out makes no difference. *)
LEMMA BeforeNothing ==
    ASSUME NEW S, NEW r \in Outcomes(S)
    PROVE  Before(<< >>, r) = r
<1>1. \A s \in Seq(S) : << >> \o s = s
  OBVIOUS
<1> QED
  BY <1>1, OutcomesApart DEF Outcomes

(* The places of a to b at which something fails: one of them is the last. *)
LEMMA Last ==
    ASSUME NEW a \in Nat, NEW b \in Nat, NEW B \in SUBSET (a .. b), B # {}
    PROVE  \E i \in B : \A j \in B : j <= i
<1> DEFINE C == {k \in Nat : b - k \in B}
<1>1. PICK i \in B : TRUE
  OBVIOUS
<1>2. i \in Nat /\ i <= b /\ b - i \in Nat /\ b - (b - i) = i
  BY <1>1
<1>3. b - i \in C
  BY <1>1, <1>2
<1>4. PICK k \in C : \A n \in C : k <= n
  BY <1>3, Least
<1>5. b - k \in B
  BY <1>4
<1>6. ASSUME NEW j \in B PROVE j <= b - k
  <2>1. j \in Nat /\ j <= b /\ b - j \in Nat /\ b - (b - j) = j
    OBVIOUS
  <2>2. b - j \in C
    BY <2>1
  <2>3. k <= b - j /\ k \in Nat
    BY <1>4, <2>2
  <2> QED
    BY <2>1, <2>3
<1> QED
  BY <1>5, <1>6

(* A walk through a .. b: at i it stops with stop[i], or puts piece[i]     *)
(* before what it comes to at next[i].                                     *)
IsWalk(a, b, next, stop, piece, f) ==
    f = [i \in a .. b |-> IF next[i] = 0 THEN stop[i] ELSE Before(piece[i], f[next[i]])]

(* Walks go on. *)
Onward(a, b, next) == \A i \in a .. b : next[i] = 0 \/ next[i] \in i + 1 .. b

(* There is such a walk. *)
LEMMA WalkExists ==
    ASSUME NEW a \in Nat, NEW b \in Nat, NEW next, NEW stop, NEW piece, Onward(a, b, next)
    PROVE  \E f : IsWalk(a, b, next, stop, piece, f)
<1> DEFINE From(c) == \E f : IsWalk(c, b, next, stop, piece, f)
           Bad == {k \in Nat : k <= b + 1 - a /\ ~From(b + 1 - k)}
<1>1. CASE a > b
  <2>1. a .. b = {}
    BY <1>1
  <2> DEFINE none == [i \in {} |-> 0]
  <2>2. none = [i \in a .. b |-> IF next[i] = 0 THEN stop[i] ELSE Before(piece[i], none[next[i]])]
    BY <2>1
  <2> HIDE DEF none
  <2>3. IsWalk(a, b, next, stop, piece, none)
    BY <2>2 DEF IsWalk
  <2> QED
    BY Zenon, <2>3
<1>2. CASE a <= b
  <2>1. SUFFICES Bad = {}
    <3>1. b + 1 - a \in Nat /\ b + 1 - (b + 1 - a) = a
      BY <1>2
    <3>2. From(a)
      <4> HIDE DEF From
      <4>1. PICK k \in Nat : k = b + 1 - a
        BY <3>1
      <4>2. k <= b + 1 - a /\ b + 1 - k = a
        BY <4>1
      <4>3. From(b + 1 - k)
        BY <2>1, <4>2
      <4> QED
        BY <4>2, <4>3
    <3> QED
      BY <3>2
  <2>2. SUFFICES ASSUME Bad # {} PROVE FALSE
    OBVIOUS
  <2>3. PICK k \in Bad : \A n \in Bad : k <= n
    BY <2>2, Least
  <2>4. CASE k = 0
    <3> DEFINE f == [i \in b + 1 .. b |-> 0]
    <3>1. b + 1 .. b = {}
      OBVIOUS
    <3>2. f = [i \in b + 1 .. b |-> IF next[i] = 0 THEN stop[i] ELSE Before(piece[i], f[next[i]])]
      BY <3>1
    <3>3. IsWalk(b + 1 - k, b, next, stop, piece, f)
      BY <2>4, <3>2 DEF IsWalk
    <3> QED
      BY <2>3, <3>3
  <2>5. CASE k > 0
    <3> DEFINE i == b + 1 - k
    <3>1. k \in Nat /\ k - 1 \in Nat /\ k - 1 < k /\ k - 1 <= b + 1 - a
      BY <2>3, <2>5
    <3>2. k - 1 \notin Bad
      BY <2>3, <3>1
    <3>3. b + 1 - (k - 1) = i + 1
      BY <3>1
    <3>4. PICK g : IsWalk(i + 1, b, next, stop, piece, g)
      BY <3>1, <3>2, <3>3
    <3>5. i \in a .. b /\ i .. b = {i} \cup (i + 1 .. b) /\ i \notin i + 1 .. b
      BY <2>3, <3>1
    <3> DEFINE f == [n \in i .. b |-> IF n = i THEN IF next[i] = 0 THEN stop[i]
                                                    ELSE Before(piece[i], g[next[i]])
                                      ELSE g[n]]
    <3>6. \A n \in i + 1 .. b : f[n] = g[n]
      BY <3>5
    <3>7. \A n \in i .. b : next[n] = 0 \/ next[n] \in i + 1 .. b
      BY <3>5 DEF Onward
    <3>8. ASSUME NEW n \in i .. b
          PROVE  f[n] = IF next[n] = 0 THEN stop[n] ELSE Before(piece[n], f[next[n]])
      <4>1. next[n] # 0 => f[next[n]] = g[next[n]]
        BY <3>6, <3>7
      <4>2. CASE n = i
        BY <4>1, <4>2
      <4>3. CASE n # i
        <5>1. n \in i + 1 .. b
          BY <3>5, <4>3
        <5>2. g[n] = IF next[n] = 0 THEN stop[n] ELSE Before(piece[n], g[next[n]])
          BY <3>4, <5>1 DEF IsWalk
        <5> QED
          BY <3>6, <4>1, <5>1, <5>2
      <4> QED
        BY <4>2, <4>3
    <3>9. f = [n \in i .. b |-> IF next[n] = 0 THEN stop[n] ELSE Before(piece[n], f[next[n]])]
      <4> DEFINE h == [n \in i .. b |-> IF next[n] = 0 THEN stop[n] ELSE Before(piece[n], f[next[n]])]
      <4>1. \A n \in i .. b : f[n] = h[n]
        BY <3>8
      <4>2. f = [n \in i .. b |-> f[n]] /\ h = [n \in i .. b |-> h[n]]
        OBVIOUS
      <4> HIDE DEF f, h
      <4> QED
        BY <4>1, <4>2 DEF h
    <3>10. IsWalk(i, b, next, stop, piece, f)
      BY <3>9 DEF IsWalk
    <3> QED
      BY <2>3, <3>10
  <2> QED
    BY <2>3, <2>4, <2>5
<1> QED
  BY <1>1, <1>2

(* The pieces of a walk are sequences over S. *)
StepsTyped(S, a, b, f) ==
    \A i \in a .. b : \/ f[i] \in Outcomes(S)
                     \/ \E j \in i + 1 .. b, p \in Seq(S) : f[i] = Before(p, f[j])

(* Two walks take the same steps, the one k places after the other. *)
StepsAlike(a, b, k, f, g) ==
    \A i \in a .. b : \/ f[i] = g[i + k]
                     \/ \E j \in i + 1 .. b : \E p :
                            f[i] = Before(p, f[j]) /\ g[i + k] = Before(p, g[j + k])

(* A walk leaves nothing out of the rests T. *)
StepsKeep(a, b, f, T) ==
    \A i \in a .. b : \/ f[i] \in {Refused, Kept(T[i])}
                     \/ \E j \in i + 1 .. b : \E p : f[i] = Before(p, f[j]) /\ p \o T[j] = T[i]

(* What a walk comes to is of the type of its pieces. *)
LEMMA WalkTyped ==
    ASSUME NEW S, NEW a \in Nat, NEW b \in Nat, NEW f, StepsTyped(S, a, b, f)
    PROVE  \A i \in a .. b : f[i] \in Outcomes(S)
<1> DEFINE B == {i \in a .. b : f[i] \notin Outcomes(S)}
<1>1. SUFFICES ASSUME B # {} PROVE FALSE
  OBVIOUS
<1>2. PICK i \in B : \A j \in B : j <= i
  <2> HIDE DEF B
  <2>1. B \in SUBSET (a .. b)
    BY DEF B
  <2> QED
    BY <1>1, <2>1, Last
<1>3. PICK j \in i + 1 .. b, p \in Seq(S) : f[i] = Before(p, f[j])
  BY <1>2 DEF StepsTyped
<1>4. f[j] \in Outcomes(S)
  BY <1>2, <1>3
<1> QED
  BY <1>2, <1>3, <1>4, BeforeTyped

(* Walks that take the same steps come to the same. *)
LEMMA WalksAgree ==
    ASSUME NEW a \in Nat, NEW b \in Nat, NEW k \in Nat, NEW f, NEW g, StepsAlike(a, b, k, f, g)
    PROVE  \A i \in a .. b : f[i] = g[i + k]
<1> DEFINE B == {i \in a .. b : f[i] # g[i + k]}
<1>1. SUFFICES ASSUME B # {} PROVE FALSE
  OBVIOUS
<1>2. PICK i \in B : \A j \in B : j <= i
  <2> HIDE DEF B
  <2>1. B \in SUBSET (a .. b)
    BY DEF B
  <2> QED
    BY <1>1, <2>1, Last
<1>3. PICK j \in i + 1 .. b : \E p : f[i] = Before(p, f[j]) /\ g[i + k] = Before(p, g[j + k])
  BY <1>2 DEF StepsAlike
<1>4. PICK p : f[i] = Before(p, f[j]) /\ g[i + k] = Before(p, g[j + k])
  BY <1>3
<1>5. f[j] = g[j + k]
  BY <1>2, <1>4
<1> QED
  BY <1>2, <1>4, <1>5

(* A walk that leaves nothing out comes to the rest, or refuses. *)
LEMMA WalkKeeps ==
    ASSUME NEW a \in Nat, NEW b \in Nat, NEW f, NEW T, StepsKeep(a, b, f, T)
    PROVE  \A i \in a .. b : f[i] \in {Refused, Kept(T[i])}
<1> DEFINE B == {i \in a .. b : f[i] \notin {Refused, Kept(T[i])}}
<1>1. SUFFICES ASSUME B # {} PROVE FALSE
  OBVIOUS
<1>2. PICK i \in B : \A j \in B : j <= i
  <2> HIDE DEF B
  <2>1. B \in SUBSET (a .. b)
    BY DEF B
  <2> QED
    BY <1>1, <2>1, Last
<1>3. PICK j \in i + 1 .. b : \E p : f[i] = Before(p, f[j]) /\ p \o T[j] = T[i]
  BY <1>2 DEF StepsKeep
<1>4. PICK p : f[i] = Before(p, f[j]) /\ p \o T[j] = T[i]
  BY <1>3
<1>5. f[j] \in {Refused, Kept(T[j])}
  BY <1>2, <1>4
<1>6. f[i] = Refused \/ f[i] = Kept(p \o T[j])
  BY <1>4, <1>5, OutcomesApart
<1> QED
  BY <1>2, <1>4, <1>6

(* What fails nowhere for the last time fails nowhere. *)
LEMMA Nowhere ==
    ASSUME NEW a \in Nat, NEW b \in Nat, NEW Bad \in SUBSET (a .. b), \A i \in Bad : \E j \in Bad : i < j
    PROVE  Bad = {}
<1> SUFFICES ASSUME Bad # {} PROVE FALSE
  OBVIOUS
<1>1. PICK i \in Bad : \A j \in Bad : j <= i
  BY Last
<1>2. PICK j \in Bad : i < j
  BY <1>1
<1>3. j <= i /\ i \in Int /\ j \in Int
  BY <1>1, <1>2
<1> QED
  BY <1>2, <1>3

(* Only what is put before a refusal is refused. *)
LEMMA BeforeRefused ==
    ASSUME NEW p, NEW r
    PROVE  Before(p, r) = Refused <=> r = Refused
BY OutcomesApart DEF Before

(* The members of two sequences put together. *)
LEMMA Joined ==
    ASSUME NEW S, NEW s \in Seq(S), NEW t \in Seq(S), NEW n, n = Len(s)
    PROVE  /\ s \o t \in Seq(S) /\ n \in Nat /\ Len(t) \in Nat /\ Len(s \o t) = n + Len(t)
           /\ \A i \in 1 .. n : (s \o t)[i] = s[i]
           /\ \A i \in 1 .. Len(t) : (s \o t)[i + n] = t[i]
<1>1. s \o t \in Seq(S) /\ n \in Nat /\ Len(t) \in Nat /\ Len(s \o t) = n + Len(t)
  OBVIOUS
<1>2. \A i \in 1 .. n + Len(t) : (s \o t)[i] = IF i <= n THEN s[i] ELSE t[i - n]
  BY ConcatProperties
<1>3. ASSUME NEW i \in 1 .. n PROVE (s \o t)[i] = s[i]
  <2>1. i \in 1 .. n + Len(t) /\ i <= n
    BY <1>1
  <2> QED
    BY <1>2, <2>1
<1>4. ASSUME NEW i \in 1 .. Len(t) PROVE (s \o t)[i + n] = t[i]
  <2>1. PICK k : k = i + n
    OBVIOUS
  <2>2. k \in 1 .. n + Len(t) /\ ~(k <= n) /\ k - n = i
    BY <1>1, <2>1
  <2> QED
    BY <1>2, <2>1, <2>2
<1> QED
  BY <1>1, <1>3, <1>4

(* less is s without its places from a + 1 to b *)
Shortened(S, s, a, b, less) ==
    /\ less \in Seq(S) /\ Len(less) = Len(s) - (b - a)
    /\ \A i \in 1 .. a : less[i] = s[i]
    /\ \A i \in a + 1 .. Len(s) - (b - a) : less[i] = s[i + (b - a)]

(* What is left of a sequence without some of its places. *)
LEMMA WithoutIs ==
    ASSUME NEW S, NEW s \in Seq(S), NEW a \in 0 .. Len(s), NEW b \in a .. Len(s)
    PROVE  Shortened(S, s, a, b, Without(s, a, b))
<1>1. PICK n : n = Len(s)
  OBVIOUS
<1>2. PICK x, y : x = SubSeq(s, 1, a) /\ y = SubSeq(s, b + 1, n)
  OBVIOUS
<1>3. n \in Nat /\ a \in Nat /\ b \in Nat /\ a <= b /\ b <= n /\ \A i \in 1 .. n : s[i] \in S
  BY <1>1
<1>4. x \in Seq(S) /\ Len(x) = a /\ \A i \in 1 .. a : x[i] = s[i]
  <2>1. /\ SubSeq(s, 1, a) \in Seq(S)
        /\ Len(SubSeq(s, 1, a)) = IF 1 <= a THEN a - 1 + 1 ELSE 0
        /\ \A i \in 1 .. a - 1 + 1 : SubSeq(s, 1, a)[i] = s[1 + i - 1]
    <3>1. 1 \in Int /\ a \in Int /\ \A i \in 1 .. a : s[i] \in S
      BY <1>3
    <3> QED
      BY <3>1, SubSeqProperties
  <2>2. a - 1 + 1 = a /\ (IF 1 <= a THEN a - 1 + 1 ELSE 0) = a /\ \A i \in 1 .. a : 1 + i - 1 = i
    BY <1>3
  <2> QED
    BY <1>2, <2>1, <2>2
<1>5. y \in Seq(S) /\ Len(y) = n - b /\ \A i \in 1 .. n - b : y[i] = s[i + b]
  <2>1. /\ SubSeq(s, b + 1, n) \in Seq(S)
        /\ Len(SubSeq(s, b + 1, n)) = IF b + 1 <= n THEN n - (b + 1) + 1 ELSE 0
        /\ \A i \in 1 .. n - (b + 1) + 1 : SubSeq(s, b + 1, n)[i] = s[(b + 1) + i - 1]
    <3>1. b + 1 \in Int /\ n \in Int /\ \A i \in b + 1 .. n : s[i] \in S
      BY <1>3
    <3> QED
      BY <3>1, SubSeqProperties
  <2>2. /\ n - (b + 1) + 1 = n - b /\ (IF b + 1 <= n THEN n - (b + 1) + 1 ELSE 0) = n - b
        /\ \A i \in 1 .. n - b : (b + 1) + i - 1 = i + b
    BY <1>3
  <2> QED
    BY <1>2, <2>1, <2>2
<1>6. PICK w : w = Without(s, a, b)
  OBVIOUS
<1>7. w = x \o y
  BY <1>1, <1>2, <1>6 DEF Without
<1>8. /\ w \in Seq(S) /\ Len(w) = a + (n - b)
      /\ \A i \in 1 .. a : w[i] = x[i]
      /\ \A i \in 1 .. n - b : w[i + a] = y[i]
  <2>1. /\ x \o y \in Seq(S) /\ a \in Nat /\ Len(y) \in Nat /\ Len(x \o y) = a + Len(y)
        /\ \A i \in 1 .. a : (x \o y)[i] = x[i]
        /\ \A i \in 1 .. Len(y) : (x \o y)[i + a] = y[i]
    <3>1. x \in Seq(S) /\ y \in Seq(S) /\ a = Len(x)
      BY <1>4, <1>5
    <3> QED
      BY SMTT(40), <3>1, Joined
  <2> QED
    BY <1>5, <1>7, <2>1
<1>9. ASSUME NEW i \in a + 1 .. n - (b - a) PROVE w[i] = s[i + (b - a)]
  <2>1. PICK j : j = i - a
    OBVIOUS
  <2>2. j \in 1 .. n - b /\ j + a = i /\ j + b = i + (b - a)
    BY <1>3, <2>1
  <2>3. w[j + a] = s[j + b]
    BY <1>5, <1>8, <2>2
  <2> QED
    BY <2>2, <2>3
<1>10. a + (n - b) = n - (b - a)
  BY <1>3
<1> QED
  BY <1>1, <1>4, <1>6, <1>8, <1>9, <1>10 DEF Shortened

-----------------------------------------------------------------------------
(* PNG *)

(* f is the function StripPng walks by *)
IsPng(chunks, f) ==
    f = [i \in 1 .. Len(chunks) + 1 |->
            IF i > Len(chunks) \/ chunks[i] = "cut" THEN Refused
            ELSE IF chunks[i] = "IEND" THEN IF i = Len(chunks) THEN Kept(<<"IEND">>) ELSE Refused
            ELSE Before(IF chunks[i] \in PngMetadata THEN << >> ELSE <<chunks[i]>>, f[i + 1])]

(* There is that function, and StripPng takes its value at the first chunk. *)
LEMMA PngExists ==
    ASSUME NEW S, NEW chunks \in Seq(S)
    PROVE  \E f : IsPng(chunks, f) /\ StripPng(chunks) = f[1]
<1> DEFINE n == Len(chunks) + 1
           final(i) == i > Len(chunks) \/ chunks[i] \in {"cut", "IEND"}
           next == [i \in 1 .. n |-> IF final(i) THEN 0 ELSE i + 1]
           stop == [i \in 1 .. n |-> IF i = Len(chunks) /\ chunks[i] = "IEND" THEN Kept(<<"IEND">>)
                                     ELSE Refused]
           piece == [i \in 1 .. n |-> IF chunks[i] \in PngMetadata THEN << >> ELSE <<chunks[i]>>]
<1>1. Len(chunks) \in Nat /\ n \in Nat
  OBVIOUS
<1>2. Onward(1, n, next)
  BY <1>1 DEF Onward
<1>3. PICK f : IsWalk(1, n, next, stop, piece, f)
  <2> HIDE DEF n, next, stop, piece
  <2> QED
    BY <1>1, <1>2, WalkExists
<1>4. \A i \in 1 .. n :
        (IF next[i] = 0 THEN stop[i] ELSE Before(piece[i], f[next[i]]))
        = IF i > Len(chunks) \/ chunks[i] = "cut" THEN Refused
          ELSE IF chunks[i] = "IEND" THEN IF i = Len(chunks) THEN Kept(<<"IEND">>) ELSE Refused
          ELSE Before(IF chunks[i] \in PngMetadata THEN << >> ELSE <<chunks[i]>>, f[i + 1])
  BY <1>1
<1>5. IsPng(chunks, f)
  <2> HIDE DEF next, stop, piece
  <2> QED
    BY <1>3, <1>4 DEF IsWalk, IsPng
<1>6. StripPng(chunks) = (CHOOSE g : IsPng(chunks, g))[1]
  BY Zenon DEF StripPng, IsPng
<1> QED
  BY <1>5, <1>6

(* What is kept are chunks that were sent. *)
LEMMA PngTyped ==
    ASSUME NEW S, NEW chunks \in Seq(S), NEW f, IsPng(chunks, f)
    PROVE  \A i \in 1 .. Len(chunks) + 1 : f[i] \in Outcomes(S)
<1> SUFFICES StepsTyped(S, 1, Len(chunks) + 1, f)
  BY WalkTyped
<1> SUFFICES ASSUME NEW i \in 1 .. Len(chunks) + 1, f[i] \notin Outcomes(S)
             PROVE  \E j \in i + 1 .. Len(chunks) + 1, p \in Seq(S) : f[i] = Before(p, f[j])
  BY DEF StepsTyped
<1>1. Refused \in Outcomes(S)
  BY DEF Outcomes
<1>2. i <= Len(chunks) /\ chunks[i] \in S
  BY <1>1 DEF IsPng
<1>3. chunks[i] # "IEND"
  <2>1. chunks[i] = "IEND" => <<"IEND">> \in Seq(S)
    BY <1>2
  <2>2. chunks[i] = "IEND" => Kept(<<"IEND">>) \in Outcomes(S)
    BY <2>1 DEF Outcomes
  <2> QED
    BY <1>1, <1>2, <2>2 DEF IsPng
<1>4. f[i] = Before(IF chunks[i] \in PngMetadata THEN << >> ELSE <<chunks[i]>>, f[i + 1])
  BY <1>1, <1>2, <1>3 DEF IsPng
<1>5. << >> \in Seq(S) /\ <<chunks[i]>> \in Seq(S) /\ i + 1 \in i + 1 .. Len(chunks) + 1
  BY <1>2
<1> QED
  BY <1>4, <1>5

(* what f comes to at the chunk i *)
PngGoes(chunks, f, i) ==
    /\ chunks[i] = "cut" => f[i] = Refused
    /\ chunks[i] = "IEND" => f[i] = IF i = Len(chunks) THEN Kept(<<"IEND">>) ELSE Refused
    /\ chunks[i] \notin {"cut", "IEND"} =>
         f[i] = Before(IF chunks[i] \in PngMetadata THEN << >> ELSE <<chunks[i]>>, f[i + 1])
    /\ i + 1 \in 1 .. Len(chunks) + 1 /\ f[Len(chunks) + 1] = Refused

(* One step of that function. *)
LEMMA PngStep ==
    ASSUME NEW S, NEW chunks \in Seq(S), NEW f, IsPng(chunks, f)
    PROVE  \A i \in 1 .. Len(chunks) : PngGoes(chunks, f, i)
<1> SUFFICES ASSUME NEW i \in 1 .. Len(chunks) PROVE PngGoes(chunks, f, i)
  OBVIOUS
<1>1. /\ i \in 1 .. Len(chunks) + 1 /\ ~(i > Len(chunks)) /\ i + 1 \in 1 .. Len(chunks) + 1
      /\ Len(chunks) + 1 \in 1 .. Len(chunks) + 1 /\ Len(chunks) + 1 > Len(chunks)
  OBVIOUS
<1>2. \A n \in 1 .. Len(chunks) + 1 :
        f[n] = IF n > Len(chunks) \/ chunks[n] = "cut" THEN Refused
               ELSE IF chunks[n] = "IEND" THEN IF n = Len(chunks) THEN Kept(<<"IEND">>) ELSE Refused
               ELSE Before(IF chunks[n] \in PngMetadata THEN << >> ELSE <<chunks[n]>>, f[n + 1])
  BY DEF IsPng
<1> QED
  BY <1>1, <1>2 DEF PngGoes

(* A chunk of metadata makes no difference, wherever it lies. *)
LEMMA PngMetadataGoes ==
    ASSUME NEW S, NEW chunks \in Seq(S), NEW n \in 1 .. Len(chunks), PngMetadataAt(chunks, n)
    PROVE  StripPng(Without(chunks, n - 1, n)) = StripPng(chunks)
<1>1. PICK less : less = Without(chunks, n - 1, n)
  OBVIOUS
<1>2. /\ less \in Seq(S) /\ Len(less) = Len(chunks) - 1 /\ Len(less) \in Nat /\ n \in Nat
      /\ \A i \in 1 .. n - 1 : less[i] = chunks[i]
      /\ \A i \in n .. Len(less) : less[i] = chunks[i + 1]
  <2>1. n - 1 \in 0 .. Len(chunks) /\ n \in n - 1 .. Len(chunks) /\ n - (n - 1) = 1 /\ (n - 1) + 1 = n
        /\ Len(chunks) - 1 \in Nat
    OBVIOUS
  <2>2. Shortened(S, chunks, n - 1, n, less)
    BY Zenon, <1>1, <2>1, WithoutIs
  <2> QED
    BY <2>1, <2>2 DEF Shortened
<1>3. PICK f : IsPng(less, f) /\ StripPng(less) = f[1]
  BY <1>2, PngExists
<1>4. PICK g : IsPng(chunks, g) /\ StripPng(chunks) = g[1]
  BY PngExists
<1>each. /\ \A i \in 1 .. Len(less) : PngGoes(less, f, i)
         /\ \A i \in 1 .. Len(chunks) : PngGoes(chunks, g, i)
  BY <1>2, <1>3, <1>4, PngStep
<1>5. \A i \in n .. Len(less) + 1 : f[i] = g[i + 1]
  <2>1. ASSUME NEW i \in n .. Len(less) + 1
        PROVE  \/ f[i] = g[i + 1]
               \/ \E j \in i + 1 .. Len(less) + 1 : \E p : f[i] = Before(p, f[j]) /\ g[i + 1] = Before(p, g[j + 1])
    <3>1. CASE i = Len(less) + 1
      <4>1. i + 1 = Len(chunks) + 1 /\ Len(chunks) \in 1 .. Len(chunks)
        BY <1>2, <3>1
      <4>2. g[i + 1] = Refused
        BY <1>each, <4>1 DEF PngGoes
      <4>3. i \in 1 .. Len(less) + 1 /\ i > Len(less)
        BY <1>2, <3>1
      <4>4. f[i] = Refused
        BY <1>3, <4>3 DEF IsPng
      <4> QED
        BY <4>2, <4>4
    <3>2. CASE i # Len(less) + 1
      <4>1. PICK k : k = i + 1
        OBVIOUS
      <4>2. /\ i \in 1 .. Len(less) /\ k \in 1 .. Len(chunks) /\ less[i] = chunks[k]
            /\ k \in i + 1 .. Len(less) + 1 /\ (i = Len(less) <=> k = Len(chunks))
        BY <1>2, <3>2, <4>1
      <4>3. CASE less[i] \in {"cut", "IEND"}
        <5>1. f[i] = g[k]
          BY <1>each, <4>2, <4>3 DEF PngGoes
        <5> QED
          BY <4>1, <5>1
      <4>4. CASE less[i] \notin {"cut", "IEND"}
        <5>1. PICK p : p = IF less[i] \in PngMetadata THEN << >> ELSE <<less[i]>>
          OBVIOUS
        <5>2. f[i] = Before(p, f[k]) /\ g[k] = Before(p, g[k + 1])
          BY <1>each, <4>1, <4>2, <4>4, <5>1 DEF PngGoes
        <5> QED
          BY <4>1, <4>2, <5>2
      <4> QED
        BY <4>3, <4>4
    <3> QED
      BY <3>1, <3>2
  <2>2. StepsAlike(n, Len(less) + 1, 1, f, g)
    BY <2>1 DEF StepsAlike
  <2>3. Len(less) + 1 \in Nat /\ 1 \in Nat
    BY <1>2
  <2> QED
    BY <1>2, <2>2, <2>3, WalksAgree
<1>6. f[n] = g[n]
  <2>1. n \in n .. Len(less) + 1 /\ n + 1 \in 1 .. Len(chunks) + 1
    BY <1>2
  <2>2. chunks[n] \notin {"cut", "IEND"} /\ chunks[n] \in PngMetadata
    BY DEF PngMetadataAt, PngMetadata
  <2>3. g[n] = Before(<< >>, g[n + 1])
    BY <1>each, <2>2 DEF PngGoes
  <2>4. g[n + 1] \in Outcomes(S)
    BY <1>4, <2>1, PngTyped
  <2> QED
    BY <1>5, <2>1, <2>3, <2>4, BeforeNothing
<1>7. {i \in 1 .. n : f[i] # g[i]} = {}
  <2> DEFINE Bad == {i \in 1 .. n : f[i] # g[i]}
  <2>1. ASSUME NEW i \in Bad PROVE \E j \in Bad : i < j
    <3>1. i \in 1 .. n - 1 /\ i \in 1 .. Len(less) /\ i \in 1 .. Len(chunks) /\ less[i] = chunks[i]
          /\ i + 1 \in 1 .. n /\ i < i + 1
      BY <1>2, <1>6
    <3>2. chunks[i] # "IEND"
      BY <3>1 DEF PngMetadataAt
    <3>3. chunks[i] # "cut"
      BY <1>each, <3>1 DEF PngGoes
    <3>4. PICK p : p = IF less[i] \in PngMetadata THEN << >> ELSE <<less[i]>>
      OBVIOUS
    <3>5. f[i] = Before(p, f[i + 1]) /\ g[i] = Before(p, g[i + 1])
      BY <1>each, <3>1, <3>2, <3>3, <3>4 DEF PngGoes
    <3>6. i + 1 \in Bad
      BY <3>1, <3>5
    <3> QED
      BY <3>1, <3>6
  <2>2. Bad \in SUBSET (1 .. n) /\ 1 \in Nat
    OBVIOUS
  <2> HIDE DEF Bad
  <2>3. Bad = {}
    BY <1>2, <2>1, <2>2, Nowhere
  <2> QED
    BY <2>3 DEF Bad
<1>8. 1 \in 1 .. n
  BY <1>2
<1>9. f[1] = g[1]
  BY <1>7, <1>8
<1> QED
  BY <1>1, <1>3, <1>4, <1>9

(* A PNG that is not cut off and ends with its end. *)
PngComplete(chunks) ==
    /\ chunks # << >> /\ chunks[Len(chunks)] = "IEND"
    /\ \A i \in 1 .. Len(chunks) - 1 : chunks[i] \notin {"IEND", "cut"}

(* Only such a one is accepted. *)
LEMMA PngAccepted ==
    ASSUME NEW S, NEW chunks \in Seq(S)
    PROVE  StripPng(chunks) # Refused <=> PngComplete(chunks)
<1>1. PICK f : IsPng(chunks, f) /\ StripPng(chunks) = f[1]
  BY PngExists
<1>2. Len(chunks) \in Nat /\ Len(chunks) + 1 \in Nat /\ 1 \in Nat /\ 1 \in 1 .. Len(chunks) + 1
  OBVIOUS
<1>each. \A i \in 1 .. Len(chunks) : PngGoes(chunks, f, i)
  BY <1>1, PngStep
<1>3. ASSUME PngComplete(chunks) PROVE f[1] # Refused
  <2> DEFINE Bad == {i \in 1 .. Len(chunks) : f[i] = Refused}
  <2>1. ASSUME NEW i \in Bad PROVE \E j \in Bad : i < j
    <3>1. i # Len(chunks)
      BY <1>each, <1>3, OutcomesApart DEF PngComplete, PngGoes
    <3>2. i \in 1 .. Len(chunks) - 1 /\ i + 1 \in 1 .. Len(chunks) /\ i < i + 1
      BY <1>2, <3>1
    <3>3. chunks[i] \notin {"cut", "IEND"}
      BY <1>3, <3>2 DEF PngComplete
    <3>4. f[i + 1] = Refused
      <4>1. PngGoes(chunks, f, i) /\ f[i] = Refused
        BY <1>each, <3>2
      <4>2. \E p : f[i] = Before(p, f[i + 1])
        BY <3>3, <4>1 DEF PngGoes
      <4> QED
        BY <4>1, <4>2, BeforeRefused
    <3> QED
      BY <3>2, <3>4
  <2>2. Bad \in SUBSET (1 .. Len(chunks))
    OBVIOUS
  <2>3. Len(chunks) # 0
    BY <1>3 DEF PngComplete
  <2> HIDE DEF Bad
  <2>4. Bad = {}
    BY <1>2, <2>1, <2>2, Nowhere
  <2> QED
    BY <1>2, <2>3, <2>4 DEF Bad
<1>4. ASSUME f[1] # Refused PROVE PngComplete(chunks)
  <2> SUFFICES ASSUME ~PngComplete(chunks) PROVE FALSE
    OBVIOUS
  <2> DEFINE Bad == {i \in 1 .. Len(chunks) + 1 :
                        f[i] # Refused /\ \A j \in 1 .. i - 1 : chunks[j] \notin {"IEND", "cut"}}
  <2>1. ASSUME NEW i \in Bad PROVE \E j \in Bad : i < j
    <3>1. i # Len(chunks) + 1
      BY <1>1, <1>2 DEF IsPng
    <3>2. i \in 1 .. Len(chunks)
      BY <1>2, <3>1
    <3>3. chunks[i] # "cut"
      BY <1>each, <3>2 DEF PngGoes
    <3>4. chunks[i] # "IEND"
      <4>1. ASSUME chunks[i] = "IEND" PROVE PngComplete(chunks)
        <5>1. i = Len(chunks)
          BY <1>each, <3>2, <4>1 DEF PngGoes
        <5>2. chunks # << >>
          BY <3>2
        <5> QED
          BY <4>1, <5>1, <5>2 DEF PngComplete
      <4> QED
        BY <4>1
    <3>5. f[i + 1] # Refused /\ i + 1 \in 1 .. Len(chunks) + 1
      BY <1>each, <3>2, <3>3, <3>4, BeforeRefused DEF PngGoes
    <3>6. \A j \in 1 .. (i + 1) - 1 : j \in 1 .. i - 1 \/ j = i
      BY <3>2
    <3>7. i + 1 \in Bad /\ i < i + 1
      BY <3>2, <3>3, <3>4, <3>5, <3>6
    <3> QED
      BY <3>7
  <2>2. Bad \in SUBSET (1 .. Len(chunks) + 1)
    OBVIOUS
  <2>3. 1 \in Bad
    BY <1>2, <1>4
  <2> HIDE DEF Bad
  <2>4. Bad = {}
    BY <1>2, <2>1, <2>2, Nowhere
  <2> QED
    BY <2>3, <2>4
<1> QED
  BY <1>1, <1>3, <1>4

(* Without metadata all of it is kept. *)
LEMMA PngPlain ==
    ASSUME NEW S, NEW chunks \in Seq(S), \A i \in DOMAIN chunks : chunks[i] \notin PngMetadata
    PROVE  StripPng(chunks) \in {Refused, Kept(chunks)}
<1> DEFINE T == [i \in 1 .. Len(chunks) + 1 |-> SubSeq(chunks, i, Len(chunks))]
<1>1. PICK f : IsPng(chunks, f) /\ StripPng(chunks) = f[1]
  BY PngExists
<1>2. Len(chunks) \in Nat
  OBVIOUS
<1>3. \A i \in 1 .. Len(chunks) + 1 : f[i] \in {Refused, Kept(T[i])}
  <2> SUFFICES StepsKeep(1, Len(chunks) + 1, f, T)
    <3> HIDE DEF T
    <3> QED
      BY <1>2, WalkKeeps
  <2> SUFFICES ASSUME NEW i \in 1 .. Len(chunks) + 1
               PROVE  \/ f[i] \in {Refused, Kept(T[i])}
                      \/ \E j \in i + 1 .. Len(chunks) + 1 : \E p :
                            f[i] = Before(p, f[j]) /\ p \o T[j] = T[i]
    <3> HIDE DEF T
    <3> QED
      BY DEF StepsKeep
  <2>1. CASE i > Len(chunks) \/ chunks[i] = "cut"
    <3>1. f[i] = Refused
      BY <1>1, <2>1 DEF IsPng
    <3> QED
      BY <3>1
  <2>2. CASE i <= Len(chunks) /\ chunks[i] = "IEND"
    <3>1. f[i] = IF i = Len(chunks) THEN Kept(<<"IEND">>) ELSE Refused
      BY <1>1, <2>2 DEF IsPng
    <3>2. i = Len(chunks) => SubSeq(chunks, i, Len(chunks)) = <<chunks[i]>>
      <4>1. ASSUME i = Len(chunks) PROVE SubSeq(chunks, i, i) = <<chunks[i]>>
        <5>1. SubSeq(chunks, i, i) = <<chunks[i]>> \o SubSeq(chunks, i + 1, i)
          BY <2>2, <4>1, SubSeqRecursiveFirst
        <5>2. SubSeq(chunks, i + 1, i) = << >>
          BY <2>2, <4>1, SubSeqEmpty
        <5>3. <<chunks[i]>> \o << >> = <<chunks[i]>>
          OBVIOUS
        <5> QED
          BY <5>1, <5>2, <5>3
      <4> QED
        BY <4>1
    <3>3. i = Len(chunks) => T[i] = <<"IEND">>
      BY <2>2, <3>2
    <3> QED
      BY <3>1, <3>3
  <2>3. CASE i <= Len(chunks) /\ chunks[i] \notin {"cut", "IEND"}
    <3>1. chunks[i] \notin PngMetadata /\ i \in 1 .. Len(chunks)
      BY <2>3
    <3>2. f[i] = Before(<<chunks[i]>>, f[i + 1])
      <4>1. ~(i > Len(chunks)) /\ chunks[i] # "cut" /\ chunks[i] # "IEND"
        BY <2>3
      <4> HIDE DEF T
      <4> QED
        BY <1>1, <3>1, <4>1 DEF IsPng
    <3>3. <<chunks[i]>> \o SubSeq(chunks, i + 1, Len(chunks)) = SubSeq(chunks, i, Len(chunks))
      <4>1. Len(chunks) \in i .. Len(chunks)
        BY <1>2, <3>1
      <4> HIDE DEF T
      <4> QED
        BY <3>1, <4>1, SubSeqRecursiveFirst
    <3>4. i + 1 \in i + 1 .. Len(chunks) + 1 /\ i + 1 \in 1 .. Len(chunks) + 1
      BY <3>1
    <3>5. <<chunks[i]>> \o T[i + 1] = T[i]
      BY <3>3, <3>4
    <3> HIDE DEF T
    <3> QED
      BY Zenon, <3>2, <3>4, <3>5
  <2>4. i > Len(chunks) \/ i <= Len(chunks)
    BY <1>2
  <2> QED
    BY Zenon, <2>1, <2>2, <2>3, <2>4
<1>4. T[1] = chunks
  BY <1>2, SubSeqFull
<1> HIDE DEF T
<1> QED
  BY <1>1, <1>2, <1>3, <1>4

-----------------------------------------------------------------------------
(* WebP *)

(* f is the function StripWebp walks by *)
IsWebp(chunks, f) ==
    f = [i \in 1 .. Len(chunks) + 1 |->
            IF i > Len(chunks) THEN Kept(<< >>)
            ELSE IF chunks[i].kind = "cut" THEN Refused
            ELSE Before(KeptWebp(chunks[i]), f[i + 1])]

(* There is that function, and StripWebp takes its value at the first chunk. *)
LEMMA WebpExists ==
    ASSUME NEW S, NEW chunks \in Seq(S)
    PROVE  \E f : IsWebp(chunks, f) /\ StripWebp(chunks) = f[1]
<1> DEFINE n == Len(chunks) + 1
           next == [i \in 1 .. n |-> IF i > Len(chunks) \/ chunks[i].kind = "cut" THEN 0 ELSE i + 1]
           stop == [i \in 1 .. n |-> IF i > Len(chunks) THEN Kept(<< >>) ELSE Refused]
           piece == [i \in 1 .. n |-> KeptWebp(chunks[i])]
<1>1. Len(chunks) \in Nat /\ n \in Nat
  OBVIOUS
<1>2. Onward(1, n, next)
  BY <1>1 DEF Onward
<1>3. PICK f : IsWalk(1, n, next, stop, piece, f)
  <2> HIDE DEF n, next, stop, piece
  <2> QED
    BY <1>1, <1>2, WalkExists
<1>4. \A i \in 1 .. n :
        (IF next[i] = 0 THEN stop[i] ELSE Before(piece[i], f[next[i]]))
        = IF i > Len(chunks) THEN Kept(<< >>)
          ELSE IF chunks[i].kind = "cut" THEN Refused
          ELSE Before(KeptWebp(chunks[i]), f[i + 1])
  BY <1>1
<1>5. IsWebp(chunks, f)
  <2> HIDE DEF next, stop, piece
  <2> QED
    BY <1>3, <1>4 DEF IsWalk, IsWebp
<1>6. StripWebp(chunks) = (CHOOSE g : IsWebp(chunks, g))[1]
  BY Zenon DEF StripWebp, IsWebp
<1> QED
  BY <1>5, <1>6

(* One step of that function. *)
LEMMA WebpStep ==
    ASSUME NEW S, NEW chunks \in Seq(S), NEW f, IsWebp(chunks, f), NEW i \in 1 .. Len(chunks)
    PROVE  /\ chunks[i].kind = "cut" => f[i] = Refused
           /\ chunks[i].kind # "cut" => f[i] = Before(KeptWebp(chunks[i]), f[i + 1])
           /\ i + 1 \in 1 .. Len(chunks) + 1
<1>1. i \in 1 .. Len(chunks) + 1 /\ ~(i > Len(chunks)) /\ i + 1 \in 1 .. Len(chunks) + 1
  OBVIOUS
<1>2. \A n \in 1 .. Len(chunks) + 1 :
        f[n] = IF n > Len(chunks) THEN Kept(<< >>)
               ELSE IF chunks[n].kind = "cut" THEN Refused
               ELSE Before(KeptWebp(chunks[n]), f[n + 1])
  BY DEF IsWebp
<1> QED
  BY <1>1, <1>2

(* Behind the last chunk nothing is left to keep. *)
LEMMA WebpEnd ==
    ASSUME NEW S, NEW chunks \in Seq(S), NEW f, IsWebp(chunks, f)
    PROVE  f[Len(chunks) + 1] = Kept(<< >>)
<1>1. Len(chunks) + 1 \in 1 .. Len(chunks) + 1 /\ Len(chunks) + 1 > Len(chunks)
  OBVIOUS
<1> QED
  BY <1>1 DEF IsWebp

(* What is kept are chunks that were sent, with the announcement or without. *)
LEMMA WebpTyped ==
    ASSUME NEW S, NEW chunks \in Seq(S), NEW f, IsWebp(chunks, f)
    PROVE  \A i \in 1 .. Len(chunks) + 1 : f[i] \in Outcomes(S \cup {Unannounced(c) : c \in S})
<1>1. PICK U : U = S \cup {Unannounced(c) : c \in S}
  OBVIOUS
<1>2. \A c \in S : KeptWebp(c) \in Seq(U)
  <2> TAKE c \in S
  <2>1. c \in U /\ Unannounced(c) \in U
    BY <1>1
  <2>2. << >> \in Seq(U) /\ <<c>> \in Seq(U) /\ <<Unannounced(c)>> \in Seq(U)
    BY <2>1
  <2>3. KeptWebp(c) \in {<< >>, <<c>>, <<Unannounced(c)>>}
    BY DEF KeptWebp, Unannounced
  <2> QED
    BY <2>2, <2>3
<1>3. ASSUME NEW i \in 1 .. Len(chunks) + 1
      PROVE  \/ f[i] \in Outcomes(U)
             \/ \E j \in i + 1 .. Len(chunks) + 1, p \in Seq(U) : f[i] = Before(p, f[j])
  <2>1. CASE i = Len(chunks) + 1
    <3>1. << >> \in Seq(U)
      OBVIOUS
    <3>2. f[i] = Kept(<< >>)
      BY <2>1, WebpEnd
    <3> QED
      BY <3>1, <3>2 DEF Outcomes
  <2>2. CASE i # Len(chunks) + 1
    <3>1. i \in 1 .. Len(chunks) /\ i + 1 \in i + 1 .. Len(chunks) + 1 /\ chunks[i] \in S
      BY <2>2
    <3>2. Refused \in Outcomes(U) /\ KeptWebp(chunks[i]) \in Seq(U)
      BY <1>2, <3>1 DEF Outcomes
    <3> QED
      BY SMTT(40), <3>1, <3>2, WebpStep
  <2> QED
    BY <2>1, <2>2
<1>4. StepsTyped(U, 1, Len(chunks) + 1, f)
  BY <1>3 DEF StepsTyped
<1>5. 1 \in Nat /\ Len(chunks) + 1 \in Nat
  OBVIOUS
<1> QED
  BY <1>1, <1>4, <1>5, WalkTyped

(* A chunk of metadata makes no difference, wherever it lies. *)
LEMMA WebpMetadataGoes ==
    ASSUME NEW S, NEW chunks \in Seq(S), NEW n \in 1 .. Len(chunks), chunks[n].kind \in WebpMetadata
    PROVE  StripWebp(Without(chunks, n - 1, n)) = StripWebp(chunks)
<1>1. PICK less : less = Without(chunks, n - 1, n)
  OBVIOUS
<1>2. /\ less \in Seq(S) /\ Len(less) = Len(chunks) - 1 /\ Len(less) \in Nat /\ n \in Nat
      /\ \A i \in 1 .. n - 1 : less[i] = chunks[i]
      /\ \A i \in n .. Len(less) : less[i] = chunks[i + 1]
  <2>1. n - 1 \in 0 .. Len(chunks) /\ n \in n - 1 .. Len(chunks) /\ n - (n - 1) = 1 /\ (n - 1) + 1 = n
        /\ Len(chunks) - 1 \in Nat
    OBVIOUS
  <2>2. Shortened(S, chunks, n - 1, n, less)
    BY Zenon, <1>1, <2>1, WithoutIs
  <2> QED
    BY <2>1, <2>2 DEF Shortened
<1>3. PICK f : IsWebp(less, f) /\ StripWebp(less) = f[1]
  BY <1>2, WebpExists
<1>4. PICK g : IsWebp(chunks, g) /\ StripWebp(chunks) = g[1]
  BY WebpExists
<1>5. \A i \in n .. Len(less) + 1 : f[i] = g[i + 1]
  <2>1. ASSUME NEW i \in n .. Len(less) + 1
        PROVE  \/ f[i] = g[i + 1]
               \/ \E j \in i + 1 .. Len(less) + 1 : \E p : f[i] = Before(p, f[j]) /\ g[i + 1] = Before(p, g[j + 1])
    <3>1. CASE i = Len(less) + 1
      <4>1. i + 1 = Len(chunks) + 1
        BY <1>2, <3>1
      <4>2. g[i + 1] = Kept(<< >>)
        BY <1>4, <4>1, WebpEnd
      <4>3. f[i] = Kept(<< >>)
        BY <1>2, <1>3, <3>1, WebpEnd
      <4> QED
        BY <4>2, <4>3
    <3>2. CASE i # Len(less) + 1
      <4>1. PICK k : k = i + 1
        OBVIOUS
      <4>2. /\ i \in 1 .. Len(less) /\ k \in 1 .. Len(chunks) /\ less[i] = chunks[k]
            /\ k \in i + 1 .. Len(less) + 1
        BY <1>2, <3>2, <4>1
      <4>3. \/ f[i] = g[k]
            \/ f[i] = Before(KeptWebp(less[i]), f[k]) /\ g[k] = Before(KeptWebp(less[i]), g[k + 1])
        BY <1>2, <1>3, <1>4, <4>1, <4>2, WebpStep
      <4> QED
        BY <4>1, <4>2, <4>3
    <3> QED
      BY <3>1, <3>2
  <2>2. StepsAlike(n, Len(less) + 1, 1, f, g)
    BY <2>1 DEF StepsAlike
  <2>3. Len(less) + 1 \in Nat /\ 1 \in Nat
    BY <1>2
  <2> QED
    BY <1>2, <2>2, <2>3, WalksAgree
<1>6. f[n] = g[n]
  <2>1. n \in n .. Len(less) + 1 /\ n + 1 \in 1 .. Len(chunks) + 1
    BY <1>2
  <2>2. chunks[n].kind # "cut" /\ KeptWebp(chunks[n]) = << >>
    BY DEF WebpMetadata, KeptWebp
  <2>3. g[n] = Before(<< >>, g[n + 1])
    BY <1>4, <2>2, WebpStep
  <2>4. g[n + 1] \in Outcomes(S \cup {Unannounced(c) : c \in S})
    BY <1>4, <2>1, WebpTyped
  <2> QED
    BY <1>5, <2>1, <2>3, <2>4, BeforeNothing
<1>7. {i \in 1 .. n : f[i] # g[i]} = {}
  <2> DEFINE Bad == {i \in 1 .. n : f[i] # g[i]}
  <2>1. ASSUME NEW i \in Bad PROVE \E j \in Bad : i < j
    <3>1. i \in 1 .. n - 1 /\ i \in 1 .. Len(less) /\ i \in 1 .. Len(chunks) /\ less[i] = chunks[i]
          /\ i + 1 \in 1 .. n /\ i < i + 1
      BY <1>2, <1>6
    <3>2. chunks[i].kind # "cut"
      BY <1>2, <1>3, <1>4, <3>1, WebpStep
    <3>3. f[i] = Before(KeptWebp(less[i]), f[i + 1]) /\ g[i] = Before(KeptWebp(less[i]), g[i + 1])
      BY <1>2, <1>3, <1>4, <3>1, <3>2, WebpStep
    <3>4. i + 1 \in Bad
      BY <3>1, <3>3
    <3> QED
      BY <3>1, <3>4
  <2>2. Bad \in SUBSET (1 .. n) /\ 1 \in Nat
    OBVIOUS
  <2> HIDE DEF Bad
  <2>3. Bad = {}
    BY <1>2, <2>1, <2>2, Nowhere
  <2> QED
    BY <2>3 DEF Bad
<1>8. 1 \in 1 .. n
  BY <1>2
<1>9. f[1] = g[1]
  BY <1>7, <1>8
<1> QED
  BY <1>1, <1>3, <1>4, <1>9

(* Nor does its announcement in the header. *)
LEMMA WebpUnannounced ==
    ASSUME NEW S, NEW chunks \in Seq(S), NEW n \in 1 .. Len(chunks), chunks[n].kind = "VP8X",
           chunks[n] = [kind |-> chunks[n].kind, flags |-> chunks[n].flags]
    PROVE  StripWebp([chunks EXCEPT ![n] = Unannounced(@)]) = StripWebp(chunks)
<1>1. PICK c : c = Unannounced(chunks[n])
  OBVIOUS
<1>2. PICK less : less = [chunks EXCEPT ![n] = c]
  OBVIOUS
<1>3. less \in Seq(S \cup {c}) /\ chunks \in Seq(S \cup {c}) /\ Len(less) = Len(chunks) /\ Len(less) \in Nat
      /\ \A i \in 1 .. Len(less) : less[i] = IF i = n THEN c ELSE chunks[i]
  BY <1>2
<1>4. c.kind = "VP8X" /\ KeptWebp(c) = KeptWebp(chunks[n])
  <2>1. PICK k, w : k = chunks[n].kind /\ w = chunks[n].flags
    OBVIOUS
  <2>2. chunks[n] = [kind |-> k, flags |-> w] /\ c = [kind |-> k, flags |-> w \ WebpMetadata] /\ k = "VP8X"
    BY <1>1, <2>1 DEF Unannounced
  <2>3. (w \ WebpMetadata) \ WebpMetadata = w \ WebpMetadata
    OBVIOUS
  <2>4. "VP8X" \notin WebpMetadata
    BY DEF WebpMetadata
  <2> QED
    <3>1. chunks[n].kind = k /\ chunks[n].flags = w /\ c.kind = k /\ c.flags = w \ WebpMetadata
      BY <2>2
    <3>2. KeptWebp(chunks[n]) = <<[kind |-> k, flags |-> w \ WebpMetadata]>>
      BY <2>2, <2>4, <3>1 DEF KeptWebp
    <3>3. KeptWebp(c) = <<[kind |-> k, flags |-> (w \ WebpMetadata) \ WebpMetadata]>>
      BY <2>2, <2>4, <3>1 DEF KeptWebp
    <3> QED
      BY <2>2, <2>3, <3>1, <3>2, <3>3
<1>5. PICK f : IsWebp(less, f) /\ StripWebp(less) = f[1]
  BY <1>3, WebpExists
<1>6. PICK g : IsWebp(chunks, g) /\ StripWebp(chunks) = g[1]
  BY WebpExists
<1> DEFINE Bad == {i \in 1 .. Len(less) + 1 : f[i] # g[i]}
<1>7. ASSUME NEW i \in Bad PROVE \E j \in Bad : i < j
  <2>1. i # Len(less) + 1
    <3>1. f[Len(less) + 1] = Kept(<< >>) /\ g[Len(chunks) + 1] = Kept(<< >>)
      BY Zenon, <1>3, <1>5, <1>6, WebpEnd
    <3> QED
      BY <1>3, <3>1
  <2>2. i \in 1 .. Len(less) /\ i \in 1 .. Len(chunks) /\ i + 1 \in 1 .. Len(less) + 1 /\ i < i + 1
    BY <1>3, <2>1
  <2>3. (less[i].kind = "cut" <=> chunks[i].kind = "cut") /\ KeptWebp(less[i]) = KeptWebp(chunks[i])
    BY <1>3, <1>4, <2>2
  <2>4. f[i] = g[i] \/ f[i] = Before(KeptWebp(chunks[i]), f[i + 1])
    BY <1>3, <1>5, <1>6, <2>2, <2>3, WebpStep
  <2>5. f[i] = g[i] \/ g[i] = Before(KeptWebp(chunks[i]), g[i + 1])
    BY <1>3, <1>5, <1>6, <2>2, <2>3, WebpStep
  <2>6. i + 1 \in Bad
    BY <2>2, <2>4, <2>5
  <2> QED
    BY <2>2, <2>6
<1>8. Bad \in SUBSET (1 .. Len(less) + 1) /\ 1 \in Nat /\ Len(less) + 1 \in Nat /\ 1 \in 1 .. Len(less) + 1
  BY <1>3
<1>9. f[1] = g[1]
  <2> HIDE DEF Bad
  <2>1. Bad = {}
    BY <1>7, <1>8, Nowhere
  <2> QED
    BY <1>8, <2>1 DEF Bad
<1> QED
  BY <1>1, <1>2, <1>5, <1>6, <1>9

(* Only what no chunk is cut off of is accepted. *)
LEMMA WebpAccepted ==
    ASSUME NEW S, NEW chunks \in Seq(S)
    PROVE  StripWebp(chunks) # Refused <=> \A i \in DOMAIN chunks : chunks[i].kind # "cut"
<1>1. PICK f : IsWebp(chunks, f) /\ StripWebp(chunks) = f[1]
  BY WebpExists
<1>2. Len(chunks) \in Nat /\ Len(chunks) + 1 \in Nat /\ 1 \in Nat /\ 1 \in 1 .. Len(chunks) + 1
      /\ DOMAIN chunks = 1 .. Len(chunks)
  OBVIOUS
<1>3. ASSUME \A i \in DOMAIN chunks : chunks[i].kind # "cut" PROVE f[1] # Refused
  <2> DEFINE Bad == {i \in 1 .. Len(chunks) + 1 : f[i] = Refused}
  <2>1. ASSUME NEW i \in Bad PROVE \E j \in Bad : i < j
    <3>1. i # Len(chunks) + 1
      BY <1>1, WebpEnd, OutcomesApart
    <3>2. i \in 1 .. Len(chunks) /\ i < i + 1 /\ i + 1 \in 1 .. Len(chunks) + 1
      BY <1>2, <3>1
    <3>3. f[i + 1] = Refused
      BY <1>1, <1>2, <1>3, <3>2, WebpStep, BeforeRefused
    <3> QED
      BY <3>2, <3>3
  <2>2. Bad \in SUBSET (1 .. Len(chunks) + 1)
    OBVIOUS
  <2> HIDE DEF Bad
  <2>3. Bad = {}
    BY <1>2, <2>1, <2>2, Nowhere
  <2> QED
    BY <1>2, <2>3 DEF Bad
<1>4. ASSUME f[1] # Refused, NEW n \in 1 .. Len(chunks), chunks[n].kind = "cut" PROVE FALSE
  <2> DEFINE Bad == {i \in 1 .. n : f[i] # Refused}
  <2>1. ASSUME NEW i \in Bad PROVE \E j \in Bad : i < j
    <3>1. i \in 1 .. Len(chunks)
      OBVIOUS
    <3>2. chunks[i].kind # "cut"
      BY <1>1, <3>1, WebpStep
    <3>3. i # n
      BY <1>4, <3>2
    <3>4. i + 1 \in 1 .. n /\ i < i + 1
      BY <1>2, <3>3
    <3>5. f[i + 1] # Refused
      BY <1>1, <3>1, <3>2, WebpStep, BeforeRefused
    <3> QED
      BY <3>4, <3>5
  <2>2. Bad \in SUBSET (1 .. n) /\ n \in Nat /\ 1 \in 1 .. n
    OBVIOUS
  <2> HIDE DEF Bad
  <2>3. Bad = {}
    BY <1>2, <2>1, <2>2, Nowhere
  <2> QED
    BY <1>4, <2>2, <2>3 DEF Bad
<1> QED
  BY <1>1, <1>2, <1>3, <1>4

(* Without metadata all of it is kept. *)
LEMMA WebpPlain ==
    ASSUME NEW S, NEW chunks \in Seq(S),
           \A i \in DOMAIN chunks :
                /\ chunks[i] = [kind |-> chunks[i].kind, flags |-> chunks[i].flags]
                /\ chunks[i].kind \notin WebpMetadata /\ chunks[i].flags \cap WebpMetadata = {}
    PROVE  StripWebp(chunks) \in {Refused, Kept(chunks)}
<1> DEFINE T == [i \in 1 .. Len(chunks) + 1 |-> SubSeq(chunks, i, Len(chunks))]
<1>1. PICK f : IsWebp(chunks, f) /\ StripWebp(chunks) = f[1]
  BY WebpExists
<1>2. Len(chunks) \in Nat
  OBVIOUS
<1>3. \A i \in 1 .. Len(chunks) + 1 : f[i] \in {Refused, Kept(T[i])}
  <2> SUFFICES StepsKeep(1, Len(chunks) + 1, f, T)
    <3> HIDE DEF T
    <3> QED
      BY <1>2, WalkKeeps
  <2> SUFFICES ASSUME NEW i \in 1 .. Len(chunks) + 1
               PROVE  \/ f[i] \in {Refused, Kept(T[i])}
                      \/ \E j \in i + 1 .. Len(chunks) + 1 : \E p :
                            f[i] = Before(p, f[j]) /\ p \o T[j] = T[i]
    <3> HIDE DEF T
    <3> QED
      BY DEF StepsKeep
  <2>1. CASE i > Len(chunks)
    <3>1. f[i] = Kept(<< >>)
      BY <1>1, <2>1 DEF IsWebp
    <3>2. T[i] = << >>
      BY <1>2, <2>1, SubSeqEmpty
    <3> HIDE DEF T
    <3> QED
      BY <3>1, <3>2
  <2>2. CASE i <= Len(chunks)
    <3>1. i \in DOMAIN chunks /\ ~(i > Len(chunks)) /\ i \in 1 .. Len(chunks)
      BY <1>2, <2>2
    <3>2. KeptWebp(chunks[i]) = <<chunks[i]>>
      <4>1. chunks[i].flags \ WebpMetadata = chunks[i].flags
        BY <3>1
      <4>2. [chunks[i] EXCEPT !.flags = @ \ WebpMetadata] = chunks[i]
        BY <3>1, <4>1
      <4> QED
        BY <3>1, <4>2 DEF KeptWebp
    <3>3. f[i] = Refused \/ f[i] = Before(<<chunks[i]>>, f[i + 1])
      BY <1>1, <3>1, <3>2 DEF IsWebp
    <3>4. <<chunks[i]>> \o SubSeq(chunks, i + 1, Len(chunks)) = SubSeq(chunks, i, Len(chunks))
      <4>1. Len(chunks) \in i .. Len(chunks)
        BY <1>2, <3>1
      <4> HIDE DEF T
      <4> QED
        BY <3>1, <4>1, SubSeqRecursiveFirst
    <3>5. i + 1 \in i + 1 .. Len(chunks) + 1 /\ i + 1 \in 1 .. Len(chunks) + 1
      BY <3>1
    <3>6. <<chunks[i]>> \o T[i + 1] = T[i]
      BY <3>4, <3>5
    <3> HIDE DEF T
    <3> QED
      BY Zenon, <3>3, <3>5, <3>6
  <2>3. i > Len(chunks) \/ i <= Len(chunks)
    BY <1>2
  <2> QED
    BY Zenon, <2>1, <2>2, <2>3
<1>4. T[1] = chunks
  BY <1>2, SubSeqFull
<1> HIDE DEF T
<1> QED
  BY <1>1, <1>2, <1>3, <1>4

-----------------------------------------------------------------------------
(* JPEG *)

(* p is the first place from o on that is no fill *)
IsPast(bytes, o, p) ==
    /\ p \in o .. Len(bytes)
    /\ p < Len(bytes) => bytes[p + 1] # FF
    /\ \A q \in o .. p - 1 : bytes[q + 1] = FF

(* There is one such place, and it is that of PastFill. *)
LEMMA PastOnly ==
    ASSUME NEW S, NEW bytes \in Seq(S), NEW o \in 0 .. Len(bytes), NEW p, IsPast(bytes, o, p)
    PROVE  PastFill(bytes, o) = p
<1>1. ASSUME NEW r, IsPast(bytes, o, r) PROVE r = p
  <2>1. Len(bytes) \in Nat /\ o \in Nat /\ p \in Nat /\ r \in Nat
    BY <1>1 DEF IsPast
  <2>2. CASE r < p
    BY <1>1, <2>1, <2>2 DEF IsPast
  <2>3. CASE p < r
    BY <1>1, <2>1, <2>3 DEF IsPast
  <2> QED
    BY <2>1, <2>2, <2>3
<1>2. PastFill(bytes, o) = CHOOSE r : r \in o .. Len(bytes) /\ IsPast(bytes, o, r)
  BY Zenon DEF PastFill, IsPast
<1>3. p \in o .. Len(bytes)
  BY DEF IsPast
<1> QED
  BY <1>1, <1>2, <1>3

(* PastFill is such a place. *)
LEMMA PastIs ==
    ASSUME NEW S, NEW bytes \in Seq(S), NEW o \in 0 .. Len(bytes)
    PROVE  IsPast(bytes, o, PastFill(bytes, o))
<1> DEFINE Stops == {p \in o .. Len(bytes) : p < Len(bytes) => bytes[p + 1] # FF}
<1>1. Len(bytes) \in Nat /\ o \in Nat
  OBVIOUS
<1>2. Stops \in SUBSET Nat /\ Len(bytes) \in Stops
  BY <1>1
<1>3. PICK p \in Stops : \A q \in Stops : p <= q
  <2> HIDE DEF Stops
  <2> QED
    BY <1>2, Least
<1>4. ASSUME NEW q \in o .. p - 1 PROVE bytes[q + 1] = FF
  <2>1. q \in o .. Len(bytes) /\ q < p /\ q < Len(bytes)
    BY <1>1, <1>3
  <2>2. q \notin Stops
    BY <1>1, <1>3, <2>1
  <2> QED
    BY <2>1, <2>2
<1>5. IsPast(bytes, o, p)
  BY <1>3, <1>4 DEF IsPast
<1> QED
  BY <1>5, PastOnly

(* where the piece that begins at o ends, 0 if the scan does not go on *)
JpegNext(bytes, o) ==
    LET m == PastFill(bytes, o)
    IN  IF \/ o = Len(bytes) \/ bytes[o + 1] # FF \/ m = Len(bytes)
           \/ bytes[m + 1] = SOS \/ bytes[m + 1] = EOI
        THEN 0
        ELSE IF bytes[m + 1] \in Standalone THEN m + 1
        ELSE IF m + 3 > Len(bytes) THEN 0
        ELSE LET e == SegmentEnd(bytes, m + 1)
             IN  IF e < m + 3 \/ e > Len(bytes) THEN 0 ELSE e

(* what the scan comes to when it does not go on *)
JpegStop(bytes, o) ==
    LET m == PastFill(bytes, o)
    IN  IF o = Len(bytes) \/ bytes[o + 1] # FF \/ m = Len(bytes) THEN Refused
        ELSE IF bytes[m + 1] = SOS THEN Kept(Slice(bytes, o, Len(bytes)))
        ELSE IF bytes[m + 1] = EOI /\ m + 1 = Len(bytes) THEN Kept(Slice(bytes, o, m + 1))
        ELSE Refused

(* what is kept of the piece that begins at o *)
JpegPiece(bytes, o) ==
    IF bytes[PastFill(bytes, o) + 1] \in JpegMetadata THEN << >>
    ELSE Slice(bytes, o, JpegNext(bytes, o))

(* what StripJpeg comes to at o *)
JpegFrom(bytes, f, o) ==
    LET m == PastFill(bytes, o)
    IN  IF o = Len(bytes) \/ bytes[o + 1] # FF \/ m = Len(bytes) THEN Refused
        ELSE IF bytes[m + 1] = SOS THEN Kept(Slice(bytes, o, Len(bytes)))
        ELSE IF bytes[m + 1] = EOI
             THEN IF m + 1 = Len(bytes) THEN Kept(Slice(bytes, o, m + 1)) ELSE Refused
        ELSE IF bytes[m + 1] \in Standalone
             THEN Before(Slice(bytes, o, m + 1), f[m + 1])
        ELSE IF m + 3 > Len(bytes) THEN Refused
        ELSE LET e == SegmentEnd(bytes, m + 1)
             IN  IF e < m + 3 \/ e > Len(bytes) THEN Refused
                 ELSE Before(IF bytes[m + 1] \in JpegMetadata THEN << >> ELSE Slice(bytes, o, e),
                             f[e])

(* f is the function StripJpeg walks by *)
IsJpeg(bytes, f) == f = [o \in 0 .. Len(bytes) |-> JpegFrom(bytes, f, o)]

(* f is what StripJpeg comes to at every place *)
JpegWalk(bytes, f) ==
    \A o \in 0 .. Len(bytes) :
        f[o] = IF JpegNext(bytes, o) = 0 THEN JpegStop(bytes, o)
               ELSE Before(JpegPiece(bytes, o), f[JpegNext(bytes, o)])

(* the values of a byte *)
Bytes == 0 .. 255

(* Scans go on. *)
LEMMA JpegOnward ==
    ASSUME NEW bytes \in Seq(Bytes), NEW o \in 0 .. Len(bytes)
    PROVE  JpegNext(bytes, o) = 0 \/ JpegNext(bytes, o) \in o + 1 .. Len(bytes)
<1>1. Len(bytes) \in Nat /\ o \in Nat
  OBVIOUS
<1>2. PICK m : m = PastFill(bytes, o)
  OBVIOUS
<1>3. m \in o .. Len(bytes) /\ m \in Nat
  BY <1>2, PastIs DEF IsPast
<1>4. ASSUME m + 3 <= Len(bytes) PROVE SegmentEnd(bytes, m + 1) \in Int
  <2>1. m + 2 \in 1 .. Len(bytes) /\ m + 3 \in 1 .. Len(bytes)
    BY <1>1, <1>3, <1>4
  <2>2. bytes[m + 2] \in Bytes /\ bytes[m + 3] \in Bytes
    BY <2>1
  <2>3. PICK x : x = bytes[m + 2]
    OBVIOUS
  <2>4. PICK y : y = bytes[m + 3]
    OBVIOUS
  <2>5. \A z \in Bytes : z \in Int
    BY DEF Bytes
  <2>6. x \in Bytes /\ y \in Bytes
    BY Zenon, <2>2, <2>3, <2>4
  <2>7. x \in Int /\ y \in Int
    BY Zenon, <2>5, <2>6
  <2>8. (m + 1) + 1 = m + 2 /\ (m + 1) + 2 = m + 3
    BY <1>3
  <2>9. SegmentEnd(bytes, m + 1) = (m + 1) + 256 * x + y
    BY <2>3, <2>4, <2>8 DEF SegmentEnd
  <2> QED
    BY <1>3, <2>7, <2>9
<1> QED
  BY <1>1, <1>2, <1>3, <1>4 DEF JpegNext

(* The scan of StripJpeg in the form of a walk. *)
LEMMA JpegSteps ==
    ASSUME NEW bytes \in Seq(Bytes), NEW f, NEW o \in 0 .. Len(bytes)
    PROVE  JpegFrom(bytes, f, o) = IF JpegNext(bytes, o) = 0 THEN JpegStop(bytes, o)
                                   ELSE Before(JpegPiece(bytes, o), f[JpegNext(bytes, o)])
<1>1. PICK m : m = PastFill(bytes, o)
  OBVIOUS
<1>2. m \in Nat
  BY <1>1, PastIs DEF IsPast
<1>3. bytes[m + 1] \in Standalone => bytes[m + 1] \notin JpegMetadata
  BY DEF Standalone, JpegMetadata, App1, App13, Comment
<1>4. m + 1 # 0 /\ m + 3 \in Nat
  BY <1>2
<1>5. CASE o = Len(bytes) \/ bytes[o + 1] # FF \/ m = Len(bytes)
  BY <1>1, <1>5 DEF JpegFrom, JpegNext, JpegStop
<1> DEFINE Marked == ~(o = Len(bytes) \/ bytes[o + 1] # FF \/ m = Len(bytes))
<1>6. CASE Marked /\ (bytes[m + 1] = SOS \/ bytes[m + 1] = EOI)
  BY <1>1, <1>6 DEF JpegFrom, JpegNext, JpegStop, SOS, EOI
<1>7. CASE Marked /\ bytes[m + 1] # SOS /\ bytes[m + 1] # EOI /\ bytes[m + 1] \in Standalone
  <2>1. JpegNext(bytes, o) = m + 1
    BY <1>1, <1>7 DEF JpegNext
  <2>2. JpegPiece(bytes, o) = Slice(bytes, o, m + 1)
    BY <1>1, <1>3, <1>7, <2>1 DEF JpegPiece
  <2>3. JpegFrom(bytes, f, o) = Before(Slice(bytes, o, m + 1), f[m + 1])
    BY <1>1, <1>7 DEF JpegFrom
  <2> QED
    BY <1>4, <2>1, <2>2, <2>3
<1>8. CASE Marked /\ bytes[m + 1] # SOS /\ bytes[m + 1] # EOI /\ bytes[m + 1] \notin Standalone
  <2>1. PICK e : e = SegmentEnd(bytes, m + 1)
    OBVIOUS
  <2>2. CASE m + 3 > Len(bytes) \/ e < m + 3 \/ e > Len(bytes)
    <3>1. JpegNext(bytes, o) = 0 /\ JpegStop(bytes, o) = Refused
      BY <1>1, <1>8, <2>1, <2>2 DEF JpegNext, JpegStop
    <3>2. JpegFrom(bytes, f, o) = Refused
      BY <1>1, <1>8, <2>1, <2>2 DEF JpegFrom
    <3> QED
      BY <3>1, <3>2
  <2>3. CASE ~(m + 3 > Len(bytes) \/ e < m + 3 \/ e > Len(bytes))
    <3>1. JpegNext(bytes, o) = e
      BY <1>1, <1>8, <2>1, <2>3 DEF JpegNext
    <3>2. JpegPiece(bytes, o) = IF bytes[m + 1] \in JpegMetadata THEN << >> ELSE Slice(bytes, o, e)
      BY <1>1, <3>1 DEF JpegPiece
    <3>3. e # 0
      <4>1. 0 < m + 3
        BY <1>2
      <4> QED
        BY <2>3, <4>1
    <3>4. JpegFrom(bytes, f, o)
          = Before(IF bytes[m + 1] \in JpegMetadata THEN << >> ELSE Slice(bytes, o, e), f[e])
      BY <1>1, <1>8, <2>1, <2>3 DEF JpegFrom
    <3> QED
      BY <3>1, <3>2, <3>3, <3>4
  <2> QED
    BY <2>2, <2>3
<1> QED
  BY <1>5, <1>6, <1>7, <1>8

(* There is that function, and StripJpeg takes its value after the start. *)
LEMMA JpegExists ==
    ASSUME NEW bytes \in Seq(Bytes)
    PROVE  \E f : /\ JpegWalk(bytes, f)
                  /\ StripJpeg(bytes) = IF Len(bytes) < 2 \/ bytes[1] # FF \/ bytes[2] # SOI
                                        THEN Refused ELSE Before(<<FF, SOI>>, f[2])
<1> DEFINE n == Len(bytes)
           next == [o \in 0 .. n |-> JpegNext(bytes, o)]
           stop == [o \in 0 .. n |-> JpegStop(bytes, o)]
           piece == [o \in 0 .. n |-> JpegPiece(bytes, o)]
<1>1. n \in Nat
  OBVIOUS
<1>2. Onward(0, n, next)
  BY <1>1, JpegOnward DEF Onward
<1>3. PICK f : IsWalk(0, n, next, stop, piece, f)
  <2> HIDE DEF n, next, stop, piece
  <2> QED
    BY <1>1, <1>2, WalkExists
<1>4. IsJpeg(bytes, f)
  <2>1. f = [o \in 0 .. n |-> IF next[o] = 0 THEN stop[o] ELSE Before(piece[o], f[next[o]])]
    BY <1>3 DEF IsWalk
  <2>2. ASSUME NEW o \in 0 .. n
        PROVE  JpegFrom(bytes, f, o) = IF next[o] = 0 THEN stop[o] ELSE Before(piece[o], f[next[o]])
    BY JpegSteps
  <2> HIDE DEF next, stop, piece
  <2> QED
    BY <2>1, <2>2 DEF IsJpeg
<1>5. PICK g : IsJpeg(bytes, g) /\ g = CHOOSE h : IsJpeg(bytes, h)
  BY <1>4
<1>6. JpegWalk(bytes, g)
  BY <1>5, JpegSteps DEF IsJpeg, JpegWalk
<1>7. StripJpeg(bytes) = IF Len(bytes) < 2 \/ bytes[1] # FF \/ bytes[2] # SOI
                         THEN Refused ELSE Before(<<FF, SOI>>, (CHOOSE h : IsJpeg(bytes, h))[2])
  BY Zenon DEF StripJpeg, IsJpeg, JpegFrom
<1> QED
  BY <1>5, <1>6, <1>7

(* A body stands q places further on in another, from the place lo on. *)
Further(bytes, more, lo, q) ==
    /\ bytes \in Seq(Bytes) /\ more \in Seq(Bytes) /\ q \in Nat
    /\ lo \in 2 .. Len(bytes) /\ Len(more) = Len(bytes) + q
    /\ \A i \in lo + 1 .. Len(bytes) : more[i + q] = bytes[i]

(* The fill ends as many places further on. *)
LEMMA PastFurther ==
    ASSUME NEW bytes, NEW more, NEW lo, NEW q, Further(bytes, more, lo, q), NEW o \in lo .. Len(bytes)
    PROVE  PastFill(more, o + q) = PastFill(bytes, o) + q
<1>1. /\ lo \in Nat /\ 2 <= lo /\ lo <= Len(bytes) /\ bytes \in Seq(Bytes) /\ more \in Seq(Bytes) /\ q \in Nat /\ Len(bytes) \in Nat
      /\ Len(more) = Len(bytes) + q /\ o \in 0 .. Len(bytes) /\ o + q \in 0 .. Len(more)
  BY DEF Further
<1>2. PICK p : p = PastFill(bytes, o)
  OBVIOUS
<1>3. IsPast(bytes, o, p)
  BY <1>1, <1>2, PastIs
<1>4. p \in o .. Len(bytes)
  BY <1>3 DEF IsPast
<1>5. p + q \in o + q .. Len(more)
  BY <1>1, <1>4
<1>6. p + q < Len(more) => more[(p + q) + 1] # FF
  <2>1. ASSUME p + q < Len(more) PROVE more[(p + q) + 1] = bytes[p + 1] /\ p < Len(bytes)
    <3>1. p + 1 \in lo + 1 .. Len(bytes) /\ (p + 1) + q = (p + q) + 1 /\ p < Len(bytes)
      BY <1>1, <1>4, <2>1
    <3>2. more[(p + 1) + q] = bytes[p + 1]
      BY <3>1 DEF Further
    <3> QED
      BY <3>1, <3>2
  <2> QED
    BY <1>3, <2>1 DEF IsPast
<1>7. ASSUME NEW r \in o + q .. (p + q) - 1 PROVE more[r + 1] = FF
  <2>1. PICK t : t = r - q
    OBVIOUS
  <2>2. /\ t \in o .. p - 1 /\ t + 1 \in lo + 1 .. Len(bytes) /\ (t + 1) + q = r + 1
    BY <1>1, <1>4, <2>1
  <2>3. more[(t + 1) + q] = bytes[t + 1]
    BY <2>2 DEF Further
  <2>4. bytes[t + 1] = FF
    BY <1>3, <2>2 DEF IsPast
  <2> QED
    BY <2>2, <2>3, <2>4
<1>8. IsPast(more, o + q, p + q)
  BY <1>5, <1>6, <1>7 DEF IsPast
<1> QED
  BY <1>1, <1>2, <1>8, PastOnly

(* The same bytes are read there. *)
LEMMA SliceFurther ==
    ASSUME NEW bytes, NEW more, NEW lo, NEW q, Further(bytes, more, lo, q),
           NEW a \in lo .. Len(bytes), NEW b \in a .. Len(bytes)
    PROVE  Slice(more, a + q, b + q) = Slice(bytes, a, b)
<1>1. /\ lo \in Nat /\ 2 <= lo /\ lo <= Len(bytes) /\ bytes \in Seq(Bytes) /\ more \in Seq(Bytes) /\ q \in Nat /\ Len(bytes) \in Nat
      /\ Len(more) = Len(bytes) + q
  BY DEF Further
<1> DEFINE s == SubSeq(bytes, a + 1, b)
           t == SubSeq(more, (a + q) + 1, b + q)
<1>2. Len(s) = b - a /\ s \in Seq(Bytes) /\ \A i \in 1 .. b - a : s[i] = bytes[a + i]
  BY <1>1
<1>3. Len(t) = b - a /\ t \in Seq(Bytes) /\ \A i \in 1 .. b - a : t[i] = more[(a + i) + q]
  BY <1>1
<1>4. \A i \in 1 .. b - a : more[(a + i) + q] = bytes[a + i]
  <2> TAKE i \in 1 .. b - a
  <2>1. a + i \in lo + 1 .. Len(bytes)
    BY <1>1
  <2> QED
    BY <2>1 DEF Further
<1>5. s = t
  <2> HIDE DEF s, t
  <2>1. Len(s) = Len(t) /\ \A i \in 1 .. Len(s) : s[i] = t[i]
    BY <1>2, <1>3, <1>4
  <2> QED
    BY <1>2, <1>3, <2>1, SeqEqual
<1> QED
  BY <1>5 DEF Slice

(* It takes the same steps. *)
LEMMA StepFurther ==
    ASSUME NEW bytes, NEW more, NEW lo, NEW q, Further(bytes, more, lo, q), NEW o \in lo .. Len(bytes)
    PROVE  /\ JpegNext(more, o + q) = IF JpegNext(bytes, o) = 0 THEN 0 ELSE JpegNext(bytes, o) + q
           /\ JpegNext(bytes, o) = 0 => JpegStop(more, o + q) = JpegStop(bytes, o)
           /\ JpegNext(bytes, o) # 0 => JpegPiece(more, o + q) = JpegPiece(bytes, o)
<1>1. /\ lo \in Nat /\ 2 <= lo /\ lo <= Len(bytes) /\ bytes \in Seq(Bytes) /\ more \in Seq(Bytes) /\ q \in Nat /\ Len(bytes) \in Nat
      /\ Len(more) = Len(bytes) + q /\ o \in 0 .. Len(bytes) /\ o \in Nat
  BY DEF Further
<1>2. PICK m : m = PastFill(bytes, o)
  OBVIOUS
<1>3. m \in o .. Len(bytes) /\ m \in Nat
  BY <1>1, <1>2, PastIs DEF IsPast
<1>4. PICK l : l = PastFill(more, o + q)
  OBVIOUS
<1>5. l = m + q
  BY <1>2, <1>4, PastFurther
<1>6. PICK oo : oo = o + q
  OBVIOUS
<1>7. /\ oo = Len(more) <=> o = Len(bytes)
      /\ l = Len(more) <=> m = Len(bytes)
      /\ l + 1 = Len(more) <=> m + 1 = Len(bytes)
      /\ l + 3 > Len(more) <=> m + 3 > Len(bytes)
      /\ l + 1 = (m + 1) + q
  <2>1. PICK n : n = Len(bytes)
    OBVIOUS
  <2>2. PICK k : k = Len(more)
    OBVIOUS
  <2>3. n \in Nat /\ q \in Nat /\ o \in Nat /\ m \in Nat /\ k = n + q
    BY <1>1, <1>3, <2>1, <2>2
  <2>4. /\ oo = k <=> o = n
        /\ l = k <=> m = n
        /\ l + 1 = k <=> m + 1 = n
        /\ l + 3 > k <=> m + 3 > n
        /\ l + 1 = (m + 1) + q
    BY <1>5, <1>6, <2>3
  <2> QED
    BY Zenon, <2>1, <2>2, <2>4
<1>8. o # Len(bytes) => more[oo + 1] = bytes[o + 1]
  <2>1. ASSUME o # Len(bytes) PROVE o + 1 \in lo + 1 .. Len(bytes) /\ (o + 1) + q = oo + 1
    BY <1>1, <1>6, <2>1
  <2> QED
    BY <2>1 DEF Further
<1>9. m # Len(bytes) => more[l + 1] = bytes[m + 1]
  <2>1. ASSUME m # Len(bytes) PROVE m + 1 \in lo + 1 .. Len(bytes) /\ (m + 1) + q = l + 1
    BY <1>1, <1>3, <1>5, <2>1
  <2> QED
    BY <2>1 DEF Further
<1>10. PICK e : e = SegmentEnd(bytes, m + 1)
  OBVIOUS
<1>11. PICK ee : ee = SegmentEnd(more, l + 1)
  OBVIOUS
<1>12. m + 3 <= Len(bytes) => e \in Int /\ ee = e + q
  <2> SUFFICES ASSUME m + 3 <= Len(bytes) PROVE e \in Int /\ ee = e + q
    OBVIOUS
  <2>1. /\ m + 2 \in lo + 1 .. Len(bytes) /\ m + 3 \in lo + 1 .. Len(bytes)
        /\ m + 2 \in 1 .. Len(bytes) /\ m + 3 \in 1 .. Len(bytes)
        /\ (m + 2) + q = (l + 1) + 1 /\ (m + 3) + q = (l + 1) + 2
        /\ (m + 1) + 1 = m + 2 /\ (m + 1) + 2 = m + 3
    BY <1>1, <1>3, <1>5
  <2>2. bytes[m + 2] \in Bytes /\ bytes[m + 3] \in Bytes
    BY <1>1, <2>1
  <2>3. PICK x : x = bytes[m + 2]
    OBVIOUS
  <2>4. PICK y : y = bytes[m + 3]
    OBVIOUS
  <2>5. \A z \in Bytes : z \in Int
    BY DEF Bytes
  <2>6. x \in Bytes /\ y \in Bytes
    BY Zenon, <2>2, <2>3, <2>4
  <2>7. x \in Int /\ y \in Int
    BY Zenon, <2>5, <2>6
  <2>8. more[(m + 2) + q] = x /\ more[(m + 3) + q] = y
    BY <2>1, <2>3, <2>4 DEF Further
  <2>9. e = (m + 1) + 256 * x + y
    BY <1>10, <2>1, <2>3, <2>4 DEF SegmentEnd
  <2>10. ee = (l + 1) + 256 * x + y
    BY <1>11, <2>1, <2>8 DEF SegmentEnd
  <2>11. e \in Int
    BY <1>3, <2>7, <2>9
  <2>12. l + 1 = (m + 1) + q
    BY <1>7
  <2>13. ((m + 1) + q) + 256 * x + y = ((m + 1) + 256 * x + y) + q
    BY <1>1, <1>3, <2>7
  <2> QED
    BY <2>9, <2>10, <2>11, <2>12, <2>13
<1>13. m + 3 <= Len(bytes) => /\ ee < l + 3 <=> e < m + 3
                              /\ ee > Len(more) <=> e > Len(bytes)
  BY <1>1, <1>3, <1>5, <1>12
<1> DEFINE Marked == ~(o = Len(bytes) \/ bytes[o + 1] # FF \/ m = Len(bytes))
           MarkedMore == ~(oo = Len(more) \/ more[oo + 1] # FF \/ l = Len(more))
<1>14. MarkedMore <=> Marked
  BY <1>7, <1>8
<1>15. Marked => more[l + 1] = bytes[m + 1]
  BY <1>9
<1>16. JpegNext(bytes, o) = IF ~Marked \/ bytes[m + 1] = SOS \/ bytes[m + 1] = EOI THEN 0
                            ELSE IF bytes[m + 1] \in Standalone THEN m + 1
                            ELSE IF m + 3 > Len(bytes) \/ e < m + 3 \/ e > Len(bytes) THEN 0 ELSE e
  BY <1>2, <1>10 DEF JpegNext
<1>17. JpegNext(more, oo) = IF ~MarkedMore \/ more[l + 1] = SOS \/ more[l + 1] = EOI THEN 0
                            ELSE IF more[l + 1] \in Standalone THEN l + 1
                            ELSE IF l + 3 > Len(more) \/ ee < l + 3 \/ ee > Len(more) THEN 0 ELSE ee
  BY <1>4, <1>6, <1>11 DEF JpegNext
<1>18. JpegNext(more, oo) = IF JpegNext(bytes, o) = 0 THEN 0 ELSE JpegNext(bytes, o) + q
  <2> HIDE DEF Marked, MarkedMore
  <2>1. m + 3 > Len(bytes) \/ m + 3 <= Len(bytes)
    BY <1>1, <1>3
  <2>2. m + 1 # 0 /\ (m + 3 <= Len(bytes) /\ ~(e < m + 3) => e # 0)
    BY <1>3, <1>12
  <2>3. ~Marked \/ bytes[m + 1] = SOS \/ bytes[m + 1] = EOI => JpegNext(more, oo) = 0
    BY <1>14, <1>15, <1>17
  <2>4. CASE ~Marked \/ bytes[m + 1] = SOS \/ bytes[m + 1] = EOI
    BY <1>16, <2>3, <2>4
  <2>5. CASE ~(~Marked \/ bytes[m + 1] = SOS \/ bytes[m + 1] = EOI)
    <3>1. MarkedMore /\ more[l + 1] = bytes[m + 1]
      BY <1>14, <1>15, <2>5
    <3>2. JpegNext(bytes, o) = IF bytes[m + 1] \in Standalone THEN m + 1
              ELSE IF m + 3 > Len(bytes) \/ e < m + 3 \/ e > Len(bytes) THEN 0 ELSE e
      BY <1>16, <2>5
    <3>3. JpegNext(more, oo) = IF bytes[m + 1] \in Standalone THEN l + 1
              ELSE IF l + 3 > Len(more) \/ ee < l + 3 \/ ee > Len(more) THEN 0 ELSE ee
      BY <1>17, <2>5, <3>1
    <3> QED
      BY <1>7, <1>12, <1>13, <2>1, <2>2, <3>2, <3>3
  <2> QED
    BY <2>4, <2>5
<1>19. /\ Marked => Slice(more, oo, Len(more)) = Slice(bytes, o, Len(bytes))
       /\ m + 1 = Len(bytes) => Slice(more, oo, l + 1) = Slice(bytes, o, m + 1)
  <2>1. Len(bytes) \in o .. Len(bytes) /\ (m + 1 = Len(bytes) => m + 1 \in o .. Len(bytes))
    BY <1>1, <1>3
  <2> QED
    BY SMTT(40), <1>1, <1>6, <1>7, <2>1, SliceFurther
<1>20. JpegStop(bytes, o) = IF ~Marked THEN Refused
            ELSE IF bytes[m + 1] = SOS THEN Kept(Slice(bytes, o, Len(bytes)))
            ELSE IF bytes[m + 1] = EOI /\ m + 1 = Len(bytes) THEN Kept(Slice(bytes, o, m + 1))
            ELSE Refused
  BY <1>2 DEF JpegStop
<1>21. JpegStop(more, oo) = IF ~MarkedMore THEN Refused
            ELSE IF more[l + 1] = SOS THEN Kept(Slice(more, oo, Len(more)))
            ELSE IF more[l + 1] = EOI /\ l + 1 = Len(more) THEN Kept(Slice(more, oo, l + 1))
            ELSE Refused
  BY <1>4, <1>6 DEF JpegStop
<1>22. JpegStop(more, oo) = JpegStop(bytes, o)
  <2> HIDE DEF Marked, MarkedMore
  <2> QED
    BY <1>7, <1>14, <1>15, <1>19, <1>20, <1>21
<1>23. JpegNext(bytes, o) # 0 => JpegPiece(more, oo) = JpegPiece(bytes, o)
  <2> SUFFICES ASSUME JpegNext(bytes, o) # 0 PROVE JpegPiece(more, oo) = JpegPiece(bytes, o)
    OBVIOUS
  <2>1. more[l + 1] = bytes[m + 1]
    BY <1>15, <1>16
  <2>2. JpegNext(bytes, o) \in o .. Len(bytes)
    BY <1>1, JpegOnward
  <2>3. Slice(more, oo, JpegNext(more, oo)) = Slice(bytes, o, JpegNext(bytes, o))
    BY <1>6, <1>18, <2>2, SliceFurther
  <2> QED
    BY <1>2, <1>4, <1>6, <2>1, <2>3 DEF JpegPiece
<1> QED
  BY <1>6, <1>18, <1>22, <1>23

(* What is kept of bytes are bytes. *)
LEMMA JpegTyped ==
    ASSUME NEW bytes \in Seq(Bytes), NEW f, JpegWalk(bytes, f)
    PROVE  \A o \in 0 .. Len(bytes) : f[o] \in Outcomes(Bytes)
<1>1. Len(bytes) \in Nat /\ 0 \in Nat
  OBVIOUS
<1>2. ASSUME NEW o \in 0 .. Len(bytes), NEW e \in o .. Len(bytes)
      PROVE  Slice(bytes, o, e) \in Seq(Bytes)
  BY <1>1 DEF Slice
<1>3. ASSUME NEW o \in 0 .. Len(bytes)
      PROVE  \/ f[o] \in Outcomes(Bytes)
             \/ \E e \in o + 1 .. Len(bytes), p \in Seq(Bytes) : f[o] = Before(p, f[e])
  <2>1. PICK m : m = PastFill(bytes, o)
    OBVIOUS
  <2>2. m \in o .. Len(bytes) /\ o \in o .. Len(bytes) /\ Len(bytes) \in o .. Len(bytes)
    BY <1>1, <2>1, PastIs DEF IsPast
  <2>3. CASE JpegNext(bytes, o) = 0
    <3>1. f[o] = JpegStop(bytes, o)
      BY <2>3 DEF JpegWalk
    <3>2. m + 1 = Len(bytes) => m + 1 \in o .. Len(bytes)
      BY <2>2
    <3>3. /\ Refused \in Outcomes(Bytes)
          /\ Kept(Slice(bytes, o, Len(bytes))) \in Outcomes(Bytes)
          /\ m + 1 = Len(bytes) => Kept(Slice(bytes, o, m + 1)) \in Outcomes(Bytes)
      BY <1>2, <2>2, <3>2 DEF Outcomes
    <3>4. JpegStop(bytes, o) \in Outcomes(Bytes)
      BY <2>1, <3>3 DEF JpegStop
    <3> QED
      BY <3>1, <3>4
  <2>4. CASE JpegNext(bytes, o) # 0
    <3>1. f[o] = Before(JpegPiece(bytes, o), f[JpegNext(bytes, o)])
      BY <2>4 DEF JpegWalk
    <3>2. JpegNext(bytes, o) \in o + 1 .. Len(bytes)
      BY <2>4, JpegOnward
    <3>3. JpegNext(bytes, o) \in o .. Len(bytes) /\ << >> \in Seq(Bytes)
      BY <1>1, <3>2
    <3>4. JpegPiece(bytes, o) \in Seq(Bytes)
      BY <1>2, <3>3 DEF JpegPiece
    <3> QED
      BY <3>1, <3>2, <3>4
  <2> QED
    BY <2>3, <2>4
<1>4. StepsTyped(Bytes, 0, Len(bytes), f)
  BY <1>3 DEF StepsTyped
<1> QED
  BY <1>1, <1>4, WalkTyped

(* The first two bytes, without which nothing is scanned. *)
Started(bytes) == bytes \in Seq(Bytes) /\ Len(bytes) >= 2 /\ bytes[1] = FF /\ bytes[2] = SOI

(* A segment of one of the markers from c to e, with its marker at m. *)
SegmentBy(bytes, markers, c, e, m) ==
    /\ m \in c + 1 .. e - 1 /\ \A q \in c .. m - 1 : bytes[q + 1] = FF
    /\ bytes[m + 1] \in markers \ {FF, SOS, EOI}
    /\ IF bytes[m + 1] \in Standalone THEN e = m + 1
       ELSE m + 3 <= e /\ 256 * bytes[m + 2] + bytes[m + 3] = e - (m + 1)

(* The code scans it as one, *)
LEMMA SegmentScanned ==
    ASSUME NEW bytes \in Seq(Bytes), NEW markers, NEW c \in 2 .. Len(bytes), NEW e \in 2 .. Len(bytes),
           NEW m, SegmentBy(bytes, markers, c, e, m)
    PROVE  PastFill(bytes, c) = m /\ JpegNext(bytes, c) = e /\ c < e
<1>1. /\ m \in c + 1 .. e - 1 /\ \A q \in c .. m - 1 : bytes[q + 1] = FF
      /\ bytes[m + 1] \notin {FF, SOS, EOI}
  BY DEF SegmentBy
<1>2. PICK n : n = Len(bytes)
  OBVIOUS
<1>3. n \in Nat /\ c \in Nat /\ e \in Nat /\ m \in Nat /\ c < m /\ m < e /\ e <= n /\ 2 <= c
  BY <1>1, <1>2
<1>4. m \in c .. n /\ c \in 0 .. n /\ c \in c .. m - 1 /\ c # n /\ m # n
  BY <1>3
<1>5. IsPast(bytes, c, m)
  BY <1>1, <1>2, <1>4 DEF IsPast
<1>6. PastFill(bytes, c) = m
  BY <1>2, <1>4, <1>5, PastOnly
<1>7. bytes[c + 1] = FF
  BY <1>1, <1>4
<1>8. CASE bytes[m + 1] \in Standalone
  <2>1. JpegNext(bytes, c) = m + 1
    BY <1>1, <1>2, <1>4, <1>6, <1>7, <1>8 DEF JpegNext
  <2>2. e = m + 1
    BY <1>8 DEF SegmentBy
  <2> QED
    BY <1>3, <1>6, <2>1, <2>2
<1>9. CASE bytes[m + 1] \notin Standalone
  <2>1. m + 3 <= e /\ 256 * bytes[m + 2] + bytes[m + 3] = e - (m + 1)
    BY <1>9 DEF SegmentBy
  <2>2. m + 2 \in 1 .. n /\ m + 3 \in 1 .. n /\ (m + 1) + 1 = m + 2 /\ (m + 1) + 2 = m + 3
    BY <1>3, <2>1
  <2>3. PICK x, y : x = bytes[m + 2] /\ y = bytes[m + 3]
    OBVIOUS
  <2>4. x \in Bytes /\ y \in Bytes
    BY <1>2, <2>2, <2>3
  <2>5. x \in Int /\ y \in Int
    BY <2>4 DEF Bytes
  <2>6. SegmentEnd(bytes, m + 1) = (m + 1) + 256 * x + y
    BY <2>2, <2>3 DEF SegmentEnd
  <2>7. 256 * x + y = e - (m + 1)
    BY <2>1, <2>3
  <2>8. (m + 1) + 256 * x + y = e
    BY <1>3, <2>5, <2>7
  <2>9. SegmentEnd(bytes, m + 1) = e
    BY <2>6, <2>8
  <2>10. ~(m + 3 > n) /\ ~(e < m + 3) /\ ~(e > n)
    BY <1>3, <2>1
  <2>11. JpegNext(bytes, c) = e
    BY <1>1, <1>2, <1>4, <1>6, <1>7, <1>9, <2>9, <2>10 DEF JpegNext
  <2> QED
    BY <1>3, <1>6, <2>11
<1> QED
  BY <1>8, <1>9

(* and goes on only past one. *)
LEMMA ScannedSegment ==
    ASSUME NEW bytes \in Seq(Bytes), NEW o \in 2 .. Len(bytes), JpegNext(bytes, o) # 0
    PROVE  SegmentBy(bytes, 0 .. 255, o, JpegNext(bytes, o), PastFill(bytes, o))
<1>1. PICK m, e, n : m = PastFill(bytes, o) /\ e = JpegNext(bytes, o) /\ n = Len(bytes)
  OBVIOUS
<1>2. o \in 0 .. n /\ o \in Nat /\ n \in Nat
  BY <1>1
<1>3. IsPast(bytes, o, m)
  BY <1>1, <1>2, PastIs
<1>4. /\ o # n /\ bytes[o + 1] = FF /\ m # n /\ bytes[m + 1] # SOS /\ bytes[m + 1] # EOI
      /\ IF bytes[m + 1] \in Standalone THEN e = m + 1
         ELSE ~(m + 3 > n) /\ e = SegmentEnd(bytes, m + 1) /\ ~(e < m + 3) /\ ~(e > n)
  BY <1>1 DEF JpegNext
<1>5. m \in o .. n /\ (m < n => bytes[m + 1] # FF) /\ \A q \in o .. m - 1 : bytes[q + 1] = FF
  BY <1>1, <1>3 DEF IsPast
<1>6. m < n /\ m # o /\ m \in Nat /\ o < m
  BY <1>2, <1>4, <1>5
<1>7. m + 1 \in 1 .. n
  BY <1>2, <1>6
<1>8. bytes[m + 1] \in 0 .. 255
  BY <1>1, <1>7 DEF Bytes
<1>9. e \in o + 1 .. n
  BY <1>1, <1>2, JpegOnward
<1>10. m \in o + 1 .. e - 1
  BY <1>2, <1>4, <1>6, <1>9
<1>11. IF bytes[m + 1] \in Standalone THEN e = m + 1
       ELSE m + 3 <= e /\ 256 * bytes[m + 2] + bytes[m + 3] = e - (m + 1)
  <2> SUFFICES ASSUME bytes[m + 1] \notin Standalone
               PROVE  m + 3 <= e /\ 256 * bytes[m + 2] + bytes[m + 3] = e - (m + 1)
    BY <1>4
  <2>1. m + 3 <= n /\ e = SegmentEnd(bytes, m + 1) /\ m + 3 <= e
    BY <1>2, <1>4, <1>6, <1>9
  <2>2. m + 2 \in 1 .. n /\ m + 3 \in 1 .. n /\ (m + 1) + 1 = m + 2 /\ (m + 1) + 2 = m + 3
    BY <1>2, <1>6, <2>1
  <2>3. PICK x, y : x = bytes[m + 2] /\ y = bytes[m + 3]
    OBVIOUS
  <2>4. x \in Bytes /\ y \in Bytes
    BY <1>1, <2>2, <2>3
  <2>5. x \in Int /\ y \in Int
    BY <2>4 DEF Bytes
  <2>6. e = (m + 1) + 256 * x + y
    BY <2>1, <2>2, <2>3 DEF SegmentEnd
  <2>7. 256 * x + y = e - (m + 1)
    BY <1>6, <2>5, <2>6
  <2> QED
    BY <2>1, <2>3, <2>7
<1>12. bytes[m + 1] \in (0 .. 255) \ {FF, SOS, EOI}
  BY <1>4, <1>5, <1>6, <1>8
<1> QED
  BY <1>1, <1>5, <1>10, <1>11, <1>12 DEF SegmentBy

(* It is one in every body that begins with the same bytes. *)
LEMMA SegmentCopied ==
    ASSUME NEW bytes, NEW more, NEW markers, NEW c \in Nat, NEW e \in Nat,
           \A i \in 1 .. e : more[i] = bytes[i], NEW m, SegmentBy(bytes, markers, c, e, m)
    PROVE  SegmentBy(more, markers, c, e, m)
<1>1. m \in c + 1 .. e - 1 /\ m + 1 \in 1 .. e /\ \A q \in c .. m - 1 : q + 1 \in 1 .. e
  BY DEF SegmentBy
<1>2. more[m + 1] = bytes[m + 1] /\ \A q \in c .. m - 1 : more[q + 1] = bytes[q + 1]
  BY <1>1
<1>3. m + 3 <= e => more[m + 2] = bytes[m + 2] /\ more[m + 3] = bytes[m + 3]
  <2> SUFFICES ASSUME m + 3 <= e PROVE m + 2 \in 1 .. e /\ m + 3 \in 1 .. e
    OBVIOUS
  <2> QED
    BY <1>1
<1> QED
  BY <1>1, <1>2, <1>3 DEF SegmentBy

(* The same bytes are kept of it there. *)
LEMMA SliceCopied ==
    ASSUME NEW bytes \in Seq(Bytes), NEW more \in Seq(Bytes), NEW a \in Nat, NEW b \in a .. Len(bytes),
           b <= Len(more), \A i \in 1 .. b : more[i] = bytes[i]
    PROVE  Slice(more, a, b) = Slice(bytes, a, b)
<1> DEFINE s == SubSeq(bytes, a + 1, b)
           t == SubSeq(more, a + 1, b)
<1>1. Len(s) = b - a /\ s \in Seq(Bytes) /\ \A i \in 1 .. b - a : s[i] = bytes[a + i]
  OBVIOUS
<1>2. Len(t) = b - a /\ t \in Seq(Bytes) /\ \A i \in 1 .. b - a : t[i] = more[a + i]
  OBVIOUS
<1>3. \A i \in 1 .. b - a : a + i \in 1 .. b
  OBVIOUS
<1>4. s = t
  <2> HIDE DEF s, t
  <2>1. Len(s) = Len(t) /\ \A i \in 1 .. Len(s) : s[i] = t[i]
    BY <1>1, <1>2, <1>3
  <2> QED
    BY <1>1, <1>2, <2>1, SeqEqual
<1> QED
  BY <1>4 DEF Slice

(* What is scanned of a segment. *)
LEMMA JpegStep ==
    ASSUME NEW bytes \in Seq(Bytes), NEW f, JpegWalk(bytes, f), NEW markers,
           NEW c \in 2 .. Len(bytes), NEW e \in 2 .. Len(bytes), NEW m, SegmentBy(bytes, markers, c, e, m)
    PROVE  /\ f[c] = Before(IF bytes[m + 1] \in JpegMetadata THEN << >> ELSE Slice(bytes, c, e), f[e])
           /\ c < e /\ m + 1 \in 1 .. e
<1>1. PastFill(bytes, c) = m /\ JpegNext(bytes, c) = e /\ c < e
  BY SegmentScanned
<1>2. c \in 0 .. Len(bytes) /\ e # 0
  OBVIOUS
<1>3. f[c] = Before(JpegPiece(bytes, c), f[e])
  BY <1>1, <1>2 DEF JpegWalk
<1>4. m + 1 \in 1 .. e
  BY DEF SegmentBy
<1> QED
  BY <1>1, <1>3, <1>4 DEF JpegPiece

(* What is stored of what begins as a JPEG. *)
LEMMA JpegOf ==
    ASSUME NEW bytes, Started(bytes)
    PROVE  \E f : JpegWalk(bytes, f) /\ StripJpeg(bytes) = Before(<<FF, SOI>>, f[2])
<1>1. bytes \in Seq(Bytes) /\ ~(Len(bytes) < 2 \/ bytes[1] # FF \/ bytes[2] # SOI)
  BY DEF Started
<1> QED
  BY <1>1, JpegExists

(* From where a body stands further on in another, the scans agree. *)
LEMMA JpegAgree ==
    ASSUME NEW bytes, NEW more, NEW lo, NEW q, Further(bytes, more, lo, q),
           NEW f, JpegWalk(bytes, f), NEW g, JpegWalk(more, g)
    PROVE  f[lo] = g[lo + q]
<1>1. /\ bytes \in Seq(Bytes) /\ more \in Seq(Bytes) /\ q \in Nat /\ Len(bytes) \in Nat
      /\ lo \in Nat /\ lo \in 2 .. Len(bytes) /\ Len(more) = Len(bytes) + q
  BY DEF Further
<1>2. ASSUME NEW o \in lo .. Len(bytes)
      PROVE  \/ f[o] = g[o + q]
             \/ \E e \in o + 1 .. Len(bytes) : \E p :
                    f[o] = Before(p, f[e]) /\ g[o + q] = Before(p, g[e + q])
  <2>1. o \in 0 .. Len(bytes) /\ o + q \in 0 .. Len(more)
    BY <1>1
  <2>2. f[o] = IF JpegNext(bytes, o) = 0 THEN JpegStop(bytes, o)
               ELSE Before(JpegPiece(bytes, o), f[JpegNext(bytes, o)])
    BY <2>1 DEF JpegWalk
  <2>3. PICK oo : oo = o + q
    OBVIOUS
  <2>4. g[oo] = IF JpegNext(more, oo) = 0 THEN JpegStop(more, oo)
                ELSE Before(JpegPiece(more, oo), g[JpegNext(more, oo)])
    BY <2>1, <2>3 DEF JpegWalk
  <2>5. CASE JpegNext(bytes, o) = 0
    BY <2>2, <2>3, <2>4, <2>5, StepFurther
  <2>6. CASE JpegNext(bytes, o) # 0
    <3>1. PICK e : e = JpegNext(bytes, o)
      OBVIOUS
    <3>2. e \in o + 1 .. Len(bytes)
      BY <1>1, <2>1, <2>6, <3>1, JpegOnward
    <3>3. e + q # 0
      BY <1>1, <3>2
    <3>4. JpegNext(more, oo) = e + q /\ JpegPiece(more, oo) = JpegPiece(bytes, o)
      BY <2>3, <2>6, <3>1, StepFurther
    <3>5. f[o] = Before(JpegPiece(bytes, o), f[e]) /\ g[oo] = Before(JpegPiece(bytes, o), g[e + q])
      BY <2>2, <2>4, <2>6, <3>1, <3>3, <3>4
    <3> QED
      BY <2>3, <3>2, <3>5
  <2> QED
    BY <2>5, <2>6
<1>3. StepsAlike(lo, Len(bytes), q, f, g)
  BY <1>2 DEF StepsAlike
<1>4. lo \in lo .. Len(bytes)
  BY <1>1
<1> QED
  BY <1>1, <1>3, <1>4, WalksAgree

(* A segment of metadata makes no difference, wherever it lies. *)
LEMMA JpegMetadataGoes ==
    ASSUME NEW bytes, Started(bytes), NEW o \in 2 .. Len(bytes), NEW e \in 2 .. Len(bytes),
           JpegMetadataAt(bytes, o, e)
    PROVE  StripJpeg(Without(bytes, o, e)) = StripJpeg(bytes)
<1>1. PICK less, q, n : less = Without(bytes, o, e) /\ q = e - o /\ n = Len(bytes)
  OBVIOUS
<1>2. bytes \in Seq(Bytes) /\ n \in Nat /\ o \in Nat /\ e \in Nat /\ 2 <= o /\ e <= n
  BY <1>1 DEF Started
<1>3. PICK m : SegmentBy(bytes, JpegMetadata, o, e, m)
  BY DEF JpegMetadataAt, IsSegment, SegmentBy
<1>4. o < e
  BY <1>2, <1>3, SegmentScanned
<1>5. /\ less \in Seq(Bytes) /\ Len(less) = n - q /\ q \in Nat /\ o + q = e
      /\ \A i \in 1 .. o : less[i] = bytes[i]
      /\ \A i \in o + 1 .. Len(less) : bytes[i + q] = less[i]
  <2>1. o \in 0 .. Len(bytes) /\ e \in o .. Len(bytes)
    BY <1>1, <1>2, <1>4
  <2>2. q \in Nat /\ o + q = e
    BY <1>1, <1>2, <1>4
  <2>3. Shortened(Bytes, bytes, o, e, less)
    BY Zenon, <1>1, <1>2, <2>1, WithoutIs
  <2> QED
    BY <1>1, <1>2, <2>1, <2>2, <2>3 DEF Shortened
<1>6. n - q \in Nat /\ o <= n - q
  BY <1>2, <1>5
<1>7. Started(less)
  <2>1. 1 \in 1 .. o /\ 2 \in 1 .. o /\ n - q >= 2
    BY <1>2, <1>6
  <2> QED
    BY <1>5, <2>1 DEF Started
<1>8. Further(less, bytes, o, q)
  <2>1. o \in 2 .. n - q /\ n = (n - q) + q
    BY <1>2, <1>5, <1>6
  <2> QED
    BY <1>1, <1>2, <1>5, <2>1 DEF Further
<1>9. PICK f : JpegWalk(less, f) /\ StripJpeg(less) = Before(<<FF, SOI>>, f[2])
  BY <1>7, JpegOf
<1>10. PICK g : JpegWalk(bytes, g) /\ StripJpeg(bytes) = Before(<<FF, SOI>>, g[2])
  BY JpegOf
<1>11. f[o] = g[o]
  <2>1. f[o] = g[o + q]
    <3>1. JpegWalk(less, f) /\ JpegWalk(bytes, g)
      BY <1>9, <1>10
    <3> QED
      BY SMTT(40), <1>8, <3>1, JpegAgree
  <2>2. bytes[m + 1] \in JpegMetadata
    BY <1>3 DEF SegmentBy
  <2>3. g[o] = Before(<< >>, g[e])
    BY <1>2, <1>3, <1>10, <2>2, JpegStep
  <2>4. e \in 0 .. Len(bytes)
    BY <1>1, <1>2
  <2>5. g[e] \in Outcomes(Bytes)
    BY <1>2, <1>10, <2>4, JpegTyped
  <2> QED
    BY <1>5, <2>1, <2>3, <2>5, BeforeNothing
<1>12. PICK cuts \in SUBSET {c \in 2 .. o - 1 : bytes[c + 1] = FF} :
            /\ 2 \in cuts \cup {o}
            /\ \A c \in cuts : \E d \in cuts \cup {o} : IsSegment(bytes, 0 .. 255, c, d)
  BY DEF JpegMetadataAt, Begins
<1> DEFINE Bad == {c \in cuts \cup {o} : f[c] # g[c]}
<1>13. ASSUME NEW c \in Bad PROVE \E d \in Bad : c < d
  <2>1. c \in cuts /\ c \in 2 .. o - 1
    BY <1>11
  <2>2. PICK d \in cuts \cup {o} : IsSegment(bytes, 0 .. 255, c, d)
    BY <1>12, <2>1
  <2>3. /\ d \in Nat /\ d <= o /\ c \in 2 .. n /\ d \in 2 .. n /\ c \in 2 .. n - q /\ d \in 2 .. n - q
        /\ c \in Nat /\ \A i \in 1 .. d : i \in 1 .. o
    <3>1. d \in 2 .. o
      BY <1>2
    <3> QED
      BY <1>2, <1>4, <1>6, <2>1, <3>1
  <2>4. PICK k : SegmentBy(bytes, 0 .. 255, c, d, k)
    BY <2>2 DEF IsSegment, SegmentBy
  <2>5. \A i \in 1 .. d : less[i] = bytes[i]
    BY <1>5, <2>3
  <2>6. SegmentBy(less, 0 .. 255, c, d, k)
    BY <2>3, <2>4, <2>5, SegmentCopied
  <2>7. /\ g[c] = Before(IF bytes[k + 1] \in JpegMetadata THEN << >> ELSE Slice(bytes, c, d), g[d])
        /\ c < d /\ k + 1 \in 1 .. d
    BY <1>1, <1>2, <1>10, <2>3, <2>4, JpegStep
  <2>8. f[c] = Before(IF less[k + 1] \in JpegMetadata THEN << >> ELSE Slice(less, c, d), f[d])
    BY SMTT(40), <1>5, <1>9, <2>3, <2>6, JpegStep
  <2>9. Slice(less, c, d) = Slice(bytes, c, d)
    <3>1. d \in c .. Len(bytes) /\ d <= Len(less)
      BY <1>1, <1>5, <2>3, <2>7
    <3> QED
      BY <1>2, <1>5, <2>3, <2>5, <3>1, SliceCopied
  <2>10. f[c] # g[c] /\ less[k + 1] = bytes[k + 1]
    BY <2>5, <2>7
  <2>11. f[d] # g[d]
    BY <2>7, <2>8, <2>9, <2>10
  <2> QED
    BY <2>7, <2>11
<1>14. Bad \in SUBSET (2 .. o) /\ 2 \in Nat
  <2>1. cuts \cup {o} \subseteq 2 .. o
    BY <1>2
  <2> QED
    BY <2>1
<1>15. Bad = {}
  <2> HIDE DEF Bad
  <2> QED
    BY <1>2, <1>13, <1>14, Nowhere
<1>16. f[2] = g[2]
  BY <1>12, <1>15
<1> QED
  BY <1>1, <1>9, <1>10, <1>16

(* A JPEG begins with nothing, and goes on with a segment. *)
LEMMA JpegBegins ==
    ASSUME NEW bytes
    PROVE  /\ Begins(bytes, 2)
           /\ \A o, e \in Nat : \A m : Begins(bytes, o) /\ SegmentBy(bytes, 0 .. 255, o, e, m) /\ 2 <= o
                  => Begins(bytes, e)
<1>1. Begins(bytes, 2)
  <2>1. {} \in SUBSET {c \in 2 .. 2 - 1 : bytes[c + 1] = FF} /\ 2 \in {} \cup {2}
    OBVIOUS
  <2> QED
    BY <2>1 DEF Begins
<1>2. ASSUME NEW o \in Nat, NEW e \in Nat, NEW m,
             Begins(bytes, o), SegmentBy(bytes, 0 .. 255, o, e, m), 2 <= o
      PROVE  Begins(bytes, e)
  <2>1. PICK cuts \in SUBSET {c \in 2 .. o - 1 : bytes[c + 1] = FF} :
            /\ 2 \in cuts \cup {o}
            /\ \A c \in cuts : \E d \in cuts \cup {o} : IsSegment(bytes, 0 .. 255, c, d)
    BY <1>2 DEF Begins
  <2>2. m \in o + 1 .. e - 1 /\ \A q \in o .. m - 1 : bytes[q + 1] = FF
    BY <1>2 DEF SegmentBy
  <2>3. o < e /\ bytes[o + 1] = FF /\ o \in 2 .. e - 1
    BY <1>2, <2>2
  <2>4. PICK more : more = cuts \cup {o}
    OBVIOUS
  <2>5. more \in SUBSET {c \in 2 .. e - 1 : bytes[c + 1] = FF}
    BY <2>3, <2>4
  <2>6. IsSegment(bytes, 0 .. 255, o, e)
    BY <1>2 DEF IsSegment, SegmentBy
  <2>7. \A c \in more : \E d \in more \cup {e} : IsSegment(bytes, 0 .. 255, c, d)
    BY <2>1, <2>4, <2>6
  <2> QED
    BY <2>1, <2>4, <2>5, <2>7 DEF Begins
<1> QED
  BY <1>1, <1>2

(* Without metadata all of it is kept. *)
LEMMA JpegPlain ==
    ASSUME NEW bytes, Started(bytes), \A o, e \in 2 .. Len(bytes) : ~JpegMetadataAt(bytes, o, e)
    PROVE  StripJpeg(bytes) \in {Refused, Kept(bytes)}
<1> DEFINE T == [o \in 0 .. Len(bytes) |-> SubSeq(bytes, o + 1, Len(bytes))]
<1> HIDE DEF T
<1>1. bytes \in Seq(Bytes) /\ Len(bytes) \in Nat /\ Len(bytes) >= 2 /\ 2 \in 0 .. Len(bytes)
  BY DEF Started
<1>2. PICK f : JpegWalk(bytes, f) /\ StripJpeg(bytes) = Before(<<FF, SOI>>, f[2])
  BY JpegOf
<1> DEFINE Bad == {o \in 2 .. Len(bytes) : Begins(bytes, o) /\ f[o] \notin {Refused, Kept(T[o])}}
<1>3. ASSUME NEW o \in Bad PROVE \E e \in Bad : o < e
  <2>1. o \in 2 .. Len(bytes) /\ o \in 0 .. Len(bytes) /\ Begins(bytes, o) /\ f[o] \notin {Refused, Kept(T[o])}
    OBVIOUS
  <2>2. PICK m, e : m = PastFill(bytes, o) /\ e = JpegNext(bytes, o)
    OBVIOUS
  <2>3. T[o] = Slice(bytes, o, Len(bytes))
    BY <2>1 DEF Slice, T
  <2>4. e # 0
    <3> SUFFICES ASSUME e = 0 PROVE FALSE
      OBVIOUS
    <3>1. f[o] = JpegStop(bytes, o)
      BY <1>2, <2>1, <2>2 DEF JpegWalk
    <3>2. m + 1 = Len(bytes) => Slice(bytes, o, m + 1) = Slice(bytes, o, Len(bytes))
      OBVIOUS
    <3>3. JpegStop(bytes, o) \in {Refused, Kept(T[o])}
      BY <2>2, <2>3, <3>2 DEF JpegStop
    <3> QED
      BY <2>1, <3>1, <3>3
  <2>5. e \in o + 1 .. Len(bytes)
    BY <1>1, <2>1, <2>2, <2>4, JpegOnward
  <2>6. e \in 2 .. Len(bytes) /\ e \in 0 .. Len(bytes) /\ o < e /\ o \in Nat /\ e \in Nat /\ 2 <= o
    BY <1>1, <2>1, <2>5
  <2>7. SegmentBy(bytes, 0 .. 255, o, e, m)
    BY <1>1, <2>1, <2>2, <2>4, ScannedSegment
  <2>8. Begins(bytes, e)
    BY <2>1, <2>6, <2>7, JpegBegins
  <2>9. bytes[m + 1] \notin JpegMetadata
    <3> SUFFICES ASSUME bytes[m + 1] \in JpegMetadata PROVE FALSE
      OBVIOUS
    <3>1. IsSegment(bytes, JpegMetadata, o, e)
      BY <2>7 DEF SegmentBy, IsSegment
    <3> QED
      BY <2>1, <2>6, <3>1 DEF JpegMetadataAt
  <2>10. f[o] = Before(Slice(bytes, o, e), f[e])
    BY <1>1, <1>2, <2>1, <2>6, <2>7, <2>9, JpegStep
  <2>11. Slice(bytes, o, e) \o T[e] = T[o]
    <3>1. SubSeq(bytes, o + 1, e) \o SubSeq(bytes, e + 1, Len(bytes)) = SubSeq(bytes, o + 1, Len(bytes))
      <4>1. o + 1 \in 1 .. Len(bytes) + 1 /\ e \in (o + 1) - 1 .. Len(bytes) /\ Len(bytes) \in e .. Len(bytes)
        BY <1>1, <2>1, <2>6
      <4> QED
        BY Zenon, <1>1, <4>1, ConcatAdjacentSubSeq
    <3> QED
      BY <2>1, <2>6, <3>1 DEF Slice, T
  <2>12. f[e] \notin {Refused, Kept(T[e])}
    <3> SUFFICES ASSUME f[e] \in {Refused, Kept(T[e])} PROVE f[o] \in {Refused, Kept(T[o])}
      BY <2>1
    <3>1. CASE f[e] = Refused
      BY <2>10, <3>1, OutcomesApart
    <3>2. CASE f[e] = Kept(T[e])
      <4>1. f[o] = Kept(Slice(bytes, o, e) \o T[e])
        BY <2>10, <3>2, OutcomesApart
      <4> QED
        BY <2>11, <4>1
    <3> QED
      BY <3>1, <3>2
  <2> QED
    BY <2>6, <2>8, <2>12
<1>4. Bad \in SUBSET (2 .. Len(bytes)) /\ 2 \in Nat
  OBVIOUS
<1>5. Bad = {}
  <2> HIDE DEF Bad
  <2> QED
    BY <1>1, <1>3, <1>4, Nowhere
<1>6. f[2] \in {Refused, Kept(T[2])}
  BY <1>1, <1>5, JpegBegins
<1>7. <<FF, SOI>> \o T[2] = bytes
  <2>1. T[2] = SubSeq(bytes, 3, Len(bytes))
    BY <1>1 DEF T
  <2>2. PICK t : t = <<FF, SOI>> \o SubSeq(bytes, 3, Len(bytes))
    OBVIOUS
  <2>3. FF \in Bytes /\ SOI \in Bytes
    BY DEF FF, SOI, Bytes
  <2>4. t \in Seq(Bytes) /\ Len(t) = Len(bytes) /\ \A i \in 1 .. Len(t) : t[i] = bytes[i]
    BY <1>1, <2>2, <2>3 DEF Started
  <2>5. t = bytes
    BY <1>1, <2>4, SeqEqual
  <2> QED
    BY <2>1, <2>2, <2>5
<1>8. Before(<<FF, SOI>>, f[2]) \in {Refused, Kept(bytes)}
  BY <1>6, <1>7, OutcomesApart
<1> QED
  BY <1>2, <1>8

(* Where the scan begins or the picture ends, the code goes no further and *)

(* keeps the rest; there alone.                                            *)
LEMMA StopsThere ==
    ASSUME NEW bytes \in Seq(Bytes), NEW o \in 2 .. Len(bytes)
    PROVE  ScanOrEnd(bytes, o) <=> JpegNext(bytes, o) = 0 /\ JpegStop(bytes, o) # Refused
<1>1. PICK n : n = Len(bytes)
  OBVIOUS
<1>2. n \in Nat /\ o \in Nat /\ o \in 0 .. n /\ o <= n
  BY <1>1
<1>3. ASSUME NEW m \in o + 1 .. n - 1, \A q \in o .. m - 1 : bytes[q + 1] = FF,
             bytes[m + 1] = SOS \/ (bytes[m + 1] = EOI /\ m + 1 = n)
      PROVE  JpegNext(bytes, o) = 0 /\ JpegStop(bytes, o) # Refused
  <2>1. m \in o .. n /\ m # n /\ o # n /\ o \in o .. m - 1
    BY <1>2
  <2>2. bytes[m + 1] # FF
    BY <1>3 DEF SOS, EOI, FF
  <2>3. IsPast(bytes, o, m)
    BY <1>1, <1>3, <2>1, <2>2 DEF IsPast
  <2>4. PastFill(bytes, o) = m
    BY <1>1, <1>2, <2>3, PastOnly
  <2>5. bytes[o + 1] = FF
    BY <1>3, <2>1
  <2>6. JpegNext(bytes, o) = 0
    BY <1>3, <2>4 DEF JpegNext
  <2>7. JpegStop(bytes, o) # Refused
    BY <1>1, <1>3, <2>1, <2>4, <2>5, OutcomesApart DEF JpegStop
  <2> QED
    BY <2>6, <2>7
<1>4. ASSUME JpegStop(bytes, o) # Refused PROVE ScanOrEnd(bytes, o)
  <2>1. PICK m : m = PastFill(bytes, o)
    OBVIOUS
  <2>2. /\ o # n /\ bytes[o + 1] = FF /\ m # n
        /\ bytes[m + 1] = SOS \/ (bytes[m + 1] = EOI /\ m + 1 = n)
    BY <1>1, <1>4, <2>1 DEF JpegStop
  <2>3. m \in o .. n /\ \A q \in o .. m - 1 : bytes[q + 1] = FF
    BY <1>1, <1>2, <2>1, PastIs DEF IsPast
  <2>4. m # o
    BY <2>2 DEF SOS, EOI, FF
  <2>5. m \in o + 1 .. n - 1
    BY <1>2, <2>2, <2>3, <2>4
  <2> QED
    BY <1>1, <2>2, <2>3, <2>5 DEF ScanOrEnd
<1> QED
  BY <1>1, <1>3, <1>4 DEF ScanOrEnd

(* A JPEG whose segments lead to the scan or to the end. *)
JpegComplete(bytes) == \E o \in 2 .. Len(bytes) : ScanOrEnd(bytes, o) /\ Begins(bytes, o)

(* Only such a one is accepted. *)
LEMMA JpegAccepted ==
    ASSUME NEW bytes, Started(bytes)
    PROVE  StripJpeg(bytes) # Refused <=> JpegComplete(bytes)
<1>1. bytes \in Seq(Bytes) /\ Len(bytes) \in Nat /\ Len(bytes) >= 2 /\ 2 \in 2 .. Len(bytes) /\ 2 \in Nat
  BY DEF Started
<1>2. PICK f : JpegWalk(bytes, f) /\ StripJpeg(bytes) = Before(<<FF, SOI>>, f[2])
  BY JpegOf
<1>3. ASSUME NEW o \in 2 .. Len(bytes), ScanOrEnd(bytes, o), Begins(bytes, o) PROVE f[2] # Refused
  <2>1. PICK cuts \in SUBSET {c \in 2 .. o - 1 : bytes[c + 1] = FF} :
            /\ 2 \in cuts \cup {o}
            /\ \A c \in cuts : \E d \in cuts \cup {o} : IsSegment(bytes, 0 .. 255, c, d)
    BY <1>3 DEF Begins
  <2>2. f[o] # Refused
    <3>1. JpegNext(bytes, o) = 0 /\ JpegStop(bytes, o) # Refused /\ o \in 0 .. Len(bytes)
      BY <1>1, <1>3, StopsThere
    <3> QED
      BY <1>2, <3>1 DEF JpegWalk
  <2> DEFINE Bad == {c \in cuts \cup {o} : f[c] = Refused}
  <2>3. ASSUME NEW c \in Bad PROVE \E d \in Bad : c < d
    <3>1. c \in cuts
      BY <2>2
    <3>2. PICK d \in cuts \cup {o} : IsSegment(bytes, 0 .. 255, c, d)
      BY <2>1, <3>1
    <3>3. PICK k : SegmentBy(bytes, 0 .. 255, c, d, k)
      BY <3>2 DEF IsSegment, SegmentBy
    <3>4. c \in 2 .. Len(bytes) /\ d \in 2 .. Len(bytes)
      <4>1. c \in 2 .. o /\ d \in 2 .. o
        OBVIOUS
      <4> QED
        BY <1>1, <4>1
    <3>5. c < d /\ \E p : f[c] = Before(p, f[d])
      BY <1>1, <1>2, <3>3, <3>4, JpegStep
    <3>6. f[d] = Refused
      BY <3>5, BeforeRefused
    <3> QED
      BY <3>5, <3>6
  <2>4. Bad \in SUBSET (2 .. o) /\ o \in Nat
    <3>1. cuts \cup {o} \subseteq 2 .. o /\ o \in Nat
      BY <1>1
    <3> QED
      BY <3>1
  <2>5. Bad = {}
    <3> HIDE DEF Bad
    <3> QED
      BY <1>1, <2>3, <2>4, Nowhere
  <2> QED
    BY <2>1, <2>5
<1>4. ASSUME ~JpegComplete(bytes) PROVE f[2] = Refused
  <2> DEFINE Bad == {o \in 2 .. Len(bytes) : Begins(bytes, o) /\ f[o] # Refused}
  <2>1. ASSUME NEW o \in Bad PROVE \E e \in Bad : o < e
    <3>1. PICK e : e = JpegNext(bytes, o)
      OBVIOUS
    <3>2. o \in 2 .. Len(bytes) /\ o \in 0 .. Len(bytes) /\ o \in Nat /\ 2 <= o
      BY <1>1
    <3>3. f[o] = IF e = 0 THEN JpegStop(bytes, o) ELSE Before(JpegPiece(bytes, o), f[e])
      BY <1>2, <3>1, <3>2 DEF JpegWalk
    <3>4. e # 0
      BY <1>1, <1>4, <3>1, <3>2, <3>3, StopsThere DEF JpegComplete
    <3>5. e \in o + 1 .. Len(bytes)
      BY <1>1, <3>1, <3>2, <3>4, JpegOnward
    <3>6. e \in 2 .. Len(bytes) /\ e \in Nat /\ o < e
      BY <1>1, <3>2, <3>5
    <3>7. Begins(bytes, e)
      BY <1>1, <3>1, <3>2, <3>4, <3>6, ScannedSegment, JpegBegins
    <3>8. f[e] # Refused
      BY <3>3, <3>4, BeforeRefused
    <3> QED
      BY <3>6, <3>7, <3>8
  <2>2. Bad \in SUBSET (2 .. Len(bytes))
    OBVIOUS
  <2>3. Bad = {}
    <3> HIDE DEF Bad
    <3> QED
      BY <1>1, <2>1, <2>2, Nowhere
  <2> QED
    BY <1>1, <2>3, JpegBegins
<1>5. f[2] = Refused <=> StripJpeg(bytes) = Refused
  BY <1>2, BeforeRefused
<1> QED
  BY <1>3, <1>4, <1>5 DEF JpegComplete

(* The bodies that are grown. *)
BodyOK ==
    /\ format \in {"jpeg", "png", "webp"}
    /\ format = "jpeg" => Started(body)
    /\ format = "png" => body \in Seq(PngChunks)
    /\ format = "webp" => body \in Seq(WebpChunks)

(* What is uploaded is of its format. *)
LEMMA BodiesGrown == SanitizerSpec => []BodyOK
<1>1. SanitizerInit => BodyOK
  <2>1. FF \in Bytes /\ SOI \in Bytes
    BY DEF FF, SOI, Bytes
  <2>2. Started(<<FF, SOI>>)
    BY <2>1 DEF Started
  <2>3. << >> \in Seq(PngChunks) /\ << >> \in Seq(WebpChunks)
    OBVIOUS
  <2> QED
    BY <2>2, <2>3 DEF SanitizerInit, BodyOK
<1>2. BodyOK /\ [SanitizerNext]_sanitizerVars => BodyOK'
  <2> SUFFICES ASSUME BodyOK, [SanitizerNext]_sanitizerVars PROVE BodyOK'
    OBVIOUS
  <2>1. CASE Grow("jpeg", JpegPieces, MaxBytes)
    <3>1. PICK piece \in JpegPieces : body' = body \o piece
      BY <2>1 DEF Grow
    <3>2. piece \in Seq(Bytes)
      BY SanitizerAssumption DEF SanitizerAssumption, Bytes
    <3>3. format = "jpeg" /\ format' = "jpeg" /\ Started(body)
      BY <2>1 DEF Grow, BodyOK
    <3>4. Started(body')
      <4>1. body \in Seq(Bytes) /\ Len(body) \in Nat /\ Len(body) >= 2 /\ body[1] = FF /\ body[2] = SOI
        BY <3>3 DEF Started
      <4>2. 1 \in 1 .. Len(body) /\ 2 \in 1 .. Len(body)
        BY <4>1
      <4>3. /\ body \o piece \in Seq(Bytes) /\ Len(body \o piece) = Len(body) + Len(piece)
            /\ Len(piece) \in Nat /\ \A i \in 1 .. Len(body) : (body \o piece)[i] = body[i]
        BY <3>2, <4>1, Joined
      <4> QED
        BY <3>1, <4>1, <4>2, <4>3 DEF Started
    <3> QED
      BY <3>3, <3>4 DEF BodyOK
  <2>2. CASE Grow("png", {<<chunk>> : chunk \in PngChunks}, MaxChunks)
    <3>1. PICK chunk \in PngChunks : body' = body \o <<chunk>>
      BY <2>2 DEF Grow
    <3>2. format = "png" /\ format' = "png" /\ body \in Seq(PngChunks)
      BY <2>2 DEF Grow, BodyOK
    <3> QED
      BY <3>1, <3>2 DEF BodyOK
  <2>3. CASE Grow("webp", {<<chunk>> : chunk \in WebpChunks}, MaxChunks)
    <3>1. PICK chunk \in WebpChunks : body' = body \o <<chunk>>
      BY <2>3 DEF Grow
    <3>2. format = "webp" /\ format' = "webp" /\ body \in Seq(WebpChunks)
      BY <2>3 DEF Grow, BodyOK
    <3> QED
      BY <3>1, <3>2 DEF BodyOK
  <2>4. CASE UNCHANGED sanitizerVars
    BY <2>4 DEF sanitizerVars, BodyOK
  <2> QED
    BY <2>1, <2>2, <2>3, <2>4 DEF SanitizerNext
<1> QED
  BY <1>1, <1>2, PTL DEF SanitizerSpec

(* Pictures: without a piece of metadata, or its announcement, a picture   *)

(* is accepted just when it was and stored as the same; and one without    *)
(* metadata is stored as it was sent, if it is whole, and else refused.    *)
THEOREM MetadataAloneGoes == SanitizerSpec => []OnlyMetadataGoes
<1>1. ASSUME BodyOK PROVE OnlyMetadataGoes
  <2>1. CASE format = "jpeg"
    <3>1. Started(body) /\ \A b : Strip(b) = StripJpeg(b)
      BY <1>1, <2>1 DEF BodyOK, Strip
    <3>2. MetadataMakesNoDifference
      BY <2>1, <3>1, JpegMetadataGoes DEF MetadataMakesNoDifference
    <3>3. Plain => StripJpeg(body) \in {Refused, Kept(body)}
      BY <2>1, <3>1, JpegPlain DEF Plain
    <3>4. Complete <=> StripJpeg(body) # Refused
      BY <2>1, <3>1, JpegAccepted DEF Complete, JpegComplete
    <3>5. PlainIsKept
      BY <3>1, <3>3, <3>4 DEF PlainIsKept
    <3> QED
      BY <3>2, <3>5 DEF OnlyMetadataGoes
  <2>2. CASE format = "png"
    <3>1. body \in Seq(PngChunks) /\ DOMAIN body = 1 .. Len(body) /\ \A b : Strip(b) = StripPng(b)
      BY <1>1, <2>2 DEF BodyOK, Strip
    <3>2. MetadataMakesNoDifference
      BY <2>2, <3>1, PngMetadataGoes DEF MetadataMakesNoDifference
    <3>3. Plain => StripPng(body) \in {Refused, Kept(body)}
      BY <2>2, <3>1, PngPlain DEF Plain
    <3>4. Complete <=> StripPng(body) # Refused
      BY <2>2, <3>1, PngAccepted DEF Complete, PngComplete
    <3>5. PlainIsKept
      BY <3>1, <3>3, <3>4 DEF PlainIsKept
    <3> QED
      BY <3>2, <3>5 DEF OnlyMetadataGoes
  <2>3. CASE format = "webp"
    <3>1. body \in Seq(WebpChunks) /\ DOMAIN body = 1 .. Len(body) /\ \A b : Strip(b) = StripWebp(b)
      BY <1>1, <2>3 DEF BodyOK, Strip
    <3>2. \A i \in DOMAIN body : body[i] = [kind |-> body[i].kind, flags |-> body[i].flags]
      BY <3>1, SanitizerAssumption DEF SanitizerAssumption
    <3>3. \A i \in DOMAIN body :
            /\ body[i].kind \in WebpMetadata => StripWebp(Without(body, i - 1, i)) = StripWebp(body)
            /\ body[i].kind = "VP8X" => StripWebp([body EXCEPT ![i] = Unannounced(@)]) = StripWebp(body)
      BY <3>1, <3>2, WebpMetadataGoes, WebpUnannounced
    <3>4. MetadataMakesNoDifference
      BY <2>3, <3>1, <3>3 DEF MetadataMakesNoDifference
    <3>5. Plain => StripWebp(body) \in {Refused, Kept(body)}
      BY <2>3, <3>1, <3>2, WebpPlain DEF Plain
    <3>6. Complete <=> StripWebp(body) # Refused
      BY <2>3, <3>1, WebpAccepted DEF Complete
    <3>7. PlainIsKept
      BY <3>1, <3>5, <3>6 DEF PlainIsKept
    <3> QED
      BY <3>4, <3>7 DEF OnlyMetadataGoes
  <2> QED
    BY <1>1, <2>1, <2>2, <2>3 DEF BodyOK
<1> QED
  BY <1>1, BodiesGrown, PTL
=============================================================================
