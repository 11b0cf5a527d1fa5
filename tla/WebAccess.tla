----------------------------- MODULE WebAccess ------------------------------
(***************************************************************************)
(* Who may change what over the web: the cookie check of src/server/       *)
(* auth.rs, the admin and origin guards of src/server/ratelimit.rs around  *)
(* the routes of build_web_router (src/server/mod.rs), the badges that     *)
(* make an administrator (src/db/badges.rs), and the tables users and      *)
(* revoked_sessions (src/db/users.rs) that decide about a cookie.          *)
(*                                                                         *)
(* Signing in, signing out and a new password are calls of the separate    *)
(* frontend into the same tables.  A cookie is what it signs: the user,    *)
(* the second it was issued and the password of that moment.  Every query  *)
(* of a request is a step, and other requests run between two of them.     *)
(***************************************************************************)
EXTENDS Integers, Sequences, FiniteSets

CONSTANTS
    Users,
    Operator,       \* the user whose admin badge the operator set by hand
    Nobody,
    Seeded,         \* the tags of the badges the database begins with
    Tags,           \* the tags of new badges
    Files,          \* names of background images
    OwnHosts,       \* hosts is_trusted_origin_or_host accepts
    OtherHosts,
    NoHost,         \* the header is missing or not a URL
    Ttl,            \* SESSION_TTL_SECONDS
    Clients,        \* requests that may be under way at once
    MaxTime,        \* bound of the model: seconds
    MaxPassword,    \* bound of the model: changes of a password
    MaxBadges       \* bound of the model: badges

ASSUME WebAccessAssumption ==
    /\ Seeded \in Seq(Tags \cup {"AM"})
    /\ Operator \in Users /\ Nobody \notin Users
    /\ NoHost \notin OwnHosts \cup OtherHosts
    /\ OwnHosts \cap OtherHosts = {}
    /\ Ttl \in Nat \ {0} /\ MaxTime \in Nat /\ MaxPassword \in Nat /\ MaxBadges \in Nat

VARIABLES
    now,
    password,       \* password[u]: which password u has
    revoked,        \* table revoked_sessions: [token, until]
    badges,         \* table badges: the tag of each
    awards,         \* table user_badges: pairs of user and badge
    backgrounds,    \* files in the directory of backgrounds
    client,         \* client[c]: the request of c and where it is
    power           \* history: power[c]: the sender was admin at some time of the request

vars == <<now, password, revoked, badges, awards, backgrounds, client, power>>

tables == <<password, revoked, badges, awards, backgrounds>>

-----------------------------------------------------------------------------
Token == [user : Users, issued : 0 .. MaxTime, password : 0 .. MaxPassword]

NoToken == [user |-> Nobody, issued |-> 0, password |-> 0]

Routes == {<<"POST", "badges/create">>, <<"POST", "badges/award">>, <<"POST", "badges/revoke">>,
           <<"POST", "backgrounds/upload">>, <<"POST", "backgrounds/delete">>,
           <<"DELETE", "backgrounds/file">>, <<"GET", "chat/history">>,
           <<"POST", "profile">>, <<"GET", "badges">>}

(* Mutant: deleting by DELETE is forgotten. *)
IsAdminRouteByPath(r) ==
    r[2] \in {"badges/create", "badges/award", "badges/revoke",
              "backgrounds/upload", "backgrounds/delete", "chat/history"}

(* admin_local_guard_middleware *)
IsAdminRoute(r) ==
    \/ r[2] \in {"badges/create", "badges/award", "badges/revoke",
                 "backgrounds/upload", "backgrounds/delete", "chat/history"}
    \/ r = <<"DELETE", "backgrounds/file">>

(* csrf_guard_middleware: which requests, and whether their origin will do *)
BrowserMutation(r) == r[1] # "GET"

FromHere(origin, referer, cross) ==
    IF origin # NoHost THEN origin \in OwnHosts
    ELSE IF referer # NoHost THEN referer \in OwnHosts
    ELSE ~cross

Hosts == OwnHosts \cup OtherHosts \cup {NoHost}

Origins == {FromHere(origin, referer, cross) : origin, referer \in Hosts, cross \in BOOLEAN}

HoldsAM(u) == \E b \in DOMAIN badges : badges[b] = "AM" /\ <<u, b>> \in awards

Idle == [step |-> "idle"]

At(c, step) == client[c].step = step

Goes(c, r) == client' = [client EXCEPT ![c] = r]

Moves(c, step) == Goes(c, [client[c] EXCEPT !.step = step])

SentBy(c, u) == ~At(c, "idle") /\ client[c].token.user = u

Done(c) == Goes(c, Idle)

Signed(t) == t # NoToken

(* session_expires_at *)
Expires(t) == t.issued + Ttl

(* the frontend signed it, with the password of that moment *)
Issued(t) == Signed(t) => t.issued <= now /\ t.password <= password[t.user]

-----------------------------------------------------------------------------
(* The frontend *)

Tick ==
    /\ now < MaxTime
    /\ now' = now + 1
    /\ UNCHANGED <<tables, client, power>>

(* update_user_password *)
ChangePassword(u) ==
    /\ password[u] < MaxPassword
    /\ password' = [password EXCEPT ![u] = @ + 1]
    /\ UNCHANGED <<now, revoked, badges, awards, backgrounds, client, power>>

(* revoke_session of a cookie, until it expires *)
SignOut(c, t) ==
    /\ At(c, "idle") /\ Issued(t)
    /\ Goes(c, [step |-> "insert", token |-> t])
    /\ revoked' = {r \in revoked : r.until > now}
    /\ UNCHANGED <<now, password, badges, awards, backgrounds, power>>

InsertRevoked(c) ==
    /\ At(c, "insert")
    /\ revoked' = revoked \cup {[token |-> client[c].token, until |-> Expires(client[c].token)]}
    /\ Done(c)
    /\ UNCHANGED <<now, password, badges, awards, backgrounds, power>>

-----------------------------------------------------------------------------
(* A request, from guard to guard *)

Afterwards(c) == IF client[c].route[2] = "profile" THEN "changes" ELSE "badge"

Handed(q) == IF BrowserMutation(q.route) /\ ~q.here THEN Idle ELSE [q EXCEPT !.step = "handler"]

(* what the request names besides its route *)
Arguments(path) ==
    CASE path \in {"badges/award", "badges/revoke"} -> Users \X (1 .. MaxBadges)
      [] path = "badges/create" -> Tags
      [] path \in {"backgrounds/upload", "backgrounds/delete", "backgrounds/file"} -> Files
      [] OTHER -> {Nobody}

(* What the properties need to know of a request: at its arrival the       *)
(* cookie had been signed out (out), or its password was the user's no     *)
(* more (old).                                                             *)
SignedOut(t) == \E r \in revoked : r.token = t

Outdated(t) == Signed(t) /\ t.password # password[t.user]

Arrive(c, route, t, here, arg) ==
    /\ At(c, "idle") /\ Issued(t)
    /\ LET q == [step |-> "revoked", route |-> route, token |-> t, here |-> here, arg |-> arg,
                 out |-> SignedOut(t), old |-> Outdated(t)]
       IN  IF IsAdminRoute(route) THEN Goes(c, q)
           ELSE IF route[2] # "profile" THEN Goes(c, Handed(q))
           ELSE IF Handed(q) # Idle THEN Goes(c, q) ELSE Done(c)
    /\ power' = [power EXCEPT ![c] = Signed(t) /\ HoldsAM(t.user)]
    /\ UNCHANGED <<now, tables>>

(* is_session_revoked; a database error counts as revoked *)
IsRevoked(t) == \E r \in revoked : r.token = t /\ r.until > now

CheckRevoked(c) ==
    /\ At(c, "revoked")
    /\ \/ Signed(client[c].token) /\ ~IsRevoked(client[c].token) /\ Moves(c, "user")
       \/ Done(c)
    /\ UNCHANGED <<now, tables, power>>

(* Mutant: the signature does not cover the password. *)
VerifySessionByTime(t) == now - t.issued <= Ttl

(* verify_session, with the password read by get_user_by_id just before *)
VerifySession(t) == now - t.issued <= Ttl /\ t.password = password[t.user]

LookUpUser(c) ==
    /\ At(c, "user")
    /\ \/ VerifySession(client[c].token) /\ Moves(c, Afterwards(c))
       \/ Done(c)
    /\ UNCHANGED <<now, tables, power>>

(* user_has_badge_tag; then the origin guard *)
CheckBadge(c) ==
    /\ At(c, "badge")
    /\ IF HoldsAM(client[c].token.user) THEN Goes(c, Handed(client[c])) ELSE Done(c)
    /\ UNCHANGED <<now, tables, power>>

-----------------------------------------------------------------------------
(* The handlers *)

Handles(c, path) == At(c, "handler") /\ client[c].route[2] = path

CreateBadge(c) ==
    /\ Handles(c, "badges/create") /\ Len(badges) < MaxBadges
    /\ badges' = Append(badges, client[c].arg)
    /\ Done(c)
    /\ UNCHANGED <<now, password, revoked, awards, backgrounds, power>>

AwardBadge(c) ==
    /\ Handles(c, "badges/award")
    /\ awards' = IF client[c].arg[2] \in DOMAIN badges
                 THEN awards \cup {client[c].arg}
                 ELSE awards
    /\ Done(c)
    /\ UNCHANGED <<now, password, revoked, badges, backgrounds>>
    /\ power' = [d \in Clients |-> power[d] \/ \E u \in Users : SentBy(d, u) /\ HoldsAM(u)']

RevokeBadge(c) ==
    /\ Handles(c, "badges/revoke")
    /\ awards' = awards \ {client[c].arg}
    /\ Done(c)
    /\ UNCHANGED <<now, password, revoked, badges, backgrounds, power>>

UploadBackground(c) ==
    /\ Handles(c, "backgrounds/upload")
    /\ backgrounds' = backgrounds \cup {client[c].arg}
    /\ Done(c)
    /\ UNCHANGED <<now, password, revoked, badges, awards, power>>

DeleteBackground(c) ==
    /\ Handles(c, "backgrounds/delete") \/ Handles(c, "backgrounds/file")
    /\ backgrounds' = backgrounds \ {client[c].arg}
    /\ Done(c)
    /\ UNCHANGED <<now, password, revoked, badges, awards, power>>

(* a reading handler; or a handler whose query or file access failed *)
Answer(c) ==
    /\ client[c].step \in {"handler", "changes"}
    /\ Done(c)
    /\ UNCHANGED <<now, tables, power>>

Init ==
    /\ now = 0
    /\ password = [u \in Users |-> 0]
    /\ revoked = {}
    /\ badges = Seeded
    /\ awards = {<<Operator, b>> : b \in {b \in DOMAIN Seeded : Seeded[b] = "AM"}}
    /\ backgrounds = {}
    /\ client = [c \in Clients |-> Idle]
    /\ power = [c \in Clients |-> FALSE]

Proceed(c) ==
    \/ InsertRevoked(c) \/ CheckRevoked(c) \/ LookUpUser(c) \/ CheckBadge(c)
    \/ CreateBadge(c) \/ AwardBadge(c) \/ RevokeBadge(c)
    \/ UploadBackground(c) \/ DeleteBackground(c) \/ Answer(c)

(* a request of some of the routes with some of the cookies *)
Ask(c, routes, tokens) ==
    \E route \in routes, t \in tokens \cup {NoToken}, here \in Origins :
        \E arg \in Arguments(route[2]) : Arrive(c, route, t, here, arg)

Next ==
    \/ Tick
    \/ \E u \in Users : ChangePassword(u)
    \/ \E c \in Clients :
        \/ \E t \in Token : SignOut(c, t)
        \/ Ask(c, Routes, Token)
        \/ Proceed(c)

Spec == Init /\ [][Next]_vars


-----------------------------------------------------------------------------
(* Properties *)

AdminType ==
    [step : {"revoked", "user", "badge", "handler", "changes"}, route : Routes,
     token : Token \cup {NoToken}, here : BOOLEAN,
     arg : Users \X (1 .. MaxBadges) \cup Tags \cup Files \cup {Nobody},
     out : BOOLEAN, old : BOOLEAN]

(* Every award is of a badge that exists, and no request is let past a    *)
(* guard without a cookie.                                                *)
WebAccessTypeOK ==
    /\ now \in 0 .. MaxTime
    /\ password \in [Users -> 0 .. MaxPassword]
    /\ revoked \subseteq [token : Token, until : 0 .. MaxTime + Ttl]
    /\ badges \in Seq(Tags \cup {"AM"})
    /\ awards \subseteq Users \X (1 .. Len(badges))
    /\ backgrounds \subseteq Files
    /\ \A c \in Clients : \/ client[c] = Idle
                          \/ At(c, "insert") /\ client[c].token \in Token
                          \/ client[c] \in AdminType
                             /\ client[c].step \in {"user", "badge", "changes"} => Signed(client[c].token)
    /\ power \in [Clients -> BOOLEAN]

(* requests whose sender was found out *)
Recognised(c) ==
    \/ client[c].step \in {"badge", "changes"}
    \/ At(c, "handler") /\ IsAdminRoute(client[c].route)

(* A cookie that was dead when the request came does not identify anybody: *)
(* neither after a new password nor, until its last second, after signing  *)
(* out.                                                                    *)
DeadStaysOut ==
    \A c \in Clients : Recognised(c) =>
        /\ ~client[c].old
        /\ client[c].out => now >= Expires(client[c].token)

(* What the operators' tables and files say changes only by requests of    *)
(* someone who was an administrator at some time of the request, and       *)
(* which did not come from a foreign page.                                 *)
OnlyAdminsChange ==
    [][<<badges, awards, backgrounds>>' # <<badges, awards, backgrounds>> =>
        \E c \in Clients : /\ At(c, "handler") /\ client'[c] = Idle
                          /\ power[c] /\ client[c].here]_vars
=============================================================================
