---------------------------- MODULE BanchoProofs ----------------------------
(***************************************************************************)
(* Proofs about what is in the server's memory, for any number of users    *)
(* and logins: the session table (Sessions), who watches whom              *)
(* (Spectators), who is in a channel or the lobby (Channels), the rooms of *)
(* sessions (BanchoServer), which implement MatchRooms, so that what       *)
(* MatchRoomsProofs shows of rooms whose users act at any time holds of    *)
(* them, and who is shown and warned of what is said (Chat).               *)
(***************************************************************************)
EXTENDS BanchoServer, Spectators, Channels, Chat, SequenceTheorems, TLAPS

RoomProofs == INSTANCE MatchRoomsProofs

-----------------------------------------------------------------------------
(* SESSIONS.  Types and TokensLead are inductive together.  OneSessionEach *)
(* is not: it needs to know that a login under way, if it overlaps with no *)
(* other, has left its user without a session (LoginsAlone).               *)

(* A user with a login under way has no second one and no session. *)
LoginsAlone ==
    ~crossed => \A t \in Tokens : request[t] = "login" =>
        /\ \A s \in Tokens : request[s] = "login" /\ Owner[s] = Owner[t] => s = t
        /\ \A s \in sessions : Owner[s] # Owner[t]

SessionsInv == SessionsTypeOK /\ TokensLead /\ OneSessionEach /\ LoginsAlone

-----------------------------------------------------------------------------
(* A map is typed if its entries are. *)
LEMMA TypedMaps ==
    /\ \A f, S, T : f \in [DOMAIN f -> T] => Without(f, S) \in [DOMAIN Without(f, S) -> T]
    /\ \A f, k, T : f \in [DOMAIN f -> T] =>
            \A v \in T : Put(f, k, v) \in [DOMAIN Put(f, k, v) -> T]
BY DEF Without, Restrict, Put

-----------------------------------------------------------------------------
(* remove_session leaves nobody mapped to a session that ended. *)
LEMMA RemoveSessionStep ==
    ASSUME SessionsInv, NEW S \in SUBSET Tokens, RemoveSession(S)
    PROVE  /\ sessions' = sessions \ S
           /\ sessions' \subseteq Tokens
           /\ quiet' \subseteq sessions'
           /\ tokenOf' \in [DOMAIN tokenOf' -> Tokens]
           /\ DOMAIN tokenOf' \subseteq Users
           /\ TokensLead'
           /\ ~crossed => \A t \in sessions' :
                    Owner[t] \in DOMAIN tokenOf' /\ tokenOf'[Owner[t]] = t
<1> DEFINE gone == OwnersOf(S \cap sessions)
<1>1. /\ sessions' = sessions \ S
      /\ quiet' = quiet \ S
      /\ tokenOf' = Without(tokenOf, gone)
  BY DEF RemoveSession
<1>2. /\ DOMAIN tokenOf' = DOMAIN tokenOf \ gone
      /\ \A u \in DOMAIN tokenOf' : tokenOf'[u] = tokenOf[u]
  BY <1>1 DEF Without, Restrict
<1>3. tokenOf' \in [DOMAIN tokenOf' -> Tokens]
  BY <1>1, TypedMaps, Zenon DEF SessionsInv, SessionsTypeOK
<1>4. TokensLead'
  BY <1>1, <1>2 DEF SessionsInv, TokensLead, OwnersOf
<1>5. ASSUME ~crossed, NEW t \in sessions'
      PROVE  Owner[t] \in DOMAIN tokenOf' /\ tokenOf'[Owner[t]] = t
  <2>1. Owner[t] \in DOMAIN tokenOf /\ tokenOf[Owner[t]] = t /\ t \notin S
    BY <1>1, <1>5 DEF SessionsInv, OneSessionEach
  <2>2. \A s \in sessions : Owner[s] = Owner[t] => s = t
    BY <1>5, <2>1 DEF SessionsInv, OneSessionEach
  <2> QED
    BY <1>2, <2>1, <2>2 DEF OwnersOf
<1> QED
  BY <1>1, <1>2, <1>3, <1>4, <1>5 DEF SessionsInv, SessionsTypeOK

LEMMA BeginLoginStep ==
    ASSUME SessionsInv, NEW t \in Tokens, BeginLogin(t)
    PROVE  SessionsInv'
<1> DEFINE u == Owner[t]
<1>0. Previous(u) \in SUBSET Tokens
  BY DEF Previous, SessionsInv, SessionsTypeOK
<1>1. /\ sessions' = sessions \ Previous(u)
      /\ sessions' \subseteq Tokens
      /\ quiet' \subseteq sessions'
      /\ tokenOf' \in [DOMAIN tokenOf' -> Tokens]
      /\ DOMAIN tokenOf' \subseteq Users
      /\ TokensLead'
      /\ ~crossed => \A s \in sessions' :
                Owner[s] \in DOMAIN tokenOf' /\ tokenOf'[Owner[s]] = s
  BY <1>0, RemoveSessionStep DEF BeginLogin
<1>2. /\ request[t] = "unborn"
      /\ request' = [request EXCEPT ![t] = "login"]
      /\ crossed' \in BOOLEAN /\ stray' \in BOOLEAN
      /\ ~crossed' => /\ ~crossed
                      /\ \A s \in Tokens : request[s] = "login" => Owner[s] # Owner[t]
  BY DEF BeginLogin, SessionsInv, SessionsTypeOK
<1>3. SessionsTypeOK'
  BY <1>1, <1>2 DEF SessionsInv, SessionsTypeOK
<1>4. OneSessionEach'
  BY <1>1, <1>2 DEF OneSessionEach
<1>5. ~crossed => \A s \in sessions' : Owner[s] # u
  <2> SUFFICES ASSUME ~crossed, NEW s \in sessions', Owner[s] = u PROVE FALSE
    OBVIOUS
  <2>1. u \in DOMAIN tokenOf /\ tokenOf[u] = s
    BY <1>1 DEF SessionsInv, OneSessionEach
  <2> QED
    BY <1>1, <2>1 DEF Previous
<1>6. LoginsAlone'
  <2> SUFFICES ASSUME ~crossed', NEW s \in Tokens, request'[s] = "login"
               PROVE  /\ \A r \in Tokens : request'[r] = "login" /\ Owner[r] = Owner[s] => r = s
                      /\ \A r \in sessions' : Owner[r] # Owner[s]
    BY DEF LoginsAlone
  <2>1. \A r \in Tokens \ {t} : request'[r] = request[r]
    BY <1>2 DEF SessionsInv, SessionsTypeOK
  <2>2. CASE s = t
    BY <1>2, <1>5, <2>1, <2>2
  <2>3. CASE s # t
    BY <1>1, <1>2, <2>1, <2>3 DEF SessionsInv, LoginsAlone
  <2> QED
    BY <2>2, <2>3
<1> QED
  BY <1>1, <1>3, <1>4, <1>6 DEF SessionsInv

LEMMA FinishLoginStep ==
    ASSUME SessionsInv, NEW t \in Tokens, FinishLogin(t)
    PROVE  SessionsInv'
<1> DEFINE u == Owner[t]
<1>1. /\ request[t] = "login"
      /\ request' = [request EXCEPT ![t] = "idle"]
      /\ sessions' = sessions \cup {t}
      /\ tokenOf' = Put(tokenOf, u, t)
      /\ quiet' = quiet /\ crossed' = crossed /\ stray' = stray
  BY DEF FinishLogin, history
<1>2. u \in Users
  BY LoginsAssumption
<1>3. /\ DOMAIN tokenOf' = DOMAIN tokenOf \cup {u}
      /\ \A v \in DOMAIN tokenOf' : tokenOf'[v] = IF v = u THEN t ELSE tokenOf[v]
  BY <1>1 DEF Put
<1>4. tokenOf' \in [DOMAIN tokenOf' -> Tokens]
  BY <1>1, TypedMaps, Zenon DEF SessionsInv, SessionsTypeOK
<1>5. SessionsTypeOK'
  BY <1>1, <1>2, <1>3, <1>4 DEF SessionsInv, SessionsTypeOK
<1>6. TokensLead'
  BY <1>1, <1>3 DEF SessionsInv, TokensLead
<1>7. ~crossed => \A s \in sessions : Owner[s] # u
  BY <1>1 DEF SessionsInv, LoginsAlone
<1>8. OneSessionEach'
  BY <1>1, <1>3, <1>7 DEF SessionsInv, OneSessionEach
<1>9. \A s \in Tokens : request'[s] = "login" => s # t /\ request[s] = "login"
  BY <1>1 DEF SessionsInv, SessionsTypeOK
<1>10. LoginsAlone'
  BY <1>1, <1>9 DEF SessionsInv, LoginsAlone
<1> QED
  BY <1>5, <1>6, <1>8, <1>10 DEF SessionsInv

(* A step that starts no login and adds no session keeps logins alone. *)
LEMMA AloneStays ==
    ASSUME SessionsInv, crossed' = crossed, sessions' \subseteq sessions,
           \A t \in Tokens : request'[t] = "login" => request[t] = "login"
    PROVE  LoginsAlone'
BY DEF SessionsInv, LoginsAlone

LEMMA RemovalStep ==
    ASSUME SessionsInv, NEW S \in SUBSET Tokens, RemoveSession(S), UNCHANGED history,
           request' \in [Tokens -> {"unborn", "login", "idle", "poll", "packet"}],
           \A t \in Tokens : request'[t] = "login" => request[t] = "login"
    PROVE  SessionsInv'
<1>1. crossed' = crossed /\ stray' = stray
  BY DEF history
<1>2. SessionsTypeOK' /\ TokensLead' /\ OneSessionEach'
  BY <1>1, RemoveSessionStep DEF SessionsInv, SessionsTypeOK, OneSessionEach
<1>3. LoginsAlone'
  BY <1>1, AloneStays, RemoveSessionStep
<1> QED
  BY <1>2, <1>3 DEF SessionsInv

(* The other steps neither end nor add a session. *)
LEMMA QuietStep ==
    ASSUME SessionsInv, UNCHANGED <<sessions, tokenOf, crossed>>,
           quiet' \subseteq sessions, stray' \in BOOLEAN,
           request' \in [Tokens -> {"unborn", "login", "idle", "poll", "packet"}],
           \A t \in Tokens : request'[t] = "login" => request[t] = "login"
    PROVE  SessionsInv'
<1>1. SessionsTypeOK' /\ TokensLead' /\ OneSessionEach'
  BY DEF SessionsInv, SessionsTypeOK, TokensLead, OneSessionEach
<1>2. LoginsAlone'
  BY AloneStays
<1> QED
  BY <1>1, <1>2 DEF SessionsInv

LEMMA SessionsInvStep ==
    ASSUME SessionsInv, [SessionsNext]_sessionVars
    PROVE  SessionsInv'
<1> DEFINE Phases == {"unborn", "login", "idle", "poll", "packet"}
<1>1. SessionsTypeOK
  BY DEF SessionsInv
<1>2. CASE UNCHANGED sessionVars
  BY <1>1, <1>2, QuietStep DEF sessionVars, table, history, SessionsTypeOK
<1>3. ASSUME NEW t \in Tokens, Poll(t) \/ Fetch(t) \/ Handle(t) \/ Refresh(t)
                               \/ EndRequest(t) \/ FallSilent(t)
      PROVE  SessionsInv'
  <2>1. UNCHANGED <<sessions, tokenOf, crossed>>
    BY <1>3 DEF Poll, Fetch, Handle, Refresh, EndRequest, FallSilent, table, history
  <2>2. quiet' \subseteq sessions /\ stray' \in BOOLEAN
    BY <1>1, <1>3 DEF Poll, Fetch, Handle, Refresh, EndRequest, FallSilent, table, history,
                      SessionsTypeOK
  <2>3. /\ request' \in [Tokens -> Phases]
        /\ \A s \in Tokens : request'[s] = "login" => request[s] = "login"
    BY <1>1, <1>3 DEF Poll, Fetch, Handle, Refresh, EndRequest, FallSilent, SessionsTypeOK
  <2> QED
    BY <2>1, <2>2, <2>3, QuietStep
<1>4. ASSUME NEW t \in Tokens, Logout(t) PROVE SessionsInv'
  <2>1. /\ request' \in [Tokens -> Phases]
        /\ \A s \in Tokens : request'[s] = "login" => request[s] = "login"
    BY <1>1, <1>4 DEF Logout, SessionsTypeOK
  <2> QED
    BY <1>4, <2>1, RemovalStep DEF Logout
<1>5. CASE Prune
  <2>1. quiet \in SUBSET Tokens
    BY <1>1 DEF SessionsTypeOK
  <2> QED
    BY <1>1, <1>5, <2>1, RemovalStep DEF Prune, SessionsTypeOK
<1> QED
  BY <1>2, <1>3, <1>4, <1>5, BeginLoginStep, FinishLoginStep DEF SessionsNext

LEMMA SessionsInvInit == SessionsInit => SessionsInv
<1> SUFFICES ASSUME SessionsInit PROVE SessionsInv
  OBVIOUS
<1>1. DOMAIN tokenOf = {} /\ tokenOf \in [DOMAIN tokenOf -> Tokens]
  BY DEF SessionsInit
<1> QED
  BY <1>1 DEF SessionsInit, SessionsInv, SessionsTypeOK, TokensLead, OneSessionEach, LoginsAlone

-----------------------------------------------------------------------------
(* The session table is consistent in every reachable state.               *)
THEOREM SessionsInductive == SessionsSpec => []SessionsInv
BY SessionsInvInit, SessionsInvStep, PTL DEF SessionsSpec

(* The table is typed, and only sessions are quiet. *)
THEOREM SessionsTyped == SessionsSpec => []SessionsTypeOK
<1>1. SessionsInv => SessionsTypeOK
  BY DEF SessionsInv
<1> QED
  BY SessionsInductive, <1>1, PTL

(* user_id_to_token never leads to a session that is gone or to somebody   *)
(* else's, however logins, logouts, time-outs and dropped requests         *)
(* interleave, overlapping logins of one user included.                    *)
THEOREM TokensAlwaysLead == SessionsSpec => []TokensLead
<1>1. SessionsInv => TokensLead
  BY DEF SessionsInv
<1> QED
  BY SessionsInductive, <1>1, PTL

(* As long as no two logins of a user overlap, a user has one session, the *)
(* one user_id_to_token leads to.                                          *)
THEOREM OneSession == SessionsSpec => []OneSessionEach
<1>1. SessionsInv => OneSessionEach
  BY DEF SessionsInv
<1> QED
  BY SessionsInductive, <1>1, PTL

-----------------------------------------------------------------------------
(* SPECTATORS.  The two copies of the relation agree for reasons of their  *)
(* own; that who is watched is online also rests on TokensLead: START      *)
(* looks the target up in user_id_to_token, which leads to live sessions   *)
(* only.                                                                   *)

Relation == SpectatorsTypeOK /\ SpectatorsInverse

GoodRelation == Relation /\ WatchedOnline /\ WatchersOnline

SpectatorsInv == SessionsInv /\ GoodRelation

-----------------------------------------------------------------------------
(* stop_spectating takes the users of S out of the lists they are in, and  *)
(* drops the lists that become empty; there are no others.                 *)
LEMMA ListsWithout ==
    ASSUME Relation, NEW S
    PROVE  /\ DOMAIN Lists(S) = {h \in DOMAIN spectators : spectators[h] \ S # {}}
           /\ \A h \in DOMAIN Lists(S) : Lists(S)[h] = spectators[h] \ S
<1> DEFINE left == [h \in DOMAIN spectators |->
                        {u \in spectators[h] : ~(u \in S /\ spectatingTarget[u] = h)}]
           gone == {h \in Targets(S) \cap DOMAIN left : left[h] = {}}
<1>1. \A h \in DOMAIN spectators : left[h] = spectators[h] \ S
  BY DEF Relation, SpectatorsInverse
<1>2. \A h \in DOMAIN spectators : spectators[h] # {}
  BY DEF Relation, SpectatorsTypeOK
<1>3. \A h \in DOMAIN spectators : spectators[h] \ S = {} => h \in Targets(S)
  BY <1>2 DEF Relation, SpectatorsInverse, Targets
<1>4. \A h \in DOMAIN spectators : h \in gone <=> spectators[h] \ S = {}
  BY <1>1, <1>3
<1>5. Lists(S) = Without(left, gone)
  BY DEF Lists
<1>6. DOMAIN Lists(S) = DOMAIN spectators \ gone
  BY <1>5 DEF Without, Restrict
<1>7. \A h \in DOMAIN Lists(S) : Lists(S)[h] = left[h]
  BY <1>5 DEF Without, Restrict
<1> QED
  BY <1>1, <1>4, <1>6, <1>7

(* The lists are typed as functions, whoever is taken out. *)
LEMMA ListsTyped ==
    ASSUME Relation, NEW S
    PROVE  Lists(S) \in [DOMAIN Lists(S) -> (SUBSET Users) \ {{}}]
<1>1. Lists(S) = [h \in DOMAIN Lists(S) |-> Lists(S)[h]]
  BY DEF Lists, Without, Restrict
<1>a. /\ DOMAIN Lists(S) = {h \in DOMAIN spectators : spectators[h] \ S # {}}
      /\ \A h \in DOMAIN Lists(S) : Lists(S)[h] = spectators[h] \ S
  BY ListsWithout
<1>2. \A h \in DOMAIN Lists(S) : Lists(S)[h] \in (SUBSET Users) \ {{}}
  <2> SUFFICES ASSUME NEW h \in DOMAIN Lists(S)
               PROVE  Lists(S)[h] \in (SUBSET Users) \ {{}}
    OBVIOUS
  <2>1. h \in DOMAIN spectators /\ spectators[h] \ S # {} /\ Lists(S)[h] = spectators[h] \ S
    BY <1>a
  <2>2. spectators[h] \in SUBSET Users
    BY <2>1 DEF Relation, SpectatorsTypeOK
  <2> QED
    BY <2>1, <2>2
<1> QED
  BY <1>1, <1>2

(* The end of sessions takes their users out of the relation on both sides. *)
LEMMA ForgetStep ==
    ASSUME Relation, NEW S, ForgetSpectators(S)
    PROVE  /\ Relation'
           /\ DOMAIN spectators' \subseteq DOMAIN spectators \ S
           /\ DOMAIN spectatingTarget' \subseteq DOMAIN spectatingTarget \ S
<1> DEFINE left == S \cup UNION {spectators[h] : h \in S \cap DOMAIN spectators}
<1>1. /\ DOMAIN spectators' = {h \in DOMAIN spectators \ S : spectators[h] \ S # {}}
      /\ \A h \in DOMAIN spectators' : spectators'[h] = spectators[h] \ S
  BY ListsWithout DEF ForgetSpectators, Without, Restrict
<1>2. /\ DOMAIN spectatingTarget' = DOMAIN spectatingTarget \ left
      /\ \A u \in DOMAIN spectatingTarget' : spectatingTarget'[u] = spectatingTarget[u]
  BY DEF ForgetSpectators, Without, Restrict
<1>3. spectators' \in [DOMAIN spectators' -> (SUBSET Users) \ {{}}]
  BY ListsTyped, TypedMaps DEF ForgetSpectators
<1>4. spectatingTarget' \in [DOMAIN spectatingTarget' -> Users]
  BY TypedMaps DEF ForgetSpectators, Relation, SpectatorsTypeOK
<1>5. SpectatorsTypeOK'
  BY <1>1, <1>2, <1>3, <1>4 DEF Relation, SpectatorsTypeOK
<1>6. ASSUME NEW h \in DOMAIN spectators', NEW u \in spectators'[h]
      PROVE  u \in DOMAIN spectatingTarget' /\ spectatingTarget'[u] = h
  <2>1. /\ u \in DOMAIN spectatingTarget /\ spectatingTarget[u] = h
        /\ u \notin S /\ h \notin S
    BY <1>1, <1>6 DEF Relation, SpectatorsInverse
  <2>2. u \notin left
    BY <2>1 DEF Relation, SpectatorsInverse
  <2> QED
    BY <1>2, <2>1, <2>2
<1>7. ASSUME NEW u \in DOMAIN spectatingTarget'
      PROVE  /\ spectatingTarget'[u] # u
             /\ spectatingTarget'[u] \in DOMAIN spectators'
             /\ u \in spectators'[spectatingTarget'[u]]
  BY <1>1, <1>2, <1>7 DEF Relation, SpectatorsInverse
<1>8. SpectatorsInverse'
  BY <1>6, <1>7 DEF SpectatorsInverse
<1> QED
  BY <1>1, <1>2, <1>5, <1>8 DEF Relation

(* STOP, and START with nobody to watch *)
LEMMA StopStep ==
    ASSUME Relation, NEW u,
           spectators' = Lists({u}),
           spectatingTarget' = Without(spectatingTarget, {u})
    PROVE  /\ Relation'
           /\ DOMAIN spectators' \subseteq DOMAIN spectators
           /\ DOMAIN spectatingTarget' \subseteq DOMAIN spectatingTarget
<1>1. /\ DOMAIN spectators' = {h \in DOMAIN spectators : spectators[h] \ {u} # {}}
      /\ \A h \in DOMAIN spectators' : spectators'[h] = spectators[h] \ {u}
  BY ListsWithout
<1>2. /\ DOMAIN spectatingTarget' = DOMAIN spectatingTarget \ {u}
      /\ \A v \in DOMAIN spectatingTarget' : spectatingTarget'[v] = spectatingTarget[v]
  BY DEF Without, Restrict
<1>3. /\ spectators' \in [DOMAIN spectators' -> (SUBSET Users) \ {{}}]
      /\ spectatingTarget' \in [DOMAIN spectatingTarget' -> Users]
  BY ListsTyped, TypedMaps DEF Relation, SpectatorsTypeOK
<1>4. /\ DOMAIN spectators' \subseteq DOMAIN spectators
      /\ DOMAIN spectatingTarget' \subseteq DOMAIN spectatingTarget
  BY <1>1, <1>2
<1>5. DOMAIN spectators \subseteq Users /\ DOMAIN spectatingTarget \subseteq Users
  BY DEF Relation, SpectatorsTypeOK
<1>6. SpectatorsTypeOK'
  BY <1>3, <1>4, <1>5 DEF SpectatorsTypeOK
<1>7. SpectatorsInverse'
  <2>1. ASSUME NEW h \in DOMAIN spectators', NEW v \in spectators'[h]
        PROVE  v \in DOMAIN spectatingTarget' /\ spectatingTarget'[v] = h
    <3>1. h \in DOMAIN spectators /\ v \in spectators[h] /\ v # u
      BY <1>1
    <3>2. v \in DOMAIN spectatingTarget /\ spectatingTarget[v] = h
      BY <3>1 DEF Relation, SpectatorsInverse
    <3> QED
      BY <1>2, <3>1, <3>2
  <2>2. ASSUME NEW v \in DOMAIN spectatingTarget'
        PROVE  /\ spectatingTarget'[v] # v
               /\ spectatingTarget'[v] \in DOMAIN spectators'
               /\ v \in spectators'[spectatingTarget'[v]]
    <3>1. v \in DOMAIN spectatingTarget /\ v # u /\ spectatingTarget'[v] = spectatingTarget[v]
      BY <1>2
    <3>2. /\ spectatingTarget[v] # v /\ spectatingTarget[v] \in DOMAIN spectators
          /\ v \in spectators[spectatingTarget[v]]
      BY <3>1 DEF Relation, SpectatorsInverse
    <3> QED
      BY <1>1, <3>1, <3>2
  <2> QED
    BY <2>1, <2>2 DEF SpectatorsInverse
<1> QED
  BY <1>4, <1>6, <1>7 DEF Relation

(* START: the user leaves the list it is in and enters that of h. *)
LEMMA WatchStep ==
    ASSUME Relation, NEW u \in Users, NEW h \in Users, h # u,
           spectators' = Put(Lists({u}), h,
                             (IF h \in DOMAIN Lists({u}) THEN Lists({u})[h] ELSE {}) \cup {u}),
           spectatingTarget' = Put(spectatingTarget, u, h)
    PROVE  /\ Relation'
           /\ DOMAIN spectators' \subseteq DOMAIN spectators \cup {h}
           /\ DOMAIN spectatingTarget' \subseteq DOMAIN spectatingTarget \cup {u}
<1> DEFINE lists == Lists({u})
           list  == (IF h \in DOMAIN lists THEN lists[h] ELSE {}) \cup {u}
<1>1. /\ DOMAIN lists = {k \in DOMAIN spectators : spectators[k] \ {u} # {}}
      /\ \A k \in DOMAIN lists : lists[k] = spectators[k] \ {u}
  BY ListsWithout
<1>2. lists \in [DOMAIN lists -> (SUBSET Users) \ {{}}]
  BY ListsTyped
<1>3. list \in (SUBSET Users) \ {{}}
  BY <1>2
<1> HIDE DEF lists
<1>4. spectators' = [k \in DOMAIN lists \cup {h} |-> IF k = h THEN list ELSE lists[k]]
  BY DEF Put, lists
<1> HIDE DEF list
<1>5. /\ DOMAIN spectators' = DOMAIN lists \cup {h}
      /\ \A k \in DOMAIN spectators' : spectators'[k] = IF k = h THEN list ELSE lists[k]
  BY <1>4
<1>6. spectators' \in [DOMAIN spectators' -> (SUBSET Users) \ {{}}]
  BY <1>2, <1>3, <1>4
<1>7. /\ DOMAIN spectatingTarget' = DOMAIN spectatingTarget \cup {u}
      /\ \A v \in DOMAIN spectatingTarget' :
            spectatingTarget'[v] = IF v = u THEN h ELSE spectatingTarget[v]
  BY DEF Put
<1>8. spectatingTarget' \in [DOMAIN spectatingTarget' -> Users]
  BY TypedMaps DEF Relation, SpectatorsTypeOK
<1>9. SpectatorsTypeOK'
  BY <1>1, <1>5, <1>6, <1>7, <1>8 DEF Relation, SpectatorsTypeOK
<1>10. ASSUME NEW k \in DOMAIN spectators', NEW v \in spectators'[k]
       PROVE  v \in DOMAIN spectatingTarget' /\ spectatingTarget'[v] = k
  <2>1. CASE v = u
    BY <1>1, <1>5, <1>7, <1>10, <2>1
  <2>2. CASE v # u
    <3>1. k \in DOMAIN lists /\ v \in lists[k]
      BY <1>5, <1>10, <2>2 DEF list
    <3> QED
      BY <1>1, <1>7, <2>2, <3>1 DEF Relation, SpectatorsInverse
  <2> QED
    BY <2>1, <2>2
<1>11. ASSUME NEW v \in DOMAIN spectatingTarget'
       PROVE  /\ spectatingTarget'[v] # v
              /\ spectatingTarget'[v] \in DOMAIN spectators'
              /\ v \in spectators'[spectatingTarget'[v]]
  <2>1. CASE v = u
    BY <1>5, <1>7, <2>1 DEF list
  <2>2. CASE v # u
    <3> DEFINE k == spectatingTarget[v]
    <3>1. v \in DOMAIN spectatingTarget /\ spectatingTarget'[v] = k
      BY <1>7, <1>11, <2>2
    <3>2. k # v /\ k \in DOMAIN lists /\ v \in lists[k]
      BY <1>1, <2>2, <3>1 DEF Relation, SpectatorsInverse
    <3> QED
      BY <1>5, <3>1, <3>2 DEF list
  <2> QED
    BY <2>1, <2>2
<1>12. SpectatorsInverse'
  BY <1>10, <1>11 DEF SpectatorsInverse
<1> QED
  BY <1>1, <1>5, <1>7, <1>9, <1>12 DEF Relation

-----------------------------------------------------------------------------
(* Where the sessions of S end, nobody else goes offline. *)
LEMMA OthersStayOnline ==
    ASSUME NEW S, sessions' = sessions \ S
    PROVE  Online \ OwnersOf(S \cap sessions) \subseteq Online'
BY DEF Online, OwnersOf

LEMMA EndStep ==
    ASSUME SpectatorsInv, NEW S, sessions' = sessions \ S, stray' = stray,
           ForgetSpectators(OwnersOf(S \cap sessions))
    PROVE  GoodRelation'
<1>1. /\ Relation'
      /\ DOMAIN spectators' \subseteq DOMAIN spectators \ OwnersOf(S \cap sessions)
      /\ DOMAIN spectatingTarget' \subseteq DOMAIN spectatingTarget \ OwnersOf(S \cap sessions)
  BY ForgetStep DEF SpectatorsInv, GoodRelation
<1>2. Online \ OwnersOf(S \cap sessions) \subseteq Online'
  BY OthersStayOnline
<1> QED
  BY <1>1, <1>2 DEF SpectatorsInv, GoodRelation, WatchedOnline, WatchersOnline

(* Steps that leave the relation alone and end no session *)
LEMMA AsideStep ==
    ASSUME SpectatorsInv, UNCHANGED watching, sessions \subseteq sessions', stray => stray'
    PROVE  GoodRelation'
<1>1. Online \subseteq Online'
  BY DEF Online
<1>2. Relation'
  BY DEF SpectatorsInv, GoodRelation, Relation, SpectatorsTypeOK, SpectatorsInverse, watching
<1>3. WatchedOnline' /\ WatchersOnline'
  BY <1>1 DEF SpectatorsInv, GoodRelation, WatchedOnline, WatchersOnline, watching
<1> QED
  BY <1>2, <1>3 DEF GoodRelation

LEMMA StartStep ==
    ASSUME SpectatorsInv, NEW t \in Tokens, NEW h \in Users, StartSpectating(t, h)
    PROVE  GoodRelation'
<1> DEFINE u == Owner[t]
<1>1. /\ u \in Users
      /\ sessions' = sessions
      /\ ~stray' => ~stray /\ u \in Online
  BY LoginsAssumption DEF StartSpectating, Handle, table, Online
<1>2. Online' = Online
  BY <1>1 DEF Online
<1>3. CASE Watchable(u, h)
  <2>1. h # u /\ h \in Online
    BY <1>3 DEF Watchable, Online, SpectatorsInv, SessionsInv, TokensLead
  <2>2. /\ Relation'
        /\ DOMAIN spectators' \subseteq DOMAIN spectators \cup {h}
        /\ DOMAIN spectatingTarget' \subseteq DOMAIN spectatingTarget \cup {u}
    BY <1>1, <1>3, <2>1, WatchStep DEF StartSpectating, SpectatorsInv, GoodRelation
  <2> QED
    BY <1>1, <1>2, <2>1, <2>2 DEF SpectatorsInv, GoodRelation, WatchedOnline, WatchersOnline
<1>4. CASE ~Watchable(u, h)
  <2>1. /\ Relation'
        /\ DOMAIN spectators' \subseteq DOMAIN spectators
        /\ DOMAIN spectatingTarget' \subseteq DOMAIN spectatingTarget
    BY <1>4, StopStep DEF StartSpectating, SpectatorsInv, GoodRelation
  <2> QED
    BY <1>1, <1>2, <2>1 DEF SpectatorsInv, GoodRelation, WatchedOnline, WatchersOnline
<1> QED
  BY <1>3, <1>4

LEMMA SpectatorsInvStep ==
    ASSUME SpectatorsInv, [SpectatorsNext]_spectatorsVars
    PROVE  SpectatorsInv'
<1>1. SessionsInv'
  <2>1. [SessionsNext]_sessionVars
    BY DEF SpectatorsNext, spectatorsVars, SessionStep, StartSpectating, StopSpectating, SessionsNext
  <2> QED
    BY <2>1, SessionsInvStep DEF SpectatorsInv, GoodRelation
<1>2. SessionsTypeOK /\ TokensLead
  BY DEF SpectatorsInv, SessionsInv
<1>3. ASSUME UNCHANGED spectatorsVars PROVE GoodRelation'
  BY <1>3, AsideStep DEF spectatorsVars, sessionVars, table, history
<1>4. ASSUME NEW t \in Tokens, BeginLogin(t),
             ForgetSpectators(OwnersOf(Previous(Owner[t])))
      PROVE  GoodRelation'
  <2>1. Previous(Owner[t]) \cap sessions = Previous(Owner[t])
    BY <1>2 DEF Previous, TokensLead
  <2>2. sessions' = sessions \ Previous(Owner[t]) /\ stray' = stray
    BY <1>4 DEF BeginLogin, RemoveSession
  <2> QED
    BY <1>4, <2>1, <2>2, EndStep
<1>5. ASSUME NEW t \in Tokens, Logout(t), ForgetSpectators(OwnersOf({t} \cap sessions))
      PROVE  GoodRelation'
  BY <1>5, EndStep DEF Logout, RemoveSession, history
<1>6. ASSUME Prune, ForgetSpectators(OwnersOf(quiet)) PROVE GoodRelation'
  <2>1. quiet \cap sessions = quiet
    BY <1>2 DEF SessionsTypeOK
  <2> QED
    BY <1>6, <2>1, EndStep DEF Prune, RemoveSession, history
<1>7. ASSUME NEW t \in Tokens, UNCHANGED watching,
             FinishLogin(t) \/ Poll(t) \/ Fetch(t) \/ Handle(t) \/ Refresh(t)
                \/ EndRequest(t) \/ FallSilent(t)
      PROVE  GoodRelation'
  <2>1. sessions \subseteq sessions'
    BY <1>7 DEF FinishLogin, Poll, Fetch, Handle, Refresh, EndRequest, FallSilent, table
  <2>2. stray => stray'
    BY <1>7, Zenon DEF FinishLogin, Poll, Fetch, Handle, Refresh, EndRequest, FallSilent,
                       history
  <2> QED
    BY <1>7, <2>1, <2>2, AsideStep
<1>8. ASSUME NEW t \in Tokens, StopSpectating(t) PROVE GoodRelation'
  <2>1. /\ Relation'
        /\ DOMAIN spectators' \subseteq DOMAIN spectators
        /\ DOMAIN spectatingTarget' \subseteq DOMAIN spectatingTarget
    BY <1>8, StopStep DEF StopSpectating, SpectatorsInv, GoodRelation
  <2>2. sessions' = sessions /\ (stray => stray')
    BY <1>8 DEF StopSpectating, Handle, table
  <2>3. Online' = Online
    BY <2>2 DEF Online
  <2> QED
    BY <2>1, <2>2, <2>3 DEF SpectatorsInv, GoodRelation, WatchedOnline, WatchersOnline
<1>9. GoodRelation'
  <2>1. CASE SessionStep
    BY <1>4, <1>5, <1>6, <1>7, <2>1 DEF SessionStep
  <2>2. CASE \E t \in Tokens, h \in Users : StartSpectating(t, h)
    BY <2>2, StartStep
  <2> QED
    BY <1>3, <1>8, <2>1, <2>2 DEF SpectatorsNext
<1> QED
  BY <1>1, <1>9 DEF SpectatorsInv, GoodRelation

LEMMA SpectatorsInvInit == SpectatorsInit => SpectatorsInv
<1> SUFFICES ASSUME SpectatorsInit PROVE SpectatorsInv
  OBVIOUS
<1>1. SessionsInv
  BY SessionsInvInit DEF SpectatorsInit
<1>2. DOMAIN spectators = {} /\ DOMAIN spectatingTarget = {}
  BY DEF SpectatorsInit
<1>3. /\ spectators \in [DOMAIN spectators -> (SUBSET Users) \ {{}}]
      /\ spectatingTarget \in [DOMAIN spectatingTarget -> Users]
  BY <1>2 DEF SpectatorsInit
<1> QED
  BY <1>1, <1>2, <1>3 DEF SpectatorsInv, GoodRelation, Relation, SpectatorsTypeOK, SpectatorsInverse,
                          WatchedOnline, WatchersOnline

THEOREM SpectatorsInductive == SpectatorsSpec => []SpectatorsInv
BY SpectatorsInvInit, SpectatorsInvStep, PTL DEF SpectatorsSpec

(* The lists of spectators and the targets of spectators are one relation  *)
(* kept twice, whichever session ends first and however late handlers act. *)
THEOREM RelationKept == SpectatorsSpec => []SpectatorsInverse
<1>1. SpectatorsInv => SpectatorsInverse
  BY DEF SpectatorsInv, GoodRelation, Relation
<1> QED
  BY SpectatorsInductive, <1>1, PTL

(* Whoever is watched has a session; and so does whoever watches, unless a *)
(* handler acted for a session that was gone.                              *)
THEOREM SpectatingStaysOnline == SpectatorsSpec => []SpectatingOnline
<1>1. SpectatorsInv => SpectatingOnline
  BY DEF SpectatorsInv, GoodRelation, SpectatingOnline
<1> QED
  BY SpectatorsInductive, <1>1, PTL

-----------------------------------------------------------------------------
(* CHANNELS.  That sessions and channels agree rests on members being      *)
(* online, and both rest on the table: a login, unless it overlaps with    *)
(* another, adds a session for a user who has none and so is in no channel *)
(* (LoginsAlone), and a channel lists a user for one session               *)
(* (OneSessionEach).                                                       *)

(* Only a packet is between the two locks of a CHANNEL_JOIN. *)
JoinsInPackets == \A t \in Tokens : half[t] # {} => request[t] = "packet"

GoodChannels == ChannelsTypeOK /\ JoinsInPackets /\ MembersOnline /\ MembershipAgrees

ChannelsInv == SessionsInv /\ GoodChannels

(* The broadcasts, channel by channel *)
LEMMA MembersOneByOne ==
    MembersOnline <=>
        (~stray => lobby \subseteq Online /\ \A c \in Known : members[c] \subseteq Online)
BY DEF MembersOnline

(* MembershipAgrees speaks of a user by the one session the user has. *)
LEMMA OneSessionOfOwner ==
    ASSUME SessionsInv, ~crossed, NEW s \in sessions, NEW t \in sessions, Owner[s] = Owner[t]
    PROVE  s = t
BY DEF SessionsInv, OneSessionEach

(* Who has a session keeps it where the sessions of S end, and so do the   *)
(* entries of who is left.                                                 *)
LEMMA ChannelsEndStep ==
    ASSUME ChannelsInv, NEW S \in SUBSET sessions,
           sessions' = sessions \ S, stray' = stray, crossed' \in BOOLEAN,
           ~crossed' => ~crossed,
           ForgetMembers(OwnersOf(S)),
           joined' = [t \in Tokens |-> IF t \in S THEN {} ELSE joined[t]],
           UNCHANGED <<half, cut>>,
           \A t \in Tokens : half[t] # {} => request'[t] = "packet"
    PROVE  GoodChannels'
<1>1. /\ members' = [c \in Known |-> members[c] \ OwnersOf(S)]
      /\ lobby' = lobby \ OwnersOf(S)
  BY DEF ForgetMembers
<1>2. ChannelsTypeOK /\ MembersOnline /\ MembershipAgrees /\ sessions \subseteq Tokens
  BY DEF ChannelsInv, GoodChannels, SessionsInv, SessionsTypeOK
<1>3. ChannelsTypeOK'
  BY <1>1, <1>2 DEF ChannelsTypeOK
<1>4. JoinsInPackets'
  BY DEF JoinsInPackets
<1>5. Online \ OwnersOf(S) \subseteq Online'
  BY DEF Online, OwnersOf
<1>6. ~stray' => lobby' \subseteq Online' /\ \A c \in Known : members'[c] \subseteq Online'
  BY <1>1, <1>2, <1>5, MembersOneByOne
<1>7. MembersOnline'
  BY <1>6 DEF MembersOnline
<1>8. MembershipAgrees'
  <2> SUFFICES ASSUME ~crossed', ~stray', ~cut', NEW t \in sessions', NEW c \in Known
               PROVE  c \in joined'[t] <=> Owner[t] \in members'[c] \/ c \in half'[t]
    BY DEF MembershipAgrees
  <2>1. t \in sessions /\ t \in Tokens /\ t \notin S
    BY <1>2
  <2>2. Owner[t] \notin OwnersOf(S)
    BY <2>1, OneSessionOfOwner DEF OwnersOf, ChannelsInv
  <2>3. c \in joined[t] <=> Owner[t] \in members[c] \/ c \in half[t]
    BY <1>2, <2>1 DEF MembershipAgrees
  <2> QED
    BY <1>1, <2>1, <2>2, <2>3
<1> QED
  BY <1>3, <1>4, <1>7, <1>8 DEF GoodChannels

(* A login adds the session of a user who was in no channel. *)
LEMMA EnterStep ==
    ASSUME ChannelsInv, NEW t \in Tokens, Enter(t)
    PROVE  GoodChannels'
<1> DEFINE u == Owner[t]
<1>1. /\ request[t] = "login" /\ request' = [request EXCEPT ![t] = "idle"]
      /\ sessions' = sessions \cup {t}
      /\ crossed' = crossed /\ stray' = stray
      /\ half' = half /\ cut' = cut /\ lobby' = lobby
      /\ members' = [c \in Known |-> members[c] \cup IF c \in AutoJoin THEN {u} ELSE {}]
      /\ joined' = [joined EXCEPT ![t] = AutoJoin]
  BY DEF Enter, FinishLogin, history
<1>2. /\ ChannelsTypeOK /\ JoinsInPackets /\ MembersOnline /\ MembershipAgrees
      /\ sessions \subseteq Tokens
  BY DEF ChannelsInv, GoodChannels, SessionsInv, SessionsTypeOK
<1>3. u \in Users
  BY LoginsAssumption
<1>4. half[t] = {}
  BY <1>1, <1>2 DEF JoinsInPackets
<1>5. ChannelsTypeOK'
  <2>1. members' \in [Known -> SUBSET Users]
    BY <1>1, <1>2, <1>3 DEF ChannelsTypeOK
  <2>2. joined' \in [Tokens -> SUBSET Names]
    BY <1>1, <1>2, ChannelsAssumption DEF ChannelsTypeOK, Names
  <2>3. \A s \in Tokens : joined'[s] # {} => s \in sessions'
    BY <1>1, <1>2 DEF ChannelsTypeOK
  <2> QED
    BY <1>1, <1>2, <2>1, <2>2, <2>3 DEF ChannelsTypeOK
<1>6. JoinsInPackets'
  BY <1>1, <1>2, <1>4 DEF JoinsInPackets, ChannelsInv, SessionsInv, SessionsTypeOK
<1>7. Online' = Online \cup {u}
  BY <1>1 DEF Online
<1>8. MembersOnline'
  <2>1. ~stray' => lobby' \subseteq Online' /\ \A c \in Known : members'[c] \subseteq Online'
    BY <1>1, <1>2, <1>7, MembersOneByOne
  <2> QED
    BY <2>1 DEF MembersOnline
<1>9. MembershipAgrees'
  <2> SUFFICES ASSUME ~crossed', ~stray', ~cut', NEW s \in sessions', NEW c \in Known
               PROVE  c \in joined'[s] <=> Owner[s] \in members'[c] \/ c \in half'[s]
    BY DEF MembershipAgrees
  <2>1. u \notin Online
    BY <1>1 DEF ChannelsInv, SessionsInv, LoginsAlone, Online
  <2>2. u \notin members[c]
    BY <1>1, <1>2, <2>1, MembersOneByOne
  <2>3. CASE s = t
    BY <1>1, <1>2, <1>4, <2>2, <2>3 DEF ChannelsTypeOK
  <2>4. CASE s # t
    <3>1. s \in sessions /\ s \in Tokens /\ Owner[s] # u
      BY <1>1, <1>2, <2>1, <2>4 DEF Online
    <3>2. c \in joined[s] <=> Owner[s] \in members[c] \/ c \in half[s]
      BY <1>1, <1>2, <3>1 DEF MembershipAgrees
    <3> QED
      BY <1>1, <1>2, <2>4, <3>1, <3>2 DEF ChannelsTypeOK
  <2> QED
    BY <2>3, <2>4
<1> QED
  BY <1>5, <1>6, <1>8, <1>9 DEF GoodChannels

(* A handler that changes the names of one token and the entries of its    *)
(* owner keeps everybody in agreement if it keeps that token so.           *)
LEMMA MemberStep ==
    ASSUME ChannelsInv, NEW t \in Tokens, UNCHANGED <<sessions, crossed>>,
           ~stray' => ~stray, ~cut' => ~cut,
           \A s \in Tokens \ {t} : joined'[s] = joined[s] /\ half'[s] = half[s],
           \A c \in Known : members'[c] \ {Owner[t]} = members[c] \ {Owner[t]},
           lobby' \subseteq lobby \cup {Owner[t]},
           t \in sessions \/ stray' \/ (members' = members /\ lobby' \subseteq lobby),
           t \in sessions /\ ~stray' /\ ~cut' =>
                \A c \in Known :
                    (c \in joined[t] <=> Owner[t] \in members[c] \/ c \in half[t]) =>
                    (c \in joined'[t] <=> Owner[t] \in members'[c] \/ c \in half'[t])
    PROVE  MembersOnline' /\ MembershipAgrees'
<1>1. MembersOnline /\ MembershipAgrees /\ sessions \subseteq Tokens
  BY DEF ChannelsInv, GoodChannels, SessionsInv, SessionsTypeOK
<1>2. Online' = Online
  BY DEF Online
<1>3. MembersOnline'
  <2>1. t \in sessions => Owner[t] \in Online
    BY DEF Online
  <2>2. ASSUME ~stray' PROVE lobby' \subseteq Online /\ \A c \in Known : members'[c] \subseteq Online
    <3>1. lobby \subseteq Online /\ \A c \in Known : members[c] \subseteq Online
      BY <1>1, <2>2, MembersOneByOne
    <3> QED
      BY <2>1, <2>2, <3>1
  <2> QED
    BY <1>2, <2>2 DEF MembersOnline
<1>4. MembershipAgrees'
  <2> SUFFICES ASSUME ~crossed', ~stray', ~cut', NEW s \in sessions', NEW c \in Known
               PROVE  c \in joined'[s] <=> Owner[s] \in members'[c] \/ c \in half'[s]
    BY DEF MembershipAgrees
  <2>1. s \in sessions /\ s \in Tokens /\ ~crossed
    BY <1>1
  <2>2. c \in joined[s] <=> Owner[s] \in members[c] \/ c \in half[s]
    BY <1>1, <2>1 DEF MembershipAgrees
  <2>3. CASE s = t
    BY <2>1, <2>2, <2>3
  <2>4. CASE s # t /\ t \in sessions
    <3>1. Owner[s] # Owner[t]
      BY <2>1, <2>4, OneSessionOfOwner DEF ChannelsInv
    <3>2. Owner[s] \in members'[c] <=> Owner[s] \in members[c]
      BY <3>1
    <3> QED
      BY <2>1, <2>2, <2>4, <3>2
  <2>5. CASE s # t /\ t \notin sessions
    BY <2>1, <2>2, <2>5
  <2> QED
    BY <2>3, <2>4, <2>5
<1> QED
  BY <1>3, <1>4

(* CHANNEL_JOIN, CHANNEL_PART, the channels entered with a room or a host, *)
(* and the lobby                                                           *)
LEMMA HandlerStep ==
    ASSUME ChannelsInv, NEW t \in Tokens, NEW c \in Names,
           \/ JoinSession(t, c)
           \/ JoinChannel(t, c)
           \/ PartChannel(t, c)
           \/ c \in Entered /\ EnterWith(t, c)
           \/ LobbyJoin(t)
           \/ LobbyPart(t)
    PROVE  GoodChannels'
<1> DEFINE u == Owner[t]
<1>1. /\ ChannelsTypeOK /\ JoinsInPackets /\ SessionsTypeOK
      /\ u \in Users
  BY LoginsAssumption DEF ChannelsInv, GoodChannels, SessionsInv
<1>2. CASE JoinSession(t, c)
  <2>1. /\ request[t] = "packet" /\ half[t] = {} /\ t \in sessions
        /\ joined' = [joined EXCEPT ![t] = @ \cup {c}]
        /\ half' = [half EXCEPT ![t] = {c}]
        /\ UNCHANGED <<sessions, request, crossed, stray, members, cut, lobby>>
    BY <1>2 DEF JoinSession, sessionVars, table, history
  <2>2. ChannelsTypeOK' /\ JoinsInPackets'
    BY <1>1, <2>1 DEF ChannelsTypeOK, JoinsInPackets
  <2>3. MembersOnline' /\ MembershipAgrees'
    BY <1>1, <2>1, MemberStep DEF ChannelsTypeOK
  <2> QED
    BY <2>2, <2>3 DEF GoodChannels
<1>3. ASSUME Handle(t)
      PROVE  /\ UNCHANGED <<sessions, crossed>>
             /\ ~stray' => ~stray /\ t \in sessions
             /\ \A s \in Tokens \ {t} : request'[s] = request[s]
  BY <1>1, <1>3 DEF Handle, table, SessionsTypeOK
<1>4. CASE JoinChannel(t, c)
  <2>1. /\ Handle(t) /\ half[t] = {c}
        /\ members' = IF c \in Known THEN [members EXCEPT ![c] = @ \cup {u}] ELSE members
        /\ half' = [half EXCEPT ![t] = {}]
        /\ UNCHANGED <<joined, cut, lobby>>
    BY <1>4 DEF JoinChannel, AddMember
  <2>2. ChannelsTypeOK'
    BY <1>1, <1>3, <2>1 DEF ChannelsTypeOK
  <2>3. JoinsInPackets'
    BY <1>1, <1>3, <2>1 DEF ChannelsTypeOK, JoinsInPackets
  <2>4. MembersOnline' /\ MembershipAgrees'
    BY <1>1, <1>3, <2>1, MemberStep DEF ChannelsTypeOK
  <2> QED
    BY <2>2, <2>3, <2>4 DEF GoodChannels
<1>5. CASE PartChannel(t, c)
  <2>1. /\ Handle(t) /\ half[t] = {}
        /\ joined' = IF t \in sessions THEN [joined EXCEPT ![t] = @ \ {c}] ELSE joined
        /\ members' = IF t \in sessions /\ c \in Known
                      THEN [members EXCEPT ![c] = @ \ {u}] ELSE members
        /\ UNCHANGED <<half, cut, lobby>>
    BY <1>5 DEF PartChannel
  <2>2. ChannelsTypeOK'
    BY <1>1, <1>3, <2>1 DEF ChannelsTypeOK
  <2>3. JoinsInPackets'
    BY <1>1, <1>3, <2>1 DEF ChannelsTypeOK, JoinsInPackets
  <2>4. MembersOnline' /\ MembershipAgrees'
    BY <1>1, <1>3, <2>1, MemberStep DEF ChannelsTypeOK
  <2> QED
    BY <2>2, <2>3, <2>4 DEF GoodChannels
<1>6. CASE c \in Entered /\ EnterWith(t, c)
  <2>1. /\ Handle(t) /\ half[t] = {} /\ c \in Known
        /\ joined' = IF t \in sessions THEN [joined EXCEPT ![t] = @ \cup {c}] ELSE joined
        /\ members' = [members EXCEPT ![c] = @ \cup {u}]
        /\ UNCHANGED <<half, cut, lobby>>
    BY <1>6, ChannelsAssumption DEF EnterWith, AddMember
  <2>2. ChannelsTypeOK'
    BY <1>1, <1>3, <2>1 DEF ChannelsTypeOK
  <2>3. JoinsInPackets'
    BY <1>1, <1>3, <2>1 DEF ChannelsTypeOK, JoinsInPackets
  <2>4. MembersOnline' /\ MembershipAgrees'
    BY <1>1, <1>3, <2>1, MemberStep DEF ChannelsTypeOK
  <2> QED
    BY <2>2, <2>3, <2>4 DEF GoodChannels
<1>7. CASE LobbyJoin(t) \/ LobbyPart(t)
  <2>1. /\ Handle(t) /\ half[t] = {}
        /\ lobby' \subseteq lobby \cup {u}
        /\ UNCHANGED <<members, joined, half, cut>>
    BY <1>7 DEF LobbyJoin, LobbyPart
  <2>2. ChannelsTypeOK'
    BY <1>1, <1>3, <2>1 DEF ChannelsTypeOK
  <2>3. JoinsInPackets'
    BY <1>1, <1>3, <2>1 DEF ChannelsTypeOK, JoinsInPackets
  <2>4. MembersOnline' /\ MembershipAgrees'
    BY <1>1, <1>3, <2>1, MemberStep DEF ChannelsTypeOK
  <2> QED
    BY <2>2, <2>3, <2>4 DEF GoodChannels
<1> QED
  BY <1>2, <1>4, <1>5, <1>6, <1>7

(* Steps that leave the channels alone and neither add nor end a session,  *)
(* and a request that is dropped                                           *)
LEMMA RestStep ==
    ASSUME ChannelsInv, UNCHANGED <<sessions, crossed, stray, members, joined, lobby>>,
           \/ UNCHANGED <<half, cut>>
           \/ \E t \in Tokens : /\ half' = [half EXCEPT ![t] = {}]
                                /\ cut' = (cut \/ half[t] # {}),
           \A t \in Tokens : half'[t] # {} => request'[t] = "packet"
    PROVE  GoodChannels'
<1>1. ChannelsTypeOK /\ MembersOnline /\ MembershipAgrees /\ sessions \subseteq Tokens
  BY DEF ChannelsInv, GoodChannels, SessionsInv, SessionsTypeOK
<1>2. ChannelsTypeOK'
  <2>1. half' \in [Tokens -> SUBSET Names]
    BY <1>1 DEF ChannelsTypeOK
  <2>2. cut' \in BOOLEAN
    BY <1>1, Zenon DEF ChannelsTypeOK
  <2> QED
    BY <1>1, <2>1, <2>2 DEF ChannelsTypeOK
<1>3. JoinsInPackets'
  BY DEF JoinsInPackets
<1>4. ~cut' => ~cut /\ \A t \in Tokens : half'[t] = half[t]
  BY <1>1 DEF ChannelsTypeOK
<1>5. MembersOnline' /\ MembershipAgrees'
  BY <1>1, <1>4 DEF MembersOnline, MembershipAgrees, Online
<1> QED
  BY <1>2, <1>3, <1>5 DEF GoodChannels

LEMMA ChannelsInvStep ==
    ASSUME ChannelsInv, [ChannelsNext]_channelsVars
    PROVE  ChannelsInv'
<1>1. SessionsInv'
  <2>1. [SessionsNext]_sessionVars
    BY DEF ChannelsNext, channelsVars, SessionsNext, Enter, LeaveChannels, Drop, LobbyJoin,
           LobbyPart, JoinSession, JoinChannel, PartChannel, EnterWith, PruneMembers
  <2> QED
    BY <2>1, SessionsInvStep DEF ChannelsInv
<1>2. /\ SessionsTypeOK /\ TokensLead /\ JoinsInPackets /\ ChannelsTypeOK
  BY DEF ChannelsInv, GoodChannels, SessionsInv
<1>3. ASSUME UNCHANGED channelsVars PROVE GoodChannels'
  BY <1>2, <1>3, RestStep DEF channelsVars, sessionVars, table, history, chat, JoinsInPackets
<1>4. ASSUME NEW t \in Tokens, LeaveChannels(t) PROVE GoodChannels'
  <2>1. CASE BeginLogin(t) /\ ForgetMembers(OwnersOf(Previous(Owner[t])))
             /\ joined' = [s \in Tokens |-> IF s \in Previous(Owner[t]) THEN {} ELSE joined[s]]
             /\ UNCHANGED <<half, cut>>
    <3> DEFINE S == Previous(Owner[t])
    <3>1. S \in SUBSET sessions
      BY <1>2 DEF Previous, TokensLead
    <3>2. /\ sessions' = sessions \ S /\ stray' = stray
          /\ crossed' \in BOOLEAN /\ (~crossed' => ~crossed)
      BY <1>2, <2>1 DEF BeginLogin, RemoveSession, SessionsTypeOK
    <3>3. \A s \in Tokens : half[s] # {} => request'[s] = "packet"
      BY <1>2, <2>1 DEF BeginLogin, JoinsInPackets, SessionsTypeOK
    <3> HIDE DEF S
    <3>4. ForgetMembers(OwnersOf(S)) /\ UNCHANGED <<half, cut>>
          /\ joined' = [s \in Tokens |-> IF s \in S THEN {} ELSE joined[s]]
      BY <2>1 DEF S
    <3> QED
      BY <3>1, <3>2, <3>3, <3>4, ChannelsEndStep
  <2>2. CASE Logout(t) /\ half[t] = {} /\ ForgetMembers(OwnersOf({t} \cap sessions))
             /\ joined' = [joined EXCEPT ![t] = {}] /\ UNCHANGED <<half, cut>>
    <3>1. PICK S \in SUBSET sessions : S = {t} \cap sessions
      OBVIOUS
    <3>2. /\ sessions' = sessions \ S /\ stray' = stray
          /\ crossed' \in BOOLEAN /\ (~crossed' => ~crossed)
      BY <1>2, <2>2, <3>1 DEF Logout, RemoveSession, SessionsTypeOK, history
    <3>3. \A s \in Tokens : half[s] # {} => request'[s] = "packet"
      BY <1>2, <2>2 DEF Logout, JoinsInPackets, SessionsTypeOK
    <3>4. joined' = [s \in Tokens |-> IF s \in S THEN {} ELSE joined[s]]
      BY <1>2, <2>2, <3>1 DEF ChannelsTypeOK
    <3>5. ForgetMembers(OwnersOf(S)) /\ UNCHANGED <<half, cut>>
      BY <2>2, <3>1
    <3> QED
      BY <3>2, <3>3, <3>4, <3>5, ChannelsEndStep
  <2> QED
    BY <1>4, <2>1, <2>2 DEF LeaveChannels
<1>5. ASSUME PruneMembers PROVE GoodChannels'
  <2>1. quiet \in SUBSET sessions
    BY <1>2 DEF SessionsTypeOK
  <2>2. /\ sessions' = sessions \ quiet /\ stray' = stray
        /\ crossed' \in BOOLEAN /\ (~crossed' => ~crossed)
        /\ request' = request
    BY <1>2, <1>5 DEF PruneMembers, Prune, RemoveSession, SessionsTypeOK, history
  <2>3. \A s \in Tokens : half[s] # {} => request'[s] = "packet"
    BY <1>2, <2>2 DEF JoinsInPackets
  <2>4. /\ ForgetMembers(OwnersOf(quiet)) /\ UNCHANGED <<half, cut>>
        /\ joined' = [s \in Tokens |-> IF s \in quiet THEN {} ELSE joined[s]]
    BY <1>5 DEF PruneMembers
  <2> QED
    BY <2>1, <2>2, <2>3, <2>4, ChannelsEndStep
<1>6. ASSUME NEW t \in Tokens, Drop(t) PROVE GoodChannels'
  <2>1. /\ UNCHANGED <<sessions, crossed, stray, members, joined, lobby>>
        /\ half' = [half EXCEPT ![t] = {}]
        /\ cut' = (cut \/ half[t] # {})
    BY <1>6, Zenon DEF Drop, EndRequest, table, history
  <2>2. \A s \in Tokens : half'[s] # {} => request'[s] = "packet"
    BY <1>2, <1>6 DEF Drop, EndRequest, JoinsInPackets, SessionsTypeOK, ChannelsTypeOK
  <2> QED
    BY <2>1, <2>2, RestStep
<1>7. ASSUME NEW t \in Tokens, UNCHANGED chat,
             Poll(t) \/ Fetch(t) \/ FallSilent(t) \/ (half[t] = {} /\ Refresh(t))
      PROVE  GoodChannels'
  <2>1. UNCHANGED <<sessions, crossed, stray>>
    BY <1>7 DEF Poll, Fetch, FallSilent, Refresh, table, history
  <2>2. \A s \in Tokens : half[s] # {} => request'[s] = "packet"
    BY <1>2, <1>7 DEF Poll, Fetch, FallSilent, Refresh, JoinsInPackets, SessionsTypeOK
  <2> QED
    BY <1>7, <2>1, <2>2, RestStep DEF chat
<1>8. Entered \subseteq Names
  BY ChannelsAssumption DEF Names
<1>9. ASSUME NEW t \in Tokens, LobbyJoin(t) \/ LobbyPart(t) PROVE GoodChannels'
  <2>1. PICK c \in Names : c = Unknown
    BY DEF Names
  <2> QED
    BY <1>9, HandlerStep
<1>10. GoodChannels'
  <2>1. CASE \E t \in Tokens :
                \/ Enter(t) \/ LeaveChannels(t) \/ Drop(t) \/ LobbyJoin(t) \/ LobbyPart(t)
                \/ /\ Poll(t) \/ Fetch(t) \/ FallSilent(t) \/ (half[t] = {} /\ Refresh(t))
                   /\ UNCHANGED chat
    BY <1>4, <1>6, <1>7, <1>9, <2>1, EnterStep
  <2>2. CASE \E t \in Tokens, c \in Names :
                JoinSession(t, c) \/ JoinChannel(t, c) \/ PartChannel(t, c)
    BY <2>2, HandlerStep
  <2>3. CASE \E t \in Tokens, c \in Entered : EnterWith(t, c)
    BY <1>8, <2>3, HandlerStep
  <2> QED
    BY <1>3, <1>5, <2>1, <2>2, <2>3 DEF ChannelsNext
<1> QED
  BY <1>1, <1>10 DEF ChannelsInv

LEMMA ChannelsInvInit == ChannelsInit => ChannelsInv
<1> SUFFICES ASSUME ChannelsInit PROVE ChannelsInv
  OBVIOUS
<1>1. SessionsInv
  BY SessionsInvInit DEF ChannelsInit
<1>2. sessions = {}
  BY DEF ChannelsInit, SessionsInit
<1> QED
  BY <1>1, <1>2 DEF ChannelsInit, ChannelsInv, GoodChannels, ChannelsTypeOK, JoinsInPackets,
                    MembersOnline, MembershipAgrees

THEOREM ChannelsInductive == ChannelsSpec => []ChannelsInv
BY ChannelsInvInit, ChannelsInvStep, PTL DEF ChannelsSpec

(* Members, names and lobby are typed, and only sessions list names. *)
THEOREM ChannelsTyped == ChannelsSpec => []ChannelsTypeOK
<1>1. ChannelsInv => ChannelsTypeOK
  BY DEF ChannelsInv, GoodChannels
<1> QED
  BY ChannelsInductive, <1>1, PTL

(* Unless a handler acts for a session that is gone, nothing is broadcast  *)
(* to a user without a session.                                            *)
THEOREM BroadcastsReachSessions == ChannelsSpec => []MembersOnline
<1>1. ChannelsInv => MembersOnline
  BY DEF ChannelsInv, GoodChannels
<1> QED
  BY ChannelsInductive, <1>1, PTL

(* What a session lists and whom its channels list agree, between the two  *)
(* locks of a join too, as long as logins do not overlap, no handler acts  *)
(* for a session that is gone and no join is cut short.                    *)
THEOREM MembershipKept == ChannelsSpec => []MembershipAgrees
<1>1. ChannelsInv => MembershipAgrees
  BY DEF ChannelsInv, GoodChannels
<1> QED
  BY ChannelsInductive, <1>1, PTL

-----------------------------------------------------------------------------
(* ROOMS of sessions: they implement MatchRooms, and seats belong to users *)
(* with a session unless a handler acts for a session that is gone.        *)

ServerInv == SessionsInv /\ SeatsOnline

-----------------------------------------------------------------------------
(* What a packet does is done by a user of the rooms. *)
LEMMA PacketIsRoomStep ==
    ASSUME NEW t \in Tokens, MatchPacket(t)
    PROVE  Rooms!Next
<1>1. Owner[t] \in Users
  BY LoginsAssumption
<1> QED
  BY <1>1 DEF MatchPacket, Rooms!Next

(* Every step of the server is a step of its rooms or leaves them alone. *)
LEMMA StepImplementsRooms ==
    ASSUME SessionsTypeOK, [Next]_vars
    PROVE  [Rooms!Next]_(Rooms!vars)
<1>1. UNCHANGED roomVars => UNCHANGED Rooms!vars
  BY DEF roomVars, Rooms!vars, Rooms!games, Rooms!allocator
<1>2. CASE UNCHANGED vars
  BY <1>1, <1>2 DEF vars
<1>3. ASSUME NEW t \in Tokens, HandleMatch(t) PROVE Rooms!Next
  BY <1>3, PacketIsRoomStep DEF HandleMatch
<1>4. ASSUME NEW t \in Tokens, Login(t) PROVE UNCHANGED roomVars \/ Rooms!Next
  BY <1>4, LoginsAssumption DEF Login, Rooms!Next
<1>5. ASSUME NEW t \in Tokens, Leave(t) PROVE UNCHANGED roomVars \/ Rooms!Next
  BY <1>5, LoginsAssumption DEF Leave, Rooms!Next
<1>6. CASE TimeOut
  <2>1. OwnersOf(quiet) \in SUBSET Users
    BY LoginsAssumption DEF OwnersOf, SessionsTypeOK
  <2> QED
    BY <1>6, <2>1 DEF TimeOut, Rooms!Next
<1> QED
  BY <1>1, <1>2, <1>3, <1>4, <1>5, <1>6 DEF Next

LEMMA StepIsSessionStep ==
    ASSUME [Next]_vars
    PROVE  [SessionsNext]_sessionVars
BY DEF Next, vars, HandleMatch, Login, Leave, TimeOut, SessionsNext

(* The sessions of the server behave as Sessions says. *)
THEOREM SessionsKept == Spec => []SessionsInv
<1>1. Init => SessionsInv
  BY SessionsInvInit DEF Init
<1>2. SessionsInv /\ [Next]_vars => SessionsInv'
  BY StepIsSessionStep, SessionsInvStep
<1> QED
  BY <1>1, <1>2, PTL DEF Spec

(* The server implements MatchRooms: whatever sessions do, their rooms go  *)
(* through steps that MatchRooms allows to users acting at any time.       *)
LEMMA Implements == Spec => Rooms!Spec
<1>1. Init => Rooms!Init
  BY DEF Init
<1>2. SessionsInv /\ [Next]_vars => [Rooms!Next]_(Rooms!vars)
  BY StepImplementsRooms DEF SessionsInv
<1> QED
  BY <1>1, <1>2, SessionsKept, PTL DEF Spec, Rooms!Spec

-----------------------------------------------------------------------------
(* A packet seats nobody but the user it is handled for. *)
LEMMA PacketMapsOwner ==
    ASSUME NEW t \in Tokens, MatchPacket(t)
    PROVE  DOMAIN userToMatch' \subseteq DOMAIN userToMatch \cup {Owner[t]}
<1> DEFINE u == Owner[t]
<1>1. CASE Rooms!CreateMatch(u)
  BY <1>1 DEF Rooms!CreateMatch, Rooms!Put
<1>2. CASE \E m \in Rooms!MatchIds : Rooms!JoinMatch(u, m) \/ Rooms!JoinVanishedMatch(u, m)
  BY <1>2 DEF Rooms!JoinMatch, Rooms!JoinVanishedMatch, Rooms!Put, Rooms!Without, Rooms!Restrict
<1>3. CASE Rooms!PartMatch(u)
  BY <1>3 DEF Rooms!PartMatch, Rooms!Without, Rooms!Restrict
<1>4. CASE \/ Rooms!Ready(u) \/ Rooms!NotReady(u) \/ Rooms!NoBeatmap(u) \/ Rooms!HasBeatmap(u)
           \/ \E i \in Rooms!Slots :
                Rooms!ChangeSlot(u, i) \/ Rooms!LockSlot(u, i) \/ Rooms!ChangeHost(u, i)
           \/ Rooms!ChangeSettings(u) \/ Rooms!ChangeTeam(u) \/ Rooms!StartMatch(u)
           \/ Rooms!LoadComplete(u) \/ Rooms!ScoreUpdate(u) \/ Rooms!MatchComplete(u)
  <2>1. userToMatch' = userToMatch
    BY <1>4 DEF Rooms!Ready, Rooms!NotReady, Rooms!NoBeatmap, Rooms!HasBeatmap,
          Rooms!SetStatus, Rooms!ChangeSlot, Rooms!LockSlot, Rooms!ChangeHost,
          Rooms!ChangeSettings, Rooms!ChangeTeam, Rooms!StartMatch, Rooms!LoadComplete,
          Rooms!ScoreUpdate, Rooms!MatchComplete
  <2> QED
    BY <2>1
<1> QED
  BY <1>1, <1>2, <1>3, <1>4 DEF MatchPacket

(* Where sessions end, their users lose their seats; nobody else goes      *)
(* offline.                                                                *)
LEMMA EndKeepsSeatsOnline ==
    ASSUME SeatsOnline, NEW S, S \subseteq sessions, sessions' = sessions \ S,
           stray' = stray, Rooms!RemoveSessions(OwnersOf(S))
    PROVE  SeatsOnline'
<1>1. DOMAIN userToMatch' = DOMAIN userToMatch \ OwnersOf(S)
  BY DEF Rooms!RemoveSessions, Rooms!Without, Rooms!Restrict
<1>2. Online \ OwnersOf(S) \subseteq Online'
  BY DEF Online, OwnersOf
<1> QED
  BY <1>1, <1>2 DEF SeatsOnline

LEMMA AsideKeepsSeatsOnline ==
    ASSUME SeatsOnline, userToMatch' = userToMatch, sessions \subseteq sessions',
           stray => stray'
    PROVE  SeatsOnline'
<1>1. Online \subseteq Online'
  BY DEF Online
<1> QED
  BY <1>1 DEF SeatsOnline

LEMMA SeatsOnlineStep ==
    ASSUME ServerInv, [Next]_vars
    PROVE  SeatsOnline'
<1>1. SeatsOnline /\ SessionsTypeOK /\ TokensLead
  BY DEF ServerInv, SessionsInv
<1>2. ASSUME UNCHANGED vars PROVE SeatsOnline'
  BY <1>1, <1>2, AsideKeepsSeatsOnline DEF vars, roomVars, sessionVars, table, history
<1>3. ASSUME NEW t \in Tokens, HandleMatch(t) PROVE SeatsOnline'
  <2>1. DOMAIN userToMatch' \subseteq DOMAIN userToMatch \cup {Owner[t]}
    BY <1>3, PacketMapsOwner DEF HandleMatch
  <2>2. Online' = Online /\ (~stray' => ~stray /\ Owner[t] \in Online)
    BY <1>3 DEF HandleMatch, Handle, table, Online
  <2> QED
    BY <1>1, <2>1, <2>2 DEF SeatsOnline
<1>4. ASSUME NEW t \in Tokens, Login(t) PROVE SeatsOnline'
  <2> DEFINE u == Owner[t]
  <2>1. /\ Previous(u) \subseteq sessions
        /\ Previous(u) # {} => OwnersOf(Previous(u)) = {u}
    BY <1>1 DEF Previous, TokensLead, OwnersOf
  <2>2. sessions' = sessions \ Previous(u) /\ stray' = stray
    BY <1>4 DEF Login, BeginLogin, RemoveSession
  <2>3. CASE Previous(u) = {}
    BY <1>1, <1>4, <2>2, <2>3, AsideKeepsSeatsOnline DEF Login, roomVars
  <2>4. CASE Previous(u) # {}
    BY <1>1, <1>4, <2>1, <2>2, <2>4, EndKeepsSeatsOnline DEF Login, Rooms!Evict
  <2> QED
    BY <2>3, <2>4
<1>5. ASSUME NEW t \in Tokens, Leave(t) PROVE SeatsOnline'
  <2>1. sessions' = sessions \ {t} /\ stray' = stray
    BY <1>5 DEF Leave, Logout, RemoveSession, history
  <2>2. CASE t \in sessions
    <3>1. OwnersOf({t}) = {Owner[t]}
      BY DEF OwnersOf
    <3> QED
      BY <1>1, <1>5, <2>1, <2>2, <3>1, EndKeepsSeatsOnline DEF Leave, Rooms!Logout
  <2>3. CASE t \notin sessions
    BY <1>1, <1>5, <2>1, <2>3, AsideKeepsSeatsOnline DEF Leave, roomVars
  <2> QED
    BY <2>2, <2>3
<1>6. ASSUME TimeOut PROVE SeatsOnline'
  <2>1. sessions' = sessions \ quiet /\ stray' = stray /\ quiet \subseteq sessions
    BY <1>1, <1>6 DEF TimeOut, Prune, RemoveSession, history, SessionsTypeOK
  <2> QED
    BY <1>1, <1>6, <2>1, EndKeepsSeatsOnline DEF TimeOut, Rooms!PrunerTick
<1>7. ASSUME NEW t \in Tokens, UNCHANGED roomVars,
             FinishLogin(t) \/ Poll(t) \/ Fetch(t) \/ Handle(t) \/ Refresh(t)
                \/ EndRequest(t) \/ FallSilent(t)
      PROVE  SeatsOnline'
  <2>1. sessions \subseteq sessions'
    BY <1>7 DEF FinishLogin, Poll, Fetch, Handle, Refresh, EndRequest, FallSilent, table
  <2>2. stray => stray'
    BY <1>7, Zenon DEF FinishLogin, Poll, Fetch, Handle, Refresh, EndRequest, FallSilent,
                       history
  <2> QED
    BY <1>1, <1>7, <2>1, <2>2, AsideKeepsSeatsOnline DEF roomVars
<1> QED
  BY <1>2, <1>3, <1>4, <1>5, <1>6, <1>7 DEF Next

(* Unless a handler acts for a session that is gone, whoever is mapped to  *)
(* a room has a session, even when logins overlap or match ids come round. *)
THEOREM SeatsStayOnline == Spec => []SeatsOnline
<1>1. Init => SeatsOnline
  BY DEF Init, Rooms!Init, SeatsOnline
<1>2. SessionsInv /\ SeatsOnline /\ [Next]_vars => SeatsOnline'
  BY SeatsOnlineStep DEF ServerInv
<1> QED
  BY <1>1, <1>2, SessionsKept, PTL DEF Spec

(* Two instances of one module say the same. *)
LEMMA SameRooms ==
    /\ Rooms!Init <=> RoomProofs!Init
    /\ Rooms!vars = RoomProofs!vars
    /\ Rooms!Next <=> RoomProofs!Next
    /\ Rooms!SeatingOK <=> RoomProofs!SeatingOK
<1>1. Rooms!Init <=> RoomProofs!Init
  BY DEF Rooms!Init, RoomProofs!Init
<1>2. Rooms!vars = RoomProofs!vars
  BY Zenon DEF Rooms!vars, RoomProofs!vars, Rooms!games, RoomProofs!games, Rooms!allocator,
         RoomProofs!allocator
<1>3. Rooms!Next <=> RoomProofs!Next
  BY ZenonT(60) DEF
     Rooms!Next, RoomProofs!Next, Rooms!CreateMatch, RoomProofs!CreateMatch,
     Rooms!PartMatch, RoomProofs!PartMatch, Rooms!Logout, RoomProofs!Logout,
     Rooms!Evict, RoomProofs!Evict, Rooms!Ready, RoomProofs!Ready, Rooms!NotReady,
     RoomProofs!NotReady, Rooms!NoBeatmap, RoomProofs!NoBeatmap, Rooms!HasBeatmap,
     RoomProofs!HasBeatmap, Rooms!ChangeSettings, RoomProofs!ChangeSettings,
     Rooms!ChangeTeam, RoomProofs!ChangeTeam, Rooms!StartMatch,
     RoomProofs!StartMatch, Rooms!LoadComplete, RoomProofs!LoadComplete,
     Rooms!ScoreUpdate, RoomProofs!ScoreUpdate, Rooms!MatchComplete,
     RoomProofs!MatchComplete, Rooms!MatchIds, RoomProofs!MatchIds,
     Rooms!JoinMatch, RoomProofs!JoinMatch, Rooms!JoinVanishedMatch,
     RoomProofs!JoinVanishedMatch, Rooms!Slots, RoomProofs!Slots,
     Rooms!ChangeSlot, RoomProofs!ChangeSlot, Rooms!LockSlot, RoomProofs!LockSlot,
     Rooms!ChangeHost, RoomProofs!ChangeHost, Rooms!PrunerTick,
     RoomProofs!PrunerTick, Rooms!games, RoomProofs!games, Rooms!allocator,
     RoomProofs!allocator, Rooms!RoomsWithout, RoomProofs!RoomsWithout,
     Rooms!NewRoom, RoomProofs!NewRoom, Rooms!NextId, RoomProofs!NextId,
     Rooms!ForgetGames, RoomProofs!ForgetGames, Rooms!Disbanded,
     RoomProofs!Disbanded, Rooms!Seated, RoomProofs!Seated, Rooms!TryFinish,
     RoomProofs!TryFinish, Rooms!RemoveSessions, RoomProofs!RemoveSessions,
     Rooms!SetStatus, RoomProofs!SetStatus, Rooms!Hosts, RoomProofs!Hosts,
     Rooms!SlotOf, RoomProofs!SlotOf, Rooms!SlotsIn, RoomProofs!SlotsIn,
     Rooms!TakeSlot, RoomProofs!TakeSlot, Rooms!DefaultSlot,
     RoomProofs!DefaultSlot, Rooms!HasPlayer, RoomProofs!HasPlayer,
     Rooms!LeftBehind, RoomProofs!LeftBehind, Rooms!Leavers, RoomProofs!Leavers,
     Rooms!PlayerSlots, RoomProofs!PlayerSlots, Rooms!SlotsWithout,
     RoomProofs!SlotsWithout, Rooms!SlotsOf, RoomProofs!SlotsOf, Rooms!Settled,
     RoomProofs!Settled, Rooms!Finished, RoomProofs!Finished, Rooms!First,
     RoomProofs!First, Rooms!Concluded, RoomProofs!Concluded, Rooms!GameOver,
     RoomProofs!GameOver, Rooms!Put, RoomProofs!Put, Rooms!Without,
     RoomProofs!Without, Rooms!Restrict, RoomProofs!Restrict
<1>4. Rooms!SeatingOK <=> RoomProofs!SeatingOK
  BY Zenon DEF
     Rooms!SeatingOK, RoomProofs!SeatingOK, Rooms!OccupiedSlots,
     RoomProofs!OccupiedSlots, Rooms!SeatsAreMapped, RoomProofs!SeatsAreMapped,
     Rooms!OneSlotEach, RoomProofs!OneSlotEach, Rooms!HostSeated,
     RoomProofs!HostSeated, Rooms!PlayingInProgress, RoomProofs!PlayingInProgress,
     Rooms!Slots, RoomProofs!Slots, Rooms!HasPlayer, RoomProofs!HasPlayer,
     Rooms!SlotsOf, RoomProofs!SlotsOf, Rooms!SlotsIn, RoomProofs!SlotsIn
<1> QED
  BY <1>1, <1>2, <1>3, <1>4

(* What is proved of the rooms in MatchRoomsProofs holds of the server's. *)
LEMMA RoomsOfTheServer == Spec => RoomProofs!Spec
<1>1. [Rooms!Next]_(Rooms!vars) => [RoomProofs!Next]_(RoomProofs!vars)
  BY SameRooms DEF Rooms!vars, RoomProofs!vars, Rooms!games, RoomProofs!games,
                   Rooms!allocator, RoomProofs!allocator
<1>2. Rooms!Spec => RoomProofs!Spec
  BY <1>1, SameRooms, PTL DEF Rooms!Spec, RoomProofs!Spec
<1> QED
  BY Implements, <1>2, PTL

(* The seating of the rooms is right in the server as a whole. *)
THEOREM ServerSeating == Spec => []Rooms!SeatingOK
<1>1. RoomProofs!RoomsAssumption
  BY ServerAssumption DEF RoomProofs!RoomsAssumption
<1>2. RoomProofs!Spec => []RoomProofs!SeatingOK
  BY <1>1, RoomProofs!SeatingCorrect
<1> QED
  BY <1>2, RoomsOfTheServer, SameRooms, PTL

(* Every room is run by somebody with a session: its host has a seat, the  *)
(* seat is mapped, and who is mapped is online.                            *)
THEOREM HostsStayOnline == Spec => []HostsOnline
<1>1. RoomProofs!RoomsAssumption
  BY ServerAssumption DEF RoomProofs!RoomsAssumption
<1>2. RoomProofs!Spec => []RoomProofs!TypeOK
  BY <1>1, RoomProofs!TypeCorrect
<1>3. ASSUME RoomProofs!TypeOK, Rooms!SeatingOK, SeatsOnline PROVE HostsOnline
  <2> SUFFICES ASSUME ~stray, NEW m \in DOMAIN matches PROVE matches[m].host \in Online
    BY DEF HostsOnline
  <2>1. PICK u : u = matches[m].host
    OBVIOUS
  <2>2. u # NoUser
    BY <1>3, <2>1, ServerAssumption DEF RoomProofs!TypeOK, RoomProofs!Room
  <2>3. PICK i \in Rooms!Slots : matches[m].slots[i].user = u
    BY <1>3, <2>1 DEF Rooms!SeatingOK, Rooms!HostSeated, Rooms!SlotsOf
  <2>4. u \in DOMAIN userToMatch
    BY <1>3, <2>2, <2>3 DEF Rooms!SeatingOK, Rooms!SeatsAreMapped
  <2> QED
    BY <1>3, <2>1, <2>4 DEF SeatsOnline
<1> QED
  BY <1>2, <1>3, RoomsOfTheServer, ServerSeating, SeatsStayOnline, PTL

-----------------------------------------------------------------------------
(* Talk: who has which session, who has been shown what, and who has been *)
(* warned of whom.                                                        *)

(* what a request may be about to do *)
Actions ==
    {[step |-> s] : s \in {"unborn", "idle", "login", "join"}}
    \cup [step : {"enter", "reply"}, seen : SUBSET Nat]
    \cup [step : {"send", "ask"}, message : Nat]
    \cup [step : {"pair", "warn", "deliver"}, to : Users, via : Tokens]

(* Each user has one session at most, and it is the one that is found. *)
TableOK ==
    /\ present \subseteq Tokens
    /\ latest \in [DOMAIN latest -> Tokens] /\ DOMAIN latest \subseteq Users
    /\ doing \in [Tokens -> Actions]
    /\ \A t \in present : Owner[t] \in DOMAIN latest /\ latest[Owner[t]] = t
    /\ \A t \in Tokens : doing[t].step \in {"login", "enter"} =>
            \A s \in Tokens : Owner[s] = Owner[t] =>
                s \notin present /\ (doing[s].step \in {"login", "enter"} => s = t)

(* Whoever is about to warn of a pair is alone in it, and nobody has been  *)
(* warned of it yet.                                                       *)
WarnsOf(t, u, v) == doing[t].step = "warn" /\ {Owner[t], doing[t].to} = {u, v}

PairOK(u, v) ==
    /\ warnings[u][v] <= 1
    /\ {u, v} \notin warnedPairs => warnings[u][v] = 0
    /\ \A t \in Tokens : WarnsOf(t, u, v) =>
            /\ {u, v} \in warnedPairs /\ warnings[u][v] = 0
            /\ \A s \in Tokens : WarnsOf(s, u, v) => s = t

PairsOK ==
    /\ warnings \in [Users -> [Users -> Nat]]
    /\ \A u, v \in Users : u # v => PairOK(u, v)

-----------------------------------------------------------------------------
(* Steps that mark and warn of no pair. *)
LEMMA QuietSteps ==
    ASSUME PairsOK, UNCHANGED <<warnedPairs, warnings>>,
           \A t \in Tokens : doing'[t].step = "warn" => doing'[t] = doing[t]
    PROVE  PairsOK'
<1>1. \A t \in Tokens, u, v \in Users : WarnsOf(t, u, v)' => WarnsOf(t, u, v)
  BY DEF WarnsOf
<1>2. ASSUME NEW u \in Users, NEW v \in Users, u # v
      PROVE  PairOK(u, v)'
  <2>1. PairOK(u, v)
    BY <1>2 DEF PairsOK
  <2> QED
    BY <1>1, <2>1 DEF PairOK
<1> QED
  BY <1>2 DEF PairsOK

(* One request goes on. *)
LEMMA RequestGoes ==
    ASSUME TableOK, NEW t \in Tokens, NEW r, Goes(t, r)
    PROVE  doing'[t] = r /\ \A s \in Tokens \ {t} : doing'[s] = doing[s]
BY DEF Goes, TableOK

(* Who marks a pair first is the one to warn; nobody else is about to. *)
LEMMA MarkPairKeepsPairs ==
    ASSUME TableOK, PairsOK, NEW t \in Tokens, MarkPair(t)
    PROVE  PairsOK'
<1>1. PICK key, r : key = {Owner[t], doing[t].to} /\
            r = [doing[t] EXCEPT !.step = IF key \in warnedPairs THEN "deliver" ELSE "warn"]
  OBVIOUS
<1>2. doing[t].step = "pair" /\ warnedPairs' = warnedPairs \cup {key} /\ Goes(t, r) /\ warnings' = warnings
  BY <1>1 DEF MarkPair, PairKey, At
<1>3. r.to = doing[t].to /\ r.step = IF key \in warnedPairs THEN "deliver" ELSE "warn"
  <2>1. doing[t] \in [step : {"pair", "warn", "deliver"}, to : Users, via : Tokens]
    BY <1>2 DEF TableOK, Actions
  <2> QED
    BY <1>1, <2>1
<1>4. doing'[t] = r /\ \A s \in Tokens \ {t} : doing'[s] = doing[s]
  BY <1>2, RequestGoes
<1>5. ASSUME NEW u \in Users, NEW v \in Users, u # v
      PROVE  PairOK(u, v)'
  <2>1. PairOK(u, v) /\ warnings[u][v] \in Nat
    BY <1>5 DEF PairsOK
  <2>2. \A s \in Tokens \ {t} : WarnsOf(s, u, v)' = WarnsOf(s, u, v)
    BY <1>4 DEF WarnsOf
  <2>3. WarnsOf(t, u, v)' <=> (key = {u, v} /\ key \notin warnedPairs)
    BY <1>1, <1>3, <1>4 DEF WarnsOf
  <2>4. ({u, v} \in warnedPairs)' <=> ({u, v} \in warnedPairs \/ key = {u, v})
    BY <1>2
  <2> QED
    BY <1>2, <2>1, <2>2, <2>3, <2>4 DEF PairOK
<1> QED
  BY <1>2, <1>5 DEF PairsOK

(* Both sides are warned, and the one who warns is done with it. *)
LEMMA WarnKeepsPairs ==
    ASSUME TableOK, PairsOK, NEW t \in Tokens, Warn(t)
    PROVE  PairsOK'
<1>1. PICK r, a, b : r = [doing[t] EXCEPT !.step = "deliver"] /\ a = Owner[t] /\ b = doing[t].to
  OBVIOUS
<1>2. doing[t].step = "warn" /\ Goes(t, r) /\ warnedPairs' = warnedPairs
  BY <1>1 DEF Warn, At
<1>3. doing[t] \in [step : {"pair", "warn", "deliver"}, to : Users, via : Tokens]
  BY <1>2 DEF TableOK, Actions
<1>4. r.step = "deliver" /\ a \in Users /\ b \in Users
  BY <1>1, <1>3, LoginsAssumption
<1>5. doing'[t] = r /\ \A s \in Tokens \ {t} : doing'[s] = doing[s]
  BY <1>2, RequestGoes
<1>6. /\ warnings' \in [Users -> [Users -> Nat]]
      /\ \A u, v \in Users : u # v =>
            /\ warnings'[u][v] \in {warnings[u][v], warnings[u][v] + 1}
            /\ warnings'[u][v] # warnings[u][v] => {u, v} = {a, b}
  <2>1. warnings' = [warnings EXCEPT ![a][b] = IF t \in present THEN @ + 1 ELSE @,
                                      ![b][a] = IF doing[t].via \in present THEN @ + 1 ELSE @]
    BY <1>1 DEF Warn
  <2>2. warnings \in [Users -> [Users -> Nat]]
    BY DEF PairsOK
  <2>4. CASE a = b
    <3>1. \A u \in Users \ {a} : warnings'[u] = warnings[u]
      BY <1>4, <2>1, <2>2, <2>4
    <3>2. warnings' \in [Users -> [Users -> Nat]]
      BY <1>4, <2>1, <2>2, <2>4
    <3>3. \A v \in Users \ {a} : warnings'[a][v] = warnings[a][v]
      BY <1>4, <2>1, <2>2, <2>4
    <3> QED
      BY <3>1, <3>2, <3>3
  <2>5. CASE a # b
    <3>1. \A u \in Users \ {a, b} : warnings'[u] = warnings[u]
      BY <1>4, <2>1, <2>2, <2>5
    <3>2. /\ warnings'[a] = [warnings[a] EXCEPT ![b] = IF t \in present THEN @ + 1 ELSE @]
          /\ warnings'[b] = [warnings[b] EXCEPT ![a] = IF doing[t].via \in present THEN @ + 1 ELSE @]
      BY <1>4, <2>1, <2>2, <2>5
    <3>3. DOMAIN warnings' = Users
      BY <2>1, <2>2
    <3>4. \A u \in Users : warnings'[u] \in [Users -> Nat]
      <4>1. warnings[a] \in [Users -> Nat] /\ warnings[b] \in [Users -> Nat]
        BY <1>4, <2>2
      <4>2. warnings'[a] \in [Users -> Nat]
        BY <1>4, <3>2, <4>1
      <4>3. warnings'[b] \in [Users -> Nat]
        BY <1>4, <3>2, <4>1
      <4> QED
        BY <2>2, <3>1, <4>2, <4>3
    <3>5. warnings' \in [Users -> [Users -> Nat]]
      <4>1. warnings' = [u \in Users |-> warnings'[u]]
        BY <2>1, <2>2
      <4> QED
        BY <3>4, <4>1
    <3>6. \A v \in Users : /\ warnings'[a][v] \in {warnings[a][v], warnings[a][v] + 1} /\ (v # b => warnings'[a][v] = warnings[a][v])
                           /\ warnings'[b][v] \in {warnings[b][v], warnings[b][v] + 1} /\ (v # a => warnings'[b][v] = warnings[b][v])
      BY <1>4, <2>2, <3>2
    <3> QED
      BY <1>4, <2>2, <3>1, <3>5, <3>6
  <2> QED
    BY <2>4, <2>5
<1>7. ASSUME NEW u \in Users, NEW v \in Users, u # v
      PROVE  PairOK(u, v)'
  <2>1. PairOK(u, v) /\ warnings[u][v] \in Nat
    BY <1>7 DEF PairsOK
  <2>2. \A s \in Tokens \ {t} : WarnsOf(s, u, v)' = WarnsOf(s, u, v)
    BY <1>5 DEF WarnsOf
  <2>3. ~WarnsOf(t, u, v)'
    BY <1>4, <1>5 DEF WarnsOf
  <2>4. WarnsOf(t, u, v) <=> {u, v} = {a, b}
    BY <1>1, <1>2 DEF WarnsOf
  <2>5. CASE {u, v} = {a, b}
    <3>1. warnings[u][v] = 0 /\ {u, v} \in warnedPairs /\ \A s \in Tokens : WarnsOf(s, u, v) => s = t
      BY <2>1, <2>4, <2>5 DEF PairOK
    <3>2. warnings'[u][v] <= 1
      BY <1>6, <1>7, <3>1
    <3>3. \A s \in Tokens : ~WarnsOf(s, u, v)'
      BY <2>2, <2>3, <3>1
    <3> QED
      BY <1>2, <3>1, <3>2, <3>3 DEF PairOK
  <2>6. CASE {u, v} # {a, b}
    <3>1. warnings'[u][v] = warnings[u][v]
      BY <1>6, <1>7, <2>6
    <3>2. \A s \in Tokens : WarnsOf(s, u, v)' => WarnsOf(s, u, v)
      BY <2>2, <2>3
    <3> QED
      BY <1>2, <2>1, <3>1, <3>2 DEF PairOK
  <2> QED
    BY <2>5, <2>6
<1> QED
  BY <1>6, <1>7 DEF PairsOK

-----------------------------------------------------------------------------
(* the messages in the table *)
Stored == {rows[i] : i \in DOMAIN rows}

Replays == {None, [step |-> "asked"]} \cup [step : {"read"}, seen : SUBSET Nat]

Joins == {None} \cup [step : {"joined", "replayed"}, sent : SUBSET Nat, saved : SUBSET Nat]

(* What t has been shown since it joined, and will be shown by its replay. *)
Heard(t) ==
    /\ t \in present /\ Owner[t] \in listeners
    /\ \A m \in sent \ since[t].sent : said[m].by # Owner[t] => m \in shown[t]
    /\ since[t].saved \subseteq Stored
    /\ since[t].step = "replayed" => Newest(Limit) \cap since[t].saved \subseteq shown[t]
    /\ replay[t].step = "read" => Newest(Limit) \cap since[t].saved \subseteq replay[t].seen

SendsOwn(t) ==
    doing[t].step = "send" => doing[t].message \in Numbers /\ said[doing[t].message].by = Owner[t]

TalkOK ==
    /\ said \in Seq([by : Users, bot : BOOLEAN]) /\ rows \in Seq(Numbers)
    /\ saving \subseteq Numbers /\ saving \cap Stored = {}
    /\ sent \subseteq Numbers
    /\ since \in [Tokens -> Joins] /\ replay \in [Tokens -> Replays]
    /\ \A t \in Tokens : SendsOwn(t)
    /\ \A t \in Tokens : since[t] # None => Heard(t)

-----------------------------------------------------------------------------
(* The table stays as it is while a request goes on. *)
LEMMA TableStays ==
    ASSUME TableOK, UNCHANGED <<present, latest>>, NEW t \in Tokens, NEW r \in Actions, Goes(t, r),
           r.step = "enter" => doing[t].step = "login", r.step # "login"
    PROVE  TableOK'
<1>1. doing'[t] = r /\ \A s \in Tokens \ {t} : doing'[s] = doing[s]
  BY RequestGoes
<1>2. doing' \in [Tokens -> Actions]
  BY DEF TableOK, Goes
<1>3. \A s \in Tokens : doing'[s].step \in {"login", "enter"} => doing[s].step \in {"login", "enter"}
  BY <1>1
<1> QED
  BY <1>2, <1>3 DEF TableOK

(* With its session a user loses the entry that leads to it; who stays *)
(* keeps theirs.                                                       *)
LEMMA LastSession ==
    ASSUME TableOK, NEW S, EndSessions(S)
    PROVE  /\ present' \subseteq Tokens /\ present' = present \ S
           /\ latest' \in [DOMAIN latest' -> Tokens] /\ DOMAIN latest' \subseteq Users
           /\ \A t \in present' : /\ Owner[t] \in DOMAIN latest' /\ latest'[Owner[t]] = t
                                   /\ Owner[t] \notin OwnersOf(S \cap present)
<1> DEFINE out == OwnersOf(S \cap present)
<1>1. present' = present \ S /\ latest' = Without(latest, out)
  BY DEF EndSessions
<1>2. \A t \in present' : Owner[t] \notin out
  BY <1>1 DEF TableOK, OwnersOf
<1> HIDE DEF out
<1>3. DOMAIN latest' = DOMAIN latest \ out /\ \A u \in DOMAIN latest' : latest'[u] = latest[u]
      /\ latest' = [w \in DOMAIN latest \ out |-> latest[w]]
  BY <1>1 DEF Without, Restrict
<1>4. latest' \in [DOMAIN latest' -> Tokens]
  BY <1>1, TypedMaps DEF TableOK
<1>5. \A t \in present' : Owner[t] \in DOMAIN latest' /\ latest'[Owner[t]] = t
  BY <1>1, <1>2, <1>3 DEF TableOK
<1> QED
  BY <1>1, <1>2, <1>3, <1>4, <1>5 DEF TableOK, out

(* A login leaves the user without a session. *)
LEMMA EvictKeepsTable ==
    ASSUME TableOK, NEW t \in Tokens, Evict(t)
    PROVE  TableOK'
<1>1. EndSessions(Former(Owner[t])) /\ Goes(t, [step |-> "login"])
      /\ \A s \in Tokens : Owner[s] = Owner[t] => doing[s].step \notin {"login", "enter"}
  BY DEF Evict
<1>2. PICK r : r = [step |-> "login"]
  OBVIOUS
<1>3. r \in Actions /\ r.step = "login"
  BY <1>2 DEF Actions
<1>4. doing' \in [Tokens -> Actions] /\ doing'[t] = r /\ \A s \in Tokens \ {t} : doing'[s] = doing[s]
  BY <1>1, <1>2, <1>3 DEF TableOK, Goes
<1>5. \A s \in present' : s \in present /\ Owner[s] # Owner[t]
  <2>1. present' = present \ Former(Owner[t])
    BY <1>1, LastSession
  <2>2. \A s \in present : Owner[s] = Owner[t] => s \in Former(Owner[t])
    BY DEF TableOK, Former
  <2> QED
    BY <2>1, <2>2
<1>6. \A x \in Tokens : doing'[x].step \in {"login", "enter"} =>
            \A s \in Tokens : Owner[s] = Owner[x] =>
                s \notin present' /\ (doing'[s].step \in {"login", "enter"} => s = x)
  <2> SUFFICES ASSUME NEW x \in Tokens, doing'[x].step \in {"login", "enter"},
                      NEW s \in Tokens, Owner[s] = Owner[x]
               PROVE  s \notin present' /\ (doing'[s].step \in {"login", "enter"} => s = x)
    OBVIOUS
  <2>1. CASE x = t
    BY <1>1, <1>4, <1>5, <2>1
  <2>2. CASE x # t
    <3>1. doing[x].step \in {"login", "enter"} /\ Owner[x] # Owner[t]
      BY <1>1, <1>4, <2>2
    <3> QED
      BY <1>4, <1>5, <3>1 DEF TableOK
  <2> QED
    BY <2>1, <2>2
<1> QED
  BY <1>1, <1>4, <1>6, LastSession DEF TableOK

(* Thus the session it adds is the only one. *)
LEMMA EnterKeepsTable ==
    ASSUME TableOK, NEW t \in Tokens, EnterChat(t)
    PROVE  TableOK'
<1>1. /\ doing[t].step = "enter" /\ Goes(t, [step |-> "idle"]) /\ present' = present \cup {t}
      /\ latest' = Put(latest, Owner[t], t)
  BY DEF EnterChat, At, Done
<1>2. PICK r : r = [step |-> "idle"]
  OBVIOUS
<1>3. r \in Actions /\ r.step = "idle"
  BY <1>2 DEF Actions
<1>4. doing' \in [Tokens -> Actions] /\ doing'[t] = r /\ \A s \in Tokens \ {t} : doing'[s] = doing[s]
  BY <1>1, <1>2, <1>3 DEF TableOK, Goes
<1>5. \A s \in present : Owner[s] # Owner[t]
  BY <1>1 DEF TableOK
<1>6. /\ DOMAIN latest' = DOMAIN latest \cup {Owner[t]} /\ latest'[Owner[t]] = t
      /\ \A u \in DOMAIN latest \ {Owner[t]} : latest'[u] = latest[u]
      /\ latest' \in [DOMAIN latest' -> Tokens] /\ DOMAIN latest' \subseteq Users
  BY <1>1, LoginsAssumption DEF Put, TableOK
<1>7. \A s \in present' : s \in Tokens /\ Owner[s] \in DOMAIN latest' /\ latest'[Owner[s]] = s
  BY <1>1, <1>5, <1>6 DEF TableOK
<1>8. \A x \in Tokens : doing'[x].step \in {"login", "enter"} =>
            \A s \in Tokens : Owner[s] = Owner[x] =>
                s \notin present' /\ (doing'[s].step \in {"login", "enter"} => s = x)
  <2> SUFFICES ASSUME NEW x \in Tokens, doing'[x].step \in {"login", "enter"},
                      NEW s \in Tokens, Owner[s] = Owner[x]
               PROVE  s \notin present' /\ (doing'[s].step \in {"login", "enter"} => s = x)
    OBVIOUS
  <2>1. x # t /\ doing[x].step \in {"login", "enter"}
    BY <1>3, <1>4
  <2>2. Owner[x] # Owner[t]
    BY <1>1, <2>1 DEF TableOK
  <2> QED
    BY <1>1, <1>3, <1>4, <2>1, <2>2 DEF TableOK
<1> QED
  BY <1>4, <1>6, <1>7, <1>8 DEF TableOK

(* Logout and time-out. *)
LEMMA EndKeepsTable ==
    ASSUME TableOK, NEW t \in Tokens, End(t)
    PROVE  TableOK'
<1>1. EndSessions({t}) /\ doing' = doing
  BY DEF End
<1> QED
  BY <1>1, LastSession DEF TableOK

(* Steps of other tasks. *)
LEMMA OthersKeepTable ==
    ASSUME TableOK, UNCHANGED <<present, latest, doing>>
    PROVE  TableOK'
BY DEF TableOK

(* What was heard stays heard as long as the session is there. *)
LEMMA HeardStays ==
    ASSUME NEW t, Heard(t), t \in present', Owner[t] \in listeners', since'[t] = since[t],
           UNCHANGED <<said, rows, sent>>, shown[t] \subseteq shown'[t],
           replay'[t].step = "read" => replay'[t] = replay[t]
    PROVE  Heard(t)'
<1>1. Stored' = Stored /\ Newest(Limit)' = Newest(Limit)
  BY DEF Stored, Newest
<1> QED
  BY <1>1 DEF Heard

(* Steps after which everybody has seen what they had, or more. *)
LEMMA TalkStays ==
    ASSUME TalkOK, UNCHANGED <<said, saving, rows, sent, since>>, replay' \in [Tokens -> Replays],
           \A t \in Tokens : doing'[t].step = "send" => doing'[t] = doing[t],
           present \subseteq present', listeners \subseteq listeners',
           \A t \in Tokens : shown[t] \subseteq shown'[t],
           \A t \in Tokens : replay'[t].step = "read" => replay'[t] = replay[t]
    PROVE  TalkOK'
<1>1. Stored' = Stored
  BY DEF Stored
<1>2. \A t \in Tokens : SendsOwn(t)'
  BY DEF TalkOK, SendsOwn, Numbers
<1>3. ASSUME NEW t \in Tokens, since'[t] # None
      PROVE  Heard(t)'
  <2>1. Heard(t)
    BY <1>3 DEF TalkOK
  <2>2. t \in present' /\ Owner[t] \in listeners'
    BY <2>1 DEF Heard
  <2> QED
    BY <2>1, <2>2, HeardStays
<1> QED
  BY <1>1, <1>2, <1>3 DEF TalkOK, Numbers

(* Steps without a message. *)
LEMMA TalkSilent ==
    ASSUME TalkOK, UNCHANGED <<chatTable, spoken>>,
           \A t \in Tokens : doing'[t].step = "send" => doing'[t] = doing[t]
    PROVE  TalkOK'
<1>1. replay' \in [Tokens -> Replays]
  BY DEF spoken, TalkOK
<1> QED
  BY <1>1, TalkStays DEF chatTable, spoken

(* With its session goes what it saw; others keep theirs. *)
LEMMA LeavingKeepsTalk ==
    ASSUME TableOK, TalkOK, NEW S, EndSessions(S), UNCHANGED <<said, saving, rows, sent, replay>>,
           \A t \in Tokens : doing'[t].step = "send" => doing'[t] = doing[t]
    PROVE  TalkOK'
<1>1. Stored' = Stored /\ \A t \in Tokens : SendsOwn(t)'
  BY DEF Stored, TalkOK, SendsOwn, Numbers
<1>2. PICK gone : gone = S \cap present
  OBVIOUS
<1>3. /\ listeners' = listeners \ OwnersOf(gone)
      /\ shown' = [t \in Tokens |-> IF t \in gone THEN {} ELSE shown[t]]
      /\ since' = [t \in Tokens |-> IF t \in gone THEN None ELSE since[t]]
  BY <1>2 DEF EndSessions
<1>4. since' \in [Tokens -> Joins]
  BY <1>3 DEF TalkOK, Joins
<1>5. ASSUME NEW t \in Tokens, since'[t] # None
      PROVE  Heard(t)'
  <2>1. t \notin gone /\ since'[t] = since[t] /\ shown'[t] = shown[t]
    BY <1>3, <1>5
  <2>2. Heard(t)
    BY <1>5, <2>1 DEF TalkOK
  <2>3. t \in present'
    <3>1. present' = present \ S
      BY LastSession
    <3> QED
      BY <1>2, <2>1, <2>2, <3>1 DEF Heard
  <2>4. Owner[t] \notin OwnersOf(gone)
    BY <1>2, <2>3, LastSession
  <2>5. Owner[t] \in listeners'
    BY <1>3, <2>2, <2>4 DEF Heard
  <2> QED
    BY <2>1, <2>2, <2>3, <2>5, HeardStays
<1> QED
  BY <1>1, <1>4, <1>5 DEF TalkOK, Numbers

(* A message has a number of its own, and is not stored yet. *)
LEMMA SayKeepsTalk ==
    ASSUME TableOK, TalkOK, NEW t \in Tokens, NEW bot \in BOOLEAN, Say(t, bot)
    PROVE  TalkOK'
<1>1. PICK n, r, w : /\ n = Len(said) + 1 /\ w = [by |-> Owner[t], bot |-> bot]
                     /\ r = [step |-> IF bot THEN "ask" ELSE "send", message |-> Len(said) + 1]
  OBVIOUS
<1>2. said' = Append(said, w) /\ saving' = saving \cup {n} /\ Goes(t, r)
      /\ UNCHANGED <<chatTable, rows, sent, replay, shown, since>>
  BY <1>1 DEF Say
<1>3. w \in [by : Users, bot : BOOLEAN] /\ w.by = Owner[t]
  BY <1>1, LoginsAssumption
<1>4. /\ said' \in Seq([by : Users, bot : BOOLEAN])
      /\ Numbers = 1 .. Len(said) /\ Numbers' = Numbers \cup {n} /\ n \notin Numbers
      /\ said'[n] = w /\ \A m \in Numbers : said'[m] = said[m]
  BY <1>1, <1>2, <1>3 DEF TalkOK, Numbers
<1>5. rows' \in Seq(Numbers')
  <2>1. rows \in Seq(Numbers)
    BY DEF TalkOK
  <2>2. \A i \in 1 .. Len(rows) : rows[i] \in Numbers'
    BY <1>4, <2>1, ElementOfSeq
  <2> QED
    BY <1>2, <2>1, <2>2
<1>6. Stored' = Stored /\ Stored \subseteq Numbers /\ Newest(Limit)' = Newest(Limit)
  <2>1. rows \in Seq(Numbers)
    BY DEF TalkOK
  <2> QED
    BY <1>2, <2>1 DEF Stored, Newest
<1>7. \A s \in Tokens : SendsOwn(s)'
  <2>1. doing'[t] = r /\ \A s \in Tokens \ {t} : doing'[s] = doing[s]
    BY <1>2, RequestGoes
  <2>2. SendsOwn(t)'
    BY <1>1, <1>3, <1>4, <2>1 DEF SendsOwn
  <2>3. \A s \in Tokens \ {t} : SendsOwn(s)'
    BY <1>4, <2>1 DEF SendsOwn, TalkOK
  <2> QED
    BY <2>2, <2>3
<1>8. ASSUME NEW s \in Tokens, since'[s] # None
      PROVE  Heard(s)'
  <2>1. Heard(s)
    BY <1>2, <1>8 DEF TalkOK
  <2>2. \A m \in sent : said'[m] = said[m]
    BY <1>4 DEF TalkOK
  <2> QED
    BY <1>2, <1>6, <2>1, <2>2 DEF Heard, chatTable
<1> QED
  BY <1>2, <1>4, <1>5, <1>6, <1>7, <1>8 DEF TalkOK

(* Everybody in the channel with a session is reached. *)
LEMMA Reaches ==
    ASSUME TableOK, NEW U, NEW s \in present, Owner[s] \in U
    PROVE  s \in Reached(U)
BY DEF TableOK, Reached

(* A broadcast reaches whoever has joined and not said it. *)
LEMMA SendKeepsTalk ==
    ASSUME TableOK, TalkOK, NEW t \in Tokens, Send(t)
    PROVE  TalkOK'
<1>1. PICK m, T : m = doing[t].message /\ T = Reached(listeners \ {Owner[t]})
  OBVIOUS
<1>2. /\ doing[t].step = "send" /\ sent' = sent \cup {m} /\ Goes(t, [step |-> "idle"])
      /\ shown' = [s \in Tokens |-> IF s \in T THEN shown[s] \cup {m} ELSE shown[s]]
      /\ UNCHANGED <<chatTable, said, saving, rows, replay, since>>
  BY <1>1 DEF Send, Done, At, Show
<1>3. m \in Numbers /\ said[m].by = Owner[t]
  BY <1>1, <1>2 DEF TalkOK, SendsOwn
<1>4. Stored' = Stored /\ Newest(Limit)' = Newest(Limit) /\ Numbers' = Numbers
  BY <1>2 DEF Stored, Newest, Numbers
<1>5. \A s \in Tokens : SendsOwn(s)'
  <2>1. PICK r : r = [step |-> "idle"]
    OBVIOUS
  <2>2. doing'[t] = r /\ \A s \in Tokens \ {t} : doing'[s] = doing[s]
    BY <1>2, <2>1, RequestGoes
  <2> QED
    BY <1>2, <2>1, <2>2 DEF SendsOwn, TalkOK, Numbers
<1>6. ASSUME NEW s \in Tokens, since'[s] # None
      PROVE  Heard(s)'
  <2>1. Heard(s)
    BY <1>2, <1>6 DEF TalkOK
  <2>2. Owner[s] # Owner[t] => s \in T
    <3>1. s \in present /\ Owner[s] \in listeners
      BY <2>1 DEF Heard
    <3> QED
      BY <1>1, <3>1, Reaches
  <2>3. shown[s] \subseteq shown'[s] /\ (Owner[s] # Owner[t] => m \in shown'[s])
    BY <1>2, <2>2
  <2> QED
    BY <1>2, <1>3, <1>4, <2>1, <2>3 DEF Heard, chatTable
<1> QED
  BY <1>2, <1>3, <1>4, <1>5, <1>6 DEF TalkOK

(* The newest rows after one more. *)
LEMMA NewestGrows ==
    ASSUME NEW n \in Nat, NEW m, rows \in Seq(Numbers), rows' = Append(rows, m)
    PROVE  Newest(n)' \subseteq Newest(n) \cup {m} /\ Stored' = Stored \cup {m}
<1>1. Len(rows') = Len(rows) + 1 /\ DOMAIN rows' = 1 .. Len(rows) + 1 /\ DOMAIN rows = 1 .. Len(rows)
      /\ Len(rows) \in Nat
  BY DEF Numbers
<1>2. rows'[Len(rows) + 1] = m /\ \A i \in 1 .. Len(rows) : rows'[i] = rows[i]
  BY DEF Numbers
<1> QED
  BY <1>1, <1>2 DEF Newest, Stored

(* A message that is stored was not there when anybody joined, so that of  *)
(* what was there no more is among the newest.                             *)
LEMMA SaveKeepsTalk ==
    ASSUME TalkOK, NEW m \in Numbers, Save(m)
    PROVE  TalkOK'
<1>1. /\ m \in saving /\ saving' = saving \ {m} /\ rows' \in {Append(rows, m), rows}
      /\ UNCHANGED <<chatTable, doing, said, sent, replay, shown, since>>
  BY DEF Save
<1>2. CASE rows' = rows
  <2>1. Stored' = Stored /\ \A t \in Tokens : SendsOwn(t)'
    BY <1>1, <1>2 DEF Stored, TalkOK, SendsOwn, Numbers
  <2>2. ASSUME NEW t \in Tokens, since'[t] # None
        PROVE  Heard(t)'
    <3>1. Heard(t)
      BY <1>1, <2>2 DEF TalkOK
    <3> QED
      BY <1>1, <1>2, <3>1, HeardStays DEF Heard, chatTable
  <2> QED
    BY <1>1, <1>2, <2>1, <2>2 DEF TalkOK, Numbers
<1>3. CASE rows' = Append(rows, m)
  <2>1. rows \in Seq(Numbers) /\ Limit \in Nat
    BY ChatAssumption DEF TalkOK
  <2>2. Newest(Limit)' \subseteq Newest(Limit) \cup {m} /\ Stored' = Stored \cup {m}
    BY <1>3, <2>1, NewestGrows
  <2>3. rows' \in Seq(Numbers)
    BY <1>3, <2>1
  <2>4. ASSUME NEW t \in Tokens, since'[t] # None
        PROVE  Heard(t)'
    <3>1. Heard(t)
      BY <1>1, <2>4 DEF TalkOK
    <3>2. m \notin since[t].saved
      BY <1>1, <3>1 DEF Heard, TalkOK
    <3>3. Newest(Limit)' \cap since[t].saved \subseteq Newest(Limit) \cap since[t].saved
      BY <2>2, <3>2
    <3> QED
      BY <1>1, <2>2, <3>1, <3>3 DEF Heard, chatTable
  <2>5. \A t \in Tokens : SendsOwn(t)'
    BY <1>1 DEF TalkOK, SendsOwn, Numbers
  <2> QED
    BY <1>1, <2>2, <2>3, <2>4, <2>5 DEF TalkOK, Numbers
<1> QED
  BY <1>1, <1>2, <1>3

(* Who joins has missed nothing yet, and the replay is read later. *)
LEMMA BecomeMemberKeepsTalk ==
    ASSUME TableOK, TalkOK, NEW t \in Tokens, BecomeMember(t)
    PROVE  TalkOK'
<1>1. PICK x, a : /\ x = IF t \in present THEN [step |-> "joined", sent |-> sent, saved |-> Newest(Limit)] ELSE None
                  /\ a = [step |-> "asked"]
  OBVIOUS
<1>2. /\ listeners' = listeners \cup {Owner[t]} /\ since' = [since EXCEPT ![t] = x]
      /\ replay' = [replay EXCEPT ![t] = a] /\ Goes(t, [step |-> "idle"])
      /\ UNCHANGED <<present, latest, said, saving, rows, sent, shown>>
  BY <1>1 DEF BecomeMember, Membership, Done
<1>3. Stored' = Stored /\ Newest(Limit) \subseteq Stored /\ Stored \subseteq Nat /\ sent \subseteq Nat
  <2>1. rows \in Seq(Numbers) /\ said \in Seq([by : Users, bot : BOOLEAN])
    BY DEF TalkOK
  <2>2. Stored \subseteq Numbers
    BY <2>1 DEF Stored
  <2>3. Numbers \subseteq Nat
    BY <2>1 DEF Numbers
  <2> QED
    BY <1>2, <2>2, <2>3 DEF Stored, Newest, TalkOK
<1>4. x \in Joins /\ a \in Replays /\ a.step = "asked"
  BY <1>1, <1>3 DEF Joins, Replays
<1>5. since' \in [Tokens -> Joins] /\ replay' \in [Tokens -> Replays]
      /\ since'[t] = x /\ replay'[t] = a
      /\ \A s \in Tokens \ {t} : since'[s] = since[s] /\ replay'[s] = replay[s]
  BY <1>2, <1>4 DEF TalkOK
<1>6. \A s \in Tokens : SendsOwn(s)'
  <2>1. PICK r : r = [step |-> "idle"]
    OBVIOUS
  <2>2. doing'[t] = r /\ \A s \in Tokens \ {t} : doing'[s] = doing[s]
    BY <1>2, <2>1, RequestGoes
  <2>3. SendsOwn(t)'
    BY <2>1, <2>2 DEF SendsOwn
  <2>4. \A s \in Tokens \ {t} : SendsOwn(s)'
    BY <1>2, <2>2 DEF SendsOwn, TalkOK, Numbers
  <2> QED
    BY <2>3, <2>4
<1>7. ASSUME NEW s \in Tokens \ {t}, since'[s] # None
      PROVE  Heard(s)'
  <2>1. Heard(s)
    BY <1>5, <1>7 DEF TalkOK
  <2> QED
    BY <1>2, <1>5, <2>1, HeardStays DEF Heard
<1>8. ASSUME since'[t] # None
      PROVE  Heard(t)'
  <2>1. t \in present /\ x = [step |-> "joined", sent |-> sent, saved |-> Newest(Limit)]
    BY <1>1, <1>5, <1>8
  <2>2. x.step = "joined" /\ x.sent = sent /\ x.saved = Newest(Limit)
    BY <2>1
  <2> QED
    BY <1>2, <1>3, <1>4, <1>5, <2>1, <2>2 DEF Heard
<1> QED
  BY <1>2, <1>3, <1>5, <1>6, <1>7, <1>8 DEF TalkOK, Numbers

(* The replay has the newest of what was stored when it was asked for. *)
LEMMA ReadForReplayKeepsTalk ==
    ASSUME TableOK, TalkOK, NEW t \in Tokens, ReadForReplay(t)
    PROVE  TalkOK'
<1>1. PICK a : a = [step |-> "read", seen |-> Newest(Limit)]
  OBVIOUS
<1>2. /\ replay' = [replay EXCEPT ![t] = a]
      /\ UNCHANGED <<chatTable, doing, said, saving, rows, sent, shown, since>>
  BY <1>1 DEF ReadForReplay
<1>3. Stored' = Stored /\ Newest(Limit)' = Newest(Limit) /\ Newest(Limit) \subseteq Nat
  <2>1. rows \in Seq(Numbers) /\ said \in Seq([by : Users, bot : BOOLEAN])
    BY DEF TalkOK
  <2>2. Stored \subseteq Numbers
    BY <2>1 DEF Stored
  <2>3. Numbers \subseteq Nat
    BY <2>1 DEF Numbers
  <2> QED
    BY <1>2, <2>2, <2>3 DEF Stored, Newest
<1>4. a \in Replays /\ a.seen = Newest(Limit)
  BY <1>1, <1>3 DEF Replays
<1>5. replay' \in [Tokens -> Replays] /\ replay'[t] = a /\ \A s \in Tokens \ {t} : replay'[s] = replay[s]
  BY <1>2, <1>4 DEF TalkOK
<1>6. ASSUME NEW s \in Tokens, since'[s] # None
      PROVE  Heard(s)'
  <2>1. Heard(s)
    BY <1>2, <1>6 DEF TalkOK
  <2> QED
    BY <1>2, <1>3, <1>4, <1>5, <2>1 DEF Heard, chatTable
<1>7. \A s \in Tokens : SendsOwn(s)'
  BY <1>2 DEF TalkOK, SendsOwn, Numbers
<1> QED
  BY <1>2, <1>3, <1>5, <1>6, <1>7 DEF TalkOK, Numbers

(* Once it has come, it has been shown. *)
LEMMA ReplayedKeepsTalk ==
    ASSUME TableOK, TalkOK, NEW t \in Tokens, Replayed(t)
    PROVE  TalkOK'
<1>1. PICK x, M, T : /\ x = IF since[t] = None THEN None ELSE [since[t] EXCEPT !.step = "replayed"]
                     /\ M = replay[t].seen /\ T = {t} \cap present
  OBVIOUS
<1>2. /\ replay[t].step = "read"
      /\ shown' = [s \in Tokens |-> IF s \in T THEN shown[s] \cup M ELSE shown[s]]
      /\ replay' = [replay EXCEPT ![t] = None]
      /\ UNCHANGED <<chatTable, doing, said, saving, rows, sent>>
  BY <1>1 DEF Replayed, Show
<1>3. since' = [since EXCEPT ![t] = x]
  BY <1>1 DEF Replayed
<1>4. since[t] # None => /\ x.step = "replayed" /\ x.sent = since[t].sent /\ x.saved = since[t].saved
                          /\ x \in Joins
  <2>1. since[t] # None => since[t] \in [step : {"joined", "replayed"}, sent : SUBSET Nat, saved : SUBSET Nat]
    BY DEF TalkOK, Joins
  <2> QED
    BY <1>1, <2>1 DEF Joins
<1>5. since' \in [Tokens -> Joins] /\ replay' \in [Tokens -> Replays]
      /\ since'[t] = x /\ replay'[t] = None
      /\ \A s \in Tokens \ {t} : since'[s] = since[s] /\ replay'[s] = replay[s]
  <2>1. x \in Joins /\ None \in Replays
    BY <1>1, <1>4 DEF Joins, Replays
  <2> QED
    BY <1>2, <1>3, <2>1 DEF TalkOK
<1>6. Stored' = Stored /\ Newest(Limit)' = Newest(Limit) /\ None.step = "none"
  BY <1>2 DEF Stored, Newest, None
<1>7. \A s \in Tokens : shown[s] \subseteq shown'[s]
  BY <1>2
<1>8. ASSUME NEW s \in Tokens \ {t}, since'[s] # None
      PROVE  Heard(s)'
  <2>1. Heard(s)
    BY <1>5, <1>8 DEF TalkOK
  <2> QED
    BY <1>2, <1>5, <1>7, <2>1, HeardStays DEF Heard, chatTable
<1>9. ASSUME since'[t] # None
      PROVE  Heard(t)'
  <2>1. since[t] # None /\ Heard(t)
    BY <1>1, <1>5, <1>9 DEF TalkOK
  <2>2. M \subseteq shown'[t]
    BY <1>1, <1>2, <2>1 DEF Heard
  <2>3. Newest(Limit) \cap since[t].saved \subseteq M
    BY <1>1, <1>2, <2>1 DEF Heard
  <2> QED
    BY <1>2, <1>4, <1>5, <1>6, <1>7, <2>1, <2>2, <2>3 DEF Heard, chatTable
<1>10. \A s \in Tokens : SendsOwn(s)'
  BY <1>2 DEF TalkOK, SendsOwn, Numbers
<1> QED
  BY <1>2, <1>5, <1>6, <1>8, <1>9, <1>10 DEF TalkOK, Numbers

(* Who parts is no more to be shown anything; a user has one session. *)
LEMMA PartKeepsTalk ==
    ASSUME TableOK, TalkOK, NEW t \in Tokens, Part(t)
    PROVE  TalkOK'
<1>1. /\ t \in present /\ listeners' = listeners \ {Owner[t]} /\ since' = [since EXCEPT ![t] = None]
      /\ UNCHANGED <<present, latest, doing, said, saving, rows, sent, replay, shown>>
  BY DEF Part, Begins
<1>2. Stored' = Stored /\ \A s \in Tokens : SendsOwn(s)'
  <2>1. Stored' = Stored
    BY <1>1 DEF Stored
  <2>2. \A s \in Tokens : SendsOwn(s)'
    BY <1>1 DEF TalkOK, SendsOwn, Numbers
  <2> QED
    BY <2>1, <2>2
<1>3. since' \in [Tokens -> Joins] /\ since'[t] = None /\ \A s \in Tokens \ {t} : since'[s] = since[s]
  BY <1>1 DEF TalkOK, Joins
<1>4. ASSUME NEW s \in Tokens, since'[s] # None
      PROVE  Heard(s)'
  <2>1. s # t /\ since'[s] = since[s] /\ Heard(s)
    BY <1>3, <1>4 DEF TalkOK
  <2>2. Owner[s] # Owner[t]
    BY <1>1, <2>1 DEF Heard, TableOK
  <2> QED
    BY <1>1, <2>1, <2>2, HeardStays DEF Heard
<1> QED
  BY <1>1, <1>2, <1>3, <1>4 DEF TalkOK, Numbers

-----------------------------------------------------------------------------
ChatInv == TableOK /\ TalkOK /\ PairsOK

(* What is replayed are numbers of messages. *)
LEMMA NewestNumbers ==
    ASSUME TalkOK, NEW n
    PROVE  Newest(n) \in SUBSET Nat
<1>1. rows \in Seq(Numbers) /\ said \in Seq([by : Users, bot : BOOLEAN])
  BY DEF TalkOK
<1>2. Numbers \subseteq Nat
  BY <1>1 DEF Numbers
<1>3. Stored \subseteq Numbers
  BY <1>1 DEF Stored
<1>4. Newest(n) \subseteq Nat
  BY <1>2, <1>3 DEF Newest, Stored
<1> QED
  BY <1>4

(* A request that goes on without being about to warn. *)
LEMMA QuietGoing ==
    ASSUME TableOK, PairsOK, NEW t \in Tokens, NEW r, Goes(t, r), r.step # "warn", UNCHANGED <<warnedPairs, warnings>>
    PROVE  PairsOK'
<1>1. \A s \in Tokens : doing'[s].step = "warn" => doing'[s] = doing[s]
  BY RequestGoes
<1> QED
  BY <1>1, QuietSteps

(* A request that goes on without a word. *)
LEMMA Proceeds ==
    ASSUME ChatInv, NEW t \in Tokens, NEW r \in Actions, Goes(t, r), r.step \notin {"login", "send", "warn"},
           r.step = "enter" => doing[t].step = "login",
           UNCHANGED <<chatTable, spoken, warnedPairs, warnings>>
    PROVE  ChatInv'
<1>1. doing'[t] = r /\ \A s \in Tokens \ {t} : doing'[s] = doing[s]
  BY RequestGoes DEF ChatInv
<1>2. TableOK'
  BY TableStays DEF ChatInv, chatTable
<1>3. PairsOK'
  BY QuietGoing DEF ChatInv
<1>4. TalkOK'
  BY <1>1, TalkSilent DEF ChatInv
<1> QED
  BY <1>2, <1>3, <1>4 DEF ChatInv

(* Logins and the ends of sessions. *)
LEMMA SessionKeepsChat ==
    ASSUME ChatInv, NEW t \in Tokens, Session(t)
    PROVE  ChatInv'
<1>1. ASSUME Evict(t) PROVE ChatInv'
  <2>1. PICK r : r = [step |-> "login"]
    OBVIOUS
  <2>2. /\ EndSessions(Former(Owner[t])) /\ Goes(t, r) /\ r.step = "login"
        /\ UNCHANGED <<said, saving, rows, sent, replay, warnedPairs, warnings>>
    BY <1>1, <2>1 DEF Evict
  <2>3. TableOK'
    BY <1>1, EvictKeepsTable DEF ChatInv
  <2>4. PairsOK'
    BY <2>2, QuietGoing DEF ChatInv
  <2>5. \A s \in Tokens : doing'[s].step = "send" => doing'[s] = doing[s]
    BY <2>2, RequestGoes DEF ChatInv
  <2>6. TalkOK'
    BY <2>2, <2>5, LeavingKeepsTalk DEF ChatInv
  <2> QED
    BY <2>3, <2>4, <2>6 DEF ChatInv
<1>2. ASSUME ReadForLogin(t) PROVE ChatInv'
  <2>1. PICK seen \in {Newest(Limit), {}} : Goes(t, [step |-> "enter", seen |-> seen])
    BY <1>2 DEF ReadForLogin
  <2>2. PICK r : r = [step |-> "enter", seen |-> seen]
    OBVIOUS
  <2>3. r \in Actions /\ r.step = "enter" /\ doing[t].step = "login"
    BY <1>2, <2>2, NewestNumbers DEF Actions, ChatInv, ReadForLogin, At
  <2>4. Goes(t, r) /\ UNCHANGED <<chatTable, spoken, written>>
    BY <1>2, <2>1, <2>2 DEF ReadForLogin
  <2> QED
    BY <2>3, <2>4, Proceeds DEF written
<1>3. ASSUME EnterChat(t) PROVE ChatInv'
  <2>1. PICK r : r = [step |-> "idle"]
    OBVIOUS
  <2>2. /\ Goes(t, r) /\ r.step = "idle" /\ present' = present \cup {t} /\ listeners' = listeners \cup {Owner[t]}
        /\ Show({t}, doing[t].seen) /\ UNCHANGED <<said, saving, rows, sent, replay, since, written>>
    BY <1>3, <2>1 DEF EnterChat, Done
  <2>3. TableOK'
    BY <1>3, EnterKeepsTable DEF ChatInv
  <2>4. PairsOK'
    BY <2>2, QuietGoing DEF ChatInv, written
  <2>5. \A s \in Tokens : doing'[s].step = "send" => doing'[s] = doing[s]
    BY <2>2, RequestGoes DEF ChatInv
  <2>6. \A s \in Tokens : shown[s] \subseteq shown'[s]
    BY <2>2 DEF Show
  <2>7. replay' \in [Tokens -> Replays]
    BY <2>2 DEF ChatInv, TalkOK
  <2>8. TalkOK'
    BY <2>2, <2>5, <2>6, <2>7, TalkStays DEF ChatInv
  <2> QED
    BY <2>3, <2>4, <2>8 DEF ChatInv
<1>4. ASSUME End(t) PROVE ChatInv'
  <2>1. EndSessions({t}) /\ UNCHANGED <<doing, said, saving, rows, sent, replay, warnedPairs, warnings>>
    BY <1>4 DEF End
  <2>2. TableOK'
    BY <1>4, EndKeepsTable DEF ChatInv
  <2>3. PairsOK'
    BY <2>1, QuietSteps DEF ChatInv
  <2>4. TalkOK'
    BY <2>1, LeavingKeepsTalk DEF ChatInv
  <2> QED
    BY <2>2, <2>3, <2>4 DEF ChatInv
<1>5. ASSUME DropDoing(t) PROVE ChatInv'
  <2>1. PICK r : r = [step |-> "idle"]
    OBVIOUS
  <2>2. r \in Actions /\ r.step = "idle"
    BY <2>1 DEF Actions
  <2>3. Goes(t, r) /\ UNCHANGED <<chatTable, spoken, written>>
    BY <1>5, <2>1 DEF DropDoing, Done
  <2> QED
    BY <2>2, <2>3, Proceeds DEF written
<1> QED
  BY <1>1, <1>2, <1>3, <1>4, <1>5 DEF Session

(* What is said in the channel, joining and parting. *)
LEMMA SpeakKeepsChat ==
    ASSUME ChatInv, NEW t \in Tokens, Speak(t)
    PROVE  ChatInv'
<1>1. ASSUME NEW bot \in BOOLEAN, Say(t, bot) PROVE ChatInv'
  <2>1. PICK r : r = [step |-> IF bot THEN "ask" ELSE "send", message |-> Len(said) + 1]
    OBVIOUS
  <2>2. r \in Actions /\ r.step \in {"ask", "send"}
    <3>1. Len(said) + 1 \in Nat
      BY DEF ChatInv, TalkOK
    <3> QED
      BY <2>1, <3>1 DEF Actions
  <2>3. Goes(t, r) /\ UNCHANGED <<chatTable, written>>
    BY <1>1, <2>1 DEF Say
  <2>4. TableOK'
    BY <2>2, <2>3, TableStays DEF ChatInv, chatTable
  <2>5. PairsOK'
    BY <2>2, <2>3, QuietGoing DEF ChatInv, written
  <2> QED
    BY <1>1, <2>4, <2>5, SayKeepsTalk DEF ChatInv
<1>2. PICK idle : idle = [step |-> "idle"]
  OBVIOUS
<1>3. idle \in Actions /\ idle.step = "idle"
  BY <1>2 DEF Actions
<1>4. ASSUME Goes(t, idle), UNCHANGED <<present, latest, written>>
      PROVE  TableOK' /\ PairsOK' /\ \A s \in Tokens : doing'[s].step = "send" => doing'[s] = doing[s]
  <2>1. TableOK'
    BY <1>3, <1>4, TableStays DEF ChatInv
  <2>2. PairsOK'
    BY <1>3, <1>4, QuietGoing DEF ChatInv, written
  <2>3. \A s \in Tokens : doing'[s].step = "send" => doing'[s] = doing[s]
    BY <1>3, <1>4, RequestGoes DEF ChatInv
  <2> QED
    BY <2>1, <2>2, <2>3
<1>5. ASSUME UNCHANGED <<present, latest, doing, written>>
      PROVE  TableOK' /\ PairsOK'
  BY <1>5, OthersKeepTable, QuietSteps DEF ChatInv, written
<1>6. ASSUME Send(t) PROVE ChatInv'
  BY <1>2, <1>4, <1>6, SendKeepsTalk DEF ChatInv, Send, Done, chatTable
<1>7. ASSUME Ask(t) PROVE ChatInv'
  <2>1. PICK n \in 0 .. Limit : Goes(t, [step |-> "reply", seen |-> Newest(n)])
    BY <1>7 DEF Ask
  <2>2. PICK r : r = [step |-> "reply", seen |-> Newest(n)]
    OBVIOUS
  <2>3. r \in Actions /\ r.step = "reply"
    BY <2>2, NewestNumbers DEF Actions, ChatInv
  <2>4. Goes(t, r) /\ UNCHANGED <<chatTable, spoken, written>>
    BY <1>7, <2>1, <2>2 DEF Ask
  <2> QED
    BY <2>3, <2>4, Proceeds DEF written
<1>8. ASSUME Reply(t) PROVE ChatInv'
  <2>1. /\ Goes(t, idle) /\ Show(Reached(listeners), doing[t].seen)
        /\ UNCHANGED <<chatTable, said, saving, rows, sent, replay, since, written>>
    BY <1>2, <1>8 DEF Reply, Done
  <2>2. TableOK' /\ PairsOK' /\ \A s \in Tokens : doing'[s].step = "send" => doing'[s] = doing[s]
    BY <1>4, <2>1 DEF chatTable
  <2>3. \A s \in Tokens : shown[s] \subseteq shown'[s]
    BY <2>1 DEF Show
  <2>4. replay' \in [Tokens -> Replays]
    BY <2>1 DEF ChatInv, TalkOK
  <2>5. TalkOK'
    BY <2>1, <2>2, <2>3, <2>4, TalkStays DEF ChatInv, chatTable
  <2> QED
    BY <2>2, <2>5 DEF ChatInv
<1>9. ASSUME Join(t) PROVE ChatInv'
  <2>1. PICK r : r = [step |-> "join"]
    OBVIOUS
  <2>2. r \in Actions /\ r.step = "join"
    BY <2>1 DEF Actions
  <2>3. Goes(t, r) /\ UNCHANGED <<chatTable, spoken, written>>
    BY <1>9, <2>1 DEF Join
  <2> QED
    BY <2>2, <2>3, Proceeds DEF written
<1>10. ASSUME BecomeMember(t) PROVE ChatInv'
  BY <1>2, <1>4, <1>10, BecomeMemberKeepsTalk DEF ChatInv, BecomeMember, Done
<1>11. ASSUME ReadForReplay(t) PROVE ChatInv'
  BY <1>5, <1>11, ReadForReplayKeepsTalk DEF ChatInv, ReadForReplay, chatTable
<1>12. ASSUME Replayed(t) PROVE ChatInv'
  BY <1>5, <1>12, ReplayedKeepsTalk DEF ChatInv, Replayed, chatTable
<1>13. ASSUME ReplayFails(t) PROVE ChatInv'
  <2>1. /\ replay' = [replay EXCEPT ![t] = None]
        /\ UNCHANGED <<chatTable, doing, said, saving, rows, sent, shown, since, written>>
    BY <1>13 DEF ReplayFails
  <2>2. None \in Replays /\ None.step = "none"
    BY DEF Replays, None
  <2>3. replay' \in [Tokens -> Replays] /\ \A s \in Tokens : replay'[s].step = "read" => replay'[s] = replay[s]
    BY <2>1, <2>2 DEF ChatInv, TalkOK
  <2>4. TalkOK'
    BY <2>1, <2>3, TalkStays DEF ChatInv, chatTable
  <2> QED
    BY <1>5, <2>1, <2>4 DEF ChatInv, chatTable
<1>14. ASSUME Part(t) PROVE ChatInv'
  BY <1>5, <1>14, PartKeepsTalk DEF ChatInv, Part
<1> QED
  BY <1>1, <1>6, <1>7, <1>8, <1>9, <1>10, <1>11, <1>12, <1>13, <1>14 DEF Speak

(* What is written from user to user. *)
LEMMA WhisperKeepsChat ==
    ASSUME ChatInv, NEW t \in Tokens, Whisper(t)
    PROVE  ChatInv'
<1>1. ASSUME NEW u \in Users, Write(t, u) PROVE ChatInv'
  <2>1. PICK r : r = [step |-> "pair", to |-> u, via |-> latest[u]]
    OBVIOUS
  <2>2. r \in Actions /\ r.step = "pair"
    <3>1. latest[u] \in Tokens
      BY <1>1 DEF Write, ChatInv, TableOK
    <3> QED
      BY <2>1, <3>1 DEF Actions
  <2>3. Goes(t, r) /\ UNCHANGED <<chatTable, spoken, written>>
    BY <1>1, <2>1 DEF Write
  <2> QED
    BY <2>2, <2>3, Proceeds DEF written
<1>2. ASSUME NEW s \in {"deliver", "warn"}, doing[t].step \in {"pair", "warn"},
             NEW r, r = [doing[t] EXCEPT !.step = s], Goes(t, r), UNCHANGED <<chatTable, spoken>>
      PROVE  TableOK' /\ TalkOK'
  <2>1. doing[t] \in [step : {"pair", "warn", "deliver"}, to : Users, via : Tokens]
    BY <1>2 DEF ChatInv, TableOK, Actions
  <2>2. r \in Actions /\ r.step = s
    BY <1>2, <2>1 DEF Actions
  <2>3. TableOK'
    BY <1>2, <2>2, TableStays DEF ChatInv, chatTable
  <2>4. \A x \in Tokens : doing'[x].step = "send" => doing'[x] = doing[x]
    BY <1>2, <2>2, RequestGoes DEF ChatInv
  <2> QED
    BY <1>2, <2>3, <2>4, TalkSilent DEF ChatInv
<1>3. ASSUME MarkPair(t) PROVE ChatInv'
  <2>1. PICK s, r : /\ s = IF PairKey(Owner[t], doing[t].to) \in warnedPairs THEN "deliver" ELSE "warn"
                    /\ r = [doing[t] EXCEPT !.step = s]
    OBVIOUS
  <2>2. doing[t].step = "pair" /\ Goes(t, r) /\ UNCHANGED <<chatTable, spoken>> /\ s \in {"deliver", "warn"}
    BY <1>3, <2>1 DEF MarkPair, At
  <2> QED
    BY <1>2, <1>3, <2>1, <2>2, MarkPairKeepsPairs DEF ChatInv
<1>4. ASSUME Warn(t) PROVE ChatInv'
  <2>1. PICK r : r = [doing[t] EXCEPT !.step = "deliver"]
    OBVIOUS
  <2>2. doing[t].step = "warn" /\ Goes(t, r) /\ UNCHANGED <<chatTable, spoken>>
    BY <1>4, <2>1 DEF Warn, At
  <2> QED
    BY <1>2, <1>4, <2>1, <2>2, WarnKeepsPairs DEF ChatInv
<1>5. ASSUME Deliver(t) PROVE ChatInv'
  <2>1. PICK r : r = [step |-> "idle"]
    OBVIOUS
  <2>2. r \in Actions /\ r.step = "idle"
    BY <2>1 DEF Actions
  <2>3. Goes(t, r) /\ UNCHANGED <<chatTable, spoken, warnedPairs, warnings>>
    BY <1>5, <2>1 DEF Deliver, Done
  <2> QED
    BY <2>2, <2>3, Proceeds
<1> QED
  BY <1>1, <1>3, <1>4, <1>5 DEF Whisper

(* At first nobody is there. *)
LEMMA ChatStart == ChatInit => ChatInv
<1> SUFFICES ASSUME ChatInit PROVE ChatInv
  OBVIOUS
<1>1. TableOK
  BY DEF ChatInit, TableOK, Actions
<1>2. TalkOK
  <2>1. said \in Seq([by : Users, bot : BOOLEAN]) /\ rows \in Seq(Numbers)
    BY EmptySeq DEF ChatInit
  <2>2. since \in [Tokens -> Joins] /\ replay \in [Tokens -> Replays]
    BY DEF ChatInit, Joins, Replays
  <2>3. \A t \in Tokens : SendsOwn(t) /\ since[t] = None
    BY DEF ChatInit, SendsOwn
  <2> QED
    BY <2>1, <2>2, <2>3 DEF ChatInit, TalkOK
<1>3. PairsOK
  BY DEF ChatInit, PairsOK, PairOK, WarnsOf
<1> QED
  BY <1>1, <1>2, <1>3 DEF ChatInv

(* All of it holds always. *)
LEMMA ChatKept == ChatSpec => []ChatInv
<1>1. ChatInv /\ [ChatNext]_chatVars => ChatInv'
  <2> SUFFICES ASSUME ChatInv, [ChatNext]_chatVars PROVE ChatInv'
    OBVIOUS
  <2>1. ASSUME NEW t \in Tokens, Session(t) \/ Speak(t) \/ Whisper(t)
        PROVE  ChatInv'
    BY <2>1, SessionKeepsChat, SpeakKeepsChat, WhisperKeepsChat
  <2>2. ASSUME NEW m \in Numbers, Save(m)
        PROVE  ChatInv'
    <3>1. UNCHANGED <<present, latest, doing, warnedPairs, warnings>>
      BY <2>2 DEF Save, chatTable, written
    <3> QED
      BY <2>2, <3>1, OthersKeepTable, QuietSteps, SaveKeepsTalk DEF ChatInv
  <2>3. CASE UNCHANGED chatVars
    <3>1. UNCHANGED <<chatTable, spoken, present, latest, doing, warnedPairs, warnings>>
      BY <2>3 DEF chatVars, chatTable, written
    <3> QED
      BY <3>1, OthersKeepTable, QuietSteps, TalkSilent DEF ChatInv
  <2> QED
    BY <2>1, <2>2, <2>3 DEF ChatNext
<1> QED
  BY <1>1, ChatStart, PTL DEF ChatSpec

(* Whoever joins a channel and is there when the replay has come has been *)
(* shown all that was broadcast since by others and of the newest stored   *)
(* messages every one that was stored when they joined.                    *)
THEOREM JoinersMissNothing == ChatSpec => []NothingMissed
<1>1. ChatInv => NothingMissed
  <2> SUFFICES ASSUME ChatInv, NEW t \in present, since[t].step = "replayed"
               PROVE  /\ \A m \in sent \ since[t].sent : said[m].by # Owner[t] => m \in shown[t]
                      /\ Newest(Limit) \cap since[t].saved \subseteq shown[t]
    BY DEF NothingMissed
  <2>1. t \in Tokens /\ since[t] # None
    BY DEF ChatInv, TableOK, None
  <2>2. Heard(t)
    BY <2>1 DEF ChatInv, TalkOK
  <2> QED
    BY <2>2 DEF Heard
<1> QED
  BY <1>1, ChatKept, PTL

(* Two users are warned of each other once at most, also when both write *)
(* at once, and whatever becomes of their sessions and requests.          *)
THEOREM PairsWarnedOnce == ChatSpec => []WarnedOnce
<1>1. ChatInv => WarnedOnce
  BY DEF ChatInv, PairsOK, PairOK, WarnedOnce
<1> QED
  BY <1>1, ChatKept, PTL
=============================================================================
