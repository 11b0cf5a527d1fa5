------------------------------ MODULE Sessions ------------------------------
(***************************************************************************)
(* The life of Bancho sessions: handle_login and handle_packet_poll of     *)
(* src/server/bancho.rs, the packet loop of src/bancho/handler.rs, the     *)
(* session table of src/bancho/state.rs and the pruner of src/main.rs.     *)
(*                                                                         *)
(* Each request is a task of its own.  A login takes the write lock twice, *)
(* to evict and, after several database queries, to add the session.  A    *)
(* poll takes it to refresh last_ping; then every packet is two steps: the *)
(* user id of the token is read under a read lock (Fetch), and the handler *)
(* takes the write lock later and acts for that user without looking at    *)
(* the session again (Handle).  Anything may happen in between.            *)
(*                                                                         *)
(* Abstracted: credentials, account creation and hardware checks (a login  *)
(* starts here once they passed), packets sent, time (a session is quiet   *)
(* once its last ping is 120 seconds old).  One request per token is under *)
(* way at a time, as the game client does it.                              *)
(***************************************************************************)
EXTENDS Maps, Logins

VARIABLES
    sessions,  \* sessions: the tokens that have one
    tokenOf,   \* user_id_to_token
    quiet,     \* the sessions whose last_ping is older than 120 seconds
    request,   \* what the request of a token is about to do
    crossed,   \* history: two logins of one user overlapped
    stray      \* history: a handler acted for a session that was gone

table       == <<sessions, tokenOf, quiet>>
history     == <<crossed, stray>>
sessionVars == <<table, request, history>>

Online == {Owner[t] : t \in sessions}

-----------------------------------------------------------------------------
(* Mutant: the user keeps being looked up under a session that is gone. *)
RemoveSessionOnly(S) ==
    /\ sessions' = sessions \ S
    /\ quiet'    = quiet \ S
    /\ UNCHANGED tokenOf

(* remove_session, for every token of S: user_id_to_token loses its entry  *)
(* for the user, whichever session it leads to.                            *)
RemoveSession(S) ==
    /\ sessions' = sessions \ S
    /\ quiet'    = quiet \ S
    /\ tokenOf'  = Without(tokenOf, OwnersOf(S \cap sessions))

(* Mutant: a login evicts nobody. *)
PreviousNone(u) == {}

(* The session a login of u evicts, if any *)
Previous(u) == IF u \in DOMAIN tokenOf THEN {tokenOf[u]} ELSE {}

(* handle_login up to the eviction *)
BeginLogin(t) ==
    /\ request[t] = "unborn"
    /\ request' = [request EXCEPT ![t] = "login"]
    /\ RemoveSession(Previous(Owner[t]))
    /\ crossed' = (crossed \/ \E s \in Tokens : /\ request[s] = "login"
                                                /\ Owner[s] = Owner[t])
    /\ UNCHANGED stray

(* handle_login from there on: add_session *)
FinishLogin(t) ==
    /\ request[t] = "login"
    /\ request'  = [request EXCEPT ![t] = "idle"]
    /\ sessions' = sessions \cup {t}
    /\ tokenOf'  = Put(tokenOf, Owner[t], t)
    /\ UNCHANGED <<quiet, history>>

(* A poll of a token without session is answered with a restart packet. *)
Poll(t) ==
    /\ request[t] = "idle"
    /\ t \in sessions
    /\ request' = [request EXCEPT ![t] = "poll"]
    /\ quiet'   = quiet \ {t}
    /\ UNCHANGED <<sessions, tokenOf, history>>

(* The packet loop reads the session's user id, or ends. *)
Fetch(t) ==
    /\ request[t] = "poll"
    /\ t \in sessions
    /\ request' = [request EXCEPT ![t] = "packet"]
    /\ UNCHANGED <<table, history>>

(* A handler that works on other state than the session table *)
Handle(t) ==
    /\ request[t] = "packet"
    /\ request' = [request EXCEPT ![t] = "poll"]
    /\ stray'   = (stray \/ t \notin sessions)
    /\ UNCHANGED <<table, crossed>>

(* PONG and CHANGE_ACTION look the session up again. *)
Refresh(t) ==
    /\ request[t] = "packet"
    /\ request' = [request EXCEPT ![t] = "poll"]
    /\ quiet'   = quiet \ {t}
    /\ UNCHANGED <<sessions, tokenOf, history>>

Logout(t) ==
    /\ request[t] = "packet"
    /\ request' = [request EXCEPT ![t] = "idle"]
    /\ RemoveSession({t})
    /\ UNCHANGED history

(* The body is read, the session is gone, or the connection broke and the  *)
(* task was dropped at an await.                                           *)
EndRequest(t) ==
    /\ request[t] \in {"login", "poll", "packet"}
    /\ request' = [request EXCEPT ![t] = "idle"]
    /\ UNCHANGED <<table, history>>

(* 120 seconds pass without a poll. *)
FallSilent(t) ==
    /\ t \in sessions
    /\ quiet' = quiet \cup {t}
    /\ UNCHANGED <<sessions, tokenOf, request, history>>

Prune == RemoveSession(quiet) /\ UNCHANGED <<request, history>>

-----------------------------------------------------------------------------
SessionsInit ==
    /\ sessions = {}
    /\ tokenOf  = << >>
    /\ quiet    = {}
    /\ request  = [t \in Tokens |-> "unborn"]
    /\ crossed  = FALSE
    /\ stray    = FALSE

SessionsNext ==
    \/ \E t \in Tokens :
        \/ BeginLogin(t)
        \/ FinishLogin(t)
        \/ Poll(t)
        \/ Fetch(t)
        \/ Handle(t)
        \/ Refresh(t)
        \/ Logout(t)
        \/ EndRequest(t)
        \/ FallSilent(t)
    \/ Prune

SessionsSpec == SessionsInit /\ [][SessionsNext]_sessionVars

-----------------------------------------------------------------------------
(* Properties *)

SessionsTypeOK ==
    /\ sessions \subseteq Tokens
    /\ tokenOf \in [DOMAIN tokenOf -> Tokens]
    /\ DOMAIN tokenOf \subseteq Users
    /\ quiet \subseteq sessions
    /\ request \in [Tokens -> {"unborn", "login", "idle", "poll", "packet"}]
    /\ crossed \in BOOLEAN
    /\ stray \in BOOLEAN

(* user_id_to_token never leads to a session that is gone or to somebody   *)
(* else's, not even when two logins of one user overlap: send_to_user and  *)
(* the eviction of a login rely on it.                                     *)
TokensLead ==
    \A u \in DOMAIN tokenOf : tokenOf[u] \in sessions /\ Owner[tokenOf[u]] = u

(* Unless two logins of a user overlap, a user has one session, and it is  *)
(* the one packets for the user are queued in.                             *)
OneSessionEach ==
    ~crossed => \A t \in sessions :
        Owner[t] \in DOMAIN tokenOf /\ tokenOf[Owner[t]] = t

(* "Evict any previous session for this user" (bancho.rs:260): after a     *)
(* login no other session of the user is left.                             *)
PreviousEvicted == \A s, t \in sessions : Owner[s] = Owner[t] => s = t

=============================================================================
