----------------------------- MODULE Spectators -----------------------------
(***************************************************************************)
(* Spectating: stop_spectating and the spectator part of remove_session    *)
(* (src/bancho/state.rs), START_SPECTATING and STOP_SPECTATING             *)
(* (src/bancho/handler.rs), over the sessions of module Sessions.          *)
(*                                                                         *)
(* The relation is kept twice, as the list of a host's spectators and as   *)
(* the host each spectator watches.  A list is a set here: a spectator is  *)
(* taken out of the list it is in before it is put into one, so by         *)
(* SpectatorsInverse it is never in a list twice.                          *)
(***************************************************************************)
EXTENDS Sessions

VARIABLES
    spectators,       \* spectators: host -> its spectators
    spectatingTarget  \* spectating_target: spectator -> host

watching       == <<spectators, spectatingTarget>>
spectatorsVars == <<sessionVars, watching>>

Targets(S) == {spectatingTarget[u] : u \in S \cap DOMAIN spectatingTarget}

(* stop_spectating, for the users of S: the lists without them.  A list    *)
(* that becomes empty is dropped.                                          *)
Lists(S) ==
    LET left == [h \in DOMAIN spectators |->
                    {u \in spectators[h] : ~(u \in S /\ spectatingTarget[u] = h)}]
    IN Without(left, {h \in Targets(S) \cap DOMAIN left : left[h] = {}})

(* Mutant: the spectators of a host who leaves are not told. *)
ForgetListsOnly(S) ==
    /\ spectators'       = Without(Lists(S), S)
    /\ spectatingTarget' = Without(spectatingTarget, S)

(* The spectator part of remove_session for the users of S: they stop      *)
(* watching, and who watched them does.                                    *)
ForgetSpectators(S) ==
    /\ spectators'       = Without(Lists(S), S)
    /\ spectatingTarget' =
          Without(spectatingTarget,
                  S \cup UNION {spectators[h] : h \in S \cap DOMAIN spectators})

-----------------------------------------------------------------------------
(* Mutant: whoever has an id can be watched, online or not. *)
WatchAnyone(u, h) == h # u

(* START watches the target if it is in user_id_to_token. *)
Watchable(u, h) == h \in DOMAIN tokenOf /\ h # u

(* START stops watching first, even when there is nobody to watch next. *)
StartSpectating(t, h) ==
    /\ Handle(t)
    /\ LET u     == Owner[t]
           lists == Lists({u})
           list  == IF h \in DOMAIN lists THEN lists[h] ELSE {}
       IN IF Watchable(u, h)
          THEN /\ spectators'       = Put(lists, h, list \cup {u})
               /\ spectatingTarget' = Put(spectatingTarget, u, h)
          ELSE /\ spectators'       = lists
               /\ spectatingTarget' = Without(spectatingTarget, {u})

StopSpectating(t) ==
    /\ Handle(t)
    /\ spectators'       = Lists({Owner[t]})
    /\ spectatingTarget' = Without(spectatingTarget, {Owner[t]})

-----------------------------------------------------------------------------
SpectatorsInit ==
    /\ SessionsInit
    /\ spectators       = << >>
    /\ spectatingTarget = << >>

SessionStep ==
    \/ \E t \in Tokens :
        \/ BeginLogin(t) /\ ForgetSpectators(OwnersOf(Previous(Owner[t])))
        \/ Logout(t) /\ ForgetSpectators(OwnersOf({t} \cap sessions))
        \/ /\ FinishLogin(t) \/ Poll(t) \/ Fetch(t) \/ Handle(t) \/ Refresh(t)
              \/ EndRequest(t) \/ FallSilent(t)
           /\ UNCHANGED watching
    \/ Prune /\ ForgetSpectators(OwnersOf(quiet))

SpectatorsNext ==
    \/ SessionStep
    \/ \E t \in Tokens : StopSpectating(t)
    \/ \E t \in Tokens, h \in Users : StartSpectating(t, h)

SpectatorsSpec == SpectatorsInit /\ [][SpectatorsNext]_spectatorsVars

-----------------------------------------------------------------------------
(* Properties *)

SpectatorsTypeOK ==
    /\ spectators \in [DOMAIN spectators -> (SUBSET Users) \ {{}}]
    /\ DOMAIN spectators \subseteq Users
    /\ spectatingTarget \in [DOMAIN spectatingTarget -> Users]
    /\ DOMAIN spectatingTarget \subseteq Users

(* The two copies of the relation agree and nobody watches themselves,     *)
(* whichever of the sessions of host and spectator ends, is evicted or     *)
(* times out, and whenever late handlers act.                              *)
SpectatorsInverse ==
    /\ \A h \in DOMAIN spectators : \A u \in spectators[h] :
        u \in DOMAIN spectatingTarget /\ spectatingTarget[u] = h
    /\ \A u \in DOMAIN spectatingTarget :
        /\ spectatingTarget[u] # u
        /\ spectatingTarget[u] \in DOMAIN spectators
        /\ u \in spectators[spectatingTarget[u]]

(* Only users with a session are watched: frames are relayed to lists that *)
(* end with their host.                                                    *)
WatchedOnline == DOMAIN spectators \subseteq Online

(* Unless a handler acted for a session that was gone, only users with a   *)
(* session watch.                                                          *)
WatchersOnline == ~stray => DOMAIN spectatingTarget \subseteq Online

(* Watching is among users with a session. *)
SpectatingOnline == WatchedOnline /\ WatchersOnline
=============================================================================
