---------------------------- MODULE BanchoServer ----------------------------
(***************************************************************************)
(* The sessions of Sessions and the rooms of MatchRooms together: who acts *)
(* in the rooms, and what the end of a session does to them.               *)
(*                                                                         *)
(* Every handler of a MATCH_* packet is the second step of a packet: it    *)
(* acts for the owner of the token, whether or not the session that was    *)
(* there at the first step still is.                                       *)
(***************************************************************************)
EXTENDS Sessions, Naturals

CONSTANTS NoUser, NSlots, MaxMatchId

ASSUME ServerAssumption ==
    /\ NoUser \notin Users
    /\ NSlots \in Nat \ {0}
    /\ MaxMatchId \in Nat \ {0}

VARIABLES
    matches, nextMatchId, userToMatch, startTimes, lastScores, loadedUsers,
    pending, idReused

Rooms == INSTANCE MatchRooms

roomVars == <<matches, nextMatchId, userToMatch, startTimes, lastScores, loadedUsers,
              pending, idReused>>
vars     == <<sessionVars, roomVars>>

-----------------------------------------------------------------------------
(* A packet of the client with token t about the rooms.  One that changes  *)
(* nothing, because a guard of its handler fails, is Handle alone.         *)
MatchPacket(t) ==
    LET u == Owner[t]
    IN \/ Rooms!CreateMatch(u)
       \/ \E m \in Rooms!MatchIds : Rooms!JoinMatch(u, m) \/ Rooms!JoinVanishedMatch(u, m)
       \/ Rooms!PartMatch(u)
       \/ Rooms!Ready(u)
       \/ Rooms!NotReady(u)
       \/ Rooms!NoBeatmap(u)
       \/ Rooms!HasBeatmap(u)
       \/ \E i \in Rooms!Slots :
            Rooms!ChangeSlot(u, i) \/ Rooms!LockSlot(u, i) \/ Rooms!ChangeHost(u, i)
       \/ Rooms!ChangeSettings(u)
       \/ Rooms!ChangeTeam(u)
       \/ Rooms!StartMatch(u)
       \/ Rooms!LoadComplete(u)
       \/ Rooms!ScoreUpdate(u)
       \/ Rooms!MatchComplete(u)

HandleMatch(t) == Handle(t) /\ MatchPacket(t)

(* remove_session takes the user out of the rooms.  A login that evicts    *)
(* nobody leaves the rooms alone; a logout whose session is gone, too.     *)
Login(t) ==
    /\ BeginLogin(t)
    /\ IF Previous(Owner[t]) = {} THEN UNCHANGED roomVars ELSE Rooms!Evict(Owner[t])

(* Mutant: who logs out keeps the seat. *)
LeaveSeated(t) == Logout(t) /\ UNCHANGED roomVars

Leave(t) ==
    /\ Logout(t)
    /\ IF t \in sessions THEN Rooms!Logout(Owner[t]) ELSE UNCHANGED roomVars

(* Mutant: the pruner only ends the sessions. *)
TimeOutSessionsOnly == Prune /\ Rooms!PrunerTick({})

TimeOut == Prune /\ Rooms!PrunerTick(OwnersOf(quiet))

Init == SessionsInit /\ Rooms!Init

Next ==
    \/ \E t \in Tokens :
        \/ HandleMatch(t)
        \/ Login(t)
        \/ Leave(t)
        \/ /\ FinishLogin(t) \/ Poll(t) \/ Fetch(t) \/ Handle(t) \/ Refresh(t)
              \/ EndRequest(t) \/ FallSilent(t)
           /\ UNCHANGED roomVars
    \/ TimeOut

Spec     == Init /\ [][Next]_vars
FairSpec == Spec /\ WF_vars(TimeOut)

-----------------------------------------------------------------------------
(* Properties *)

(* Unless a handler acts for a session that is gone, whoever is mapped to  *)
(* a room has a session: no seat, and no host, is left to somebody who     *)
(* cannot act, even when logins overlap or match ids come round.           *)
SeatsOnline == ~stray => DOMAIN userToMatch \subseteq Online

(* No room is left behind without anybody to run it: its host, who alone   *)
(* can start a game, has a session.  When a session ends, by a logout, by  *)
(* a login that evicts it or by the pruner, the room goes to somebody      *)
(* still there, or it disbands.                                            *)
HostsOnline == ~stray => \A m \in DOMAIN matches : matches[m].host \in Online

(* Every room that disbands is handed to delete_room_data in the end, by a *)
(* handler or by the pruner's next tick, while sessions come and go.       *)
PendingDrained == Rooms!PendingDrained

(* A player whose only session falls silent leaves the room, unless the    *)
(* client comes back.                                                      *)
SilentLeave ==
    \A u \in Users :
        (u \in DOMAIN userToMatch /\ \A t \in sessions : Owner[t] = u => t \in quiet)
            /\ u \in Online
        ~> (u \notin DOMAIN userToMatch \/ \E t \in sessions \ quiet : Owner[t] = u)
=============================================================================
