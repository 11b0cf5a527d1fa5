----------------------------- MODULE MatchRooms -----------------------------
(***************************************************************************)
(* The multiplayer half of BanchoState (src/bancho/state.rs) and the       *)
(* MATCH_* handlers of src/bancho/handler.rs that work on it.              *)
(*                                                                         *)
(* BanchoState lives behind one tokio RwLock and every handler takes the   *)
(* write lock once, so an action is one critical section: the handler from *)
(* its lock to its end, including remove_user_from_match, try_finish_match *)
(* and cleanup_disbanded_matches where it calls them.                      *)
(*                                                                         *)
(* A handler acts for the user id that was read under an EARLIER read lock *)
(* (handler.rs:434-440) and never looks at the session again, so here any  *)
(* user may act at any time.  Which user ids really can, with logins,      *)
(* logouts and time-outs in between, is the subject of BanchoServer.       *)
(*                                                                         *)
(* Abstracted: the outgoing packets, names, beatmaps, passwords, teams,    *)
(* mods and the contents of a game's records; the spawned database writes  *)
(* are the subject of MultiDb.                                             *)
(***************************************************************************)
EXTENDS Naturals, Maps

CONSTANTS
    Users,       \* user ids (positive in the code)
    NoUser,      \* user_id of an empty slot (-1 in the code)
    NSlots,      \* slots of a room (16 in the code)
    MaxMatchId   \* the last id before next_match_id wraps (65535 in the code)

ASSUME RoomsAssumption ==
    /\ NoUser \notin Users
    /\ NSlots \in Nat \ {0}
    /\ MaxMatchId \in Nat \ {0}

Slots    == 0 .. NSlots - 1
MatchIds == 1 .. MaxMatchId

HasPlayer == {"notReady", "ready", "noMap", "playing", "complete"}
Status    == {"open", "locked"} \cup HasPlayer

Slot == [status : Status, user : Users \cup {NoUser}]
Room == [inProgress : BOOLEAN, host : Users, slots : [Slots -> Slot]]

VARIABLES
    matches,      \* matches: match id -> room
    nextMatchId,  \* next_match_id
    userToMatch,  \* user_to_match: user -> match id
    startTimes,   \* match_start_times: the ids that have one
    lastScores,   \* match_last_scores: the ids that have an entry
    loadedUsers,  \* match_loaded_users: the ids that have an entry
    pending,      \* pending_disbanded_matches
    idReused      \* history: an id was given out that was still in use

games     == <<startTimes, lastScores, loadedUsers>>
allocator == <<nextMatchId, idReused>>
vars      == <<matches, userToMatch, pending, games, allocator>>

-----------------------------------------------------------------------------
(* Slots *)

DefaultSlot == [status |-> "open", user |-> NoUser]

(* Iteration over the slots goes from slot 0 upwards. *)
First(S) == CHOOSE i \in S : \A j \in S : i <= j

SlotsOf(r, u)      == {i \in Slots : r.slots[i].user = u}
SlotsIn(r, status) == {i \in Slots : r.slots[i].status = status}
PlayerSlots(slots) == {i \in Slots : /\ slots[i].status \in HasPlayer
                                     /\ slots[i].user # NoUser}

(* user u is mapped to a live room and holds a slot there *)
Seated(u) == /\ u \in DOMAIN userToMatch
             /\ userToMatch[u] \in DOMAIN matches
             /\ SlotsOf(matches[userToMatch[u]], u) # {}

SlotOf(u) == First(SlotsOf(matches[userToMatch[u]], u))

-----------------------------------------------------------------------------
(* remove_user_from_match, for every user of T.  The pruner removes several *)
(* users under one lock; the outcome does not depend on their order.        *)

Leavers(T, m) == {u \in T : Seated(u) /\ userToMatch[u] = m}

SlotsWithout(r, L) ==
    [i \in Slots |-> IF \E u \in L : i = First(SlotsOf(r, u))
                     THEN DefaultSlot ELSE r.slots[i]]

(* Mutants: the host is not handed on; the host is always elected anew. *)
LeftBehindUnhosted(r, L) == [r EXCEPT !.slots = SlotsWithout(r, L)]
LeftBehindReelecting(r, L) ==
    LET slots == SlotsWithout(r, L)
    IN [r EXCEPT !.slots = slots,
                 !.host = IF PlayerSlots(slots) = {} THEN r.host
                          ELSE slots[First(PlayerSlots(slots))].user]

LeftBehind(r, L) ==
    LET slots == SlotsWithout(r, L)
    IN [inProgress |-> r.inProgress,
        host  |-> IF r.host \in L
                  THEN slots[First(PlayerSlots(slots))].user ELSE r.host,
        slots |-> slots]

Disbanded(T) ==
    {m \in DOMAIN matches :
        /\ Leavers(T, m) # {}
        /\ PlayerSlots(SlotsWithout(matches[m], Leavers(T, m))) = {}}

RoomsWithout(T) ==
    [m \in DOMAIN matches \ Disbanded(T) |->
        LeftBehind(matches[m], Leavers(T, m))]

(* Mutant: the score frames of a room outlive it. *)
ForgetGamesButScores(S) ==
    /\ startTimes'  = startTimes \ S
    /\ loadedUsers' = loadedUsers \ S
    /\ UNCHANGED lastScores

(* Drop the start time, score frames and loaded users of the rooms in S. *)
ForgetGames(S) ==
    /\ startTimes'  = startTimes \ S
    /\ lastScores'  = lastScores \ S
    /\ loadedUsers' = loadedUsers \ S

-----------------------------------------------------------------------------
(* try_finish_match on room m of rooms *)

(* Mutant: the first to complete ends the game. *)
GameOverEarly(r) == r.inProgress /\ SlotsIn(r, "complete") # {}

GameOver(r) ==
    /\ r.inProgress
    /\ SlotsIn(r, "playing") = {}
    /\ \/ SlotsIn(r, "complete") # {}
       \/ \A i \in Slots : r.slots[i].status \notin HasPlayer

Concluded(r) ==
    [r EXCEPT !.inProgress = FALSE,
              !.slots = [i \in Slots |->
                  IF r.slots[i].status \in HasPlayer
                  THEN [r.slots[i] EXCEPT !.status = "notReady"]
                  ELSE r.slots[i]]]

(* Mutant: the game waits for those in the room who do not play it. *)
FinishedByAll(rooms, m) ==
    {k \in DOMAIN rooms :
        /\ k = m
        /\ rooms[k].inProgress
        /\ \A i \in PlayerSlots(rooms[k].slots) : rooms[k].slots[i].status = "complete"}

Finished(rooms, m) == {k \in DOMAIN rooms : k = m /\ GameOver(rooms[k])}

Settled(rooms, F) ==
    [k \in DOMAIN rooms |-> IF k \in F THEN Concluded(rooms[k]) ELSE rooms[k]]

TryFinish(rooms, m) ==
    /\ matches' = Settled(rooms, Finished(rooms, m))
    /\ ForgetGames(Finished(rooms, m))

-----------------------------------------------------------------------------
(* Entering and leaving rooms *)

NewRoom(u) ==
    [inProgress |-> FALSE, host |-> u,
     slots |-> [i \in Slots |-> IF i = 0
                THEN [status |-> "notReady", user |-> u] ELSE DefaultSlot]]

NextId(n) == IF n = MaxMatchId THEN 1 ELSE n + 1

CreateMatch(u) ==
    /\ matches'     = Put(RoomsWithout({u}), nextMatchId, NewRoom(u))
    /\ userToMatch' = Put(userToMatch, u, nextMatchId)
    /\ nextMatchId' = NextId(nextMatchId)
    /\ ForgetGames(Disbanded({u}))
    /\ pending'     = {}
    /\ idReused'    = (idReused \/ nextMatchId \in DOMAIN matches \cup pending)

(* Mutant: a locked slot is as free as an open one. *)
TakeUnheldSlot(r, u) ==
    [r EXCEPT !.slots[First(SlotsOf(r, NoUser))] =
        [status |-> "notReady", user |-> u]]

TakeSlot(r, u) ==
    [r EXCEPT !.slots[First(SlotsIn(r, "open"))] =
        [status |-> "notReady", user |-> u]]

(* A join that passed the password check of a room with an open slot.  A   *)
(* refused join only sends MATCH_JOIN_FAIL.                                *)
JoinMatch(u, m) ==
    LET rest == RoomsWithout({u})
    IN /\ m \in DOMAIN rest
       /\ SlotsIn(matches[m], "open") # {}
       /\ matches'     = [rest EXCEPT ![m] = TakeSlot(rest[m], u)]
       /\ userToMatch' = Put(userToMatch, u, m)
       /\ ForgetGames(Disbanded({u}))
       /\ pending'     = {}
       /\ UNCHANGED allocator

(* The same handler, when the room is the one the user is alone in: leaving *)
(* it disbands it, nobody is seated, and cleanup_disbanded_matches is not   *)
(* reached.                                                                 *)
JoinVanishedMatch(u, m) ==
    /\ m \in Disbanded({u})
    /\ SlotsIn(matches[m], "open") # {}
    /\ matches'     = RoomsWithout({u})
    /\ userToMatch' = Without(userToMatch, {u})
    /\ ForgetGames(Disbanded({u}))
    /\ pending'     = pending \cup Disbanded({u})
    /\ UNCHANGED allocator

(* remove_user_from_match gives nothing for a user it could not unseat, and *)
(* only forgets the mapping.                                                *)
PartMatch(u) ==
    /\ u \in DOMAIN userToMatch
    /\ userToMatch' = Without(userToMatch, {u})
    /\ \/ /\ ~Seated(u)
          /\ UNCHANGED <<matches, games, pending>>
       \/ /\ Disbanded({u}) # {}
          /\ matches' = RoomsWithout({u})
          /\ ForgetGames(Disbanded({u}))
          /\ pending' = {}
       \/ /\ Seated(u)
          /\ Disbanded({u}) = {}
          /\ TryFinish(RoomsWithout({u}), userToMatch[u])
          /\ UNCHANGED pending
    /\ UNCHANGED allocator

(* remove_session for the users of T: no try_finish_match *)
RemoveSessions(T) ==
    /\ matches'     = RoomsWithout(T)
    /\ userToMatch' = Without(userToMatch, T)
    /\ ForgetGames(Disbanded(T))
    /\ UNCHANGED allocator

Logout(u)     == RemoveSessions({u}) /\ pending' = {}
Evict(u)      == RemoveSessions({u}) /\ pending' = pending \cup Disbanded({u})
(* Mutant: the pruner leaves the disbanded rooms to the handlers. *)
PrunerTickUndrained(T) ==
    RemoveSessions(T) /\ pending' = pending \cup Disbanded(T)

PrunerTick(T) == RemoveSessions(T) /\ pending' = {}

-----------------------------------------------------------------------------
(* Inside a room *)

SetStatus(u, status) ==
    /\ Seated(u)
    /\ matches' = [matches EXCEPT ![userToMatch[u]].slots[SlotOf(u)].status = status]
    /\ UNCHANGED <<allocator, userToMatch, games, pending>>

Ready(u)      == SetStatus(u, "ready")
NotReady(u)   == SetStatus(u, "notReady")
NoBeatmap(u)  == SetStatus(u, "noMap")
HasBeatmap(u) == SetStatus(u, "notReady")

(* u hosts the room its mapping names *)
Hosts(u) == /\ u \in DOMAIN userToMatch
            /\ userToMatch[u] \in DOMAIN matches
            /\ matches[userToMatch[u]].host = u

ChangeSlot(u, i) ==
    /\ Seated(u)
    /\ LET m == userToMatch[u]
       IN /\ matches[m].slots[i].status = "open"
          /\ matches' = [matches EXCEPT
                ![m].slots[SlotOf(u)] = DefaultSlot,
                ![m].slots[i] = matches[m].slots[SlotOf(u)]]
    /\ UNCHANGED <<allocator, userToMatch, games, pending>>

LockSlot(u, i) ==
    /\ Hosts(u)
    /\ LET m == userToMatch[u]
       IN \/ /\ matches[m].slots[i].status = "open"
             /\ matches' = [matches EXCEPT ![m].slots[i].status = "locked"]
          \/ /\ matches[m].slots[i].status = "locked"
             /\ matches' = [matches EXCEPT ![m].slots[i].status = "open"]
    /\ UNCHANGED <<allocator, userToMatch, games, pending>>

(* Changed settings take the readiness of everybody but the host. *)
ChangeSettings(u) ==
    /\ Hosts(u)
    /\ matches' = [matches EXCEPT ![userToMatch[u]].slots =
          [i \in Slots |-> IF /\ @[i].user \notin {NoUser, u}
                              /\ @[i].status = "ready"
                           THEN [@[i] EXCEPT !.status = "notReady"] ELSE @[i]]]
    /\ UNCHANGED <<allocator, userToMatch, games, pending>>

ChangeHost(u, i) ==
    /\ Hosts(u)
    /\ matches[userToMatch[u]].slots[i].status \in HasPlayer
    /\ matches' = [matches EXCEPT ![userToMatch[u]].host =
                                      matches[userToMatch[u]].slots[i].user]
    /\ UNCHANGED <<allocator, userToMatch, games, pending>>

(* The team is not modelled; what remains is the call of try_finish_match. *)
ChangeTeam(u) ==
    /\ Seated(u)
    /\ TryFinish(matches, userToMatch[u])
    /\ UNCHANGED <<allocator, userToMatch, pending>>

-----------------------------------------------------------------------------
(* A game.  START has no guard on inProgress: the host may restart a game. *)

StartMatch(u) ==
    /\ Hosts(u)
    /\ LET m == userToMatch[u]
       IN /\ matches' = [matches EXCEPT
                ![m].inProgress = TRUE,
                ![m].slots = [i \in Slots |->
                    IF @[i].status \in {"ready", "notReady"}
                    THEN [@[i] EXCEPT !.status = "playing"] ELSE @[i]]]
          /\ startTimes'  = startTimes \cup {m}
          /\ lastScores'  = lastScores \cup {m}
          /\ loadedUsers' = loadedUsers \cup {m}
    /\ UNCHANGED <<allocator, userToMatch, pending>>

LoadComplete(u) ==
    /\ u \in DOMAIN userToMatch
    /\ loadedUsers' = loadedUsers \cup {userToMatch[u]}
    /\ UNCHANGED <<matches, allocator, userToMatch, startTimes, lastScores, pending>>

ScoreUpdate(u) ==
    /\ Seated(u)
    /\ lastScores' = lastScores \cup {userToMatch[u]}
    /\ UNCHANGED <<matches, allocator, userToMatch, startTimes, loadedUsers, pending>>

MatchComplete(u) ==
    /\ u \in DOMAIN userToMatch
    /\ TryFinish(IF Seated(u)
                 THEN [matches EXCEPT
                        ![userToMatch[u]].slots[SlotOf(u)].status = "complete"]
                 ELSE matches,
                 userToMatch[u])
    /\ UNCHANGED <<allocator, userToMatch, pending>>

-----------------------------------------------------------------------------
Init ==
    /\ matches     = << >>
    /\ nextMatchId = 1
    /\ userToMatch = << >>
    /\ startTimes  = {}
    /\ lastScores  = {}
    /\ loadedUsers = {}
    /\ pending     = {}
    /\ idReused    = FALSE

Next ==
    \/ \E u \in Users :
        \/ CreateMatch(u)
        \/ PartMatch(u)
        \/ Logout(u)
        \/ Evict(u)
        \/ Ready(u)
        \/ NotReady(u)
        \/ NoBeatmap(u)
        \/ HasBeatmap(u)
        \/ ChangeSettings(u)
        \/ ChangeTeam(u)
        \/ StartMatch(u)
        \/ LoadComplete(u)
        \/ ScoreUpdate(u)
        \/ MatchComplete(u)
    \/ \E u \in Users, m \in MatchIds : JoinMatch(u, m) \/ JoinVanishedMatch(u, m)
    \/ \E u \in Users, i \in Slots :
        ChangeSlot(u, i) \/ LockSlot(u, i) \/ ChangeHost(u, i)
    \/ \E T \in SUBSET Users : PrunerTick(T)

Spec == Init /\ [][Next]_vars

(* The pruner (main.rs:68-97) is a task of its own that ticks every ten     *)
(* seconds for as long as the server runs; nothing else is promised to      *)
(* happen.                                                                  *)
FairSpec == Spec /\ WF_vars(\E T \in SUBSET Users : PrunerTick(T))

-----------------------------------------------------------------------------
(* Properties *)

TypeOK ==
    /\ matches \in [DOMAIN matches -> Room]
    /\ DOMAIN matches \subseteq MatchIds
    /\ nextMatchId \in MatchIds
    /\ userToMatch \in [DOMAIN userToMatch -> MatchIds]
    /\ DOMAIN userToMatch \subseteq Users
    /\ startTimes \subseteq MatchIds
    /\ lastScores \subseteq MatchIds
    /\ loadedUsers \subseteq MatchIds
    /\ pending \subseteq MatchIds
    /\ idReused \in BOOLEAN

(* A slot carries a user id exactly when its status says so: no phantom    *)
(* player in an open or locked slot, none lost from a taken one, whatever  *)
(* sequence of slot, status and lock packets arrives.                      *)
OccupiedSlots ==
    \A m \in DOMAIN matches, i \in Slots :
        matches[m].slots[i].status \in HasPlayer
            <=> matches[m].slots[i].user # NoUser

(* Who sits in a room is mapped to that room, so the handlers find the     *)
(* player and remove_user_from_match can take the player out again.        *)
SeatsAreMapped ==
    \A m \in DOMAIN matches, i \in Slots :
        LET u == matches[m].slots[i].user
        IN u # NoUser => u \in DOMAIN userToMatch /\ userToMatch[u] = m

(* Nobody holds two slots, in one room or in two. *)
OneSlotEach ==
    \A m, n \in DOMAIN matches : \A i, j \in Slots :
        /\ matches[m].slots[i].user = matches[n].slots[j].user
        /\ matches[m].slots[i].user # NoUser
        => m = n /\ i = j

(* The host of a room is one of its players: leaving, kicking out and      *)
(* handing over never leave a room without somebody who can start it.  In  *)
(* particular no room is empty.                                            *)
HostSeated ==
    \A m \in DOMAIN matches : SlotsOf(matches[m], matches[m].host) # {}

(* A slot plays only while its room is in progress: the finish that clears *)
(* in_progress never overlooks a player.                                   *)
PlayingInProgress ==
    \A m \in DOMAIN matches :
        SlotsIn(matches[m], "playing") # {} => matches[m].inProgress

(* Together: the seating of the rooms, for every way of using the server,  *)
(* the wrap of next_match_id over a live room included.                    *)
SeatingOK ==
    /\ OccupiedSlots
    /\ SeatsAreMapped
    /\ OneSlotEach
    /\ HostSeated
    /\ PlayingInProgress

(* What also holds until next_match_id comes round to an id still in use:  *)
(* a mapping never dangles, the start time, frames and loaded users of a   *)
(* room go when the room goes, a room has a start time exactly while it is *)
(* in progress, and no live room awaits the deletion of its data.          *)
RecordsOK ==
    ~idReused =>
        /\ \A u \in DOMAIN userToMatch : Seated(u)
        /\ lastScores \cup loadedUsers \subseteq DOMAIN matches
        /\ startTimes = {m \in DOMAIN matches : matches[m].inProgress}
        /\ pending \cap DOMAIN matches = {}

(* A room changes hands only when its host gives it away or leaves (also   *)
(* by joining it anew).                                                    *)
HostKept ==
    [][\A m \in DOMAIN matches \cap DOMAIN matches' :
        LET h == matches[m].host
        IN matches'[m].host # h =>
              \/ SlotsOf(matches'[m], h) = {}
              \/ JoinMatch(h, m)
              \/ \E i \in Slots : ChangeHost(h, i)]_vars

(* The step gives the id of room m, still in use, to a new room.           *)
Overwritten(m) == m = nextMatchId /\ \E u \in Users : CreateMatch(u)

(* A slot the host locked stays locked, and empty, until the host unlocks  *)
(* it or the room is overwritten: neither a join nor a change of slot      *)
(* lands in it.                                                            *)
LocksRespected ==
    [][\A m \in DOMAIN matches \cap DOMAIN matches', i \in Slots :
        matches[m].slots[i].status = "locked" =>
            \/ matches'[m].slots[i] = matches[m].slots[i]
            \/ LockSlot(matches[m].host, i)
            \/ Overwritten(m)]_vars

(* A game is declared over only by the last player still playing: at most  *)
(* one slot was playing before the step that ends it.  The one step that   *)
(* interrupts a game gives the id of its room to a new one; the games      *)
(* played beside it, and after it, end as ever.                            *)
FinishInterruptsNobody ==
    [][\A m \in DOMAIN matches \cap DOMAIN matches' :
        matches[m].inProgress /\ ~matches'[m].inProgress =>
            \/ \A i, j \in SlotsIn(matches[m], "playing") : i = j
            \/ Overwritten(m)]_vars

(* The handlers that call try_finish_match (PART, COMPLETE, CHANGE_TEAM)   *)
(* never leave a game that is over but still in progress.  Such a stalled  *)
(* room comes only from the steps that do not call it: a player lost to    *)
(* another room or to the end of the session, a status packet sent while   *)
(* playing, and a START that finds nobody to play.                         *)
StallsOnlyUnchecked ==
    [][\A m \in DOMAIN matches \cap DOMAIN matches' :
        GameOver(matches'[m]) /\ ~GameOver(matches[m]) =>
            \/ \E u \in Users :
                \/ CreateMatch(u) \/ Logout(u) \/ Evict(u) \/ StartMatch(u)
                \/ \E k \in MatchIds : JoinMatch(u, k) \/ JoinVanishedMatch(u, k)
                \/ \E status \in {"ready", "notReady", "noMap"} : SetStatus(u, status)
            \/ \E T \in SUBSET Users : PrunerTick(T)]_vars

(* The data of a disbanded room is eventually handed to delete_room_data,  *)
(* whichever path disbanded it: the pruner's tick drains what the handlers *)
(* left behind.                                                            *)
PendingDrained == \A m \in MatchIds : m \in pending ~> m \notin pending
=============================================================================
