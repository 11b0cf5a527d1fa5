------------------------------ MODULE MultiDb -------------------------------
(***************************************************************************)
(* The live rooms and their copy in the multi database: src/db/multi.rs    *)
(* and the places of src/bancho/handler.rs and src/main.rs that call       *)
(* sync_match_to_multi_db, cleanup_disbanded_matches and record_multi_game *)
(*                                                                         *)
(* Each of these spawns a tokio task per write and drops its result.  A    *)
(* write is one SQL statement or one transaction, so it happens at once or *)
(* not at all; but the tasks run in any order, and a write that fails      *)
(* (SQLITE_BUSY after five seconds, a full disk) is lost in silence.       *)
(*                                                                         *)
(* Abstracted: a room is the version it has, which grows with each change  *)
(* of any room; who leaves, joins or plays is MatchRooms.  The upsert      *)
(* carries the version the room has when it is spawned.                    *)
(***************************************************************************)
EXTENDS Naturals, SequencesExt, Maps

CONSTANTS
    MaxMatchId,  \* the last id before next_match_id wraps
    MaxVersion,  \* bound: changes of rooms between two crashes
    MaxTasks     \* bound: writes outstanding

ASSUME MultiDbAssumption ==
    MaxMatchId \in Nat \ {0} /\ MaxVersion \in Nat /\ MaxTasks \in Nat

MatchIds == 1 .. MaxMatchId
Versions == 1 .. MaxVersion

VARIABLES
    live,      \* matches: id -> version of the room
    version,   \* the last version given out
    nextId,    \* next_match_id
    pending,   \* pending_disbanded_matches
    tasks,     \* the spawned writes that have not run, oldest first
    rows,      \* multi_rooms: id -> version in the row
    games,     \* the ids with rows in multi_games and multi_scores
    unsynced,  \* history: the rooms whose last change was not written
    shuffled,  \* history: a write overtook an older one of the same room
    lost,      \* history: a write failed
    idReused   \* history: an id was given out that was still in use

rooms    == <<live, version, nextId, pending, unsynced, idReused>>
tables   == <<rows, games>>
dbVars   == <<tasks, tables, shuffled, lost>>
copyVars == <<rooms, dbVars>>

-----------------------------------------------------------------------------
(* Writes *)

Upsert(id, v) == [write |-> "upsert", id |-> id, version |-> v]
Record(id)    == [write |-> "record", id |-> id, version |-> 0]
Delete(id)    == [write |-> "delete", id |-> id, version |-> 0]

Writes == [write : {"upsert"}, id : MatchIds, version : Versions]
              \cup [write : {"record", "delete"}, id : MatchIds, version : {0}]

Deletes(S) == SetToSeq({Delete(id) : id \in S})

Spawn(writes) ==
    /\ Len(tasks) + Len(writes) <= MaxTasks
    /\ tasks' = tasks \o writes
    /\ UNCHANGED <<tables, shuffled, lost>>

(* take_disbanded_matches and a delete for each *)
CleanUp(gone) ==
    /\ pending' = {}
    /\ Spawn(Deletes(pending \cup gone))

-----------------------------------------------------------------------------
(* Rooms.  The rooms of old lose a player; those of gone their last.       *)

Now == version + 1

Leaving == {p \in (SUBSET DOMAIN live) \X (SUBSET DOMAIN live) : p[2] \subseteq p[1]}

Left(old, gone) ==
    [id \in DOMAIN live \ gone |-> IF id \in old THEN Now ELSE live[id]]

Tick == version < MaxVersion /\ version' = Now

NextId(n) == IF n = MaxMatchId THEN 1 ELSE n + 1

(* MATCH_CREATE: the room left behind, if any, is not synced. *)
CreateRoom(old, gone) ==
    /\ Tick
    /\ Cardinality(old) <= 1
    /\ live'     = Put(Left(old, gone), nextId, Now)
    /\ pending'  = {}
    /\ Spawn(<<Upsert(nextId, Now)>> \o Deletes(pending \cup gone))
    /\ unsynced' = (unsynced \cup old) \ (gone \cup {nextId})
    /\ idReused' = (idReused \/ nextId \in DOMAIN live \cup pending)
    /\ nextId'   = NextId(nextId)

(* MATCH_JOIN *)
JoinRoom(id, old, gone) ==
    /\ Tick
    /\ Cardinality(old) <= 1
    /\ id \in DOMAIN live \ gone
    /\ live'     = [Left(old, gone) EXCEPT ![id] = Now]
    /\ pending'  = {}
    /\ Spawn(<<Upsert(id, Now)>> \o Deletes(pending \cup gone))
    /\ unsynced' = (unsynced \cup old) \ (gone \cup {id})
    /\ UNCHANGED <<nextId, idReused>>

(* MATCH_JOIN of the room the user was alone in *)
JoinVanished(id) ==
    /\ id \in DOMAIN live
    /\ live'     = Without(live, {id})
    /\ pending'  = pending \cup {id}
    /\ unsynced' = unsynced \ {id}
    /\ UNCHANGED <<version, nextId, idReused, dbVars>>

(* What try_finish_match spawns when the game is over: the room is synced  *)
(* after the game's end changed it.                                        *)
FinishWrites(id, over) == IF over THEN <<Record(id), Upsert(id, Now)>> ELSE << >>

(* MATCH_CHANGE_SLOT, READY, NOT_READY, LOCK, CHANGE_SETTINGS, CHANGE_MODS, *)
(* CHANGE_HOST, NO_BEATMAP, HAS_BEATMAP, START *)
Edit(id) ==
    /\ Tick
    /\ id \in DOMAIN live
    /\ live'     = [live EXCEPT ![id] = Now]
    /\ Spawn(<<Upsert(id, Now)>>)
    /\ unsynced' = unsynced \ {id}
    /\ UNCHANGED <<nextId, pending, idReused>>

(* MATCH_PART of a room that remains, and CHANGE_TEAM *)
PartOrTeam(id, over) ==
    /\ Tick
    /\ id \in DOMAIN live
    /\ live'     = [live EXCEPT ![id] = Now]
    /\ Spawn(FinishWrites(id, over) \o <<Upsert(id, Now)>>)
    /\ unsynced' = unsynced \ {id}
    /\ UNCHANGED <<nextId, pending, idReused>>

(* MATCH_PART by the last player *)
Disband(id) ==
    /\ id \in DOMAIN live
    /\ live'     = Without(live, {id})
    /\ CleanUp({id})
    /\ unsynced' = unsynced \ {id}
    /\ UNCHANGED <<version, nextId, idReused>>

(* MATCH_COMPLETE syncs the room only when it ends the game. *)
CompleteRoom(id, over) ==
    /\ Tick
    /\ id \in DOMAIN live
    /\ live'     = [live EXCEPT ![id] = Now]
    /\ Spawn(FinishWrites(id, over))
    /\ unsynced' = IF over THEN unsynced \ {id} ELSE unsynced \cup {id}
    /\ UNCHANGED <<nextId, pending, idReused>>

(* remove_session, by a logout or the pruner: no sync, but a clean-up *)
EndSessions(old, gone) ==
    /\ Tick
    /\ live'     = Left(old, gone)
    /\ CleanUp(gone)
    /\ unsynced' = (unsynced \cup old) \ gone
    /\ UNCHANGED <<nextId, idReused>>

(* remove_session, by the eviction of a login: neither *)
EvictSession(old, gone) ==
    /\ Tick
    /\ Cardinality(old) <= 1
    /\ live'     = Left(old, gone)
    /\ pending'  = pending \cup gone
    /\ unsynced' = (unsynced \cup old) \ gone
    /\ UNCHANGED <<nextId, idReused, dbVars>>

-----------------------------------------------------------------------------
(* The tasks *)

(* Mutant: a room's games stay. *)
ApplyKeepingGames(w) ==
    CASE w.write = "upsert" -> rows' = Put(rows, w.id, w.version) /\ UNCHANGED games
      [] w.write = "record" -> games' = games \cup {w.id} /\ UNCHANGED rows
      [] w.write = "delete" -> rows' = Without(rows, {w.id}) /\ UNCHANGED games

(* upsert_room, record_multi_game and delete_room_data *)
Apply(w) ==
    CASE w.write = "upsert" -> rows' = Put(rows, w.id, w.version) /\ UNCHANGED games
      [] w.write = "record" -> games' = games \cup {w.id} /\ UNCHANGED rows
      [] w.write = "delete" -> rows' = Without(rows, {w.id}) /\ games' = games \ {w.id}

Run(i) ==
    /\ Apply(tasks[i])
    /\ tasks'    = RemoveAt(tasks, i)
    /\ shuffled' = (shuffled \/ \E j \in 1 .. i - 1 : tasks[j].id = tasks[i].id)
    /\ UNCHANGED <<lost, rooms>>

Fail(i) ==
    /\ tasks' = RemoveAt(tasks, i)
    /\ lost'  = TRUE
    /\ UNCHANGED <<tables, shuffled, rooms>>

(* The process stops and starts again.  The rooms and the tasks are gone,  *)
(* and the tables are cleared before anybody can log in.                   *)
Crash ==
    /\ live'     = << >>
    /\ version'  = 0
    /\ nextId'   = 1
    /\ pending'  = {}
    /\ tasks'    = << >>
    /\ rows'     = << >>
    /\ games'    = {}
    /\ unsynced' = {}
    /\ shuffled' = FALSE
    /\ lost'     = FALSE
    /\ idReused' = FALSE

CopyInit ==
    /\ live     = << >>
    /\ version  = 0
    /\ nextId   = 1
    /\ pending  = {}
    /\ tasks    = << >>
    /\ rows     = << >>
    /\ games    = {}
    /\ unsynced = {}
    /\ shuffled = FALSE
    /\ lost     = FALSE
    /\ idReused = FALSE

CopyNext ==
    \/ \E p \in Leaving :
        \/ CreateRoom(p[1], p[2])
        \/ EndSessions(p[1], p[2])
        \/ EvictSession(p[1], p[2])
        \/ \E id \in MatchIds : JoinRoom(id, p[1], p[2])
    \/ \E id \in MatchIds :
        \/ JoinVanished(id)
        \/ Edit(id)
        \/ Disband(id)
        \/ \E over \in BOOLEAN : PartOrTeam(id, over) \/ CompleteRoom(id, over)
    \/ \E i \in DOMAIN tasks : Run(i) \/ Fail(i)
    \/ Crash

CopySpec == CopyInit /\ [][CopyNext]_copyVars

-----------------------------------------------------------------------------
(* Properties *)

CopyTypeOK ==
    /\ live \in [DOMAIN live -> Versions]
    /\ DOMAIN live \subseteq MatchIds
    /\ version \in Versions \cup {0}
    /\ nextId \in MatchIds
    /\ pending \subseteq MatchIds
    /\ tasks \in Seq(Writes)
    /\ rows \in [DOMAIN rows -> Versions]
    /\ DOMAIN rows \subseteq MatchIds
    /\ games \subseteq MatchIds
    /\ unsynced \subseteq DOMAIN live
    /\ {shuffled, lost, idReused} \subseteq BOOLEAN

(* Nothing is left to be written. *)
Settled == tasks = << >> /\ pending = {}

InOrder == ~shuffled /\ ~lost /\ ~idReused

(* Were the writes of a room run in the order they are spawned, and none   *)
(* lost, then once they are done the tables hold the live rooms, all of    *)
(* them and nothing else, through disbandings by every path.               *)
RoomsListed ==
    Settled /\ InOrder => DOMAIN rows = DOMAIN live /\ games \subseteq DOMAIN live

(* Then also every row shows its room as it is, except for the rooms whose *)
(* last change comes from a handler that does not sync them: a player who  *)
(* left with the session or for another room, a COMPLETE that did not end  *)
(* the game.                                                               *)
RowsFresh ==
    Settled /\ InOrder =>
        \A id \in DOMAIN live \ unsynced : id \in DOMAIN rows /\ rows[id] = live[id]

(* The tables follow the rooms: which there are, and what they are like.   *)
RowsFollowRooms == RoomsListed /\ RowsFresh

(* "The multi database only contains data for active rooms." (multi.rs:378) *)
(* once everything is written, whatever order the tasks ran in.            *)
OnlyActiveRooms ==
    Settled /\ ~lost /\ ~idReused => DOMAIN rows \cup games \subseteq DOMAIN live
=============================================================================
