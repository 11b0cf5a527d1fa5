----------------------------- MODULE MatchGame ------------------------------
(***************************************************************************)
(* What the games of one room come to: the teams, the players who have     *)
(* loaded, the score frames and the verdict of try_finish_match            *)
(* (src/bancho/handler.rs).  Its writes are MatchSaves'.                   *)
(*                                                                         *)
(* MatchRooms has the seating of every room, its host and its locks, and   *)
(* which handlers reach try_finish_match.  Here the seats are those of one *)
(* room, created again when it has disbanded; any empty slot may be the    *)
(* one that is not locked, and any seated player may be the host, whom     *)
(* CHANGE_HOST moves at will.  A frame is the score it reports, any i32,   *)
(* for nobody looks at it; of the packets only ALL_PLAYERS_LOADED is kept. *)
(* A frame is sent and arrives in two steps, and what game it finds is not *)
(* always the one it was sent in.  One that is lost is one never sent.     *)
(***************************************************************************)
EXTENDS Integers, FiniteSetsExt, Maps

CONSTANTS
    Players,
    Nobody,
    NSlots,     \* slots of a room (16 in the code)
    Scores,     \* total_score of a frame, as the client sends it
    MaxGames    \* bound of the model: games started

ASSUME MatchGameAssumption ==
    /\ Nobody \notin Players
    /\ NSlots \in Nat \ {0} /\ MaxGames \in Nat
    /\ Scores \subseteq Int

VARIABLES
    slots,      \* slots of the room; without players the room does not exist
    teamVs,     \* team_type is TEAM_VS
    inProgress,
    flying,     \* frames under way: player -> [score, game it was sent in]
    frames,     \* match_last_scores of the room: player -> frame
    loaded,     \* match_loaded_users of the room: player -> game
    told,       \* ALL_PLAYERS_LOADED has been sent since the last start
    game,       \* history: how many games were started
    late,       \* history: the frames that were under way at the last start
    thinned,    \* history: somebody stopped playing since the last start
    verdict     \* history: what the last step decided, if it ended the game

seats == <<slots, teamVs>>
play  == <<inProgress, frames, loaded, told, late, thinned>>
vars  == <<seats, play, flying, game, verdict>>

-----------------------------------------------------------------------------
Slots == 0 .. NSlots - 1

HasPlayer == {"notReady", "ready", "noMap", "playing", "complete"}

None == [game |-> 0]

Empty == [status |-> "open", player |-> Nobody, team |-> "neutral"]

Quiet == verdict' = None

First(S) == CHOOSE i \in S : \A j \in S : i <= j

TakenIn(s)   == {i \in Slots : s[i].status \in HasPlayer}
PlayingIn(s) == {s[i].player : i \in {j \in Slots : s[j].status = "playing"}}

In(u)     == \E i \in Slots : slots[i].player = u
SlotOf(u) == First({i \in Slots : slots[i].player = u})

-----------------------------------------------------------------------------
(* The verdict of try_finish_match, from the frames *)

Row(u, team) ==
    [player |-> u, team |-> team, passed |-> u \in DOMAIN frames,
     score |-> IF u \in DOMAIN frames THEN frames[u].score ELSE 0]

(* match_scores: a row for every slot with a player, by slot *)
RowsOf(s) == [i \in TakenIn(s) |-> Row(s[i].player, s[i].team)]

(* Mutant: of equal scores the last one wins. *)
BetterOrEqual(best, row) == IF row.score >= best.score THEN row ELSE best

Better(best, row) == IF row.score > best.score THEN row ELSE best

(* The loop over the slots: best[n] is the best row of the first n. *)
Winner(rows) ==
    LET best[n \in 0 .. NSlots] ==
            IF n = 0 THEN [player |-> Nobody, score |-> -1]
            ELSE IF n - 1 \in DOMAIN rows THEN Better(best[n - 1], rows[n - 1])
            ELSE best[n - 1]
    IN  best[NSlots].player

(* blue_score and red_score, added up row by row *)
TeamScore(rows, team) ==
    LET sum[n \in 0 .. NSlots] ==
            IF n = 0 THEN 0
            ELSE IF n - 1 \in DOMAIN rows /\ rows[n - 1].team = team
                 THEN sum[n - 1] + rows[n - 1].score
            ELSE sum[n - 1]
    IN  sum[NSlots]

WinningTeam(rows) ==
    CASE TeamScore(rows, "blue") > TeamScore(rows, "red") -> "blue"
      [] TeamScore(rows, "red") > TeamScore(rows, "blue") -> "red"
      [] OTHER -> "neutral"

(* the players whose row says won *)
Won(rows) ==
    {rows[n].player : n \in {k \in DOMAIN rows :
        IF teamVs
        THEN rows[k].team = WinningTeam(rows) /\ WinningTeam(rows) # "neutral"
        ELSE rows[k].player = Winner(rows)}}

-----------------------------------------------------------------------------
(* try_finish_match, once the slots have become s *)

GameOver(s) ==
    /\ inProgress
    /\ PlayingIn(s) = {}
    /\ \/ \E i \in Slots : s[i].status = "complete"
       \/ TakenIn(s) = {}

Concluded(s) ==
    [i \in Slots |-> IF i \in TakenIn(s) THEN [s[i] EXCEPT !.status = "notReady"] ELSE s[i]]

Finish(s) ==
    /\ slots' = Concluded(s)
    /\ inProgress' = FALSE
    /\ frames' = << >> /\ loaded' = << >> /\ late' = << >> /\ told' = FALSE
    /\ verdict' = [game |-> game, teamVs |-> teamVs, rows |-> RowsOf(s), frames |-> frames,
                  late |-> late, winner |-> Winner(RowsOf(s)), won |-> Won(RowsOf(s))]

TryFinish(s) ==
    \/ GameOver(s) /\ Finish(s)
    \/ /\ ~GameOver(s)
       /\ slots' = s
       /\ UNCHANGED <<inProgress, frames, loaded, told, late>> /\ Quiet

-----------------------------------------------------------------------------
(* The room *)

Create(u) ==
    /\ TakenIn(slots) = {}
    /\ slots' = [slots EXCEPT ![0].status = "notReady", ![0].player = u]
    /\ teamVs' \in BOOLEAN
    /\ UNCHANGED <<play, flying, game>> /\ Quiet

Join(u) ==
    /\ TakenIn(slots) # {} /\ ~In(u)
    /\ \E i \in Slots \ TakenIn(slots) :
          slots' = [slots EXCEPT ![i].status = "notReady", ![i].player = u]
    /\ UNCHANGED <<teamVs, play, flying, game>> /\ Quiet

(* remove_user_from_match, which forgets the game of a room that disbands *)
Leave(u) ==
    /\ In(u)
    /\ slots' = [slots EXCEPT ![SlotOf(u)] = Empty]
    /\ UNCHANGED <<flying, game>> /\ Quiet
    /\ IF TakenIn(slots') = {}
       THEN /\ inProgress' = FALSE /\ told' = FALSE /\ thinned' = FALSE
            /\ frames' = << >> /\ loaded' = << >> /\ late' = << >>
            /\ teamVs' = FALSE
       ELSE /\ thinned' = (thinned \/ u \in PlayingIn(slots))
            /\ UNCHANGED <<teamVs, inProgress, frames, loaded, told, late>>

(* PART_MATCH *)
Part(u) ==
    /\ In(u)
    /\ \/ TakenIn(slots) = {SlotOf(u)} /\ Leave(u)
       \/ /\ TakenIn(slots) # {SlotOf(u)}
          /\ TryFinish([slots EXCEPT ![SlotOf(u)] = Empty])
          /\ thinned' = (thinned \/ u \in PlayingIn(slots))
          /\ UNCHANGED <<teamVs, flying, game>>

(* the session ends, or its player joins or creates another room: nobody  *)
(* asks whether the game is over                                          *)
Vanish(u) == Leave(u)

SetStatus(u, status) ==
    /\ In(u)
    /\ slots' = [slots EXCEPT ![SlotOf(u)].status = status]
    /\ thinned' = (thinned \/ u \in PlayingIn(slots))
    /\ UNCHANGED <<teamVs, inProgress, frames, loaded, told, late, flying, game>> /\ Quiet

Ready(u)      == SetStatus(u, "ready")
NotReady(u)   == SetStatus(u, "notReady")     \* HAS_BEATMAP as well
NoBeatmap(u)  == SetStatus(u, "noMap")

ChangeSlot(u, i) ==
    /\ In(u) /\ i \notin TakenIn(slots)
    /\ slots' = [slots EXCEPT ![SlotOf(u)] = Empty, ![i] = slots[SlotOf(u)]]
    /\ UNCHANGED <<teamVs, play, flying, game>> /\ Quiet

ChangeTeam(u) ==
    /\ In(u)
    /\ TryFinish([slots EXCEPT ![SlotOf(u)].team = IF @ = "blue" THEN "red" ELSE "blue"])
    /\ UNCHANGED <<teamVs, flying, game, thinned>>

ChangeSettings(u) ==
    /\ In(u)
    /\ teamVs' \in BOOLEAN
    /\ slots' = [i \in Slots |->
                    IF slots[i].status = "ready" /\ slots[i].player # u
                    THEN [slots[i] EXCEPT !.status = "notReady"] ELSE slots[i]]
    /\ UNCHANGED <<play, flying, game>> /\ Quiet

-----------------------------------------------------------------------------
(* The game *)

Started ==
    [i \in Slots |-> IF slots[i].status \in {"ready", "notReady"}
                     THEN [slots[i] EXCEPT !.status = "playing"] ELSE slots[i]]

(* Mutant: the frames and the loaded players of before stay. *)
StartKeeping(u) ==
    /\ In(u) /\ game < MaxGames
    /\ slots' = Started
    /\ inProgress' = TRUE
    /\ told' = FALSE /\ thinned' = FALSE /\ late' = flying
    /\ game' = game + 1
    /\ UNCHANGED <<teamVs, flying, frames, loaded>> /\ Quiet

Start(u) ==
    /\ In(u) /\ game < MaxGames
    /\ slots' = Started
    /\ inProgress' = TRUE
    /\ frames' = << >> /\ loaded' = << >>
    /\ told' = FALSE /\ thinned' = FALSE /\ late' = flying
    /\ game' = game + 1
    /\ UNCHANGED <<teamVs, flying>> /\ Quiet

AllLoaded(l) == PlayingIn(slots) \subseteq DOMAIN l

LoadComplete(u) ==
    /\ In(u)
    /\ loaded' = Put(loaded, u, game)
    /\ told' = (told \/ AllLoaded(loaded'))
    /\ UNCHANGED <<seats, inProgress, frames, late, thinned, flying, game>> /\ Quiet

(* The client sends a frame, in a game or not; it has one request at a    *)
(* time, so one frame under way, and none of another room when it joins.  *)
SendFrame(u, score) ==
    /\ In(u) /\ u \notin DOMAIN flying
    /\ flying' = Put(flying, u, [score |-> score, game |-> IF inProgress THEN game ELSE 0])
    /\ UNCHANGED <<seats, play, game>> /\ Quiet

(* It arrives, and counts for whatever game is on, if its player sits in  *)
(* the room.                                                              *)
ScoreUpdate(u) ==
    /\ u \in DOMAIN flying
    /\ flying' = Without(flying, {u})
    /\ frames' = IF In(u) THEN Put(frames, u, flying[u]) ELSE frames
    /\ UNCHANGED <<seats, inProgress, loaded, told, late, thinned, game>> /\ Quiet

Complete(u) ==
    /\ In(u)
    /\ TryFinish([slots EXCEPT ![SlotOf(u)].status = "complete"])
    /\ thinned' = (thinned \/ u \in PlayingIn(slots))
    /\ UNCHANGED <<teamVs, flying, game>>

-----------------------------------------------------------------------------
Init ==
    /\ slots = [i \in Slots |-> Empty]
    /\ teamVs = FALSE /\ inProgress = FALSE
    /\ flying = << >> /\ frames = << >> /\ loaded = << >> /\ late = << >>
    /\ told = FALSE /\ thinned = FALSE
    /\ game = 0
    /\ verdict = None

Seating(u) ==
    \/ Create(u) \/ Join(u) \/ Part(u) \/ Vanish(u)
    \/ Ready(u) \/ NotReady(u) \/ NoBeatmap(u)
    \/ ChangeTeam(u) \/ ChangeSettings(u)
    \/ \E i \in Slots : ChangeSlot(u, i)

Playing(u) ==
    \/ Start(u) \/ LoadComplete(u) \/ ScoreUpdate(u) \/ Complete(u)
    \/ \E score \in Scores : SendFrame(u, score)

Next == \E u \in Players : Seating(u) \/ Playing(u)

Spec == Init /\ [][Next]_vars

-----------------------------------------------------------------------------
(* Properties *)

Slot == [status : HasPlayer \cup {"open"}, player : Players \cup {Nobody},
         team : {"neutral", "blue", "red"}]

(* Nobody sits in two slots, a slot has a status of a player just when it *)
(* has a player, and a room without players has no game                   *)
(* (remove_user_from_match).                                              *)
GameTypeOK ==
    /\ slots \in [Slots -> Slot]
    /\ \A i, j \in Slots : slots[i].player = slots[j].player => i = j \/ slots[i].player = Nobody
    /\ \A i \in Slots : slots[i].status = "open" <=> slots[i].player = Nobody
    /\ \A i \in Slots : slots[i].status = "open" => slots[i].team = "neutral"
    /\ \A f \in {flying, frames, loaded} : DOMAIN f \subseteq Players
    /\ TakenIn(slots) = {} => ~inProgress /\ frames = << >> /\ loaded = << >>

TeamTotal(rows, team) ==
    MapThenSumSet(LAMBDA n : rows[n].score, {n \in DOMAIN rows : rows[n].team = team})

(* As soon as one of the scores of a game is not negative, its winner has *)
(* a score nobody exceeds, and of those who have it the lowest slot       *)
(* (try_finish_match); when all are, nobody wins, for the search begins   *)
(* at -1.  In a game that is not TEAM_VS nobody but the winner has won.   *)
WinnerBest ==
    verdict.game # 0 =>
        /\ IF \E k \in DOMAIN verdict.rows : verdict.rows[k].score >= 0
           THEN \E n \in DOMAIN verdict.rows :
                   /\ verdict.winner = verdict.rows[n].player
                   /\ \A k \in DOMAIN verdict.rows :
                         \/ verdict.rows[k].score < verdict.rows[n].score
                         \/ verdict.rows[k].score = verdict.rows[n].score /\ k >= n
           ELSE verdict.winner = Nobody
        /\ ~verdict.teamVs => verdict.won = {verdict.winner} \ {Nobody}

(* In TEAM_VS a player has won exactly when the total of his team exceeds *)
(* that of the other one: a draw has no winners, and a player who never   *)
(* chose a team is never among them.                                      *)
TeamVerdict ==
    verdict.game # 0 /\ verdict.teamVs =>
        \A n \in DOMAIN verdict.rows :
            LET r     == verdict.rows[n]
                other == IF r.team = "blue" THEN "red" ELSE "blue"
            IN  r.player \in verdict.won <=>
                    r.team # "neutral" /\ TeamTotal(verdict.rows, r.team) > TeamTotal(verdict.rows, other)

(* What try_finish_match makes of the scores of a game, for its winner and *)
(* for everybody who has won.                                              *)
VerdictByScores == WinnerBest /\ TeamVerdict

(* A score that counts was sent in the game it counts for, or it is the   *)
(* one frame of its player that was under way when that game began: what  *)
(* arrived before the start is forgotten (MATCH_START clears              *)
(* match_last_scores), what arrives after it is not told from a frame of  *)
(* this game (relay_match_score_frame looks at the room only).            *)
ScoresOfThisGame ==
    verdict.game # 0 =>
        \A u \in DOMAIN verdict.frames :
            \/ verdict.frames[u].game = verdict.game
            \/ u \in DOMAIN verdict.late /\ verdict.frames[u] = verdict.late[u]

(* When the players have been told that all have loaded, everybody who is *)
(* playing has loaded, and has done so since this game began.             *)
ToldWhenLoaded ==
    told /\ inProgress => \A u \in PlayingIn(slots) : u \in DOMAIN loaded /\ loaded[u] = game

(* As long as nobody has left the game, nobody waits for the others in    *)
(* vain: when all who play have loaded, they have been told so.  (When    *)
(* the one they wait for leaves, only the next LOAD_COMPLETE tells them.) *)
LoadedAreTold ==
    inProgress /\ ~thinned /\ PlayingIn(slots) # {} /\ PlayingIn(slots) \subseteq DOMAIN loaded => told

(* ALL_PLAYERS_LOADED comes neither too early nor, as far as the code can *)
(* see to it, never.                                                      *)
AllLoadedTold == ToldWhenLoaded /\ LoadedAreTold
=============================================================================
