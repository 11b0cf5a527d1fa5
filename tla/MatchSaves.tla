----------------------------- MODULE MatchSaves -----------------------------
(***************************************************************************)
(* save_match_result (src/db/matches.rs): the task that try_finish_match   *)
(* spawns for a game writes the match, then one row after the other under  *)
(* the id it got, each with an INSERT of its own.  Tasks of several games  *)
(* run at once and see each other's writes.                                 *)
(*                                                                         *)
(* A row is the player it is about.                                        *)
(***************************************************************************)
EXTENDS Integers, SequencesExt, FiniteSets

CONSTANTS
    Scorers,    \* who may have a row
    Games       \* the games that end

ASSUME MatchSavesAssumption == IsFiniteSet(Scorers)

VARIABLES
    rowsOf,     \* game -> the rows of its verdict, << >> before it has ended
    saving,     \* the running tasks: the game, its match id, the rows to come
    ended,      \* history: game -> how its task ended
    table       \* match_history, each with its rows of match_scores

saveVars == <<rowsOf, saving, ended, table>>

-----------------------------------------------------------------------------
(* the rows are in the order of the slots *)
EndGame(g) ==
    /\ rowsOf[g] = << >>
    /\ \E S \in (SUBSET Scorers) \ {{}} : \E rows \in SetToSeqs(S) :
          /\ rowsOf' = [rowsOf EXCEPT ![g] = rows]
          /\ saving' = saving \cup {[game |-> g, id |-> 0, left |-> rows]}
    /\ UNCHANGED <<ended, table>>

InsertMatch(t) ==
    /\ t.id = 0
    /\ table' = Append(table, [game |-> t.game, rows |-> << >>])
    /\ saving' = (saving \ {t}) \cup {[t EXCEPT !.id = Len(table')]}
    /\ UNCHANGED <<rowsOf, ended>>

(* Mutant: the row goes under the last id of match_history. *)
RowIdLast(t) == Len(table)

(* the id that RETURNING gave *)
RowId(t) == t.id

InsertScore(t) ==
    /\ t.id # 0 /\ t.left # << >>
    /\ table' = [table EXCEPT ![RowId(t)].rows = Append(@, Head(t.left))]
    /\ saving' = (saving \ {t}) \cup {[t EXCEPT !.left = Tail(@)]}
    /\ UNCHANGED <<rowsOf, ended>>

Saved(t) ==
    /\ t.id # 0 /\ t.left = << >>
    /\ saving' = saving \ {t}
    /\ ended' = [ended EXCEPT ![t.game] = "saved"]
    /\ UNCHANGED <<rowsOf, table>>

(* a query fails, or the process dies: what was written stays *)
SaveFails(t) ==
    /\ saving' = saving \ {t}
    /\ ended' = [ended EXCEPT ![t.game] = "failed"]
    /\ UNCHANGED <<rowsOf, table>>

-----------------------------------------------------------------------------
SavesInit ==
    /\ rowsOf = [g \in Games |-> << >>]
    /\ saving = {}
    /\ ended = [g \in Games |-> "no"]
    /\ table = << >>

SavesNext ==
    \/ \E g \in Games : EndGame(g)
    \/ \E t \in saving : InsertMatch(t) \/ InsertScore(t) \/ Saved(t) \/ SaveFails(t)

SavesSpec == SavesInit /\ [][SavesNext]_saveVars

-----------------------------------------------------------------------------
(* Properties *)

(* The rows kept under a match are those of its own game, in the order of *)
(* the slots, while other results are being saved and after a save that   *)
(* failed half-way: such a match has the first rows only, and no game has *)
(* two matches (save_match_result).                                       *)
RowsOfTheirMatch ==
    /\ \A id \in DOMAIN table : IsPrefix(table[id].rows, rowsOf[table[id].game])
    /\ \A id, other \in DOMAIN table : table[id].game = table[other].game => id = other

(* Success is reported for a game only when all its rows are there.       *)
SavedWhole ==
    \A g \in Games : ended[g] = "saved" =>
        \E id \in DOMAIN table : table[id] = [game |-> g, rows |-> rowsOf[g]]
=============================================================================
