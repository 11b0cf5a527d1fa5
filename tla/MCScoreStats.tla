----------------------------- MODULE MCScoreStats ----------------------------
(***************************************************************************)
(* What the main database keeps of plays: the scores and statistics of a   *)
(* player (ScoreStats), what is known of a map (BeatmapCache), and the     *)
(* backups of all of it (Backups).  The three share no state here, so the  *)
(* initial state chooses the one that runs.                                *)
(***************************************************************************)
EXTENDS ScoreStats, BeatmapCache, Backups

CONSTANTS h1, h2, r1, r2

VARIABLE study

Play(c, m, mode, relax, score, pp) ==
    [checksum |-> c, map |-> m, mode |-> mode, relax |-> relax, score |-> score, pp |-> pp]

(* two plays of one map, of which the higher score is worth less, and one   *)
(* with Relax, which has a row of its own in mode 0 and shares that of mode 3 *)
MCPair      == {Play("a", "m", 0, FALSE, 5, 3), Play("b", "m", 0, FALSE, 6, 2)}
MCMixed     == MCPair \cup {Play("c", "m", 3, TRUE, 4, 3)}
MCLegacy    == {Play("", "n", 0, FALSE, 4, 1)}
MCHandlers  == {h1, h2}
MCRequests  == {r1, r2}
MCSymmetry  == Permutations(MCHandlers) \cup Permutations(MCRequests)
MCWeight    == <<4, 2>>
MCBonus     == [n \in 0 .. 2 |-> n]

MCInit ==
    /\ Init /\ CacheInit /\ BackupsInit
    /\ study \in {"scores", "maps", "backups"}

MCNext ==
    /\ UNCHANGED study
    /\ \/ study = "scores" /\ Next /\ UNCHANGED <<cacheVars, backupVars>>
       \/ study = "maps" /\ CacheNext /\ UNCHANGED <<vars, backupVars>>
       \/ study = "backups" /\ BackupsNext /\ UNCHANGED <<vars, cacheVars>>

(* Two plays are submitted, each as often as its client likes: the two of   *)
(* mode 0, the second of them without Relax, or the first and that of mode 3. *)
MCTwo ==
    LET busy == {h \in Handlers : submission[h].step # "idle"}
        used == (scores \ MCLegacy) \cup {submission[h].play : h \in busy}
    IN  \A p \in used : p.checksum = "b" =>
            ~p.relax /\ \A q \in used : q.checksum # "c"

MCSpec == MCInit /\ [][MCNext]_<<vars, cacheVars, backupVars, study>>
===============================================================================
