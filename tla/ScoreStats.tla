----------------------------- MODULE ScoreStats -----------------------------
(***************************************************************************)
(* A player's scores and statistics: submit_score (src/server/web.rs) and  *)
(* save_score, recalculate_user_stats and recalculate_all_scores_and_stats *)
(* (src/db/scores.rs).                                                     *)
(*                                                                         *)
(* save_score is a row of separate statements without a transaction: every *)
(* await is a step here, after which another submission or the             *)
(* recalculation may run and at which the handler may fail or be dropped   *)
(* by its client.  The recalculation runs at every start of the Bancho     *)
(* process, while the web process may be submitting.                       *)
(*                                                                         *)
(* Statements name one user throughout, so one user is modelled.  Accuracy *)
(* is read and written with pp, by the same statements, and left out.      *)
(***************************************************************************)
EXTENDS Integers, Sequences, FiniteSets, FiniteSetsExt, SequencesExt, Maps

CONSTANTS
    Plays,      \* plays to submit: [checksum, map, mode, relax, score, pp]
    Legacy,     \* plays saved before scores had columns for checksum and pp
    Accounted,  \* the rows of stats create_user has left behind
    Handlers,   \* handlers of submit_score that may run at once
    Weight,     \* Weight[i]: what the i-th best map counts for (0.95^(i-1))
    Bonus,      \* Bonus[n]: bonus for n maps
    PpCap       \* what pp is clamped to (32767)

TopLimit == Len(Weight)   \* 100 in the code

ASSUME ScoreAssumption ==
    /\ \A p \in Plays \cup Legacy :
        /\ p = [checksum |-> p.checksum, map |-> p.map, mode |-> p.mode,
                relax |-> p.relax, score |-> p.score, pp |-> p.pp]
        /\ p.mode \in 0 .. 3 /\ p.relax \in BOOLEAN
        /\ p.score \in Nat \ {0} /\ p.pp \in Nat
    /\ \A p \in Plays, q \in Legacy : p.checksum # q.checksum
    /\ IsFiniteSet(Legacy)
    /\ Accounted \subseteq 0 .. 3
    /\ PpCap \in Nat
    /\ Weight \in Seq(Nat) /\ Bonus \in [0 .. Len(Weight) -> Nat]
    /\ \A m, n \in 0 .. Len(Weight) : m <= n => Bonus[m] <= Bonus[n]

VARIABLES
    scores,      \* table scores, as plays
    unpriced,    \* those of them whose pp is still the column's default, 0
    stats,       \* table stats: row -> its counters
    submission,  \* submission[h]: where handler h is in save_score
    recalc,      \* where the recalculation is
    counted,     \* history: the plays an UPDATE of save_score has counted
    undisturbed  \* history: since the last start nobody has submitted and nothing failed

history == <<counted, undisturbed>>
vars    == <<scores, unpriced, stats, submission, recalc, history>>

-----------------------------------------------------------------------------
(* Rows and classes *)

(* the row a play is counted in: Relax has rows of its own but for mania *)
RowOf(p) == IF p.relax /\ p.mode <= 2 THEN p.mode + 4 ELSE p.mode

(* what save_score selects by mode and mods *)
Class(S, mode, relax) == {p \in S : p.mode = mode /\ p.relax = relax}

(* Mutant: a row of Relax is recalculated from the scores without it. *)
RecalculatedFromVanilla(S, r) == Class(S, r % 4, FALSE)

(* what the recalculation selects for a row *)
RecalculatedFrom(S, r) ==
    IF r >= 4 THEN Class(S, r - 4, TRUE) ELSE Class(S, r, FALSE)

PpOf(p) == IF p \in unpriced THEN 0 ELSE p.pp

(* Mutant: of a map counts the play with the highest score. *)
BestOnByScore(S, m) ==
    PpOf(CHOOSE p \in S : p.map = m /\ \A q \in S : q.map = m => q.score <= p.score)

(* the best pp of every map *)
BestOn(S, m) == Max({PpOf(p) : p \in {q \in S : q.map = m}})

Best(S) == [m \in {p.map : p \in S} |-> BestOn(S, m)]

(* the maps, best first; the limit keeps the first of them *)
BestFirst(best) ==
    CHOOSE q \in SetToSeqs(DOMAIN best) :
        \A i, j \in DOMAIN q : i < j => best[q[i]] >= best[q[j]]

Top(best) ==
    LET q == BestFirst(best)
    IN  [i \in 1 .. Min({Len(q), TopLimit}) |-> best[q[i]]]

(* calculate_weighted_pp *)
WeightedPp(pps) ==
    Bonus[Len(pps)] + MapThenSumSet(LAMBDA i : Weight[i] * pps[i], DOMAIN pps)

Profile(S) == Min({WeightedPp(Top(Best(S))), PpCap})

BestScore(S) == IF S = {} THEN 0 ELSE Max({p.score : p \in S})

EmptyRow == [plays |-> 0, total |-> 0, ranked |-> 0, pp |-> 0]

-----------------------------------------------------------------------------
(* submit_score *)

Idle == [step |-> "idle"]

Busy(h, step) == submission[h].step = step

Goes(h, s) == submission' = [submission EXCEPT ![h] = s]

(* A passed play of a known player with the right password.  What the       *)
(* client says of Relax is overruled by what the session says.              *)
Submit(h, p, sessionRelax) ==
    /\ Busy(h, "idle")
    /\ Goes(h, [step |-> "insert",
                play |-> [p EXCEPT !.relax = p.relax \/ sessionRelax]])
    /\ undisturbed' = FALSE
    /\ UNCHANGED <<scores, unpriced, stats, recalc, counted>>

(* Mutant: nothing rejects a play that was saved before. *)
InsertUnchecked(h) ==
    /\ Busy(h, "insert")
    /\ scores' = scores \cup {submission[h].play}
    /\ Goes(h, [submission[h] EXCEPT !.step = "ensure"])
    /\ UNCHANGED <<unpriced, stats, recalc, history>>

(* the index over user and checksum rejects a play that was saved before *)
Insert(h) ==
    /\ Busy(h, "insert")
    /\ IF \E q \in scores : q.checksum = submission[h].play.checksum
       THEN /\ Goes(h, Idle)
            /\ UNCHANGED scores
       ELSE /\ scores' = scores \cup {submission[h].play}
            /\ Goes(h, [submission[h] EXCEPT !.step = "ensure"])
    /\ UNCHANGED <<unpriced, stats, recalc, history>>

(* INSERT OR IGNORE; its own failure is ignored as well *)
EnsureRow(h) ==
    /\ Busy(h, "ensure")
    /\ LET r == RowOf(submission[h].play)
       IN \/ /\ r \notin DOMAIN stats
             /\ stats' = Put(stats, r, EmptyRow)
          \/ UNCHANGED stats
    /\ Goes(h, [submission[h] EXCEPT !.step = "before"])
    /\ UNCHANGED <<scores, unpriced, recalc, history>>

ReadBefore(h) ==
    /\ Busy(h, "before")
    /\ LET r == RowOf(submission[h].play)
       IN Goes(h, [step   |-> "best", play |-> submission[h].play,
                   before |-> IF r \in DOMAIN stats THEN stats[r].pp ELSE 0])
    /\ UNCHANGED <<scores, unpriced, stats, recalc, history>>

ReadBest(h) ==
    /\ Busy(h, "best")
    /\ LET p == submission[h].play
       IN Goes(h, [step  |-> "update", play |-> p, before |-> submission[h].before,
                   after |-> Profile(Class(scores, p.mode, p.relax))])
    /\ UNCHANGED <<scores, unpriced, stats, recalc, history>>

(* Mutant: ranked_score is the score of this play. *)
UpdatedByThis(s, p, pp) ==
    [plays |-> s.plays + 1, total |-> s.total + p.score, ranked |-> p.score, pp |-> pp]

(* the counters and ranked_score are computed by the UPDATE, pp was before *)
Updated(s, p, pp) ==
    [plays  |-> s.plays + 1,
     total  |-> s.total + p.score,
     ranked |-> BestScore(Class(scores, p.mode, p.relax)),
     pp     |-> pp]

(* an UPDATE of no row is no error *)
UpdateStats(h) ==
    /\ Busy(h, "update")
    /\ LET p == submission[h].play
           r == RowOf(p)
       IN IF r \in DOMAIN stats
          THEN /\ stats' = [stats EXCEPT ![r] = Updated(@, p, submission[h].after)]
               /\ counted' = counted \cup {p}
          ELSE UNCHANGED <<stats, counted>>
    /\ Goes(h, [submission[h] EXCEPT !.step = "answered"])
    /\ UNCHANGED <<scores, unpriced, recalc, undisturbed>>

(* A statement fails, or axum drops the handler with its connection: the    *)
(* client learns nothing of what was saved.                                 *)
Fail(h) ==
    /\ submission[h].step \in {"insert", "ensure", "before", "best", "update"}
    /\ Goes(h, Idle)
    /\ UNCHANGED <<scores, unpriced, stats, recalc, history>>

Finish(h) ==
    /\ Busy(h, "answered")
    /\ Goes(h, Idle)
    /\ UNCHANGED <<scores, unpriced, stats, recalc, history>>

-----------------------------------------------------------------------------
(* recalculate_all_scores_and_stats, run by init_db *)

Off == [step |-> "off"]

(* A start, also of a process that died during the last recalculation. *)
Start ==
    /\ recalc' = [step |-> "price", todo |-> unpriced]
    /\ undisturbed' = \A h \in Handlers : Busy(h, "idle")
    /\ UNCHANGED <<scores, unpriced, stats, submission, counted>>

(* the UPDATE of one score, whose failure is ignored *)
Price(p) ==
    /\ recalc.step = "price" /\ p \in recalc.todo
    /\ \/ unpriced' = unpriced \ {p} /\ UNCHANGED undisturbed
       \/ undisturbed' = FALSE /\ UNCHANGED unpriced
    /\ recalc' = [recalc EXCEPT !.todo = @ \ {p}]
    /\ UNCHANGED <<scores, stats, submission, counted>>

ListRows ==
    /\ recalc.step = "price" /\ recalc.todo = {}
    /\ recalc' = [step |-> "rows", todo |-> DOMAIN stats]
    /\ UNCHANGED <<scores, unpriced, stats, submission, history>>

(* the best scores of row r *)
ReadRow(r) ==
    /\ recalc.step = "rows" /\ r \in recalc.todo
    /\ recalc' = [step |-> "write", todo |-> recalc.todo \ {r}, row |-> r,
                  pp |-> Profile(RecalculatedFrom(scores, r))]
    /\ UNCHANGED <<scores, unpriced, stats, submission, history>>

WriteRow(r) ==
    /\ recalc.step = "write" /\ recalc.row = r
    /\ stats' = [stats EXCEPT ![r].pp = recalc.pp,
                              ![r].ranked = BestScore(RecalculatedFrom(scores, r))]
    /\ recalc' = [step |-> "rows", todo |-> recalc.todo]
    /\ UNCHANGED <<scores, unpriced, submission, history>>

(* the read or the UPDATE of a row fails, which is ignored *)
SkipRow ==
    /\ recalc.step = "write"
    /\ recalc' = [step |-> "rows", todo |-> recalc.todo]
    /\ undisturbed' = FALSE
    /\ UNCHANGED <<scores, unpriced, stats, submission, counted>>

Recalculated ==
    /\ recalc.step = "rows" /\ recalc.todo = {}
    /\ recalc' = Off
    /\ UNCHANGED <<scores, unpriced, stats, submission, history>>

-----------------------------------------------------------------------------
Init ==
    /\ scores = Legacy
    /\ unpriced = Legacy
    /\ counted = {p \in Legacy : RowOf(p) \in Accounted}
    /\ stats = [r \in Accounted |->
                  LET S == {p \in Legacy : RowOf(p) = r}
                  IN [plays  |-> Cardinality(S),
                      total  |-> MapThenSumSet(LAMBDA p : p.score, S),
                      ranked |-> BestScore(RecalculatedFrom(S, r)),
                      pp     |-> 0]]
    /\ submission = [h \in Handlers |-> Idle]
    /\ recalc = Off /\ undisturbed = FALSE

SaveStep(h) ==
    Insert(h) \/ EnsureRow(h) \/ ReadBefore(h) \/ ReadBest(h) \/ UpdateStats(h)

RecalcStep ==
    \/ \E p \in Legacy : Price(p)
    \/ ListRows
    \/ \E r \in 0 .. 6 : ReadRow(r) \/ WriteRow(r)
    \/ SkipRow
    \/ Recalculated

Next ==
    \/ \E h \in Handlers :
        \/ \E p \in Plays, sessionRelax \in BOOLEAN : Submit(h, p, sessionRelax)
        \/ SaveStep(h)
        \/ Fail(h)
        \/ Finish(h)
    \/ Start
    \/ RecalcStep

Spec == Init /\ [][Next]_vars

-----------------------------------------------------------------------------
(* Properties *)

Entry == [plays : Nat, total : Nat, ranked : Nat, pp : 0 .. PpCap]

Played == Legacy \cup {[p EXCEPT !.relax = p.relax \/ b] : p \in Plays, b \in BOOLEAN}

ScoreTypeOK ==
    /\ scores \subseteq Played
    /\ unpriced \subseteq scores \cap Legacy
    /\ DOMAIN stats \subseteq 0 .. 6
    /\ \A r \in DOMAIN stats : stats[r] \in Entry
    /\ DOMAIN submission = Handlers
    /\ \A h \in Handlers :
        submission[h].step # "idle" => submission[h].play \in Played \ Legacy
    /\ recalc.step \in {"off", "price", "rows", "write"}
    /\ counted \subseteq scores
    /\ undisturbed \in BOOLEAN

In(S, r) == {p \in S : RowOf(p) = r}

(* What a row counts is what it was told once of each play: no play is     *)
(* counted by two submissions of it, none by a submission that was refused *)
(* and none in the row of another mode, whatever runs in between, fails or *)
(* is sent again.                                                          *)
CountedOnce ==
    \A r \in DOMAIN stats :
        /\ stats[r].plays = Cardinality(In(counted, r))
        /\ stats[r].total = MapThenSumSet(LAMBDA p : p.score, In(counted, r))

(* The row of a mode is its own unless Relax shares it. *)
Own(r) == \A p \in Played : RowOf(p) = r => p.relax = (r >= 4)

(* However stale, a profile never claims more than the scores behind it    *)
(* are worth, and ranked_score misses no play that was counted.            *)
NeverOverstated ==
    \A r \in DOMAIN stats : Own(r) =>
        /\ stats[r].pp <= Profile(In(scores, r))
        /\ stats[r].ranked <= BestScore(In(scores, r))
        /\ stats[r].ranked >= BestScore(In(counted, r))

(* The charts animate pp from before to after: a play never costs pp,      *)
(* whatever other submissions and the recalculation did in between.        *)
AnswerRises ==
    \A h \in Handlers :
        submission[h].step \in {"update", "answered"} /\ Own(RowOf(submission[h].play)) =>
            submission[h].after >= submission[h].before

Current == \A r \in DOMAIN stats : Own(r) =>
            /\ stats[r].pp = Profile(In(scores, r))
            /\ stats[r].ranked = BestScore(In(scores, r))

(* Overlapping submissions may leave a profile stale, and a failed one     *)
(* does; a start that recalculates to the end while nobody submits brings  *)
(* every row back to what its scores are worth, and so it stays until the  *)
(* next submission.                                                        *)
StartsRepair == undisturbed /\ recalc = Off => Current
=============================================================================
