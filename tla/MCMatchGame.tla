----------------------------- MODULE MCMatchGame -----------------------------
(***************************************************************************)
(* The games of a room and what the databases keep of rooms and games.     *)
(* MatchGame, MatchSaves and MultiDb share no state here, so the initial   *)
(* state chooses what is studied: two games of two players, one game of    *)
(* three, the saving of two results, or the copy of the live rooms.        *)
(***************************************************************************)
EXTENDS MatchGame, MatchSaves, MultiDb, TLC

CONSTANTS ann, bob, cat, g1, g2

VARIABLES
    study,
    who

MCPlayers  == {ann, bob, cat}
MCGames    == {g1, g2}
MCScores   == {-1, 1}
MCSymmetry == Permutations(MCPlayers) \cup Permutations(MCGames)

MCInit ==
    /\ Init /\ SavesInit /\ CopyInit
    /\ study \in {"loads", "frames", "verdicts", "results", "rooms"}
    /\ who \in CASE study \in {"loads", "frames"} -> {P \in SUBSET MCPlayers : Cardinality(P) = 2}
                 [] study = "verdicts" -> {MCPlayers}
                 [] OTHER -> {{}}

MCNext ==
    /\ UNCHANGED <<study, who>>
    /\ IF who # {} THEN \E u \in who : Seating(u) \/ Playing(u) ELSE UNCHANGED vars
    /\ study = "verdicts" /\ flying # << >> => flying' = << >>
    /\ IF study = "results" THEN SavesNext ELSE UNCHANGED saveVars
    /\ IF study = "rooms" THEN CopyNext ELSE UNCHANGED copyVars

MCSpec == MCInit /\ [][MCNext]_<<vars, saveVars, copyVars, study, who>>

(* Two players use two slots and play for themselves: either they load, or *)
(* they send frames, all of one score, and change no status before the     *)
(* start.  Three play one game for a verdict, without loading and without  *)
(* the statuses before it; who plays sends one frame, which comes before    *)
(* anything else happens.                                                  *)
MCStudies ==
    /\ Cardinality(who) = 2 => slots[2] = Empty /\ ~teamVs
    /\ study = "loads" => flying = << >>
    /\ study # "loads" => loaded = << >>
    /\ study \in {"frames", "verdicts"} =>
          \A i \in Slots : slots[i].status \notin {"ready", "noMap"}
    /\ study = "frames" => \A u \in DOMAIN flying : flying[u].score = 1
    /\ study = "verdicts" =>
          /\ game <= 1 /\ late = << >>
          /\ frames # << >> => inProgress
          /\ DOMAIN flying \subseteq PlayingIn(slots) \ DOMAIN frames
=============================================================================
