---------------------------- MODULE MCMatchRooms ----------------------------
(* MatchRooms on a small instance.  The users are interchangeable. *)
EXTENDS MatchRooms, TLC, FiniteSets

Symmetry == Permutations(Users)

(* The third slot of a room, its locks and who is ready or has no beatmap   *)
(* are studied as long as there is no other room; of two rooms one plays.  *)
MCSmall ==
    Cardinality(DOMAIN matches) > 1 =>
        /\ Cardinality(startTimes \cup lastScores \cup loadedUsers) <= 1
        /\ \A m \in DOMAIN matches :
            /\ matches[m].slots[2].status = "open"
            /\ \A i \in Slots :
                matches[m].slots[i].status \in {"open", "notReady", "playing", "complete"}
=============================================================================
