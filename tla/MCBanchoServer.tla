---------------------------- MODULE MCBanchoServer --------------------------
(***************************************************************************)
(* BanchoServer on small instances, of which the initial state chooses     *)
(* one: a player with two logins, which may overlap, and two rooms; or two *)
(* players with a login each and one room at a time, which they enter,     *)
(* leave and lock slots of without starting a game.                        *)
(***************************************************************************)
EXTENDS BanchoServer, FiniteSets, TLC

CONSTANTS a, b, a1, a2, b1

VARIABLE study

MCTokens == {a1, a2, b1}
MCOwner  == [t \in MCTokens |-> IF t = b1 THEN b ELSE a]

(* the rooms of the second study *)
Quiet(room) ==
    /\ ~room.inProgress
    /\ \A i \in Rooms!Slots : room.slots[i].status \in {"open", "notReady", "locked"}

MCInit == Init /\ study \in {"logins", "players"}

MCNext ==
    /\ Next /\ UNCHANGED study
    /\ study = "logins" => request'[b1] = "unborn"
    /\ study = "players" =>
          /\ request'[a2] = "unborn"
          /\ Cardinality(DOMAIN matches') <= 1
          /\ \A m \in DOMAIN matches' : Quiet(matches'[m])

MCSpec == MCInit /\ [][MCNext]_<<vars, study>> /\ WF_vars(TimeOut)
=============================================================================
