----------------------------- MODULE MCLimiter -----------------------------
(***************************************************************************)
(* What comes in over the network: whether a request is admitted, and whom *)
(* it is charged to (Limiter), and the packets in it (Wire).  The two      *)
(* share no state, so the initial state chooses the one that runs.         *)
(***************************************************************************)
EXTENDS Limiter, Wire

CONSTANTS here, alice

VARIABLE study

MCIps       == {here, alice}
MCHere      == {here}
MCRequests  == {[method |-> "POST", path |-> "/"],
                [method |-> "POST", path |-> "/users"]}
MCRpm       == [t \in Tiers |-> IF t = "sensitive" THEN 2 ELSE 1]
MCWatched   == [ip |-> alice, tier |-> "sensitive"]

-----------------------------------------------------------------------------
(* The packets.  With 2 for 128, the longest name has a length of three    *)
(* digits.  Frames have portions or not, and more or less than they say.   *)

MCWireSlots ==
    {[status |-> 1, user |-> -1, mods |-> 0]}
    \cup {[status |-> 4, user |-> 7, mods |-> 8], [status |-> 4, user |-> 300, mods |-> 0]}

MCWireRooms ==
    [name : {<< >>, <<65>>, <<65, 66, 67, 68, 69>>}, password : {<< >>, <<80, 81>>},
     slots : [1 .. 2 -> MCWireSlots], freemod : BOOLEAN, seed : {9}]

MCWireFrames ==
    {<<100, 2, 5>>, <<100, 2, 5, 0>>, <<100, 2, 5, 0, 7, 8>>, <<100, 2, 5, 1>>, <<100, 2, 5, 1, 7>>,
     <<100, 2, 5, 1, 7, 8, 9>>}

MCWireOthers == {<< >>, <<1>>, <<3, 1>>, <<26, 48, 3>>}

-----------------------------------------------------------------------------
MCInit ==
    /\ Init /\ WireInit
    /\ study \in {"requests", "packets"}
    /\ study = "requests" => room = CHOOSE m \in MCWireRooms : TRUE

MCNext ==
    /\ UNCHANGED study
    /\ \/ study = "requests" /\ Next /\ UNCHANGED wireVars
       \/ study = "packets" /\ WireNext /\ UNCHANGED vars

MCSpec == MCInit /\ [][MCNext]_<<vars, wireVars, study>>
=============================================================================
