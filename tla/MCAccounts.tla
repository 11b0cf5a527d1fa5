----------------------------- MODULE MCAccounts -----------------------------
(***************************************************************************)
(* Accounts in two studies, which the initial state chooses between.  In   *)
(* "names" two clients use a name, the name with a tag and two passwords   *)
(* on one machine; in "machines" three people who are interchangeable log  *)
(* in on two machines that share a network card, one of which hides its    *)
(* disk.  A check that fails ends the latter: from there on the limit      *)
(* promises nothing.                                                       *)
(***************************************************************************)
EXTENDS Accounts, TLC

CONSTANTS ada, taggedAda, bob, cai, dan, secret, other, card, disk, c1, c2

VARIABLE study

MCTagged    == {ada, taggedAda}
MCPeople    == {bob, cai, dan}
MCNames     == MCTagged \cup MCPeople
MCClean     == [n \in MCNames |-> IF n = taggedAda THEN ada ELSE n]
MCMachine   == [adapters |-> card, disk |-> disk]
MCMachines  == {MCMachine, [MCMachine EXCEPT !.disk = Blank]}
MCClients   == {c1, c2}
MCSymmetry  == Permutations(MCClients) \cup Permutations(MCPeople)

MCAsk(c) ==
    \/ /\ study = "names"
       /\ \E n \in MCTagged, p \in Passwords :
            \/ AskForm(c, n, p)
            \/ AskLogin(c, n, p, MCMachine, n = taggedAda)
    \/ /\ study = "machines"
       /\ \E n \in MCPeople, m \in MCMachines : AskLogin(c, n, secret, m, FALSE)

MCInit == Init /\ study \in {"names", "machines"}

(* Where machines are studied, a new account gets all its rows: they say    *)
(* nothing of machines.                                                    *)
MCNext ==
    /\ \E c \in Clients : MCAsk(c) \/ Proceed(c)
    /\ study = "machines" =>
          \A c \in Clients : At(c, "seed") => client'[c].step \in {"seed", "record"}
    /\ UNCHANGED study

MCSpec == MCInit /\ [][MCNext]_<<vars, study>>

(* not in the names' study, where they happen *)
MCNeverWaived == study = "machines" => ~lenient
=============================================================================
