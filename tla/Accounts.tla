------------------------------ MODULE Accounts ------------------------------
(***************************************************************************)
(* How accounts come to be: handle_login up to the session (src/server/    *)
(* bancho.rs), which registers unknown names, the form of osu_register_    *)
(* user (src/server/web.rs), and create_user, check_multiaccount and       *)
(* record_user_hardware (src/db/users.rs) under both.                      *)
(*                                                                         *)
(* Every query is a step: between the check of a machine and the record    *)
(* that counts it, other requests run.  Hashes of passwords and of         *)
(* hardware are taken to be injective and stand for what they hash; names  *)
(* are taken in lower case, as the database compares them.                 *)
(***************************************************************************)
EXTENDS Integers, Sequences, FiniteSets

CONSTANTS
    Names,          \* names as typed
    Clean,          \* Clean[n]: clean_username, n without a leading [TAG]
    Passwords,
    Machines,       \* machines: [adapters, disk]
    Blank,          \* an identifier the client did not send
    Clients,        \* requests that may be under way at once
    AutoRegister,   \* gameplay.auto_register
    AntiMulti,      \* security.anti_multiaccount
    MaxPerMachine,  \* security.max_accounts_per_hwid
    MaxUsers        \* bound of the model: accounts

ASSUME AccountsAssumption ==
    /\ Names \subseteq DOMAIN Clean
    /\ \A n \in Names : Clean[n] \in Names
    /\ AutoRegister \in BOOLEAN /\ AntiMulti \in BOOLEAN
    /\ MaxPerMachine \in Nat /\ MaxUsers \in Nat
    /\ IsFiniteSet(Clients) /\ Clients # {}
    /\ \A m \in Machines : DOMAIN m = {"adapters", "disk"}

VARIABLES
    users,      \* table users: the id is the index
    stats,      \* table stats: pairs of id and mode
    hardware,   \* table user_hardware: pairs of id and machine
    client,     \* client[c]: the request of c and where it is
    lenient     \* history: a check was waived or could not be made

vars == <<users, stats, hardware, client, lenient>>

-----------------------------------------------------------------------------
Idle == [step |-> "idle"]

At(c, step) == client[c].step = step

Goes(c, r) == client' = [client EXCEPT ![c] = r]

Moves(c, step) == Goes(c, [client[c] EXCEPT !.step = step])

Answers(c, a) ==
    Goes(c, [step |-> "answered", answer |-> a, form |-> client[c].form, name |-> client[c].name,
             password |-> client[c].password, uid |-> client[c].uid])

Called(n) == {u \in DOMAIN users : users[u].name = n}

(* exempt: the address is private or that of this host *)
AskLogin(c, n, p, m, exempt) ==
    /\ At(c, "idle")
    /\ Goes(c, [step |-> "look", form |-> FALSE, name |-> n, password |-> p, uid |-> 0,
                mode |-> 0, machine |-> m, exempt |-> exempt])
    /\ UNCHANGED <<users, stats, hardware, lenient>>

(* the registration form, which tells nothing of the machine *)
AskForm(c, n, p) ==
    /\ At(c, "idle")
    /\ Goes(c, [step |-> "look", form |-> TRUE, name |-> n, password |-> p, uid |-> 0, mode |-> 0])
    /\ UNCHANGED <<users, stats, hardware, lenient>>

-----------------------------------------------------------------------------
(* A login asks for the name without its tag, the form for the whole name. *)

LookUpForm(c) ==
    /\ At(c, "look") /\ client[c].form
    /\ IF Called(client[c].name) # {} THEN Answers(c, "taken") ELSE Moves(c, "create")
    /\ UNCHANGED <<users, stats, hardware, lenient>>

(* Mutant: the password of a known name is not looked at. *)
LookUpLoginUnverified(c) ==
    /\ At(c, "look") /\ ~client[c].form
    /\ \/ \E u \in Called(Clean[client[c].name]) :
            Goes(c, [client[c] EXCEPT !.step = "check", !.uid = u])
       \/ /\ Called(Clean[client[c].name]) = {}
          /\ IF AutoRegister THEN Moves(c, "check") ELSE Answers(c, "wrong")
    /\ UNCHANGED <<users, stats, hardware, lenient>>

LookUpLogin(c) ==
    /\ At(c, "look") /\ ~client[c].form
    /\ \/ \E u \in Called(Clean[client[c].name]) :
            IF users[u].password = client[c].password
            THEN Goes(c, [client[c] EXCEPT !.step = "check", !.uid = u])
            ELSE Answers(c, "wrong")
       \/ /\ Called(Clean[client[c].name]) = {}
          /\ IF AutoRegister THEN Moves(c, "check") ELSE Answers(c, "wrong")
    /\ UNCHANGED <<users, stats, hardware, lenient>>

(* the form only warns of an error and goes on *)
LookUpFails(c) ==
    /\ At(c, "look")
    /\ IF client[c].form THEN Moves(c, "create") ELSE Answers(c, "error")
    /\ UNCHANGED <<users, stats, hardware, lenient>>

(* check_multiaccount *)
Alike(m, n) == \/ m.adapters = n.adapters /\ n.adapters # Blank
               \/ m.disk = n.disk /\ n.disk # Blank

(* Mutant: only machines alike in both parts count. *)
OthersOnTwin(c) ==
    {u \in DOMAIN users : \E m \in Machines :
        <<u, m>> \in hardware /\ m = client[c].machine} \ {client[c].uid}

(* the accounts seen on this machine, without the one that logs in *)
OthersOn(c) ==
    {u \in DOMAIN users : \E m \in Machines :
        <<u, m>> \in hardware /\ Alike(m, client[c].machine)} \ {client[c].uid}

Identified(m) == m.adapters # Blank \/ m.disk # Blank

Admitted(c) == IF client[c].uid = 0 THEN Moves(c, "create") ELSE Moves(c, "record")

Check(c) ==
    /\ At(c, "check") /\ AntiMulti /\ ~client[c].exempt
    /\ IF Identified(client[c].machine) /\ Cardinality(OthersOn(c)) >= MaxPerMachine
       THEN Answers(c, "limit")
       ELSE Admitted(c)
    /\ UNCHANGED <<users, stats, hardware, lenient>>

Waive(c) ==
    /\ At(c, "check") /\ (~AntiMulti \/ client[c].exempt)
    /\ Admitted(c)
    /\ lenient' = TRUE
    /\ UNCHANGED <<users, stats, hardware>>

(* an error of the check is no reason to refuse *)
CheckFails(c) ==
    /\ At(c, "check") /\ AntiMulti /\ ~client[c].exempt
    /\ Admitted(c)
    /\ lenient' = TRUE
    /\ UNCHANGED <<users, stats, hardware>>

(* create_user: names are unique, whatever was looked up before *)
CreateUser(c) ==
    /\ At(c, "create")
    /\ IF Called(client[c].name) # {}
       THEN /\ Answers(c, "error")
            /\ UNCHANGED users
       ELSE /\ Len(users) < MaxUsers
            /\ users' = Append(users, [name |-> client[c].name, password |-> client[c].password])
            /\ Goes(c, [client[c] EXCEPT !.step = "seed", !.uid = Len(users) + 1])
    /\ UNCHANGED <<stats, hardware, lenient>>

(* one row of stats after the other *)
Seed(c) ==
    /\ At(c, "seed")
    /\ stats' = stats \cup {<<client[c].uid, client[c].mode>>}
    /\ IF client[c].mode < 3
       THEN Goes(c, [client[c] EXCEPT !.mode = @ + 1])
       ELSE IF client[c].form THEN Answers(c, "ok") ELSE Moves(c, "record")
    /\ UNCHANGED <<users, hardware, lenient>>

CreateFails(c) ==
    /\ client[c].step \in {"create", "seed"}
    /\ Answers(c, "error")
    /\ UNCHANGED <<users, stats, hardware, lenient>>

(* record_user_hardware, whose failure is ignored *)
Record(c) ==
    /\ At(c, "record")
    /\ \/ hardware' = hardware \cup {<<client[c].uid, client[c].machine>>}
       \/ UNCHANGED hardware
    /\ Moves(c, "greet")
    /\ UNCHANGED <<users, stats, lenient>>

(* get_or_create_stats for the welcome; its failure shows zeros *)
Greet(c) ==
    /\ At(c, "greet")
    /\ \/ stats' = stats \cup {<<client[c].uid, 0>>}
       \/ UNCHANGED stats
    /\ Answers(c, "ok")
    /\ UNCHANGED <<users, hardware, lenient>>

(* the answer has arrived, or the client has hung up and the handler with it *)
Leave(c) ==
    /\ ~At(c, "idle")
    /\ Goes(c, Idle)
    /\ UNCHANGED <<users, stats, hardware, lenient>>

Init ==
    /\ users = << >>
    /\ stats = {}
    /\ hardware = {}
    /\ client = [c \in Clients |-> Idle]
    /\ lenient = FALSE

Ask(c) ==
    \E n \in Names, p \in Passwords :
        \/ AskForm(c, n, p)
        \/ \E m \in Machines, exempt \in BOOLEAN : AskLogin(c, n, p, m, exempt)

Proceed(c) ==
    \/ LookUpForm(c) \/ LookUpLogin(c) \/ LookUpFails(c)
    \/ Check(c) \/ Waive(c) \/ CheckFails(c)
    \/ CreateUser(c) \/ Seed(c) \/ CreateFails(c)
    \/ Record(c) \/ Greet(c) \/ Leave(c)

Next == \E c \in Clients : Ask(c) \/ Proceed(c)

Spec == Init /\ [][Next]_vars

-----------------------------------------------------------------------------
(* Properties *)

FormType ==
    [step : {"look", "create", "seed"}, form : {TRUE},
     name : Names, password : Passwords, uid : 0 .. Len(users), mode : 0 .. 3]

LoginType ==
    [step : {"look", "check", "create", "seed", "record", "greet"}, form : {FALSE},
     name : Names, password : Passwords, uid : 0 .. Len(users), mode : 0 .. 3,
     machine : Machines, exempt : BOOLEAN]

AnswerType ==
    [step : {"answered"}, answer : {"ok", "wrong", "limit", "error", "taken"},
     form : BOOLEAN, name : Names, password : Passwords, uid : 0 .. Len(users)]

(* Two requests for one name make one account, however they interleave. *)
AccountsTypeOK ==
    /\ users \in Seq([name : Names, password : Passwords])
    /\ \A u, v \in DOMAIN users : users[u].name = users[v].name => u = v
    /\ stats \subseteq (DOMAIN users) \X (0 .. 3)
    /\ hardware \subseteq (DOMAIN users) \X Machines
    /\ client \in [Clients -> {Idle} \cup FormType \cup LoginType \cup AnswerType]
    /\ lenient \in BOOLEAN

(* A login that succeeds is one to the account that was named, with or     *)
(* without the tag, and whose password was given.                          *)
EntersOwn ==
    \A c \in Clients : ~At(c, "idle") /\ ~client[c].form /\ client[c].uid # 0 =>
        /\ users[client[c].uid].name \in {client[c].name, Clean[client[c].name]}
        /\ users[client[c].uid].password = client[c].password

Accounts(part, id) ==
    {u \in DOMAIN users : \E m \in Machines : <<u, m>> \in hardware /\ m[part] = id}

(* The limit of accounts on a machine is overrun by no more than the other *)
(* requests that were under way: each of them may have passed the check    *)
(* that the records of the rest would have failed.                         *)
LimitNearlyKept ==
    ~lenient => \A part \in {"adapters", "disk"} :
        \A m \in Machines : m[part] # Blank =>
            Cardinality(Accounts(part, m[part])) <= MaxPerMachine + Cardinality(Clients) - 1

(* Whoever is told that a new account is ready has all its rows. *)
OkMeansComplete ==
    \A c \in Clients : At(c, "answered") /\ client[c].answer = "ok" /\ client[c].form =>
        \A mode \in 0 .. 3 : <<client[c].uid, mode>> \in stats
=============================================================================
