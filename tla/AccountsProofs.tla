--------------------------- MODULE AccountsProofs ---------------------------
(***************************************************************************)
(* Proofs about Accounts for any names, machines and number of requests.   *)
(*                                                                         *)
(* Types and EntersOwn are inductive together.  LimitNearlyKept is not: it *)
(* has to count the requests that have passed the check of their machine   *)
(* and will put an account on it (Due).  A request that passes found fewer *)
(* accounts than the limit; the others under way are all that can be Due   *)
(* beside it, and whoever records moves from Due to the accounts.          *)
(***************************************************************************)
EXTENDS Accounts, FiniteSetTheorems, TLAPS

Request == {Idle} \cup FormType \cup LoginType \cup AnswerType

Parts == {"adapters", "disk"}

(* Requests that may still put a further account on a machine. *)
Due(part, id) ==
    {c \in Clients :
        /\ client[c].step \in {"create", "seed", "record"}
        /\ ~client[c].form
        /\ client[c].machine[part] = id
        /\ client[c].uid \notin Accounts(part, id)}

LimitInv ==
    ~lenient => \A part \in Parts, m \in Machines : m[part] # Blank =>
        Cardinality(Accounts(part, m[part])) + Cardinality(Due(part, m[part]))
            <= MaxPerMachine + Cardinality(Clients) - 1

-----------------------------------------------------------------------------
(* What the steps of a request make of its record. *)

LEMMA FormMoves ==
    ASSUME NEW r \in FormType, NEW s \in {"look", "create", "seed"}
    PROVE  [r EXCEPT !.step = s] \in FormType
BY DEF FormType

LEMMA LoginMoves ==
    ASSUME NEW r \in LoginType, NEW s \in {"look", "check", "create", "seed", "record", "greet"}
    PROVE  [r EXCEPT !.step = s] \in LoginType
BY DEF LoginType

(* As the accounts grow, requests keep their types. *)
LEMMA RequestsStay ==
    ASSUME AccountsTypeOK, users' \in Seq([name : Names, password : Passwords]),
           Len(users) <= Len(users')
    PROVE  FormType \subseteq FormType' /\ LoginType \subseteq LoginType' /\ AnswerType \subseteq AnswerType'
<1>1. Len(users) \in Nat /\ Len(users') \in Nat
  BY DEF AccountsTypeOK
<1>2. 0 .. Len(users) \subseteq 0 .. Len(users')
  BY <1>1
<1>3. FormType \subseteq FormType'
  BY <1>2 DEF FormType
<1>4. LoginType \subseteq LoginType'
  BY <1>2 DEF LoginType
<1>5. AnswerType \subseteq AnswerType'
  BY <1>2 DEF AnswerType
<1> QED
  BY <1>3, <1>4, <1>5

LEMMA AnswersStep ==
    ASSUME AccountsTypeOK, NEW c \in Clients, NEW a \in {"ok", "wrong", "limit", "error", "taken"},
           client[c] \in FormType \cup LoginType, Answers(c, a)
    PROVE  /\ client' = [client EXCEPT ![c] = client'[c]]
           /\ client'[c] \in AnswerType
           /\ client'[c].form = client[c].form
           /\ client'[c].name = client[c].name
           /\ client'[c].password = client[c].password
           /\ client'[c].uid = client[c].uid
           /\ client'[c].step = "answered"
<1> DEFINE r == [step |-> "answered", answer |-> a, form |-> client[c].form, name |-> client[c].name,
                 password |-> client[c].password, uid |-> client[c].uid]
<1>1. client' = [client EXCEPT ![c] = r] /\ client \in [Clients -> Request]
  BY DEF AccountsTypeOK, Answers, Goes, Request
<1>2. client'[c] = r
  BY <1>1
<1>3. /\ client[c].form \in BOOLEAN /\ client[c].name \in Names
      /\ client[c].password \in Passwords /\ client[c].uid \in 0 .. Len(users)
  BY DEF FormType, LoginType
<1>4. r \in AnswerType
  BY <1>3 DEF AnswerType
<1> QED
  BY <1>1, <1>2, <1>4

-----------------------------------------------------------------------------
(* Types and EntersOwn *)

AccountsInv == AccountsTypeOK /\ EntersOwn

(* What is asked of the request that takes a step. *)
Own(c) ==
    ~At(c, "idle") /\ ~client[c].form /\ client[c].uid # 0 =>
        /\ users[client[c].uid].name \in {client[c].name, Clean[client[c].name]}
        /\ users[client[c].uid].password = client[c].password

(* A step of one request that leaves the other requests, and the accounts  *)
(* there are, alone.                                                       *)
LEMMA OneMoves ==
    ASSUME AccountsInv, NEW c \in Clients,
           client' = [client EXCEPT ![c] = client'[c]], client'[c] \in Request',
           users' \in Seq([name : Names, password : Passwords]), Len(users) <= Len(users'),
           \A u \in DOMAIN users : users'[u] = users[u],
           \A u, v \in DOMAIN users' : users'[u].name = users'[v].name => u = v,
           stats' \subseteq (DOMAIN users') \X (0 .. 3),
           hardware' \subseteq (DOMAIN users') \X Machines,
           lenient' \in BOOLEAN,
           Own(c)'
    PROVE  AccountsInv'
<1>1. client' \in [Clients -> Request']
  <2>1. Request \subseteq Request'
    BY RequestsStay DEF AccountsInv, Request, Idle
  <2>2. client \in [Clients -> Request]
    BY DEF AccountsInv, AccountsTypeOK, Request
  <2> QED
    BY <2>1, <2>2
<1>2. AccountsTypeOK'
  BY <1>1 DEF AccountsTypeOK, Request
<1>3. EntersOwn'
  <2> SUFFICES ASSUME NEW d \in Clients PROVE Own(d)'
    BY DEF EntersOwn, Own
  <2>1. ASSUME d # c PROVE Own(d)'
    <3>1. client'[d] = client[d] /\ client[d] \in Request
      BY <2>1 DEF AccountsInv, AccountsTypeOK, Request
    <3>2. Own(d)
      BY DEF AccountsInv, EntersOwn, Own
    <3>3. ASSUME client[d] \in FormType \cup LoginType \cup AnswerType, client[d].uid # 0
          PROVE  client[d].uid \in DOMAIN users
      <4>1. client[d].uid \in 0 .. Len(users)
        BY <3>3 DEF FormType, LoginType, AnswerType
      <4>2. users \in Seq([name : Names, password : Passwords])
        BY DEF AccountsInv, AccountsTypeOK
      <4> QED
        BY <3>3, <4>1, <4>2
    <3>4. ~At(d, "idle") => client[d] \in FormType \cup LoginType \cup AnswerType
      BY <3>1 DEF At, Request, Idle
    <3> QED
      BY <3>1, <3>2, <3>3, <3>4 DEF Own, At
  <2> QED
    BY <2>1
<1> QED
  BY <1>2, <1>3 DEF AccountsInv

(* Mostly the accounts do not change. *)
LEMMA OneMovesOnly ==
    ASSUME AccountsInv, NEW c \in Clients, UNCHANGED users,
           client' = [client EXCEPT ![c] = client'[c]], client'[c] \in Request',
           stats' \subseteq (DOMAIN users) \X (0 .. 3),
           hardware' \subseteq (DOMAIN users) \X Machines,
           lenient' \in BOOLEAN,
           Own(c)'
    PROVE  AccountsInv'
<1>1. /\ users \in Seq([name : Names, password : Passwords])
      /\ \A u, v \in DOMAIN users : users[u].name = users[v].name => u = v
  BY DEF AccountsInv, AccountsTypeOK
<1>2. Len(users) <= Len(users')
  BY <1>1
<1> QED
  BY <1>1, <1>2, OneMoves

(* An answer keeps whose account the request is in. *)
LEMMA AnswerKeeps ==
    ASSUME AccountsInv, NEW c \in Clients, NEW a \in {"ok", "wrong", "limit", "error", "taken"},
           client[c] \in FormType \cup LoginType, Answers(c, a), UNCHANGED users,
           stats' \subseteq (DOMAIN users) \X (0 .. 3),
           hardware' \subseteq (DOMAIN users) \X Machines,
           lenient' \in BOOLEAN
    PROVE  AccountsInv'
<1>1. /\ client' = [client EXCEPT ![c] = client'[c]]
      /\ client'[c] \in AnswerType
      /\ client'[c].form = client[c].form
      /\ client'[c].name = client[c].name
      /\ client'[c].password = client[c].password
      /\ client'[c].uid = client[c].uid
  BY AnswersStep DEF AccountsInv
<1>2. client'[c] \in Request'
  <2>1. AnswerType' = AnswerType
    BY DEF AnswerType
  <2> QED
    BY <1>1, <2>1 DEF Request
<1>3. Own(c)'
  <2>1. ~At(c, "idle")
    BY DEF At, FormType, LoginType
  <2> QED
    BY <1>1, <2>1 DEF Own, AccountsInv, EntersOwn
<1> QED
  BY <1>1, <1>2, <1>3, OneMovesOnly

(* So does a move to another step. *)
LEMMA MoveKeeps ==
    ASSUME AccountsInv, NEW c \in Clients, NEW s, Moves(c, s), UNCHANGED users,
           \/ client[c] \in FormType /\ s \in {"look", "create", "seed"}
           \/ /\ client[c] \in LoginType
              /\ s \in {"look", "check", "create", "seed", "record", "greet"},
           stats' \subseteq (DOMAIN users) \X (0 .. 3),
           hardware' \subseteq (DOMAIN users) \X Machines,
           lenient' \in BOOLEAN
    PROVE  AccountsInv'
<1>1. client' = [client EXCEPT ![c] = client'[c]] /\ client'[c] = [client[c] EXCEPT !.step = s]
  BY DEF Moves, Goes, AccountsInv, AccountsTypeOK
<1>2. client'[c] \in Request'
  <2>1. client'[c] \in FormType \cup LoginType
    <3> DEFINE r == client[c]
    <3>1. ASSUME r \in FormType, s \in {"look", "create", "seed"}
          PROVE  [r EXCEPT !.step = s] \in FormType
      BY <3>1, FormMoves
    <3>2. ASSUME r \in LoginType, s \in {"look", "check", "create", "seed", "record", "greet"}
          PROVE  [r EXCEPT !.step = s] \in LoginType
      BY <3>2, LoginMoves
    <3> QED
      BY <1>1, <3>1, <3>2, Zenon
  <2>2. FormType' = FormType /\ LoginType' = LoginType
    BY DEF FormType, LoginType
  <2> QED
    BY <2>1, <2>2 DEF Request
<1>3. Own(c)'
  <2>1. ~At(c, "idle")
    BY DEF At, FormType, LoginType
  <2>2. /\ client'[c].form = client[c].form /\ client'[c].name = client[c].name
        /\ client'[c].password = client[c].password /\ client'[c].uid = client[c].uid
    BY <1>1 DEF FormType, LoginType
  <2> QED
    BY <2>1, <2>2 DEF Own, AccountsInv, EntersOwn
<1> QED
  BY <1>1, <1>2, <1>3, OneMovesOnly

(* Where a request stands says what it is. *)
LEMMA Standing ==
    ASSUME AccountsInv, NEW c \in Clients
    PROVE  /\ client[c] \in Request
           /\ At(c, "look") => client[c] \in FormType \cup LoginType
           /\ client[c].step \in {"create", "seed"} => client[c] \in FormType \cup LoginType
           /\ client[c].step \in {"check", "record", "greet"} => client[c] \in LoginType
           /\ client[c] \in FormType => client[c].form
           /\ client[c] \in LoginType => ~client[c].form
<1>1. client[c] \in Request
  BY DEF AccountsInv, AccountsTypeOK, Request
<1>2. client[c] \in FormType => client[c].form /\ client[c].step \in {"look", "create", "seed"}
  BY DEF FormType
<1>3. client[c] \in LoginType => ~client[c].form
  BY DEF LoginType
<1>4. client[c] \in AnswerType => client[c].step = "answered"
  BY DEF AnswerType
<1>5. client[c] = Idle => client[c].step = "idle"
  BY DEF Idle
<1> QED
  BY <1>1, <1>2, <1>3, <1>4, <1>5 DEF Request, At

(* A new request is in no account yet. *)
LEMMA AsksStep ==
    ASSUME AccountsInv, NEW c \in Clients, Ask(c)
    PROVE  AccountsInv'
<1>1. AccountsTypeOK
  BY DEF AccountsInv
<1>2. PICK n \in Names, p \in Passwords :
        \/ AskForm(c, n, p)
        \/ \E m \in Machines, exempt \in BOOLEAN : AskLogin(c, n, p, m, exempt)
  BY DEF Ask
<1>3. Len(users) \in Nat /\ 0 \in 0 .. Len(users)
  BY <1>1 DEF AccountsTypeOK
<1>4. ASSUME AskForm(c, n, p)
      PROVE  AccountsInv'
  <2> DEFINE r == [step |-> "look", form |-> TRUE, name |-> n, password |-> p, uid |-> 0, mode |-> 0]
  <2>1. client' = [client EXCEPT ![c] = r] /\ UNCHANGED <<users, stats, hardware, lenient>>
    BY <1>4 DEF AskForm, Goes
  <2>2. client'[c] = r
    BY <1>1, <2>1 DEF AccountsTypeOK
  <2>3. r \in FormType
    BY <1>3 DEF FormType
  <2>4. r \in Request'
    BY <2>1, <2>3 DEF Request, FormType
  <2>5. Own(c)'
    BY <2>2 DEF Own
  <2> QED
    BY <1>1, <2>1, <2>2, <2>4, <2>5, OneMovesOnly DEF AccountsTypeOK
<1>5. ASSUME NEW m \in Machines, NEW exempt \in BOOLEAN, AskLogin(c, n, p, m, exempt)
      PROVE  AccountsInv'
  <2> DEFINE r == [step |-> "look", form |-> FALSE, name |-> n, password |-> p, uid |-> 0,
                   mode |-> 0, machine |-> m, exempt |-> exempt]
  <2>1. client' = [client EXCEPT ![c] = r] /\ UNCHANGED <<users, stats, hardware, lenient>>
    BY <1>5 DEF AskLogin, Goes
  <2>2. client'[c] = r
    BY <1>1, <2>1 DEF AccountsTypeOK
  <2>3. r \in LoginType
    BY <1>3 DEF LoginType
  <2>4. r \in Request'
    BY <2>1, <2>3 DEF Request, LoginType
  <2>5. Own(c)'
    BY <2>2 DEF Own
  <2> QED
    BY <1>1, <2>1, <2>2, <2>4, <2>5, OneMovesOnly DEF AccountsTypeOK
<1> QED
  BY <1>2, <1>4, <1>5

(* Whoever is let in after the look-up gave the password of the account. *)
LEMMA LookUpStep ==
    ASSUME AccountsInv, NEW c \in Clients, LookUpForm(c) \/ LookUpLogin(c) \/ LookUpFails(c)
    PROVE  AccountsInv'
<1>1. AccountsTypeOK
  BY DEF AccountsInv
<1>2. At(c, "look") /\ UNCHANGED <<users, stats, hardware, lenient>>
  BY DEF LookUpForm, LookUpLogin, LookUpFails
<1>3. /\ client[c] \in FormType \cup LoginType
      /\ client[c] \in FormType => client[c].form
      /\ client[c] \in LoginType => ~client[c].form
  BY <1>2, Standing
<1>4. /\ stats' \subseteq (DOMAIN users) \X (0 .. 3)
      /\ hardware' \subseteq (DOMAIN users) \X Machines
      /\ lenient' \in BOOLEAN
  BY <1>1, <1>2 DEF AccountsTypeOK
<1>5. ASSUME NEW a \in {"taken", "wrong", "error"}, Answers(c, a)
      PROVE  AccountsInv'
  BY <1>2, <1>3, <1>4, <1>5, AnswerKeeps
<1>6. ASSUME client[c].form, Moves(c, "create")
      PROVE  AccountsInv'
  BY <1>2, <1>3, <1>4, <1>6, MoveKeeps
<1>7. ASSUME ~client[c].form, Moves(c, "check")
      PROVE  AccountsInv'
  BY <1>2, <1>3, <1>4, <1>7, MoveKeeps
<1>8. ASSUME ~client[c].form, NEW u \in Called(Clean[client[c].name]),
             users[u].password = client[c].password,
             Goes(c, [client[c] EXCEPT !.step = "check", !.uid = u])
      PROVE  AccountsInv'
  <2>1. /\ client' = [client EXCEPT ![c] = client'[c]]
        /\ client'[c] = [client[c] EXCEPT !.step = "check", !.uid = u]
    BY <1>1, <1>8 DEF Goes, AccountsTypeOK
  <2>2. u \in DOMAIN users /\ users[u].name = Clean[client[c].name] /\ u \in 0 .. Len(users)
    BY <1>1 DEF Called, AccountsTypeOK
  <2>3. client[c] \in LoginType
    BY <1>3, <1>8
  <2>4. client'[c] \in LoginType
    BY <2>1, <2>2, <2>3 DEF LoginType
  <2>5. client'[c] \in Request'
    BY <1>2, <2>4 DEF Request, LoginType
  <2>6. /\ client'[c].name = client[c].name /\ client'[c].password = client[c].password
        /\ client'[c].uid = u
    BY <2>1, <2>3 DEF LoginType
  <2>7. Own(c)'
    BY <1>2, <1>8, <2>2, <2>6 DEF Own
  <2> QED
    BY <1>2, <1>4, <2>1, <2>5, <2>7, OneMovesOnly
<1>9. ASSUME LookUpForm(c)
      PROVE  AccountsInv'
  BY <1>5, <1>6, <1>9 DEF LookUpForm
<1>10. ASSUME LookUpLogin(c)
       PROVE  AccountsInv'
  BY <1>5, <1>7, <1>8, <1>10 DEF LookUpLogin
<1>11. ASSUME LookUpFails(c)
       PROVE  AccountsInv'
  BY <1>5, <1>6, <1>11 DEF LookUpFails
<1> QED
  BY <1>9, <1>10, <1>11

LEMMA CheckStep ==
    ASSUME AccountsInv, NEW c \in Clients, Check(c) \/ Waive(c) \/ CheckFails(c)
    PROVE  AccountsInv'
<1>1. AccountsTypeOK
  BY DEF AccountsInv
<1>2. At(c, "check") /\ UNCHANGED <<users, stats, hardware>> /\ lenient' \in BOOLEAN
  BY <1>1 DEF Check, Waive, CheckFails, AccountsTypeOK
<1>3. client[c] \in LoginType
  BY <1>2, Standing DEF At
<1>4. /\ stats' \subseteq (DOMAIN users) \X (0 .. 3)
      /\ hardware' \subseteq (DOMAIN users) \X Machines
  BY <1>1, <1>2 DEF AccountsTypeOK
<1>5. ASSUME Answers(c, "limit")
      PROVE  AccountsInv'
  BY <1>2, <1>3, <1>4, <1>5, AnswerKeeps
<1>6. ASSUME Admitted(c)
      PROVE  AccountsInv'
  <2>1. Moves(c, "create") \/ Moves(c, "record")
    BY <1>6 DEF Admitted
  <2> QED
    BY <1>2, <1>3, <1>4, <2>1, MoveKeeps
<1> QED
  BY <1>5, <1>6 DEF Check, Waive, CheckFails

(* The new account is the request's own, and its name was free. *)
LEMMA CreateStep ==
    ASSUME AccountsInv, NEW c \in Clients, CreateUser(c)
    PROVE  AccountsInv'
<1>1. AccountsTypeOK
  BY DEF AccountsInv
<1>2. At(c, "create") /\ UNCHANGED <<stats, hardware, lenient>>
  BY DEF CreateUser
<1>3. client[c] \in FormType \cup LoginType
  BY <1>2, Standing DEF At
<1>4. /\ stats \subseteq (DOMAIN users) \X (0 .. 3)
      /\ hardware \subseteq (DOMAIN users) \X Machines
      /\ lenient \in BOOLEAN
  BY <1>1 DEF AccountsTypeOK
<1>5. ASSUME Answers(c, "error"), UNCHANGED users
      PROVE  AccountsInv'
  BY <1>2, <1>3, <1>4, <1>5, AnswerKeeps
<1>6. ASSUME Called(client[c].name) = {},
             users' = Append(users, [name |-> client[c].name, password |-> client[c].password]),
             Goes(c, [client[c] EXCEPT !.step = "seed", !.uid = Len(users) + 1])
      PROVE  AccountsInv'
  <2> DEFINE id == Len(users) + 1
             account == [name |-> client[c].name, password |-> client[c].password]
  <2>1. /\ client' = [client EXCEPT ![c] = client'[c]]
        /\ client'[c] = [client[c] EXCEPT !.step = "seed", !.uid = id]
    BY <1>1, <1>6 DEF Goes, AccountsTypeOK
  <2>2. account \in [name : Names, password : Passwords]
    BY <1>3 DEF FormType, LoginType
  <2>3. users \in Seq([name : Names, password : Passwords])
    BY <1>1 DEF AccountsTypeOK
  <2> HIDE DEF account
  <2>4. /\ users' \in Seq([name : Names, password : Passwords])
        /\ Len(users') = id /\ Len(users) <= id /\ id \in Nat \ {0}
        /\ DOMAIN users' = DOMAIN users \cup {id}
        /\ \A u \in DOMAIN users : users'[u] = users[u]
        /\ users'[id] = account
    BY <1>6, <2>2, <2>3 DEF account
  <2>5. \A u, v \in DOMAIN users' : users'[u].name = users'[v].name => u = v
    <3>1. \A u \in DOMAIN users : users[u].name # account.name
      BY <1>6 DEF Called, account
    <3>2. \A u, v \in DOMAIN users : users[u].name = users[v].name => u = v
      BY <1>1 DEF AccountsTypeOK
    <3> QED
      BY <2>4, <3>1, <3>2
  <2>6. client'[c] \in Request'
    <3>1. id \in 0 .. Len(users')
      BY <2>4
    <3>2. ASSUME NEW r, r = [client[c] EXCEPT !.step = "seed", !.uid = id], client[c] \in FormType
          PROVE  r \in FormType'
      BY <3>1, <3>2 DEF FormType
    <3>3. ASSUME NEW r, r = [client[c] EXCEPT !.step = "seed", !.uid = id], client[c] \in LoginType
          PROVE  r \in LoginType'
      BY <3>1, <3>3 DEF LoginType
    <3> QED
      BY <1>3, <2>1, <3>2, <3>3 DEF Request
  <2>7. /\ client'[c].name = client[c].name /\ client'[c].password = client[c].password
        /\ client'[c].uid = id
    BY <1>3, <2>1 DEF FormType, LoginType
  <2>8. Own(c)'
    BY <2>4, <2>7 DEF Own, account
  <2>9. /\ stats' \subseteq (DOMAIN users') \X (0 .. 3)
        /\ hardware' \subseteq (DOMAIN users') \X Machines
        /\ lenient' \in BOOLEAN
    BY <1>2, <1>4, <2>4
  <2> QED
    BY <2>1, <2>4, <2>5, <2>6, <2>8, <2>9, OneMoves
<1> QED
  BY <1>5, <1>6 DEF CreateUser

(* Rows are made for an account that is there. *)
LEMMA SeedStep ==
    ASSUME AccountsInv, NEW c \in Clients, Seed(c), client[c].uid # 0
    PROVE  AccountsInv'
<1>1. AccountsTypeOK
  BY DEF AccountsInv
<1>2. /\ At(c, "seed") /\ UNCHANGED <<users, hardware, lenient>>
      /\ stats' = stats \cup {<<client[c].uid, client[c].mode>>}
  BY DEF Seed
<1>3. /\ client[c] \in FormType \cup LoginType
      /\ client[c] \in LoginType <=> ~client[c].form
  BY <1>2, Standing DEF At
<1>4. client[c].uid \in 0 .. Len(users) /\ client[c].mode \in 0 .. 3
  BY <1>3 DEF FormType, LoginType
<1>5. /\ stats' \subseteq (DOMAIN users) \X (0 .. 3)
      /\ hardware' \subseteq (DOMAIN users) \X Machines
      /\ lenient' \in BOOLEAN
  BY <1>1, <1>2, <1>4 DEF AccountsTypeOK
<1>6. ASSUME client[c].mode < 3, Goes(c, [client[c] EXCEPT !.mode = @ + 1])
      PROVE  AccountsInv'
  <2>1. /\ client' = [client EXCEPT ![c] = client'[c]]
        /\ client'[c] = [client[c] EXCEPT !.mode = @ + 1]
    BY <1>1, <1>6 DEF Goes, AccountsTypeOK
  <2>2. client[c].mode + 1 \in 0 .. 3
    BY <1>4, <1>6
  <2>3. client'[c] \in Request'
    <3>1. client[c] \in FormType => client'[c] \in FormType
      BY <2>1, <2>2 DEF FormType
    <3>2. client[c] \in LoginType => client'[c] \in LoginType
      BY <2>1, <2>2 DEF LoginType
    <3>3. FormType' = FormType /\ LoginType' = LoginType
      BY <1>2 DEF FormType, LoginType
    <3> QED
      BY <1>3, <3>1, <3>2, <3>3 DEF Request
  <2>4. /\ client'[c].name = client[c].name /\ client'[c].password = client[c].password
        /\ client'[c].uid = client[c].uid /\ client'[c].form = client[c].form
    BY <1>3, <2>1 DEF FormType, LoginType
  <2>5. Own(c)'
    BY <1>2, <2>4 DEF Own, At, AccountsInv, EntersOwn
  <2> QED
    BY <1>2, <1>5, <2>1, <2>3, <2>5, OneMovesOnly
<1>7. ASSUME Answers(c, "ok")
      PROVE  AccountsInv'
  BY <1>2, <1>3, <1>5, <1>7, AnswerKeeps
<1>8. ASSUME ~client[c].form, Moves(c, "record")
      PROVE  AccountsInv'
  BY <1>2, <1>3, <1>5, <1>8, MoveKeeps
<1> QED
  BY <1>6, <1>7, <1>8 DEF Seed

LEMMA RecordStep ==
    ASSUME AccountsInv, NEW c \in Clients, Record(c) \/ Greet(c), client[c].uid # 0
    PROVE  AccountsInv'
<1>1. AccountsTypeOK
  BY DEF AccountsInv
<1>2. UNCHANGED <<users, lenient>> /\ client[c].step \in {"record", "greet"}
  BY DEF Record, Greet, At
<1>3. client[c] \in LoginType
  BY <1>2, Standing
<1>4. client[c].uid \in DOMAIN users /\ client[c].machine \in Machines
  BY <1>1, <1>3 DEF LoginType, AccountsTypeOK
<1>5. /\ stats' \subseteq (DOMAIN users) \X (0 .. 3)
      /\ hardware' \subseteq (DOMAIN users) \X Machines
      /\ lenient' \in BOOLEAN
  BY <1>1, <1>2, <1>4 DEF AccountsTypeOK, Record, Greet
<1>6. ASSUME Record(c)
      PROVE  AccountsInv'
  BY <1>2, <1>3, <1>5, <1>6, MoveKeeps DEF Record
<1>7. ASSUME Greet(c)
      PROVE  AccountsInv'
  BY <1>2, <1>3, <1>5, <1>7, AnswerKeeps DEF Greet
<1> QED
  BY <1>6, <1>7

LEMMA EndStep ==
    ASSUME AccountsInv, NEW c \in Clients, CreateFails(c) \/ Leave(c)
    PROVE  AccountsInv'
<1>1. AccountsTypeOK
  BY DEF AccountsInv
<1>2. UNCHANGED <<users, stats, hardware, lenient>>
  BY DEF CreateFails, Leave
<1>3. /\ stats' \subseteq (DOMAIN users) \X (0 .. 3)
      /\ hardware' \subseteq (DOMAIN users) \X Machines
      /\ lenient' \in BOOLEAN
  BY <1>1, <1>2 DEF AccountsTypeOK
<1>4. ASSUME CreateFails(c)
      PROVE  AccountsInv'
  <2>1. client[c] \in FormType \cup LoginType
    BY <1>4, Standing DEF CreateFails
  <2> QED
    BY <1>2, <1>3, <1>4, <2>1, AnswerKeeps DEF CreateFails
<1>5. ASSUME Leave(c)
      PROVE  AccountsInv'
  <2>1. client' = [client EXCEPT ![c] = client'[c]] /\ client'[c] = Idle
    BY <1>1, <1>5 DEF Leave, Goes, AccountsTypeOK
  <2>2. client'[c] \in Request' /\ Own(c)'
    BY <2>1 DEF Request, Own, At, Idle
  <2> QED
    BY <1>2, <1>3, <2>1, <2>2, OneMovesOnly
<1> QED
  BY <1>4, <1>5

-----------------------------------------------------------------------------
(* A request has an account from the moment it makes rows for it. *)

InAccount ==
    \A c \in Clients :
        /\ client[c].step \in {"look", "create"} => client[c].uid = 0
        /\ client[c].step \in {"seed", "record", "greet"} => client[c].uid # 0

LEMMA AccountsInit == Init => AccountsInv /\ InAccount
<1> SUFFICES ASSUME Init PROVE AccountsInv /\ InAccount
  OBVIOUS
<1>1. users \in Seq([name : Names, password : Passwords])
  BY DEF Init
<1>2. DOMAIN users = {} /\ \A c \in Clients : client[c] = Idle
  BY DEF Init
<1>3. AccountsTypeOK
  BY <1>1, <1>2 DEF Init, AccountsTypeOK
<1>4. EntersOwn /\ InAccount
  BY <1>2 DEF EntersOwn, InAccount, At, Idle
<1> QED
  BY <1>3, <1>4 DEF AccountsInv

(* InAccount for the request that takes a step is enough. *)
LEMMA InAccountStep ==
    ASSUME AccountsInv, InAccount, NEW c \in Clients, Ask(c) \/ Proceed(c)
    PROVE  InAccount'
<1> DEFINE Fine(r) == /\ r.step \in {"look", "create"} => r.uid = 0
                      /\ r.step \in {"seed", "record", "greet"} => r.uid # 0
<1>1. client \in [Clients -> Request]
  BY DEF AccountsInv, AccountsTypeOK, Request
<1>2. ASSUME NEW r, Goes(c, r), Fine(r)
      PROVE  InAccount'
  BY <1>1, <1>2 DEF Goes, InAccount
<1>3. ASSUME NEW a, Answers(c, a)
      PROVE  InAccount'
  <2> DEFINE r == [step |-> "answered", answer |-> a, form |-> client[c].form, name |-> client[c].name,
                   password |-> client[c].password, uid |-> client[c].uid]
  <2>1. Goes(c, r)
    BY <1>3 DEF Answers
  <2> QED
    BY <1>2, <2>1
<1>4. ASSUME NEW s, Moves(c, s), client[c] \in FormType \cup LoginType,
             s = "create" => client[c].uid = 0,
             s \in {"seed", "record", "greet"} => client[c].uid # 0, s # "look"
      PROVE  InAccount'
  <2>1. /\ [client[c] EXCEPT !.step = s].step = s
        /\ [client[c] EXCEPT !.step = s].uid = client[c].uid
    BY <1>4 DEF FormType, LoginType
  <2> QED
    BY <1>2, <1>4, <2>1 DEF Moves
<1>5. Fine(client[c])
  BY DEF InAccount
<1>6. /\ client[c].step \in {"look", "create", "seed"} => client[c] \in FormType \cup LoginType
      /\ client[c].step \in {"check", "record", "greet"} => client[c] \in LoginType
  BY Standing DEF At
<1>7. ASSUME Ask(c)
      PROVE  InAccount'
  <2>1. PICK n \in Names, p \in Passwords :
          \/ AskForm(c, n, p)
          \/ \E m \in Machines, exempt \in BOOLEAN : AskLogin(c, n, p, m, exempt)
    BY <1>7 DEF Ask
  <2>2. ASSUME AskForm(c, n, p) PROVE InAccount'
    BY <1>2, <2>2 DEF AskForm
  <2>3. ASSUME NEW m \in Machines, NEW exempt \in BOOLEAN, AskLogin(c, n, p, m, exempt)
        PROVE  InAccount'
    BY <1>2, <2>3 DEF AskLogin
  <2> QED
    BY <2>1, <2>2, <2>3
<1>8. ASSUME LookUpForm(c) \/ LookUpLogin(c) \/ LookUpFails(c)
      PROVE  InAccount'
  <2>1. client[c].step = "look" /\ client[c].uid = 0 /\ client[c] \in FormType \cup LoginType
    BY <1>5, <1>6, <1>8 DEF LookUpForm, LookUpLogin, LookUpFails, At
  <2>2. ASSUME NEW u, Goes(c, [client[c] EXCEPT !.step = "check", !.uid = u])
        PROVE  InAccount'
    <3>1. [client[c] EXCEPT !.step = "check", !.uid = u].step = "check"
      BY <2>1 DEF FormType, LoginType
    <3> QED
      BY <1>2, <2>2, <3>1
  <2>3. ASSUME Moves(c, "create") \/ Moves(c, "check")
        PROVE  InAccount'
    BY <1>4, <2>1, <2>3
  <2> QED
    BY <1>3, <1>8, <2>2, <2>3 DEF LookUpForm, LookUpLogin, LookUpFails
<1>9. ASSUME Check(c) \/ Waive(c) \/ CheckFails(c)
      PROVE  InAccount'
  <2>1. client[c] \in LoginType
    BY <1>6, <1>9 DEF Check, Waive, CheckFails, At
  <2>2. ASSUME Admitted(c) PROVE InAccount'
    BY <1>4, <2>1, <2>2 DEF Admitted
  <2> QED
    BY <1>3, <1>9, <2>2 DEF Check, Waive, CheckFails
<1>10. ASSUME CreateUser(c)
       PROVE  InAccount'
  <2>1. client[c] \in FormType \cup LoginType
    BY <1>6, <1>10 DEF CreateUser, At
  <2>2. Len(users) + 1 # 0
    BY DEF AccountsInv, AccountsTypeOK
  <2>3. ASSUME Goes(c, [client[c] EXCEPT !.step = "seed", !.uid = Len(users) + 1])
        PROVE  InAccount'
    <3>1. /\ [client[c] EXCEPT !.step = "seed", !.uid = Len(users) + 1].step = "seed"
          /\ [client[c] EXCEPT !.step = "seed", !.uid = Len(users) + 1].uid = Len(users) + 1
      BY <2>1 DEF FormType, LoginType
    <3> QED
      BY <1>2, <2>2, <2>3, <3>1
  <2> QED
    BY <1>3, <1>10, <2>3 DEF CreateUser
<1>11. ASSUME Seed(c)
       PROVE  InAccount'
  <2>1. client[c].step = "seed" /\ client[c].uid # 0 /\ client[c] \in FormType \cup LoginType
    BY <1>5, <1>6, <1>11 DEF Seed, At
  <2>2. ASSUME Goes(c, [client[c] EXCEPT !.mode = @ + 1])
        PROVE  InAccount'
    <3>1. /\ [client[c] EXCEPT !.mode = @ + 1].step = "seed"
          /\ [client[c] EXCEPT !.mode = @ + 1].uid = client[c].uid
      BY <2>1 DEF FormType, LoginType
    <3> QED
      BY <1>2, <2>1, <2>2, <3>1
  <2>3. ASSUME Moves(c, "record") PROVE InAccount'
    BY <1>4, <2>1, <2>3
  <2> QED
    BY <1>3, <1>11, <2>2, <2>3 DEF Seed
<1>12. ASSUME Record(c) \/ Greet(c)
       PROVE  InAccount'
  <2>1. client[c].uid # 0 /\ client[c] \in LoginType
    BY <1>5, <1>6, <1>12 DEF Record, Greet, At
  <2> QED
    BY <1>3, <1>4, <1>12, <2>1 DEF Record, Greet
<1>13. ASSUME CreateFails(c) \/ Leave(c)
       PROVE  InAccount'
  BY <1>2, <1>3, <1>13 DEF CreateFails, Leave, Idle
<1> QED
  BY <1>7, <1>8, <1>9, <1>10, <1>11, <1>12, <1>13 DEF Proceed

LEMMA AccountsStep == AccountsInv /\ InAccount /\ [Next]_vars => (AccountsInv /\ InAccount)'
<1> SUFFICES ASSUME AccountsInv, InAccount, [Next]_vars PROVE (AccountsInv /\ InAccount)'
  OBVIOUS
<1>1. ASSUME NEW c \in Clients, Ask(c) \/ Proceed(c)
      PROVE  (AccountsInv /\ InAccount)'
  <2>1. ASSUME Seed(c) PROVE AccountsInv'
    BY <2>1, SeedStep DEF InAccount, Seed, At
  <2>2. ASSUME Record(c) \/ Greet(c) PROVE AccountsInv'
    BY <2>2, RecordStep DEF InAccount, Record, Greet, At
  <2>3. AccountsInv'
    BY <1>1, <2>1, <2>2, AsksStep, LookUpStep, CheckStep, CreateStep, EndStep DEF Proceed
  <2> QED
    BY <1>1, <2>3, InAccountStep
<1>2. ASSUME UNCHANGED vars
      PROVE  (AccountsInv /\ InAccount)'
  <2>1. AccountsTypeOK'
    BY <1>2 DEF AccountsInv, AccountsTypeOK, FormType, LoginType, AnswerType, vars
  <2>2. EntersOwn' /\ InAccount'
    BY <1>2 DEF AccountsInv, EntersOwn, InAccount, At, vars
  <2> QED
    BY <2>1, <2>2 DEF AccountsInv
<1> QED
  BY <1>1, <1>2 DEF Next

(* The tables and the requests keep their shape: names stay unique however *)
(* registrations interleave, and every row belongs to an account.          *)
THEOREM AccountsTyped == Spec => []AccountsTypeOK
<1>1. AccountsInv => AccountsTypeOK
  BY DEF AccountsInv
<1> QED
  BY <1>1, AccountsInit, AccountsStep, PTL DEF Spec

(* Every login that gets as far as an account gave the name, with or       *)
(* without its tag, and the password of that account.                      *)
THEOREM EntersOwnAccount == Spec => []EntersOwn
<1>1. AccountsInv => EntersOwn
  BY DEF AccountsInv
<1> QED
  BY <1>1, AccountsInit, AccountsStep, PTL DEF Spec

-----------------------------------------------------------------------------
(* The limit of accounts on a machine *)

LEMMA CountsFinite ==
    ASSUME AccountsInv, NEW part, NEW id
    PROVE  /\ IsFiniteSet(Accounts(part, id)) /\ Cardinality(Accounts(part, id)) \in Nat
           /\ IsFiniteSet(Due(part, id)) /\ Cardinality(Due(part, id)) \in Nat
           /\ Cardinality(Due(part, id)) <= Cardinality(Clients)
           /\ IsFiniteSet(DOMAIN users)
           /\ IsFiniteSet(Clients) /\ Cardinality(Clients) \in Nat /\ MaxPerMachine \in Nat
<1>1. IsFiniteSet(Clients) /\ Cardinality(Clients) \in Nat /\ MaxPerMachine \in Nat
  BY AccountsAssumption, FS_CardinalityType
<1>2. IsFiniteSet(DOMAIN users)
  <2>1. DOMAIN users = 1 .. Len(users) /\ Len(users) \in Nat
    BY DEF AccountsInv, AccountsTypeOK
  <2> QED
    BY <2>1, FS_Interval
<1>3. Accounts(part, id) \in SUBSET DOMAIN users /\ Due(part, id) \in SUBSET Clients
  BY DEF Accounts, Due
<1> QED
  BY <1>1, <1>2, <1>3, FS_Subset, FS_CardinalityType

(* Fewer accounts and fewer requests that are due: the bound stays. *)
LEMMA FewerDue ==
    ASSUME AccountsInv, AccountsInv', LimitInv, lenient' = lenient,
           \A part \in Parts, m \in Machines : m[part] # Blank =>
               /\ Accounts(part, m[part])' = Accounts(part, m[part])
               /\ Due(part, m[part])' \subseteq Due(part, m[part])
    PROVE  LimitInv'
<1> SUFFICES ASSUME ~lenient, NEW part \in Parts, NEW m \in Machines, m[part] # Blank
             PROVE  Cardinality(Accounts(part, m[part])') + Cardinality(Due(part, m[part])')
                        <= MaxPerMachine + Cardinality(Clients) - 1
  BY DEF LimitInv
<1> DEFINE A == Accounts(part, m[part])
           D == Due(part, m[part])
<1>1. /\ Cardinality(A) \in Nat /\ IsFiniteSet(D) /\ Cardinality(D) \in Nat
      /\ Cardinality(Clients) \in Nat /\ MaxPerMachine \in Nat
  BY CountsFinite
<1>2. A' = A /\ D' \in SUBSET D
  OBVIOUS
<1>3. Cardinality(D') <= Cardinality(D) /\ Cardinality(D') \in Nat
  BY <1>1, <1>2, FS_Subset, FS_CardinalityType
<1>4. Cardinality(A) + Cardinality(D) <= MaxPerMachine + Cardinality(Clients) - 1
  BY DEF LimitInv
<1> QED
  BY <1>1, <1>2, <1>3, <1>4

(* Steps that leave the records of machines alone and bring no request     *)
(* past the check.                                                         *)
LEMMA NotPastCheck ==
    ASSUME AccountsInv, AccountsInv', LimitInv, NEW c \in Clients,
           lenient' = lenient, hardware' = hardware,
           client' = [client EXCEPT ![c] = client'[c]],
           \A part, id : c \in Due(part, id)' => c \in Due(part, id)
    PROVE  LimitInv'
<1> SUFFICES ASSUME NEW part \in Parts, NEW m \in Machines
             PROVE  /\ Accounts(part, m[part])' = Accounts(part, m[part])
                    /\ Due(part, m[part])' \subseteq Due(part, m[part])
  BY FewerDue
<1>1. /\ Accounts(part, m[part]) = {u \in DOMAIN users : \E n \in Machines :
                                       <<u, n>> \in hardware /\ n[part] = m[part]}
      /\ Accounts(part, m[part])' = {u \in DOMAIN users' : \E n \in Machines :
                                       <<u, n>> \in hardware /\ n[part] = m[part]}
  BY DEF Accounts
<1>2. hardware \subseteq (DOMAIN users) \X Machines /\ hardware \subseteq (DOMAIN users') \X Machines
  BY DEF AccountsInv, AccountsTypeOK
<1>3. Accounts(part, m[part])' = Accounts(part, m[part])
  BY <1>1, <1>2
<1>4. ASSUME NEW d \in Clients, d # c, d \in Due(part, m[part])'
      PROVE  d \in Due(part, m[part])
  <2>1. client'[d] = client[d]
    BY <1>4 DEF AccountsInv, AccountsTypeOK
  <2> QED
    BY <1>3, <1>4, <2>1 DEF Due
<1> QED
  BY <1>3, <1>4 DEF Due

LEMMA LimitInit == Init => LimitInv
<1> SUFFICES ASSUME Init, NEW part \in Parts, NEW m \in Machines
             PROVE  Cardinality(Accounts(part, m[part])) + Cardinality(Due(part, m[part]))
                        <= MaxPerMachine + Cardinality(Clients) - 1
  BY DEF LimitInv
<1>1. Accounts(part, m[part]) = {} /\ Due(part, m[part]) = {}
  BY DEF Init, Accounts, Due, Idle
<1>2. Cardinality({}) = 0
  BY FS_EmptySet
<1>3. Cardinality(Clients) \in Nat \ {0} /\ MaxPerMachine \in Nat
  BY AccountsAssumption, FS_CardinalityType, FS_EmptySet
<1> QED
  BY <1>1, <1>2, <1>3

(* Whoever passes the check found fewer accounts than the limit, and none  *)
(* but the requests under way can add to them.                             *)
LEMMA CheckLimited ==
    ASSUME AccountsInv, AccountsInv', LimitInv, NEW c \in Clients, Check(c)
    PROVE  LimitInv'
<1>1. /\ client[c] \in LoginType /\ UNCHANGED <<users, stats, hardware, lenient>>
      /\ client \in [Clients -> Request]
  BY Standing DEF Check, At, AccountsInv, AccountsTypeOK, Request
<1>2. client' = [client EXCEPT ![c] = client'[c]]
  <2>1. ASSUME NEW r, Goes(c, r) PROVE client' = [client EXCEPT ![c] = client'[c]]
    BY <1>1, <2>1 DEF Goes
  <2>2. Answers(c, "limit") \/ Moves(c, "create") \/ Moves(c, "record")
    BY DEF Check, Admitted
  <2> QED
    BY <2>1, <2>2 DEF Answers, Moves
<1>3. ASSUME Answers(c, "limit")
      PROVE  LimitInv'
  <2>1. client'[c].step = "answered"
    BY <1>1, <1>3 DEF Answers, Goes
  <2> QED
    BY <1>1, <1>2, <2>1, NotPastCheck DEF Due
<1>4. ASSUME ~(Identified(client[c].machine) /\ Cardinality(OthersOn(c)) >= MaxPerMachine),
             Admitted(c)
      PROVE  LimitInv'
  <2> SUFFICES ASSUME ~lenient, NEW part \in Parts, NEW m \in Machines, m[part] # Blank
               PROVE  Cardinality(Accounts(part, m[part])') + Cardinality(Due(part, m[part])')
                          <= MaxPerMachine + Cardinality(Clients) - 1
    BY <1>1 DEF LimitInv
  <2> DEFINE id == m[part]
             A == Accounts(part, id)
             D == Due(part, id)
             uid == client[c].uid
  <2>1. /\ IsFiniteSet(A) /\ Cardinality(A) \in Nat
        /\ IsFiniteSet(D) /\ Cardinality(D) \in Nat
        /\ IsFiniteSet(Clients) /\ Cardinality(Clients) \in Nat /\ MaxPerMachine \in Nat
        /\ IsFiniteSet(DOMAIN users)
    BY CountsFinite
  <2>2. IsFiniteSet(D') /\ Cardinality(D') \in Nat /\ Cardinality(D') <= Cardinality(Clients)
    <3>1. D' \in SUBSET Clients
      BY DEF Due
    <3> QED
      BY <2>1, <3>1, FS_Subset, FS_CardinalityType
  <2>3. A' = A
    BY <1>1 DEF Accounts
  <2>4. Cardinality(A) + Cardinality(D) <= MaxPerMachine + Cardinality(Clients) - 1
    BY DEF LimitInv
  <2>5. client'[c].machine = client[c].machine /\ client'[c].uid = uid
    BY <1>1, <1>4 DEF Admitted, Moves, Goes, LoginType
  <2>6. CASE client[c].machine[part] # id
    <3>1. ASSUME NEW d \in D' PROVE d \in D
      <4>1. d # c /\ d \in Clients
        BY <2>5, <2>6 DEF Due
      <4>2. client'[d] = client[d]
        BY <1>1, <1>2, <4>1
      <4> QED
        BY <2>3, <4>1, <4>2 DEF Due
    <3>2. Cardinality(D') <= Cardinality(D)
      <4>1. D' \in SUBSET D
        BY <3>1
      <4> QED
        BY <2>1, <4>1, FS_Subset
    <3> QED
      BY <2>1, <2>2, <2>3, <2>4, <3>2
  <2>7. CASE client[c].machine[part] = id
    <3> DEFINE B == A \ {uid}
    <3>1. IsFiniteSet(B) /\ Cardinality(B) = IF uid \in A THEN Cardinality(A) - 1 ELSE Cardinality(A)
      BY <2>1, FS_RemoveElement
    <3>2. Identified(client[c].machine)
      BY <2>7 DEF Identified, Parts
    <3>3. B \in SUBSET OthersOn(c)
      BY <2>7 DEF Accounts, OthersOn, Alike, Parts
    <3>4. IsFiniteSet(OthersOn(c)) /\ Cardinality(OthersOn(c)) \in Nat
      <4>1. OthersOn(c) \in SUBSET DOMAIN users
        BY DEF OthersOn
      <4> QED
        BY <2>1, <4>1, FS_Subset, FS_CardinalityType
    <3>5. Cardinality(B) <= Cardinality(OthersOn(c)) /\ Cardinality(B) \in Nat
      BY <3>1, <3>3, <3>4, FS_Subset, FS_CardinalityType
    <3>6. Cardinality(B) <= MaxPerMachine - 1
      BY <1>4, <2>1, <3>2, <3>4, <3>5
    <3>7. CASE uid \in A
      <4>1. D' \in SUBSET (Clients \ {c})
        BY <2>3, <2>5, <3>7 DEF Due
      <4>2. IsFiniteSet(Clients \ {c}) /\ Cardinality(Clients \ {c}) = Cardinality(Clients) - 1
        BY <2>1, FS_RemoveElement
      <4>3. Cardinality(D') <= Cardinality(Clients) - 1
        BY <4>1, <4>2, FS_Subset
      <4> QED
        BY <2>1, <2>2, <2>3, <3>1, <3>6, <3>7, <4>3
    <3>8. CASE uid \notin A
      BY <2>1, <2>2, <2>3, <3>1, <3>6, <3>8
    <3> QED
      BY <3>7, <3>8
  <2> QED
    BY <2>6, <2>7
<1> QED
  BY <1>3, <1>4 DEF Check

(* A record moves its request from those that are due to the accounts. *)
LEMMA RecordLimited ==
    ASSUME AccountsInv, AccountsInv', InAccount, LimitInv, NEW c \in Clients, Record(c)
    PROVE  LimitInv'
<1>1. /\ client[c] \in LoginType /\ client \in [Clients -> Request] /\ client[c].step = "record"
      /\ UNCHANGED <<users, stats, lenient>>
  BY Standing DEF Record, AccountsInv, AccountsTypeOK, Request, At
<1>2. client' = [client EXCEPT ![c] = client'[c]] /\ client'[c].step = "greet"
  BY <1>1 DEF Record, Moves, Goes, LoginType
<1>3. CASE UNCHANGED hardware
  BY <1>1, <1>2, <1>3, NotPastCheck DEF Due
<1>4. CASE hardware' = hardware \cup {<<client[c].uid, client[c].machine>>}
  <2> SUFFICES ASSUME ~lenient, NEW part \in Parts, NEW m \in Machines, m[part] # Blank
               PROVE  Cardinality(Accounts(part, m[part])') + Cardinality(Due(part, m[part])')
                          <= MaxPerMachine + Cardinality(Clients) - 1
    BY <1>1 DEF LimitInv
  <2> DEFINE id == m[part]
             A == Accounts(part, id)
             D == Due(part, id)
             uid == client[c].uid
  <2>1. /\ IsFiniteSet(A) /\ Cardinality(A) \in Nat
        /\ IsFiniteSet(D) /\ Cardinality(D) \in Nat
        /\ Cardinality(Clients) \in Nat /\ MaxPerMachine \in Nat
    BY CountsFinite
  <2>2. Cardinality(A) + Cardinality(D) <= MaxPerMachine + Cardinality(Clients) - 1
    BY DEF LimitInv
  <2>3. uid \in DOMAIN users /\ client[c].machine \in Machines
    BY <1>1 DEF InAccount, LoginType, AccountsInv, AccountsTypeOK
  <2>4. A \subseteq A'
    BY <1>1, <1>4 DEF Accounts
  <2>5. ASSUME NEW d \in D' PROVE d \in D \ {c}
    <3>1. d # c /\ d \in Clients
      BY <1>2 DEF Due
    <3>2. client'[d] = client[d]
      BY <1>1, <1>2, <3>1
    <3> QED
      BY <2>4, <3>1, <3>2 DEF Due
  <2>6. CASE uid \in A \/ client[c].machine[part] # id
    <3>1. A' = A
      BY <1>1, <1>4, <2>6 DEF Accounts
    <3>2. D' \in SUBSET D
      BY <2>5
    <3>3. Cardinality(D') <= Cardinality(D) /\ Cardinality(D') \in Nat
      BY <2>1, <3>2, FS_Subset, FS_CardinalityType
    <3> QED
      BY <2>1, <2>2, <3>1, <3>3
  <2>7. CASE uid \notin A /\ client[c].machine[part] = id
    <3>1. A' = A \cup {uid}
      BY <1>1, <1>4, <2>3, <2>7 DEF Accounts
    <3>2. Cardinality(A') = Cardinality(A) + 1
      BY <2>1, <2>7, <3>1, FS_AddElement
    <3>3. c \in D
      BY <1>1, <2>7 DEF Due, LoginType
    <3>4. IsFiniteSet(D \ {c}) /\ Cardinality(D \ {c}) = Cardinality(D) - 1
      BY <2>1, <3>3, FS_RemoveElement
    <3>5. D' \in SUBSET (D \ {c})
      BY <2>5
    <3>6. Cardinality(D') <= Cardinality(D) - 1 /\ Cardinality(D') \in Nat
      BY <3>4, <3>5, FS_Subset, FS_CardinalityType
    <3> QED
      BY <2>1, <2>2, <3>2, <3>6
  <2> QED
    BY <2>6, <2>7
<1> QED
  BY <1>3, <1>4 DEF Record

LEMMA LimitStep ==
    ASSUME AccountsInv, AccountsInv', InAccount, LimitInv, [Next]_vars
    PROVE  LimitInv'
<1>1. ASSUME NEW c \in Clients, Ask(c) \/ Proceed(c)
      PROVE  LimitInv'
  <2>1. client \in [Clients -> Request]
    BY DEF AccountsInv, AccountsTypeOK, Request
  <2>2. ASSUME NEW r, Goes(c, r), lenient' = lenient, hardware' = hardware,
               \A part, id : c \in Due(part, id)' => c \in Due(part, id)
        PROVE  LimitInv'
    <3>1. client' = [client EXCEPT ![c] = client'[c]]
      BY <2>1, <2>2 DEF Goes
    <3> QED
      BY <2>2, <3>1, NotPastCheck
  <2>3. ASSUME NEW r, Goes(c, r), lenient' = lenient, hardware' = hardware,
               r.step \notin {"create", "seed", "record"} \/ r.form
        PROVE  LimitInv'
    <3>1. client'[c] = r
      BY <2>1, <2>3 DEF Goes
    <3> QED
      BY <2>2, <2>3, <3>1 DEF Due
  <2>4. ASSUME NEW a, Answers(c, a), lenient' = lenient, hardware' = hardware
        PROVE  LimitInv'
    <3> DEFINE r == [step |-> "answered", answer |-> a, form |-> client[c].form,
                     name |-> client[c].name, password |-> client[c].password, uid |-> client[c].uid]
    <3>1. Goes(c, r) /\ r.step = "answered"
      BY <2>4 DEF Answers
    <3> HIDE DEF r
    <3> QED
      BY <2>3, <2>4, <3>1
  <2>5. /\ client[c].step \in {"look", "create", "seed"} => client[c] \in FormType \cup LoginType
        /\ client[c].step \in {"check", "record", "greet"} => client[c] \in LoginType
        /\ client[c] \in FormType => client[c].form
        /\ client[c] \in LoginType => ~client[c].form
    BY Standing DEF At
  <2>6. ASSUME Ask(c)
        PROVE  LimitInv'
    <3>1. PICK n \in Names, p \in Passwords :
            \/ AskForm(c, n, p)
            \/ \E m \in Machines, exempt \in BOOLEAN : AskLogin(c, n, p, m, exempt)
      BY <2>6 DEF Ask
    <3>2. ASSUME AskForm(c, n, p) PROVE LimitInv'
      BY <2>3, <3>2 DEF AskForm
    <3>3. ASSUME NEW m \in Machines, NEW exempt \in BOOLEAN, AskLogin(c, n, p, m, exempt)
          PROVE  LimitInv'
      BY <2>3, <3>3 DEF AskLogin
    <3> QED
      BY <3>1, <3>2, <3>3
  <2>7. ASSUME LookUpForm(c) \/ LookUpLogin(c) \/ LookUpFails(c)
        PROVE  LimitInv'
    <3>1. /\ client[c] \in FormType \cup LoginType
          /\ lenient' = lenient /\ hardware' = hardware
      BY <2>5, <2>7 DEF LookUpForm, LookUpLogin, LookUpFails, At
    <3>2. ASSUME client[c].form, Moves(c, "create")
          PROVE  LimitInv'
      <4>1. [client[c] EXCEPT !.step = "create"].form
        BY <2>5, <3>1, <3>2 DEF FormType
      <4> QED
        BY <2>3, <3>1, <3>2, <4>1 DEF Moves
    <3>3. ASSUME Moves(c, "check")
          PROVE  LimitInv'
      <4>1. [client[c] EXCEPT !.step = "check"].step = "check"
        BY <3>1 DEF FormType, LoginType
      <4> QED
        BY <2>3, <3>1, <3>3, <4>1 DEF Moves
    <3>4. ASSUME NEW u, Goes(c, [client[c] EXCEPT !.step = "check", !.uid = u])
          PROVE  LimitInv'
      <4>1. [client[c] EXCEPT !.step = "check", !.uid = u].step = "check"
        BY <3>1 DEF FormType, LoginType
      <4> QED
        BY <2>3, <3>1, <3>4, <4>1
    <3> QED
      BY <2>4, <2>7, <3>1, <3>2, <3>3, <3>4 DEF LookUpForm, LookUpLogin, LookUpFails
  <2>8. ASSUME Waive(c) \/ CheckFails(c)
        PROVE  LimitInv'
    BY <2>8 DEF Waive, CheckFails, LimitInv
  <2>9. ASSUME CreateUser(c)
        PROVE  LimitInv'
    <3>1. /\ client[c] \in FormType \cup LoginType /\ client[c].step = "create" /\ client[c].uid = 0
          /\ lenient' = lenient /\ hardware' = hardware
      BY <2>5, <2>9 DEF CreateUser, At, InAccount
    <3>2. ASSUME Goes(c, [client[c] EXCEPT !.step = "seed", !.uid = Len(users) + 1])
          PROVE  LimitInv'
      <4>1. CASE client[c] \in FormType
        <5>1. [client[c] EXCEPT !.step = "seed", !.uid = Len(users) + 1].form
          BY <2>5, <4>1 DEF FormType
        <5> QED
          BY <2>3, <3>1, <3>2, <5>1
      <4>2. CASE client[c] \in LoginType
        <5>1. client'[c].machine = client[c].machine
          BY <2>1, <3>2, <4>2 DEF Goes, LoginType
        <5>2. ASSUME NEW part, NEW id PROVE client[c].uid \notin Accounts(part, id)
          BY <3>1 DEF Accounts, AccountsInv, AccountsTypeOK
        <5>3. \A part, id : c \in Due(part, id)' => c \in Due(part, id)
          BY <2>5, <3>1, <4>2, <5>1, <5>2 DEF Due
        <5> QED
          BY <2>2, <3>1, <3>2, <5>3
      <4> QED
        BY <3>1, <4>1, <4>2
    <3> QED
      BY <2>4, <2>9, <3>1, <3>2 DEF CreateUser
  <2>10. ASSUME Seed(c)
         PROVE  LimitInv'
    <3>1. /\ client[c] \in FormType \cup LoginType /\ client[c].step = "seed"
          /\ lenient' = lenient /\ hardware' = hardware /\ users' = users
      BY <2>5, <2>10 DEF Seed, At
    <3>2. ASSUME NEW r, Goes(c, r), client[c] \in LoginType,
                 r.machine = client[c].machine, r.uid = client[c].uid
          PROVE  LimitInv'
      <4>1. client'[c] = r
        BY <2>1, <3>2 DEF Goes
      <4>2. \A part, id : Accounts(part, id)' = Accounts(part, id)
        BY <3>1 DEF Accounts
      <4>3. \A part, id : c \in Due(part, id)' => c \in Due(part, id)
        BY <2>5, <3>1, <3>2, <4>1, <4>2 DEF Due
      <4> QED
        BY <2>2, <3>1, <3>2, <4>3
    <3>3. ASSUME Goes(c, [client[c] EXCEPT !.mode = @ + 1])
          PROVE  LimitInv'
      <4> DEFINE r == [client[c] EXCEPT !.mode = @ + 1]
      <4>1. CASE client[c] \in FormType
        <5>1. r.form
          BY <2>5, <4>1 DEF FormType
        <5> QED
          BY <2>3, <3>1, <3>3, <5>1
      <4>2. CASE client[c] \in LoginType
        <5>1. r.machine = client[c].machine /\ r.uid = client[c].uid
          BY <4>2 DEF LoginType
        <5> QED
          BY <3>2, <3>3, <4>2, <5>1
      <4> QED
        BY <3>1, <4>1, <4>2
    <3>4. ASSUME ~client[c].form, Moves(c, "record")
          PROVE  LimitInv'
      <4> DEFINE r == [client[c] EXCEPT !.step = "record"]
      <4>1. client[c] \in LoginType
        BY <2>5, <3>1, <3>4
      <4>2. r.machine = client[c].machine /\ r.uid = client[c].uid
        BY <4>1 DEF LoginType
      <4> QED
        BY <3>2, <3>4, <4>1, <4>2 DEF Moves
    <3> QED
      BY <2>4, <2>10, <3>1, <3>3, <3>4 DEF Seed
  <2>11. ASSUME Greet(c) \/ CreateFails(c)
         PROVE  LimitInv'
    BY <2>4, <2>11 DEF Greet, CreateFails
  <2>12. ASSUME Leave(c)
         PROVE  LimitInv'
    BY <2>3, <2>12 DEF Leave, Idle
  <2> QED
    BY <1>1, <2>6, <2>7, <2>8, <2>9, <2>10, <2>11, <2>12, CheckLimited, RecordLimited DEF Proceed
<1>2. ASSUME UNCHANGED vars
      PROVE  LimitInv'
  <2>1. \A part, id : Accounts(part, id)' = Accounts(part, id)
    BY <1>2 DEF Accounts, vars
  <2>2. \A part, id : Due(part, id)' = Due(part, id)
    BY <1>2, <2>1 DEF Due, vars
  <2>3. lenient' = lenient
    BY <1>2 DEF vars
  <2> QED
    BY <2>1, <2>2, <2>3, FewerDue
<1> QED
  BY <1>1, <1>2 DEF Next

(* While no check was waived or failed, the accounts of a machine exceed   *)
(* the limit by fewer than the requests under way.                         *)
THEOREM LimitKept == Spec => []LimitNearlyKept
<1>1. AccountsInv /\ LimitInv => LimitNearlyKept
  <2> SUFFICES ASSUME AccountsInv, LimitInv, ~lenient, NEW part \in Parts, NEW m \in Machines,
                      m[part] # Blank
               PROVE  Cardinality(Accounts(part, m[part])) <= MaxPerMachine + Cardinality(Clients) - 1
    BY DEF LimitNearlyKept, Parts
  <2>1. /\ Cardinality(Accounts(part, m[part])) \in Nat /\ Cardinality(Due(part, m[part])) \in Nat
        /\ Cardinality(Clients) \in Nat /\ MaxPerMachine \in Nat
    BY CountsFinite
  <2>2. Cardinality(Accounts(part, m[part])) + Cardinality(Due(part, m[part]))
            <= MaxPerMachine + Cardinality(Clients) - 1
    BY DEF LimitInv
  <2> QED
    BY <2>1, <2>2
<1>2. AccountsInv /\ InAccount /\ LimitInv /\ [Next]_vars => (AccountsInv /\ InAccount /\ LimitInv)'
  <2> SUFFICES ASSUME AccountsInv, InAccount, LimitInv, [Next]_vars
               PROVE  (AccountsInv /\ InAccount /\ LimitInv)'
    OBVIOUS
  <2>1. (AccountsInv /\ InAccount)'
    BY AccountsStep
  <2> QED
    BY <2>1, LimitStep
<1> QED
  BY <1>1, <1>2, AccountsInit, LimitInit, PTL DEF Spec

-----------------------------------------------------------------------------
(* The rows of an account are made mode by mode before the form answers. *)

SeedsInOrder ==
    \A c \in Clients :
        /\ client[c].step \in {"look", "check", "create"} => client[c].mode = 0
        /\ At(c, "seed") => \A k \in 0 .. 3 : k < client[c].mode => <<client[c].uid, k>> \in stats

Complete == SeedsInOrder /\ OkMeansComplete

(* Whoever takes no step keeps what it has seeded. *)
LEMMA CompleteStep ==
    ASSUME AccountsInv, Complete, [Next]_vars
    PROVE  Complete'
<1> DEFINE Good(r, rows) ==
        /\ r.step \in {"look", "check", "create"} => r.mode = 0
        /\ r.step = "seed" => \A k \in 0 .. 3 : k < r.mode => <<r.uid, k>> \in rows
        /\ r.step = "answered" /\ r.answer = "ok" /\ r.form =>
                \A k \in 0 .. 3 : <<r.uid, k>> \in rows
<1>1. \A c \in Clients : Good(client[c], stats)
  BY DEF Complete, SeedsInOrder, OkMeansComplete, At
<1>2. client \in [Clients -> Request]
  BY DEF AccountsInv, AccountsTypeOK, Request
<1>3. SUFFICES \A c \in Clients : Good(client'[c], stats')
  BY DEF Complete, SeedsInOrder, OkMeansComplete, At
<1>4. ASSUME NEW c \in Clients, NEW r, Goes(c, r), stats \subseteq stats', Good(r, stats')
      PROVE  \A d \in Clients : Good(client'[d], stats')
  <2>1. \A d \in Clients : client'[d] = IF d = c THEN r ELSE client[d]
    BY <1>2, <1>4 DEF Goes
  <2>2. \A d \in Clients : Good(client[d], stats')
    BY <1>1, <1>4
  <2> HIDE DEF Good
  <2> QED
    BY <1>4, <2>1, <2>2
<1>5. ASSUME NEW c \in Clients, NEW a, Answers(c, a), stats \subseteq stats',
             a # "ok" \/ ~client[c].form
      PROVE  \A d \in Clients : Good(client'[d], stats')
  <2> DEFINE r == [step |-> "answered", answer |-> a, form |-> client[c].form, name |-> client[c].name,
                   password |-> client[c].password, uid |-> client[c].uid]
  <2>1. Goes(c, r)
    BY <1>5 DEF Answers
  <2>2. Good(r, stats')
    BY <1>5
  <2> HIDE DEF r, Good
  <2> QED
    BY <1>4, <1>5, <2>1, <2>2
<1>6. ASSUME NEW c \in Clients, NEW s, Moves(c, s), stats \subseteq stats',
             client[c] \in FormType \cup LoginType,
             s \notin {"seed", "answered"}, s \in {"look", "check", "create"} => client[c].mode = 0
      PROVE  \A d \in Clients : Good(client'[d], stats')
  <2> DEFINE r == [client[c] EXCEPT !.step = s]
  <2>1. Goes(c, r)
    BY <1>6 DEF Moves
  <2>2. r.step = s /\ r.mode = client[c].mode
    BY <1>6 DEF FormType, LoginType
  <2>3. Good(r, stats')
    BY <1>6, <2>2
  <2> HIDE DEF r, Good
  <2> QED
    BY <1>4, <1>6, <2>1, <2>3
<1>7. ASSUME NEW c \in Clients, Ask(c) \/ Proceed(c)
      PROVE  \A d \in Clients : Good(client'[d], stats')
  <2>1. Good(client[c], stats)
    BY <1>1
  <2>2. /\ client[c].step \in {"look", "create", "seed"} => client[c] \in FormType \cup LoginType
        /\ client[c].step \in {"check", "record", "greet"} => client[c] \in LoginType
        /\ client[c] \in LoginType => ~client[c].form
    BY Standing DEF At
  <2>3. ASSUME Ask(c)
        PROVE  \A d \in Clients : Good(client'[d], stats')
    <3>1. PICK n \in Names, p \in Passwords :
            \/ AskForm(c, n, p)
            \/ \E m \in Machines, exempt \in BOOLEAN : AskLogin(c, n, p, m, exempt)
      BY <2>3 DEF Ask
    <3>2. ASSUME AskForm(c, n, p) PROVE \A d \in Clients : Good(client'[d], stats')
      <4> DEFINE r == [step |-> "look", form |-> TRUE, name |-> n, password |-> p, uid |-> 0, mode |-> 0]
      <4>1. Goes(c, r) /\ stats' = stats
        BY <3>2 DEF AskForm
      <4>2. Good(r, stats')
        OBVIOUS
      <4> HIDE DEF r, Good
      <4> QED
        BY <1>4, <4>1, <4>2
    <3>3. ASSUME NEW m \in Machines, NEW exempt \in BOOLEAN, AskLogin(c, n, p, m, exempt)
          PROVE  \A d \in Clients : Good(client'[d], stats')
      <4> DEFINE r == [step |-> "look", form |-> FALSE, name |-> n, password |-> p, uid |-> 0,
                       mode |-> 0, machine |-> m, exempt |-> exempt]
      <4>1. Goes(c, r) /\ stats' = stats
        BY <3>3 DEF AskLogin
      <4>2. Good(r, stats')
        OBVIOUS
      <4> HIDE DEF r, Good
      <4> QED
        BY <1>4, <4>1, <4>2
    <3> QED
      BY <3>1, <3>2, <3>3
  <2>4. ASSUME LookUpForm(c) \/ LookUpLogin(c) \/ LookUpFails(c)
        PROVE  \A d \in Clients : Good(client'[d], stats')
    <3>1. /\ client[c].step = "look" /\ client[c] \in FormType \cup LoginType /\ client[c].mode = 0
          /\ stats' = stats
      BY <2>1, <2>2, <2>4 DEF LookUpForm, LookUpLogin, LookUpFails, At
    <3>2. ASSUME NEW u, Goes(c, [client[c] EXCEPT !.step = "check", !.uid = u])
          PROVE  \A d \in Clients : Good(client'[d], stats')
      <4> DEFINE r == [client[c] EXCEPT !.step = "check", !.uid = u]
      <4>1. r.step = "check" /\ r.mode = 0
        BY <3>1 DEF FormType, LoginType
      <4>2. Good(r, stats')
        BY <4>1
      <4> HIDE DEF r, Good
      <4> QED
        BY <1>4, <3>1, <3>2, <4>2 DEF r
    <3> HIDE DEF Good
    <3>3. ASSUME NEW s \in {"create", "check"}, Moves(c, s)
          PROVE  \A d \in Clients : Good(client'[d], stats')
      BY <1>6, <3>1, <3>3
    <3>4. ASSUME NEW a \in {"taken", "wrong", "error"}, Answers(c, a)
          PROVE  \A d \in Clients : Good(client'[d], stats')
      BY <1>5, <3>1, <3>4
    <3> QED
      BY <2>4, <3>2, <3>3, <3>4 DEF LookUpForm, LookUpLogin, LookUpFails
  <2>5. ASSUME Check(c) \/ Waive(c) \/ CheckFails(c)
        PROVE  \A d \in Clients : Good(client'[d], stats')
    <3>1. /\ client[c].step = "check" /\ client[c] \in LoginType /\ client[c].mode = 0
          /\ stats' = stats
      BY <2>1, <2>2, <2>5 DEF Check, Waive, CheckFails, At
    <3> HIDE DEF Good
    <3>2. ASSUME Admitted(c) PROVE \A d \in Clients : Good(client'[d], stats')
      BY <1>6, <3>1, <3>2 DEF Admitted
    <3>3. ASSUME Answers(c, "limit") PROVE \A d \in Clients : Good(client'[d], stats')
      BY <1>5, <3>1, <3>3
    <3> QED
      BY <2>5, <3>2, <3>3 DEF Check, Waive, CheckFails
  <2>6. ASSUME CreateUser(c)
        PROVE  \A d \in Clients : Good(client'[d], stats')
    <3>1. /\ client[c].step = "create" /\ client[c] \in FormType \cup LoginType
          /\ client[c].mode = 0 /\ stats' = stats
      BY <2>1, <2>2, <2>6 DEF CreateUser, At
    <3>2. ASSUME NEW u, Goes(c, [client[c] EXCEPT !.step = "seed", !.uid = u])
          PROVE  \A d \in Clients : Good(client'[d], stats')
      <4> DEFINE r == [client[c] EXCEPT !.step = "seed", !.uid = u]
      <4>1. r.step = "seed" /\ r.mode = 0
        BY <3>1 DEF FormType, LoginType
      <4>2. Good(r, stats')
        BY <4>1
      <4> HIDE DEF r, Good
      <4> QED
        BY <1>4, <3>1, <3>2, <4>2 DEF r
    <3> HIDE DEF Good
    <3>3. ASSUME Answers(c, "error") PROVE \A d \in Clients : Good(client'[d], stats')
      BY <1>5, <3>1, <3>3
    <3> QED
      BY <2>6, <3>2, <3>3 DEF CreateUser
  <2>7. ASSUME Seed(c)
        PROVE  \A d \in Clients : Good(client'[d], stats')
    <3>1. /\ client[c].step = "seed" /\ client[c] \in FormType \cup LoginType
          /\ stats' = stats \cup {<<client[c].uid, client[c].mode>>}
      BY <2>2, <2>7 DEF Seed, At
    <3>2. client[c].mode \in 0 .. 3
      BY <3>1 DEF FormType, LoginType
    <3>3. \A k \in 0 .. 3 : k < client[c].mode + 1 => <<client[c].uid, k>> \in stats'
      BY <2>1, <3>1, <3>2
    <3>4. ASSUME Goes(c, [client[c] EXCEPT !.mode = @ + 1])
          PROVE  \A d \in Clients : Good(client'[d], stats')
      <4> DEFINE r == [client[c] EXCEPT !.mode = @ + 1]
      <4>1. r.step = "seed" /\ r.uid = client[c].uid /\ r.mode = client[c].mode + 1
        BY <3>1 DEF FormType, LoginType
      <4>2. Good(r, stats')
        BY <3>3, <4>1
      <4> HIDE DEF r, Good
      <4> QED
        BY <1>4, <3>1, <3>4, <4>2 DEF r
    <3>5. ASSUME client[c].mode = 3, Answers(c, "ok")
          PROVE  \A d \in Clients : Good(client'[d], stats')
      <4> DEFINE r == [step |-> "answered", answer |-> "ok", form |-> client[c].form,
                       name |-> client[c].name, password |-> client[c].password,
                       uid |-> client[c].uid]
      <4>1. Goes(c, r)
        BY <3>5 DEF Answers
      <4>2. \A k \in 0 .. 3 : <<client[c].uid, k>> \in stats'
        BY <3>3, <3>5
      <4>3. Good(r, stats')
        BY <4>2
      <4> HIDE DEF r, Good
      <4> QED
        BY <1>4, <3>1, <4>1, <4>3
    <3> HIDE DEF Good
    <3>6. ASSUME Moves(c, "record")
          PROVE  \A d \in Clients : Good(client'[d], stats')
      BY <1>6, <3>1, <3>6
    <3>7. client[c].mode < 3 \/ client[c].mode = 3
      BY <3>2
    <3> QED
      BY <2>7, <3>4, <3>5, <3>6, <3>7 DEF Seed
  <2>8. ASSUME Record(c) \/ Greet(c)
        PROVE  \A d \in Clients : Good(client'[d], stats')
    <3>1. client[c] \in LoginType /\ ~client[c].form /\ stats \subseteq stats'
      BY <2>2, <2>8 DEF Record, Greet, At
    <3> HIDE DEF Good
    <3> QED
      BY <1>5, <1>6, <2>8, <3>1 DEF Record, Greet
  <2>9. ASSUME CreateFails(c)
        PROVE  \A d \in Clients : Good(client'[d], stats')
    <3> HIDE DEF Good
    <3> QED
      BY <1>5, <2>9 DEF CreateFails
  <2>10. ASSUME Leave(c)
         PROVE  \A d \in Clients : Good(client'[d], stats')
    <3>1. Goes(c, Idle) /\ stats' = stats
      BY <2>10 DEF Leave
    <3>2. Good(Idle, stats')
      BY DEF Idle
    <3> HIDE DEF Good
    <3> QED
      BY <1>4, <3>1, <3>2
  <2> HIDE DEF Good
  <2> QED
    BY <1>7, <2>3, <2>4, <2>5, <2>6, <2>7, <2>8, <2>9, <2>10 DEF Proceed
<1>8. ASSUME UNCHANGED vars
      PROVE  \A d \in Clients : Good(client'[d], stats')
  BY <1>1, <1>8 DEF vars
<1> HIDE DEF Good
<1> QED
  BY <1>7, <1>8 DEF Next

(* Nobody is told by the form that an account is ready which lacks a row   *)
(* of statistics: the rows are made one by one and a failure in between is *)
(* answered as an error.                                                   *)
THEOREM AnsweredComplete == Spec => []OkMeansComplete
<1>1. Complete => OkMeansComplete
  BY DEF Complete
<1>2. Init => Complete
  BY DEF Init, Complete, SeedsInOrder, OkMeansComplete, At, Idle
<1>3. AccountsInv /\ InAccount /\ Complete /\ [Next]_vars => (AccountsInv /\ InAccount /\ Complete)'
  <2> SUFFICES ASSUME AccountsInv, InAccount, Complete, [Next]_vars
               PROVE  (AccountsInv /\ InAccount /\ Complete)'
    OBVIOUS
  <2>1. (AccountsInv /\ InAccount)'
    BY AccountsStep
  <2>2. Complete'
    BY CompleteStep
  <2> QED
    BY <2>1, <2>2
<1> QED
  BY <1>1, <1>2, <1>3, AccountsInit, PTL DEF Spec
=============================================================================
