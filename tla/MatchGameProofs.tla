--------------------------- MODULE MatchGameProofs ---------------------------
(***************************************************************************)
(* Proofs about MatchGame, MatchSaves and MultiDb for any players, slots,  *)
(* games, ids and bounds.                                                  *)
(*                                                                         *)
(* MatchGame.  That frames and loads which count are of the running game   *)
(* needs one fact about them (ThisGame): in a game, everything in them is  *)
(* of that game, since START throws away what an idle room gathered, but   *)
(* for the frames that were under way at START, there or still coming.     *)
(* That                                                                    *)
(* the players are told when all have loaded rests on PlayingIn: but for   *)
(* START it only shrinks, and thinned says when.  What a verdict makes of  *)
(* the scores is a loop over the slots: its winner has the best row of     *)
(* those seen so far (Beats), and its sums are those of Sums, in any       *)
(* order.                                                                  *)
(*                                                                         *)
(* MatchSaves.  A task is the only one of its game, and the rows of its    *)
(* match with those it has left are the rows of the result (TaskOK).       *)
(*                                                                         *)
(* MultiDb.  As long as the writes run in order, the last one that is on   *)
(* its way for a room shows it or deletes it; when none is on its way its  *)
(* row does, or is not there (Shown, Erased).                              *)
(***************************************************************************)
EXTENDS MatchGame, MatchSaves, MultiDb, Sums, SequenceTheorems

SeatsOK(s) ==
    /\ s \in [Slots -> Slot]
    /\ \A i, j \in Slots : s[i].player = s[j].player => i = j \/ s[i].player = Nobody
    /\ \A i \in Slots : s[i].status = "open" <=> s[i].player = Nobody
    /\ \A i \in Slots : s[i].status = "open" => s[i].team = "neutral"

(* A room without players has no game. *)
NoGhost ==
    TakenIn(slots) = {} => ~inProgress /\ frames = << >> /\ loaded = << >>

KnownPlayers ==
    DOMAIN flying \subseteq Players /\ DOMAIN frames \subseteq Players /\ DOMAIN loaded \subseteq Players

(* the frame of u in f counts for the running game *)
Counts(f, u) == f[u].game = game \/ (u \in DOMAIN late /\ f[u] = late[u])

ThisGame ==
    inProgress => /\ \A u \in DOMAIN frames : Counts(frames, u)
                  /\ \A u \in DOMAIN flying : Counts(flying, u)
                  /\ \A u \in DOMAIN loaded : loaded[u] = game

FramesScored ==
    /\ \A u \in DOMAIN frames : frames[u].score \in Int
    /\ \A u \in DOMAIN flying : flying[u].score \in Int

GameInv ==
    /\ SeatsOK(slots) /\ NoGhost /\ KnownPlayers
    /\ ThisGame /\ ScoresOfThisGame /\ AllLoadedTold
    /\ FramesScored /\ VerdictByScores

-----------------------------------------------------------------------------
(* Seats *)

LEMMA SeatOf ==
    ASSUME SeatsOK(slots), NEW u \in Players, In(u)
    PROVE  /\ SlotOf(u) \in TakenIn(slots) /\ SlotOf(u) \in Slots
           /\ slots[SlotOf(u)].player = u
           /\ slots[SlotOf(u)] \in Slot
           /\ \A i \in Slots : slots[i].player = u => i = SlotOf(u)
<1>1. PICK i \in Slots : slots[i].player = u
  BY DEF In
<1>2. u # Nobody
  BY MatchGameAssumption
<1>3. {j \in Slots : slots[j].player = u} = {i}
  BY <1>1, <1>2 DEF SeatsOK
<1>4. i \in Int
  BY <1>1, MatchGameAssumption DEF Slots
<1>5. SlotOf(u) = i
  BY <1>3, <1>4 DEF SlotOf, First
<1>6. slots[i] \in Slot /\ slots[i].status # "open"
  BY <1>1, <1>2 DEF SeatsOK
<1> QED
  BY <1>1, <1>3, <1>5, <1>6 DEF TakenIn, Slot

LEMMA Free ==
    ASSUME SeatsOK(slots), NEW i \in Slots, i \notin TakenIn(slots)
    PROVE  slots[i].status = "open" /\ slots[i].player = Nobody /\ slots[i].team = "neutral"
BY DEF SeatsOK, TakenIn, Slot

(* A change of status or team in seats that stay taken. *)
LEMMA Restated ==
    ASSUME NEW s, SeatsOK(s), NEW t \in [Slots -> Slot],
           \A i \in Slots : /\ t[i].player = s[i].player
                            /\ t[i].status = "open" <=> s[i].status = "open"
                            /\ t[i].status = "open" => t[i].team = s[i].team
    PROVE  SeatsOK(t) /\ TakenIn(t) = TakenIn(s)
<1>1. SeatsOK(t)
  BY DEF SeatsOK
<1>2. \A i \in Slots : t[i].status \in HasPlayer <=> s[i].status \in HasPlayer
  BY DEF SeatsOK, Slot, HasPlayer
<1> QED
  BY <1>1, <1>2 DEF TakenIn

LEMMA SeatTaken ==
    ASSUME SeatsOK(slots), NEW u \in Players, ~In(u), NEW i \in Slots, i \notin TakenIn(slots),
           NEW s, s = [slots EXCEPT ![i].status = "notReady", ![i].player = u]
    PROVE  SeatsOK(s) /\ i \in TakenIn(s) /\ PlayingIn(s) = PlayingIn(slots)
<1>1. slots[i].status = "open" /\ slots[i].player = Nobody /\ slots[i].team = "neutral"
  BY Free
<1>2. u # Nobody /\ \A j \in Slots : slots[j].player # u
  BY MatchGameAssumption DEF In
<1>3. /\ s \in [Slots -> Slot]
      /\ s[i] = [slots[i] EXCEPT !.status = "notReady", !.player = u]
      /\ \A j \in Slots \ {i} : s[j] = slots[j]
  BY DEF SeatsOK, Slot, HasPlayer
<1>4. s[i].status = "notReady" /\ s[i].player = u
  BY <1>3 DEF SeatsOK, Slot
<1>5. SeatsOK(s)
  BY <1>1, <1>2, <1>3, <1>4 DEF SeatsOK
<1>6. {j \in Slots : s[j].status = "playing"} = {j \in Slots : slots[j].status = "playing"}
  BY <1>1, <1>3, <1>4
<1>7. PlayingIn(s) = PlayingIn(slots)
  BY <1>1, <1>3, <1>6 DEF PlayingIn
<1> QED
  BY <1>4, <1>5, <1>7 DEF TakenIn, HasPlayer

LEMMA SeatLeft ==
    ASSUME SeatsOK(slots), NEW u \in Players, In(u),
           NEW s, s = [slots EXCEPT ![SlotOf(u)] = Empty]
    PROVE  /\ SeatsOK(s) /\ TakenIn(s) = TakenIn(slots) \ {SlotOf(u)}
           /\ PlayingIn(s) = PlayingIn(slots) \ {u}
<1> DEFINE i == SlotOf(u)
<1>1. /\ i \in Slots /\ i \in TakenIn(slots) /\ slots[i].player = u
      /\ \A j \in Slots : slots[j].player = u => j = i
  BY SeatOf
<1> HIDE DEF i
<1>2. Empty \in Slot
  BY DEF Empty, Slot
<1>3. s \in [Slots -> Slot] /\ s[i] = Empty /\ \A j \in Slots \ {i} : s[j] = slots[j]
  BY <1>1, <1>2 DEF SeatsOK, i
<1>4. SeatsOK(s)
  BY <1>1, <1>3 DEF SeatsOK, Empty
<1>5. TakenIn(s) = TakenIn(slots) \ {i}
  BY <1>1, <1>3 DEF TakenIn, Empty, HasPlayer
<1>6. PlayingIn(s) = PlayingIn(slots) \ {u}
  BY <1>1, <1>3 DEF PlayingIn, Empty
<1> QED
  BY <1>4, <1>5, <1>6 DEF i

LEMMA SeatRestated ==
    ASSUME SeatsOK(slots), NEW u \in Players, In(u), NEW status \in HasPlayer \ {"playing"},
           NEW s, s = [slots EXCEPT ![SlotOf(u)].status = status]
    PROVE  /\ SeatsOK(s) /\ TakenIn(s) = TakenIn(slots)
           /\ PlayingIn(s) \subseteq PlayingIn(slots)
           /\ u \notin PlayingIn(slots) => PlayingIn(s) = PlayingIn(slots)
<1> DEFINE i == SlotOf(u)
<1>1. /\ i \in Slots /\ i \in TakenIn(slots) /\ slots[i].player = u /\ slots[i] \in Slot
      /\ \A j \in Slots : slots[j].player = u => j = i
  BY SeatOf
<1> HIDE DEF i
<1>2. s[i] = [slots[i] EXCEPT !.status = status] /\ \A j \in Slots \ {i} : s[j] = slots[j]
  BY <1>1 DEF SeatsOK, i
<1>3. /\ s[i].status = status /\ s[i].player = u /\ s[i].team = slots[i].team /\ s[i] \in Slot
      /\ slots[i].status # "open" /\ status # "open" /\ status # "playing"
  BY <1>1, <1>2 DEF Slot, TakenIn, HasPlayer
<1>4. s \in [Slots -> Slot]
  BY <1>1, <1>2, <1>3 DEF SeatsOK, i
<1>5. SeatsOK(s) /\ TakenIn(s) = TakenIn(slots)
  <2>1. \A j \in Slots : /\ s[j].player = slots[j].player
                         /\ s[j].status = "open" <=> slots[j].status = "open"
                         /\ s[j].status = "open" => s[j].team = slots[j].team
    BY <1>1, <1>2, <1>3
  <2> QED
    BY <1>4, <2>1, Restated
<1>6. ASSUME NEW p \in PlayingIn(s) PROVE p \in PlayingIn(slots)
  <2>1. PICK j \in Slots : s[j].status = "playing" /\ p = s[j].player
    BY DEF PlayingIn
  <2>2. j # i
    BY <1>3, <2>1
  <2>3. s[j] = slots[j]
    BY <1>2, <2>2
  <2> QED
    BY <2>1, <2>3 DEF PlayingIn
<1>7. ASSUME u \notin PlayingIn(slots), NEW p \in PlayingIn(slots)
      PROVE  p \in PlayingIn(s)
  <2>1. PICK j \in Slots : slots[j].status = "playing" /\ p = slots[j].player
    BY DEF PlayingIn
  <2>2. j # i
    BY <1>1, <1>7, <2>1
  <2>3. s[j] = slots[j]
    BY <1>2, <2>2
  <2> QED
    BY <2>1, <2>3 DEF PlayingIn
<1> QED
  BY <1>5, <1>6, <1>7

LEMMA SeatMoved ==
    ASSUME SeatsOK(slots), NEW u \in Players, In(u), NEW i \in Slots, i \notin TakenIn(slots),
           NEW s, s = [slots EXCEPT ![SlotOf(u)] = Empty, ![i] = slots[SlotOf(u)]]
    PROVE  SeatsOK(s) /\ TakenIn(s) # {} /\ PlayingIn(s) = PlayingIn(slots)
<1> DEFINE k == SlotOf(u)
<1>1. /\ k \in Slots /\ k \in TakenIn(slots) /\ slots[k].player = u /\ slots[k] \in Slot
      /\ \A j \in Slots : slots[j].player = u => j = k
  BY SeatOf
<1>2. slots[i].status = "open" /\ slots[i].player = Nobody /\ i # k
  BY <1>1, Free
<1> HIDE DEF k
<1>3. s[k] = Empty /\ s[i] = slots[k] /\ \A j \in Slots \ {i, k} : s[j] = slots[j]
  BY <1>1, <1>2 DEF SeatsOK, k
<1>4. s \in [Slots -> Slot]
  BY <1>1, <1>2 DEF SeatsOK, Slot, Empty, k
<1>5. u # Nobody
  BY MatchGameAssumption
<1>6. SeatsOK(s)
  <2>1. \A j, m \in Slots : s[j].player = s[m].player => j = m \/ s[j].player = Nobody
    BY <1>1, <1>2, <1>3, <1>5 DEF SeatsOK, Empty
  <2>2. \A j \in Slots : s[j].status = "open" <=> s[j].player = Nobody
    BY <1>1, <1>2, <1>3 DEF SeatsOK, Empty
  <2>3. \A j \in Slots : s[j].status = "open" => s[j].team = "neutral"
    BY <1>1, <1>2, <1>3 DEF SeatsOK, Empty
  <2> QED
    BY <1>4, <2>1, <2>2, <2>3 DEF SeatsOK
<1>7. i \in TakenIn(s)
  BY <1>1, <1>3 DEF TakenIn
<1>8. PlayingIn(s) = PlayingIn(slots)
  <2>1. ASSUME NEW p \in PlayingIn(s) PROVE p \in PlayingIn(slots)
    <3>1. PICK j \in Slots : s[j].status = "playing" /\ p = s[j].player
      BY DEF PlayingIn
    <3>2. CASE j = i
      <4>1. slots[k].status = "playing" /\ p = slots[k].player
        BY <1>3, <3>1, <3>2
      <4> QED
        BY <1>1, <4>1 DEF PlayingIn
    <3>3. CASE j # i
      <4>1. j # k
        BY <1>3, <3>1 DEF Empty
      <4>2. s[j] = slots[j]
        BY <1>3, <3>3, <4>1
      <4> QED
        BY <3>1, <4>2 DEF PlayingIn
    <3> QED
      BY <3>2, <3>3
  <2>2. ASSUME NEW p \in PlayingIn(slots) PROVE p \in PlayingIn(s)
    <3>1. PICK j \in Slots : slots[j].status = "playing" /\ p = slots[j].player
      BY DEF PlayingIn
    <3>2. CASE j = k
      <4>1. s[i].status = "playing" /\ p = s[i].player
        BY <1>3, <3>1, <3>2
      <4> QED
        BY <4>1 DEF PlayingIn
    <3>3. CASE j # k
      <4>1. s[j] = slots[j]
        BY <1>2, <1>3, <3>1, <3>3
      <4> QED
        BY <3>1, <4>1 DEF PlayingIn
    <3> QED
      BY <3>2, <3>3
  <2> QED
    BY <2>1, <2>2
<1> QED
  BY <1>6, <1>7, <1>8

-----------------------------------------------------------------------------
(* The verdict: the best row of the slots, as far as they have been looked at. *)
NobodyYet == [player |-> Nobody, score |-> -1]

(* what best[n] is, given those before *)
BestAt(card, b, n) ==
    IF n = 0 THEN NobodyYet
    ELSE IF n - 1 \in DOMAIN card THEN Better(b[n - 1], card[n - 1])
    ELSE b[n - 1]

IsBest(card, N, b) == b = [n \in 0 .. N |-> BestAt(card, b, n)]

(* The loop of Winner comes to a row, of however many slots. *)
LEMMA BestExists ==
    ASSUME NEW card, NEW N \in Nat
    PROVE  \E b : IsBest(card, N, b)
<1> DEFINE B == {n \in Nat : ~ \E b : IsBest(card, n, b)}
<1>1. SUFFICES ASSUME B # {} PROVE FALSE
  OBVIOUS
<1>2. PICK n \in B : \A m \in B : n <= m
  BY <1>1, Least
<1>3. n \in Nat /\ ~ \E b : IsBest(card, n, b)
  OBVIOUS
<1>4. PICK g : n > 0 => IsBest(card, n - 1, g)
  <2>1. n > 0 => n - 1 \in Nat /\ n - 1 \notin B
    BY <1>2, <1>3
  <2> QED
    BY <2>1
<1> HIDE DEF B
<1>5. PICK b : b = [m \in 0 .. n |-> BestAt(card, g, m)]
  OBVIOUS
<1>6. ASSUME NEW m \in 0 .. n
      PROVE  b[m] = BestAt(card, b, m)
  <2>1. CASE m = 0
    BY <1>5, <2>1 DEF BestAt
  <2>2. CASE m > 0
    <3>1. n > 0 /\ m - 1 \in 0 .. n - 1 /\ m - 1 \in 0 .. n
      BY <1>3, <2>2
    <3>2. g[m - 1] = BestAt(card, g, m - 1)
      BY <1>4, <3>1 DEF IsBest
    <3>3. b[m - 1] = g[m - 1]
      BY <1>5, <3>1, <3>2
    <3>4. b[m] = BestAt(card, g, m)
      BY <1>5
    <3> QED
      BY <2>2, <3>3, <3>4, Zenon DEF BestAt
  <2> QED
    BY <1>3, <2>1, <2>2
<1>7. IsBest(card, n, b)
  BY <1>5, <1>6 DEF IsBest
<1> QED
  BY <1>3, <1>7

(* Row n beats those of the slots below m: of equals it has the lowest slot. *)
Beats(card, n, m) ==
    /\ n \in DOMAIN card /\ n < m
    /\ \A k \in DOMAIN card : k < m =>
            \/ card[k].score < card[n].score
            \/ card[k].score = card[n].score /\ k >= n

(* No row below slot m has a score the search would take. *)
NoneYet(card, m) == \A k \in DOMAIN card : k < m => card[k].score < 0

(* Of the first m slots, the row it keeps beats all, if it keeps one. *)
LEMMA BestBeats ==
    ASSUME NEW card, DOMAIN card \subseteq Nat, \A k \in DOMAIN card : card[k].score \in Int,
           NEW N \in Nat, NEW b, IsBest(card, N, b), NEW m \in 0 .. N
    PROVE  \/ b[m] = NobodyYet /\ NoneYet(card, m)
           \/ \E n : /\ Beats(card, n, m) /\ card[n].score >= 0
                     /\ b[m].player = card[n].player /\ b[m].score = card[n].score
<1> DEFINE Good(i) == \/ b[i] = NobodyYet /\ NoneYet(card, i)
                      \/ \E n : /\ Beats(card, n, i) /\ card[n].score >= 0
                                /\ b[i].player = card[n].player /\ b[i].score = card[n].score
           B == {i \in 0 .. N : ~Good(i)}
<1>1. SUFFICES ASSUME B # {} PROVE FALSE
  OBVIOUS
<1>2. PICK i \in B : \A j \in B : i <= j
  <2>1. B \in SUBSET Nat
    OBVIOUS
  <2> QED
    BY <1>1, <2>1, Least
<1>3. i \in 0 .. N /\ ~Good(i)
  OBVIOUS
<1>4. i # 0
  <2>1. b[0] = NobodyYet
    BY DEF IsBest, BestAt
  <2>2. NoneYet(card, 0)
    BY DEF NoneYet
  <2> QED
    BY <1>3, <2>1, <2>2
<1>5. i - 1 \in 0 .. N /\ Good(i - 1)
  BY <1>2, <1>3, <1>4
<1>6. b[i] = BestAt(card, b, i)
  BY <1>3 DEF IsBest
<1>7. CASE i - 1 \notin DOMAIN card
  <2>1. b[i] = b[i - 1]
    BY <1>4, <1>6, <1>7 DEF BestAt
  <2>2. \A k \in DOMAIN card : k < i <=> k < i - 1
    BY <1>3, <1>7
  <2>3. \A n : Beats(card, n, i - 1) => Beats(card, n, i)
    BY <1>3, <2>2 DEF Beats
  <2>4. NoneYet(card, i - 1) => NoneYet(card, i)
    BY <2>2 DEF NoneYet
  <2> QED
    BY <1>3, <1>5, <2>1, <2>3, <2>4
<1>8. CASE i - 1 \in DOMAIN card
  <2>1. b[i] = Better(b[i - 1], card[i - 1])
    BY <1>4, <1>6, <1>8 DEF BestAt
  <2>2. \A k \in DOMAIN card : k < i <=> k < i - 1 \/ k = i - 1
    BY <1>3
  <2>3. card[i - 1].score \in Int
    BY <1>8
  <2>4. CASE b[i - 1] = NobodyYet /\ NoneYet(card, i - 1)
    <3>1. CASE card[i - 1].score >= 0
      <4>1. b[i] = card[i - 1]
        BY <2>1, <2>3, <2>4, <3>1 DEF Better, NobodyYet
      <4>2. Beats(card, i - 1, i)
        BY <1>3, <1>8, <2>2, <2>3, <2>4, <3>1 DEF Beats, NoneYet
      <4> QED
        BY <1>3, <3>1, <4>1, <4>2
    <3>2. CASE ~(card[i - 1].score >= 0)
      <4>1. b[i] = NobodyYet
        BY <2>1, <2>3, <2>4, <3>2 DEF Better, NobodyYet
      <4>2. NoneYet(card, i)
        BY <2>2, <2>3, <2>4, <3>2 DEF NoneYet
      <4> QED
        BY <1>3, <4>1, <4>2
    <3> QED
      BY <3>1, <3>2
  <2>5. ASSUME NEW n, Beats(card, n, i - 1), card[n].score >= 0,
               b[i - 1].player = card[n].player, b[i - 1].score = card[n].score
        PROVE  FALSE
    <3>1. n \in DOMAIN card /\ n < i - 1 /\ card[n].score \in Int
      BY <2>5 DEF Beats
    <3>2. CASE card[i - 1].score > card[n].score
      <4>1. b[i] = card[i - 1]
        BY <2>1, <2>5, <3>2 DEF Better
      <4>2. Beats(card, i - 1, i) /\ card[i - 1].score >= 0
        BY <1>3, <1>8, <2>2, <2>3, <2>5, <3>1, <3>2 DEF Beats
      <4> QED
        BY <1>3, <4>1, <4>2
    <3>3. CASE ~(card[i - 1].score > card[n].score)
      <4>1. b[i] = b[i - 1]
        BY <2>1, <2>5, <3>3 DEF Better
      <4>2. Beats(card, n, i)
        BY <1>3, <1>8, <2>2, <2>3, <2>5, <3>1, <3>3 DEF Beats
      <4> QED
        BY <1>3, <2>5, <4>1, <4>2
    <3> QED
      BY <3>2, <3>3
  <2> QED
    BY <1>5, <2>4, <2>5
<1> QED
  BY <1>7, <1>8

(* The winner has the best row of the room, if one has a score the search *)
(* takes.                                                                 *)
LEMMA WinnerBeats ==
    ASSUME NEW card, DOMAIN card \subseteq Slots,
           \A k \in DOMAIN card : card[k].score \in Int
    PROVE  \/ Winner(card) = Nobody /\ NoneYet(card, NSlots)
           \/ \E n : /\ Beats(card, n, NSlots) /\ card[n].score >= 0
                     /\ Winner(card) = card[n].player
<1>1. NSlots \in Nat /\ DOMAIN card \subseteq Nat
  BY MatchGameAssumption DEF Slots
<1>2. Winner(card) = (CHOOSE b : IsBest(card, NSlots, b))[NSlots].player
  BY Zenon DEF Winner, IsBest, BestAt, NobodyYet
<1>3. PICK b : IsBest(card, NSlots, b) /\ Winner(card) = b[NSlots].player
  BY <1>1, <1>2, BestExists
<1>4. NSlots \in 0 .. NSlots
  BY <1>1
<1>5. \/ b[NSlots] = NobodyYet /\ NoneYet(card, NSlots)
      \/ \E n : /\ Beats(card, n, NSlots) /\ card[n].score >= 0
                /\ b[NSlots].player = card[n].player /\ b[NSlots].score = card[n].score
  BY <1>1, <1>3, <1>4, BestBeats
<1> QED
  BY <1>3, <1>5 DEF NobodyYet

-----------------------------------------------------------------------------
(* what sum[n] is, given those before *)
SumAt(card, team, b, n) ==
    IF n = 0 THEN 0
    ELSE IF n - 1 \in DOMAIN card /\ card[n - 1].team = team
         THEN b[n - 1] + card[n - 1].score
    ELSE b[n - 1]

IsTeamSum(card, team, N, b) == b = [n \in 0 .. N |-> SumAt(card, team, b, n)]

(* The loop of TeamScore comes to a sum. *)
LEMMA TeamSumExists ==
    ASSUME NEW card, NEW team, NEW N \in Nat
    PROVE  \E b : IsTeamSum(card, team, N, b)
<1> DEFINE B == {n \in Nat : ~ \E b : IsTeamSum(card, team, n, b)}
<1>1. SUFFICES ASSUME B # {} PROVE FALSE
  OBVIOUS
<1>2. PICK n \in B : \A m \in B : n <= m
  BY <1>1, Least
<1>3. n \in Nat /\ ~ \E b : IsTeamSum(card, team, n, b)
  OBVIOUS
<1>4. PICK g : n > 0 => IsTeamSum(card, team, n - 1, g)
  <2>1. n > 0 => n - 1 \in Nat /\ n - 1 \notin B
    BY <1>2, <1>3
  <2> QED
    BY <2>1
<1> HIDE DEF B
<1>5. PICK b : b = [m \in 0 .. n |-> SumAt(card, team, g, m)]
  OBVIOUS
<1>6. ASSUME NEW m \in 0 .. n
      PROVE  b[m] = SumAt(card, team, b, m)
  <2>1. CASE m = 0
    BY <1>5, <2>1 DEF SumAt
  <2>2. CASE m > 0
    <3>1. n > 0 /\ m - 1 \in 0 .. n - 1 /\ m - 1 \in 0 .. n
      BY <1>3, <2>2
    <3>2. g[m - 1] = SumAt(card, team, g, m - 1)
      BY <1>4, <3>1 DEF IsTeamSum
    <3>3. b[m - 1] = g[m - 1]
      BY <1>5, <3>1, <3>2
    <3>4. b[m] = SumAt(card, team, g, m)
      BY <1>5
    <3> QED
      BY <2>2, <3>3, <3>4, Zenon DEF SumAt
  <2> QED
    BY <1>3, <2>1, <2>2
<1>7. IsTeamSum(card, team, n, b)
  BY <1>5, <1>6 DEF IsTeamSum
<1> QED
  BY <1>3, <1>7

(* the members of a team among the first n slots *)
Mates(card, team, n) == {k \in DOMAIN card : k < n /\ card[k].team = team}

(* It is the total of the card of the team, whatever their order. *)
LEMMA SumIsTotal ==
    ASSUME NEW card, DOMAIN card \subseteq Nat, NEW team, NEW N \in Nat,
           NEW w, \A k \in DOMAIN card : w[k] \in Int /\ w[k] = card[k].score,
           NEW b, IsTeamSum(card, team, N, b), NEW m \in 0 .. N
    PROVE  b[m] = Total(w, Mates(card, team, m))
<1> DEFINE Good(i) == b[i] = Total(w, Mates(card, team, i))
           B == {i \in 0 .. N : ~Good(i)}
<1>1. SUFFICES ASSUME B # {} PROVE FALSE
  OBVIOUS
<1>2. PICK i \in B : \A j \in B : i <= j
  <2>1. B \in SUBSET Nat
    OBVIOUS
  <2> QED
    BY <1>1, <2>1, Least
<1>3. i \in 0 .. N /\ ~Good(i)
  OBVIOUS
<1>4. i # 0
  <2>1. b[0] = 0
    BY DEF IsTeamSum, SumAt
  <2>2. Mates(card, team, 0) = {}
    BY DEF Mates
  <2>3. IsFiniteSet({})
    BY FS_EmptySet
  <2> QED
    BY <1>3, <2>1, <2>2, <2>3, TotalStep
<1>5. i - 1 \in 0 .. N /\ Good(i - 1)
  BY <1>2, <1>3, <1>4
<1>6. b[i] = SumAt(card, team, b, i)
  BY <1>3 DEF IsTeamSum
<1>7. CASE ~(i - 1 \in DOMAIN card /\ card[i - 1].team = team)
  <2>1. b[i] = b[i - 1]
    BY <1>4, <1>6, <1>7, Zenon DEF SumAt
  <2>2. Mates(card, team, i) = Mates(card, team, i - 1)
    BY <1>3, <1>7 DEF Mates
  <2> QED
    BY <1>3, <1>5, <2>1, <2>2
<1>8. CASE i - 1 \in DOMAIN card /\ card[i - 1].team = team
  <2>1. b[i] = b[i - 1] + w[i - 1]
    BY <1>4, <1>6, <1>8 DEF SumAt
  <2>2. /\ Mates(card, team, i - 1) = Mates(card, team, i) \ {i - 1}
        /\ i - 1 \in Mates(card, team, i)
    BY <1>3, <1>8 DEF Mates
  <2>3. IsFiniteSet(Mates(card, team, i))
    <3>1. Mates(card, team, i) \subseteq 0 .. i
      BY <1>3 DEF Mates
    <3>2. IsFiniteSet(0 .. i)
      BY <1>3, FS_Interval
    <3> QED
      BY <3>1, <3>2, FS_Subset
  <2>4. \A k \in Mates(card, team, i) : w[k] \in Int
    BY DEF Mates
  <2>5. Total(w, Mates(card, team, i)) = w[i - 1] + Total(w, Mates(card, team, i - 1))
    BY <2>2, <2>3, <2>4, TotalWithout
  <2>6. Total(w, Mates(card, team, i - 1)) \in Int
    <3>1. IsFiniteSet(Mates(card, team, i - 1))
      BY <2>2, <2>3, FS_Subset
    <3> QED
      BY <2>2, <2>4, <3>1, TotalInt
  <2> QED
    BY <1>3, <1>5, <1>8, <2>1, <2>5, <2>6
<1> QED
  BY <1>7, <1>8

(* The sum of the property is one in the sense of Sums. *)
LEMMA TeamTotalIsTotal ==
    ASSUME NEW card, NEW team, NEW w, \A k \in DOMAIN card : w[k] = card[k].score,
           IsFiniteSet(DOMAIN card)
    PROVE  TeamTotal(card, team) = Total(w, {k \in DOMAIN card : card[k].team = team})
<1> DEFINE S == {k \in DOMAIN card : card[k].team = team}
           IsSum(g) == g = [s \in SUBSET S |-> IF s = {} THEN 0
                                ELSE card[Chosen(s)].score + g[s \ {Chosen(s)}]]
<1>0. IsFiniteSet(S)
  BY FS_Subset
<1>1. TeamTotal(card, team) = (CHOOSE g : IsSum(g))[S]
  BY Zenon DEF TeamTotal, MapThenSumSet, MapThenFoldSet, Chosen
<1>2. \A g : IsSum(g) <=> IsFold(w, S, g)
  <2>1. \A s \in SUBSET S : s # {} => w[Chosen(s)] = card[Chosen(s)].score
    BY ChosenIn
  <2> QED
    BY <2>1 DEF IsFold
<1>3. PICK g : IsSum(g) /\ TeamTotal(card, team) = g[S]
  <2> HIDE DEF IsSum, S
  <2> QED
    BY <1>0, <1>1, <1>2, FoldExists
<1>4. IsFold(w, S, g)
  BY <1>2, <1>3
<1> QED
  BY <1>0, <1>3, <1>4, FoldIsTotal

(* The loop over the slots gives the sum of the property. *)
LEMMA TeamScoreIsTotal ==
    ASSUME NEW card, DOMAIN card \subseteq Slots,
           \A k \in DOMAIN card : card[k].score \in Int, NEW team
    PROVE  TeamScore(card, team) = TeamTotal(card, team) /\ TeamTotal(card, team) \in Int
<1>1. NSlots \in Nat /\ DOMAIN card \subseteq Nat /\ \A k \in DOMAIN card : k < NSlots
  BY MatchGameAssumption DEF Slots
<1>2. IsFiniteSet(DOMAIN card)
  <2>1. IsFiniteSet(Slots)
    BY <1>1, FS_Interval DEF Slots
  <2> QED
    BY <2>1, FS_Subset
<1>3. PICK w : w = [k \in DOMAIN card |-> card[k].score]
  OBVIOUS
<1>4. TeamScore(card, team) = (CHOOSE b : IsTeamSum(card, team, NSlots, b))[NSlots]
  BY Zenon DEF TeamScore, IsTeamSum, SumAt
<1>5. PICK b : IsTeamSum(card, team, NSlots, b) /\ TeamScore(card, team) = b[NSlots]
  BY <1>1, <1>4, TeamSumExists
<1>6. TeamScore(card, team) = Total(w, Mates(card, team, NSlots))
  <2>1. \A k \in DOMAIN card : w[k] \in Int /\ w[k] = card[k].score
    BY <1>3
  <2> QED
    BY <1>1, <1>5, <2>1, SumIsTotal
<1>7. Mates(card, team, NSlots) = {k \in DOMAIN card : card[k].team = team}
  BY <1>1 DEF Mates
<1>8. TeamTotal(card, team) = Total(w, {k \in DOMAIN card : card[k].team = team})
  BY <1>2, <1>3, TeamTotalIsTotal
<1>9. Total(w, {k \in DOMAIN card : card[k].team = team}) \in Int
  BY <1>2, <1>3, TotalInt, FS_Subset
<1> QED
  BY <1>6, <1>7, <1>8, <1>9

-----------------------------------------------------------------------------
(* What try_finish_match decides, given the card of a room in which nobody *)
(* sits twice.                                                             *)
LEMMA VerdictOf ==
    ASSUME NEW card, DOMAIN card \subseteq Slots,
           \A k \in DOMAIN card : card[k].score \in Int /\ card[k].player # Nobody,
           \A k, n \in DOMAIN card : card[k].player = card[n].player => k = n,
           \A k \in DOMAIN card : card[k].team \in {"neutral", "blue", "red"},
           verdict'.rows = card, verdict'.winner = Winner(card), verdict'.won = Won(card),
           verdict'.teamVs = teamVs
    PROVE  VerdictByScores'
<1>1. WinnerBest'
  <2>1. \A k \in DOMAIN card : k < NSlots
    BY MatchGameAssumption DEF Slots
  <2>2. CASE Winner(card) = Nobody /\ NoneYet(card, NSlots)
    <3>1. \A k \in DOMAIN card : ~(card[k].score >= 0)
      BY <2>1, <2>2 DEF NoneYet
    <3>2. ~teamVs => Won(card) = {}
      BY <2>2 DEF Won
    <3> QED
      BY <2>2, <3>1, <3>2 DEF WinnerBest
  <2>3. ASSUME NEW n, Beats(card, n, NSlots), card[n].score >= 0, Winner(card) = card[n].player
        PROVE  WinnerBest'
    <3>1. n \in DOMAIN card
      BY <2>3 DEF Beats
    <3>2. \A k \in DOMAIN card : \/ card[k].score < card[n].score
                                 \/ card[k].score = card[n].score /\ k >= n
      BY <2>1, <2>3 DEF Beats
    <3>3. ~teamVs => Won(card) = {Winner(card)} \ {Nobody}
      BY <2>3, <3>1 DEF Won
    <3> QED
      BY <2>3, <3>1, <3>2, <3>3 DEF WinnerBest
  <2> QED
    BY <2>2, <2>3, WinnerBeats
<1>2. TeamVerdict'
  <2> SUFFICES ASSUME teamVs, NEW n \in DOMAIN card,
                      NEW other, other = IF card[n].team = "blue" THEN "red" ELSE "blue"
               PROVE  card[n].player \in Won(card) <=>
                        /\ card[n].team # "neutral"
                        /\ TeamTotal(card, card[n].team) > TeamTotal(card, other)
    BY Zenon DEF TeamVerdict
  <2>0. PICK r : r = card[n]
    OBVIOUS
  <2>1. \A team : TeamScore(card, team) = TeamTotal(card, team) /\ TeamTotal(card, team) \in Int
    BY TeamScoreIsTotal
  <2>2. r.player \in Won(card) <=> r.team = WinningTeam(card) /\ WinningTeam(card) # "neutral"
    BY <2>0 DEF Won
  <2>3. CASE r.team = "neutral"
    BY <2>0, <2>2, <2>3
  <2>4. CASE r.team = "blue"
    BY <2>0, <2>1, <2>2, <2>4 DEF WinningTeam
  <2>5. CASE r.team = "red"
    BY <2>0, <2>1, <2>2, <2>5 DEF WinningTeam
  <2> QED
    BY <2>0, <2>3, <2>4, <2>5
<1> QED
  BY <1>1, <1>2 DEF VerdictByScores

-----------------------------------------------------------------------------
(* The game goes on, with the same players or fewer of them, or ends. *)

(* A step that decides nothing. *)
LEMMA NoVerdict == ASSUME verdict'.game = 0 PROVE VerdictByScores'
BY DEF VerdictByScores, WinnerBest, TeamVerdict

LEMMA GoesOn ==
    ASSUME GameInv, SeatsOK(slots'), TakenIn(slots') # {},
           UNCHANGED <<inProgress, flying, frames, loaded, told, late, game>>, Quiet,
           PlayingIn(slots') \subseteq PlayingIn(slots),
           ~thinned' => ~thinned /\ PlayingIn(slots') = PlayingIn(slots)
    PROVE  GameInv'
<1>1. TakenIn(slots)' = TakenIn(slots') /\ PlayingIn(slots)' = PlayingIn(slots')
  BY DEF TakenIn, PlayingIn
<1>2. SeatsOK(slots)' /\ NoGhost' /\ KnownPlayers' /\ ThisGame'
  BY <1>1 DEF GameInv, SeatsOK, NoGhost, KnownPlayers, ThisGame, Counts
<1>3. ScoresOfThisGame'
  BY DEF Quiet, None, ScoresOfThisGame
<1>4. ToldWhenLoaded'
  BY <1>1 DEF GameInv, AllLoadedTold, ToldWhenLoaded
<1>5. LoadedAreTold'
  BY <1>1 DEF GameInv, AllLoadedTold, LoadedAreTold
<1>6. FramesScored'
  BY DEF GameInv, FramesScored
<1>7. VerdictByScores'
  <2>1. verdict'.game = 0
    BY DEF Quiet, None
  <2> QED
    BY <2>1, NoVerdict
<1> QED
  BY <1>2, <1>3, <1>4, <1>5, <1>6, <1>7 DEF GameInv, AllLoadedTold

LEMMA Tries ==
    ASSUME GameInv, NEW s, SeatsOK(s), TakenIn(s) # {}, TryFinish(s), UNCHANGED <<flying, game>>,
           PlayingIn(s) \subseteq PlayingIn(slots),
           ~thinned' => ~thinned /\ PlayingIn(s) = PlayingIn(slots)
    PROVE  GameInv'
<1>1. CASE ~GameOver(s)
  <2>1. slots' = s /\ UNCHANGED <<inProgress, frames, loaded, told, late>> /\ Quiet
    BY <1>1 DEF TryFinish
  <2> QED
    BY <2>1, GoesOn
<1>2. CASE GameOver(s) /\ Finish(s)
  <2>1. /\ slots' = Concluded(s) /\ inProgress' = FALSE /\ frames' = << >> /\ loaded' = << >>
        /\ verdict'.game = game /\ verdict'.frames = frames /\ verdict'.late = late /\ inProgress
    BY <1>2 DEF Finish, GameOver
  <2>2. SeatsOK(slots')
    <3>1. Concluded(s) \in [Slots -> Slot]
      BY DEF Concluded, SeatsOK, Slot, HasPlayer
    <3>2. \A i \in Slots : /\ Concluded(s)[i].player = s[i].player
                           /\ Concluded(s)[i].status = "open" <=> s[i].status = "open"
                           /\ Concluded(s)[i].team = s[i].team
      BY DEF Concluded, SeatsOK, Slot, TakenIn, HasPlayer
    <3> QED
      BY <2>1, <3>1, <3>2, Restated
  <2>3. ScoresOfThisGame'
    BY <2>1 DEF ScoresOfThisGame, GameInv, ThisGame, Counts
  <2>4. DOMAIN frames' = {} /\ DOMAIN loaded' = {}
    BY <2>1
  <2>5. NoGhost' /\ KnownPlayers' /\ ThisGame' /\ AllLoadedTold'
    BY <2>1, <2>4 DEF GameInv, NoGhost, KnownPlayers, ThisGame, AllLoadedTold, ToldWhenLoaded, LoadedAreTold
  <2>6. FramesScored'
    BY <2>4 DEF GameInv, FramesScored
  <2>7. VerdictByScores'
    <3>1. SeatsOK(s) /\ TakenIn(s) # {}
      OBVIOUS
    <3>2. PICK card : card = RowsOf(s)
      OBVIOUS
    <3>3. /\ verdict'.rows = card /\ verdict'.winner = Winner(card)
          /\ verdict'.won = Won(card) /\ verdict'.teamVs = teamVs
      BY <1>2, <3>2 DEF Finish
    <3>4. /\ DOMAIN card = TakenIn(s) /\ TakenIn(s) \subseteq Slots
          /\ \A k \in TakenIn(s) : card[k] = Row(s[k].player, s[k].team)
      BY <3>2 DEF RowsOf, TakenIn
    <3>5. \A k \in TakenIn(s) : /\ card[k].player = s[k].player
                               /\ card[k].team = s[k].team
                               /\ card[k].score \in Int
      BY <3>4 DEF Row, GameInv, FramesScored
    <3>6. /\ \A k \in TakenIn(s) : card[k].player # Nobody
          /\ \A k, n \in TakenIn(s) : card[k].player = card[n].player => k = n
      <4>1. \A k \in TakenIn(s) : s[k].player # Nobody
        BY <3>1 DEF SeatsOK, TakenIn, HasPlayer
      <4> QED
        BY <3>1, <3>4, <3>5, <4>1 DEF SeatsOK
    <3>7. \A k \in TakenIn(s) : card[k].team \in {"neutral", "blue", "red"}
      BY <3>1, <3>4, <3>5 DEF SeatsOK, Slot
    <3> QED
      BY <3>1, <3>3, <3>4, <3>5, <3>6, <3>7, VerdictOf
  <2> QED
    BY <2>2, <2>3, <2>5, <2>6, <2>7 DEF GameInv, SeatsOK
<1> QED
  BY <1>1, <1>2 DEF TryFinish

LEMMA Leaves ==
    ASSUME GameInv, NEW u \in Players, Leave(u)
    PROVE  GameInv'
<1> DEFINE s == [slots EXCEPT ![SlotOf(u)] = Empty]
<1>1. In(u) /\ slots' = s /\ UNCHANGED <<flying, game>> /\ Quiet
  BY DEF Leave
<1>2. SeatsOK(s) /\ PlayingIn(s) = PlayingIn(slots) \ {u}
  BY <1>1, SeatLeft DEF GameInv
<1>3. CASE TakenIn(slots') = {}
  <2>1. inProgress' = FALSE /\ frames' = << >> /\ loaded' = << >> /\ verdict' = None
    BY <1>1, <1>3 DEF Leave, Quiet
  <2>2. DOMAIN frames' = {} /\ DOMAIN loaded' = {} /\ verdict'.game = 0
    BY <2>1 DEF None
  <2>3. SeatsOK(slots)'
    BY <1>1, <1>2 DEF SeatsOK
  <2>4. NoGhost' /\ KnownPlayers' /\ ThisGame' /\ FramesScored' /\ ScoresOfThisGame'
    BY <1>1, <2>1, <2>2 DEF GameInv, NoGhost, KnownPlayers, ThisGame, FramesScored, ScoresOfThisGame
  <2>5. AllLoadedTold'
    BY <2>1 DEF AllLoadedTold, ToldWhenLoaded, LoadedAreTold
  <2> QED
    BY <2>2, <2>3, <2>4, <2>5, NoVerdict DEF GameInv
<1>4. CASE TakenIn(slots') # {}
  <2>1. /\ thinned' = (thinned \/ u \in PlayingIn(slots))
        /\ UNCHANGED <<inProgress, frames, loaded, told, late>>
    BY <1>4 DEF Leave
  <2>2. PlayingIn(slots') = PlayingIn(slots) \ {u}
    BY <1>1, <1>2 DEF PlayingIn
  <2>3. ~thinned' => ~thinned /\ PlayingIn(slots') = PlayingIn(slots)
    BY <2>1, <2>2
  <2> QED
    BY <1>1, <1>2, <1>4, <2>1, <2>2, <2>3, GoesOn
<1> QED
  BY <1>3, <1>4

-----------------------------------------------------------------------------
(* The steps *)

LEMMA GameInit == Init => GameInv
<1> SUFFICES ASSUME Init PROVE GameInv
  OBVIOUS
<1>1. SeatsOK(slots)
  BY DEF Init, SeatsOK, Slot, Empty
<1>2. /\ DOMAIN flying = {} /\ DOMAIN frames = {} /\ DOMAIN loaded = {}
      /\ ~inProgress /\ verdict.game = 0
  BY DEF Init, None
<1>3. NoGhost /\ KnownPlayers /\ ThisGame /\ ScoresOfThisGame /\ AllLoadedTold
  BY <1>2 DEF Init, NoGhost, KnownPlayers, ThisGame, ScoresOfThisGame, AllLoadedTold,
              ToldWhenLoaded, LoadedAreTold
<1>4. FramesScored /\ VerdictByScores
  BY <1>2 DEF FramesScored, VerdictByScores, WinnerBest, TeamVerdict
<1> QED
  BY <1>1, <1>3, <1>4 DEF GameInv

LEMMA SeatingStep ==
    ASSUME GameInv, NEW u \in Players, Seating(u)
    PROVE  GameInv'
<1>1. SeatsOK(slots)
  BY DEF GameInv
<1>2. ASSUME In(u)
      PROVE  TakenIn(slots) # {}
  BY <1>1, <1>2, SeatOf
<1>3. ASSUME NEW i \in Slots, i \notin TakenIn(slots), ~In(u),
             slots' = [slots EXCEPT ![i].status = "notReady", ![i].player = u],
             UNCHANGED <<play, flying, game>>, Quiet
      PROVE  GameInv'
  <2>1. SeatsOK(slots') /\ i \in TakenIn(slots') /\ PlayingIn(slots') = PlayingIn(slots)
    BY <1>1, <1>3, SeatTaken
  <2> QED
    BY <1>3, <2>1, GoesOn DEF play
<1>4. ASSUME Create(u)
      PROVE  GameInv'
  <2>1. 0 \in Slots /\ 0 \notin TakenIn(slots)
    BY <1>4, MatchGameAssumption DEF Create, Slots
  <2>2. ~In(u)
    BY <1>2, <1>4 DEF Create
  <2> QED
    BY <1>3, <1>4, <2>1, <2>2 DEF Create
<1>5. ASSUME Join(u)
      PROVE  GameInv'
  BY <1>3, <1>5 DEF Join
<1>6. ASSUME Part(u)
      PROVE  GameInv'
  <2>1. CASE TakenIn(slots) = {SlotOf(u)} /\ Leave(u)
    BY <2>1, Leaves
  <2>2. CASE TakenIn(slots) # {SlotOf(u)}
    <3> DEFINE s == [slots EXCEPT ![SlotOf(u)] = Empty]
    <3>1. /\ In(u) /\ TryFinish(s) /\ UNCHANGED <<flying, game>>
          /\ thinned' = (thinned \/ u \in PlayingIn(slots))
      BY <1>6, <2>2 DEF Part
    <3>2. /\ SeatsOK(s) /\ TakenIn(s) = TakenIn(slots) \ {SlotOf(u)}
          /\ PlayingIn(s) = PlayingIn(slots) \ {u} /\ SlotOf(u) \in TakenIn(slots)
      BY <1>1, <3>1, SeatLeft, SeatOf
    <3>3. TakenIn(s) # {}
      BY <2>2, <3>2
    <3>4. ~thinned' => ~thinned /\ PlayingIn(s) = PlayingIn(slots)
      BY <3>1, <3>2
    <3> QED
      BY <3>1, <3>2, <3>3, <3>4, Tries
  <2> QED
    BY <1>6, <2>1, <2>2 DEF Part
<1>7. ASSUME Vanish(u)
      PROVE  GameInv'
  BY <1>7, Leaves DEF Vanish
<1>8. ASSUME NEW status \in HasPlayer \ {"playing"}, SetStatus(u, status)
      PROVE  GameInv'
  <2>1. /\ In(u) /\ slots' = [slots EXCEPT ![SlotOf(u)].status = status]
        /\ thinned' = (thinned \/ u \in PlayingIn(slots))
        /\ UNCHANGED <<inProgress, flying, frames, loaded, told, late, game>> /\ Quiet
    BY <1>8 DEF SetStatus
  <2>2. /\ SeatsOK(slots') /\ TakenIn(slots') = TakenIn(slots)
        /\ PlayingIn(slots') \subseteq PlayingIn(slots)
        /\ u \notin PlayingIn(slots) => PlayingIn(slots') = PlayingIn(slots)
    BY <1>1, <1>8, <2>1, SeatRestated
  <2> QED
    BY <1>2, <2>1, <2>2, GoesOn
<1>9. ASSUME Ready(u) \/ NotReady(u) \/ NoBeatmap(u)
      PROVE  GameInv'
  BY <1>8, <1>9 DEF Ready, NotReady, NoBeatmap, HasPlayer
<1>10. ASSUME ChangeTeam(u)
       PROVE  GameInv'
  <2> DEFINE s == [slots EXCEPT ![SlotOf(u)].team = IF @ = "blue" THEN "red" ELSE "blue"]
  <2>1. In(u) /\ TryFinish(s) /\ UNCHANGED <<flying, game, thinned>>
    BY <1>10 DEF ChangeTeam
  <2>2. SlotOf(u) \in Slots /\ slots[SlotOf(u)].status \in HasPlayer
    BY <1>1, <2>1, SeatOf DEF TakenIn
  <2>3. s \in [Slots -> Slot]
    BY <1>1, <2>2 DEF SeatsOK, Slot
  <2>4. \A i \in Slots : s[i].player = slots[i].player /\ s[i].status = slots[i].status
    BY <1>1, <2>2 DEF SeatsOK, Slot
  <2>5. \A i \in Slots : s[i].status = "open" => s[i].team = slots[i].team
    BY <1>1, <2>2 DEF SeatsOK, Slot, HasPlayer
  <2>6. SeatsOK(s) /\ TakenIn(s) = TakenIn(slots)
    <3> HIDE DEF s
    <3> QED
      BY <1>1, <2>3, <2>4, <2>5, Restated
  <2>7. PlayingIn(s) = PlayingIn(slots)
    BY <2>4 DEF PlayingIn
  <2> QED
    BY <1>2, <2>1, <2>6, <2>7, Tries
<1>11. ASSUME ChangeSettings(u)
       PROVE  GameInv'
  <2>1. /\ In(u) /\ UNCHANGED <<play, flying, game>> /\ Quiet
        /\ slots' = [i \in Slots |->
                        IF slots[i].status = "ready" /\ slots[i].player # u
                        THEN [slots[i] EXCEPT !.status = "notReady"] ELSE slots[i]]
    BY <1>11 DEF ChangeSettings
  <2>2. slots' \in [Slots -> Slot]
    BY <1>1, <2>1 DEF SeatsOK, Slot, HasPlayer
  <2>3. \A i \in Slots : /\ slots'[i].player = slots[i].player
                         /\ slots'[i].status = "open" <=> slots[i].status = "open"
                         /\ slots'[i].status = "playing" <=> slots[i].status = "playing"
                         /\ slots'[i].team = slots[i].team
    BY <1>1, <2>1 DEF SeatsOK, Slot
  <2>4. SeatsOK(slots') /\ TakenIn(slots') = TakenIn(slots)
    BY <1>1, <2>2, <2>3, Restated
  <2>5. PlayingIn(slots') = PlayingIn(slots)
    BY <2>3 DEF PlayingIn
  <2> QED
    BY <1>2, <2>1, <2>4, <2>5, GoesOn DEF play
<1>12. ASSUME NEW i \in Slots, ChangeSlot(u, i)
       PROVE  GameInv'
  <2>1. /\ In(u) /\ i \notin TakenIn(slots) /\ UNCHANGED <<play, flying, game>> /\ Quiet
        /\ slots' = [slots EXCEPT ![SlotOf(u)] = Empty, ![i] = slots[SlotOf(u)]]
    BY <1>12 DEF ChangeSlot
  <2>2. SeatsOK(slots') /\ TakenIn(slots') # {} /\ PlayingIn(slots') = PlayingIn(slots)
    BY <1>1, <2>1, SeatMoved
  <2> QED
    BY <2>1, <2>2, GoesOn DEF play
<1> QED
  BY <1>4, <1>5, <1>6, <1>7, <1>9, <1>10, <1>11, <1>12 DEF Seating

LEMMA PlayingStep ==
    ASSUME GameInv, NEW u \in Players, Playing(u)
    PROVE  GameInv'
<1>1. SeatsOK(slots)
  BY DEF GameInv
<1>2. ASSUME In(u)
      PROVE  TakenIn(slots) # {}
  BY <1>1, <1>2, SeatOf
<1>4. ASSUME Start(u)
      PROVE  GameInv'
  <2>1. /\ slots' = Started /\ inProgress' = TRUE /\ told' = FALSE
        /\ frames' = << >> /\ loaded' = << >> /\ late' = flying /\ flying' = flying
        /\ verdict' = None /\ TakenIn(slots) # {}
    BY <1>2, <1>4 DEF Start, Quiet
  <2>2. DOMAIN frames' = {} /\ DOMAIN loaded' = {} /\ verdict'.game = 0
    BY <2>1 DEF None
  <2>3. slots' \in [Slots -> Slot]
    BY <1>1, <2>1 DEF Started, SeatsOK, Slot, HasPlayer
  <2>4. \A i \in Slots : /\ slots'[i].player = slots[i].player
                         /\ slots'[i].status = "open" <=> slots[i].status = "open"
                         /\ slots'[i].team = slots[i].team
    BY <1>1, <2>1 DEF Started, SeatsOK, Slot
  <2>5. SeatsOK(slots') /\ TakenIn(slots') = TakenIn(slots)
    BY <1>1, <2>3, <2>4, Restated
  <2>6. TakenIn(slots') # {}
    BY <2>1, <2>5 DEF TakenIn
  <2>7. SeatsOK(slots)' /\ NoGhost'
    BY <2>5, <2>6 DEF SeatsOK, NoGhost, TakenIn
  <2>8. KnownPlayers' /\ ThisGame' /\ FramesScored' /\ ScoresOfThisGame'
    BY <2>1, <2>2 DEF GameInv, KnownPlayers, ThisGame, Counts, FramesScored, ScoresOfThisGame
  <2>9. AllLoadedTold'
    <3>1. PlayingIn(slots)' # {} => ~(PlayingIn(slots)' \subseteq DOMAIN loaded')
      BY <2>2
    <3> QED
      BY <2>1, <3>1 DEF AllLoadedTold, ToldWhenLoaded, LoadedAreTold
  <2> QED
    BY <2>2, <2>7, <2>8, <2>9, NoVerdict DEF GameInv
<1>5. ASSUME LoadComplete(u)
      PROVE  GameInv'
  <2>1. /\ loaded' = Put(loaded, u, game) /\ told' = (told \/ AllLoaded(loaded'))
        /\ UNCHANGED <<slots, inProgress, flying, frames, late, thinned, game>> /\ verdict' = None
        /\ TakenIn(slots) # {}
    BY <1>2, <1>5 DEF LoadComplete, seats, Quiet
  <2>2. /\ DOMAIN loaded' = DOMAIN loaded \cup {u}
        /\ \A p \in DOMAIN loaded' : loaded'[p] = game \/ (p \in DOMAIN loaded /\ loaded'[p] = loaded[p])
    BY <2>1 DEF Put
  <2>3. SeatsOK(slots') /\ TakenIn(slots') # {} /\ PlayingIn(slots') = PlayingIn(slots)
    BY <1>1, <2>1 DEF TakenIn, PlayingIn
  <2>4. NoGhost' /\ KnownPlayers' /\ ThisGame'
    BY <2>1, <2>2, <2>3 DEF GameInv, NoGhost, KnownPlayers, ThisGame, Counts
  <2>5. ScoresOfThisGame'
    BY <2>1 DEF ScoresOfThisGame, None
  <2>6. ToldWhenLoaded'
    <3>1. inProgress => \A p \in DOMAIN loaded' : loaded'[p] = game
      BY <2>2 DEF GameInv, ThisGame
    <3> QED
      BY <2>1, <2>2, <2>3, <3>1 DEF GameInv, AllLoadedTold, ToldWhenLoaded, AllLoaded
  <2>7. LoadedAreTold'
    BY <2>1, <2>3 DEF LoadedAreTold, AllLoaded
  <2>8. FramesScored' /\ VerdictByScores'
    <3>1. verdict'.game = 0
      BY <2>1 DEF None
    <3> QED
      BY <2>1, <3>1, NoVerdict DEF GameInv, FramesScored
  <2> QED
    BY <2>3, <2>4, <2>5, <2>6, <2>7, <2>8 DEF GameInv, AllLoadedTold, SeatsOK
<1>6. ASSUME NEW score \in Scores, SendFrame(u, score)
      PROVE  GameInv'
  <2> DEFINE frame == [score |-> score, game |-> IF inProgress THEN game ELSE 0]
  <2>1. /\ flying' = Put(flying, u, frame) /\ u \notin DOMAIN flying
        /\ UNCHANGED <<slots, inProgress, frames, loaded, told, late, thinned, game>>
        /\ verdict' = None
    BY <1>6 DEF SendFrame, seats, play, Quiet
  <2>2. /\ DOMAIN flying' = DOMAIN flying \cup {u} /\ flying'[u] = frame
        /\ \A p \in DOMAIN flying : flying'[p] = flying[p]
    BY <2>1 DEF Put
  <2>3. SeatsOK(slots)' /\ NoGhost' /\ AllLoadedTold'
    BY <2>1 DEF GameInv, SeatsOK, NoGhost, TakenIn, PlayingIn, AllLoadedTold, ToldWhenLoaded,
                LoadedAreTold
  <2>4. KnownPlayers'
    BY <2>1, <2>2 DEF GameInv, KnownPlayers
  <2>5. ThisGame'
    BY <2>1, <2>2 DEF GameInv, ThisGame, Counts
  <2>6. FramesScored'
    <3>1. frame.score \in Int
      BY MatchGameAssumption
    <3> QED
      BY <2>1, <2>2, <3>1 DEF GameInv, FramesScored
  <2>7. verdict'.game = 0
    BY <2>1 DEF None
  <2> QED
    BY <2>3, <2>4, <2>5, <2>6, <2>7, NoVerdict DEF GameInv, ScoresOfThisGame
<1>8. ASSUME ScoreUpdate(u)
      PROVE  GameInv'
  <2>1. /\ flying' = Without(flying, {u}) /\ u \in DOMAIN flying
        /\ frames' = IF In(u) THEN Put(frames, u, flying[u]) ELSE frames
        /\ UNCHANGED <<slots, inProgress, loaded, told, late, thinned, game>> /\ verdict' = None
    BY <1>8 DEF ScoreUpdate, seats, Quiet
  <2>2. /\ DOMAIN flying' = DOMAIN flying \ {u}
        /\ \A p \in DOMAIN flying' : flying'[p] = flying[p]
    BY <2>1 DEF Without, Restrict
  <2>3. /\ DOMAIN frames' \subseteq DOMAIN frames \cup {u}
        /\ \A p \in DOMAIN frames' : \/ p = u /\ frames'[p] = flying[u]
                                     \/ p \in DOMAIN frames /\ frames'[p] = frames[p]
    BY <2>1 DEF Put
  <2>4. SeatsOK(slots)' /\ AllLoadedTold'
    BY <2>1 DEF GameInv, SeatsOK, PlayingIn, AllLoadedTold, ToldWhenLoaded, LoadedAreTold
  <2>5. NoGhost'
    BY <1>2, <2>1 DEF GameInv, NoGhost, TakenIn
  <2>6. KnownPlayers'
    BY <2>1, <2>2, <2>3 DEF GameInv, KnownPlayers
  <2>7. ThisGame'
    BY <2>1, <2>2, <2>3 DEF GameInv, ThisGame, Counts
  <2>8. FramesScored'
    BY <2>1, <2>2, <2>3 DEF GameInv, FramesScored
  <2>9. verdict'.game = 0
    BY <2>1 DEF None
  <2> QED
    BY <2>4, <2>5, <2>6, <2>7, <2>8, <2>9, NoVerdict DEF GameInv, ScoresOfThisGame
<1>7. ASSUME Complete(u)
      PROVE  GameInv'
  <2> DEFINE s == [slots EXCEPT ![SlotOf(u)].status = "complete"]
  <2>1. In(u) /\ TryFinish(s) /\ UNCHANGED <<flying, game>> /\ thinned' = (thinned \/ u \in PlayingIn(slots))
    BY <1>7 DEF Complete
  <2>a. s = [slots EXCEPT ![SlotOf(u)].status = "complete"]
    OBVIOUS
  <2> HIDE DEF s
  <2>2. "complete" \in HasPlayer \ {"playing"}
    BY DEF HasPlayer
  <2>3. /\ SeatsOK(s) /\ TakenIn(s) = TakenIn(slots)
        /\ PlayingIn(s) \subseteq PlayingIn(slots)
        /\ u \notin PlayingIn(slots) => PlayingIn(s) = PlayingIn(slots)
    BY <1>1, <2>1, <2>a, <2>2, SeatRestated
  <2>4. ~thinned' => ~thinned /\ PlayingIn(s) = PlayingIn(slots)
    BY <2>1, <2>3
  <2> QED
    BY <1>2, <2>1, <2>3, <2>4, Tries
<1> QED
  BY <1>4, <1>5, <1>6, <1>7, <1>8 DEF Playing

LEMMA GameStep == GameInv /\ [Next]_vars => GameInv'
<1> SUFFICES ASSUME GameInv, [Next]_vars PROVE GameInv'
  OBVIOUS
<1>1. ASSUME NEW u \in Players, Seating(u) \/ Playing(u)
      PROVE  GameInv'
  BY <1>1, SeatingStep, PlayingStep
<1>2. ASSUME UNCHANGED vars
      PROVE  GameInv'
  <2>1. UNCHANGED <<slots, inProgress, flying, frames, loaded, told, late, game, thinned, verdict>>
    BY <1>2 DEF vars, seats, play
  <2>2. TakenIn(slots') = TakenIn(slots) /\ PlayingIn(slots') = PlayingIn(slots)
    BY <2>1 DEF TakenIn, PlayingIn
  <2>3. VerdictByScores'
    <3>1. verdict' = verdict
      BY <2>1
    <3>2. WinnerBest' /\ TeamVerdict'
      BY <3>1 DEF GameInv, VerdictByScores, WinnerBest, TeamVerdict
    <3> QED
      BY <3>2 DEF VerdictByScores
  <2> QED
    BY <2>1, <2>2, <2>3
       DEF GameInv, SeatsOK, NoGhost, KnownPlayers, ThisGame, Counts, ScoresOfThisGame, AllLoadedTold,
           ToldWhenLoaded, LoadedAreTold, FramesScored
<1> QED
  BY <1>1, <1>2 DEF Next

(* Nobody sits in two slots, statuses and players go together, and a room  *)
(* without players has no game, no frames and no loads.                    *)
THEOREM GameTyped == Spec => []GameTypeOK
<1>1. GameInv => GameTypeOK
  BY DEF GameInv, GameTypeOK, SeatsOK, NoGhost, KnownPlayers
<1> QED
  BY <1>1, GameInit, GameStep, PTL DEF Spec

(* A frame that counts was sent in its game, but for at most one of each   *)
(* player: the one that was under way when the game began.                 *)
THEOREM FramesOfTheirGame == Spec => []ScoresOfThisGame
<1>1. GameInv => ScoresOfThisGame
  BY DEF GameInv
<1> QED
  BY <1>1, GameInit, GameStep, PTL DEF Spec

(* Whatever the frames claim: the winner of a game has the best score, of  *)
(* equals in the lowest slot, and has won alone, unless all scores are     *)
(* negative, when nobody wins; of teams, those of the one with the larger  *)
(* total, and nobody in a draw.                                            *)
THEOREM VerdictsByScores == Spec => []VerdictByScores
<1>1. GameInv => VerdictByScores
  BY DEF GameInv
<1> QED
  BY <1>1, GameInit, GameStep, PTL DEF Spec

(* The players are told that all have loaded when it is so, and are told   *)
(* so as long as nobody leaves the game.                                   *)
THEOREM LoadsAnnounced == Spec => []AllLoadedTold
<1>1. GameInv => AllLoadedTold
  BY DEF GameInv
<1> QED
  BY <1>1, GameInit, GameStep, PTL DEF Spec

-----------------------------------------------------------------------------
(* Saving results: MatchSaves *)

Results == Seq(Scorers)

Kept == [game : Games, rows : Results]

(* A task is the only one of its game, and the match it fills has the rows *)
(* it has inserted, with those it has left to follow.                      *)
TaskOK(t) ==
    /\ t \in [game : Games, id : DOMAIN table \cup {0}, left : Results]
    /\ rowsOf[t.game] # << >> /\ ended[t.game] = "no"
    /\ t.id = 0 => /\ t.left = rowsOf[t.game]
                   /\ \A id \in DOMAIN table : table[id].game # t.game
    /\ t.id # 0 => /\ table[t.id].game = t.game
                   /\ table[t.id].rows \o t.left = rowsOf[t.game]

SavesInv ==
    /\ rowsOf \in [Games -> Results]
    /\ table \in Seq(Kept)
    /\ ended \in [Games -> {"no", "saved", "failed"}]
    /\ \A t \in saving : TaskOK(t)
    /\ \A t, u \in saving : t.game = u.game => t = u
    /\ \A id \in DOMAIN table : rowsOf[table[id].game] # << >>
    /\ \A g \in Games : rowsOf[g] = << >> => ended[g] = "no"
    /\ RowsOfTheirMatch /\ SavedWhole

(* What comes first of two sequences is a prefix of both in a row. *)
LEMMA PrefixOfConcat ==
    ASSUME NEW S, NEW s \in Seq(S), NEW t \in Seq(S)
    PROVE  IsPrefix(s, s \o t)
<1>1. Len(s \o t) = Len(s) + Len(t) /\ Len(s) \in Nat /\ Len(t) \in Nat
  BY ConcatProperties, LenProperties
<1>2. SubSeq(s \o t, 1, Len(s)) = SubSeq(s, 1, Len(s))
  BY SubSeqOfConcat1
<1> QED
  BY <1>1, <1>2 DEF IsPrefix

(* One more row from those that are left. *)
LEMMA OneMore ==
    ASSUME NEW S, NEW s \in Seq(S), NEW t \in Seq(S), t # << >>
    PROVE  /\ Append(s, Head(t)) \in Seq(S) /\ Tail(t) \in Seq(S)
           /\ Append(s, Head(t)) \o Tail(t) = s \o t
OBVIOUS

(* No game has ended.                                                     *)
LEMMA SavesFirst == SavesInit => SavesInv
BY DEF SavesInit, SavesInv, Results, TaskOK, RowsOfTheirMatch, SavedWhole

(* A match of the table has a game and rows.                               *)
LEMMA KeptRow ==
    ASSUME SavesInv, NEW id \in DOMAIN table
    PROVE  /\ table[id] \in Kept /\ table[id].game \in Games /\ table[id].rows \in Results
           /\ rowsOf[table[id].game] # << >>
<1>1. table \in Seq(Kept)
  BY DEF SavesInv, Kept
<1>2. table[id] \in Kept
  BY <1>1, ElementOfSeq
<1> QED
  BY <1>2 DEF Kept, SavesInv

(* Rows of scorers in some order are a result, with a row at least.        *)
LEMMA RowsInOrder ==
    ASSUME NEW S \in SUBSET Scorers, S # {}, NEW r \in SetToSeqs(S)
    PROVE  r \in Results /\ r # << >>
<1>1. IsFiniteSet(S)
  BY MatchSavesAssumption, FS_Subset
<1>2. Cardinality(S) \in Nat /\ Cardinality(S) # 0
  BY <1>1, FS_CardinalityType, FS_EmptySet
<1>3. r \in [1 .. Cardinality(S) -> S]
  BY DEF SetToSeqs
<1>4. r \in Seq(S) /\ Len(r) = Cardinality(S)
  BY <1>2, <1>3
<1> QED
  BY <1>2, <1>4, SeqMonotonic DEF Results

(* A step of any task, or the end of a game.                               *)
LEMMA SavesStep == SavesInv /\ [SavesNext]_saveVars => SavesInv'
<1> SUFFICES ASSUME SavesInv, [SavesNext]_saveVars PROVE SavesInv'
  OBVIOUS
<1>1. ASSUME NEW g \in Games, EndGame(g)
      PROVE  SavesInv'
  <2> PICK S \in (SUBSET Scorers) \ {{}} : \E r \in SetToSeqs(S) :
            /\ rowsOf' = [rowsOf EXCEPT ![g] = r]
            /\ saving' = saving \cup {[game |-> g, id |-> 0, left |-> r]}
    BY <1>1 DEF EndGame
  <2>1. PICK r \in SetToSeqs(S) :
            /\ rowsOf' = [rowsOf EXCEPT ![g] = r]
            /\ saving' = saving \cup {[game |-> g, id |-> 0, left |-> r]}
    OBVIOUS
  <2>2. r \in Results /\ r # << >>
    <3>1. S \in SUBSET Scorers /\ S # {}
      OBVIOUS
    <3> QED
      BY <3>1, RowsInOrder
  <2>3. rowsOf[g] = << >> /\ UNCHANGED <<ended, table>>
    BY <1>1 DEF EndGame
  <2>4. /\ rowsOf' \in [Games -> Results] /\ rowsOf'[g] = r
        /\ \A h \in Games \ {g} : rowsOf'[h] = rowsOf[h]
    BY <2>1, <2>2 DEF SavesInv
  <2>5. ASSUME NEW id \in DOMAIN table
        PROVE  table[id].game \in Games \ {g} /\ rowsOf'[table[id].game] = rowsOf[table[id].game]
    <3>1. table[id].game \in Games /\ rowsOf[table[id].game] # << >>
      BY KeptRow
    <3> QED
      BY <2>3, <2>4, <3>1
  <2>6. ASSUME NEW t \in saving
        PROVE  TaskOK(t)' /\ t.game # g
    <3>1. TaskOK(t)
      BY DEF SavesInv
    <3>2. t.game \in Games \ {g} /\ rowsOf'[t.game] = rowsOf[t.game]
      BY <2>3, <2>4, <3>1 DEF TaskOK
    <3> QED
      BY <2>3, <3>1, <3>2 DEF TaskOK
  <2>7. TaskOK([game |-> g, id |-> 0, left |-> r])'
    BY <2>2, <2>3, <2>4, <2>5 DEF TaskOK, SavesInv
  <2>8. RowsOfTheirMatch'
    BY <2>3, <2>5 DEF SavesInv, RowsOfTheirMatch
  <2>9. SavedWhole'
    <3>1. \A h \in Games : ended[h] = "saved" => h # g
      BY <2>3 DEF SavesInv
    <3> QED
      BY <2>3, <2>4, <3>1 DEF SavesInv, SavedWhole
  <2>10. \A t, u \in saving' : t.game = u.game => t = u
    BY <2>1, <2>6 DEF SavesInv
  <2>11. \A h \in Games : rowsOf'[h] = << >> => ended'[h] = "no"
    BY <2>3, <2>4 DEF SavesInv
  <2> QED
    BY <2>1, <2>3, <2>4, <2>5, <2>6, <2>7, <2>8, <2>9, <2>10, <2>11 DEF SavesInv
<1>2. ASSUME NEW t \in saving, InsertMatch(t)
      PROVE  SavesInv'
  <2>1. PICK m : m = [game |-> t.game, rows |-> << >>]
    OBVIOUS
  <2>2. TaskOK(t) /\ t.id = 0 /\ table \in Seq(Kept)
    BY <1>2 DEF SavesInv, InsertMatch
  <2>3. m \in Kept /\ m.game = t.game /\ m.rows = << >>
    BY <2>1, <2>2 DEF TaskOK, Kept, Results
  <2>4. PICK n : n = Len(table) + 1
    OBVIOUS
  <2>5. /\ table' = Append(table, m) /\ UNCHANGED <<rowsOf, ended>>
        /\ table' \in Seq(Kept)
        /\ DOMAIN table' = DOMAIN table \cup {n} /\ n \notin DOMAIN table /\ n \in Nat \ {0}
        /\ table'[n] = m /\ \A id \in DOMAIN table : table'[id] = table[id]
        /\ Len(table') = n
    BY <1>2, <2>1, <2>2, <2>3, <2>4, AppendProperties DEF InsertMatch
  <2>6. PICK u : u = [t EXCEPT !.id = n]
    OBVIOUS
  <2>7. saving' = (saving \ {t}) \cup {u}
    BY <1>2, <2>5, <2>6 DEF InsertMatch
  <2>8. /\ u.game = t.game /\ u.id = n /\ u.left = t.left
        /\ u \in [game : Games, id : DOMAIN table', left : Results]
    BY <2>2, <2>5, <2>6 DEF TaskOK
  <2>9. TaskOK(u)'
    <3>1. << >> \o u.left = u.left
      BY <2>8, ConcatEmptySeq DEF Results
    <3>2. table'[u.id].game = t.game /\ table'[u.id].rows = << >>
      BY <2>3, <2>5, <2>8
    <3>3. /\ rowsOf[t.game] # << >> /\ ended[t.game] = "no" /\ t.left = rowsOf[t.game]
          /\ u.id # 0
      BY <2>2, <2>5, <2>8 DEF TaskOK
    <3> QED
      BY <2>5, <2>8, <3>1, <3>2, <3>3 DEF TaskOK
  <2>10. ASSUME NEW v \in saving \ {t}
         PROVE  TaskOK(v)' /\ v.game # t.game
    <3>1. TaskOK(v) /\ v.game # t.game
      BY DEF SavesInv
    <3> QED
      BY <2>3, <2>5, <3>1 DEF TaskOK
  <2>11. RowsOfTheirMatch'
    <3>1. IsPrefix(m.rows, rowsOf[m.game])
      BY <2>2, <2>3 DEF IsPrefix, SavesInv, TaskOK, Results
    <3>2. \A id \in DOMAIN table : table[id].game # m.game
      BY <2>2, <2>3 DEF TaskOK
    <3> QED
      BY <2>5, <3>1, <3>2 DEF SavesInv, RowsOfTheirMatch
  <2>12. SavedWhole'
    BY <2>5 DEF SavesInv, SavedWhole
  <2>13. \A v, w \in saving' : v.game = w.game => v = w
    BY <2>7, <2>8, <2>10 DEF SavesInv
  <2>14. \A id \in DOMAIN table' : rowsOf'[table'[id].game] # << >>
    BY <2>2, <2>3, <2>5 DEF SavesInv, TaskOK
  <2> QED
    BY <2>5, <2>7, <2>9, <2>10, <2>11, <2>12, <2>13, <2>14 DEF SavesInv
<1>3. ASSUME NEW t \in saving, InsertScore(t)
      PROVE  SavesInv'
  <2>1. TaskOK(t) /\ table \in Seq(Kept)
    BY DEF SavesInv
  <2>2. PICK n : n = t.id
    OBVIOUS
  <2>3. /\ n \in DOMAIN table /\ table[n].game = t.game
        /\ table[n].rows \in Results /\ t.left \in Results /\ t.left # << >>
        /\ table[n].rows \o t.left = rowsOf[t.game] /\ n # 0
        /\ table[n] \in Kept
    BY <1>3, <2>1, <2>2, KeptRow DEF InsertScore, TaskOK
  <2>4. PICK r : r = Append(table[n].rows, Head(t.left))
    OBVIOUS
  <2>5. /\ r \in Results /\ Tail(t.left) \in Results
        /\ r \o Tail(t.left) = rowsOf[t.game]
    <3>1. PICK s : s = table[n].rows
      OBVIOUS
    <3>2. PICK left : left = t.left
      OBVIOUS
    <3>3. s \in Seq(Scorers) /\ left \in Seq(Scorers) /\ left # << >>
      BY <2>3, <3>1, <3>2 DEF Results
    <3>4. /\ Append(s, Head(left)) \in Seq(Scorers) /\ Tail(left) \in Seq(Scorers)
          /\ Append(s, Head(left)) \o Tail(left) = s \o left
      BY <3>3, OneMore, Zenon
    <3> QED
      BY <2>3, <2>4, <3>1, <3>2, <3>4, Zenon DEF Results
  <2>6. table' = [table EXCEPT ![n].rows = r]
    BY <1>3, <2>2, <2>4 DEF InsertScore, RowId
  <2>7. /\ DOMAIN table' = DOMAIN table
        /\ table'[n].rows = r /\ table'[n].game = t.game
        /\ table'[n] \in Kept
        /\ \A id \in DOMAIN table \ {n} : table'[id] = table[id]
    <3>1. /\ DOMAIN table' = DOMAIN table
          /\ table'[n] = [table[n] EXCEPT !.rows = r]
          /\ \A id \in DOMAIN table \ {n} : table'[id] = table[id]
      BY <2>1, <2>3, <2>6
    <3> QED
      BY <2>3, <2>5, <3>1 DEF Kept
  <2>8. table' \in Seq(Kept)
    <3>1. \A id \in DOMAIN table : table'[id] \in Kept
      BY <2>7, KeptRow
    <3>2. Len(table) \in Nat /\ DOMAIN table = 1 .. Len(table)
      BY <2>1, LenProperties
    <3>3. table' \in [1 .. Len(table) -> Kept]
      BY <2>6, <2>7, <3>1, <3>2
    <3> QED
      BY <3>2, <3>3
  <2>9. PICK u : u = [t EXCEPT !.left = Tail(t.left)]
    OBVIOUS
  <2>10. saving' = (saving \ {t}) \cup {u} /\ UNCHANGED <<rowsOf, ended>>
    BY <1>3, <2>9 DEF InsertScore
  <2>11. /\ u.game = t.game /\ u.id = n /\ u.left = Tail(t.left)
         /\ u \in [game : Games, id : DOMAIN table, left : Results]
    BY <2>1, <2>2, <2>3, <2>5, <2>9 DEF TaskOK
  <2>12. TaskOK(u)'
    BY <2>1, <2>3, <2>5, <2>7, <2>10, <2>11 DEF TaskOK
  <2>13. ASSUME NEW v \in saving \ {t}
         PROVE  TaskOK(v)' /\ v.game # t.game
    <3>1. TaskOK(v) /\ v.game # t.game
      BY DEF SavesInv
    <3>2. v.id # n
      BY <2>3, <3>1 DEF TaskOK
    <3>3. \A id \in DOMAIN table : table'[id].game = table[id].game
      BY <2>3, <2>7
    <3> QED
      BY <2>7, <2>10, <3>1, <3>2, <3>3 DEF TaskOK
  <2>14. RowsOfTheirMatch'
    <3>1. IsPrefix(r, rowsOf[t.game])
      BY <2>5, PrefixOfConcat, Zenon DEF Results
    <3>2. \A id \in DOMAIN table : table'[id].game = table[id].game
      BY <2>3, <2>7
    <3>3. \A id \in DOMAIN table : IsPrefix(table'[id].rows, rowsOf[table'[id].game])
      BY <2>7, <3>1 DEF SavesInv, RowsOfTheirMatch
    <3> QED
      BY <2>7, <2>10, <3>2, <3>3 DEF SavesInv, RowsOfTheirMatch
  <2>15. SavedWhole'
    <3>1. \A g \in Games : ended[g] = "saved" => g # t.game
      BY <2>1 DEF TaskOK
    <3>2. \A g \in Games, id \in DOMAIN table :
              g # t.game /\ table[id] = [game |-> g, rows |-> rowsOf[g]] => table'[id] = table[id]
      BY <2>3, <2>7
    <3> QED
      BY <2>7, <2>10, <3>1, <3>2 DEF SavesInv, SavedWhole
  <2>16. \A v, w \in saving' : v.game = w.game => v = w
    BY <2>10, <2>11, <2>13 DEF SavesInv
  <2>17. \A id \in DOMAIN table' : rowsOf'[table'[id].game] # << >>
    BY <2>3, <2>7, <2>10 DEF SavesInv
  <2> QED
    BY <2>7, <2>8, <2>10, <2>12, <2>13, <2>14, <2>15, <2>16, <2>17 DEF SavesInv
<1>4. ASSUME NEW t \in saving, NEW how \in {"saved", "failed"},
             saving' = saving \ {t}, ended' = [ended EXCEPT ![t.game] = how],
             UNCHANGED <<rowsOf, table>>,
             how = "saved" => t.id # 0 /\ t.left = << >>
      PROVE  SavesInv'
  <2>1. TaskOK(t)
    BY DEF SavesInv
  <2>2. /\ ended' \in [Games -> {"no", "saved", "failed"}] /\ t.game \in Games
        /\ ended'[t.game] = how /\ \A g \in Games \ {t.game} : ended'[g] = ended[g]
    BY <1>4, <2>1 DEF SavesInv, TaskOK
  <2>3. ASSUME NEW v \in saving'
        PROVE  TaskOK(v)'
    <3>1. TaskOK(v) /\ v.game # t.game
      BY <1>4 DEF SavesInv
    <3>2. ended'[v.game] = "no"
      BY <2>2, <3>1 DEF TaskOK
    <3> QED
      BY <1>4, <3>1, <3>2 DEF TaskOK
  <2>4. SavedWhole'
    <3>1. ASSUME how = "saved"
          PROVE  table[t.id] = [game |-> t.game, rows |-> rowsOf[t.game]] /\ t.id \in DOMAIN table
      <4>1. /\ t.id \in DOMAIN table /\ table[t.id].game = t.game
            /\ table[t.id].rows \o << >> = rowsOf[t.game]
            /\ table[t.id] \in Kept
        BY <1>4, <2>1, <3>1, KeptRow DEF TaskOK
      <4>2. table[t.id].rows = rowsOf[t.game]
        BY <4>1, ConcatEmptySeq DEF Results, Kept
      <4> QED
        BY <4>1, <4>2 DEF Kept
    <3> QED
      BY <1>4, <2>2, <3>1 DEF SavesInv, SavedWhole
  <2>5. RowsOfTheirMatch'
    BY <1>4 DEF SavesInv, RowsOfTheirMatch
  <2>6. \A g \in Games : rowsOf[g] = << >> => ended'[g] = "no"
    BY <2>1, <2>2 DEF SavesInv, TaskOK
  <2> QED
    BY <1>4, <2>2, <2>3, <2>4, <2>5, <2>6 DEF SavesInv
<1>5. ASSUME NEW t \in saving, Saved(t) \/ SaveFails(t)
      PROVE  SavesInv'
  BY <1>4, <1>5 DEF Saved, SaveFails
<1>6. ASSUME UNCHANGED saveVars
      PROVE  SavesInv'
  <2>1. rowsOf' = rowsOf /\ saving' = saving /\ ended' = ended /\ table' = table
    BY <1>6 DEF saveVars
  <2>2. ASSUME NEW t \in saving'
        PROVE  TaskOK(t)'
    <3>1. TaskOK(t)
      BY <2>1 DEF SavesInv
    <3> QED
      BY <2>1, <3>1, Zenon DEF TaskOK
  <2>3. RowsOfTheirMatch'
    BY <2>1, Zenon DEF SavesInv, RowsOfTheirMatch
  <2>4. SavedWhole'
    BY <2>1, Zenon DEF SavesInv, SavedWhole
  <2> QED
    BY <2>1, <2>2, <2>3, <2>4 DEF SavesInv
<1> QED
  BY <1>1, <1>2, <1>3, <1>5, <1>6 DEF SavesNext

(* The rows kept of a game are those of its result, from the first on, and *)
(* no game has two matches, whatever else is being saved or fails.         *)
THEOREM RowsStayWithTheirMatch == SavesSpec => []RowsOfTheirMatch
<1>1. SavesInv => RowsOfTheirMatch
  BY DEF SavesInv
<1> QED
  BY <1>1, SavesFirst, SavesStep, PTL DEF SavesSpec

(* A save that reports success has kept every row. *)
THEOREM SuccessIsWhole == SavesSpec => []SavedWhole
<1>1. SavesInv => SavedWhole
  BY DEF SavesInv
<1> QED
  BY <1>1, SavesFirst, SavesStep, PTL DEF SavesSpec

-----------------------------------------------------------------------------
(* The copy of the rooms: MultiDb *)

(* The last write of room id, its records aside, is to show it as of v. *)
UpsertLast(id, v) ==
    \E i \in DOMAIN tasks :
        /\ tasks[i].id = id /\ tasks[i].write = "upsert" /\ tasks[i].version = v
        /\ \A j \in DOMAIN tasks : j > i /\ tasks[j].id = id => tasks[j].write = "record"

OnlyRecords(id) == \A j \in DOMAIN tasks : tasks[j].id = id => tasks[j].write = "record"

(* Once its writes have run the row of a room shows it, as it is or as it  *)
(* was before changes that nobody syncs.                                   *)
Shown(id) ==
    \E v \in Versions :
        /\ UpsertLast(id, v) \/ (OnlyRecords(id) /\ id \in DOMAIN rows /\ rows[id] = v)
        /\ id \in unsynced \/ v = live[id]

DeleteLast(id) ==
    \E i \in DOMAIN tasks :
        /\ tasks[i].id = id /\ tasks[i].write = "delete"
        /\ \A j \in DOMAIN tasks : j > i => tasks[j].id # id

NoTask(id) == \A j \in DOMAIN tasks : tasks[j].id # id

(* Once its writes have run nothing is left of a room. *)
Erased(id) == DeleteLast(id) \/ (NoTask(id) /\ id \notin DOMAIN rows /\ id \notin games)

Followed ==
    /\ \A id \in DOMAIN live : id \notin pending /\ Shown(id)
    /\ \A id \in MatchIds : id \notin DOMAIN live /\ id \notin pending => Erased(id)

CopyInv == CopyTypeOK /\ (InOrder => Followed)

-----------------------------------------------------------------------------
(* Deletes has a write for every room, in some order. *)
LEMMA DeletesOf ==
    ASSUME NEW S \in SUBSET MatchIds
    PROVE  /\ Deletes(S) \in Seq(Writes)
           /\ \A j \in DOMAIN Deletes(S) : Deletes(S)[j].write = "delete" /\ Deletes(S)[j].id \in S
           /\ \A id \in S : \E j \in DOMAIN Deletes(S) : Deletes(S)[j].id = id
<1> DEFINE T == {Delete(id) : id \in S}
           n == Cardinality(T)
<1>1. IsFiniteSet(T)
  <2> DEFINE f == [id \in S |-> Delete(id)]
  <2>1. IsFiniteSet(S)
    <3>1. IsFiniteSet(MatchIds)
      BY MultiDbAssumption, FS_Interval DEF MatchIds
    <3> QED
      BY <3>1, FS_Subset
  <2>2. IsFiniteSet({f[id] : id \in S})
    BY <2>1, ImageFinite
  <2>3. {f[id] : id \in S} = T
    OBVIOUS
  <2> QED
    BY <2>2, <2>3
<1>2. \A w \in T : w \in Writes /\ w.write = "delete" /\ w.id \in S
  BY DEF Delete, Writes
<1>3. ASSUME NEW id \in S PROVE \E w \in T : w.id = id
  <2>1. Delete(id) \in T /\ Delete(id).id = id
    BY DEF Delete
  <2> QED
    BY <2>1
<1>4. Deletes(S) = SetToSeq(T)
  BY DEF Deletes
<1> HIDE DEF T
<1>5. n \in Nat /\ IsFiniteSet(1 .. n) /\ Cardinality(1 .. n) = n
  <2>1. n \in Nat
    BY <1>1, FS_CardinalityType
  <2>2. IsFiniteSet(1 .. n)
    BY <2>1, FS_Interval
  <2>3. Cardinality(1 .. n) = IF 1 > n THEN 0 ELSE n - 1 + 1
    BY <2>1, FS_Interval
  <2> QED
    BY <2>1, <2>2, <2>3
<1>6. \E f \in [1 .. n -> T] : IsInjective(f)
  <2>1. ExistsBijection(1 .. n, T)
    BY <1>1, <1>5, FS_SameCardinalityBij
  <2> QED
    BY <2>1 DEF ExistsBijection, Bijection, Injection, IsInjective
<1>7. PICK f : f = Deletes(S) /\ f \in [1 .. n -> T] /\ IsInjective(f)
  BY <1>4, <1>6 DEF SetToSeq
<1>8. f \in Surjection(1 .. n, T)
  <2>1. f \in Injection(1 .. n, T)
    BY <1>7 DEF Injection, IsInjective
  <2> QED
    BY <1>1, <1>5, <2>1, FS_Injection
<1>9. \A w \in T : \E j \in 1 .. n : f[j] = w
  BY <1>8 DEF Surjection
<1>10. f \in Seq(Writes) /\ DOMAIN f = 1 .. n
  <2>1. f \in [1 .. n -> Writes]
    BY <1>2, <1>7
  <2> QED
    BY <1>5, <2>1
<1> QED
  BY <1>2, <1>3, <1>7, <1>9, <1>10

-----------------------------------------------------------------------------
(* What a spawn does to the last write of a room. *)

Spawned(writes) == tasks' = tasks \o writes /\ UNCHANGED <<rows, games>>

(* What was there stays in its place, what is spawned comes behind it.     *)
LEMMA Behind ==
    ASSUME NEW W, tasks \in Seq(W), NEW writes \in Seq(W), tasks' = tasks \o writes
    PROVE  /\ tasks' \in Seq(W)
           /\ \A i \in DOMAIN tasks : i \in DOMAIN tasks' /\ tasks'[i] = tasks[i]
           /\ \A k \in DOMAIN writes : /\ Len(tasks) + k \in DOMAIN tasks'
                                       /\ tasks'[Len(tasks) + k] = writes[k]
           /\ \A i \in DOMAIN tasks' : \/ i \in DOMAIN tasks
                                       \/ \E k \in DOMAIN writes : i = Len(tasks) + k
           /\ Len(tasks) \in Nat
           /\ \A i \in DOMAIN tasks : i \in 1 .. Len(tasks)
           /\ \A k \in DOMAIN writes : k \in 1 .. Len(writes)
<1>1. /\ Len(tasks) \in Nat /\ DOMAIN tasks = 1 .. Len(tasks)
      /\ Len(writes) \in Nat /\ DOMAIN writes = 1 .. Len(writes)
  BY LenProperties
<1>2. /\ tasks' \in Seq(W) /\ Len(tasks') = Len(tasks) + Len(writes)
      /\ \A i \in 1 .. Len(tasks) + Len(writes) :
            tasks'[i] = IF i <= Len(tasks) THEN tasks[i] ELSE writes[i - Len(tasks)]
  BY ConcatProperties
<1>3. DOMAIN tasks' = 1 .. Len(tasks) + Len(writes)
  BY <1>2, LenProperties
<1>4. ASSUME NEW i \in DOMAIN tasks'
      PROVE  i \in DOMAIN tasks \/ \E k \in DOMAIN writes : i = Len(tasks) + k
  <2>1. CASE i <= Len(tasks)
    BY <1>1, <1>3, <2>1
  <2>2. CASE i > Len(tasks)
    <3>1. i - Len(tasks) \in DOMAIN writes /\ i = Len(tasks) + (i - Len(tasks))
      BY <1>1, <1>3, <2>2
    <3> QED
      BY <3>1
  <2> QED
    BY <1>1, <1>3, <2>1, <2>2
<1>5. ASSUME NEW k \in DOMAIN writes
      PROVE  Len(tasks) + k \in DOMAIN tasks' /\ tasks'[Len(tasks) + k] = writes[k]
  <2>1. /\ Len(tasks) + k \in 1 .. Len(tasks) + Len(writes) /\ ~(Len(tasks) + k <= Len(tasks))
        /\ (Len(tasks) + k) - Len(tasks) = k
    BY <1>1
  <2> QED
    BY <1>2, <1>3, <2>1
<1>6. ASSUME NEW i \in DOMAIN tasks
      PROVE  i \in DOMAIN tasks' /\ tasks'[i] = tasks[i]
  BY <1>1, <1>2, <1>3
<1> QED
  BY <1>1, <1>2, <1>4, <1>5, <1>6

(* A room whose new writes are records is shown as before.                *)
LEMMA ShownStill ==
    ASSUME tasks \in Seq(Writes), NEW writes \in Seq(Writes), Spawned(writes), NEW id,
           \A k \in DOMAIN writes : writes[k].id = id => writes[k].write = "record",
           Shown(id), id \in unsynced' \/ (id \notin unsynced /\ live'[id] = live[id])
    PROVE  Shown(id)'
<1>1. PICK v \in Versions :
        /\ UpsertLast(id, v) \/ (OnlyRecords(id) /\ id \in DOMAIN rows /\ rows[id] = v)
        /\ id \in unsynced \/ v = live[id]
  BY DEF Shown
<1>2. tasks' = tasks \o writes /\ rows' = rows
  BY DEF Spawned
<1>3. /\ \A i \in DOMAIN tasks : i \in DOMAIN tasks' /\ tasks'[i] = tasks[i]
      /\ \A i \in DOMAIN tasks' : i \in DOMAIN tasks \/ tasks'[i].id # id \/ tasks'[i].write = "record"
  BY <1>2, Behind
<1>4. UpsertLast(id, v) => UpsertLast(id, v)'
  BY <1>3 DEF UpsertLast
<1>5. OnlyRecords(id) => OnlyRecords(id)'
  BY <1>3 DEF OnlyRecords
<1> QED
  BY <1>1, <1>2, <1>4, <1>5 DEF Shown

(* An upsert that is followed by records at most shows the room.           *)
LEMMA ShownNow ==
    ASSUME tasks \in Seq(Writes), NEW writes \in Seq(Writes), Spawned(writes), NEW id,
           NEW k \in DOMAIN writes, writes[k].id = id, writes[k].write = "upsert",
           NEW v \in Versions, writes[k].version = v, live'[id] = v,
           \A m \in DOMAIN writes : m > k /\ writes[m].id = id => writes[m].write = "record"
    PROVE  Shown(id)'
<1>1. tasks' = tasks \o writes
  BY DEF Spawned
<1>2. UpsertLast(id, v)'
  <2> DEFINE i == Len(tasks) + k
  <2>1. i \in DOMAIN tasks' /\ tasks'[i] = writes[k] /\ k \in Nat /\ Len(tasks) \in Nat
    BY <1>1, Behind
  <2>2. ASSUME NEW j \in DOMAIN tasks', j > i, tasks'[j].id = id
        PROVE  tasks'[j].write = "record"
    <3>1. j \notin DOMAIN tasks
      <4>1. j \in DOMAIN tasks => j \in 1 .. Len(tasks)
        BY <1>1, Behind
      <4> QED
        BY <2>1, <2>2, <4>1
    <3>2. PICK m \in DOMAIN writes : j = Len(tasks) + m
      BY <1>1, <3>1, Behind
    <3>3. m \in Nat /\ tasks'[j] = writes[m]
      BY <1>1, <3>2, Behind
    <3> QED
      BY <2>1, <2>2, <3>2, <3>3
  <2> HIDE DEF i
  <2> QED
    BY <2>1, <2>2 DEF UpsertLast
<1> QED
  BY <1>2 DEF Shown

(* A room nothing is spawned for stays erased.                             *)
LEMMA ErasedStill ==
    ASSUME tasks \in Seq(Writes), NEW writes \in Seq(Writes), Spawned(writes), NEW id,
           \A k \in DOMAIN writes : writes[k].id # id, Erased(id)
    PROVE  Erased(id)'
<1>1. tasks' = tasks \o writes /\ rows' = rows /\ games' = games
  BY DEF Spawned
<1>2. /\ \A i \in DOMAIN tasks : i \in DOMAIN tasks' /\ tasks'[i] = tasks[i]
      /\ \A i \in DOMAIN tasks' : i \in DOMAIN tasks \/ tasks'[i].id # id
  BY <1>1, Behind
<1>3. DeleteLast(id) => DeleteLast(id)'
  BY <1>2 DEF DeleteLast
<1>4. NoTask(id) => NoTask(id)'
  BY <1>2 DEF NoTask
<1> QED
  BY <1>1, <1>3, <1>4 DEF Erased

(* A delete among the spawned writes, when all of its room are deletes. *)
LEMMA ErasedNow ==
    ASSUME tasks \in Seq(Writes), NEW writes \in Seq(Writes), Spawned(writes), NEW id,
           \E k \in DOMAIN writes : writes[k].id = id,
           \A k \in DOMAIN writes : writes[k].id = id => writes[k].write = "delete"
    PROVE  Erased(id)'
<1>1. tasks' = tasks \o writes
  BY DEF Spawned
<1>2. PICK k \in DOMAIN writes : /\ writes[k].id = id
                                 /\ \A m \in DOMAIN writes : writes[m].id = id => m <= k
  <2> DEFINE K == {Len(writes) - k : k \in {m \in DOMAIN writes : writes[m].id = id}}
  <2>1. Len(writes) \in Nat /\ DOMAIN writes = 1 .. Len(writes)
    BY LenProperties
  <2>2. K \in SUBSET Nat /\ K # {}
    BY <2>1
  <2>3. PICK x \in K : \A y \in K : x <= y
    <3> HIDE DEF K
    <3> QED
      BY <2>2, Least
  <2>4. PICK k \in DOMAIN writes : writes[k].id = id /\ x = Len(writes) - k
    OBVIOUS
  <2>5. ASSUME NEW m \in DOMAIN writes, writes[m].id = id
        PROVE  m <= k
    <3>1. Len(writes) - m \in K
      BY <2>5
    <3>2. Len(writes) - k <= Len(writes) - m
      BY <2>3, <2>4, <3>1
    <3> QED
      BY <2>1, <3>2
  <2> QED
    BY <2>4, <2>5
<1>3. DeleteLast(id)'
  <2> DEFINE i == Len(tasks) + k
  <2>1. i \in DOMAIN tasks' /\ tasks'[i] = writes[k] /\ k \in Nat /\ Len(tasks) \in Nat
    BY <1>1, Behind
  <2>2. ASSUME NEW j \in DOMAIN tasks', j > i
        PROVE  tasks'[j].id # id
    <3>1. j \notin DOMAIN tasks
      <4>1. j \in DOMAIN tasks => j \in 1 .. Len(tasks)
        BY <1>1, Behind
      <4> QED
        BY <2>1, <2>2, <4>1
    <3>2. PICK m \in DOMAIN writes : j = Len(tasks) + m
      BY <1>1, <3>1, Behind
    <3>3. m \in Nat /\ tasks'[j] = writes[m]
      BY <1>1, <3>2, Behind
    <3> QED
      BY <1>2, <2>1, <2>2, <3>2, <3>3
  <2> HIDE DEF i
  <2> QED
    BY <1>2, <2>1, <2>2 DEF DeleteLast
<1> QED
  BY <1>3 DEF Erased

-----------------------------------------------------------------------------
(* The tasks run in order: the one that runs is the first of its room. *)

(* The other tasks keep their order.                                       *)
LEMMA Removed ==
    ASSUME NEW W, tasks \in Seq(W), NEW i \in DOMAIN tasks, tasks' = RemoveAt(tasks, i)
    PROVE  /\ tasks' \in Seq(W) /\ i \in Nat
           /\ \A j \in DOMAIN tasks : j < i => j \in DOMAIN tasks' /\ tasks'[j] = tasks[j]
           /\ \A j \in DOMAIN tasks : j > i => j - 1 \in DOMAIN tasks' /\ tasks'[j - 1] = tasks[j]
           /\ \A j \in DOMAIN tasks' : IF j < i THEN j \in DOMAIN tasks ELSE j + 1 \in DOMAIN tasks
<1>1. Len(tasks) \in Nat /\ DOMAIN tasks = 1 .. Len(tasks) /\ i \in 1 .. Len(tasks)
  BY LenProperties
<1> DEFINE a == SubSeq(tasks, 1, i - 1)
           b == SubSeq(tasks, i + 1, Len(tasks))
<1>2. \A j \in 1 .. Len(tasks) : tasks[j] \in W
  BY ElementOfSeq
<1>3. a \in Seq(W) /\ Len(a) = i - 1 /\ \A j \in 1 .. i - 1 : a[j] = tasks[j]
  <2>1. i - 1 \in Int /\ 1 \in Int /\ \A j \in 1 .. i - 1 : tasks[j] \in W
    BY <1>1, <1>2
  <2>2. /\ a \in Seq(W) /\ Len(a) = IF 1 <= i - 1 THEN (i - 1) - 1 + 1 ELSE 0
        /\ \A j \in 1 .. (i - 1) - 1 + 1 : a[j] = tasks[1 + j - 1]
    BY <2>1, SubSeqProperties
  <2> HIDE DEF a
  <2> QED
    BY <1>1, <2>2
<1>4. b \in Seq(W) /\ Len(b) = Len(tasks) - i /\ \A j \in 1 .. Len(tasks) - i : b[j] = tasks[i + j]
  <2>1. i + 1 \in Int /\ Len(tasks) \in Int /\ \A j \in i + 1 .. Len(tasks) : tasks[j] \in W
    BY <1>1, <1>2
  <2>2. /\ b \in Seq(W) /\ Len(b) = IF i + 1 <= Len(tasks) THEN Len(tasks) - (i + 1) + 1 ELSE 0
        /\ \A j \in 1 .. Len(tasks) - (i + 1) + 1 : b[j] = tasks[(i + 1) + j - 1]
    BY <2>1, SubSeqProperties
  <2> HIDE DEF b
  <2>3. \A j \in 1 .. Len(tasks) - i : b[j] = tasks[i + j]
    <3> TAKE j \in 1 .. Len(tasks) - i
    <3>1. j \in 1 .. Len(tasks) - (i + 1) + 1 /\ (i + 1) + j - 1 = i + j
      BY <1>1
    <3>2. b[j] = tasks[(i + 1) + j - 1]
      BY <2>2, <3>1
    <3> QED
      BY <3>1, <3>2
  <2> QED
    BY <1>1, <2>2, <2>3
<1>5. tasks' = a \o b
  BY DEF RemoveAt
<1> HIDE DEF a, b
<1>6. /\ tasks' \in Seq(W) /\ DOMAIN tasks' = 1 .. Len(tasks) - 1
      /\ \A j \in 1 .. Len(tasks) - 1 : tasks'[j] = IF j <= i - 1 THEN a[j] ELSE b[j - (i - 1)]
  <2>1. /\ a \o b \in Seq(W) /\ Len(a \o b) = Len(a) + Len(b)
        /\ \A j \in 1 .. Len(a) + Len(b) : (a \o b)[j] = IF j <= Len(a) THEN a[j] ELSE b[j - Len(a)]
    BY <1>3, <1>4, ConcatProperties
  <2>2. Len(a) + Len(b) = Len(tasks) - 1
    BY <1>1, <1>3, <1>4
  <2>3. DOMAIN tasks' = 1 .. Len(tasks')
    BY <1>5, <2>1, LenProperties
  <2> QED
    BY <1>3, <1>5, <2>1, <2>2, <2>3
<1>7. ASSUME NEW j \in DOMAIN tasks, j > i
      PROVE  j - 1 \in DOMAIN tasks' /\ tasks'[j - 1] = tasks[j]
  <2>1. /\ j - 1 \in 1 .. Len(tasks) - 1 /\ ~(j - 1 <= i - 1)
        /\ (j - 1) - (i - 1) = j - i /\ j - i \in 1 .. Len(tasks) - i /\ i + (j - i) = j
    BY <1>1, <1>7
  <2> QED
    BY <1>4, <1>6, <2>1
<1>8. ASSUME NEW j \in DOMAIN tasks, j < i
      PROVE  j \in DOMAIN tasks' /\ tasks'[j] = tasks[j]
  <2>1. j \in 1 .. Len(tasks) - 1 /\ j <= i - 1 /\ j \in 1 .. i - 1
    BY <1>1, <1>8
  <2> QED
    BY <1>3, <1>6, <2>1
<1> QED
  BY <1>1, <1>6, <1>7, <1>8

(* A write of another room changes nothing for this one. *)
LEMMA RunOther ==
    ASSUME CopyTypeOK, NEW i \in DOMAIN tasks, Run(i), NEW id, tasks[i].id # id
    PROVE  (Shown(id) => Shown(id)') /\ (Erased(id) => Erased(id)')
<1>1. /\ tasks \in Seq(Writes) /\ tasks' = RemoveAt(tasks, i) /\ UNCHANGED <<live, unsynced>>
  BY DEF CopyTypeOK, Run, rooms
<1>2. /\ id \in DOMAIN rows <=> id \in DOMAIN rows'
      /\ id \in DOMAIN rows => rows'[id] = rows[id]
      /\ id \in games <=> id \in games'
  <2>1. tasks[i] \in Writes
    BY <1>1, LenProperties, ElementOfSeq
  <2>2. CASE tasks[i].write = "upsert"
    BY <2>2 DEF Run, Apply, Put
  <2>3. CASE tasks[i].write = "record"
    BY <2>3 DEF Run, Apply
  <2>4. CASE tasks[i].write = "delete"
    BY <2>4 DEF Run, Apply, Without, Restrict
  <2> QED
    BY <2>1, <2>2, <2>3, <2>4 DEF Writes
<1>3. /\ i \in Nat /\ DOMAIN tasks \subseteq Nat /\ DOMAIN tasks' \subseteq Nat
      /\ \A j \in DOMAIN tasks : j < i => j \in DOMAIN tasks' /\ tasks'[j] = tasks[j]
      /\ \A j \in DOMAIN tasks : j > i => j - 1 \in DOMAIN tasks' /\ tasks'[j - 1] = tasks[j]
      /\ \A j \in DOMAIN tasks' : IF j < i THEN j \in DOMAIN tasks ELSE j + 1 \in DOMAIN tasks
  <2>1. tasks' \in Seq(Writes)
    BY <1>1, Removed
  <2> QED
    BY <1>1, <2>1, Removed, LenProperties
<1>4. \A j \in DOMAIN tasks' :
          \E k \in DOMAIN tasks : tasks'[j] = tasks[k] /\ (IF j < i THEN k = j ELSE k = j + 1)
  <2> TAKE j \in DOMAIN tasks'
  <2>1. CASE j < i
    BY <1>3, <2>1
  <2>2. CASE j >= i
    <3>1. j + 1 \in DOMAIN tasks /\ j + 1 > i /\ (j + 1) - 1 = j
      BY <1>3, <2>2
    <3>2. tasks'[j] = tasks[j + 1]
      BY <1>3, <3>1
    <3> QED
      BY <1>3, <2>2, <3>1, <3>2
  <2> QED
    BY <1>3, <2>1, <2>2
<1>5. ASSUME NEW k \in DOMAIN tasks, tasks[k].id = id
      PROVE  \E j \in DOMAIN tasks' : tasks'[j] = tasks[k] /\ (IF k < i THEN j = k ELSE j = k - 1 /\ k > i)
  <2>1. k # i
    BY <1>5
  <2> QED
    BY <1>3, <2>1
<1>6. ASSUME NEW v, UpsertLast(id, v)
      PROVE  UpsertLast(id, v)'
  <2>1. PICK k \in DOMAIN tasks :
          /\ tasks[k].id = id /\ tasks[k].write = "upsert" /\ tasks[k].version = v
          /\ \A j \in DOMAIN tasks : j > k /\ tasks[j].id = id => tasks[j].write = "record"
    BY <1>6 DEF UpsertLast
  <2>2. PICK n \in DOMAIN tasks' : tasks'[n] = tasks[k] /\ (IF k < i THEN n = k ELSE n = k - 1 /\ k > i)
    BY <1>5, <2>1
  <2>3. ASSUME NEW j \in DOMAIN tasks', j > n, tasks'[j].id = id
        PROVE  tasks'[j].write = "record"
    <3>1. PICK m \in DOMAIN tasks : tasks'[j] = tasks[m] /\ (IF j < i THEN m = j ELSE m = j + 1)
      BY <1>4
    <3>2. m > k
      BY <1>3, <2>2, <2>3, <3>1
    <3> QED
      BY <2>1, <2>3, <3>1, <3>2
  <2> QED
    BY <2>1, <2>2, <2>3 DEF UpsertLast
<1>7. OnlyRecords(id) => OnlyRecords(id)'
  BY <1>4 DEF OnlyRecords
<1>8. ASSUME DeleteLast(id)
      PROVE  DeleteLast(id)'
  <2>1. PICK k \in DOMAIN tasks :
          /\ tasks[k].id = id /\ tasks[k].write = "delete"
          /\ \A j \in DOMAIN tasks : j > k => tasks[j].id # id
    BY <1>8 DEF DeleteLast
  <2>2. PICK n \in DOMAIN tasks' : tasks'[n] = tasks[k] /\ (IF k < i THEN n = k ELSE n = k - 1 /\ k > i)
    BY <1>5, <2>1
  <2>3. ASSUME NEW j \in DOMAIN tasks', j > n
        PROVE  tasks'[j].id # id
    <3>1. PICK m \in DOMAIN tasks : tasks'[j] = tasks[m] /\ (IF j < i THEN m = j ELSE m = j + 1)
      BY <1>4
    <3>2. m > k
      BY <1>3, <2>2, <2>3, <3>1
    <3> QED
      BY <2>1, <3>1, <3>2
  <2> QED
    BY <2>1, <2>2, <2>3 DEF DeleteLast
<1>9. NoTask(id) => NoTask(id)'
  BY <1>4 DEF NoTask
<1>10. Shown(id) => Shown(id)'
  BY <1>1, <1>2, <1>6, <1>7 DEF Shown
<1>11. Erased(id) => Erased(id)'
  BY <1>2, <1>8, <1>9 DEF Erased
<1> QED
  BY <1>10, <1>11

(* The first write of a room, done: the later ones say the same, and if    *)
(* there are none it has settled what the tables hold.                     *)
LEMMA RunFirst ==
    ASSUME CopyTypeOK, NEW i \in DOMAIN tasks, Run(i), ~shuffled', NEW id, tasks[i].id = id
    PROVE  (Shown(id) => Shown(id)') /\ (Erased(id) => Erased(id)')
<1>1. /\ tasks \in Seq(Writes) /\ tasks' = RemoveAt(tasks, i) /\ UNCHANGED <<live, unsynced>>
  BY DEF CopyTypeOK, Run, rooms
<1>2. /\ i \in Nat /\ DOMAIN tasks \subseteq Nat /\ DOMAIN tasks' \subseteq Nat
      /\ \A j \in DOMAIN tasks : j > i => j - 1 \in DOMAIN tasks' /\ tasks'[j - 1] = tasks[j]
      /\ \A j \in DOMAIN tasks' :
            \E k \in DOMAIN tasks : k # i /\ tasks'[j] = tasks[k] /\ (IF j < i THEN k = j ELSE k = j + 1)
  <2>1. /\ tasks' \in Seq(Writes) /\ i \in Nat
        /\ \A j \in DOMAIN tasks : j < i => j \in DOMAIN tasks' /\ tasks'[j] = tasks[j]
        /\ \A j \in DOMAIN tasks : j > i => j - 1 \in DOMAIN tasks' /\ tasks'[j - 1] = tasks[j]
        /\ \A j \in DOMAIN tasks' : IF j < i THEN j \in DOMAIN tasks ELSE j + 1 \in DOMAIN tasks
    BY <1>1, Removed
  <2>2. DOMAIN tasks \subseteq Nat /\ DOMAIN tasks' \subseteq Nat
    BY <1>1, <2>1, LenProperties
  <2>3. ASSUME NEW j \in DOMAIN tasks'
        PROVE  \E k \in DOMAIN tasks : k # i /\ tasks'[j] = tasks[k] /\ (IF j < i THEN k = j ELSE k = j + 1)
    <3>1. CASE j < i
      BY <2>1, <2>2, <3>1
    <3>2. CASE j >= i
      <4>1. j + 1 \in DOMAIN tasks /\ j + 1 > i /\ (j + 1) - 1 = j
        BY <2>1, <2>2, <3>2
      <4>2. tasks'[j] = tasks[j + 1]
        BY <2>1, <4>1
      <4> QED
        BY <2>1, <2>2, <3>2, <4>1, <4>2
    <3> QED
      BY <2>1, <2>2, <3>1, <3>2
  <2> QED
    BY <2>1, <2>2, <2>3
<1>3. \A j \in DOMAIN tasks : tasks[j].id = id => j >= i
  <2>1. DOMAIN tasks = 1 .. Len(tasks) /\ Len(tasks) \in Nat
    BY <1>1, LenProperties
  <2>2. \A j \in 1 .. i - 1 : tasks[j].id # tasks[i].id
    BY DEF Run
  <2>3. ASSUME NEW j \in DOMAIN tasks, j < i
        PROVE  tasks[j].id # id
    <3>1. j \in 1 .. i - 1
      BY <1>2, <2>1, <2>3
    <3> QED
      BY <2>2, <3>1
  <2> QED
    BY <1>2, <2>3
<1>4. ASSUME NEW v \in Versions, UpsertLast(id, v)
      PROVE  UpsertLast(id, v)' \/ (OnlyRecords(id)' /\ id \in DOMAIN rows' /\ rows'[id] = v)
  <2>1. PICK k \in DOMAIN tasks :
          /\ tasks[k].id = id /\ tasks[k].write = "upsert" /\ tasks[k].version = v
          /\ \A j \in DOMAIN tasks : j > k /\ tasks[j].id = id => tasks[j].write = "record"
    BY <1>4 DEF UpsertLast
  <2>2. ASSUME NEW j \in DOMAIN tasks', tasks'[j].id = id, k = i \/ j > k - 1
        PROVE  tasks'[j].write = "record"
    <3>1. PICK m \in DOMAIN tasks : m # i /\ tasks'[j] = tasks[m] /\ (IF j < i THEN m = j ELSE m = j + 1)
      BY <1>2
    <3>2. m >= i /\ k >= i
      BY <1>3, <2>1, <2>2, <3>1
    <3>3. m > k
      BY <1>2, <2>2, <3>1, <3>2
    <3> QED
      BY <2>1, <2>2, <3>1, <3>3
  <2>3. CASE k = i
    <3>1. id \in DOMAIN rows' /\ rows'[id] = v
      BY <2>1, <2>3 DEF Run, Apply, Put
    <3> QED
      BY <2>2, <2>3, <3>1 DEF OnlyRecords
  <2>4. CASE k # i
    <3>1. k > i
      BY <1>2, <1>3, <2>1, <2>4
    <3>2. k - 1 \in DOMAIN tasks' /\ tasks'[k - 1] = tasks[k]
      BY <1>2, <3>1
    <3> QED
      BY <2>1, <2>2, <3>2 DEF UpsertLast
  <2> QED
    BY <2>3, <2>4
<1>5. ASSUME OnlyRecords(id)
      PROVE  OnlyRecords(id)' /\ rows' = rows
  <2>1. tasks[i].write = "record"
    BY <1>5 DEF OnlyRecords
  <2>2. rows' = rows
    BY <2>1 DEF Run, Apply
  <2>3. OnlyRecords(id)'
    BY <1>2, <1>5 DEF OnlyRecords
  <2> QED
    BY <2>2, <2>3
<1>6. Shown(id) => Shown(id)'
  BY <1>1, <1>4, <1>5 DEF Shown
<1>7. ASSUME DeleteLast(id)
      PROVE  Erased(id)'
  <2>1. PICK k \in DOMAIN tasks :
          /\ tasks[k].id = id /\ tasks[k].write = "delete"
          /\ \A j \in DOMAIN tasks : j > k => tasks[j].id # id
    BY <1>7 DEF DeleteLast
  <2>2. ASSUME NEW j \in DOMAIN tasks', k = i \/ j > k - 1
        PROVE  tasks'[j].id # id
    <3>1. PICK m \in DOMAIN tasks : m # i /\ tasks'[j] = tasks[m] /\ (IF j < i THEN m = j ELSE m = j + 1)
      BY <1>2
    <3>2. SUFFICES ASSUME tasks[m].id = id PROVE FALSE
      BY <3>1
    <3>3. m >= i /\ k >= i
      BY <1>3, <2>1, <3>2
    <3>4. m > k
      BY <1>2, <2>2, <3>1, <3>3
    <3> QED
      BY <2>1, <3>2, <3>4
  <2>3. CASE k = i
    <3>1. id \notin DOMAIN rows' /\ id \notin games'
      BY <2>1, <2>3 DEF Run, Apply, Without, Restrict
    <3> QED
      BY <2>2, <2>3, <3>1 DEF Erased, NoTask
  <2>4. CASE k # i
    <3>1. k > i
      BY <1>2, <1>3, <2>1, <2>4
    <3>2. k - 1 \in DOMAIN tasks' /\ tasks'[k - 1] = tasks[k]
      BY <1>2, <3>1
    <3> QED
      BY <2>1, <2>2, <3>2 DEF Erased, DeleteLast
  <2> QED
    BY <2>3, <2>4
<1>8. Erased(id) => Erased(id)'
  BY <1>7 DEF Erased, NoTask
<1> QED
  BY <1>6, <1>8

-----------------------------------------------------------------------------
(* The steps *)

(* Nothing is live and the tables are empty.                              *)
LEMMA CopyFirst == CopyInit => CopyInv
<1> SUFFICES ASSUME CopyInit PROVE CopyInv
  OBVIOUS
<1>1. DOMAIN live = {} /\ DOMAIN rows = {} /\ DOMAIN tasks = {} /\ tasks \in Seq(Writes)
  BY DEF CopyInit
<1>2. CopyTypeOK
  <2>1. << >> \in [DOMAIN << >> -> Versions]
    OBVIOUS
  <2>2. live \in [DOMAIN live -> Versions] /\ rows \in [DOMAIN rows -> Versions]
    BY <2>1 DEF CopyInit
  <2>3. nextId \in MatchIds
    BY MultiDbAssumption DEF CopyInit, MatchIds
  <2> QED
    BY <1>1, <2>2, <2>3 DEF CopyInit, CopyTypeOK
<1>3. Followed
  BY <1>1 DEF CopyInit, Followed, Erased, NoTask
<1> QED
  BY <1>2, <1>3 DEF CopyInv

(* What the types need of a step of the rooms. *)
LEMMA RoomsTyped ==
    ASSUME CopyTypeOK, NEW writes \in Seq(Writes), Spawn(writes),
           live' \in [DOMAIN live' -> Versions], DOMAIN live' \subseteq MatchIds,
           version' \in Versions \cup {0}, nextId' \in MatchIds, pending' \subseteq MatchIds,
           unsynced' \subseteq DOMAIN live', idReused' \in BOOLEAN
    PROVE  CopyTypeOK' /\ Spawned(writes)
<1>1. tasks' = tasks \o writes /\ UNCHANGED <<rows, games, shuffled, lost>>
  BY DEF Spawn, tables
<1>2. tasks' \in Seq(Writes)
  BY <1>1, ConcatProperties DEF CopyTypeOK
<1> QED
  BY <1>1, <1>2 DEF CopyTypeOK, Spawned

(* The rooms left behind are typed and only those of p[1] have changed.    *)
LEMMA LeftTyped ==
    ASSUME CopyTypeOK, Tick, NEW p \in Leaving, NEW l, l = Left(p[1], p[2])
    PROVE  /\ l \in [DOMAIN l -> Versions] /\ DOMAIN l = DOMAIN live \ p[2]
           /\ p[1] \subseteq DOMAIN live /\ p[2] \subseteq p[1]
           /\ Now \in Versions /\ version' = Now
           /\ \A id \in DOMAIN l : l[id] = live[id] \/ id \in p[1]
<1>1. Now \in Versions /\ version' = Now
  BY MultiDbAssumption DEF Tick, Now, Versions, CopyTypeOK
<1> QED
  BY <1>1 DEF Leaving, Left, CopyTypeOK

(* The rooms whose players all have left are deleted, with those that were *)
(* pending; x is the room that is synced, if there is one.                 *)
CleansUp(writes, gone, x) ==
    /\ gone \subseteq DOMAIN live /\ pending' = {} /\ DOMAIN live' \subseteq MatchIds
    /\ \A id \in MatchIds : id # x /\ id \in pending \cup gone =>
            \E k \in DOMAIN writes : writes[k].id = id
    /\ \A k \in DOMAIN writes : writes[k].id # x =>
            writes[k].id \in pending \cup gone /\ writes[k].write = "delete"
    /\ \A id \in MatchIds : id # x => (id \in DOMAIN live' <=> id \in DOMAIN live /\ id \notin gone)
    /\ \A id \in DOMAIN live' : id # x =>
            id \in unsynced' \/ (id \notin unsynced /\ live'[id] = live[id])

LEMMA CleanedUp ==
    ASSUME CopyTypeOK, Followed, NEW writes \in Seq(Writes), Spawned(writes), NEW x,
           NEW gone, CleansUp(writes, gone, x),
           x \in MatchIds => x \in DOMAIN live' /\ Shown(x)'
    PROVE  Followed'
<1>1. tasks \in Seq(Writes) /\ DOMAIN live \subseteq MatchIds
  BY DEF CopyTypeOK
<1>2. ASSUME NEW id \in DOMAIN live', id # x
      PROVE  Shown(id)'
  <2>1. id \in MatchIds /\ id \in DOMAIN live /\ id \notin gone
    BY <1>2 DEF CleansUp
  <2>2. Shown(id) /\ id \notin pending
    BY <2>1 DEF Followed
  <2>3. \A k \in DOMAIN writes : writes[k].id # id
    BY <1>2, <2>1, <2>2 DEF CleansUp
  <2>4. id \in unsynced' \/ (id \notin unsynced /\ live'[id] = live[id])
    BY <1>2 DEF CleansUp
  <2> QED
    BY <1>1, <2>2, <2>3, <2>4, ShownStill
<1>3. ASSUME NEW id \in MatchIds, id \notin DOMAIN live'
      PROVE  Erased(id)'
  <2>1. id # x
    BY <1>3
  <2>2. CASE id \in pending \cup gone
    <3>1. /\ \E k \in DOMAIN writes : writes[k].id = id
          /\ \A k \in DOMAIN writes : writes[k].id = id => writes[k].write = "delete"
      BY <2>1, <2>2 DEF CleansUp
    <3> QED
      BY <1>1, <3>1, ErasedNow
  <2>3. CASE id \notin pending \cup gone
    <3>1. id \notin DOMAIN live
      BY <1>3, <2>1, <2>3 DEF CleansUp
    <3>2. Erased(id)
      BY <2>3, <3>1 DEF Followed
    <3>3. \A k \in DOMAIN writes : writes[k].id # id
      BY <2>1, <2>3 DEF CleansUp
    <3> QED
      BY <1>1, <3>2, <3>3, ErasedStill
  <2> QED
    BY <2>2, <2>3
<1>4. pending' = {} /\ DOMAIN live' \subseteq MatchIds
  BY DEF CleansUp
<1> QED
  BY <1>2, <1>3, <1>4 DEF Followed

(* A room changes, and what is spawned is about this room. *)
LEMMA Changed ==
    ASSUME CopyTypeOK, Followed, NEW writes \in Seq(Writes), Spawned(writes),
           NEW x \in DOMAIN live, pending' = pending, DOMAIN live' = DOMAIN live,
           \A k \in DOMAIN writes : writes[k].id = x,
           \A id \in DOMAIN live : id # x => live'[id] = live[id] /\ (id \in unsynced <=> id \in unsynced'),
           Shown(x)'
    PROVE  Followed'
<1>1. tasks \in Seq(Writes)
  BY DEF CopyTypeOK
<1>2. ASSUME NEW id \in DOMAIN live, id # x
      PROVE  Shown(id)'
  <2>1. Shown(id) /\ \A k \in DOMAIN writes : writes[k].id # id
    BY <1>2 DEF Followed
  <2>2. id \in unsynced' \/ (id \notin unsynced /\ live'[id] = live[id])
    BY <1>2
  <2> QED
    BY <1>1, <2>1, <2>2, ShownStill
<1>3. ASSUME NEW id \in MatchIds, id \notin DOMAIN live, id \notin pending
      PROVE  Erased(id)'
  <2>1. Erased(id) /\ \A k \in DOMAIN writes : writes[k].id # id
    BY <1>3 DEF Followed
  <2> QED
    BY <1>1, <2>1, ErasedStill
<1> QED
  BY <1>2, <1>3 DEF Followed

(* Rooms change or vanish and nothing is spawned. *)
LEMMA Unsynced ==
    ASSUME CopyTypeOK, Followed, UNCHANGED <<tasks, rows, games>>,
           NEW gone, gone \subseteq DOMAIN live, DOMAIN live' = DOMAIN live \ gone,
           pending' = pending \cup gone,
           \A id \in DOMAIN live' : id \in unsynced' \/ (id \notin unsynced /\ live'[id] = live[id])
    PROVE  Followed'
<1>1. tasks \in Seq(Writes) /\ << >> \in Seq(Writes) /\ DOMAIN << >> = {}
  BY DEF CopyTypeOK
<1>2. Spawned(<< >>)
  <2>1. tasks \o << >> = tasks
    BY <1>1, ConcatEmptySeq
  <2> QED
    BY <2>1 DEF Spawned
<1>3. ASSUME NEW id \in DOMAIN live'
      PROVE  Shown(id)' /\ id \notin pending'
  <2>1. Shown(id) /\ id \notin pending /\ id \notin gone
    BY <1>3 DEF Followed
  <2>2. id \in unsynced' \/ (id \notin unsynced /\ live'[id] = live[id])
    BY <1>3
  <2> QED
    BY <1>1, <1>2, <2>1, <2>2, ShownStill
<1>4. ASSUME NEW id \in MatchIds, id \notin DOMAIN live', id \notin pending'
      PROVE  Erased(id)'
  <2>1. Erased(id)
    BY <1>4 DEF Followed
  <2> QED
    BY <1>1, <1>2, <2>1, ErasedStill
<1> QED
  BY <1>3, <1>4 DEF Followed

(* What is spawned with a room that somebody enters: its upsert, then the  *)
(* deletes.                                                                *)
WithDeletes(w, S) == <<w>> \o Deletes(S)

AsSpawned(writes, w, S) ==
    /\ writes \in Seq(Writes) /\ 1 \in DOMAIN writes /\ writes[1] = w
    /\ \A k \in DOMAIN writes : k # 1 => writes[k].write = "delete" /\ writes[k].id \in S
    /\ \A id \in S : \E k \in DOMAIN writes : writes[k].id = id

(* The upsert comes first and the rest deletes the rooms of S.             *)
LEMMA UpsertThenDeletes ==
    ASSUME NEW w \in Writes, NEW S \in SUBSET MatchIds
    PROVE  AsSpawned(WithDeletes(w, S), w, S)
<1> PICK writes : writes = WithDeletes(w, S)
  OBVIOUS
<1>1. PICK D : D = Deletes(S)
  OBVIOUS
<1>2. /\ D \in Seq(Writes)
      /\ \A j \in DOMAIN D : D[j].write = "delete" /\ D[j].id \in S
      /\ \A id \in S : \E j \in DOMAIN D : D[j].id = id
  BY <1>1, DeletesOf
<1>3. <<w>> \in Seq(Writes) /\ Len(<<w>>) = 1 /\ <<w>>[1] = w
  OBVIOUS
<1>4. PICK a : a = <<w>>
  OBVIOUS
<1>5. writes = a \o D /\ a \in Seq(Writes) /\ Len(a) = 1 /\ a[1] = w
  BY <1>1, <1>3, <1>4 DEF WithDeletes
<1>6. /\ writes \in Seq(Writes) /\ Len(writes) = 1 + Len(D)
      /\ \A i \in 1 .. 1 + Len(D) : writes[i] = IF i <= 1 THEN a[i] ELSE D[i - 1]
  <2>1. /\ a \o D \in Seq(Writes) /\ Len(a \o D) = Len(a) + Len(D)
        /\ \A i \in 1 .. Len(a) + Len(D) : (a \o D)[i] = IF i <= Len(a) THEN a[i] ELSE D[i - Len(a)]
    BY <1>2, <1>5, ConcatProperties
  <2> QED
    BY <1>5, <2>1
<1>7. DOMAIN writes = 1 .. 1 + Len(D) /\ DOMAIN D = 1 .. Len(D) /\ Len(D) \in Nat
  BY <1>2, <1>6, LenProperties
<1>8. 1 \in DOMAIN writes /\ writes[1] = w
  BY <1>5, <1>6, <1>7
<1>9. ASSUME NEW k \in DOMAIN writes, k # 1
      PROVE  k - 1 \in DOMAIN D /\ writes[k] = D[k - 1]
  BY <1>6, <1>7, <1>9
<1>10. ASSUME NEW j \in DOMAIN D
       PROVE  j + 1 \in DOMAIN writes /\ writes[j + 1] = D[j]
  <2>1. j + 1 \in 1 .. 1 + Len(D) /\ ~(j + 1 <= 1) /\ (j + 1) - 1 = j
    BY <1>7
  <2> QED
    BY <1>6, <1>7, <2>1
<1>11. ASSUME NEW k \in DOMAIN writes, k # 1
       PROVE  writes[k].write = "delete" /\ writes[k].id \in S
  BY <1>2, <1>9, <1>11
<1>12. ASSUME NEW id \in S
       PROVE  \E k \in DOMAIN writes : writes[k].id = id
  BY <1>2, <1>10
<1> QED
  BY <1>6, <1>8, <1>11, <1>12 DEF AsSpawned

Enters(writes, gone, x, v) ==
    /\ x \notin pending /\ live'[x] = v
    /\ 1 \in DOMAIN writes /\ writes[1] = Upsert(x, v)
    /\ \A k \in DOMAIN writes : k # 1 =>
            writes[k].write = "delete" /\ writes[k].id \in pending \cup gone
    /\ \A id \in pending \cup gone : \E k \in DOMAIN writes : writes[k].id = id
    /\ gone \subseteq DOMAIN live /\ x \notin gone
    /\ pending' = {} /\ DOMAIN live' = (DOMAIN live \ gone) \cup {x}
    /\ \A id \in DOMAIN live' : id # x =>
            id \in unsynced' \/ (id \notin unsynced /\ live'[id] = live[id])

(* The room somebody enters is shown, the ones that vanish are erased.     *)
LEMMA Entered ==
    ASSUME CopyTypeOK, Followed, NEW writes \in Seq(Writes), Spawned(writes),
           NEW gone, NEW x \in MatchIds, NEW v \in Versions, Enters(writes, gone, x, v)
    PROVE  Followed'
<1>1. tasks \in Seq(Writes) /\ DOMAIN live \subseteq MatchIds
  BY DEF CopyTypeOK
<1>2. /\ 1 \in DOMAIN writes /\ writes[1].id = x /\ writes[1].write = "upsert"
      /\ writes[1].version = v /\ live'[x] = v
  BY DEF Enters, Upsert
<1>3. Shown(x)'
  <2>1. \A m \in DOMAIN writes : m > 1 /\ writes[m].id = x => writes[m].write = "record"
    BY DEF Enters
  <2> QED
    BY <1>1, <1>2, <2>1, ShownNow
<1>4. CleansUp(writes, gone, x)
  BY <1>1, <1>2 DEF Enters, CleansUp
<1>5. x \in DOMAIN live'
  BY DEF Enters
<1> QED
  BY <1>3, <1>4, <1>5, CleanedUp

(* A step at a time: MATCH_CREATE,                                         *)
LEMMA CreateStep ==
    ASSUME CopyInv, NEW p \in Leaving, CreateRoom(p[1], p[2])
    PROVE  CopyInv'
<1>1. CopyTypeOK
  BY DEF CopyInv
<1> PICK S : S = pending \cup p[2]
  OBVIOUS
<1> PICK w : w = Upsert(nextId, Now)
  OBVIOUS
<1> PICK writes : writes = WithDeletes(w, S)
  OBVIOUS
<1>2. PICK l : l = Left(p[1], p[2])
  OBVIOUS
<1>3. /\ l \in [DOMAIN l -> Versions] /\ DOMAIN l = DOMAIN live \ p[2]
      /\ p[1] \subseteq DOMAIN live /\ p[2] \subseteq p[1]
      /\ Now \in Versions /\ version' = Now
      /\ \A id \in DOMAIN l : l[id] = live[id] \/ id \in p[1]
  BY <1>1, <1>2, LeftTyped DEF CreateRoom
<1>4. /\ live' = Put(l, nextId, Now) /\ pending' = {} /\ Spawn(writes)
      /\ unsynced' = (unsynced \cup p[1]) \ (p[2] \cup {nextId})
      /\ idReused' = (idReused \/ nextId \in DOMAIN live \cup pending)
      /\ nextId' = NextId(nextId)
  BY <1>2 DEF CreateRoom, WithDeletes
<1>5. /\ DOMAIN live' = DOMAIN l \cup {nextId} /\ live'[nextId] = Now
      /\ \A id \in DOMAIN live' : id # nextId => live'[id] = l[id]
      /\ live' \in [DOMAIN live' -> Versions]
  BY <1>3, <1>4 DEF Put
<1>6. /\ S \in SUBSET MatchIds /\ nextId \in MatchIds /\ nextId' \in MatchIds
      /\ DOMAIN live' \subseteq MatchIds /\ unsynced' \subseteq DOMAIN live'
  BY <1>1, <1>3, <1>4, <1>5, MultiDbAssumption DEF CopyTypeOK, NextId, MatchIds
<1>7. w \in Writes /\ w.id = nextId /\ w.write = "upsert" /\ w.version = Now
  BY <1>3, <1>6 DEF Upsert, Writes
<1>8. /\ writes \in Seq(Writes) /\ 1 \in DOMAIN writes /\ writes[1] = w
      /\ \A k \in DOMAIN writes : k # 1 => writes[k].write = "delete" /\ writes[k].id \in S
      /\ \A id \in S : \E k \in DOMAIN writes : writes[k].id = id
  <2>1. AsSpawned(WithDeletes(w, S), w, S)
    BY <1>6, <1>7, UpsertThenDeletes
  <2> QED
    BY <2>1 DEF AsSpawned
<1>9. CopyTypeOK' /\ Spawned(writes)
  <2>1. idReused' \in BOOLEAN /\ pending' \subseteq MatchIds /\ version' \in Versions \cup {0}
    BY <1>1, <1>3, <1>4 DEF CopyTypeOK
  <2> QED
    BY <1>1, <1>4, <1>5, <1>6, <1>8, <2>1, RoomsTyped
<1>10. ASSUME InOrder'
       PROVE  Followed'
  <2>1. InOrder /\ nextId \notin DOMAIN live /\ nextId \notin pending
    BY <1>4, <1>10 DEF InOrder, Spawn
  <2>2. nextId \notin S /\ p[2] \subseteq DOMAIN live /\ S = pending \cup p[2]
    BY <1>3, <2>1
  <2>3. Followed
    BY <2>1 DEF CopyInv
  <2>4. \A id \in DOMAIN live' : id # nextId =>
            id \in unsynced' \/ (id \notin unsynced /\ live'[id] = live[id])
    BY <1>3, <1>4, <1>5
  <2>5. DOMAIN live' = (DOMAIN live \ p[2]) \cup {nextId}
    BY <1>3, <1>5
  <2> QED
    <3>1. Enters(writes, p[2], nextId, Now)
      BY <1>4, <1>5, <1>8, <2>2, <2>4, <2>5 DEF Enters
    <3> QED
      BY <1>1, <1>3, <1>6, <1>8, <1>9, <2>3, <3>1, Entered
<1> QED
  BY <1>9, <1>10 DEF CopyInv

(* MATCH_JOIN,                                                             *)
LEMMA JoinStep ==
    ASSUME CopyInv, NEW p \in Leaving, NEW x \in MatchIds, JoinRoom(x, p[1], p[2])
    PROVE  CopyInv'
<1>1. CopyTypeOK
  BY DEF CopyInv
<1> PICK S : S = pending \cup p[2]
  OBVIOUS
<1> PICK w : w = Upsert(x, Now)
  OBVIOUS
<1> PICK writes : writes = WithDeletes(w, S)
  OBVIOUS
<1>2. PICK l : l = Left(p[1], p[2])
  OBVIOUS
<1>3. /\ l \in [DOMAIN l -> Versions] /\ DOMAIN l = DOMAIN live \ p[2]
      /\ p[1] \subseteq DOMAIN live /\ p[2] \subseteq p[1]
      /\ Now \in Versions /\ version' = Now
      /\ \A id \in DOMAIN l : l[id] = live[id] \/ id \in p[1]
  BY <1>1, <1>2, LeftTyped DEF JoinRoom
<1>4. /\ live' = [l EXCEPT ![x] = Now] /\ pending' = {} /\ Spawn(writes)
      /\ unsynced' = (unsynced \cup p[1]) \ (p[2] \cup {x})
      /\ UNCHANGED <<nextId, idReused>> /\ x \in DOMAIN live /\ x \notin p[2]
  BY <1>2 DEF JoinRoom, WithDeletes
<1>5. /\ DOMAIN live' = DOMAIN l /\ x \in DOMAIN l /\ live'[x] = Now
      /\ \A id \in DOMAIN live' : id # x => live'[id] = l[id]
      /\ live' \in [DOMAIN live' -> Versions]
  BY <1>3, <1>4
<1>6. /\ S \in SUBSET MatchIds /\ nextId' \in MatchIds
      /\ DOMAIN live' \subseteq MatchIds /\ unsynced' \subseteq DOMAIN live'
  BY <1>1, <1>3, <1>4, <1>5 DEF CopyTypeOK
<1>7. w \in Writes /\ w.id = x /\ w.write = "upsert" /\ w.version = Now
  BY <1>3 DEF Upsert, Writes
<1>8. /\ writes \in Seq(Writes) /\ 1 \in DOMAIN writes /\ writes[1] = w
      /\ \A k \in DOMAIN writes : k # 1 => writes[k].write = "delete" /\ writes[k].id \in S
      /\ \A id \in S : \E k \in DOMAIN writes : writes[k].id = id
  <2>1. AsSpawned(WithDeletes(w, S), w, S)
    BY <1>6, <1>7, UpsertThenDeletes
  <2> QED
    BY <2>1 DEF AsSpawned
<1>9. CopyTypeOK' /\ Spawned(writes)
  <2>1. idReused' \in BOOLEAN /\ pending' \subseteq MatchIds /\ version' \in Versions \cup {0}
    BY <1>1, <1>3, <1>4 DEF CopyTypeOK
  <2> QED
    BY <1>1, <1>4, <1>5, <1>6, <1>8, <2>1, RoomsTyped
<1>10. ASSUME InOrder'
       PROVE  Followed'
  <2>1. InOrder
    BY <1>4, <1>10 DEF InOrder, Spawn
  <2>2. Followed
    BY <2>1 DEF CopyInv
  <2>3. x \notin S /\ p[2] \subseteq DOMAIN live /\ S = pending \cup p[2]
    BY <1>3, <1>4, <2>2 DEF Followed
  <2>4. \A id \in DOMAIN live' : id # x =>
            id \in unsynced' \/ (id \notin unsynced /\ live'[id] = live[id])
    BY <1>3, <1>4, <1>5
  <2>5. DOMAIN live' = (DOMAIN live \ p[2]) \cup {x}
    BY <1>3, <1>4, <1>5
  <2> QED
    <3>1. Enters(writes, p[2], x, Now)
      BY <1>4, <1>5, <1>8, <2>3, <2>4, <2>5 DEF Enters
    <3> QED
      BY <1>1, <1>3, <1>8, <1>9, <2>2, <3>1, Entered
<1> QED
  BY <1>9, <1>10 DEF CopyInv

(* The clean-up after rooms that disband. *)
LEMMA CleanStep ==
    ASSUME CopyInv, NEW gone, gone \subseteq DOMAIN live, CleanUp(gone),
           live' \in [DOMAIN live' -> Versions], DOMAIN live' = DOMAIN live \ gone,
           version' \in Versions \cup {0}, UNCHANGED <<nextId, idReused>>,
           unsynced' \subseteq DOMAIN live',
           \A id \in DOMAIN live' : id \in unsynced' \/ (id \notin unsynced /\ live'[id] = live[id])
    PROVE  CopyInv'
<1>1. CopyTypeOK
  BY DEF CopyInv
<1>2. PICK S : S = pending \cup gone
  OBVIOUS
<1>3. S \in SUBSET MatchIds /\ DOMAIN live' \subseteq MatchIds
  BY <1>1, <1>2 DEF CopyTypeOK
<1>4. PICK writes : writes = Deletes(S)
  OBVIOUS
<1>5. /\ writes \in Seq(Writes)
      /\ \A k \in DOMAIN writes : writes[k].write = "delete" /\ writes[k].id \in S
      /\ \A id \in S : \E k \in DOMAIN writes : writes[k].id = id
  <2>1. /\ Deletes(S) \in Seq(Writes)
        /\ \A j \in DOMAIN Deletes(S) : Deletes(S)[j].write = "delete" /\ Deletes(S)[j].id \in S
        /\ \A id \in S : \E j \in DOMAIN Deletes(S) : Deletes(S)[j].id = id
    BY <1>3, DeletesOf
  <2> QED
    BY <1>4, <2>1
<1>6. Spawn(writes) /\ pending' = {}
  BY <1>2, <1>4 DEF CleanUp
<1>7. CopyTypeOK' /\ Spawned(writes)
  <2>1. idReused' \in BOOLEAN /\ pending' \subseteq MatchIds /\ nextId' \in MatchIds
    BY <1>1, <1>6 DEF CopyTypeOK
  <2> QED
    BY <1>1, <1>3, <1>5, <1>6, <2>1, RoomsTyped
<1>8. ASSUME InOrder'
      PROVE  Followed'
  <2>1. InOrder
    BY <1>6, <1>8 DEF InOrder, Spawn
  <2>2. Followed
    BY <2>1 DEF CopyInv
  <2> QED
    <3>1. CleansUp(writes, gone, 0)
      BY <1>1, <1>2, <1>3, <1>5, <1>6 DEF CleansUp, CopyTypeOK
    <3>2. 0 \notin MatchIds
      BY MultiDbAssumption DEF MatchIds
    <3> QED
      BY <1>1, <1>5, <1>7, <2>2, <3>1, <3>2, CleanedUp
<1> QED
  BY <1>7, <1>8 DEF CopyInv

(* A room changes and is synced, or is not and counts as unsynced. *)
LEMMA ChangeStep ==
    ASSUME CopyInv, NEW x \in DOMAIN live, Tick, live' = [live EXCEPT ![x] = Now],
           NEW writes \in Seq(Writes), Spawn(writes), UNCHANGED <<nextId, pending, idReused>>,
           \A k \in DOMAIN writes : writes[k].id = x,
           \/ /\ unsynced' = unsynced \ {x}
              /\ \E k \in DOMAIN writes : /\ writes[k] = Upsert(x, Now)
                                          /\ \A m \in DOMAIN writes : m <= k
           \/ unsynced' = unsynced \cup {x} /\ writes = << >>
    PROVE  CopyInv'
<1>1. CopyTypeOK
  BY DEF CopyInv
<1>2. Now \in Versions /\ version' = Now
  BY <1>1, MultiDbAssumption DEF Tick, Now, Versions, CopyTypeOK
<1>3. /\ live' \in [DOMAIN live' -> Versions] /\ DOMAIN live' = DOMAIN live /\ live'[x] = Now
      /\ \A id \in DOMAIN live : id # x => live'[id] = live[id]
  BY <1>1, <1>2 DEF CopyTypeOK
<1>4. unsynced' \subseteq DOMAIN live' /\ \A id : id # x => (id \in unsynced <=> id \in unsynced')
  BY <1>1, <1>3 DEF CopyTypeOK
<1>5. CopyTypeOK' /\ Spawned(writes)
  <2>1. /\ idReused' \in BOOLEAN /\ pending' \subseteq MatchIds /\ nextId' \in MatchIds
        /\ DOMAIN live' \subseteq MatchIds /\ version' \in Versions \cup {0}
    BY <1>1, <1>2, <1>3 DEF CopyTypeOK
  <2> QED
    BY <1>1, <1>3, <1>4, <2>1, RoomsTyped
<1>6. ASSUME InOrder'
      PROVE  Followed'
  <2>1. InOrder
    BY <1>6 DEF InOrder, Spawn
  <2>2. Followed /\ tasks \in Seq(Writes)
    BY <1>1, <2>1 DEF CopyInv, CopyTypeOK
  <2>3. Shown(x)'
    <3>1. CASE \E k \in DOMAIN writes : /\ writes[k] = Upsert(x, Now)
                                        /\ \A m \in DOMAIN writes : m <= k
      <4>1. PICK k \in DOMAIN writes : writes[k] = Upsert(x, Now) /\ \A m \in DOMAIN writes : m <= k
        BY <3>1
      <4>2. writes[k].id = x /\ writes[k].write = "upsert" /\ writes[k].version = Now
        BY <4>1 DEF Upsert
      <4>3. \A m \in DOMAIN writes : ~(m > k)
        <5>1. DOMAIN writes \subseteq Nat
          BY LenProperties
        <5> QED
          BY <4>1, <5>1
      <4> QED
        BY <1>2, <1>3, <1>5, <2>2, <4>2, <4>3, ShownNow
    <3>2. CASE unsynced' = unsynced \cup {x} /\ writes = << >>
      <4>1. Shown(x) /\ x \in unsynced'
        BY <2>2, <3>2 DEF Followed
      <4>2. \A k \in DOMAIN writes : writes[k].id = x => writes[k].write = "record"
        BY <3>2
      <4> QED
        BY <1>5, <2>2, <4>1, <4>2, ShownStill
    <3> QED
      BY <3>1, <3>2
  <2> QED
    BY <1>1, <1>3, <1>4, <1>5, <2>2, <2>3, Changed
<1> QED
  BY <1>5, <1>6 DEF CopyInv

(* What a handler spawns about the room it changed ends in the upsert. *)
Syncs(writes, x, over) ==
    \/ writes = <<Upsert(x, Now)>>
    \/ writes = FinishWrites(x, over) \o <<Upsert(x, Now)>>
    \/ over /\ writes = FinishWrites(x, over)

LEMMA WritesOf ==
    ASSUME NEW x \in MatchIds, Now \in Versions, NEW over \in BOOLEAN, NEW writes,
           Syncs(writes, x, over)
    PROVE  /\ writes \in Seq(Writes)
           /\ \A k \in DOMAIN writes : writes[k].id = x
           /\ \E k \in DOMAIN writes : /\ writes[k] = Upsert(x, Now)
                                       /\ \A m \in DOMAIN writes : m <= k
<1>1. PICK u : u = Upsert(x, Now)
  OBVIOUS
<1>2. PICK r : r = Record(x)
  OBVIOUS
<1>3. u \in Writes /\ u.id = x /\ r \in Writes /\ r.id = x
  BY <1>1, <1>2 DEF Upsert, Record, Writes
<1>4. \/ writes = <<u>>
      \/ writes = <<r, u>>
      \/ writes = <<r, u>> \o <<u>>
  <2>1. << >> \o <<u>> = <<u>>
    BY <1>3
  <2> QED
    BY <1>1, <1>2, <2>1 DEF FinishWrites, Syncs
<1>5. CASE writes = <<u>>
  <2>1. writes \in Seq(Writes) /\ DOMAIN writes = {1} /\ writes[1] = u
    BY <1>3, <1>5
  <2> QED
    BY <1>1, <1>3, <2>1
<1>6. CASE writes = <<r, u>>
  <2>1. writes \in Seq(Writes) /\ DOMAIN writes = {1, 2} /\ writes[1] = r /\ writes[2] = u
    BY <1>3, <1>6
  <2> QED
    BY <1>1, <1>3, <2>1
<1>7. CASE writes = <<r, u>> \o <<u>>
  <2>1. PICK a : a = <<r, u>>
    OBVIOUS
  <2>2. PICK b : b = <<u>>
    OBVIOUS
  <2>3. a \in Seq(Writes) /\ Len(a) = 2 /\ a[1] = r /\ a[2] = u
    BY <1>3, <2>1
  <2>4. b \in Seq(Writes) /\ Len(b) = 1 /\ b[1] = u
    BY <1>3, <2>2
  <2>5. /\ a \o b \in Seq(Writes) /\ Len(a \o b) = Len(a) + Len(b)
        /\ \A i \in 1 .. Len(a) + Len(b) : (a \o b)[i] = IF i <= Len(a) THEN a[i] ELSE b[i - Len(a)]
    BY <2>3, <2>4, ConcatProperties
  <2>6. writes = a \o b
    BY <1>7, <2>1, <2>2
  <2>7. writes \in Seq(Writes) /\ Len(writes) = 3 /\ DOMAIN writes = 1 .. 3
    BY <2>3, <2>4, <2>5, <2>6, LenProperties
  <2>8. writes[1] = r /\ writes[2] = u /\ writes[3] = u
    BY <2>3, <2>4, <2>5, <2>6
  <2> QED
    BY <1>1, <1>3, <2>7, <2>8
<1> QED
  BY <1>4, <1>5, <1>6, <1>7

(* a change of a room, a player who leaves one, the end of a game,         *)
LEMMA EditStep ==
    ASSUME CopyInv, NEW x \in MatchIds, NEW over \in BOOLEAN,
           Edit(x) \/ PartOrTeam(x, over) \/ CompleteRoom(x, over)
    PROVE  CopyInv'
<1>1. /\ Tick /\ x \in DOMAIN live /\ live' = [live EXCEPT ![x] = Now]
      /\ UNCHANGED <<nextId, pending, idReused>>
  BY DEF Edit, PartOrTeam, CompleteRoom
<1>2. Now \in Versions
  BY <1>1, MultiDbAssumption DEF CopyInv, CopyTypeOK, Tick, Now, Versions
<1>3. \E writes :
        /\ Spawn(writes)
        /\ \/ unsynced' = unsynced \ {x} /\ Syncs(writes, x, over)
           \/ unsynced' = unsynced \cup {x} /\ writes = << >>
  <2>1. CASE Edit(x)
    BY <2>1 DEF Edit, Syncs
  <2>2. CASE PartOrTeam(x, over)
    BY <2>2 DEF PartOrTeam, Syncs
  <2>3. CASE CompleteRoom(x, over)
    <3>1. CASE over
      BY <2>3, <3>1 DEF CompleteRoom, Syncs
    <3>2. CASE ~over
      BY <2>3, <3>2 DEF CompleteRoom, FinishWrites
    <3> QED
      BY <3>1, <3>2
  <2> QED
    BY <2>1, <2>2, <2>3
<1>4. PICK writes :
        /\ Spawn(writes)
        /\ \/ unsynced' = unsynced \ {x} /\ Syncs(writes, x, over)
           \/ unsynced' = unsynced \cup {x} /\ writes = << >>
  BY <1>3
<1>5. /\ writes \in Seq(Writes) /\ \A k \in DOMAIN writes : writes[k].id = x
      /\ \/ /\ unsynced' = unsynced \ {x}
            /\ \E k \in DOMAIN writes : /\ writes[k] = Upsert(x, Now)
                                        /\ \A m \in DOMAIN writes : m <= k
         \/ unsynced' = unsynced \cup {x} /\ writes = << >>
  <2>1. CASE unsynced' = unsynced \cup {x} /\ writes = << >>
    BY <2>1
  <2>2. CASE unsynced' = unsynced \ {x} /\ Syncs(writes, x, over)
    <3>1. /\ writes \in Seq(Writes)
          /\ \A k \in DOMAIN writes : writes[k].id = x
          /\ \E k \in DOMAIN writes : /\ writes[k] = Upsert(x, Now)
                                      /\ \A m \in DOMAIN writes : m <= k
      BY <1>2, <2>2, WritesOf
    <3> QED
      BY <2>2, <3>1
  <2> QED
    BY <1>4, <2>1, <2>2
<1> QED
  BY <1>1, <1>4, <1>5, ChangeStep

(* the end of sessions,                                                    *)
LEMMA EndStep ==
    ASSUME CopyInv, NEW p \in Leaving, EndSessions(p[1], p[2])
    PROVE  CopyInv'
<1>1. CopyTypeOK
  BY DEF CopyInv
<1>2. PICK l : l = Left(p[1], p[2])
  OBVIOUS
<1>3. /\ l \in [DOMAIN l -> Versions] /\ DOMAIN l = DOMAIN live \ p[2]
      /\ p[1] \subseteq DOMAIN live /\ p[2] \subseteq p[1]
      /\ Now \in Versions /\ version' = Now
      /\ \A id \in DOMAIN l : l[id] = live[id] \/ id \in p[1]
  BY <1>1, <1>2, LeftTyped DEF EndSessions
<1>4. /\ live' = l /\ CleanUp(p[2]) /\ unsynced' = (unsynced \cup p[1]) \ p[2]
      /\ UNCHANGED <<nextId, idReused>>
  BY <1>2 DEF EndSessions
<1>5. /\ p[2] \subseteq DOMAIN live /\ live' \in [DOMAIN live' -> Versions]
      /\ DOMAIN live' = DOMAIN live \ p[2] /\ version' \in Versions \cup {0}
      /\ unsynced' \subseteq DOMAIN live'
      /\ \A id \in DOMAIN live' : id \in unsynced' \/ (id \notin unsynced /\ live'[id] = live[id])
  BY <1>1, <1>3, <1>4 DEF CopyTypeOK
<1> QED
  BY <1>4, <1>5, CleanStep

(* the last player who leaves,                                             *)
LEMMA DisbandStep ==
    ASSUME CopyInv, NEW x, Disband(x)
    PROVE  CopyInv'
<1>1. CopyTypeOK
  BY DEF CopyInv
<1>2. /\ x \in DOMAIN live /\ live' = Without(live, {x}) /\ CleanUp({x})
      /\ unsynced' = unsynced \ {x} /\ UNCHANGED <<version, nextId, idReused>>
  BY DEF Disband
<1>3. /\ DOMAIN live' = DOMAIN live \ {x} /\ live' \in [DOMAIN live' -> Versions]
      /\ \A id \in DOMAIN live' : live'[id] = live[id]
  BY <1>1, <1>2 DEF Without, Restrict, CopyTypeOK
<1>4. /\ {x} \subseteq DOMAIN live /\ version' \in Versions \cup {0}
      /\ unsynced' \subseteq DOMAIN live'
      /\ \A id \in DOMAIN live' : id \in unsynced' \/ (id \notin unsynced /\ live'[id] = live[id])
  BY <1>1, <1>2, <1>3 DEF CopyTypeOK
<1> QED
  BY <1>2, <1>3, <1>4, CleanStep

(* a room that vanishes under a join,                                      *)
LEMMA VanishStep ==
    ASSUME CopyInv, NEW x, JoinVanished(x)
    PROVE  CopyInv'
<1>1. CopyTypeOK
  BY DEF CopyInv
<1>2. /\ x \in DOMAIN live /\ live' = Without(live, {x}) /\ pending' = pending \cup {x}
      /\ unsynced' = unsynced \ {x}
      /\ UNCHANGED <<version, nextId, idReused, tasks, rows, games, shuffled, lost>>
  BY DEF JoinVanished, dbVars, tables
<1>3. /\ DOMAIN live' = DOMAIN live \ {x} /\ live' \in [DOMAIN live' -> Versions]
      /\ \A id \in DOMAIN live' : live'[id] = live[id]
  BY <1>1, <1>2 DEF Without, Restrict, CopyTypeOK
<1>4. CopyTypeOK'
  BY <1>1, <1>2, <1>3 DEF CopyTypeOK
<1>5. ASSUME InOrder'
      PROVE  Followed'
  <2>1. Followed
    BY <1>2, <1>5 DEF InOrder, CopyInv
  <2>2. /\ {x} \subseteq DOMAIN live
        /\ \A id \in DOMAIN live' : id \in unsynced' \/ (id \notin unsynced /\ live'[id] = live[id])
    BY <1>2, <1>3
  <2> QED
    BY <1>1, <1>2, <1>3, <2>1, <2>2, Unsynced
<1> QED
  BY <1>4, <1>5 DEF CopyInv

(* an eviction,                                                            *)
LEMMA EvictStep ==
    ASSUME CopyInv, NEW p \in Leaving, EvictSession(p[1], p[2])
    PROVE  CopyInv'
<1>1. CopyTypeOK
  BY DEF CopyInv
<1>2. PICK l : l = Left(p[1], p[2])
  OBVIOUS
<1>3. /\ l \in [DOMAIN l -> Versions] /\ DOMAIN l = DOMAIN live \ p[2]
      /\ p[1] \subseteq DOMAIN live /\ p[2] \subseteq p[1]
      /\ Now \in Versions /\ version' = Now
      /\ \A id \in DOMAIN l : l[id] = live[id] \/ id \in p[1]
  BY <1>1, <1>2, LeftTyped DEF EvictSession
<1>4. /\ live' = l /\ pending' = pending \cup p[2] /\ unsynced' = (unsynced \cup p[1]) \ p[2]
      /\ UNCHANGED <<nextId, idReused, tasks, rows, games, shuffled, lost>>
  BY <1>2 DEF EvictSession, dbVars, tables
<1>5. /\ p[2] \subseteq DOMAIN live /\ live' \in [DOMAIN live' -> Versions]
      /\ DOMAIN live' = DOMAIN live \ p[2] /\ version' \in Versions \cup {0}
      /\ unsynced' \subseteq DOMAIN live'
      /\ \A id \in DOMAIN live' : id \in unsynced' \/ (id \notin unsynced /\ live'[id] = live[id])
  BY <1>1, <1>3, <1>4 DEF CopyTypeOK
<1>6. CopyTypeOK'
  BY <1>1, <1>4, <1>5 DEF CopyTypeOK
<1>7. ASSUME InOrder'
      PROVE  Followed'
  <2>1. Followed
    BY <1>4, <1>7 DEF InOrder, CopyInv
  <2> QED
    BY <1>1, <1>4, <1>5, <2>1, Unsynced
<1> QED
  BY <1>6, <1>7 DEF CopyInv

(* a write,                                                                *)
LEMMA RunStep ==
    ASSUME CopyInv, NEW i \in DOMAIN tasks, Run(i)
    PROVE  CopyInv'
<1>1. /\ CopyTypeOK /\ tasks \in Seq(Writes) /\ tasks' = RemoveAt(tasks, i)
      /\ UNCHANGED <<lost, live, version, nextId, pending, unsynced, idReused>>
  BY DEF CopyInv, CopyTypeOK, Run, rooms
<1>2. tasks' \in Seq(Writes) /\ tasks[i] \in Writes
  BY <1>1, Removed, ElementOfSeq, LenProperties
<1>3. shuffled' \in BOOLEAN /\ (~shuffled' => ~shuffled)
  BY <1>1 DEF Run, CopyTypeOK
<1>4. /\ rows' \in [DOMAIN rows' -> Versions] /\ DOMAIN rows' \subseteq MatchIds
      /\ games' \subseteq MatchIds
  <2>1. CASE tasks[i].write = "upsert"
    BY <1>1, <1>2, <2>1 DEF Run, Apply, Put, CopyTypeOK, Writes
  <2>2. CASE tasks[i].write = "record"
    BY <1>1, <1>2, <2>2 DEF Run, Apply, CopyTypeOK, Writes
  <2>3. CASE tasks[i].write = "delete"
    BY <1>1, <1>2, <2>3 DEF Run, Apply, Without, Restrict, CopyTypeOK, Writes
  <2> QED
    BY <1>2, <2>1, <2>2, <2>3 DEF Writes
<1>5. CopyTypeOK'
  BY <1>1, <1>2, <1>3, <1>4 DEF CopyTypeOK
<1>6. ASSUME InOrder'
      PROVE  Followed'
  <2>1. Followed /\ ~shuffled'
    BY <1>1, <1>3, <1>6 DEF InOrder, CopyInv
  <2>2. ASSUME NEW id
        PROVE  (Shown(id) => Shown(id)') /\ (Erased(id) => Erased(id)')
    <3>1. CASE tasks[i].id = id
      BY <1>1, <2>1, <3>1, RunFirst
    <3>2. CASE tasks[i].id # id
      BY <1>1, <3>2, RunOther
    <3> QED
      BY <3>1, <3>2
  <2> QED
    BY <1>1, <2>1, <2>2 DEF Followed
<1> QED
  BY <1>5, <1>6 DEF CopyInv

(* a write that fails.                                                     *)
LEMMA FailStep ==
    ASSUME CopyInv, NEW i \in DOMAIN tasks, Fail(i)
    PROVE  CopyInv'
<1>1. /\ CopyTypeOK /\ tasks \in Seq(Writes) /\ tasks' = RemoveAt(tasks, i) /\ lost'
      /\ lost' = TRUE
      /\ UNCHANGED <<rows, games, shuffled, live, version, nextId, pending, unsynced, idReused>>
  BY DEF CopyInv, CopyTypeOK, Fail, rooms, tables
<1>2. tasks' \in Seq(Writes)
  BY <1>1, Removed
<1>3. CopyTypeOK'
  BY <1>1, <1>2 DEF CopyTypeOK
<1> QED
  BY <1>1, <1>3 DEF CopyInv, InOrder

(* A step of the copy keeps its invariant. *)
LEMMA CopyStep == CopyInv /\ [CopyNext]_copyVars => CopyInv'
<1> SUFFICES ASSUME CopyInv, [CopyNext]_copyVars PROVE CopyInv'
  OBVIOUS
<1>1. ASSUME NEW p \in Leaving, CreateRoom(p[1], p[2]) PROVE CopyInv'
  BY <1>1, CreateStep
<1>2. ASSUME NEW p \in Leaving, EndSessions(p[1], p[2]) PROVE CopyInv'
  BY <1>2, EndStep
<1>3. ASSUME NEW p \in Leaving, EvictSession(p[1], p[2]) PROVE CopyInv'
  BY <1>3, EvictStep
<1>4. ASSUME NEW p \in Leaving, NEW x \in MatchIds, JoinRoom(x, p[1], p[2]) PROVE CopyInv'
  BY <1>4, JoinStep
<1>5. ASSUME NEW x \in MatchIds, JoinVanished(x) \/ Disband(x) PROVE CopyInv'
  BY <1>5, VanishStep, DisbandStep
<1>6. ASSUME NEW x \in MatchIds, NEW over \in BOOLEAN,
             Edit(x) \/ PartOrTeam(x, over) \/ CompleteRoom(x, over)
      PROVE  CopyInv'
  BY <1>6, EditStep
<1>7. ASSUME NEW i \in DOMAIN tasks, Run(i) \/ Fail(i) PROVE CopyInv'
  BY <1>7, RunStep, FailStep
<1>8. CASE Crash
  <2>1. CopyInit'
    BY <1>8 DEF Crash, CopyInit
  <2> QED
    BY <2>1, CopyFirst, PTL
<1>9. CASE UNCHANGED copyVars
  <2>1. UNCHANGED <<live, version, nextId, pending, unsynced, idReused, tasks, rows, games,
                    shuffled, lost>>
    BY <1>9 DEF copyVars, rooms, dbVars, tables
  <2> QED
    BY <2>1 DEF CopyInv, CopyTypeOK, InOrder, Followed, Shown, UpsertLast, OnlyRecords, Erased,
                DeleteLast, NoTask
<1>10. CASE CopyNext
  <2>1. PICK over \in BOOLEAN : over
    OBVIOUS
  <2> QED
    BY <1>10, <2>1, <1>1, <1>2, <1>3, <1>4, <1>5, <1>6, <1>7, <1>8 DEF CopyNext
<1> QED
  BY <1>9, <1>10

(* Rooms, writes and tables keep their types, and only a live room counts  *)
(* as not synced, for any ids and bounds, after crashes and lost writes.   *)
THEOREM CopyTyped == CopySpec => []CopyTypeOK
<1>1. CopyInv => CopyTypeOK
  BY DEF CopyInv
<1> QED
  BY <1>1, CopyFirst, CopyStep, PTL DEF CopySpec

(* Once the writes are done the tables hold the live rooms, all of them    *)
(* and nothing else, and each as it was last synced, whatever handlers     *)
(* created, changed, left and disbanded rooms, had the writes of a room    *)
(* run in the order they were spawned and none been lost.                  *)
THEOREM TablesFollowRooms == CopySpec => []RowsFollowRooms
<1>1. CopyInv => RowsFollowRooms
  <2> SUFFICES ASSUME CopyInv, Settled /\ InOrder
               PROVE  /\ DOMAIN rows = DOMAIN live /\ games \subseteq DOMAIN live
                      /\ \A id \in DOMAIN live \ unsynced : id \in DOMAIN rows /\ rows[id] = live[id]
    BY DEF RowsFollowRooms, RoomsListed, RowsFresh
  <2>1. Followed /\ CopyTypeOK /\ DOMAIN tasks = {} /\ pending = {}
    BY DEF CopyInv, Settled
  <2>2. /\ DOMAIN live \subseteq MatchIds /\ DOMAIN rows \subseteq MatchIds
        /\ games \subseteq MatchIds
    BY <2>1 DEF CopyTypeOK
  <2>3. ASSUME NEW id \in DOMAIN live
        PROVE  id \in DOMAIN rows /\ (id \in unsynced \/ rows[id] = live[id])
    <3>1. Shown(id)
      BY <2>1 DEF Followed
    <3> QED
      BY <2>1, <3>1 DEF Shown, UpsertLast
  <2>4. ASSUME NEW id \in MatchIds, id \notin DOMAIN live
        PROVE  id \notin DOMAIN rows /\ id \notin games
    <3>1. Erased(id)
      BY <2>1, <2>4 DEF Followed
    <3> QED
      BY <2>1, <3>1 DEF Erased, DeleteLast
  <2> QED
    BY <2>2, <2>3, <2>4
<1> QED
  BY <1>1, CopyFirst, CopyStep, PTL DEF CopySpec
=============================================================================
