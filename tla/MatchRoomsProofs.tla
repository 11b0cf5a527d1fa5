-------------------------- MODULE MatchRoomsProofs --------------------------
(***************************************************************************)
(* Proofs about MatchRooms for every set of users, every number of slots   *)
(* and every range of match ids.                                           *)
(*                                                                         *)
(* The seating is inductive once it is put per room: RoomOK says what a    *)
(* room owes to itself, RoomsOK adds that whoever sits in a room is mapped *)
(* to it.  The lemmas take one operation on one room each; the step lemma  *)
(* then goes through the actions.  RecordsOK is inductive beside it while  *)
(* no id in use is given out.  What single steps may do to a room (who     *)
(* hosts it, what is locked, when a game ends or stalls) comes last.       *)
(***************************************************************************)
EXTENDS MatchRooms, WellFoundedInduction, TLAPS

(* A room on its own: slots and users agree, no user twice, the host in it, *)
(* and players only in a game.                                              *)
RoomOK(r) ==
    /\ \A i \in Slots : r.slots[i].status \in HasPlayer
                            <=> r.slots[i].user # NoUser
    /\ \A i, j \in Slots : /\ r.slots[i].user = r.slots[j].user
                           /\ r.slots[i].user # NoUser
                           => i = j
    /\ \E i \in Slots : r.slots[i].user = r.host
    /\ \A i \in Slots : r.slots[i].status = "playing" => r.inProgress

RoomsOK(rooms, map) ==
    /\ rooms \in [DOMAIN rooms -> Room]
    /\ DOMAIN rooms \subseteq MatchIds
    /\ map \in [DOMAIN map -> MatchIds]
    /\ DOMAIN map \subseteq Users
    /\ \A m \in DOMAIN rooms : RoomOK(rooms[m])
    /\ \A m \in DOMAIN rooms, i \in Slots :
        LET u == rooms[m].slots[i].user
        IN u # NoUser => u \in DOMAIN map /\ map[u] = m

IInv == TypeOK /\ RoomsOK(matches, userToMatch)

(* users of r are users of s *)
UsersWithin(r, s) ==
    \A i \in Slots : r.slots[i].user # NoUser =>
        \E j \in Slots : s.slots[j].user = r.slots[i].user

-----------------------------------------------------------------------------
NatLess == {p \in Nat \X Nat : p[1] < p[2]}

(* A nonempty set of slots has a first one. *)
LEMMA FirstIsLeast ==
    ASSUME NEW S, S \subseteq Slots, S # {}
    PROVE  First(S) \in S /\ \A j \in S : First(S) <= j
<1>1. S \subseteq Nat
  BY RoomsAssumption DEF Slots
<1>2. OpToRel(<, Nat) = NatLess
  BY DEF OpToRel, NatLess
<1>3. IsWellFoundedOn(NatLess, Nat)
  BY <1>2, NatLessThanWellFounded, Zenon
<1>4. PICK i \in S : \A j \in S : <<j, i>> \notin NatLess
  BY <1>1, <1>3, WFMin, Zenon
<1>5. \A j \in S : i <= j
  <2> SUFFICES ASSUME NEW j \in S PROVE ~(j < i)
    BY <1>1
  <2> QED
    BY <1>1, <1>4 DEF NatLess
<1> QED
  BY <1>5 DEF First

LEMMA SlotsNonEmpty == 0 \in Slots /\ Slots \subseteq Nat
BY RoomsAssumption DEF Slots

(* The room invariant is the seating invariant. *)
LEMMA SeatingIsRoomsOK == IInv => SeatingOK
<1> SUFFICES ASSUME IInv PROVE SeatingOK
  OBVIOUS
<1> USE DEF IInv, RoomsOK, RoomOK
<1>1. OccupiedSlots
  BY DEF OccupiedSlots
<1>2. SeatsAreMapped
  BY DEF SeatsAreMapped
<1>3. OneSlotEach
  BY DEF OneSlotEach
<1>4. HostSeated
  BY DEF HostSeated, SlotsOf
<1>5. PlayingInProgress
  BY DEF PlayingInProgress, SlotsIn
<1> QED
  BY <1>1, <1>2, <1>3, <1>4, <1>5 DEF SeatingOK
-----------------------------------------------------------------------------
(* Operations on one room *)

(* Putting a good room in the place of another keeps the rooms good, as    *)
(* long as it seats nobody the other did not.                              *)
LEMMA ReplaceRoom ==
    ASSUME NEW rooms, NEW map, RoomsOK(rooms, map),
           NEW m \in DOMAIN rooms, NEW r \in Room,
           RoomOK(r), UsersWithin(r, rooms[m])
    PROVE  RoomsOK([rooms EXCEPT ![m] = r], map)
<1> DEFINE new == [rooms EXCEPT ![m] = r]
<1>1. DOMAIN new = DOMAIN rooms /\ new[m] = r /\ \A k \in DOMAIN rooms \ {m} : new[k] = rooms[k]
  BY DEF RoomsOK
<1>2. new \in [DOMAIN new -> Room]
  BY DEF RoomsOK
<1>3. \A k \in DOMAIN new : RoomOK(new[k])
  BY <1>1 DEF RoomsOK
<1>4. ASSUME NEW k \in DOMAIN new, NEW i \in Slots, new[k].slots[i].user # NoUser
      PROVE  new[k].slots[i].user \in DOMAIN map /\ map[new[k].slots[i].user] = k
  BY <1>1, <1>4 DEF RoomsOK, UsersWithin
<1> HIDE DEF new
<1>5. RoomsOK(new, map)
  BY <1>1, <1>2, <1>3, <1>4 DEF RoomsOK
<1> QED
  BY <1>5 DEF new

(* What remains of a room when the players L leave it: exactly their slots *)
(* are cleared, and if a player remains the room is good and the host is a *)
(* remaining player.                                                       *)
LEMMA VacateSlots ==
    ASSUME NEW r \in Room, RoomOK(r), NEW L, L \subseteq Users,
           \A u \in L : SlotsOf(r, u) # {},
           NEW i \in Slots
    PROVE  SlotsWithout(r, L)[i] =
              IF r.slots[i].user \in L THEN DefaultSlot ELSE r.slots[i]
<1>1. ASSUME NEW u \in L PROVE r.slots[First(SlotsOf(r, u))].user = u /\ First(SlotsOf(r, u)) \in Slots
  <2>1. SlotsOf(r, u) \subseteq Slots /\ SlotsOf(r, u) # {}
    BY DEF SlotsOf
  <2> QED
    BY <2>1, FirstIsLeast DEF SlotsOf
<1>2. (\E u \in L : i = First(SlotsOf(r, u))) <=> r.slots[i].user \in L
  <2>1. CASE r.slots[i].user \in L
    <3> DEFINE u == r.slots[i].user
    <3>1. u # NoUser
      BY <2>1, RoomsAssumption
    <3>2. i = First(SlotsOf(r, u))
      BY <1>1, <2>1, <3>1 DEF RoomOK
    <3> QED
      BY <2>1, <3>2
  <2>2. CASE r.slots[i].user \notin L
    BY <1>1, <2>2
  <2> QED
    BY <2>1, <2>2
<1> QED
  BY <1>2 DEF SlotsWithout

LEMMA VacateRoom ==
    ASSUME NEW r \in Room, RoomOK(r), NEW L, L \subseteq Users,
           \A u \in L : SlotsOf(r, u) # {},
           L = {} \/ PlayerSlots(SlotsWithout(r, L)) # {}
    PROVE  /\ LeftBehind(r, L) \in Room
           /\ RoomOK(LeftBehind(r, L))
           /\ UsersWithin(LeftBehind(r, L), r)
           /\ \A i \in Slots : LeftBehind(r, L).slots[i].user \notin L
<1> DEFINE s == SlotsWithout(r, L)
<1> DEFINE f == First(PlayerSlots(s))
<1> DEFINE n == LeftBehind(r, L)
<1>1. \A i \in Slots : s[i] = IF r.slots[i].user \in L THEN DefaultSlot ELSE r.slots[i]
  BY VacateSlots
<1>2. s \in [Slots -> Slot]
  <2>1. DefaultSlot \in Slot
    BY DEF DefaultSlot, Slot, Status
  <2>2. DOMAIN s = Slots /\ s = [i \in Slots |-> s[i]]
    BY DEF SlotsWithout
  <2> QED
    BY <1>1, <2>1, <2>2 DEF Room
<1>3. n = [inProgress |-> r.inProgress,
           host |-> IF r.host \in L THEN s[f].user ELSE r.host, slots |-> s]
  BY DEF LeftBehind
<1>4. \E i \in Slots : s[i].user = n.host /\ n.host \in Users
  <2>1. CASE r.host \in L
    <3>1. PlayerSlots(s) # {} /\ PlayerSlots(s) \subseteq Slots
      BY <2>1 DEF PlayerSlots
    <3>2. f \in PlayerSlots(s)
      BY <3>1, FirstIsLeast
    <3>3. s[f].user \in Users /\ f \in Slots
      BY <1>2, <3>2 DEF PlayerSlots, Slot
    <3> QED
      BY <1>3, <2>1, <3>3
  <2>2. CASE r.host \notin L
    <3>1. PICK i \in Slots : r.slots[i].user = r.host
      BY DEF RoomOK
    <3>2. s[i].user = r.host /\ n.host = r.host /\ r.host \in Users
      BY <1>1, <1>3, <2>2, <3>1 DEF Room
    <3> QED
      BY <3>2
  <2> QED
    BY <2>1, <2>2
<1>5. n.slots = s /\ n.inProgress = r.inProgress
  BY <1>3
<1>6. n \in Room
  BY <1>2, <1>3, <1>4 DEF Room
<1> HIDE DEF s, f, n
<1>7. \A i \in Slots : n.slots[i] = IF r.slots[i].user \in L THEN DefaultSlot ELSE r.slots[i]
  BY <1>1, <1>5
<1>8. RoomOK(n)
  <2>1. \A i \in Slots : n.slots[i].status \in HasPlayer <=> n.slots[i].user # NoUser
    BY <1>7 DEF RoomOK, DefaultSlot, HasPlayer
  <2>2. \A i, j \in Slots : n.slots[i].user = n.slots[j].user /\ n.slots[i].user # NoUser => i = j
    BY <1>7 DEF RoomOK, DefaultSlot
  <2>3. \A i \in Slots : n.slots[i].status = "playing" => n.inProgress
    BY <1>5, <1>7 DEF RoomOK, DefaultSlot
  <2> QED
    BY <1>4, <1>5, <2>1, <2>2, <2>3 DEF RoomOK
<1>9. UsersWithin(n, r)
  BY <1>7 DEF UsersWithin, DefaultSlot
<1>10. \A i \in Slots : n.slots[i].user \notin L
  BY <1>7, RoomsAssumption DEF DefaultSlot
<1> QED
  BY <1>6, <1>8, <1>9, <1>10 DEF n

(* A finished game leaves its room good: nobody is playing in it. *)
LEMMA ConcludeRoom ==
    ASSUME NEW r \in Room, RoomOK(r), GameOver(r)
    PROVE  /\ Concluded(r) \in Room
           /\ RoomOK(Concluded(r))
           /\ UsersWithin(Concluded(r), r)
<1> DEFINE n == Concluded(r)
<1>1. /\ n.inProgress = FALSE /\ n.host = r.host
      /\ n.slots = [i \in Slots |-> IF r.slots[i].status \in HasPlayer
                       THEN [r.slots[i] EXCEPT !.status = "notReady"]
                       ELSE r.slots[i]]
  BY DEF Concluded, Room
<1>2. \A i \in Slots : /\ n.slots[i] \in Slot
                       /\ n.slots[i].user = r.slots[i].user
                       /\ n.slots[i].status = IF r.slots[i].status \in HasPlayer
                                              THEN "notReady" ELSE r.slots[i].status
  BY <1>1 DEF Room, Slot, Status, HasPlayer
<1>3. n \in Room
  BY <1>1, <1>2 DEF Concluded, Room
<1>4. \A i \in Slots : n.slots[i].status # "playing"
  BY <1>2 DEF HasPlayer
<1> HIDE DEF n
<1>5. RoomOK(n)
  BY <1>1, <1>2, <1>4 DEF RoomOK, HasPlayer
<1>6. UsersWithin(n, r)
  BY <1>2 DEF UsersWithin
<1> QED
  BY <1>3, <1>5, <1>6 DEF n

LEMMA SettleRooms ==
    ASSUME NEW rooms, NEW map, RoomsOK(rooms, map), NEW m
    PROVE  RoomsOK(Settled(rooms, Finished(rooms, m)), map)
<1> DEFINE F == Finished(rooms, m)
<1> DEFINE n == Settled(rooms, F)
<1>1. \A k \in F : k \in DOMAIN rooms /\ GameOver(rooms[k])
  BY DEF Finished
<1>2. DOMAIN n = DOMAIN rooms /\ \A k \in DOMAIN rooms :
        n[k] = IF k \in F THEN Concluded(rooms[k]) ELSE rooms[k]
  BY DEF Settled
<1>3. n = [k \in DOMAIN n |-> n[k]]
  BY DEF Settled
<1> HIDE DEF n, F
<1>4. ASSUME NEW k \in DOMAIN rooms
      PROVE  n[k] \in Room /\ RoomOK(n[k]) /\ UsersWithin(n[k], rooms[k])
  <2>1. rooms[k] \in Room /\ RoomOK(rooms[k])
    BY DEF RoomsOK
  <2> QED
    BY <1>1, <1>2, <2>1, ConcludeRoom DEF UsersWithin
<1>5. n \in [DOMAIN n -> Room]
  BY <1>2, <1>3, <1>4
<1>6. ASSUME NEW k \in DOMAIN n, NEW i \in Slots, n[k].slots[i].user # NoUser
      PROVE  n[k].slots[i].user \in DOMAIN map /\ map[n[k].slots[i].user] = k
  BY <1>2, <1>4, <1>6 DEF RoomsOK, UsersWithin
<1>7. RoomsOK(n, map)
  BY <1>2, <1>4, <1>5, <1>6 DEF RoomsOK
<1> QED
  BY <1>7 DEF n, F

(* Leaving: what remove_user_from_match leaves behind is good, and seats  *)
(* none of those who left.                                                 *)
LEMMA LeaveRooms ==
    ASSUME IInv, NEW T, T \subseteq Users
    PROVE  /\ RoomsOK(RoomsWithout(T), Without(userToMatch, T))
           /\ DOMAIN RoomsWithout(T) = DOMAIN matches \ Disbanded(T)
           /\ \A m \in DOMAIN RoomsWithout(T), i \in Slots :
                 RoomsWithout(T)[m].slots[i].user \notin T
<1> DEFINE rest == RoomsWithout(T)
<1> DEFINE map == Without(userToMatch, T)
<1>0. matches \in [DOMAIN matches -> Room] /\ DOMAIN matches \subseteq MatchIds
  BY DEF IInv, RoomsOK
<1>1. DOMAIN rest = DOMAIN matches \ Disbanded(T) /\ rest = [m \in DOMAIN rest |-> rest[m]]
  BY DEF RoomsWithout
<1>2. \A m \in DOMAIN rest : rest[m] = LeftBehind(matches[m], Leavers(T, m))
  BY DEF RoomsWithout
<1>3. ASSUME NEW m \in DOMAIN matches, NEW i \in Slots, matches[m].slots[i].user \in T
      PROVE  matches[m].slots[i].user \in Leavers(T, m)
  BY <1>3, RoomsAssumption DEF IInv, RoomsOK, Leavers, Seated, SlotsOf
<1>4. ASSUME NEW m \in DOMAIN rest
      PROVE  /\ rest[m] \in Room /\ RoomOK(rest[m]) /\ UsersWithin(rest[m], matches[m])
             /\ \A i \in Slots : rest[m].slots[i].user \notin T
  <2> DEFINE L == Leavers(T, m)
  <2>1. L \subseteq Users /\ \A u \in L : SlotsOf(matches[m], u) # {}
    BY DEF Leavers, Seated
  <2>2. L = {} \/ PlayerSlots(SlotsWithout(matches[m], L)) # {}
    BY <1>1 DEF Disbanded
  <2>3. matches[m] \in Room /\ RoomOK(matches[m])
    BY <1>1 DEF IInv, RoomsOK
  <2> HIDE DEF L
  <2>4. /\ LeftBehind(matches[m], L) \in Room
        /\ RoomOK(LeftBehind(matches[m], L))
        /\ UsersWithin(LeftBehind(matches[m], L), matches[m])
        /\ \A i \in Slots : LeftBehind(matches[m], L).slots[i].user \notin L
    BY <2>1, <2>2, <2>3, VacateRoom
  <2>5. rest[m] = LeftBehind(matches[m], L)
    BY <1>2 DEF L
  <2>6. ASSUME NEW i \in Slots, rest[m].slots[i].user \in T PROVE FALSE
    <3>1. rest[m].slots[i].user # NoUser
      BY <2>6, RoomsAssumption
    <3>2. PICK j \in Slots : matches[m].slots[j].user = rest[m].slots[i].user
      BY <2>4, <2>5, <3>1 DEF UsersWithin
    <3>3. rest[m].slots[i].user \in L
      BY <1>1, <1>3, <2>6, <3>2 DEF L
    <3> QED
      BY <2>4, <2>5, <3>3
  <2> QED
    BY <2>4, <2>5, <2>6
<1>5. map \in [DOMAIN map -> MatchIds] /\ DOMAIN map = DOMAIN userToMatch \ T
         /\ \A u \in DOMAIN map : map[u] = userToMatch[u]
  BY DEF IInv, RoomsOK, Without, Restrict
<1> HIDE DEF rest, map
<1>6. ASSUME NEW m \in DOMAIN rest, NEW i \in Slots, rest[m].slots[i].user # NoUser
      PROVE  rest[m].slots[i].user \in DOMAIN map /\ map[rest[m].slots[i].user] = m
  BY <1>1, <1>4, <1>5, <1>6 DEF IInv, RoomsOK, UsersWithin
<1>7. rest \in [DOMAIN rest -> Room]
  BY <1>1, <1>4
<1>8. DOMAIN rest \subseteq MatchIds /\ DOMAIN map \subseteq Users
  BY <1>0, <1>1, <1>5 DEF IInv, RoomsOK
<1>9. RoomsOK(rest, map)
  BY <1>4, <1>5, <1>6, <1>7, <1>8 DEF RoomsOK
<1> QED
  BY <1>1, <1>4, <1>9 DEF rest, map

(* A user who sits nowhere may be mapped anywhere. *)
LEMMA MapNewcomer ==
    ASSUME NEW rooms, NEW map, NEW u \in Users, NEW id \in MatchIds,
           RoomsOK(rooms, Without(map, {u})),
           map \in [DOMAIN map -> MatchIds], DOMAIN map \subseteq Users
    PROVE  RoomsOK(rooms, Put(map, u, id))
<1>1. /\ DOMAIN Without(map, {u}) = DOMAIN map \ {u}
      /\ \A x \in DOMAIN map \ {u} : Without(map, {u})[x] = map[x]
  BY DEF Without, Restrict
<1>2. /\ Put(map, u, id) \in [DOMAIN map \cup {u} -> MatchIds]
      /\ DOMAIN Put(map, u, id) = DOMAIN map \cup {u}
      /\ \A x \in DOMAIN map \ {u} : Put(map, u, id)[x] = map[x]
      /\ Put(map, u, id)[u] = id
  BY DEF Put
<1> QED
  BY <1>1, <1>2 DEF RoomsOK

(* A room just created is good, and so are the rooms with it, whether its  *)
(* id is fresh or overwrites a room.                                       *)
LEMMA AddRoom ==
    ASSUME NEW rooms, NEW map, NEW u \in Users, NEW id \in MatchIds,
           RoomsOK(rooms, map), u \in DOMAIN map, map[u] = id
    PROVE  RoomsOK(Put(rooms, id, NewRoom(u)), map)
<1> DEFINE r == NewRoom(u)
<1> DEFINE n == Put(rooms, id, r)
<1>1. \A i \in Slots : r.slots[i] = IF i = 0 THEN [status |-> "notReady", user |-> u]
                                    ELSE DefaultSlot
  BY DEF NewRoom
<1>2. r.host = u /\ r.inProgress = FALSE
  BY DEF NewRoom
<1>3. r \in Room
  BY DEF NewRoom, Room, Slot, Status, HasPlayer, DefaultSlot
<1>4. /\ DOMAIN n = DOMAIN rooms \cup {id} /\ n[id] = r
      /\ \A k \in DOMAIN rooms \ {id} : n[k] = rooms[k]
      /\ n = [k \in DOMAIN n |-> n[k]]
  BY DEF Put
<1> HIDE DEF r, n
<1>5. RoomOK(r)
  BY <1>1, <1>2, SlotsNonEmpty, RoomsAssumption DEF RoomOK, DefaultSlot, HasPlayer
<1>6. \A k \in DOMAIN n : n[k] \in Room /\ RoomOK(n[k])
  BY <1>3, <1>4, <1>5 DEF RoomsOK
<1>7. n \in [DOMAIN n -> Room]
  BY <1>4, <1>6
<1>8. ASSUME NEW k \in DOMAIN n, NEW i \in Slots, n[k].slots[i].user # NoUser
      PROVE  n[k].slots[i].user \in DOMAIN map /\ map[n[k].slots[i].user] = k
  BY <1>1, <1>4, <1>8 DEF RoomsOK, DefaultSlot
<1>9. RoomsOK(n, map)
  BY <1>4, <1>6, <1>7, <1>8 DEF RoomsOK
<1> QED
  BY <1>9 DEF n, r

-----------------------------------------------------------------------------
(* One lemma per action that edits a room in place: the new room is good   *)
(* and seats nobody else, so ReplaceRoom applies.                          *)

LEMMA SeatedUser ==
    ASSUME IInv, NEW u, Seated(u)
    PROVE  /\ userToMatch[u] \in DOMAIN matches
           /\ matches[userToMatch[u]] \in Room
           /\ RoomOK(matches[userToMatch[u]])
           /\ SlotOf(u) \in Slots
           /\ matches[userToMatch[u]].slots[SlotOf(u)].user = u
           /\ u \in Users
<1> DEFINE S == SlotsOf(matches[userToMatch[u]], u)
<1>1. S \subseteq Slots /\ S # {}
  BY DEF SlotsOf, Seated
<1>2. First(S) \in S
  BY <1>1, FirstIsLeast
<1> QED
  BY <1>2 DEF SlotsOf, SlotOf, Seated, IInv, TypeOK, RoomsOK

LEMMA SetStatusStep ==
    ASSUME IInv, NEW u, NEW status \in {"ready", "notReady", "noMap", "complete"},
           Seated(u)
    PROVE  RoomsOK([matches EXCEPT ![userToMatch[u]].slots[SlotOf(u)].status = status],
                   userToMatch)
<1> DEFINE m == userToMatch[u]
<1> DEFINE r == matches[m]
<1> DEFINE n == [r EXCEPT !.slots[SlotOf(u)].status = status]
<1>1. /\ m \in DOMAIN matches /\ r \in Room /\ RoomOK(r)
      /\ SlotOf(u) \in Slots /\ r.slots[SlotOf(u)].user = u /\ u \in Users
  BY SeatedUser
<1>2. n \in Room
  BY <1>1 DEF Room, Slot, Status, HasPlayer
<1>3. \A i \in Slots : n.slots[i] = IF i = SlotOf(u) THEN [status |-> status, user |-> u]
                                    ELSE r.slots[i]
  BY <1>1 DEF Room, Slot
<1>4. n.host = r.host /\ n.inProgress = r.inProgress
  BY <1>1 DEF Room
<1>5. [matches EXCEPT ![m].slots[SlotOf(u)].status = status] = [matches EXCEPT ![m] = n]
  BY <1>1 DEF IInv, TypeOK
<1> HIDE DEF n
<1>6. RoomOK(n)
  BY <1>1, <1>3, <1>4, RoomsAssumption DEF RoomOK, HasPlayer
<1>7. UsersWithin(n, r)
  BY <1>1, <1>3 DEF UsersWithin
<1> QED
  BY <1>1, <1>2, <1>5, <1>6, <1>7, ReplaceRoom DEF IInv

LEMMA ChangeSlotStep ==
    ASSUME IInv, NEW u, NEW i \in Slots, ChangeSlot(u, i)
    PROVE  RoomsOK(matches', userToMatch)
<1> DEFINE m == userToMatch[u]
<1> DEFINE r == matches[m]
<1> DEFINE n == [r EXCEPT !.slots[SlotOf(u)] = DefaultSlot, !.slots[i] = r.slots[SlotOf(u)]]
<1>1. /\ m \in DOMAIN matches /\ r \in Room /\ RoomOK(r)
      /\ SlotOf(u) \in Slots /\ r.slots[SlotOf(u)].user = u /\ u \in Users
  BY SeatedUser DEF ChangeSlot
<1>2. n \in Room
  BY <1>1 DEF Room, Slot, Status, DefaultSlot
<1>3. r.slots[i].status = "open" /\ i # SlotOf(u)
  BY <1>1, RoomsAssumption DEF ChangeSlot, RoomOK, HasPlayer
<1>4. \A j \in Slots : n.slots[j] = IF j = i THEN r.slots[SlotOf(u)]
                                    ELSE IF j = SlotOf(u) THEN DefaultSlot ELSE r.slots[j]
  BY <1>1, <1>3 DEF Room
<1>5. n.host = r.host /\ n.inProgress = r.inProgress
  BY <1>1 DEF Room
<1>6. matches' = [matches EXCEPT ![m] = n]
  BY <1>1 DEF ChangeSlot, IInv, TypeOK
<1> HIDE DEF n
<1>7. RoomOK(n)
  <2>1. \A j \in Slots : n.slots[j].status \in HasPlayer <=> n.slots[j].user # NoUser
    BY <1>1, <1>4 DEF RoomOK, DefaultSlot, HasPlayer
  <2>2. \A j, k \in Slots : n.slots[j].user = n.slots[k].user /\ n.slots[j].user # NoUser => j = k
    BY <1>1, <1>4 DEF RoomOK, DefaultSlot
  <2>3. \E j \in Slots : n.slots[j].user = n.host
    <3>1. PICK j \in Slots : r.slots[j].user = r.host
      BY <1>1 DEF RoomOK
    <3>2. r.slots[i].user = NoUser /\ r.host # NoUser
      BY <1>1, <1>3, RoomsAssumption DEF RoomOK, HasPlayer, Room
    <3>3. CASE j = SlotOf(u)
      BY <1>4, <1>5, <3>1, <3>3
    <3>4. CASE j # SlotOf(u)
      BY <1>4, <1>5, <3>1, <3>2, <3>4
    <3> QED
      BY <3>3, <3>4
  <2>4. \A j \in Slots : n.slots[j].status = "playing" => n.inProgress
    BY <1>1, <1>4, <1>5 DEF RoomOK, DefaultSlot
  <2> QED
    BY <2>1, <2>2, <2>3, <2>4 DEF RoomOK
<1>8. UsersWithin(n, r)
  BY <1>1, <1>4 DEF UsersWithin, DefaultSlot
<1> QED
  BY <1>1, <1>2, <1>6, <1>7, <1>8, ReplaceRoom DEF IInv

LEMMA HostingUser ==
    ASSUME IInv, NEW u, Hosts(u)
    PROVE  /\ userToMatch[u] \in DOMAIN matches
           /\ userToMatch[u] \in MatchIds
           /\ matches[userToMatch[u]] \in Room
           /\ RoomOK(matches[userToMatch[u]])
BY DEF Hosts, IInv, TypeOK, RoomsOK

LEMMA LockSlotStep ==
    ASSUME IInv, NEW u, NEW i \in Slots, LockSlot(u, i)
    PROVE  RoomsOK(matches', userToMatch)
<1> DEFINE m == userToMatch[u]
<1> DEFINE r == matches[m]
<1>1. m \in DOMAIN matches /\ r \in Room /\ RoomOK(r)
  BY HostingUser DEF LockSlot
<1>2. PICK status \in {"open", "locked"} :
        /\ r.slots[i].status \in {"open", "locked"}
        /\ matches' = [matches EXCEPT ![m].slots[i].status = status]
  BY DEF LockSlot
<1> DEFINE n == [r EXCEPT !.slots[i].status = status]
<1>3. n \in Room
  BY <1>1 DEF Room, Slot, Status
<1>4. \A j \in Slots : /\ n.slots[j].user = r.slots[j].user
                       /\ n.slots[j].status = IF j = i THEN status ELSE r.slots[j].status
  BY <1>1 DEF Room, Slot
<1>5. n.host = r.host /\ n.inProgress = r.inProgress
  BY <1>1 DEF Room
<1>6. matches' = [matches EXCEPT ![m] = n]
  BY <1>1, <1>2 DEF IInv, TypeOK
<1> HIDE DEF n
<1>7. RoomOK(n)
  BY <1>1, <1>2, <1>4, <1>5 DEF RoomOK, HasPlayer
<1>8. UsersWithin(n, r)
  BY <1>4 DEF UsersWithin
<1> QED
  BY <1>1, <1>3, <1>6, <1>7, <1>8, ReplaceRoom DEF IInv

LEMMA ChangeSettingsStep ==
    ASSUME IInv, NEW u, ChangeSettings(u)
    PROVE  RoomsOK(matches', userToMatch)
<1> DEFINE m == userToMatch[u]
<1> DEFINE r == matches[m]
<1> DEFINE s == [i \in Slots |-> IF /\ r.slots[i].user \notin {NoUser, u}
                                    /\ r.slots[i].status = "ready"
                                 THEN [r.slots[i] EXCEPT !.status = "notReady"]
                                 ELSE r.slots[i]]
<1> DEFINE n == [r EXCEPT !.slots = s]
<1>1. m \in DOMAIN matches /\ r \in Room /\ RoomOK(r)
  BY HostingUser DEF ChangeSettings
<1>2. \A i \in Slots :
        /\ s[i] \in Slot
        /\ s[i].user = r.slots[i].user
        /\ s[i].status # r.slots[i].status =>
              s[i].status = "notReady" /\ r.slots[i].status = "ready"
  BY <1>1 DEF Room, Slot, Status, HasPlayer
<1>3. s \in [Slots -> Slot]
  BY <1>2
<1>4. matches' = [matches EXCEPT ![m] = n]
  BY <1>1 DEF ChangeSettings, IInv, TypeOK
<1> HIDE DEF s
<1>5. n \in Room /\ n.slots = s /\ n.host = r.host /\ n.inProgress = r.inProgress
  BY <1>1, <1>3 DEF Room
<1> HIDE DEF n
<1>6. RoomOK(n)
  BY <1>1, <1>2, <1>5 DEF RoomOK, HasPlayer
<1>7. UsersWithin(n, r)
  BY <1>2, <1>5 DEF UsersWithin
<1> QED
  BY <1>1, <1>4, <1>5, <1>6, <1>7, ReplaceRoom DEF IInv

LEMMA ChangeHostStep ==
    ASSUME IInv, NEW u, NEW i \in Slots, ChangeHost(u, i)
    PROVE  RoomsOK(matches', userToMatch)
<1> DEFINE m == userToMatch[u]
<1> DEFINE r == matches[m]
<1> DEFINE n == [r EXCEPT !.host = r.slots[i].user]
<1>1. m \in DOMAIN matches /\ r \in Room /\ RoomOK(r)
  BY HostingUser DEF ChangeHost
<1>2. r.slots[i].user \in Users
  BY <1>1 DEF ChangeHost, RoomOK, Room, Slot
<1>3. n \in Room /\ n.slots = r.slots /\ n.host = r.slots[i].user /\ n.inProgress = r.inProgress
  BY <1>1, <1>2 DEF Room
<1>4. matches' = [matches EXCEPT ![m] = n]
  BY <1>1 DEF ChangeHost, IInv, TypeOK
<1> HIDE DEF n
<1>5. RoomOK(n)
  BY <1>1, <1>3 DEF RoomOK
<1>6. UsersWithin(n, r)
  BY <1>3 DEF UsersWithin
<1> QED
  BY <1>1, <1>3, <1>4, <1>5, <1>6, ReplaceRoom DEF IInv

LEMMA StartMatchStep ==
    ASSUME IInv, NEW u, StartMatch(u)
    PROVE  RoomsOK(matches', userToMatch)
<1> DEFINE m == userToMatch[u]
<1> DEFINE r == matches[m]
<1> DEFINE s == [i \in Slots |-> IF r.slots[i].status \in {"ready", "notReady"}
                                 THEN [r.slots[i] EXCEPT !.status = "playing"]
                                 ELSE r.slots[i]]
<1> DEFINE n == [r EXCEPT !.inProgress = TRUE, !.slots = s]
<1>1. m \in DOMAIN matches /\ r \in Room /\ RoomOK(r)
  BY HostingUser DEF StartMatch
<1>2. \A i \in Slots :
        /\ s[i] \in Slot
        /\ s[i].user = r.slots[i].user
        /\ s[i].status # r.slots[i].status =>
              s[i].status = "playing" /\ r.slots[i].status \in {"ready", "notReady"}
  BY <1>1 DEF Room, Slot, Status, HasPlayer
<1>3. s \in [Slots -> Slot]
  BY <1>2
<1>4. matches' = [matches EXCEPT ![m] = n]
  BY <1>1 DEF StartMatch, IInv, TypeOK
<1> HIDE DEF s
<1>5. n \in Room /\ n.slots = s /\ n.host = r.host /\ n.inProgress = TRUE
  BY <1>1, <1>3 DEF Room
<1> HIDE DEF n
<1>6. RoomOK(n)
  BY <1>1, <1>2, <1>5 DEF RoomOK, HasPlayer
<1>7. UsersWithin(n, r)
  BY <1>2, <1>5 DEF UsersWithin
<1> QED
  BY <1>1, <1>4, <1>5, <1>6, <1>7, ReplaceRoom DEF IInv

-----------------------------------------------------------------------------
(* Entering and leaving *)

(* A slot open before others leave is open afterwards. *)
LEMMA OpenStaysOpen ==
    ASSUME IInv, NEW T, T \subseteq Users, NEW m \in DOMAIN RoomsWithout(T),
           SlotsIn(matches[m], "open") # {}
    PROVE  SlotsIn(RoomsWithout(T)[m], "open") # {}
<1> DEFINE L == Leavers(T, m)
<1>1. m \in DOMAIN matches /\ RoomsWithout(T)[m] = LeftBehind(matches[m], L)
  BY DEF RoomsWithout
<1>2. L \subseteq Users /\ \A u \in L : SlotsOf(matches[m], u) # {}
  BY DEF Leavers, Seated
<1>3. matches[m] \in Room /\ RoomOK(matches[m])
  BY <1>1 DEF IInv, RoomsOK
<1>4. PICK i \in Slots : matches[m].slots[i].status = "open"
  BY DEF SlotsIn
<1> HIDE DEF L
<1>5. SlotsWithout(matches[m], L)[i].status = "open"
  BY <1>2, <1>3, <1>4, VacateSlots DEF DefaultSlot
<1>6. LeftBehind(matches[m], L).slots[i].status = "open"
  BY <1>5 DEF LeftBehind
<1> QED
  BY <1>1, <1>6 DEF SlotsIn

(* Seating a newcomer, already mapped to the room, in its first open slot. *)
LEMMA SeatNewcomer ==
    ASSUME NEW rooms, NEW map, RoomsOK(rooms, map),
           NEW m \in DOMAIN rooms, NEW u \in DOMAIN map, map[u] = m,
           \A i \in Slots : rooms[m].slots[i].user # u,
           SlotsIn(rooms[m], "open") # {},
           NEW new, new = [rooms EXCEPT ![m] = TakeSlot(rooms[m], u)]
    PROVE  RoomsOK(new, map)
<1> DEFINE r == rooms[m]
<1> DEFINE f == First(SlotsIn(r, "open"))
<1> DEFINE n == TakeSlot(r, u)
<1>1. r \in Room /\ RoomOK(r) /\ u \in Users
  BY DEF RoomsOK
<1>2. f \in Slots /\ r.slots[f].status = "open"
  <2>1. SlotsIn(r, "open") \subseteq Slots
    BY DEF SlotsIn
  <2> QED
    BY <2>1, FirstIsLeast DEF SlotsIn
<1>3. /\ n.host = r.host /\ n.inProgress = r.inProgress
      /\ \A i \in Slots : n.slots[i] = IF i = f THEN [status |-> "notReady", user |-> u]
                                       ELSE r.slots[i]
  BY <1>1, <1>2 DEF TakeSlot, Room
<1>4. n \in Room
  BY <1>1, <1>2 DEF TakeSlot, Room, Slot, Status, HasPlayer
<1>5. /\ DOMAIN new = DOMAIN rooms /\ new[m] = n
      /\ \A k \in DOMAIN rooms \ {m} : new[k] = rooms[k]
      /\ new \in [DOMAIN rooms -> Room]
  BY <1>4 DEF RoomsOK
<1> HIDE DEF f, n
<1>6. RoomOK(n)
  <2>1. r.slots[f].user = NoUser /\ r.host # NoUser
    BY <1>1, <1>2, RoomsAssumption DEF RoomOK, HasPlayer, Room
  <2>2. \E i \in Slots : n.slots[i].user = n.host
    BY <1>1, <1>3, <2>1 DEF RoomOK
  <2>3. \A i \in Slots : n.slots[i].status \in HasPlayer <=> n.slots[i].user # NoUser
    BY <1>1, <1>3, RoomsAssumption DEF RoomOK, HasPlayer
  <2>4. \A i, j \in Slots : n.slots[i].user = n.slots[j].user /\ n.slots[i].user # NoUser
                               => i = j
    BY <1>1, <1>3 DEF RoomOK
  <2>5. \A i \in Slots : n.slots[i].status = "playing" => n.inProgress
    BY <1>1, <1>3 DEF RoomOK
  <2> QED
    BY <2>2, <2>3, <2>4, <2>5 DEF RoomOK
<1>7. ASSUME NEW k \in DOMAIN new, NEW i \in Slots, new[k].slots[i].user # NoUser
      PROVE  new[k].slots[i].user \in DOMAIN map /\ map[new[k].slots[i].user] = k
  BY <1>3, <1>5, <1>7 DEF RoomsOK
<1> QED
  BY <1>5, <1>6, <1>7 DEF RoomsOK

LEMMA CreateMatchStep ==
    ASSUME IInv, NEW u \in Users, CreateMatch(u)
    PROVE  RoomsOK(matches', userToMatch')
<1> DEFINE rest == RoomsWithout({u})
<1> DEFINE map == Put(userToMatch, u, nextMatchId)
<1>1. nextMatchId \in MatchIds
  BY DEF IInv, TypeOK
<1>2. RoomsOK(rest, Without(userToMatch, {u}))
  BY LeaveRooms
<1>3. RoomsOK(rest, map)
  BY <1>1, <1>2, MapNewcomer DEF IInv, TypeOK
<1>4. u \in DOMAIN map /\ map[u] = nextMatchId
  BY DEF Put
<1>5. matches' = Put(rest, nextMatchId, NewRoom(u)) /\ userToMatch' = map
  BY DEF CreateMatch
<1> HIDE DEF rest, map
<1> QED
  BY <1>1, <1>3, <1>4, <1>5, AddRoom

LEMMA JoinMatchStep ==
    ASSUME IInv, NEW u \in Users, NEW m \in MatchIds, JoinMatch(u, m)
    PROVE  RoomsOK(matches', userToMatch')
<1> DEFINE rest == RoomsWithout({u})
<1> DEFINE map == Put(userToMatch, u, m)
<1>1. RoomsOK(rest, Without(userToMatch, {u}))
  BY LeaveRooms
<1>2. RoomsOK(rest, map)
  BY <1>1, MapNewcomer DEF IInv, TypeOK
<1>3. u \in DOMAIN map /\ map[u] = m
  BY DEF Put
<1>4. /\ m \in DOMAIN rest /\ SlotsIn(matches[m], "open") # {}
      /\ matches' = [rest EXCEPT ![m] = TakeSlot(rest[m], u)] /\ userToMatch' = map
  BY DEF JoinMatch
<1>5. \A i \in Slots : rest[m].slots[i].user # u
  <2>1. \A k \in DOMAIN rest, i \in Slots : rest[k].slots[i].user \notin {u}
    BY LeaveRooms
  <2> QED
    BY <1>4, <2>1
<1>6. SlotsIn(rest[m], "open") # {}
  BY <1>4, OpenStaysOpen
<1> HIDE DEF rest, map
<1>7. m \in DOMAIN rest
  BY <1>4
<1> QED
  BY <1>2, <1>3, <1>4, <1>5, <1>6, <1>7, SeatNewcomer

(* A user who holds no seat leaves no seat: forgetting the mapping is safe. *)
LEMMA PartMatchStep ==
    ASSUME IInv, NEW u \in Users, PartMatch(u)
    PROVE  RoomsOK(matches', userToMatch')
<1>1. /\ RoomsOK(RoomsWithout({u}), Without(userToMatch, {u}))
      /\ userToMatch' = Without(userToMatch, {u})
  BY LeaveRooms DEF PartMatch
<1>2. CASE matches' = RoomsWithout({u})
  BY <1>1, <1>2
<1>3. CASE matches' = Settled(RoomsWithout({u}), Finished(RoomsWithout({u}), userToMatch[u]))
  BY <1>1, <1>3, SettleRooms
<1>4. CASE ~Seated(u) /\ matches' = matches
  <2>1. \A m \in DOMAIN matches, i \in Slots : matches[m].slots[i].user # u
    BY <1>4, RoomsAssumption DEF Seated, SlotsOf, IInv, RoomsOK
  <2>2. /\ DOMAIN userToMatch' = DOMAIN userToMatch \ {u}
        /\ userToMatch' \in [DOMAIN userToMatch' -> MatchIds]
        /\ \A x \in DOMAIN userToMatch' : userToMatch'[x] = userToMatch[x]
    BY <1>1 DEF Without, Restrict, IInv, TypeOK
  <2> QED
    BY <1>4, <2>1, <2>2 DEF IInv, RoomsOK
<1> QED
  BY <1>2, <1>3, <1>4 DEF PartMatch, TryFinish

LEMMA MatchCompleteStep ==
    ASSUME IInv, NEW u, MatchComplete(u)
    PROVE  RoomsOK(matches', userToMatch)
<1> DEFINE m == userToMatch[u]
<1>1. CASE Seated(u)
  <2> DEFINE done == [matches EXCEPT ![m].slots[SlotOf(u)].status = "complete"]
  <2>1. RoomsOK(done, userToMatch)
    BY <1>1, SetStatusStep
  <2>2. matches' = Settled(done, Finished(done, m))
    BY <1>1 DEF MatchComplete, TryFinish
  <2> HIDE DEF done
  <2> QED
    BY <2>1, <2>2, SettleRooms
<1>2. CASE ~Seated(u)
  <2>1. matches' = Settled(matches, Finished(matches, m))
    BY <1>2 DEF MatchComplete, TryFinish
  <2> QED
    BY <2>1, SettleRooms DEF IInv
<1> QED
  BY <1>1, <1>2

-----------------------------------------------------------------------------
(* The step lemma: all the actions together *)

LEMMA RoomsOKStep ==
    ASSUME IInv, [Next]_vars
    PROVE  RoomsOK(matches', userToMatch')
<1>1. RoomsOK(matches, userToMatch)
  BY DEF IInv
<1>2. CASE UNCHANGED vars
  BY <1>1, <1>2 DEF vars
<1>3. ASSUME NEW u \in Users, CreateMatch(u) PROVE RoomsOK(matches', userToMatch')
  BY <1>3, CreateMatchStep
<1>4. ASSUME NEW u \in Users, PartMatch(u) PROVE RoomsOK(matches', userToMatch')
  BY <1>4, PartMatchStep
<1>5. ASSUME NEW T, T \subseteq Users, RemoveSessions(T) PROVE RoomsOK(matches', userToMatch')
  BY <1>5, LeaveRooms DEF RemoveSessions
<1>6. ASSUME NEW u \in Users, NEW status \in {"ready", "notReady", "noMap"}, SetStatus(u, status)
      PROVE  RoomsOK(matches', userToMatch')
  BY <1>6, SetStatusStep DEF SetStatus
<1>7. ASSUME NEW u \in Users, ChangeSettings(u) PROVE RoomsOK(matches', userToMatch')
  BY <1>7, ChangeSettingsStep DEF ChangeSettings
<1>8. ASSUME NEW u \in Users, ChangeTeam(u) PROVE RoomsOK(matches', userToMatch')
  BY <1>1, <1>8, SettleRooms DEF ChangeTeam, TryFinish
<1>9. ASSUME NEW u \in Users, StartMatch(u) PROVE RoomsOK(matches', userToMatch')
  BY <1>9, StartMatchStep DEF StartMatch
<1>10. ASSUME NEW u \in Users, LoadComplete(u) \/ ScoreUpdate(u)
       PROVE  RoomsOK(matches', userToMatch')
  BY <1>1, <1>10 DEF LoadComplete, ScoreUpdate
<1>11. ASSUME NEW u \in Users, MatchComplete(u) PROVE RoomsOK(matches', userToMatch')
  BY <1>11, MatchCompleteStep DEF MatchComplete
<1>12. ASSUME NEW u \in Users, NEW m \in MatchIds, JoinMatch(u, m)
       PROVE  RoomsOK(matches', userToMatch')
  BY <1>12, JoinMatchStep
<1>13. ASSUME NEW u \in Users, NEW m \in MatchIds, JoinVanishedMatch(u, m)
       PROVE  RoomsOK(matches', userToMatch')
  BY <1>13, LeaveRooms DEF JoinVanishedMatch
<1>14. ASSUME NEW u \in Users, NEW i \in Slots, ChangeSlot(u, i)
       PROVE  RoomsOK(matches', userToMatch')
  BY <1>14, ChangeSlotStep DEF ChangeSlot
<1>15. ASSUME NEW u \in Users, NEW i \in Slots, LockSlot(u, i)
       PROVE  RoomsOK(matches', userToMatch')
  BY <1>15, LockSlotStep DEF LockSlot
<1>16. ASSUME NEW u \in Users, NEW i \in Slots, ChangeHost(u, i)
       PROVE  RoomsOK(matches', userToMatch')
  BY <1>16, ChangeHostStep DEF ChangeHost
<1>17. CASE Next
  <2>1. CASE \E u \in Users :
                \/ CreateMatch(u) \/ PartMatch(u) \/ ChangeSettings(u) \/ ChangeTeam(u)
                \/ StartMatch(u) \/ LoadComplete(u) \/ ScoreUpdate(u) \/ MatchComplete(u)
    BY <1>3, <1>4, <1>7, <1>8, <1>9, <1>10, <1>11, <2>1
  <2>2. CASE \E u \in Users : Logout(u) \/ Evict(u)
    BY <1>5, <2>2 DEF Logout, Evict
  <2>3. CASE \E u \in Users : Ready(u) \/ NotReady(u) \/ NoBeatmap(u) \/ HasBeatmap(u)
    BY <1>6, <2>3 DEF Ready, NotReady, NoBeatmap, HasBeatmap
  <2>4. CASE \E u \in Users, m \in MatchIds : JoinMatch(u, m) \/ JoinVanishedMatch(u, m)
    BY <1>12, <1>13, <2>4
  <2>5. CASE \E u \in Users, i \in Slots :
                ChangeSlot(u, i) \/ LockSlot(u, i) \/ ChangeHost(u, i)
    BY <1>14, <1>15, <1>16, <2>5
  <2>6. CASE \E T \in SUBSET Users : PrunerTick(T)
    BY <1>5, <2>6 DEF PrunerTick
  <2> QED
    BY <1>17, <2>1, <2>2, <2>3, <2>4, <2>5, <2>6 DEF Next
<1> QED
  BY <1>2, <1>17

-----------------------------------------------------------------------------
(* The rest of the state *)

(* A step leaves the maps typed because it leaves the rooms good; the ids  *)
(* kept beside the rooms stay ids because they come from ids in use.       *)
LEMMA TypeOKStep ==
    ASSUME IInv, [Next]_vars
    PROVE  TypeOK'
<1>1. RoomsOK(matches', userToMatch')
  BY RoomsOKStep
<1>2. Disbanded({}) \subseteq MatchIds /\ \A T : Disbanded(T) \subseteq MatchIds
  BY DEF Disbanded, IInv, TypeOK
<1>3. \A u \in DOMAIN userToMatch : userToMatch[u] \in MatchIds
  BY DEF IInv, TypeOK
<1>4. nextMatchId' \in MatchIds /\ idReused' \in BOOLEAN
  <2>1. nextMatchId \in MatchIds /\ idReused \in BOOLEAN
    BY DEF IInv, TypeOK
  <2>2. CASE UNCHANGED allocator
    BY <2>1, <2>2 DEF allocator
  <2>3. ASSUME NEW u \in Users, CreateMatch(u) PROVE nextMatchId' \in MatchIds /\ idReused' \in BOOLEAN
    <3>1. nextMatchId' \in MatchIds
      BY <2>1, <2>3, RoomsAssumption DEF CreateMatch, NextId, MatchIds
    <3>2. idReused' \in BOOLEAN
      BY <2>1, <2>3 DEF CreateMatch
    <3> QED
      BY <3>1, <3>2
  <2>4. UNCHANGED allocator \/ \E u \in Users : CreateMatch(u)
    BY DEF Next, vars, PartMatch, Logout, Evict, PrunerTick, RemoveSessions, SetStatus,
           Ready, NotReady, NoBeatmap, HasBeatmap, ChangeSettings, ChangeTeam, StartMatch,
           LoadComplete, ScoreUpdate, MatchComplete, JoinMatch, JoinVanishedMatch,
           ChangeSlot, LockSlot, ChangeHost
  <2> QED
    BY <2>2, <2>3, <2>4
<1>5. /\ startTimes' \subseteq MatchIds /\ lastScores' \subseteq MatchIds
      /\ loadedUsers' \subseteq MatchIds /\ pending' \subseteq MatchIds
  <2>1. /\ startTimes \subseteq MatchIds /\ lastScores \subseteq MatchIds
        /\ loadedUsers \subseteq MatchIds /\ pending \subseteq MatchIds
    BY DEF IInv, TypeOK
  <2>2. CASE UNCHANGED <<games, pending>>
    BY <2>1, <2>2 DEF games
  <2>3. CASE \E S : ForgetGames(S) /\ pending' \subseteq pending
    BY <2>1, <2>3 DEF ForgetGames
  <2>4. CASE \E T : ForgetGames(Disbanded(T)) /\ pending' = pending \cup Disbanded(T)
    BY <1>2, <2>1, <2>4 DEF ForgetGames
  <2>5. ASSUME NEW u \in Users, StartMatch(u) \/ LoadComplete(u) \/ ScoreUpdate(u)
        PROVE  /\ startTimes' \subseteq MatchIds /\ lastScores' \subseteq MatchIds
               /\ loadedUsers' \subseteq MatchIds /\ pending' \subseteq MatchIds
    BY <1>3, <2>1, <2>5 DEF StartMatch, LoadComplete, ScoreUpdate, Hosts, Seated
  <2>6. \/ UNCHANGED <<games, pending>>
        \/ \E S : ForgetGames(S) /\ pending' \subseteq pending
        \/ \E T : ForgetGames(Disbanded(T)) /\ pending' = pending \cup Disbanded(T)
        \/ \E u \in Users : StartMatch(u) \/ LoadComplete(u) \/ ScoreUpdate(u)
    <3>1. CASE UNCHANGED vars
      BY <3>1 DEF vars
    <3>2. CASE \E u \in Users : PartMatch(u)
      BY <3>2 DEF PartMatch, TryFinish
    <3>3. CASE \E u \in Users : Ready(u) \/ NotReady(u) \/ NoBeatmap(u) \/ HasBeatmap(u)
      BY <3>3 DEF Ready, NotReady, NoBeatmap, HasBeatmap, SetStatus
    <3>4. CASE \E u \in Users : CreateMatch(u) \/ Logout(u) \/ Evict(u) \/ ChangeSettings(u)
      BY <3>4 DEF CreateMatch, Logout, Evict, RemoveSessions, ChangeSettings
    <3>5. CASE \E u \in Users : ChangeTeam(u) \/ MatchComplete(u)
      BY <3>5 DEF ChangeTeam, MatchComplete, TryFinish
    <3>6. CASE \E u \in Users, m \in MatchIds : JoinMatch(u, m) \/ JoinVanishedMatch(u, m)
      BY <3>6 DEF JoinMatch, JoinVanishedMatch
    <3>7. CASE \E u \in Users, i \in Slots :
                  ChangeSlot(u, i) \/ LockSlot(u, i) \/ ChangeHost(u, i)
      BY <3>7 DEF ChangeSlot, LockSlot, ChangeHost
    <3>8. CASE \E T \in SUBSET Users : PrunerTick(T)
      BY <3>8 DEF PrunerTick, RemoveSessions
    <3> QED
      BY <3>1, <3>2, <3>3, <3>4, <3>5, <3>6, <3>7, <3>8 DEF Next
  <2> QED
    BY <2>2, <2>3, <2>4, <2>5, <2>6
<1> QED
  BY <1>1, <1>4, <1>5 DEF TypeOK, RoomsOK

LEMMA IInvInit == Init => IInv
<1> SUFFICES ASSUME Init PROVE IInv
  OBVIOUS
<1>1. DOMAIN matches = {} /\ DOMAIN userToMatch = {}
  BY DEF Init
<1>2. matches \in [DOMAIN matches -> Room] /\ userToMatch \in [DOMAIN userToMatch -> MatchIds]
  BY <1>1 DEF Init
<1>3. 1 \in MatchIds
  BY RoomsAssumption DEF MatchIds
<1>4. TypeOK
  BY <1>1, <1>2, <1>3 DEF Init, TypeOK
<1> QED
  BY <1>1, <1>2, <1>4 DEF IInv, RoomsOK

(* The rooms are seated properly, and typed, in every reachable state.     *)
THEOREM Inductive == Spec => []IInv
<1>1. IInv /\ [Next]_vars => IInv'
  BY RoomsOKStep, TypeOKStep DEF IInv
<1> QED
  BY IInvInit, <1>1, PTL DEF Spec

(* Type correctness of the rooms, mappings, ids and records.               *)
THEOREM TypeCorrect == Spec => []TypeOK
<1>1. IInv => TypeOK
  BY DEF IInv
<1> QED
  BY Inductive, <1>1, PTL

(* Whatever sequence of packets, logouts, evictions and time-outs happens, *)
(* and even when match ids wrap onto live rooms: slots and users agree,    *)
(* nobody holds two slots, who sits in a room is mapped to it, every room  *)
(* has its host among its players, and players play only in a game.        *)
THEOREM SeatingCorrect == Spec => []SeatingOK
BY Inductive, SeatingIsRoomsOK, PTL

-----------------------------------------------------------------------------
(* The records kept beside the rooms, as long as no id in use is given out *)

(* Who is mapped sits where the mapping says, records belong to rooms, the *)
(* rooms with a start time are those in progress, and what awaits deletion *)
(* is not there.                                                           *)
RecordsAre(rooms, map, starts, kept, gone) ==
    /\ \A u \in DOMAIN map : /\ map[u] \in DOMAIN rooms
                             /\ \E i \in Slots : rooms[map[u]].slots[i].user = u
    /\ kept \subseteq DOMAIN rooms
    /\ starts = {m \in DOMAIN rooms : rooms[m].inProgress}
    /\ gone \cap DOMAIN rooms = {}

Records == RecordsAre(matches, userToMatch, startTimes, lastScores \cup loadedUsers, pending)

RInv == IInv /\ (~idReused => Records)

(* who sat in a room of before sits there after, and no game began or ended *)
Undisturbed(after, before) ==
    /\ DOMAIN after = DOMAIN before
    /\ \A m \in DOMAIN before :
        /\ after[m].inProgress = before[m].inProgress
        /\ \A i \in Slots : before[m].slots[i].user # NoUser =>
              \E j \in Slots : after[m].slots[j].user = before[m].slots[i].user

LEMMA RecordsSay == ASSUME IInv PROVE ~idReused => (Records <=> RecordsOK)
BY DEF Records, RecordsAre, RecordsOK, Seated, SlotsOf

LEMMA KeepRecords ==
    ASSUME NEW rooms, NEW map, NEW starts, NEW kept, NEW gone, NEW new,
           RecordsAre(rooms, map, starts, kept, gone),
           DOMAIN map \subseteq Users, Undisturbed(new, rooms)
    PROVE  RecordsAre(new, map, starts, kept, gone)
<1>1. \A u \in DOMAIN map : u # NoUser
  BY RoomsAssumption
<1> QED
  BY <1>1 DEF RecordsAre, Undisturbed

LEMMA ReplaceUndisturbed ==
    ASSUME NEW rooms, NEW m \in DOMAIN rooms, NEW r,
           r.inProgress = rooms[m].inProgress,
           \A i \in Slots : rooms[m].slots[i].user # NoUser =>
              \E j \in Slots : r.slots[j].user = rooms[m].slots[i].user
    PROVE  Undisturbed([rooms EXCEPT ![m] = r], rooms)
BY DEF Undisturbed

LEMMA SettleRecords ==
    ASSUME NEW rooms, NEW map, NEW starts, NEW kept, NEW gone, NEW m,
           RoomsOK(rooms, map), RecordsAre(rooms, map, starts, kept, gone)
    PROVE  LET F == Finished(rooms, m)
           IN  RecordsAre(Settled(rooms, F), map, starts \ F, kept \ F, gone)
<1> DEFINE F == Finished(rooms, m)
<1> DEFINE n == Settled(rooms, F)
<1>1. \A k \in F : k \in DOMAIN rooms
  BY DEF Finished
<1>2. DOMAIN n = DOMAIN rooms /\ \A k \in DOMAIN rooms :
        n[k] = IF k \in F THEN Concluded(rooms[k]) ELSE rooms[k]
  BY DEF Settled
<1> HIDE DEF n, F
<1>3. ASSUME NEW k \in DOMAIN rooms
      PROVE  /\ n[k].inProgress = (rooms[k].inProgress /\ k \notin F)
             /\ \A i \in Slots : n[k].slots[i].user = rooms[k].slots[i].user
  <2>1. rooms[k] \in Room
    BY DEF RoomsOK
  <2>2. /\ Concluded(rooms[k]).inProgress = FALSE
        /\ \A i \in Slots : Concluded(rooms[k]).slots[i].user = rooms[k].slots[i].user
    BY <2>1 DEF Concluded, Room, Slot
  <2>3. rooms[k].inProgress \in BOOLEAN
    BY <2>1 DEF Room
  <2> QED
    BY <1>2, <2>2, <2>3
<1>4. \A u \in DOMAIN map : /\ map[u] \in DOMAIN n
                           /\ \E i \in Slots : n[map[u]].slots[i].user = u
  BY <1>2, <1>3 DEF RecordsAre
<1>5. starts \ F = {k \in DOMAIN n : n[k].inProgress}
  <2>1. starts = {k \in DOMAIN rooms : rooms[k].inProgress}
    BY DEF RecordsAre
  <2>2. \A k \in DOMAIN rooms : n[k].inProgress = (rooms[k].inProgress /\ k \notin F)
    BY <1>3
  <2>3. \A k \in DOMAIN rooms : n[k].inProgress <=> rooms[k].inProgress /\ k \notin F
    BY <2>2, Zenon
  <2> QED
    BY <1>2, <2>1, <2>3
<1>6. kept \ F \subseteq DOMAIN n /\ gone \cap DOMAIN n = {}
  BY <1>2 DEF RecordsAre
<1>7. RecordsAre(n, map, starts \ F, kept \ F, gone)
  BY <1>4, <1>5, <1>6, Zenon DEF RecordsAre
<1> QED
  BY <1>7 DEF n, F

(* Those who do not leave stay where they sit, so their rooms stay.        *)
LEMMA LeaveRecords ==
    ASSUME RInv, ~idReused, NEW T, T \subseteq Users
    PROVE  RecordsAre(RoomsWithout(T), Without(userToMatch, T), startTimes \ Disbanded(T),
                      (lastScores \cup loadedUsers) \ Disbanded(T), pending \cup Disbanded(T))
<1> DEFINE rest == RoomsWithout(T)
<1> DEFINE map == Without(userToMatch, T)
<1>1. /\ DOMAIN rest = DOMAIN matches \ Disbanded(T)
      /\ \A m \in DOMAIN rest : rest[m] = LeftBehind(matches[m], Leavers(T, m))
  BY DEF RoomsWithout
<1>2. \A m \in DOMAIN rest : /\ rest[m].inProgress = matches[m].inProgress
                             /\ rest[m].slots = SlotsWithout(matches[m], Leavers(T, m))
  BY <1>1 DEF LeftBehind
<1>3. DOMAIN map = DOMAIN userToMatch \ T /\ \A u \in DOMAIN map : map[u] = userToMatch[u]
  BY DEF Without, Restrict
<1>4. Records /\ IInv
  BY DEF RInv
<1> HIDE DEF rest, map
<1>5. ASSUME NEW u \in DOMAIN map
      PROVE  map[u] \in DOMAIN rest /\ \E i \in Slots : rest[map[u]].slots[i].user = u
  <2> DEFINE m == userToMatch[u]
  <2> DEFINE L == Leavers(T, m)
  <2>1. m \in DOMAIN matches /\ u \in Users /\ u # NoUser /\ u \notin L
    BY <1>3, <1>4, RoomsAssumption DEF Records, RecordsAre, IInv, TypeOK, Leavers
  <2>2. PICK i \in Slots : matches[m].slots[i].user = u
    BY <1>3, <1>4 DEF Records, RecordsAre
  <2>3. matches[m] \in Room /\ RoomOK(matches[m])
    BY <1>4, <2>1 DEF IInv, RoomsOK
  <2>4. L \subseteq Users /\ \A x \in L : SlotsOf(matches[m], x) # {}
    BY DEF Leavers, Seated
  <2> HIDE DEF L
  <2>5. SlotsWithout(matches[m], L)[i] = matches[m].slots[i]
    BY <2>1, <2>2, <2>3, <2>4, VacateSlots
  <2>6. i \in PlayerSlots(SlotsWithout(matches[m], L))
    BY <2>1, <2>2, <2>3, <2>5 DEF PlayerSlots, RoomOK
  <2>7. m \in DOMAIN rest
    BY <1>1, <2>1, <2>6 DEF Disbanded, L
  <2> QED
    BY <1>2, <1>3, <2>2, <2>5, <2>7 DEF L
<1>6. RecordsAre(rest, map, startTimes \ Disbanded(T),
                 (lastScores \cup loadedUsers) \ Disbanded(T), pending \cup Disbanded(T))
  BY <1>1, <1>2, <1>4, <1>5 DEF RecordsAre, Records
<1> QED
  BY <1>6 DEF rest, map

(* Fewer records, and fewer rooms awaiting deletion, are no harm.          *)
LEMMA FewerRecords ==
    ASSUME NEW rooms, NEW map, NEW starts, NEW kept, NEW gone,
           RecordsAre(rooms, map, starts, kept, gone),
           NEW k, k \subseteq kept, NEW g, g \subseteq gone
    PROVE  RecordsAre(rooms, map, starts, k, g)
BY DEF RecordsAre

-----------------------------------------------------------------------------
(* The actions that change a room and keep its users and its game *)

LEMMA StatusUndisturbed ==
    ASSUME IInv, NEW u, NEW status, Seated(u)
    PROVE  Undisturbed([matches EXCEPT ![userToMatch[u]].slots[SlotOf(u)].status = status],
                       matches)
<1> DEFINE m == userToMatch[u]
<1> DEFINE n == [matches[m] EXCEPT !.slots[SlotOf(u)].status = status]
<1>1. m \in DOMAIN matches /\ matches[m] \in Room
  BY SeatedUser
<1>2. /\ n.inProgress = matches[m].inProgress
      /\ \A i \in Slots : n.slots[i].user = matches[m].slots[i].user
  BY <1>1 DEF Room, Slot
<1>3. [matches EXCEPT ![m].slots[SlotOf(u)].status = status] = [matches EXCEPT ![m] = n]
  BY <1>1
<1> HIDE DEF n
<1> QED
  BY <1>1, <1>2, <1>3, ReplaceUndisturbed

LEMMA ChangeSlotUndisturbed ==
    ASSUME IInv, NEW u, NEW i \in Slots, ChangeSlot(u, i)
    PROVE  Undisturbed(matches', matches)
<1> DEFINE m == userToMatch[u]
<1> DEFINE r == matches[m]
<1> DEFINE n == [r EXCEPT !.slots[SlotOf(u)] = DefaultSlot, !.slots[i] = r.slots[SlotOf(u)]]
<1>1. /\ m \in DOMAIN matches /\ r \in Room /\ RoomOK(r)
      /\ SlotOf(u) \in Slots /\ r.slots[SlotOf(u)].user = u /\ u \in Users
  BY SeatedUser DEF ChangeSlot
<1>2. r.slots[i].user = NoUser /\ i # SlotOf(u)
  BY <1>1, RoomsAssumption DEF ChangeSlot, RoomOK, HasPlayer
<1>3. \A j \in Slots : n.slots[j] = IF j = i THEN r.slots[SlotOf(u)]
                                    ELSE IF j = SlotOf(u) THEN DefaultSlot ELSE r.slots[j]
  BY <1>1, <1>2 DEF Room
<1>4. n.inProgress = r.inProgress
  BY <1>1 DEF Room
<1>5. matches' = [matches EXCEPT ![m] = n]
  BY <1>1 DEF ChangeSlot, IInv, TypeOK
<1> HIDE DEF n
<1>6. ASSUME NEW j \in Slots, r.slots[j].user # NoUser
      PROVE  \E k \in Slots : n.slots[k].user = r.slots[j].user
  <2>1. CASE j = SlotOf(u)
    BY <1>3, <2>1
  <2>2. CASE j # SlotOf(u)
    BY <1>2, <1>3, <1>6, <2>2
  <2> QED
    BY <2>1, <2>2
<1> QED
  BY <1>1, <1>4, <1>5, <1>6, ReplaceUndisturbed

LEMMA LockSlotUndisturbed ==
    ASSUME IInv, NEW u, NEW i \in Slots, LockSlot(u, i)
    PROVE  Undisturbed(matches', matches)
<1> DEFINE m == userToMatch[u]
<1>1. m \in DOMAIN matches /\ matches[m] \in Room
  BY HostingUser DEF LockSlot
<1>2. PICK status : matches' = [matches EXCEPT ![m].slots[i].status = status]
  BY DEF LockSlot
<1> DEFINE n == [matches[m] EXCEPT !.slots[i].status = status]
<1>3. /\ n.inProgress = matches[m].inProgress
      /\ \A j \in Slots : n.slots[j].user = matches[m].slots[j].user
  BY <1>1 DEF Room, Slot
<1>4. matches' = [matches EXCEPT ![m] = n]
  BY <1>1, <1>2
<1> HIDE DEF n
<1> QED
  BY <1>1, <1>3, <1>4, ReplaceUndisturbed

LEMMA ChangeSettingsUndisturbed ==
    ASSUME IInv, NEW u, ChangeSettings(u)
    PROVE  Undisturbed(matches', matches)
<1> DEFINE m == userToMatch[u]
<1> DEFINE r == matches[m]
<1> DEFINE s == [i \in Slots |-> IF /\ r.slots[i].user \notin {NoUser, u}
                                    /\ r.slots[i].status = "ready"
                                 THEN [r.slots[i] EXCEPT !.status = "notReady"]
                                 ELSE r.slots[i]]
<1> DEFINE n == [r EXCEPT !.slots = s]
<1>1. m \in DOMAIN matches /\ r \in Room
  BY HostingUser DEF ChangeSettings
<1>2. \A i \in Slots : s[i].user = r.slots[i].user
  BY <1>1 DEF Room, Slot
<1>3. matches' = [matches EXCEPT ![m] = n]
  BY <1>1 DEF ChangeSettings
<1> HIDE DEF s
<1>4. n.slots = s /\ n.inProgress = r.inProgress
  BY <1>1 DEF Room
<1> HIDE DEF n
<1> QED
  BY <1>1, <1>2, <1>3, <1>4, ReplaceUndisturbed

LEMMA ChangeHostUndisturbed ==
    ASSUME IInv, NEW u, NEW i \in Slots, ChangeHost(u, i)
    PROVE  Undisturbed(matches', matches)
<1> DEFINE m == userToMatch[u]
<1> DEFINE r == matches[m]
<1> DEFINE n == [r EXCEPT !.host = r.slots[i].user]
<1>1. m \in DOMAIN matches /\ r \in Room
  BY HostingUser DEF ChangeHost
<1>2. n.slots = r.slots /\ n.inProgress = r.inProgress
  BY <1>1 DEF Room
<1>3. matches' = [matches EXCEPT ![m] = n]
  BY <1>1 DEF ChangeHost
<1> HIDE DEF n
<1> QED
  BY <1>1, <1>2, <1>3, ReplaceUndisturbed

(* A newcomer takes an open slot, which nobody loses.                      *)
LEMMA SeatRecords ==
    ASSUME NEW rooms, NEW old, NEW map, NEW starts, NEW kept, NEW u \in Users,
           NEW m \in DOMAIN rooms, RoomsOK(rooms, map), SlotsIn(rooms[m], "open") # {},
           RecordsAre(rooms, Without(old, {u}), starts, kept, {}),
           map = Put(old, u, m),
           NEW new, new = [rooms EXCEPT ![m] = TakeSlot(rooms[m], u)]
    PROVE  RecordsAre(new, map, starts, kept, {})
<1> DEFINE r == rooms[m]
<1> DEFINE f == First(SlotsIn(r, "open"))
<1>1. r \in Room /\ RoomOK(r) /\ DOMAIN map \subseteq Users
  BY DEF RoomsOK
<1>2. f \in Slots /\ r.slots[f].user = NoUser
  <2>1. SlotsIn(r, "open") \subseteq Slots
    BY DEF SlotsIn
  <2>2. f \in Slots /\ r.slots[f].status = "open"
    BY <2>1, FirstIsLeast DEF SlotsIn
  <2> QED
    BY <1>1, <2>2 DEF RoomOK, HasPlayer
<1>3. /\ new[m].inProgress = r.inProgress
      /\ \A i \in Slots : new[m].slots[i] = IF i = f THEN [status |-> "notReady", user |-> u]
                                            ELSE r.slots[i]
  BY <1>1, <1>2 DEF TakeSlot, Room
<1>4. DOMAIN new = DOMAIN rooms /\ \A k \in DOMAIN rooms \ {m} : new[k] = rooms[k]
  OBVIOUS
<1> HIDE DEF f
<1>5. /\ DOMAIN map = (DOMAIN Without(old, {u})) \cup {u}
      /\ map[u] = m
      /\ \A w \in DOMAIN Without(old, {u}) : w # u /\ map[w] = Without(old, {u})[w]
  BY DEF Put, Without, Restrict
<1>6. ASSUME NEW w \in DOMAIN map
      PROVE  map[w] \in DOMAIN new /\ \E i \in Slots : new[map[w]].slots[i].user = w
  <2>1. CASE w = u
    BY <1>2, <1>3, <1>4, <1>5, <2>1
  <2>2. CASE w # u
    <3>1. map[w] \in DOMAIN rooms
      BY <1>5, <2>2 DEF RecordsAre
    <3>2. PICK i \in Slots : rooms[map[w]].slots[i].user = w
      BY <1>5, <2>2 DEF RecordsAre
    <3>3. w # NoUser
      BY <1>1, RoomsAssumption
    <3> QED
      BY <1>2, <1>3, <1>4, <3>1, <3>2, <3>3
  <2> QED
    BY <2>1, <2>2
<1> QED
  BY <1>3, <1>4, <1>6 DEF RecordsAre

LEMMA CreateRecords ==
    ASSUME RInv, ~idReused', NEW u \in Users, CreateMatch(u)
    PROVE  Records'
<1> DEFINE rest == RoomsWithout({u})
<1> DEFINE id == nextMatchId
<1>1. ~idReused /\ id \notin DOMAIN matches /\ IInv
  BY DEF CreateMatch, RInv, IInv, TypeOK
<1>2. RecordsAre(rest, Without(userToMatch, {u}), startTimes \ Disbanded({u}),
                 (lastScores \cup loadedUsers) \ Disbanded({u}), pending \cup Disbanded({u}))
  BY <1>1, LeaveRecords
<1>3. DOMAIN rest \subseteq DOMAIN matches
  BY DEF RoomsWithout
<1>4. /\ matches' = Put(rest, id, NewRoom(u)) /\ userToMatch' = Put(userToMatch, u, id)
      /\ startTimes' = startTimes \ Disbanded({u})
      /\ lastScores' \cup loadedUsers' = (lastScores \cup loadedUsers) \ Disbanded({u})
      /\ pending' = {}
  BY DEF CreateMatch, ForgetGames
<1>5. /\ DOMAIN matches' = DOMAIN rest \cup {id} /\ matches'[id] = NewRoom(u)
      /\ \A m \in DOMAIN rest : m # id /\ matches'[m] = rest[m]
  BY <1>1, <1>3, <1>4 DEF Put
<1>6. /\ DOMAIN userToMatch' = (DOMAIN Without(userToMatch, {u})) \cup {u}
      /\ userToMatch'[u] = id
      /\ \A w \in DOMAIN Without(userToMatch, {u}) :
            w # u /\ userToMatch'[w] = Without(userToMatch, {u})[w]
  BY <1>4 DEF Put, Without, Restrict
<1>7. /\ NewRoom(u).inProgress = FALSE
      /\ NewRoom(u).slots[0].user = u /\ 0 \in Slots
  BY SlotsNonEmpty DEF NewRoom
<1> HIDE DEF rest, id
<1>8. ASSUME NEW w \in DOMAIN userToMatch'
      PROVE  /\ userToMatch'[w] \in DOMAIN matches'
             /\ \E i \in Slots : matches'[userToMatch'[w]].slots[i].user = w
  <2>1. CASE w = u
    BY <1>5, <1>6, <1>7, <2>1
  <2>2. CASE w # u
    <3>1. w \in DOMAIN Without(userToMatch, {u}) /\ userToMatch'[w] = Without(userToMatch, {u})[w]
      BY <1>6, <2>2
    <3>2. /\ userToMatch'[w] \in DOMAIN rest
          /\ \E i \in Slots : rest[userToMatch'[w]].slots[i].user = w
      BY <1>2, <3>1, Zenon DEF RecordsAre
    <3> QED
      BY <1>5, <3>2
  <2> QED
    BY <2>1, <2>2
<1>9. startTimes' = {m \in DOMAIN matches' : matches'[m].inProgress}
  <2>1. startTimes' = {m \in DOMAIN rest : rest[m].inProgress}
    BY <1>2, <1>4, Zenon DEF RecordsAre
  <2>2. ~matches'[id].inProgress
    BY <1>5, <1>7, Zenon
  <2> QED
    BY <1>5, <2>1, <2>2
<1>10. lastScores' \cup loadedUsers' \subseteq DOMAIN matches' /\ pending' \cap DOMAIN matches' = {}
  BY <1>2, <1>4, <1>5 DEF RecordsAre
<1> QED
  BY <1>8, <1>9, <1>10 DEF Records, RecordsAre

LEMMA JoinRecords ==
    ASSUME RInv, ~idReused', NEW u \in Users, NEW m \in MatchIds, JoinMatch(u, m)
    PROVE  Records'
<1> DEFINE rest == RoomsWithout({u})
<1>1. ~idReused /\ IInv
  BY DEF JoinMatch, allocator, RInv
<1>2. RecordsAre(rest, Without(userToMatch, {u}), startTimes \ Disbanded({u}),
                 (lastScores \cup loadedUsers) \ Disbanded({u}), pending \cup Disbanded({u}))
  BY <1>1, LeaveRecords
<1>3. RecordsAre(rest, Without(userToMatch, {u}), startTimes \ Disbanded({u}),
                 (lastScores \cup loadedUsers) \ Disbanded({u}), {})
  BY <1>2, FewerRecords
<1>4. RoomsOK(rest, Put(userToMatch, u, m))
  <2>1. RoomsOK(rest, Without(userToMatch, {u}))
    BY <1>1, LeaveRooms
  <2>2. userToMatch \in [DOMAIN userToMatch -> MatchIds] /\ DOMAIN userToMatch \subseteq Users
    BY <1>1 DEF IInv, TypeOK
  <2> HIDE DEF rest
  <2> QED
    BY <2>1, <2>2, MapNewcomer
<1>5. /\ m \in DOMAIN rest /\ SlotsIn(matches[m], "open") # {}
      /\ matches' = [rest EXCEPT ![m] = TakeSlot(rest[m], u)]
      /\ userToMatch' = Put(userToMatch, u, m)
      /\ startTimes' = startTimes \ Disbanded({u})
      /\ lastScores' \cup loadedUsers' = (lastScores \cup loadedUsers) \ Disbanded({u})
      /\ pending' = {}
  BY DEF JoinMatch, ForgetGames
<1>6. SlotsIn(rest[m], "open") # {}
  BY <1>1, <1>5, OpenStaysOpen
<1> HIDE DEF rest
<1>7. RecordsAre(matches', userToMatch', startTimes \ Disbanded({u}),
                 (lastScores \cup loadedUsers) \ Disbanded({u}), {})
  BY <1>3, <1>4, <1>5, <1>6, SeatRecords
<1> QED
  BY <1>5, <1>7 DEF Records

LEMMA GoneRecords ==
    ASSUME RInv, ~idReused, NEW T, T \subseteq Users,
           matches' = RoomsWithout(T), userToMatch' = Without(userToMatch, T),
           ForgetGames(Disbanded(T)), pending' \subseteq pending \cup Disbanded(T)
    PROVE  Records'
<1>1. /\ startTimes' = startTimes \ Disbanded(T)
      /\ lastScores' \cup loadedUsers' \subseteq (lastScores \cup loadedUsers) \ Disbanded(T)
  BY DEF ForgetGames
<1>2. RecordsAre(matches', userToMatch', startTimes \ Disbanded(T),
                 (lastScores \cup loadedUsers) \ Disbanded(T), pending \cup Disbanded(T))
  BY LeaveRecords
<1> QED
  BY <1>1, <1>2, FewerRecords DEF Records

LEMMA PartRecords ==
    ASSUME RInv, ~idReused, NEW u \in Users, PartMatch(u)
    PROVE  Records'
<1>1. Seated(u)
  BY DEF RInv, Records, RecordsAre, PartMatch, Seated, SlotsOf
<1>2. CASE /\ matches' = RoomsWithout({u}) /\ ForgetGames(Disbanded({u})) /\ pending' = {}
  BY <1>2, GoneRecords DEF PartMatch
<1>3. CASE /\ Disbanded({u}) = {} /\ UNCHANGED pending
           /\ TryFinish(RoomsWithout({u}), userToMatch[u])
  <2> DEFINE rest == RoomsWithout({u})
  <2> DEFINE F == Finished(rest, userToMatch[u])
  <2>1. RecordsAre(rest, Without(userToMatch, {u}), startTimes, lastScores \cup loadedUsers, pending)
    <3>1. RecordsAre(rest, Without(userToMatch, {u}), startTimes \ {},
                     (lastScores \cup loadedUsers) \ {}, pending \cup {})
      BY <1>3, LeaveRecords
    <3> QED
      BY <3>1
  <2>2. RoomsOK(rest, Without(userToMatch, {u}))
    BY LeaveRooms DEF RInv
  <2>3. RecordsAre(Settled(rest, F), Without(userToMatch, {u}), startTimes \ F,
                   (lastScores \cup loadedUsers) \ F, pending)
    BY <2>1, <2>2, SettleRecords
  <2>4. /\ matches' = Settled(rest, F) /\ userToMatch' = Without(userToMatch, {u})
        /\ startTimes' = startTimes \ F
        /\ lastScores' \cup loadedUsers' = (lastScores \cup loadedUsers) \ F
        /\ pending' = pending
    BY <1>3 DEF PartMatch, TryFinish, ForgetGames
  <2> QED
    BY <2>3, <2>4 DEF Records
<1> QED
  BY <1>1, <1>2, <1>3 DEF PartMatch

LEMMA FinishRecords ==
    ASSUME RInv, ~idReused, NEW rooms, NEW m,
           RoomsOK(rooms, userToMatch), Undisturbed(rooms, matches),
           TryFinish(rooms, m), UNCHANGED <<userToMatch, pending>>
    PROVE  Records'
<1> DEFINE F == Finished(rooms, m)
<1>1. RecordsAre(rooms, userToMatch, startTimes, lastScores \cup loadedUsers, pending)
  BY KeepRecords DEF RInv, Records, IInv, TypeOK
<1>2. RecordsAre(Settled(rooms, F), userToMatch, startTimes \ F,
                 (lastScores \cup loadedUsers) \ F, pending)
  BY <1>1, SettleRecords
<1>3. /\ matches' = Settled(rooms, F) /\ userToMatch' = userToMatch /\ pending' = pending
      /\ startTimes' = startTimes \ F
      /\ lastScores' \cup loadedUsers' = (lastScores \cup loadedUsers) \ F
  BY DEF TryFinish, ForgetGames
<1> QED
  BY <1>2, <1>3 DEF Records

LEMMA CompleteRecords ==
    ASSUME RInv, ~idReused, NEW u, MatchComplete(u)
    PROVE  Records'
<1>0. IInv /\ u \in DOMAIN userToMatch
  BY DEF RInv, MatchComplete
<1>1. Seated(u)
  BY <1>0 DEF RInv, Records, RecordsAre, Seated, SlotsOf
<1> DEFINE done == [matches EXCEPT ![userToMatch[u]].slots[SlotOf(u)].status = "complete"]
<1>2. RoomsOK(done, userToMatch)
  BY <1>0, <1>1, SetStatusStep
<1>3. Undisturbed(done, matches)
  BY <1>0, <1>1, StatusUndisturbed
<1>4. TryFinish(done, userToMatch[u]) /\ UNCHANGED <<userToMatch, pending>>
  BY <1>1 DEF MatchComplete
<1> HIDE DEF done
<1> QED
  BY <1>2, <1>3, <1>4, FinishRecords

LEMMA StartRecords ==
    ASSUME RInv, ~idReused, NEW u, StartMatch(u)
    PROVE  Records'
<1> DEFINE m == userToMatch[u]
<1> DEFINE r == matches[m]
<1> DEFINE s == [i \in Slots |-> IF r.slots[i].status \in {"ready", "notReady"}
                                 THEN [r.slots[i] EXCEPT !.status = "playing"]
                                 ELSE r.slots[i]]
<1> DEFINE n == [r EXCEPT !.inProgress = TRUE, !.slots = s]
<1>1. m \in DOMAIN matches /\ r \in Room /\ Records
  BY HostingUser DEF StartMatch, RInv
<1>2. \A i \in Slots : s[i].user = r.slots[i].user
  BY <1>1 DEF Room, Slot
<1>3. matches' = [matches EXCEPT ![m] = n]
  BY <1>1 DEF StartMatch
<1> HIDE DEF s
<1>4. n.slots = s /\ n.inProgress = TRUE
  BY <1>1 DEF Room
<1> HIDE DEF n
<1>5. /\ DOMAIN matches' = DOMAIN matches /\ matches'[m] = n
      /\ \A k \in DOMAIN matches \ {m} : matches'[k] = matches[k]
  BY <1>1, <1>3
<1>6. /\ userToMatch' = userToMatch /\ pending' = pending
      /\ startTimes' = startTimes \cup {m}
      /\ lastScores' \cup loadedUsers' = (lastScores \cup loadedUsers) \cup {m}
  BY DEF StartMatch
<1>7. ASSUME NEW w \in DOMAIN userToMatch
      PROVE  \E i \in Slots : matches'[userToMatch[w]].slots[i].user = w
  BY <1>1, <1>2, <1>4, <1>5 DEF Records, RecordsAre
<1>8. startTimes' = {k \in DOMAIN matches' : matches'[k].inProgress}
  BY <1>1, <1>4, <1>5, <1>6 DEF Records, RecordsAre
<1> QED
  BY <1>1, <1>5, <1>6, <1>7, <1>8 DEF Records, RecordsAre

LEMMA RecordsStep ==
    ASSUME RInv, [Next]_vars, ~idReused'
    PROVE  Records'
<1>1. UNCHANGED allocator \/ \E u \in Users : CreateMatch(u)
  BY DEF Next, vars, PartMatch, Logout, Evict, PrunerTick, RemoveSessions, SetStatus,
         Ready, NotReady, NoBeatmap, HasBeatmap, ChangeSettings, ChangeTeam, StartMatch,
         LoadComplete, ScoreUpdate, MatchComplete, JoinMatch, JoinVanishedMatch,
         ChangeSlot, LockSlot, ChangeHost
<1>2. ~idReused /\ IInv /\ Records /\ DOMAIN userToMatch \subseteq Users
  BY <1>1 DEF allocator, CreateMatch, RInv, IInv, TypeOK
<1>3. CASE UNCHANGED vars
  BY <1>2, <1>3 DEF vars, games, Records
<1>4. ASSUME Undisturbed(matches', matches), UNCHANGED <<userToMatch, games, pending>>
      PROVE  Records'
  BY <1>2, <1>4, KeepRecords DEF Records, games
<1>5. ASSUME NEW u \in Users, NEW status, SetStatus(u, status) PROVE Records'
  BY <1>2, <1>4, <1>5, StatusUndisturbed DEF SetStatus
<1>6. ASSUME NEW u \in Users, ChangeSettings(u) PROVE Records'
  BY <1>2, <1>4, <1>6, ChangeSettingsUndisturbed DEF ChangeSettings
<1>7. ASSUME NEW u \in Users, NEW i \in Slots, ChangeSlot(u, i) PROVE Records'
  BY <1>2, <1>4, <1>7, ChangeSlotUndisturbed DEF ChangeSlot
<1>8. ASSUME NEW u \in Users, NEW i \in Slots, LockSlot(u, i) PROVE Records'
  BY <1>2, <1>4, <1>8, LockSlotUndisturbed DEF LockSlot
<1>9. ASSUME NEW u \in Users, NEW i \in Slots, ChangeHost(u, i) PROVE Records'
  BY <1>2, <1>4, <1>9, ChangeHostUndisturbed DEF ChangeHost
<1>10. ASSUME NEW u \in Users, ChangeTeam(u) PROVE Records'
  <2>1. Undisturbed(matches, matches)
    BY DEF Undisturbed
  <2> QED
    BY <1>2, <1>10, <2>1, FinishRecords DEF ChangeTeam, IInv
<1>11. ASSUME NEW u \in Users, LoadComplete(u) \/ ScoreUpdate(u) PROVE Records'
  <2>1. userToMatch[u] \in DOMAIN matches
    BY <1>2, <1>11 DEF LoadComplete, ScoreUpdate, Seated, Records, RecordsAre
  <2>2. /\ matches' = matches /\ userToMatch' = userToMatch /\ startTimes' = startTimes
        /\ pending' = pending
        /\ lastScores' \cup loadedUsers' = (lastScores \cup loadedUsers) \cup {userToMatch[u]}
    BY <1>11 DEF LoadComplete, ScoreUpdate
  <2> QED
    BY <1>2, <2>1, <2>2 DEF Records, RecordsAre
<1>12. ASSUME NEW T, T \subseteq Users, RemoveSessions(T), pending' \subseteq pending \cup Disbanded(T)
       PROVE  Records'
  BY <1>2, <1>12, GoneRecords DEF RemoveSessions
<1>13. ASSUME NEW u \in Users, NEW m \in MatchIds, JoinVanishedMatch(u, m) PROVE Records'
  BY <1>2, <1>13, GoneRecords DEF JoinVanishedMatch
<1>14. CASE Next
  <2>1. CASE \E u \in Users :
                \/ CreateMatch(u) \/ PartMatch(u) \/ ChangeSettings(u) \/ ChangeTeam(u)
                \/ StartMatch(u) \/ LoadComplete(u) \/ ScoreUpdate(u) \/ MatchComplete(u)
    BY <1>2, <1>6, <1>10, <1>11, <2>1, CreateRecords, PartRecords, StartRecords, CompleteRecords
  <2>2. CASE \E u \in Users : Logout(u) \/ Evict(u)
    BY <1>12, <2>2 DEF Logout, Evict
  <2>3. CASE \E u \in Users : Ready(u) \/ NotReady(u) \/ NoBeatmap(u) \/ HasBeatmap(u)
    BY <1>5, <2>3 DEF Ready, NotReady, NoBeatmap, HasBeatmap
  <2>4. CASE \E u \in Users, m \in MatchIds : JoinMatch(u, m) \/ JoinVanishedMatch(u, m)
    BY <1>13, <2>4, JoinRecords
  <2>5. CASE \E u \in Users, i \in Slots :
                ChangeSlot(u, i) \/ LockSlot(u, i) \/ ChangeHost(u, i)
    BY <1>7, <1>8, <1>9, <2>5
  <2>6. CASE \E T \in SUBSET Users : PrunerTick(T)
    BY <1>12, <2>6 DEF PrunerTick
  <2> QED
    BY <1>14, <2>1, <2>2, <2>3, <2>4, <2>5, <2>6 DEF Next
<1> QED
  BY <1>3, <1>14

(* Until next_match_id comes round to an id in use: a mapping never        *)
(* dangles, the records of a game go when its room goes, a room has a      *)
(* start time exactly while it is in progress, and no live room awaits the *)
(* deletion of its data.                                                   *)
THEOREM RecordsCorrect == Spec => []RecordsOK
<1>1. Init => RInv
  <2> SUFFICES ASSUME Init PROVE RInv
    OBVIOUS
  <2>1. DOMAIN matches = {} /\ DOMAIN userToMatch = {}
    BY DEF Init
  <2> QED
    BY <2>1, IInvInit DEF Init, RInv, Records, RecordsAre
<1>2. RInv /\ [Next]_vars => RInv'
  BY RoomsOKStep, TypeOKStep, RecordsStep DEF RInv, IInv
<1>3. RInv => RecordsOK
  BY RecordsSay DEF RInv, RecordsOK
<1> QED
  BY <1>1, <1>2, <1>3, PTL DEF Spec

-----------------------------------------------------------------------------
(* What a step may do to a room: r is the room before it, n after it *)

(* The host changes only if the old one is no longer there. *)
HandsOver(r, n) == n.host # r.host => SlotsOf(n, r.host) = {}

LocksHold(r, n) ==
    \A i \in Slots : r.slots[i].status = "locked" => n.slots[i] = r.slots[i]

EndsAlone(r, n) ==
    r.inProgress /\ ~n.inProgress => \A i, j \in SlotsIn(r, "playing") : i = j

Fair(r, n) == HandsOver(r, n) /\ LocksHold(r, n) /\ EndsAlone(r, n)

(* All seats but those of u stay as they are. *)
OnlySeatOf(u, r, n) ==
    \A i \in Slots : r.slots[i].user # u => n.slots[i] = r.slots[i]

LEMMA RoomsGood ==
    ASSUME IInv, NEW m \in DOMAIN matches
    PROVE  /\ matches[m] \in Room /\ RoomOK(matches[m]) /\ m \in MatchIds
           /\ matches[m].host \in Users /\ matches[m].host # NoUser
           /\ matches \in [DOMAIN matches -> Room]
BY RoomsAssumption DEF IInv, RoomsOK, Room

(* A room that is replaced by another one, all others staying. *)
LEMMA OneReplaced ==
    ASSUME IInv, NEW m \in DOMAIN matches, NEW n, matches' = [matches EXCEPT ![m] = n],
           NEW k \in DOMAIN matches
    PROVE  /\ k = m => matches'[k] = n
           /\ k # m => matches'[k] = matches[k]
BY RoomsGood

LEMMA SameFair ==
    ASSUME NEW r
    PROVE  Fair(r, r)
BY DEF Fair, HandsOver, LocksHold, EndsAlone

(* Whoever leaves clears the own seat only. *)
LEMMA LeftFair ==
    ASSUME IInv, NEW T, T \subseteq Users, NEW m \in DOMAIN RoomsWithout(T),
           NEW r, r = matches[m], NEW n, n = RoomsWithout(T)[m]
    PROVE  /\ HandsOver(r, n) /\ LocksHold(r, n) /\ n.inProgress = r.inProgress
           /\ n \in Room /\ RoomOK(n) /\ m \in DOMAIN matches
           /\ \A i \in Slots : r.slots[i].user \notin T => n.slots[i] = r.slots[i]
<1> DEFINE L == Leavers(T, m)
<1>1. /\ m \in DOMAIN matches /\ n = LeftBehind(r, L)
      /\ L \subseteq T /\ L \subseteq Users /\ \A u \in L : SlotsOf(r, u) # {}
  BY DEF RoomsWithout, Leavers, Seated
<1>2. r \in Room /\ RoomOK(r)
  BY <1>1, RoomsGood
<1>3. n \in Room /\ RoomOK(n) /\ \A i \in Slots : n.slots[i].user \notin T
  <2>1. /\ RoomsOK(RoomsWithout(T), Without(userToMatch, T))
        /\ \A k \in DOMAIN RoomsWithout(T), i \in Slots :
                 RoomsWithout(T)[k].slots[i].user \notin T
    BY LeaveRooms
  <2> QED
    BY <2>1 DEF RoomsOK
<1> HIDE DEF L
<1>4. \A i \in Slots : n.slots[i] = IF r.slots[i].user \in L THEN DefaultSlot ELSE r.slots[i]
  <2>1. n.slots = SlotsWithout(r, L)
    BY <1>1 DEF LeftBehind
  <2> QED
    BY <1>1, <1>2, <2>1, VacateSlots
<1>5. n.inProgress = r.inProgress /\ (n.host = r.host \/ r.host \in L)
  BY <1>1 DEF LeftBehind
<1>6. HandsOver(r, n)
  BY <1>1, <1>3, <1>5 DEF HandsOver, SlotsOf
<1>7. LocksHold(r, n)
  <2>1. \A i \in Slots : r.slots[i].status = "locked" => r.slots[i].user = NoUser
    BY <1>2 DEF RoomOK, HasPlayer
  <2> QED
    BY <1>1, <1>4, <2>1, RoomsAssumption DEF LocksHold
<1> QED
  BY <1>1, <1>3, <1>4, <1>5, <1>6, <1>7

(* try_finish_match keeps host, players and locks, and ends a game only    *)
(* when nobody plays.                                                      *)
LEMMA SettledFair ==
    ASSUME NEW rooms, NEW m, NEW k \in DOMAIN rooms, rooms[k] \in Room,
           NEW n, n = Settled(rooms, Finished(rooms, m))[k]
    PROVE  /\ n.host = rooms[k].host
           /\ \A u : SlotsOf(n, u) = SlotsOf(rooms[k], u)
           /\ LocksHold(rooms[k], n)
           /\ n.inProgress = rooms[k].inProgress \/ SlotsIn(rooms[k], "playing") = {}
<1>1. CASE k \notin Finished(rooms, m)
  <2>1. n = rooms[k]
    BY <1>1 DEF Settled
  <2> QED
    BY <2>1 DEF LocksHold
<1>2. CASE k \in Finished(rooms, m)
  <2>1. n = Concluded(rooms[k]) /\ GameOver(rooms[k])
    BY <1>2 DEF Settled, Finished
  <2>2. /\ n.host = rooms[k].host
        /\ \A i \in Slots : n.slots[i] = IF rooms[k].slots[i].status \in HasPlayer
                                         THEN [rooms[k].slots[i] EXCEPT !.status = "notReady"]
                                         ELSE rooms[k].slots[i]
    BY <2>1 DEF Concluded, Room
  <2>3. \A i \in Slots : n.slots[i].user = rooms[k].slots[i].user
    BY <2>2 DEF Room, Slot
  <2>4. \A u : SlotsOf(n, u) = SlotsOf(rooms[k], u)
    BY <2>3 DEF SlotsOf
  <2>5. LocksHold(rooms[k], n)
    BY <2>2 DEF LocksHold, HasPlayer
  <2> QED
    BY <2>1, <2>2, <2>4, <2>5 DEF GameOver
<1> QED
  BY <1>1, <1>2

(* Together: rooms that differ from matches by one player's seat at most,  *)
(* and then settle.                                                        *)
LEMMA FinishFair ==
    ASSUME IInv, NEW rooms, NEW m, NEW u, NEW k \in DOMAIN rooms, k \in DOMAIN matches,
           rooms[k] \in Room, HandsOver(matches[k], rooms[k]), LocksHold(matches[k], rooms[k]),
           OnlySeatOf(u, matches[k], rooms[k]),
           matches' = Settled(rooms, Finished(rooms, m)), rooms[k].inProgress = matches[k].inProgress
    PROVE  Fair(matches[k], matches'[k])
<1> DEFINE r == matches[k]
           s == rooms[k]
           n == matches'[k]
<1>1. /\ n.host = s.host /\ \A v : SlotsOf(n, v) = SlotsOf(s, v) /\ LocksHold(s, n)
      /\ n.inProgress = s.inProgress \/ SlotsIn(s, "playing") = {}
  BY SettledFair
<1>2. RoomOK(r)
  BY RoomsGood
<1> HIDE DEF n
<1>3. HandsOver(r, n)
  BY <1>1 DEF HandsOver
<1>4. LocksHold(r, n)
  BY <1>1 DEF LocksHold
<1>5. EndsAlone(r, n)
  <2> SUFFICES ASSUME SlotsIn(s, "playing") = {},
                      NEW i \in SlotsIn(r, "playing"), NEW j \in SlotsIn(r, "playing")
               PROVE  i = j
    BY <1>1 DEF EndsAlone
  <2>1. r.slots[i].user = u /\ r.slots[j].user = u
    BY DEF OnlySeatOf, SlotsIn
  <2>2. r.slots[i].user # NoUser
    BY <1>2 DEF RoomOK, SlotsIn, HasPlayer
  <2> QED
    BY <1>2, <2>1, <2>2 DEF RoomOK, SlotsIn
<1> QED
  BY <1>3, <1>4, <1>5 DEF Fair, n

LEMMA JoinFair ==
    ASSUME IInv, NEW u \in Users, NEW m \in MatchIds, JoinMatch(u, m),
           NEW k \in DOMAIN matches, k \in DOMAIN matches'
    PROVE  /\ HandsOver(matches[k], matches'[k]) \/ (k = m /\ u = matches[k].host)
           /\ LocksHold(matches[k], matches'[k]) /\ EndsAlone(matches[k], matches'[k])
<1> DEFINE rest == RoomsWithout({u})
<1>1. /\ m \in DOMAIN rest /\ matches' = [rest EXCEPT ![m] = TakeSlot(rest[m], u)]
      /\ SlotsIn(rest[m], "open") # {}
  BY OpenStaysOpen DEF JoinMatch
<1>2. k \in DOMAIN rest
  BY <1>1
<1>3. /\ HandsOver(matches[k], rest[k]) /\ LocksHold(matches[k], rest[k])
      /\ rest[k].inProgress = matches[k].inProgress /\ rest[k] \in Room
  BY <1>2, LeftFair
<1>4. CASE k # m
  <2>1. matches'[k] = rest[k]
    BY <1>1, <1>2, <1>4
  <2> QED
    BY <1>3, <2>1 DEF EndsAlone
<1>5. CASE k = m
  <2> DEFINE s == rest[m]
             f == First(SlotsIn(s, "open"))
             n == TakeSlot(s, u)
  <2>1. matches'[k] = n
    BY <1>1, <1>5
  <2>2. f \in Slots /\ s.slots[f].status = "open"
    <3>1. SlotsIn(s, "open") \subseteq Slots
      BY DEF SlotsIn
    <3> QED
      BY <1>1, <3>1, FirstIsLeast DEF SlotsIn
  <2>3. /\ n.host = s.host /\ n.inProgress = s.inProgress
        /\ \A i \in Slots : n.slots[i] = IF i = f THEN [status |-> "notReady", user |-> u]
                                         ELSE s.slots[i]
    BY <1>3, <1>5, <2>2 DEF TakeSlot, Room
  <2> HIDE DEF s, f, n
  <2>4. LocksHold(matches[k], n)
    BY <1>3, <1>5, <2>2, <2>3 DEF LocksHold, s
  <2>5. EndsAlone(matches[k], n)
    BY <1>3, <1>5, <2>3 DEF EndsAlone, s
  <2>6. ASSUME u # matches[k].host PROVE HandsOver(matches[k], n)
    <3>1. \A i \in Slots : n.slots[i].user = u \/ n.slots[i].user = s.slots[i].user
      BY <2>3
    <3>2. HandsOver(matches[k], s)
      BY <1>3, <1>5 DEF s
    <3> QED
      BY <2>3, <2>6, <3>1, <3>2 DEF HandsOver, SlotsOf
  <2> QED
    BY <1>5, <2>1, <2>4, <2>5, <2>6
<1> QED
  BY <1>4, <1>5

LEMMA CreateFair ==
    ASSUME IInv, NEW u \in Users, CreateMatch(u), NEW k \in DOMAIN matches, k \in DOMAIN matches'
    PROVE  /\ HandsOver(matches[k], matches'[k])
           /\ Overwritten(k) \/ Fair(matches[k], matches'[k])
<1> DEFINE rest == RoomsWithout({u})
           new == NewRoom(u)
<1>1. matches' = Put(rest, nextMatchId, new)
  BY DEF CreateMatch
<1>2. CASE k # nextMatchId
  <2>1. k \in DOMAIN rest /\ matches'[k] = rest[k]
    BY <1>1, <1>2 DEF Put
  <2> QED
    BY <2>1, LeftFair DEF Fair, EndsAlone
<1>3. CASE k = nextMatchId
  <2>1. matches'[k] = new /\ Overwritten(k)
    BY <1>1, <1>3 DEF Put, Overwritten
  <2>2. new.host = u /\ \A i \in Slots : new.slots[i].user \in {u, NoUser}
    BY DEF NewRoom, DefaultSlot
  <2>3. matches[k].host # NoUser
    BY RoomsGood
  <2> HIDE DEF new
  <2>4. HandsOver(matches[k], new)
    BY <2>2, <2>3 DEF HandsOver, SlotsOf
  <2> QED
    BY <2>1, <2>4
<1> QED
  BY <1>2, <1>3

LEMMA PartFair ==
    ASSUME IInv, NEW u \in Users, PartMatch(u), NEW k \in DOMAIN matches, k \in DOMAIN matches'
    PROVE  Fair(matches[k], matches'[k])
<1> DEFINE rest == RoomsWithout({u})
<1>1. CASE UNCHANGED matches
  BY <1>1, SameFair
<1>2. CASE matches' = rest
  BY <1>2, LeftFair DEF Fair, EndsAlone
<1>3. CASE TryFinish(rest, userToMatch[u])
  <2> DEFINE m == userToMatch[u]
  <2>1. matches' = Settled(rest, Finished(rest, m))
    BY <1>3 DEF TryFinish
  <2>2. k \in DOMAIN rest
    BY <2>1 DEF Settled
  <2>3. /\ HandsOver(matches[k], rest[k]) /\ LocksHold(matches[k], rest[k])
        /\ rest[k].inProgress = matches[k].inProgress /\ rest[k] \in Room
    BY <2>2, LeftFair
  <2>4. OnlySeatOf(u, matches[k], rest[k])
    <3>1. PICK T \in SUBSET Users : T = {u}
      OBVIOUS
    <3>2. \A i \in Slots : matches[k].slots[i].user \notin T => rest[k].slots[i] = matches[k].slots[i]
      BY <2>2, <3>1, LeftFair
    <3> QED
      BY <3>1, <3>2 DEF OnlySeatOf
  <2> HIDE DEF m, rest
  <2> QED
    BY <2>1, <2>2, <2>3, <2>4, FinishFair
<1> QED
  BY <1>1, <1>2, <1>3 DEF PartMatch

(* A slot's status, or several, change; host, users and game stay. *)
LEMMA StatusFair ==
    ASSUME NEW r, NEW n, n.host = r.host, r.inProgress => n.inProgress,
           \A i \in Slots : r.slots[i].status = "locked" => n.slots[i] = r.slots[i]
    PROVE  Fair(r, n)
BY DEF Fair, HandsOver, LocksHold, EndsAlone

LEMMA SetStatusFair ==
    ASSUME IInv, NEW u, NEW status, Seated(u),
           NEW rooms, rooms = [matches EXCEPT ![userToMatch[u]].slots[SlotOf(u)].status = status],
           NEW k \in DOMAIN matches
    PROVE  /\ k \in DOMAIN rooms /\ rooms[k].inProgress = matches[k].inProgress
           /\ rooms[k].host = matches[k].host /\ LocksHold(matches[k], rooms[k])
           /\ OnlySeatOf(u, matches[k], rooms[k])
<1> DEFINE m == userToMatch[u]
           r == matches[m]
           f == SlotOf(u)
           n == [r EXCEPT !.slots[f].status = status]
<1>1. /\ m \in DOMAIN matches /\ r \in Room /\ RoomOK(r) /\ f \in Slots
      /\ r.slots[f].user = u /\ u \in Users
  BY SeatedUser
<1>2. matches \in [DOMAIN matches -> Room]
  BY RoomsGood
<1>3. rooms = [matches EXCEPT ![m] = n]
  BY <1>1, <1>2
<1>4. /\ n.host = r.host /\ n.inProgress = r.inProgress
      /\ \A i \in Slots : i # f => n.slots[i] = r.slots[i]
  BY <1>1 DEF Room
<1>5. r.slots[f].status # "locked"
  BY <1>1, RoomsAssumption DEF RoomOK, HasPlayer
<1> HIDE DEF n, f, r
<1>6. CASE k = m
  <2>1. rooms[k] = n
    BY <1>1, <1>2, <1>3, <1>6
  <2> QED
    BY <1>1, <1>3, <1>4, <1>5, <1>6, <2>1 DEF LocksHold, OnlySeatOf, r
<1>7. CASE k # m
  <2>1. rooms[k] = matches[k] /\ k \in DOMAIN rooms
    BY <1>2, <1>3, <1>7
  <2> QED
    BY <2>1 DEF LocksHold, OnlySeatOf
<1> QED
  BY <1>6, <1>7

LEMMA CompleteFair ==
    ASSUME IInv, NEW u, MatchComplete(u), NEW k \in DOMAIN matches, k \in DOMAIN matches'
    PROVE  Fair(matches[k], matches'[k])
<1> DEFINE done == [matches EXCEPT ![userToMatch[u]].slots[SlotOf(u)].status = "complete"]
           m == userToMatch[u]
<1>1. CASE Seated(u)
  <2>1. matches' = Settled(done, Finished(done, m))
    BY <1>1 DEF MatchComplete, TryFinish
  <2>0. done = [matches EXCEPT ![userToMatch[u]].slots[SlotOf(u)].status = "complete"]
    OBVIOUS
  <2> HIDE DEF done
  <2>2. /\ k \in DOMAIN done /\ done[k].inProgress = matches[k].inProgress
        /\ done[k].host = matches[k].host /\ LocksHold(matches[k], done[k])
        /\ OnlySeatOf(u, matches[k], done[k])
    BY <1>1, <2>0, SetStatusFair
  <2>3. done[k] \in Room
    <3>1. RoomsOK(done, userToMatch)
      BY <1>1, <2>0, SetStatusStep
    <3> QED
      BY <2>2, <3>1 DEF RoomsOK
  <2>4. HandsOver(matches[k], done[k])
    BY <2>2 DEF HandsOver
  <2> HIDE DEF m
  <2> QED
    BY <2>1, <2>2, <2>3, <2>4, FinishFair
<1>2. CASE ~Seated(u)
  <2>1. matches' = Settled(matches, Finished(matches, m))
    BY <1>2 DEF MatchComplete, TryFinish
  <2> QED
    <3>1. OnlySeatOf(u, matches[k], matches[k]) /\ Fair(matches[k], matches[k]) /\ matches[k] \in Room
      BY RoomsGood, SameFair DEF OnlySeatOf
    <3> HIDE DEF m
    <3> QED
      BY <2>1, <3>1, FinishFair DEF Fair
<1> QED
  BY <1>1, <1>2

LEMMA ChangeTeamFair ==
    ASSUME IInv, NEW u, ChangeTeam(u), NEW k \in DOMAIN matches
    PROVE  Fair(matches[k], matches'[k])
<1>1. matches' = Settled(matches, Finished(matches, userToMatch[u]))
  BY DEF ChangeTeam, TryFinish
<1>2. OnlySeatOf(u, matches[k], matches[k]) /\ Fair(matches[k], matches[k]) /\ matches[k] \in Room
  BY RoomsGood, SameFair DEF OnlySeatOf
<1> QED
  BY <1>1, <1>2, FinishFair DEF Fair

LEMMA ChangeSlotFair ==
    ASSUME IInv, NEW u, NEW i \in Slots, ChangeSlot(u, i), NEW k \in DOMAIN matches
    PROVE  Fair(matches[k], matches'[k])
<1> DEFINE m == userToMatch[u]
           r == matches[m]
           f == SlotOf(u)
           n == [r EXCEPT !.slots[f] = DefaultSlot, !.slots[i] = r.slots[f]]
<1>1. /\ m \in DOMAIN matches /\ r \in Room /\ RoomOK(r) /\ f \in Slots
      /\ r.slots[f].user = u /\ u \in Users
  BY SeatedUser DEF ChangeSlot
<1>2. r.slots[i].status = "open"
  BY DEF ChangeSlot
<1>3. matches' = [matches EXCEPT ![m] = n]
  BY <1>1, RoomsGood DEF ChangeSlot
<1>4. /\ n.host = r.host /\ n.inProgress = r.inProgress
      /\ \A j \in Slots : j # f /\ j # i => n.slots[j] = r.slots[j]
  BY <1>1 DEF Room
<1>5. r.slots[f].status # "locked"
  BY <1>1, RoomsAssumption DEF RoomOK, HasPlayer
<1> HIDE DEF n, f
<1>6. Fair(r, n)
  BY <1>2, <1>4, <1>5, StatusFair
<1> QED
  BY <1>1, <1>3, <1>6, OneReplaced, SameFair

LEMMA HostsFair ==
    ASSUME IInv, NEW u, ChangeSettings(u) \/ StartMatch(u), NEW k \in DOMAIN matches
    PROVE  Fair(matches[k], matches'[k])
<1> DEFINE m == userToMatch[u]
           r == matches[m]
<1>1. m \in DOMAIN matches /\ r \in Room
  BY HostingUser DEF ChangeSettings, StartMatch
<1>2. ASSUME ChangeSettings(u)
      PROVE  Fair(matches[k], matches'[k])
  <2> DEFINE n == [r EXCEPT !.slots = [i \in Slots |-> IF /\ @[i].user \notin {NoUser, u}
                                                          /\ @[i].status = "ready"
                                       THEN [@[i] EXCEPT !.status = "notReady"] ELSE @[i]]]
  <2>1. matches' = [matches EXCEPT ![m] = n]
    BY <1>1, <1>2, RoomsGood DEF ChangeSettings
  <2>2. /\ n.host = r.host /\ n.inProgress = r.inProgress
        /\ \A i \in Slots : r.slots[i].status = "locked" => n.slots[i] = r.slots[i]
    BY <1>1 DEF Room
  <2> HIDE DEF n
  <2> QED
    BY <1>1, <2>1, <2>2, StatusFair, OneReplaced, SameFair
<1>3. ASSUME StartMatch(u)
      PROVE  Fair(matches[k], matches'[k])
  <2> DEFINE n == [r EXCEPT !.inProgress = TRUE,
                            !.slots = [i \in Slots |-> IF @[i].status \in {"ready", "notReady"}
                                       THEN [@[i] EXCEPT !.status = "playing"] ELSE @[i]]]
  <2>1. matches' = [matches EXCEPT ![m] = n]
    BY <1>1, <1>3, RoomsGood DEF StartMatch
  <2>2. /\ n.host = r.host /\ n.inProgress = TRUE
        /\ \A i \in Slots : r.slots[i].status = "locked" => n.slots[i] = r.slots[i]
    BY <1>1 DEF Room
  <2> HIDE DEF n
  <2> QED
    BY <1>1, <2>1, <2>2, StatusFair, OneReplaced, SameFair
<1> QED
  BY <1>2, <1>3

(* What only the host may do: to lock, to unlock, to hand the room on. *)
LEMMA LockFair ==
    ASSUME IInv, NEW u, NEW i \in Slots, LockSlot(u, i), NEW k \in DOMAIN matches
    PROVE  /\ HandsOver(matches[k], matches'[k]) /\ EndsAlone(matches[k], matches'[k])
           /\ \A j \in Slots : matches[k].slots[j].status = "locked" =>
                 \/ matches'[k].slots[j] = matches[k].slots[j]
                 \/ LockSlot(matches[k].host, j)
<1> DEFINE m == userToMatch[u]
           r == matches[m]
<1>1. m \in DOMAIN matches /\ r \in Room /\ r.host = u
  BY HostingUser DEF LockSlot, Hosts
<1>2. PICK status : matches' = [matches EXCEPT ![m].slots[i].status = status]
  BY DEF LockSlot
<1> DEFINE n == [r EXCEPT !.slots[i].status = status]
<1>3. matches' = [matches EXCEPT ![m] = n]
  BY <1>1, <1>2, RoomsGood
<1>4. /\ n.host = r.host /\ n.inProgress = r.inProgress
      /\ \A j \in Slots : j # i => n.slots[j] = r.slots[j]
  BY <1>1 DEF Room
<1> HIDE DEF n
<1>5. CASE k = m
  <2>1. matches'[k] = n
    BY <1>1, <1>3, <1>5, OneReplaced
  <2> QED
    BY <1>1, <1>4, <1>5, <2>1 DEF HandsOver, EndsAlone
<1>6. CASE k # m
  <2>1. matches'[k] = matches[k]
    BY <1>1, <1>3, <1>6, OneReplaced
  <2> QED
    BY <2>1 DEF HandsOver, EndsAlone
<1> QED
  BY <1>5, <1>6

LEMMA ChangeHostFair ==
    ASSUME IInv, NEW u, NEW i \in Slots, ChangeHost(u, i), NEW k \in DOMAIN matches
    PROVE  /\ LocksHold(matches[k], matches'[k]) /\ EndsAlone(matches[k], matches'[k])
           /\ HandsOver(matches[k], matches'[k]) \/ ChangeHost(matches[k].host, i)
<1> DEFINE m == userToMatch[u]
           r == matches[m]
           n == [r EXCEPT !.host = r.slots[i].user]
<1>1. m \in DOMAIN matches /\ r \in Room /\ r.host = u
  BY HostingUser DEF ChangeHost, Hosts
<1>2. matches' = [matches EXCEPT ![m] = n]
  BY <1>1, RoomsGood DEF ChangeHost
<1>3. n.inProgress = r.inProgress /\ n.slots = r.slots
  BY <1>1 DEF Room
<1> HIDE DEF n
<1>4. CASE k = m
  <2>1. matches'[k] = n
    BY <1>1, <1>2, <1>4, OneReplaced
  <2> QED
    BY <1>1, <1>3, <1>4, <2>1 DEF LocksHold, EndsAlone
<1>5. CASE k # m
  <2>1. matches'[k] = matches[k]
    BY <1>1, <1>2, <1>5, OneReplaced
  <2> QED
    BY <2>1 DEF HandsOver, LocksHold, EndsAlone
<1> QED
  BY <1>4, <1>5

(* A step of the rooms, as HostKept, LocksRespected and                    *)
(* FinishInterruptsNobody put it for one room.                             *)
HandedOn(m) ==
    LET h == matches[m].host
    IN matches'[m].host # h =>
          \/ SlotsOf(matches'[m], h) = {}
          \/ JoinMatch(h, m)
          \/ \E i \in Slots : ChangeHost(h, i)

LockedOrHost(m) ==
    \A i \in Slots : matches[m].slots[i].status = "locked" =>
        \/ matches'[m].slots[i] = matches[m].slots[i]
        \/ LockSlot(matches[m].host, i)

LEMMA FairEnough ==
    ASSUME NEW m, Fair(matches[m], matches'[m])
    PROVE  HandedOn(m) /\ LockedOrHost(m) /\ EndsAlone(matches[m], matches'[m])
BY DEF Fair, HandsOver, LocksHold, HandedOn, LockedOrHost

LEMMA StepsFair ==
    ASSUME IInv, [Next]_vars, NEW m \in DOMAIN matches, m \in DOMAIN matches'
    PROVE  /\ HandedOn(m)
           /\ Overwritten(m) \/ (LockedOrHost(m) /\ EndsAlone(matches[m], matches'[m]))
<1> DEFINE Good == HandedOn(m) /\ LockedOrHost(m) /\ EndsAlone(matches[m], matches'[m])
<1>1. ASSUME UNCHANGED matches PROVE Good
  BY <1>1, SameFair, FairEnough
<1>2. ASSUME NEW u \in Users, CreateMatch(u)
      PROVE  HandedOn(m) /\ (Overwritten(m) \/ Good)
  <2>1. HandedOn(m)
    BY <1>2, CreateFair DEF HandedOn, HandsOver
  <2>2. ASSUME ~Overwritten(m) PROVE Good
    BY <1>2, <2>2, CreateFair, FairEnough
  <2> QED
    BY <2>1, <2>2
<1>3. ASSUME NEW u \in Users, PartMatch(u) \/ MatchComplete(u) \/ ChangeTeam(u)
      PROVE  Good
  BY <1>3, PartFair, CompleteFair, ChangeTeamFair, FairEnough
<1>4. ASSUME NEW T \in SUBSET Users, matches' = RoomsWithout(T)
      PROVE  Good
  <2>1. Fair(matches[m], matches'[m])
    BY <1>4, LeftFair DEF Fair, EndsAlone
  <2> QED
    BY <2>1, FairEnough
<1>5. ASSUME NEW u \in Users, Logout(u) \/ Evict(u)
      PROVE  Good
  BY <1>4, <1>5 DEF Logout, Evict, RemoveSessions
<1>6. ASSUME NEW u \in Users, NEW status, SetStatus(u, status)
      PROVE  Good
  <2>1. Fair(matches[m], matches'[m])
    <3>1. /\ Seated(u)
          /\ matches' = [matches EXCEPT ![userToMatch[u]].slots[SlotOf(u)].status = status]
      BY <1>6 DEF SetStatus
    <3>2. /\ matches'[m].inProgress = matches[m].inProgress
          /\ matches'[m].host = matches[m].host /\ LocksHold(matches[m], matches'[m])
      BY <3>1, SetStatusFair
    <3> QED
      BY <3>2, StatusFair DEF LocksHold
  <2> QED
    BY <2>1, FairEnough
<1>7. ASSUME NEW u \in Users, ChangeSettings(u) \/ StartMatch(u)
      PROVE  Good
  BY <1>7, HostsFair, FairEnough
<1>8. ASSUME NEW u \in Users, NEW k \in MatchIds, JoinMatch(u, k)
      PROVE  Good
  BY <1>8, JoinFair DEF HandsOver, LocksHold, HandedOn, LockedOrHost
<1>9. ASSUME NEW u \in Users, NEW k \in MatchIds, JoinVanishedMatch(u, k)
      PROVE  Good
  BY <1>4, <1>9 DEF JoinVanishedMatch
<1>10. ASSUME NEW u \in Users, NEW i \in Slots, ChangeSlot(u, i)
       PROVE  Good
  BY <1>10, ChangeSlotFair, FairEnough
<1>11. ASSUME NEW u \in Users, NEW i \in Slots, LockSlot(u, i)
       PROVE  Good
  BY <1>11, LockFair DEF HandsOver, HandedOn, LockedOrHost
<1>12. ASSUME NEW u \in Users, NEW i \in Slots, ChangeHost(u, i)
       PROVE  Good
  BY <1>12, ChangeHostFair DEF HandsOver, LocksHold, HandedOn, LockedOrHost
<1>13. ASSUME NEW T \in SUBSET Users, PrunerTick(T)
       PROVE  Good
  BY <1>4, <1>13 DEF PrunerTick, RemoveSessions
<1>14. ASSUME UNCHANGED vars \/ \E u \in Users : LoadComplete(u) \/ ScoreUpdate(u)
       PROVE  Good
  BY <1>1, <1>14 DEF vars, LoadComplete, ScoreUpdate
<1>15. ASSUME NEW u \in Users, Ready(u) \/ NotReady(u) \/ NoBeatmap(u) \/ HasBeatmap(u)
       PROVE  Good
  BY <1>6, <1>15 DEF Ready, NotReady, NoBeatmap, HasBeatmap
<1> QED
  BY <1>2, <1>3, <1>5, <1>7, <1>8, <1>9, <1>10, <1>11, <1>12, <1>13, <1>14, <1>15 DEF Next

(* A room changes hands only when its host gives it away or leaves. *)
THEOREM HostStays == Spec => HostKept
<1>1. IInv /\ [Next]_vars =>
        [\A m \in DOMAIN matches \cap DOMAIN matches' : HandedOn(m)]_vars
  BY StepsFair
<1> QED
  BY <1>1, Inductive, PTL DEF Spec, HostKept, HandedOn

(* What the host locked stays locked and empty until the host unlocks it   *)
(* or the room itself is overwritten.                                      *)
THEOREM LocksStay == Spec => LocksRespected
<1>1. IInv /\ [Next]_vars =>
        [\A m \in DOMAIN matches \cap DOMAIN matches' :
            LockedOrHost(m) \/ Overwritten(m)]_vars
  BY StepsFair
<1>2. IInv /\ [Next]_vars =>
        [\A m \in DOMAIN matches \cap DOMAIN matches', i \in Slots :
            matches[m].slots[i].status = "locked" =>
                \/ matches'[m].slots[i] = matches[m].slots[i]
                \/ LockSlot(matches[m].host, i)
                \/ Overwritten(m)]_vars
  BY <1>1 DEF LockedOrHost
<1> QED
  BY <1>2, Inductive, PTL DEF Spec, LocksRespected

(* Only the last player still playing ends a game, or a room that takes    *)
(* over the id of the room the game is played in.                          *)
THEOREM NobodyInterrupted == Spec => FinishInterruptsNobody
<1>1. IInv /\ [Next]_vars =>
        [\A m \in DOMAIN matches \cap DOMAIN matches' :
            EndsAlone(matches[m], matches'[m]) \/ Overwritten(m)]_vars
  BY StepsFair
<1>2. IInv /\ [Next]_vars =>
        [\A m \in DOMAIN matches \cap DOMAIN matches' :
            matches[m].inProgress /\ ~matches'[m].inProgress =>
                \/ \A i, j \in SlotsIn(matches[m], "playing") : i = j
                \/ Overwritten(m)]_vars
  BY <1>1 DEF EndsAlone
<1> QED
  BY <1>2, Inductive, PTL DEF Spec, FinishInterruptsNobody

-----------------------------------------------------------------------------
(* Which steps may leave a game that is over *)

(* n is not over unless r was: it has a player, or somebody who is done,   *)
(* or somebody who plays, where r has.                                     *)
NoStall(r, n) == GameOver(n) => GameOver(r)

LEMMA SameStatuses ==
    ASSUME NEW r, NEW n, n.inProgress = r.inProgress,
           \A i \in Slots : /\ n.slots[i].status = "playing" <=> r.slots[i].status = "playing"
                            /\ n.slots[i].status = "complete" <=> r.slots[i].status = "complete"
                            /\ n.slots[i].status \in HasPlayer <=> r.slots[i].status \in HasPlayer
    PROVE  NoStall(r, n)
BY DEF NoStall, GameOver, SlotsIn

LEMMA ChangeSlotStalls ==
    ASSUME IInv, NEW u, NEW i \in Slots, ChangeSlot(u, i), NEW k \in DOMAIN matches
    PROVE  NoStall(matches[k], matches'[k])
<1> DEFINE m == userToMatch[u]
           r == matches[m]
           f == SlotOf(u)
           n == [r EXCEPT !.slots[f] = DefaultSlot, !.slots[i] = r.slots[f]]
<1>1. m \in DOMAIN matches /\ r \in Room /\ f \in Slots /\ r.slots[i].status = "open"
  BY SeatedUser DEF ChangeSlot
<1>2. matches' = [matches EXCEPT ![m] = n]
  BY <1>1, RoomsGood DEF ChangeSlot
<1>3. /\ n.inProgress = r.inProgress
      /\ n.slots[i] = r.slots[f]
      /\ \A j \in Slots : j # f /\ j # i => n.slots[j] = r.slots[j]
      /\ i # f => n.slots[f] = DefaultSlot
  BY <1>1 DEF Room
<1> HIDE DEF n, f
<1>4. ASSUME NEW j \in Slots, r.slots[j].status # "open"
      PROVE  \E l \in Slots : n.slots[l].status = r.slots[j].status
  <2>1. j = f \/ (j # f /\ j # i)
    BY <1>1, <1>4
  <2> QED
    BY <1>3, <2>1
<1>5. ASSUME NEW l \in Slots, n.slots[l].status # "open"
      PROVE  \E j \in Slots : r.slots[j].status = n.slots[l].status
  BY <1>1, <1>3, <1>5 DEF DefaultSlot
<1>6. NoStall(r, n)
  BY <1>3, <1>4, <1>5 DEF NoStall, GameOver, SlotsIn, HasPlayer
<1> QED
  BY <1>1, <1>2, <1>6, OneReplaced DEF NoStall

LEMMA HostStalls ==
    ASSUME IInv, NEW u, NEW k \in DOMAIN matches,
           \/ ChangeSettings(u)
           \/ \E i \in Slots : LockSlot(u, i) \/ ChangeHost(u, i)
    PROVE  NoStall(matches[k], matches'[k])
<1> DEFINE m == userToMatch[u]
           r == matches[m]
<1>1. m \in DOMAIN matches /\ r \in Room
  BY HostingUser DEF ChangeSettings, LockSlot, ChangeHost
<1>2. ASSUME NEW n, matches' = [matches EXCEPT ![m] = n], NoStall(r, n)
      PROVE  NoStall(matches[k], matches'[k])
  BY <1>1, <1>2, OneReplaced DEF NoStall
<1>3. ASSUME ChangeSettings(u)
      PROVE  NoStall(matches[k], matches'[k])
  <2> DEFINE n == [r EXCEPT !.slots = [i \in Slots |-> IF /\ @[i].user \notin {NoUser, u}
                                                          /\ @[i].status = "ready"
                                       THEN [@[i] EXCEPT !.status = "notReady"] ELSE @[i]]]
  <2>1. matches' = [matches EXCEPT ![m] = n]
    BY <1>1, <1>3, RoomsGood DEF ChangeSettings
  <2>2. /\ n.inProgress = r.inProgress
        /\ \A i \in Slots : n.slots[i].status = r.slots[i].status
                              \/ (r.slots[i].status = "ready" /\ n.slots[i].status = "notReady")
    BY <1>1 DEF Room, Slot
  <2> HIDE DEF n
  <2>3. NoStall(r, n)
    BY <2>2, SameStatuses DEF HasPlayer
  <2> QED
    BY <1>2, <2>1, <2>3
<1>4. ASSUME NEW i \in Slots, LockSlot(u, i)
      PROVE  NoStall(matches[k], matches'[k])
  <2>1. PICK status \in {"open", "locked"} :
            matches' = [matches EXCEPT ![m].slots[i].status = status]
    BY <1>4 DEF LockSlot
  <2>2. r.slots[i].status \in {"open", "locked"}
    BY <1>4 DEF LockSlot
  <2> DEFINE n == [r EXCEPT !.slots[i].status = status]
  <2>3. matches' = [matches EXCEPT ![m] = n]
    BY <1>1, <2>1, RoomsGood
  <2>4. /\ n.inProgress = r.inProgress /\ n.slots[i].status = status
        /\ \A j \in Slots : j # i => n.slots[j] = r.slots[j]
    BY <1>1 DEF Room, Slot
  <2> HIDE DEF n
  <2>5. NoStall(r, n)
    BY <2>2, <2>4, SameStatuses DEF HasPlayer
  <2> QED
    BY <1>2, <2>3, <2>5
<1>5. ASSUME NEW i \in Slots, ChangeHost(u, i)
      PROVE  NoStall(matches[k], matches'[k])
  <2> DEFINE n == [r EXCEPT !.host = r.slots[i].user]
  <2>1. matches' = [matches EXCEPT ![m] = n]
    BY <1>1, <1>5, RoomsGood DEF ChangeHost
  <2>2. n.inProgress = r.inProgress /\ n.slots = r.slots
    BY <1>1 DEF Room
  <2> HIDE DEF n
  <2>3. NoStall(r, n)
    BY <2>2, SameStatuses
  <2> QED
    BY <1>2, <2>1, <2>3
<1> QED
  BY <1>3, <1>4, <1>5

(* After try_finish_match its room is not over. *)
LEMMA SettledStalls ==
    ASSUME NEW rooms, NEW m, NEW k \in DOMAIN rooms, rooms[k] \in Room,
           NEW n, n = Settled(rooms, Finished(rooms, m))[k], GameOver(n)
    PROVE  k # m /\ n = rooms[k]
<1>1. CASE k \in Finished(rooms, m)
  <2>1. n = Concluded(rooms[k])
    BY <1>1 DEF Settled, Finished
  <2>2. n.inProgress = FALSE
    BY <2>1 DEF Concluded, Room
  <2> QED
    BY <2>2 DEF GameOver
<1>2. CASE k \notin Finished(rooms, m)
  <2>1. n = rooms[k]
    BY <1>2 DEF Settled
  <2> QED
    BY <1>2, <2>1 DEF Finished
<1> QED
  BY <1>1, <1>2

LEMMA PartStalls ==
    ASSUME IInv, NEW u \in Users, PartMatch(u), NEW k \in DOMAIN matches, k \in DOMAIN matches'
    PROVE  NoStall(matches[k], matches'[k])
<1> DEFINE rest == RoomsWithout({u})
           m == userToMatch[u]
<1>1. CASE UNCHANGED matches
  BY <1>1 DEF NoStall
<1>2. ASSUME k \in DOMAIN rest, k # m
      PROVE  NoStall(matches[k], rest[k])
  <2>1. Leavers({u}, k) = {}
    BY <1>2 DEF Leavers
  <2>2. rest[k] = LeftBehind(matches[k], {})
    BY <1>2, <2>1 DEF RoomsWithout
  <2>3. \A i \in Slots : SlotsWithout(matches[k], {})[i] = matches[k].slots[i]
    BY RoomsGood, VacateSlots
  <2>4. /\ rest[k].inProgress = matches[k].inProgress
        /\ \A i \in Slots : rest[k].slots[i] = matches[k].slots[i]
    BY <2>2, <2>3 DEF LeftBehind
  <2> HIDE DEF rest
  <2> QED
    BY <2>4, SameStatuses
<1>3. CASE Disbanded({u}) # {} /\ matches' = rest
  <2>1. k \in DOMAIN rest /\ k \notin Disbanded({u})
    BY <1>3 DEF RoomsWithout
  <2>2. k # m
    BY <1>3, <2>1 DEF Disbanded, Leavers
  <2> QED
    BY <1>2, <1>3, <2>1, <2>2
<1>4. CASE TryFinish(rest, m)
  <2>1. matches' = Settled(rest, Finished(rest, m))
    BY <1>4 DEF TryFinish
  <2>2. k \in DOMAIN rest
    BY <2>1 DEF Settled
  <2>3. rest[k] \in Room
    BY <2>2, LeftFair
  <2>4. GameOver(matches'[k]) => k # m /\ matches'[k] = rest[k]
    BY <2>1, <2>2, <2>3, SettledStalls
  <2> QED
    BY <1>2, <2>2, <2>4 DEF NoStall
<1> QED
  BY <1>1, <1>3, <1>4 DEF PartMatch

LEMMA CompleteStalls ==
    ASSUME IInv, NEW u, MatchComplete(u) \/ ChangeTeam(u), NEW k \in DOMAIN matches
    PROVE  NoStall(matches[k], matches'[k])
<1> DEFINE m == userToMatch[u]
           done == [matches EXCEPT ![m].slots[SlotOf(u)].status = "complete"]
<1>1. CASE matches' = Settled(matches, Finished(matches, m))
  <2>1. GameOver(matches'[k]) => k # m /\ matches'[k] = matches[k]
    BY <1>1, RoomsGood, SettledStalls
  <2> QED
    BY <2>1 DEF NoStall
<1>2. CASE Seated(u) /\ matches' = Settled(done, Finished(done, m))
  <2>1. m \in DOMAIN matches /\ matches \in [DOMAIN matches -> Room]
    BY <1>2, RoomsGood DEF Seated
  <2>2. k \in DOMAIN done /\ (k # m => done[k] = matches[k])
    BY <2>1
  <2>3. done = [matches EXCEPT ![userToMatch[u]].slots[SlotOf(u)].status = "complete"]
    OBVIOUS
  <2> HIDE DEF done
  <2>4. done[k] \in Room
    <3>1. RoomsOK(done, userToMatch)
      BY <1>2, <2>3, SetStatusStep
    <3> QED
      BY <2>2, <3>1 DEF RoomsOK
  <2>5. GameOver(matches'[k]) => k # m /\ matches'[k] = done[k]
    BY <1>2, <2>2, <2>4, SettledStalls
  <2> QED
    BY <2>2, <2>5 DEF NoStall
<1> QED
  BY <1>1, <1>2 DEF MatchComplete, ChangeTeam, TryFinish

(* The steps that do not ask whether the game is over. *)
Unchecked ==
    \/ \E u \in Users :
        \/ CreateMatch(u) \/ Logout(u) \/ Evict(u) \/ StartMatch(u)
        \/ \E k \in MatchIds : JoinMatch(u, k) \/ JoinVanishedMatch(u, k)
        \/ \E status \in {"ready", "notReady", "noMap"} : SetStatus(u, status)
    \/ \E T \in SUBSET Users : PrunerTick(T)

(* PART, COMPLETE and CHANGE_TEAM never leave a game that is over but goes *)
(* on, and no step inside a room but a status packet or a START does.      *)
THEOREM StallsUnchecked == Spec => StallsOnlyUnchecked
<1>1. ASSUME IInv, [Next]_vars, NEW m \in DOMAIN matches, m \in DOMAIN matches', ~Unchecked
      PROVE  NoStall(matches[m], matches'[m])
  <2>1. ASSUME NEW u \in Users, PartMatch(u) \/ MatchComplete(u) \/ ChangeTeam(u)
        PROVE  NoStall(matches[m], matches'[m])
    BY <1>1, <2>1, PartStalls, CompleteStalls
  <2>2. ASSUME NEW u \in Users, ChangeSettings(u) \/ \E i \in Slots : LockSlot(u, i) \/ ChangeHost(u, i)
        PROVE  NoStall(matches[m], matches'[m])
    BY <1>1, <2>2, HostStalls
  <2>3. ASSUME NEW u \in Users, NEW i \in Slots, ChangeSlot(u, i)
        PROVE  NoStall(matches[m], matches'[m])
    BY <1>1, <2>3, ChangeSlotStalls
  <2>4. ASSUME UNCHANGED vars \/ \E u \in Users : LoadComplete(u) \/ ScoreUpdate(u)
        PROVE  NoStall(matches[m], matches'[m])
    BY <2>4 DEF NoStall, vars, LoadComplete, ScoreUpdate
  <2>5. ASSUME NEW u \in Users, Ready(u) \/ NotReady(u) \/ NoBeatmap(u) \/ HasBeatmap(u)
        PROVE  Unchecked
    BY <2>5 DEF Unchecked, Ready, NotReady, NoBeatmap, HasBeatmap
  <2> QED
    BY <1>1, <2>1, <2>2, <2>3, <2>4, <2>5 DEF Next, Unchecked
<1>2. IInv /\ [Next]_vars =>
        [\A m \in DOMAIN matches \cap DOMAIN matches' :
            GameOver(matches'[m]) /\ ~GameOver(matches[m]) => Unchecked]_vars
  BY <1>1 DEF NoStall
<1> QED
  BY <1>2, Inductive, PTL DEF Spec, StallsOnlyUnchecked, Unchecked
=============================================================================
