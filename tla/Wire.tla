-------------------------------- MODULE Wire ---------------------------------
(***************************************************************************)
(* The packets of the protocol as sequences: how they are framed           *)
(* (src/protocol/writer.rs, reader.rs, handle_client_packets), how strings *)
(* and rooms are written and read (uleb128.rs, build_match_packet and      *)
(* parse_match of packets.rs), and how a score frame is relayed.           *)
(*                                                                         *)
(* Abstracted: an integer, of whatever width, is one element of the        *)
(* sequence, written and read little-endian by the same library; a byte of *)
(* a length carries a digit to base Half (128).  Of a room and of a frame  *)
(* those fields are kept whose presence or place depends on others.        *)
(***************************************************************************)
EXTENDS Integers, Sequences, FiniteSets

CONSTANTS
    NSlots,      \* 16
    Half,        \* 128
    MaxDigits,   \* digits of a length that fit 64 bits
    Rooms,       \* the rooms written
    Frames,      \* the payloads of score frames
    Others,      \* the payloads of other packets
    MaxPackets   \* bound of the model: packets of one stream

VARIABLES
    room,    \* the room of this stream
    stream,  \* what the session's queue or the client's request holds
    sent,    \* history: the packets written into it, and where each ends
    cut      \* the rest of the stream was lost

wireVars == <<room, stream, sent, cut>>

Slots == 1 .. NSlots

Nobody == -1

(* the statuses with a bit of SLOT_HAS_PLAYER *)
HasPlayer == {4, 8, 16, 32, 64}

(* A room has no password, or one that is not empty: parse_match sees to it. *)
NoPassword == << >>

-----------------------------------------------------------------------------
(* write_uleb128: the digits, lowest first, all but the last marked *)
Uleb[n \in Nat] ==
    IF n < Half THEN <<n>> ELSE <<Half + (n % Half)>> \o Uleb[n \div Half]

WriteString(s) == IF s = << >> THEN <<0>> ELSE <<11>> \o Uleb[Len(s)] \o s

(* A length has no more digits than read_uleb128 takes, and a slot without *)
(* a player names nobody (MatchSlot::default, reset).                       *)
Fits(s) == Len(Uleb[Len(s)]) <= MaxDigits

ASSUME WireAssumption ==
    /\ NSlots \in Nat /\ MaxPackets \in Nat
    /\ Half \in Nat /\ Half >= 2
    /\ MaxDigits \in Nat /\ MaxDigits >= 1
    /\ Rooms \subseteq [name : Seq(Int), password : Seq(Int),
                        slots : [Slots -> [status : Int, user : Int, mods : Int]],
                        freemod : BOOLEAN, seed : Int]
    /\ \A m \in Rooms :
          /\ Fits(m.name) /\ Fits(m.password)
          /\ \A i \in Slots : m.slots[i].status \notin HasPlayer => m.slots[i].user = Nobody
    /\ Frames \subseteq Seq(Int) /\ Others \subseteq Seq(Int)

Column(slots, field) == [i \in Slots |-> slots[i][field]]

(* how many of the first i slots have players *)
Players(statuses, i) == Cardinality({j \in 1 .. i : statuses[j] \in HasPlayer})

(* the users of the slots that have players, in the order of the slots *)
UsersOf(slots) ==
    LET statuses == Column(slots, "status")
        nth(n)   == CHOOSE i \in Slots : statuses[i] \in HasPlayer /\ Players(statuses, i) = n
    IN  [n \in 1 .. Players(statuses, NSlots) |-> slots[nth(n)].user]

(* Mutant: the users of all slots are written. *)
WriteAllSlots(slots) == Column(slots, "status") \o Column(slots, "user")

WriteSlots(slots) == Column(slots, "status") \o UsersOf(slots)

(* the password that everybody sees *)
Hidden(p) == IF p = NoPassword THEN NoPassword ELSE <<32>>

(* build_match_packet, but for the seed at its end *)
WriteFields(m, sendPassword) ==
    WriteString(m.name)
    \o WriteString(IF sendPassword THEN m.password ELSE Hidden(m.password))
    \o WriteSlots(m.slots)
    \o (IF m.freemod THEN <<1>> \o Column(m.slots, "mods") ELSE <<0>>)

WriteRoom(m, sendPassword) == WriteFields(m, sendPassword) \o <<m.seed>>

(* build_packet *)
Packet(id, payload) == <<id, Len(payload)>> \o payload

-----------------------------------------------------------------------------
(* Reading: what is read, and the rest *)

Failed == [failed |-> TRUE]
Read(value, rest) == [failed |-> FALSE, value |-> value, rest |-> rest]

Drop(s, n) == SubSeq(s, n + 1, Len(s))

ReadMany(s, n) ==
    IF Len(s) < n THEN Failed ELSE Read(SubSeq(s, 1, n), Drop(s, n))

(* read_uleb128: at most MaxDigits digits *)
Digits(s) == {n \in 1 .. Len(s) : n <= MaxDigits /\ s[n] < Half /\ \A k \in 1 .. n - 1 : s[k] >= Half}

(* what digits say, lowest first *)
Number[s \in Seq(Int)] == IF s = << >> THEN 0 ELSE (s[1] % Half) + Half * Number[Tail(s)]

ReadLength(s) ==
    IF Digits(s) = {} THEN Failed
    ELSE LET n == CHOOSE k \in Digits(s) : TRUE
         IN  Read(Number[SubSeq(s, 1, n)], Drop(s, n))

ReadString(s) ==
    IF s = << >> \/ s[1] \notin {0, 11} THEN Failed
    ELSE IF s[1] = 0 THEN Read(<< >>, Drop(s, 1))
    ELSE LET length == ReadLength(Drop(s, 1))
         IN  IF length.failed THEN Failed ELSE ReadMany(length.rest, length.value)

(* Every player's slot takes the next user. *)
SlotsRead(statuses, users, mods) ==
    [i \in Slots |->
        [status |-> statuses[i],
         user |-> IF statuses[i] \in HasPlayer THEN users[Players(statuses, i)] ELSE Nobody,
         mods |-> mods[i]]]

(* parse_match; the seed may be missing *)
ReadRoom(s) ==
    LET name     == ReadString(s)
        password == ReadString(name.rest)
        statuses == ReadMany(password.rest, NSlots)
        users    == ReadMany(statuses.rest, Players(statuses.value, NSlots))
        freemod  == ReadMany(users.rest, 1)
        mods     == IF freemod.value[1] # 0 THEN ReadMany(freemod.rest, NSlots)
                    ELSE Read([i \in Slots |-> 0], freemod.rest)
    IN  IF name.failed \/ password.failed \/ statuses.failed \/ users.failed \/ freemod.failed \/ mods.failed
        THEN Failed
        ELSE Read([name |-> name.value, password |-> password.value,
                   slots |-> SlotsRead(statuses.value, users.value, mods.value),
                   freemod |-> freemod.value[1] # 0,
                   seed |-> IF mods.rest = << >> THEN 0 ELSE mods.rest[1]],
                  Drop(mods.rest, 1))

(* parse_score_frame: time, slot, score, whether it is ScoreV2, portions *)
ReadFrame(s) ==
    IF Len(s) < 4 THEN Failed
    ELSE LET scoreV2 == s[4] # 0
             portions == scoreV2 /\ Len(s) >= 6
         IN  Read([time |-> s[1], slot |-> s[2], score |-> s[3], scoreV2 |-> scoreV2,
                   portions |-> IF portions THEN <<s[5], s[6]>> ELSE <<0, 0>>],
                  Drop(s, IF portions THEN 6 ELSE 4))

(* build_relayed_match_score_update *)
Relayed(payload, seat) == [payload EXCEPT ![2] = seat]

(* The loop of handle_client_packets: packets as [id, payload], until one  *)
(* is not there as a whole.                                                *)
Packets[s \in Seq(Int)] ==
    IF Len(s) < 2 \/ s[2] \notin 0 .. Len(s) - 2 THEN << >>
    ELSE <<[id |-> s[1], payload |-> SubSeq(s, 3, 2 + s[2])]>> \o Packets[Drop(s, 2 + s[2])]

-----------------------------------------------------------------------------
(* What is written *)

RoomId  == 26    \* MATCH_UPDATE, and the other packets with a room in them
FrameId == 48    \* MATCH_SCORE_UPDATE
OtherId == 3

Send(id, payload, about) ==
    /\ ~cut /\ Len(sent) < MaxPackets
    /\ stream' = stream \o Packet(id, payload)
    /\ sent'   = Append(sent, [id |-> id, payload |-> payload, about |-> about, end |-> Len(stream')])
    /\ UNCHANGED <<room, cut>>

(* A client may leave out the seed. *)
SendRoom ==
    \E password \in BOOLEAN :
        \/ Send(RoomId, WriteRoom(room, password), [password |-> password, seed |-> TRUE])
        \/ Send(RoomId, WriteFields(room, password), [password |-> password, seed |-> FALSE])

SendFrame == \E payload \in Frames : Send(FrameId, payload, [password |-> FALSE, seed |-> FALSE])

SendOther == \E payload \in Others : Send(OtherId, payload, [password |-> FALSE, seed |-> FALSE])

(* The request ends in the middle of a packet. *)
Cut ==
    /\ ~cut /\ cut' = TRUE
    /\ \E n \in 0 .. Len(stream) - 1 : stream' = SubSeq(stream, 1, n)
    /\ UNCHANGED <<room, sent>>

WireInit ==
    /\ room \in Rooms
    /\ stream = << >> /\ sent = << >> /\ cut = FALSE

WireNext == SendRoom \/ SendFrame \/ SendOther \/ Cut

WireSpec == WireInit /\ [][WireNext]_wireVars

-----------------------------------------------------------------------------
(* Properties *)

(* Of the packets sent those are handled that arrived as a whole, in their *)
(* order, and no part of one is taken for another (handle_client_packets). *)
WholePacketsOnly ==
    LET whole == {n \in DOMAIN sent : sent[n].end <= Len(stream)}
    IN  /\ DOMAIN Packets[stream] = whole
        /\ \A n \in whole : Packets[stream][n] = [id |-> sent[n].id, payload |-> sent[n].payload]

(* What a packet shows of a room: its password or that it has one, mods of *)
(* slots only under freemod, and no seed where none was sent.              *)
Shown(m, about) ==
    [m EXCEPT !.password = IF about.password THEN @ ELSE Hidden(@),
              !.slots = [i \in Slots |-> IF m.freemod THEN @[i] ELSE [@[i] EXCEPT !.mods = 0]],
              !.seed = IF about.seed THEN @ ELSE 0]

(* A room is read as it was written, with its players in their slots       *)
(* (parse_match after build_match_packet).                                 *)
RoomsReadAsWritten ==
    \A n \in DOMAIN sent :
        sent[n].id = RoomId => LET r == ReadRoom(sent[n].payload)
                               IN  ~r.failed /\ r.value = Shown(room, sent[n].about)

(* A relayed frame is read by the players as the one the server keeps for  *)
(* the result: the sender's, with the slot the server knows, whatever else *)
(* the client has put into it.                                             *)
FramesRelayed ==
    \A n \in DOMAIN sent, seat \in Slots :
        sent[n].id = FrameId /\ ~ReadFrame(sent[n].payload).failed =>
            LET kept == [ReadFrame(sent[n].payload).value EXCEPT !.slot = seat]
            IN  /\ ReadFrame(Relayed(sent[n].payload, seat)).value = kept
                /\ Len(Relayed(sent[n].payload, seat)) = Len(sent[n].payload)

(* What one side writes, the other reads. *)
SurvivesTheWire == WholePacketsOnly /\ RoomsReadAsWritten /\ FramesRelayed
=============================================================================
