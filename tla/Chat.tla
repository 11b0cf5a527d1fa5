-------------------------------- MODULE Chat ---------------------------------
(***************************************************************************)
(* What is said: SEND_PUBLIC_MESSAGE, SEND_PRIVATE_MESSAGE and the replay  *)
(* of CHANNEL_JOIN (src/bancho/handler.rs), the replay of handle_login     *)
(* (src/server/bancho.rs), !history (src/bancho/bot.rs) and the table      *)
(* chat_messages (src/db/chat.rs).                                         *)
(*                                                                         *)
(* One channel, which every login enters; others are alike.  A message is  *)
(* its number.  It is stored by a task of its own while its handler goes   *)
(* on to broadcast it, and a replay is read from the table by yet another  *)
(* task: who is shown what depends on the order of the three.              *)
(*                                                                         *)
(* Abstracted: words and their filter, names (a name leads to its user's   *)
(* session), the bot's other commands, and requests that fail before they  *)
(* change anything.  Sessions are those of module Sessions without their   *)
(* polls and without logins of a user that overlap; a handler that needs   *)
(* its session looks it up again.                                          *)
(***************************************************************************)
EXTENDS Maps, Logins, Naturals, Sequences

CONSTANTS
    Limit,        \* chat_history_limit, not 0
    MaxMessages   \* bound of the model: public messages

ASSUME ChatAssumption == Limit \in Nat \ {0}

VARIABLES
    present, latest,    \* sessions, user_id_to_token
    listeners,          \* who is in the channel
    doing,              \* what the request of a token is about to do
    said,               \* history: who said each message, and whether to the bot
    saving,             \* the tasks that store a message
    rows,               \* table chat_messages
    sent,               \* history: the messages that were broadcast
    replay,             \* replay[t]: the task that replays the channel to t
    shown,              \* shown[t]: the messages queued for t
    since,              \* history: since[t]: what there was when t joined the channel
    warnedPairs,        \* pm_warned_pairs
    warnings,           \* history: warnings[u][v]: how often u was warned of talking with v
    mail                \* mail[t]: who wrote to the user of t while t was there

chatTable == <<present, latest, listeners>>
spoken    == <<said, saving, rows, sent, replay, shown, since>>
written   == <<warnedPairs, warnings, mail>>
chatVars  == <<chatTable, doing, spoken, written>>

-----------------------------------------------------------------------------
Numbers == DOMAIN said

None == [step |-> "none"]

At(t, step) == doing[t].step = step

Goes(t, r) == doing' = [doing EXCEPT ![t] = r]

Done(t) == Goes(t, [step |-> "idle"])

Begins(t) == At(t, "idle") /\ t \in present

(* get_channel_history: the newest n rows *)
Newest(n) == {rows[i] : i \in {i \in DOMAIN rows : i + n > Len(rows)}}

(* the sessions a broadcast to the users of U reaches *)
Reached(U) == {latest[u] : u \in U \cap DOMAIN latest} \cap present

Show(T, M) == shown' = [t \in Tokens |-> IF t \in T THEN shown[t] \cup M ELSE shown[t]]

(* remove_session, for every token of S; what a session saw goes with it *)
EndSessions(S) ==
    LET gone == S \cap present
    IN  /\ present'   = present \ S
        /\ latest'    = Without(latest, OwnersOf(gone))
        /\ listeners' = listeners \ OwnersOf(gone)
        /\ shown' = [t \in Tokens |-> IF t \in gone THEN {} ELSE shown[t]]
        /\ since' = [t \in Tokens |-> IF t \in gone THEN None ELSE since[t]]
        /\ mail'  = [t \in Tokens |-> IF t \in gone THEN {} ELSE mail[t]]

-----------------------------------------------------------------------------
(* Logins and the ends of sessions *)

Former(u) == IF u \in DOMAIN latest THEN {latest[u]} ELSE {}

Evict(t) ==
    /\ At(t, "unborn")
    /\ \A s \in Tokens : Owner[s] = Owner[t] => doing[s].step \notin {"login", "enter"}
    /\ EndSessions(Former(Owner[t]))
    /\ Goes(t, [step |-> "login"])
    /\ UNCHANGED <<said, saving, rows, sent, replay, warnedPairs, warnings>>

(* The replay of a login is read before the session is a member. *)
ReadForLogin(t) ==
    /\ At(t, "login")
    /\ \E seen \in {Newest(Limit), {}} : Goes(t, [step |-> "enter", seen |-> seen])
    /\ UNCHANGED <<chatTable, spoken, written>>

(* add_member and add_session; the answer carries the replay. *)
EnterChat(t) ==
    /\ At(t, "enter")
    /\ present'   = present \cup {t}
    /\ latest'    = Put(latest, Owner[t], t)
    /\ listeners' = listeners \cup {Owner[t]}
    /\ Show({t}, doing[t].seen)
    /\ Done(t)
    /\ UNCHANGED <<said, saving, rows, sent, replay, since, written>>

(* Logout or time-out; a request of the session may be under way. *)
End(t) ==
    /\ t \in present
    /\ EndSessions({t})
    /\ UNCHANGED <<doing, said, saving, rows, sent, replay, warnedPairs, warnings>>

(* The connection breaks and the task is dropped at an await. *)
DropDoing(t) ==
    /\ doing[t].step \notin {"unborn", "idle"}
    /\ Done(t)
    /\ UNCHANGED <<chatTable, spoken, written>>

-----------------------------------------------------------------------------
(* Public messages *)

(* The message is accepted and given to a task that stores it. *)
Say(t, bot) ==
    /\ Begins(t) /\ Len(said) < MaxMessages
    /\ said'   = Append(said, [by |-> Owner[t], bot |-> bot])
    /\ saving' = saving \cup {Len(said) + 1}
    /\ Goes(t, [step |-> IF bot THEN "ask" ELSE "send", message |-> Len(said) + 1])
    /\ UNCHANGED <<chatTable, rows, sent, replay, shown, since, written>>

(* broadcast_to_channel_except its sender *)
Send(t) ==
    /\ At(t, "send")
    /\ sent' = sent \cup {doing[t].message}
    /\ Show(Reached(listeners \ {Owner[t]}), {doing[t].message})
    /\ Done(t)
    /\ UNCHANGED <<chatTable, said, saving, rows, replay, since, written>>

(* !history: the bot reads the rows, and its reply goes to the channel.    *)
(* Without rows the reply is words only.                                   *)
Ask(t) ==
    /\ At(t, "ask")
    /\ \E n \in 0 .. Limit : Goes(t, [step |-> "reply", seen |-> Newest(n)])
    /\ UNCHANGED <<chatTable, spoken, written>>

Reply(t) ==
    /\ At(t, "reply")
    /\ Show(Reached(listeners), doing[t].seen)
    /\ Done(t)
    /\ UNCHANGED <<chatTable, said, saving, rows, sent, replay, since, written>>

(* save_chat_message, whose error is ignored *)
Save(m) ==
    /\ m \in saving
    /\ saving' = saving \ {m}
    /\ rows' \in {Append(rows, m), rows}
    /\ UNCHANGED <<chatTable, doing, said, sent, replay, shown, since, written>>

-----------------------------------------------------------------------------
(* Joining and parting *)

(* CHANNEL_JOIN, first lock.  Bound of the model: one replay for a session *)
(* at a time.                                                              *)
Join(t) ==
    /\ Begins(t) /\ replay[t] = None
    /\ Goes(t, [step |-> "join"])
    /\ UNCHANGED <<chatTable, spoken, written>>

Membership(t) ==
    /\ listeners' = listeners \cup {Owner[t]}
    /\ since' = [since EXCEPT ![t] =
                      IF t \in present
                      THEN [step |-> "joined", sent |-> sent, saved |-> Newest(Limit)] ELSE None]

(* Mutant: the replay is read before the user is in the channel. *)
BecomeMemberLate(t) ==
    /\ At(t, "join")
    /\ IF replay[t] = None
       THEN /\ replay' = [replay EXCEPT ![t] = [step |-> "early", seen |-> Newest(Limit)]]
            /\ UNCHANGED <<listeners, since, doing>>
       ELSE /\ replay' = [replay EXCEPT ![t].step = "read"]
            /\ Membership(t)
            /\ Done(t)
    /\ UNCHANGED <<present, latest, said, saving, rows, sent, shown, written>>

(* CHANNEL_JOIN, second lock; then a task is started for the replay. *)
BecomeMember(t) ==
    /\ At(t, "join")
    /\ Membership(t)
    /\ replay' = [replay EXCEPT ![t] = [step |-> "asked"]]
    /\ Done(t)
    /\ UNCHANGED <<present, latest, said, saving, rows, sent, shown, written>>

ReadForReplay(t) ==
    /\ replay[t].step = "asked"
    /\ replay' = [replay EXCEPT ![t] = [step |-> "read", seen |-> Newest(Limit)]]
    /\ UNCHANGED <<chatTable, doing, said, saving, rows, sent, shown, since, written>>

Replayed(t) ==
    /\ replay[t].step = "read"
    /\ Show({t} \cap present, replay[t].seen)
    /\ replay' = [replay EXCEPT ![t] = None]
    /\ since' = [since EXCEPT ![t] = IF @ = None THEN None ELSE [@ EXCEPT !.step = "replayed"]]
    /\ UNCHANGED <<chatTable, doing, said, saving, rows, sent, written>>

(* a database error *)
ReplayFails(t) ==
    /\ replay[t].step = "asked"
    /\ replay' = [replay EXCEPT ![t] = None]
    /\ UNCHANGED <<chatTable, doing, said, saving, rows, sent, shown, since, written>>

(* CHANNEL_PART *)
Part(t) ==
    /\ Begins(t)
    /\ listeners' = listeners \ {Owner[t]}
    /\ since' = [since EXCEPT ![t] = None]
    /\ UNCHANGED <<present, latest, doing, said, saving, rows, sent, replay, shown, written>>

-----------------------------------------------------------------------------
(* Private messages *)

(* The session of the user who is named is looked up. *)
Write(t, u) ==
    /\ Begins(t) /\ u \in DOMAIN latest
    /\ Goes(t, [step |-> "pair", to |-> u, via |-> latest[u]])
    /\ UNCHANGED <<chatTable, spoken, written>>

(* Mutant: a conversation is another one when the other begins it. *)
PairKeyDirected(u, v) == <<u, v>>

(* pair_key, with the smaller id first *)
PairKey(u, v) == {u, v}

(* pm_warned_pairs.insert *)
MarkPair(t) ==
    /\ At(t, "pair")
    /\ LET key == PairKey(Owner[t], doing[t].to)
       IN  /\ warnedPairs' = warnedPairs \cup {key}
           /\ Goes(t, [doing[t] EXCEPT !.step = IF key \in warnedPairs THEN "deliver" ELSE "warn"])
    /\ UNCHANGED <<chatTable, spoken, warnings, mail>>

(* The warnings go to the two sessions that are still there. *)
Warn(t) ==
    /\ At(t, "warn")
    /\ LET u == Owner[t]
           v == doing[t].to
       IN  warnings' = [warnings EXCEPT ![u][v] = IF t \in present THEN @ + 1 ELSE @,
                                        ![v][u] = IF doing[t].via \in present THEN @ + 1 ELSE @]
    /\ Goes(t, [doing[t] EXCEPT !.step = "deliver"])
    /\ UNCHANGED <<chatTable, spoken, warnedPairs, mail>>

Deliver(t) ==
    /\ At(t, "deliver")
    /\ mail' = [mail EXCEPT ![doing[t].via] =
                    IF doing[t].via \in present THEN @ \cup {Owner[t]} ELSE @]
    /\ Done(t)
    /\ UNCHANGED <<chatTable, spoken, warnedPairs, warnings>>

-----------------------------------------------------------------------------
ChatInit ==
    /\ present = {} /\ latest = << >> /\ listeners = {}
    /\ doing = [t \in Tokens |-> [step |-> "unborn"]]
    /\ said = << >> /\ saving = {} /\ rows = << >> /\ sent = {}
    /\ replay = [t \in Tokens |-> None]
    /\ shown = [t \in Tokens |-> {}]
    /\ since = [t \in Tokens |-> None]
    /\ warnedPairs = {}
    /\ warnings = [u \in Users |-> [v \in Users |-> 0]]
    /\ mail = [t \in Tokens |-> {}]

Session(t) == Evict(t) \/ ReadForLogin(t) \/ EnterChat(t) \/ End(t) \/ DropDoing(t)

Speak(t) ==
    \/ \E bot \in BOOLEAN : Say(t, bot)
    \/ Send(t) \/ Ask(t) \/ Reply(t)
    \/ Join(t) \/ BecomeMember(t) \/ ReadForReplay(t) \/ Replayed(t) \/ ReplayFails(t)
    \/ Part(t)

Whisper(t) ==
    \/ \E u \in Users : Write(t, u)
    \/ MarkPair(t) \/ Warn(t) \/ Deliver(t)

ChatNext ==
    \/ \E t \in Tokens : Session(t) \/ Speak(t) \/ Whisper(t)
    \/ \E m \in Numbers : Save(m)

ChatSpec == ChatInit /\ [][ChatNext]_chatVars

-----------------------------------------------------------------------------
(* Properties *)

(* Whoever joins a channel and is there when the replay has come misses    *)
(* nothing but what lay between: every message broadcast since the join is *)
(* shown, its own apart, and of the newest stored ones every one that was  *)
(* stored when it joined.                                                  *)
NothingMissed ==
    \A t \in present :
        since[t].step = "replayed" /\ Reached({Owner[t]}) = {t} =>
            /\ \A m \in sent \ since[t].sent : said[m].by # Owner[t] => m \in shown[t]
            /\ Newest(Limit) \cap since[t].saved \subseteq shown[t]

(* Nobody is warned twice of talking with somebody else, whoever of the    *)
(* two writes first, and also when both do at once.                        *)
WarnedOnce == \A u, v \in Users : u # v => warnings[u][v] <= 1

(* "AyanomiBot automatically dispatches a security warning upon starting   *)
(* private conversations" (CHANGELOG.md:130): who is shown a private       *)
(* message of somebody else has been warned.                               *)
WarnedFirst ==
    \A t \in present : \A u \in mail[t] \ {Owner[t]} : warnings[Owner[t]][u] > 0
=============================================================================
