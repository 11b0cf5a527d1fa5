# A TLA+ model of AyanomiBancho

AyanomiBancho is an osu! server in Rust (tokio, axum, SQLite through sqlx): the Bancho protocol
with its multiplayer rooms, chat, score submission, a web side and a gateway. This directory
holds TLA+ modules translated from `src/src`, the TLC configurations that check them on small
instances, and theorems that TLAPS proves for every instance. Paths below are relative to the
repository's `src/src`.

Check a module with `tlc -config X.cfg M`, a proof with `tlapm M.tla`. `PROJECT.json` lists the
runs, for every definition the lines it models, for every property a mutation of the model that
breaks it, and the hazards of the code with the properties about them.

## 1. The system

### Components, state, operations

| component | state it keeps | operations | modules |
|---|---|---|---|
| Multiplayer rooms (`bancho/state.rs`, `bancho/handler.rs`) | `matches`, `next_match_id`, `user_to_match`, `match_start_times`, `pending_disbanded_matches` | the `MATCH_*` handlers, `remove_user_from_match`, `try_finish_match`, `take_disbanded_matches` | `MatchRooms` |
| A game's frames and result (`bancho/handler.rs`, `db/matches.rs`) | `match_last_scores`, `match_loaded_users`, teams; `match_history`, `match_scores` | START, SCORE_UPDATE, LOAD_COMPLETE, CHANGE_TEAM, the verdict of `try_finish_match`, `save_match_result` | `MatchGame`, `MatchSaves` |
| Multi database (`db/multi.rs`) | `multi_rooms`, `multi_games`, `multi_scores` | `upsert_room`, `record_multi_game`, `delete_room_data`, clearing at start | `MultiDb` |
| Sessions (`server/bancho.rs`, `bancho/session.rs`, `main.rs`) | `sessions`, `user_id_to_token`, `last_ping` | login, poll, packet loop, LOGOUT, time-out by the pruner | `Sessions` |
| Server: sessions and rooms | both | the packets of a session act on the rooms; the end of a session leaves them | `BanchoServer` |
| Spectating | `spectators`, `spectating_target` | START, STOP, `stop_spectating`, `remove_session` | `Spectators` |
| Channels and lobby (`bancho/channels.rs`) | `Channel.members`, `Session.channels`, `lobby_subscribers` | CHANNEL_JOIN/PART, LOBBY_JOIN/PART, auto-join, `remove_session` | `Channels` |
| Chat (`bancho/handler.rs`, `bancho/bot.rs`, `db/chat.rs`) | `chat_messages`, `pm_warned_pairs` | public and private messages, replay at login and join, `!history` | `Chat` |
| Score submission and statistics (`server/web.rs`, `db/scores.rs`) | `scores`, `stats` | `submit_score`, `save_score`, `recalculate_*` | `ScoreStats` |
| Beatmaps (`db/beatmaps.rs`, `server/web.rs`) | `beatmaps` | `resolve_beatmap_meta`, `save_beatmap`, `save_raw_beatmap_name` | `BeatmapCache` |
| Accounts and hardware (`db/users.rs`, `server/bancho.rs`) | `users`, `stats`, `user_hardware` | registration by form and by login, the multi-account check | `Accounts` |
| Web sessions, badges, backgrounds (`server/auth.rs`, `server/ratelimit.rs`, `db/badges.rs`, `server/backgrounds.rs`) | cookies, `revoked_sessions`, `badges`, `user_badges`, files | the guards, sign-out, change of password, award, revocation, upload | `WebAccess` |
| Profile media (`server/avatars.rs`) | files of avatars and banners | upload, reset, serving; removal of metadata | `Media`, `Sanitizer` |
| Rate limiting (`utils/ratelimit.rs`, `server/ratelimit.rs`), gateway (`server/gateway.rs`) | a token bucket per client and tier | check, classify, prune; whose address is charged | `Limiter`, `SteadyBuckets` |
| Wire protocol (`protocol/`) | none | ULEB128, strings, framing, rooms, score frames | `Wire` |
| Backups (`db/backup.rs`) | backup files | perform, rotate | `Backups` |
| osu!direct, pages, configuration, country table, telemetry | none of their own | passing on, HTML, start-up | not modelled |

### How they interact

`BanchoState` is one structure behind one `tokio::sync::RwLock`; sessions, rooms, channels and
spectators are maps in it. A request is a task. A login takes the write lock twice, with
database queries in between; a poll takes it to refresh the ping, and then each packet of its
body reads the session's user id under a read lock and lets the handler take the write lock
later. A handler holds the lock from its first change to its last, with exceptions that are
modelled as two steps (CHANNEL_JOIN, SEND_PRIVATE_MESSAGE). The pruner of `main.rs` is a task
that takes the write lock every ten seconds. Writes of rooms, results and chat are spawned, each
as a task of its own, and nobody waits for them. The web side shares only the database and the
files with Bancho; its handlers are rows of separate statements, and any other request runs
between two of them. The rate limiter stands before both, behind one `Mutex`.

### What is hard

* the time between two locks, or two statements, of one request: what was read under the first
  (the previous session, the best score, the badge) may be gone under the second;
* users who vanish, and the timer that has to clean up after them;
* the same fact kept in several places (seat and mapping, host and spectator, session and
  channel, room and row), changed by many handlers;
* the end of a game, which is decided only by those handlers that call `try_finish_match`, from
  frames that may be late;
* match ids that wrap onto live rooms, with records kept by id;
* writes in any order, lost, or cut off by a crash; files written in place;
* what is created lazily and forgotten (buckets, rows of statistics, backups);
* lengths and digits at their boundaries.

## 2. Modules

`Maps` has `HashMap::insert` and `remove` as functions on functions; `Logins` says what a login
is to `Sessions` and `Chat`: a token with its owner. Definitions marked
`Mutant:` are the faulty variants that the properties are tested with. A variable marked
`history` is not in the code: it remembers what a property has to know.

**`MatchRooms`** — one action per handler, one handler per critical section, the calls it makes
included: `CreateMatch` leaves the old room, allocates an id, seats the host and drains the
disbanded rooms. A handler acts for a user id fetched earlier, so any user acts at any time. The
pruner removes several users in one lock and `RemoveSessions` takes the set; the outcome does
not depend on the order. `JoinVanishedMatch` is the handler MATCH_JOIN on a room the user was
alone in: it disbands the room, seats nobody and returns without cleaning up. Abstracted:
packets, names, beatmaps, passwords, teams, mods, contents of frames and results. A refused join
and other packets whose guard fails change nothing and are not actions.

**`MatchGame`** — one room again, with what `MatchRooms` abstracts: teams, frames, who has
loaded, and the verdict of `try_finish_match` as loops over the slots. A frame carries its
score, any integer as `total_score` is any `i32`, and (history) the game it was sent in. It is
sent (`SendFrame`, the client's) and arrives (`ScoreUpdate`) in two steps, with a finish and a
start possibly in between; `late` remembers what was under way at a start. Which slot a newcomer
gets and who is host are free here, as `MatchRooms` has settled them. **`MatchSaves`** is the task that writes a verdict: the
match, then each row by an INSERT of its own, with other tasks, failures and stops in between.

**`MultiDb`** — a room is the number of its last change; a handler changes rooms and spawns
writes, `Run` performs any of them, `Fail` loses one, `Crash` restarts the server with empty
tables. Which handler syncs which room is the code's: leaving by the end of a session, by a join
or by a create does not sync the room that remains (`unsynced`).

**`Sessions`** — a token stands for one login, and its request goes through the phases `unborn`,
`login` (evicted, not yet added), `idle`, `poll`, `packet` (user id read, handler not yet run).
`quiet` are the sessions whose last ping is older than 120 seconds. Two history variables record
what the code does not exclude: `crossed` (two logins of a user overlapped) and `stray` (a
handler acted for a session that was gone). Where a property needs one of them to be false it
says so. What comes before the session (credentials, hardware) is `Accounts`.

**`BanchoServer`** — `Sessions` and an instance of `MatchRooms` together. `HandleMatch` is a
packet's second step with the room action of its user; `Login`, `Leave` and `TimeOut` do to the
rooms what `remove_session` does. Each of its steps is a step of `MatchRooms` or leaves the
rooms alone, by the way it is composed; that is a lemma (`Implements`) by which the seating
proved of the rooms holds here, and not among the properties checked. What the composition adds
is who is online: `SeatsOnline`, `HostsOnline`.

**`Spectators`** and **`Channels`** extend `Sessions` with the relation kept twice and with
membership kept twice. `Channels` splits CHANNEL_JOIN at its lock and lets a request be dropped
in between (`cut`).

**`Chat`** — one channel, several talkers. A public message is numbered, spawned to be stored
(`Save`) and broadcast, in either order; a join becomes a member and spawns a replay, which
reads the table at a time of its own; a login replays before it becomes a member. A private
message marks its pair under one lock and queues warnings and message under others. Sessions
come and go as in `Sessions`, without polls and without overlapping logins; the module keeps a
session table of its own (`present`, `latest`), smaller than that one.

**`ScoreStats`** — one action per statement of `save_score`: look for the checksum, insert, read
the bests, update the row, answer; a failure or a dropped connection may fall between any two.
The recalculation of a start goes row by row beside it. pp is a table (`Weight`, `Bonus`), not
the formulas in floating point; a best is chosen per map as the code does. `Relax` has a row of
its own in modes 0 to 2 and shares that of mode 3, as in the code.

**`BeatmapCache`** — what is known of one map (`id`, `title`, `stars`), each field marked by
where it came from. Requests look it up, ask the mirror, store and answer, with others in
between.

**`Backups`** — the directory, the clock and the worker: begin, complete or fail, rotate, prune
file by file, stop at any time; the clock may be set back.

**`Accounts`** — a registration by the form and a login that may register, one action per query:
look-up with the tag taken off, hardware check, insert of the account, a row of statistics per
mode, record of the machine, answer. The unique column decides a race for a name. A machine has
two identifiers, either of which may be shared or missing. `lenient` remembers that a check was
waived or its query failed, where the code goes on.

**`WebAccess`** — a request passes the guards of the middleware in their order (revoked? user
and password? badge? origin?) and reaches its handler; every query is a step, while cookies are
issued, signed out, outdated by a new password and forgotten when they expire, and badges come
and go. Errors of a query deny. Signing in and out are the frontend's calls into the same
tables.

**`Media`** — an upload sanitises, removes the files of other extensions, then empties and fills
its own; a reset removes; removals may fail in silence; a crash leaves a part of a file. What is
served is the first of the extensions that is there. The cache of a local client is written
(`SyncCache`) or, for lack of the directory or by an error nobody looks at, is not (`SyncFails`);
the answer is the same. **`Sanitizer`** has the strippers of PNG, JPEG and WebP as recursive
functions on chunks and on bytes, the latter as far as the scan tells them apart.

**`Limiter`** — a bucket is refilled when a request looks at it: time in seconds, tokens in
parts of a sixtieth. `ClientIp` is the rule which header names the client, `Gateway` how the
gateway sets it. `PruneStale` forgets idle clients. **`SteadyBuckets`** is the abstract
specification: levels that grow every second, are never created and never forgotten. `Level`
maps the one to the other.

**`Wire`** — writers and readers of strings, rooms, score frames and the framing of packets, on
sequences whose elements are fields. ULEB128 is digit by digit, to any base of at least 2
(`Uleb`, `Number`). Of a room those fields are kept whose presence or place depends on others:
the users of the slots with players (`UsersOf`; reading finds each by the number of players up to
its slot, `Players`) and the mods under freemod. `Packets` is the loop of
`handle_client_packets`. The stream may be cut off. What a room is assumed to be
(`WireAssumption`): its strings have lengths that `read_uleb128` takes, and a slot without a
player names nobody, which `MatchSlot::default` and `reset` see to.

`MC*` modules extend the modules they check and give constants and symmetries for the runs.
Components that share no state with each other are put side by side in one run as studies: the
initial state chooses the one that runs and the others rest, so the run is the union of the
studies. Their variables and their `Init`, `Next` and `Spec` therefore have different names
(`CopySpec` of `MultiDb`, `SavesSpec`, `CacheSpec`, `BackupsSpec`, `MediaSpec`, `SanitizerSpec`,
`ChatSpec`, `WireSpec`).

`*Proofs` modules hold the theorems, see 5; `Sums` the facts about finite sums, greatest
elements, recursive functions and sequences they share.

## 3. Runs

| run | studies and their instances | shows |
|---|---|---|
| `rooms` | 3 users, ids wrap at 2; one room with 3 slots, locks and every status, or two rooms with 2 slots of which one plays | slots, mappings, hosts agree (`SeatingOK`) and the records beside the rooms too until an id is reused (`RecordsOK`); no step takes a host's room, enters a locked slot, ends a game two are playing, or leaves a finished game open, but those that do not check (`HostKept`, `LocksRespected`, `FinishInterruptsNobody`, `StallsOnlyUnchecked`) |
| `server` | *logins*: 1 player with 2 logins that may overlap, 2 rooms; *players*: 2 players with a login each, one room at a time, slots locked and left, no game; pruner fair | tokens lead to sessions, one session each, seats belong to users online and no room is left with a host who cannot act (`HostsOnline`); silent players leave (`SilentLeave`) and every disbanded room is handed to deletion (`PendingDrained`) |
| `logins_cross` | 2 users with 2 logins each | violation, see 6 |
| `company` | *watching*: 3 users, one with 2 logins and one who does not fall silent; *channels*: one user with 2 logins, three kinds of channel; *public*: 2 talkers, one of whom joins and parts, 2 messages, a history of 1; *private*: 2 users, one of whom comes back | both copies of the watching relation and of membership agree and lead to users online; a join misses nothing said; nobody is warned twice |
| `warnings_race` | as `company` | violation, see 6 |
| `writes_shuffled` | 2 rooms, 4 changes, 4 outstanding writes | violation, see 6 |
| `games` | *loads* and *frames*: 2 players and 2 games, with loading or with frames of one score that arrive in any game; *verdicts*: 3 players and one game, in teams or not, scores -1 and 1; *results*: 2 results of up to 3 rows; *rooms*: 2 rooms, 3 changes, 4 writes | a score that counts was sent in its game or was under way when it started, ALL_PLAYERS_LOADED comes when all have loaded, the winner is who the scores say; rows stay with their match; the tables follow the rooms when writes run in order |
| `score_stats` | *scores*: 2 of 3 plays, each as often as its client sends it, by 2 handlers, a row of an older version, a recalculation; *maps*: 2 requests; *backups*: 2 kept, 4 seconds | each play counts once, a profile never overstates, pp never falls by a play, a start repairs; whoever asks for a map with a title is answered all that is known of it, but for an id that a request already under way replaced by a made-up one; the last whole backup stays |
| `invented_ids` | 2 requests | violation, see 6 |
| `accounts` | *names*: a name with and without tag, 2 passwords, 1 machine; *machines*: 3 people, 2 machines that share a card; 2 clients, at most 3 accounts | a login enters the account named with its password; the limit per machine is overrun by the overlapping requests only |
| `web` | *admins*, *cookies*: 2 users, 2 requests, 2 badges, 2 seconds, one new password; *pictures*: 2 clients, 2 pictures and junk, avatar or banner; *bodies*: PNG and WebP of up to 5 chunks, JPEGs grown of segments, fill, scan, end and stray bytes until they have 11 bytes or more | only administrators change what is theirs; dead cookies identify nobody; what is served is what was answered, and what a local client shows where its cache could be written; a refused upload keeps the avatar; stripping removes all metadata (of a JPEG, before its scan) and nothing else |
| `limiter` | *requests*: 2 addresses, one of them this host, a gateway, 2 tiers, a minute of 3 seconds, windows of 4; *packets*: 2 slots, digits to base 2 in place of 128, streams of 2 packets | admissions in any window are bounded, whose request it is pays, lazy buckets implement `SteadyBuckets`; what is written is read |

### Bounds

Two rooms and an id that wraps after two reach every way of moving between rooms and of
overwriting a live one; three users reach a host who leaves behind two others, and a fourth
would only add a spectator to each of these cases, since handlers look at one acting user, the
host and the first free slot. Three slots reach a locked, an open and a taken one beside the
host's. Two logins of a user reach overlap, eviction and a late handler of the evicted one.
Races between statements are between pairs of requests, so two handlers, clients or tasks are
enough for each; a third adds a state in which one of the pairs has finished. Two games reach a
frame of the first that arrives between the two or in the second, three players a winner, a tie,
negative scores only and a leaver at once. Two players in one room reach a host whose session
ends beside somebody who stays, in whichever order they came. Five chunks hold a header, two
metadata chunks in a row, data and the end, and metadata at every place. A JPEG grows by whole
segments, with or without metadata, with fill before the marker, markers in the payload or a
length that is too short, by single markers and by stray bytes, until it has eleven bytes or
more: behind the start there is room for two segments and, if they are short, a scan. With
base 2, lengths have up to three digits.

Counters are capped by `MaxVersion`, `MaxTasks`, `MaxGames`, `MaxUsers`, `MaxMessages`,
`MaxTime`, `MaxPassword`, `MaxBadges`, `MaxWindow`, `MaxBytes`, `MaxChunks`, `MaxPackets`, each
in a guard. Five runs also cut a large space by a CONSTRAINT: `MCSmall` (`rooms`: the third
slot, locks and the statuses before a game only with one room, and of two rooms one plays),
`MCStudies` (`games`: two players load or send frames, teams only with three, whose
frames arrive at once), `MCTwo`
(`score_stats`: two of the three plays, not both with Relax), `MCOneKind` (`web`: avatars or
banners, which share nothing) and `MCNeverWaived` (`accounts`: the study of machines ends with a
waived check, after which the limit promises nothing). No liveness is checked under a constraint;
the two studies of `server`, where it is, leave out steps of players and none of the pruner. Each study is kept so small
that its run ends within a minute on two cores; the proofs of section 5 have no bounds.

Symmetry is used for users, players, handlers, requests, clients and pictures that are
interchangeable, and only where no liveness is checked. Deadlock is checked except in `company`,
`games`, `web` and `limiter`, whose studies end: all plays are played, all messages said, the
last second has passed, a picture or stream has reached its length.

## 4. Fairness

Only the pruner's step is fair (`WF`): its task loops on a ten-second interval for as long as
the process runs (`main.rs:68`). Its tick is always enabled. Nothing is assumed of clients, of
requests in progress or of database tasks. `SilentLeave` holds although a client may go silent
in the middle of a request: the pruner does not look at requests. Nothing else in the code
retries or is scheduled in a way that would justify more; where nobody promises that something
happens, the models have safety properties about what is true when it has (`StartsRepair`,
`AllLoadedTold`, `RowsFollowRooms`).

## 5. Proofs

Every safety property that a run checks is a theorem. They hold for any sets of users, tokens,
clients, plays and names, any number of slots, match ids, messages, files, packets and requests,
from the modules' named assumptions only. These
say that

* sentinels are not members of what they stand apart from (`RoomsAssumption`,
  `ServerAssumption`, `AccountsAssumption`, `MatchGameAssumption`, `WebAccessAssumption`);
* counts, limits and bounds are natural numbers, not 0 where the code cannot have it so
  (`MultiDbAssumption`, `BackupsAssumption`, `ChatAssumption`, `LimiterAssumption`);
* who logs in with a token, which channels are entered unasked and what a play consists of is
  given (`LoginsAssumption`, `ChannelsAssumption`, `ScoreAssumption`), plays saved by older
  versions and the players of a room are finitely many (`ScoreAssumption`,
  `MatchSavesAssumption`), and the bonus for more maps is not smaller (`ScoreAssumption`);
* the bytes of a JPEG are bytes, and a chunk of a WebP is its kind and its flags
  (`SanitizerAssumption`);
* strings are short enough for their lengths to be read, and slots without players name nobody
  (`WireAssumption`).

A property is seldom inductive. What follows says what it is strengthened by and why.

* **`MatchRoomsProofs`**: `TypeCorrect`, `SeatingCorrect`, `RecordsCorrect` and the steps
  `HostStays`, `LocksStay`, `NobodyInterrupted`, `StallsUnchecked`. `SeatingOK` is not
  convenient to induct on; the proof puts it per room. `RoomOK(r)` says what a room owes to
  itself, `RoomsOK(rooms, map)` adds that who sits is mapped, and `IInv` is `TypeOK` with
  `RoomsOK(matches, userToMatch)`. Taking rooms and mapping as parameters lets the lemmas chain
  the parts of a handler: `LeaveRooms` (what remove_user_from_match leaves is good),
  `SettleRooms` (try_finish_match keeps it so), `SeatNewcomer` and `AddRoom` (a user who sits
  nowhere may be seated). `SeatsAreMapped` is what makes the leaving complete: a user is looked
  for only in the room of the mapping, so a seat elsewhere would stay. No assumption about ids
  is needed: overwriting a live room keeps all of it, at the price of mappings that name a room
  without their seat. `RInv` adds `Records`, which do need it: they hold until an id in use is
  given out. The theorems about steps go through the same parts, with what each part may do to a
  host, a lock or a game; they hold when ids come round, too, and except only the step that gives
  a room's id to a new one, and only for that room (`Overwritten`).
* **`BanchoProofs`** has what is kept in the server's memory besides the rooms.
  * *Sessions*: `SessionsTyped`, `TokensAlwaysLead`, `OneSession`. The last needs `LoginsAlone`:
    a login under way that overlaps no other has left its user without a session.
  * *Spectators*: `RelationKept`, `SpectatingStaysOnline`. `ListsWithout` says what
    `stop_spectating` leaves, which needs the relation to agree already; that the watched are
    online rests on `TokensLead`, since START looks its target up there.
  * *Channels*: `ChannelsTyped`, `BroadcastsReachSessions`, `MembershipKept`. That both copies of
    membership agree rests on members being online, and both on the table: a session that
    begins has a user who has no other and so is in no channel, and a session that ends is the
    one its user was listed for. The half of a CHANNEL_JOIN that may be cut off belongs to a
    packet (`JoinsInPackets`).
  * *Server*: `Implements` (initial states and steps of the server map to `MatchRooms`),
    `SeatsStayOnline`, `ServerSeating`, which carries `SeatingOK` over to the server through
    `Implements`, and `HostsStayOnline`, which takes all three: a host sits in his room, who sits
    is mapped, and who is mapped is online. `Implements` follows from how the server is composed
    and says nothing more; `SameRooms` only identifies two instances of one module.
  * *Chat*: `JoinersMissNothing`, `PairsWarnedOnce`. Nothing is missed because at every time
    after a join each message is broadcast and shown, or will be in the replay, or came to the
    table after it (`Heard`); that the replay's limit cuts only older rows needs rows to be
    appended only. A pair is warned once because whoever is about to warn of it is alone in that
    and it is marked (`PairOK`).
* **`MatchGameProofs`** has a game and what is written of it.
  * *Games*: `GameTyped`, `FramesOfTheirGame`, `LoadsAnnounced`, `VerdictsByScores`. The
    strengthening is `ThisGame`: a frame that is kept or under way while a game runs was sent
    in this game or was under way at its start, and loads are of this game, since START clears
    both maps. The verdict is a loop over the slots: of those it has seen its
    winner has the best row (`Beats`), and its sums of a team are those of `Sums`, in whatever
    order the slots come.
  * *Results*: `RowsStayWithTheirMatch`, `SuccessIsWhole`. A task is the only one of its game,
    and the rows of its match with those it has left are the rows of the verdict (`TaskOK`).
  * *Rooms*: `CopyTyped`, `TablesFollowRooms`. While writes run in order, the last write under
    way for a room shows it or deletes it; when none is, its row does or is not there
    (`Followed`).
* **`ScoreStatsProofs`** has plays, maps and backups.
  * *Scores*: `ScoresTyped`, `EachPlayOnce`, `NoProfileOverstated`, `AnswersRise`,
    `StartsAlwaysRepair`. Counting once is inductive with where each handler is: a play that
    was inserted and is not counted yet belongs to one handler (`PlaysApart`). The others rest
    on `ProfileGrows`: more scores, or scores whose pp has become known, are never worth less.
    That needs `RankByRank`, the i-th best map of more is no worse than the i-th best of fewer,
    for maps in any order of descending pp; with it every number a handler or the recalculation
    has read stays below what the row is worth (`Bounded`). `Repairing` says which rows an
    undisturbed recalculation has put right.
  * *Maps*: `AnswersKnown`. No write takes away what is known but the id (`SavedMore`), so a map
    with a title is answered from the cache (`RequestOK`). The id of a complete row is safe from
    whoever comes later: while a request that began alone looks at the cache, all the others
    will answer from it too and have no id to make up (`Calm`).
  * *Backups*: `LastBackupStays`. A file is named for the second it was begun in and finished
    before the next is begun (`Dated`), so of two that are kept one is as new as any
    (`NewestKept`). The attempt to prove it for one kept file failed for a reason: see 6.
* **`AccountsProofs`**: `AccountsTyped`, `EntersOwnAccount`, `LimitKept`, `AnsweredComplete`. The
  last rests on the rows being inserted mode by mode (`SeedsInOrder`). The limit is not
  inductive: `LimitInv` counts with the accounts on a machine the requests that have passed its
  check and will add to them (`Due`). A request that passes found fewer accounts than the limit,
  and the requests beside it are all that can be due; recording moves a request from one side to
  the other.
* **`WebAccessProofs`** has who is let in, and pictures.
  * *Access*: `WebAccessTyped`, `DeadCookiesStayOut`, `AdminsAlone`. `Fine(c)` says what stays
    true of what a request has read while the tables go on: passwords only move away from a
    cookie's, a revocation is forgotten only when its cookie has expired, and who holds an admin
    badge at some time of a request is remembered. `Unharmed` says what other requests may do to
    it.
  * *Pictures*: `MediaTyped`, `PicturesAsAnswered`, `RefusedLeavesAvatar`. `DoneBy` says what
    the only request about a kind has done so far, `Promise` that nobody is at work on what an
    answer has settled, `FilesOK` that an empty file has the request that fills it. The local
    client's half is promised only of a cache that was written (`synced`).
  * *Their contents*: `MetadataAloneGoes`, for bodies of any length. A stripper is a recursive
    function whose value at a place depends on that at a later one (`IsWalk`), so that it exists
    (`WalkExists`), and what it comes to is argued from the end backwards, by the last place at
    which a fact fails (`Last`). What a JPEG is made of is told without the scan (`IsSegment`,
    `Begins`), so it is proved that the scan comes by each of those segments
    (`SegmentScanned`, `JpegBegins`). Two bodies of which one is the other moved on by some places are
    scanned alike (`WalksAgree`; `StepFurther` for JPEG, whose steps depend on what is read), and
    a scan that leaves nothing out comes to the whole rest (`WalkKeeps`).
* **`LimiterProofs`** has what comes in over the network.
  * *Requests*: `LimiterTyped`, `SenderPays`, `WindowsBounded` and the refinement
    `ImplementsSteady`. The refinement assumes `Rated` (no tier has rate 0): a bucket with
    rate 0 holds one token, is never refilled, and gets its token back by being forgotten,
    which no steady bucket does. `LimiterAssumption` has a client forgotten only after an
    idle time that fills every bucket, which is the code's 600 seconds against a minute.
  * *Packets*: `WireSurvives`. The invariant `WireInv` says that the stream is laid: packet n
    begins where the one before it ended, and holds its id, its length and its payload as far as
    the stream goes; it is complete unless it was cut; and what was sent of the room is what the
    room is written as. The packets that are there as a whole are then the first ones
    (`WholeOnes`), and what the loop handles behind k of them are the others, argued from the
    last one backwards (`PacketsFrom`), since it takes each for what it is (`PacketThere`) and
    stops behind the last (`NothingWhole`). That a room is read back (`RoomReadBack`) is put
    together from its fields: a length from its digits (`UlebEncodes`, `LengthReadBack`), a
    string, as many statuses as slots, as many users as players among them, each at its number
    (`PlayersNumbered`, `PlayersFound`), and the mods that the marker of freemod announces.
* **`Sums`**: what `MapThenSumSet` adds up and what a `Max` of a set is. The recursive functions
  below it are reasoned about by minimal counterexample (`MinimalSet`): of the subsets of a
  finite set that refute a fact one has no smaller among them. The loops of `MatchGame` are
  dealt with in the same way, by the least slot at which a fact about them fails. A function
  that recurses on one argument of a smaller measure exists, is what its definition says, and
  keeps to its range (`MeasuredRecursion`, `RangeByRecursion`); `Uleb`, `Number` and `Packets` of
  `Wire` are such functions.

Only model-checked are `SilentLeave` and `PendingDrained`, because liveness under fairness is
out of the prover's reach. What the four runs of section 6 refute is of course not proved.

The type invariants (`TypeOK`, `SessionsTypeOK`, `ChannelsTypeOK`, `GameTypeOK`, `CopyTypeOK`,
`ScoreTypeOK`, `AccountsTypeOK`, `WebAccessTypeOK`, `MediaTypeOK`, `LimiterTypeOK`) are theorems
and belong to no run; so are `SavedWhole` of `MatchSaves` and `OkMeansComplete` of `Accounts`.

## 6. Findings

* **Two overlapping logins leave two sessions** (`logins_cross`). `server/bancho.rs:260` says
  "Evict any previous session for this user", but the eviction and the insertion are two
  critical sections. Both logins evict before either adds. The older session polls on and
  receives nothing sent to the user. What still holds is `TokensLead`.
* **A row can outlive its room** (`writes_shuffled`). `db/multi.rs:378` says "The multi database
  only contains data for active rooms", but every write is a task of its own, so a delete may
  run before an upsert spawned earlier. The row remains until the next start.
* **A message can come before its warning** (`warnings_race`). A private message marks its pair
  as warned under one lock and queues the warnings under another (`handler.rs:612`, `:644`). Who
  writes back in between has the message delivered unwarned, against `CHANGELOG.md:130`; if the
  first request is dropped there, the warning never comes. Nobody is warned twice
  (`WarnedOnce`).
* **An id made up is stored as the map's** (`invented_ids`). `get_scores` goes on with id 1 for
  a map whose id is not known and has it stored (`web.rs:265`, `:281`); with a title beside it
  the mirror is not asked again, and every later answer has id 1, against `CHANGELOG.md:93`. It
  may also go over the real id that another request has stored meanwhile, which
  `AnswersWhatIsKnown` therefore excepts.

### Behaviour the properties describe rather than forbid

* A handler that acts for a session that is gone seats, enrols or subscribes a user whom no
  logout will remove (`stray`). A game can be over and stay in progress when the last player
  leaves by a path without `try_finish_match` (`StallsOnlyUnchecked`), and nobody is told that
  all have loaded when the last one still loading leaves (`AllLoadedTold`). Rooms left by such
  paths are stale in the multi database (`RowsFresh`).
* The burst of a client is nearly twice the configured rate per minute, a full bucket and a
  minute's refill (`WindowBound`; `config.toml:44` calls it requests per minute).
* The limit of accounts per machine is overrun by requests that overlap (`LimitNearlyKept`),
  between `check_multiaccount` (`bancho.rs:210`) and the record (`:256`), against
  `README.md:141`.
* The tag is stripped for the look-up only (`bancho.rs:179`): who registers as "[t]ada" while
  "ada" exists, or is created as "[t]y" while "y" is free, has an account that no login by that
  name enters.
* A cookie that was signed out is good again in its last second: `users.rs:152` compares
  `expires_at > now`, and `crypto.rs:106` still accepts it (`DeadStaysOut` ends there).
* `remove_file` errors are ignored (`avatars.rs:219`) and pictures are written in place
  (`avatars.rs:313`): `AsAnswered` speaks of requests that ran alone and whose removals worked.
  A local client's cache that cannot be written, or is not where it is looked for
  (`avatars.rs:99`, `:102`), keeps the old picture behind an answer of success.
  `upload_banner` removes the old banner before the new one is sanitised (`avatars.rs:566`), so
  a refused banner leaves none; avatars keep theirs (`RefusedKeepsAvatar`).
* Metadata of a JPEG is looked for up to its first scan; what comes behind that is kept as it
  is (`avatars.rs:43`), metadata segments too, and `OnlyMetadataGoes` says so.
* Two overlapping submissions may leave pp and rank stale, never too high, until the next play
  or start (`NeverOverstated`, `StartsRepair`). Relax in mode 3 shares the row of mode 3.
* The rows of a result are taken over who is in the slots at the end: people who joined during
  the game appear with score 0, a leaver who rejoins counts with the old frame. In TEAM_VS the
  `winner_id` is the best individual even of the losing team, and players without a team count
  for none; TAG_TEAM_VS is not treated as a team game. LOAD_COMPLETE in a room without a game
  broadcasts ALL_PLAYERS_LOADED.
* A score frame carries no game. One that is under way when MATCH_START clears
  `match_last_scores` and arrives behind it is kept for the new game (`handler.rs:126-129`) and
  counts unless its player sends another: `ScoresOfThisGame` allows that one frame per player.
  A frame's `total_score` is whatever `i32` the client sends, and the search for the winner
  starts from -1 (`handler.rs:184`), so a game all of whose scores are negative has nobody who
  won it (`WinnerBest`); team totals have no such limit.
* The answer to `!history` goes to the whole channel (`handler.rs:533`; `bot.rs:274` speaks of
  the user's session). The login's replay is read (`server/bancho.rs:314`) before the user
  becomes a member (`:391`), so `NothingMissed` speaks of joins only. `Channel.read_only` is
  never enforced, a public message to what is no channel is stored, and `pm_warned_pairs` never
  shrinks.
* A map whose title came from a file name never gets stars from the mirror, and a raw file name
  may replace a mirror's title.
* Parts of failed backups count in the rotation; with the clock set back the rotation removes
  the newest. Where `max_backups_kept` is 1, a backup that begins and succeeds in the second
  in which the one before it ended or failed has the time of that one, and the rotation, which
  sorts by time alone (`backup.rs:61`), may keep either: `LatestIsKept` speaks of two or more
  (the default is 5, `config.toml:30`).
* With freemod switched off, slot mods stay in memory though no packet shows them.

## 7. Not modelled

* **osu!direct** (`server/direct.rs`): passes queries on to mirrors and keeps nothing; its
  fallback is a loop over a list without state. **Configuration, country table, telemetry,
  start-up**: data without behaviour.
* **Pages and profile texts** (`server/web.rs`, `server/mod.rs`), `/admin` and `/api/status`:
  HTML and JSON of single reads. **Leaderboards** read only. **Friends**: single statements
  whose outcome the unique key decides.
* **The floating-point formulas** of pp and accuracy, which TLC cannot compute; `ScoreStats`
  takes pp as given by a table.
* **The filter and the bot's other commands**: wording. **Other packets**: one or two fields in
  a row.
* **MATCH_CHANGE_MODS** and the contents of settings: mods are abstracted in the rooms; `Wire`
  has their place in the packet.
* **Gateway**: only how it passes the client's address on; the rest is I/O. Captcha and look-up
  of a country are external.
* **The queue of a session** and its growth: packets are abstracted.

What could be added: `Chat` over the full `Sessions` with
overlapping logins; a composition of `MatchGame` with all of `MatchRooms`.
