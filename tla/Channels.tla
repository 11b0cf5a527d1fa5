------------------------------ MODULE Channels ------------------------------
(***************************************************************************)
(* Chat channels and the lobby: src/bancho/channels.rs, the channel part   *)
(* of remove_session, CHANNEL_JOIN, CHANNEL_PART, LOBBY_JOIN, LOBBY_PART   *)
(* and the channels other handlers enter, over the sessions of Sessions.   *)
(*                                                                         *)
(* Who is in a channel is kept twice: by user id in the channel, for the   *)
(* broadcasts, and by name in the session.  CHANNEL_JOIN writes them under *)
(* two write locks, and a session can end, or the task be dropped, between *)
(* the two.                                                                *)
(*                                                                         *)
(* Abstracted: what is said in the channels, and the history replayed to a *)
(* session that joins.                                                     *)
(***************************************************************************)
EXTENDS Sessions

CONSTANTS
    Known,     \* the channels the server has (default_channels)
    Unknown,   \* any other name a client may ask for
    AutoJoin,  \* those of Known that a login enters: #osu and #announce
    Entered    \* those entered with a match or a host: #multiplayer, #spectator

ASSUME ChannelsAssumption ==
    /\ AutoJoin \subseteq Known
    /\ Entered \subseteq Known

Names == Known \cup {Unknown}

VARIABLES
    members,  \* Channel.members: channel -> user ids
    joined,   \* Session.channels: token -> names
    half,     \* what a CHANNEL_JOIN has put in joined and not yet in members
    cut,      \* history: a CHANNEL_JOIN never got to its second lock
    lobby     \* lobby_subscribers

chat         == <<members, joined, half, cut, lobby>>
channelsVars == <<sessionVars, chat>>

-----------------------------------------------------------------------------
(* Mutant: a user who goes stays in the lobby. *)
ForgetMembersOnly(S) ==
    /\ members' = [c \in Known |-> members[c] \ S]
    /\ UNCHANGED lobby

(* The channel and lobby part of remove_session for the users of S *)
ForgetMembers(S) ==
    /\ members' = [c \in Known |-> members[c] \ S]
    /\ lobby'   = lobby \ S

(* add_member for a user under a token *)
AddMember(t, c) == members' = [members EXCEPT ![c] = @ \cup {Owner[t]}]

-----------------------------------------------------------------------------
(* add_session follows add_member for the auto-join channels, in one lock; *)
(* the session lists them from the start.                                  *)
Enter(t) ==
    /\ FinishLogin(t)
    /\ members' = [c \in Known |-> members[c] \cup IF c \in AutoJoin THEN {Owner[t]} ELSE {}]
    /\ joined'  = [joined EXCEPT ![t] = AutoJoin]
    /\ UNCHANGED <<half, cut, lobby>>

(* CHANNEL_JOIN, first lock: the session lists the name, known or not. *)
JoinSession(t, c) ==
    /\ request[t] = "packet"
    /\ half[t] = {}
    /\ t \in sessions
    /\ joined' = [joined EXCEPT ![t] = @ \cup {c}]
    /\ half'   = [half EXCEPT ![t] = {c}]
    /\ UNCHANGED <<sessionVars, members, cut, lobby>>

(* CHANNEL_JOIN, second lock: a known channel lists the user. *)
JoinChannel(t, c) ==
    /\ Handle(t)
    /\ half[t] = {c}
    /\ IF c \in Known THEN AddMember(t, c) ELSE UNCHANGED members
    /\ half' = [half EXCEPT ![t] = {}]
    /\ UNCHANGED <<joined, cut, lobby>>

(* Mutant: the channel keeps the member. *)
PartSessionOnly(t, c) ==
    /\ Handle(t)
    /\ half[t] = {}
    /\ joined' = IF t \in sessions THEN [joined EXCEPT ![t] = @ \ {c}] ELSE joined
    /\ UNCHANGED <<members, half, cut, lobby>>

(* CHANNEL_PART: both, if the session is there *)
PartChannel(t, c) ==
    /\ Handle(t)
    /\ half[t] = {}
    /\ IF t \in sessions
       THEN /\ joined'  = [joined EXCEPT ![t] = @ \ {c}]
            /\ members' = IF c \in Known
                          THEN [members EXCEPT ![c] = @ \ {Owner[t]}] ELSE members
       ELSE UNCHANGED <<joined, members>>
    /\ UNCHANGED <<half, cut, lobby>>

(* The channels that START_SPECTATING, MATCH_CREATE and MATCH_JOIN enter:  *)
(* the session's list only if the session is there, the channel's always.  *)
EnterWith(t, c) ==
    /\ Handle(t)
    /\ half[t] = {}
    /\ joined' = IF t \in sessions THEN [joined EXCEPT ![t] = @ \cup {c}] ELSE joined
    /\ AddMember(t, c)
    /\ UNCHANGED <<half, cut, lobby>>

LobbyJoin(t) ==
    /\ Handle(t)
    /\ half[t] = {}
    /\ lobby' = lobby \cup {Owner[t]}
    /\ UNCHANGED <<members, joined, half, cut>>

LobbyPart(t) ==
    /\ Handle(t)
    /\ half[t] = {}
    /\ lobby' = lobby \ {Owner[t]}
    /\ UNCHANGED <<members, joined, half, cut>>

-----------------------------------------------------------------------------
(* Steps of Sessions that touch channels.  A session takes its list along. *)

LeaveChannels(t) ==
    \/ /\ BeginLogin(t)
       /\ ForgetMembers(OwnersOf(Previous(Owner[t])))
       /\ joined' = [s \in Tokens |-> IF s \in Previous(Owner[t]) THEN {} ELSE joined[s]]
       /\ UNCHANGED <<half, cut>>
    \/ /\ Logout(t)
       /\ half[t] = {}
       /\ ForgetMembers(OwnersOf({t} \cap sessions))
       /\ joined' = [joined EXCEPT ![t] = {}]
       /\ UNCHANGED <<half, cut>>

(* A request dropped in the middle of a CHANNEL_JOIN never finishes it. *)
Drop(t) ==
    /\ EndRequest(t)
    /\ half' = [half EXCEPT ![t] = {}]
    /\ cut'  = (cut \/ half[t] # {})
    /\ UNCHANGED <<members, joined, lobby>>

PruneMembers ==
    /\ Prune
    /\ ForgetMembers(OwnersOf(quiet))
    /\ joined' = [t \in Tokens |-> IF t \in quiet THEN {} ELSE joined[t]]
    /\ UNCHANGED <<half, cut>>

ChannelsInit ==
    /\ SessionsInit
    /\ members = [c \in Known |-> {}]
    /\ joined  = [t \in Tokens |-> {}]
    /\ half    = [t \in Tokens |-> {}]
    /\ cut     = FALSE
    /\ lobby   = {}

ChannelsNext ==
    \/ \E t \in Tokens :
        \/ Enter(t)
        \/ LeaveChannels(t)
        \/ Drop(t)
        \/ LobbyJoin(t)
        \/ LobbyPart(t)
        \/ /\ Poll(t) \/ Fetch(t) \/ FallSilent(t) \/ (half[t] = {} /\ Refresh(t))
           /\ UNCHANGED chat
    \/ \E t \in Tokens, c \in Names :
        JoinSession(t, c) \/ JoinChannel(t, c) \/ PartChannel(t, c)
    \/ \E t \in Tokens, c \in Entered : EnterWith(t, c)
    \/ PruneMembers

ChannelsSpec == ChannelsInit /\ [][ChannelsNext]_channelsVars

-----------------------------------------------------------------------------
(* Properties *)

ChannelsTypeOK ==
    /\ members \in [Known -> SUBSET Users]
    /\ joined \in [Tokens -> SUBSET Names]
    /\ \A t \in Tokens : joined[t] # {} => t \in sessions
    /\ half \in [Tokens -> SUBSET Names]
    /\ cut \in BOOLEAN
    /\ lobby \subseteq Users

(* What a session lists and whom its channels list agree, except for a     *)
(* join between its two locks, as long as logins do not overlap, no        *)
(* handler acts for a session that is gone and no join is cut short.       *)
MembershipAgrees ==
    ~crossed /\ ~stray /\ ~cut =>
        \A t \in sessions, c \in Known :
            c \in joined[t] <=> Owner[t] \in members[c] \/ c \in half[t]

(* Unless a handler acts for a session that is gone, the broadcasts to     *)
(* channels and lobby go to users with a session only, overlapping logins  *)
(* and cut joins included.                                                 *)
MembersOnline ==
    ~stray => lobby \cup UNION {members[c] : c \in Known} \subseteq Online
=============================================================================
