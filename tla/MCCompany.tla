------------------------------ MODULE MCCompany ------------------------------
(***************************************************************************)
(* What users do in company: they watch one another (Spectators), join and *)
(* leave channels (Channels), talk in one of them and write to each other  *)
(* (Chat).  The initial state chooses the one that runs while the others   *)
(* rest.  Where they watch there are three users, one of whom logs in      *)
(* twice; where they join channels it is that one alone, since users do    *)
(* not meet there but the sessions of one do; where they talk in public    *)
(* each of two users logs in once; where they write to each other one of   *)
(* the two also comes back.                                                *)
(***************************************************************************)
EXTENDS Spectators, Channels, Chat, TLC

CONSTANTS a, b, c, a1, a2, b1, c1, osu, multiplayer, other

VARIABLE study

MCTokens == {a1, a2, b1, c1}
MCOwner  == (a1 :> a) @@ (a2 :> a) @@ (b1 :> b) @@ (c1 :> c)

MCInit ==
    /\ SpectatorsInit /\ ChannelsInit /\ ChatInit
    /\ study \in {"watching", "channels", "public", "private"}

(* c, who is like b, logs out and is never timed out. *)
Watching == SpectatorsNext /\ c1 \notin quiet'

InChannels ==
    /\ ChannelsNext
    /\ \A t \in {b1, c1} : request'[t] = request[t]

InPublic ==
    /\ \/ \E t \in {a1, b1} : Session(t) \/ Speak(t)
       \/ \E m \in Numbers : Save(m)
    /\ doing'[b1].step # "join"

InPrivate == \E t \in {a1, a2, b1} : Session(t) \/ Whisper(t)

MCNext ==
    /\ UNCHANGED study
    /\ \/ study = "watching" /\ Watching /\ UNCHANGED <<chat, chatVars>>
       \/ study = "channels" /\ InChannels /\ UNCHANGED <<watching, chatVars>>
       \/ study = "public" /\ InPublic /\ UNCHANGED <<sessionVars, watching, chat>>
       \/ study = "private" /\ InPrivate /\ UNCHANGED <<sessionVars, watching, chat>>

MCSpec == MCInit /\ [][MCNext]_<<sessionVars, watching, chat, chatVars, study>>
=============================================================================
