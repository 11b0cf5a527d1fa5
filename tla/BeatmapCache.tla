---------------------------- MODULE BeatmapCache -----------------------------
(***************************************************************************)
(* What is known of one beatmap: resolve_beatmap_meta, save_beatmap and    *)
(* save_raw_beatmap_name (src/db/beatmaps.rs), as get_scores and           *)
(* submit_score (src/server/web.rs) call them.  The row of the map is      *)
(* filled from the name of the client's file, from the history of matches  *)
(* and from a mirror, by requests that run at once.                        *)
(*                                                                         *)
(* Abstracted: of a row its id, its title and its stars are kept, each by  *)
(* where it came from.  The set's id, the creator and the maximal combo go *)
(* with the stars, for only a mirror has them; artist and version go with  *)
(* the title.  Reads succeed; the errors of writes are ignored in the code *)
(* and happen here.                                                        *)
(***************************************************************************)
EXTENDS Naturals

CONSTANT Requests

VARIABLES
    row,           \* the row of table beatmaps, or NoRow
    matchHistory,  \* what match_history knows of the map, or NoRow
    request        \* request[r]: how far request r has come

cacheVars == <<row, matchHistory, request>>

Fields == {"id", "title", "stars"}

Meta(id, title, stars) == [id |-> id, title |-> title, stars |-> stars]

Nothing == Meta("unknown", "unknown", "unknown")

NoRow == [row |-> "none"]

(* An id that get_scores made up is in the row and tells nothing. *)
Known(m) == IF m = NoRow THEN {} ELSE {f \in Fields : m[f] \notin {"unknown", "invented"}}

(* parse_osu_filename: a name in brackets only has no title. *)
FromName(id) == {Meta(id, title, "unknown") : title \in {"file", "unknown"}}

(* What the mirror may answer: any field of its JSON may be missing. *)
FromMirror ==
    {Meta(id, title, stars) : id \in {"mirror", "unknown"}, title \in {"mirror", "unknown"},
                              stars \in {"mirror", "unknown"}}

-----------------------------------------------------------------------------
(* ON CONFLICT: what is not known does not overwrite what is. *)
Merged(old, new) == [f \in Fields |-> IF new[f] # "unknown" THEN new[f] ELSE old[f]]

(* save_beatmap *)
Save(new) == row' \in {row, IF row = NoRow THEN new ELSE Merged(row, new)}

Moves(r, to) == request' = [request EXCEPT ![r] = to]

(* The request remembers, as history, what the row was when it began and *)
(* whether no other was under way.                                       *)
On(r, step) == [request[r] EXCEPT !.step = step]

Answers(r, meta) == Moves(r, [On(r, "answered") EXCEPT !.meta = meta])

At(r, step) == request[r].step = step

-----------------------------------------------------------------------------
(* resolve_beatmap_meta *)

BeginLookup(r) ==
    /\ At(r, "idle")
    /\ Moves(r, [step |-> "cache", before |-> row, meta |-> Nothing,
                 alone |-> \A q \in Requests \ {r} : At(q, "idle")])
    /\ UNCHANGED <<row, matchHistory>>

CheckCache(r) ==
    /\ At(r, "cache")
    /\ IF "title" \in Known(row) THEN Answers(r, row) ELSE Moves(r, On(r, "history"))
    /\ UNCHANGED <<row, matchHistory>>

CheckHistory(r) ==
    /\ At(r, "history")
    /\ Moves(r, On(r, IF matchHistory = NoRow THEN "mirror" ELSE "name"))
    /\ UNCHANGED <<row, matchHistory>>

SaveName(r) ==
    /\ At(r, "name")
    /\ Save(matchHistory)
    /\ Moves(r, On(r, "again"))
    /\ UNCHANGED matchHistory

(* The row is taken as it is now, with a title or without. *)
CheckAgain(r) ==
    /\ At(r, "again")
    /\ IF row # NoRow THEN Answers(r, row) ELSE Moves(r, On(r, "mirror"))
    /\ UNCHANGED <<row, matchHistory>>

(* A mirror that does not answer leaves the map unknown. *)
AskMirror(r) ==
    /\ At(r, "mirror")
    /\ \/ \E meta \in FromMirror : Moves(r, [On(r, "store") EXCEPT !.meta = meta])
       \/ Answers(r, Nothing)
    /\ UNCHANGED <<row, matchHistory>>

Store(r) ==
    /\ At(r, "store")
    /\ Save(request[r].meta)
    /\ Answers(r, request[r].meta)
    /\ UNCHANGED matchHistory

-----------------------------------------------------------------------------
(* Mutant: every map is answered as map 1. *)
IdAlwaysMadeUp(meta) == "invented"

(* The id a request goes on with: 1 for a map without *)
IdOf(meta) == IF meta.id = "unknown" THEN "invented" ELSE meta.id

(* The rest of get_scores keeps the name of the client's file, with the id *)
(* it answers.                                                             *)
GetScores(r) ==
    /\ At(r, "answered")
    /\ \E meta \in FromName(IdOf(request[r].meta)) : Save(meta)
    /\ Moves(r, [step |-> "idle"])
    /\ UNCHANGED matchHistory

(* submit_score, and get_scores without a name, keep nothing. *)
SubmitScore(r) ==
    /\ At(r, "answered")
    /\ Moves(r, [step |-> "idle"])
    /\ UNCHANGED <<row, matchHistory>>

(* The connection breaks and the task is dropped at an await. *)
Drop(r) ==
    /\ ~At(r, "idle")
    /\ Moves(r, [step |-> "idle"])
    /\ UNCHANGED <<row, matchHistory>>

(* A match on the map is saved, by a client that knows its id or does not. *)
MatchSaved ==
    /\ matchHistory = NoRow
    /\ matchHistory' \in UNION {FromName(id) : id \in {"room", "unknown"}}
    /\ UNCHANGED <<row, request>>

CacheInit ==
    /\ row = NoRow
    /\ matchHistory = NoRow
    /\ request = [r \in Requests |-> [step |-> "idle"]]

CacheNext ==
    \/ \E r \in Requests :
        \/ BeginLookup(r) \/ CheckCache(r) \/ CheckHistory(r) \/ SaveName(r) \/ CheckAgain(r)
        \/ AskMirror(r) \/ Store(r) \/ GetScores(r) \/ SubmitScore(r) \/ Drop(r)
    \/ MatchSaved

CacheSpec == CacheInit /\ [][CacheNext]_cacheVars

-----------------------------------------------------------------------------
(* Properties *)

(* Whoever asks for a map that has a title is answered all that was known *)
(* of it, whatever requests that come later store meanwhile; but an id     *)
(* that was known may be lost to a request that was under way before and   *)
(* goes on with the id it has made up (get_scores stores it behind the     *)
(* answer of resolve_beatmap_meta).  A map known without a title is looked *)
(* up again, and nothing is promised of its id.                            *)
AnswersWhatIsKnown ==
    \A r \in Requests :
        At(r, "answered") /\ "title" \in Known(request[r].before) =>
            \A f \in Known(request[r].before) :
                f \in Known(request[r].meta) \/ (f = "id" /\ ~request[r].alone)

(* "Resolved real beatmap_id and beatmapset_id in submit_score and         *)
(* get_scores" (CHANGELOG.md:93): no answer has an id out of the cache     *)
(* that neither a room nor the mirror has given the map.                   *)
RealIds == \A r \in Requests : At(r, "answered") => request[r].meta.id # "invented"
=============================================================================
