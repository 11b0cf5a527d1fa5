------------------------------- MODULE Media --------------------------------
(***************************************************************************)
(* The avatar and the banner of one user (src/server/avatars.rs): upload,  *)
(* reset and download over files in data/avatars and data/banners.         *)
(*                                                                         *)
(* Every access to a file is a step.  A write first empties the file and   *)
(* then fills it; two writes that overlap may leave the start of one       *)
(* picture before the end of the other.  A picture is told apart from what *)
(* the sanitizer refuses (see Sanitizer) and from other pictures; who sent *)
(* it has been settled by get_authenticated_user (see WebAccess).          *)
(***************************************************************************)
EXTENDS Naturals, Sequences

CONSTANTS
    Pictures,       \* what passes the sanitizer
    Junk,           \* what does not, and is no picture
    Old,            \* a picture older versions stored, under any extension
    Uploaders       \* requests that may be under way at once

VARIABLES
    files,      \* files[k][e]: the file of kind k with extension e
    cache,      \* the avatar in the cache of a local osu! client, if there is one
    upload,     \* upload[c]: the request of c and where it is
    expected,   \* history: what the last request should have left, if it ran alone
    synced      \* history: that request, for the avatar, has reached that cache

mediaVars == <<files, cache, upload, expected, synced>>

-----------------------------------------------------------------------------
Kinds == {"avatar", "banner"}

Extensions == <<"png", "jpg", "jpeg", "webp">>

Named == {Extensions[i] : i \in DOMAIN Extensions}

None == <<"none">>
Torn == <<"torn">>
Whole(p) == <<"whole", p>>
Opened(c) == <<"opened", c>>

NoUpload == [step |-> "idle"]

UploadAt(c, step) == upload[c].step = step

UploadGoes(c, r) == upload' = [upload EXCEPT ![c] = r]

UploadMoves(c, step) == UploadGoes(c, [upload[c] EXCEPT !.step = step])

Meant(c) == IF upload[c].what = "upload" THEN Whole(upload[c].picture) ELSE None

Writers(k) == {c \in Uploaders : ~UploadAt(c, "idle") /\ upload[c].kind = k}

Unknown == <<"unknown">>
Pending(c) == <<"pending", c>>

(* what get_avatar and get_banner find, None being the default picture *)
Picture(k) ==
    LET there == {i \in DOMAIN Extensions : files[k][Extensions[i]] # None}
    IN  IF there = {} THEN None ELSE files[k][Extensions[CHOOSE i \in there : \A j \in there : i <= j]]

PutFile(k, e, content) == files' = [files EXCEPT ![k][e] = content]

-----------------------------------------------------------------------------
(* A reset removes the files of all extensions; an upload of a banner does *)
(* so before it looks at the picture, one of an avatar not at all.         *)
Begin(c, k, what, p) ==
    /\ UploadAt(c, "idle")
    /\ UploadGoes(c, [step |-> IF what = "reset" \/ k = "banner" THEN "remove" ELSE "sanitize",
                      kind |-> k, what |-> what, picture |-> p, i |-> 1])
    /\ expected' = [expected EXCEPT ![k] = IF Writers(k) = {} THEN Pending(c) ELSE Unknown]
    /\ synced' = (synced /\ k # "avatar")
    /\ UNCHANGED <<files, cache>>

(* Mutant: the last extension is left out. *)
RemovedButLast(c) ==
    IF upload[c].i < Len(Extensions) - 1 THEN UploadGoes(c, [upload[c] EXCEPT !.i = @ + 1])
    ELSE UploadMoves(c, IF upload[c].what = "upload" THEN "sanitize"
                        ELSE IF upload[c].kind = "avatar" THEN "cache" ELSE "ok")

Removed(c) ==
    IF upload[c].i < Len(Extensions) THEN UploadGoes(c, [upload[c] EXCEPT !.i = @ + 1])
    ELSE UploadMoves(c, IF upload[c].what = "upload" THEN "sanitize"
                        ELSE IF upload[c].kind = "avatar" THEN "cache" ELSE "ok")

Remove(c) ==
    /\ UploadAt(c, "remove")
    /\ PutFile(upload[c].kind, Extensions[upload[c].i], None)
    /\ Removed(c)
    /\ UNCHANGED <<cache, expected, synced>>

(* remove_file's error is ignored; nobody knows what to expect then *)
RemoveFails(c) ==
    /\ UploadAt(c, "remove")
    /\ files[upload[c].kind][Extensions[upload[c].i]] # None
    /\ Removed(c)
    /\ expected' = [expected EXCEPT ![upload[c].kind] = Unknown]
    /\ UNCHANGED <<files, cache, synced>>

(* Mutant: the avatar, too, makes room before the picture is looked at. *)
SanitizeAfterRoom(c) ==
    /\ UploadAt(c, "sanitize")
    /\ files' = [files EXCEPT ![upload[c].kind]["png"] = None]
    /\ IF upload[c].picture = Junk THEN UploadGoes(c, NoUpload) ELSE UploadMoves(c, "open")
    /\ UNCHANGED <<cache, expected, synced>>

Sanitize(c) ==
    /\ UploadAt(c, "sanitize")
    /\ IF upload[c].picture = Junk THEN UploadGoes(c, NoUpload) ELSE UploadMoves(c, "open")
    /\ UNCHANGED <<files, cache, expected, synced>>

(* the body is too large, empty, named otherwise or cut off *)
Refuse(c) ==
    /\ upload[c].step \in {"remove", "sanitize"} /\ upload[c].what = "upload" /\ upload[c].i = 1
    /\ UploadGoes(c, NoUpload)
    /\ UNCHANGED <<files, cache, expected, synced>>

(* fs::write: the file is emptied, then filled; whatever the picture is, *)
(* it becomes the file .png                                              *)
Open(c) ==
    /\ UploadAt(c, "open")
    /\ PutFile(upload[c].kind, "png", Opened(c))
    /\ UploadMoves(c, "fill")
    /\ UNCHANGED <<cache, expected, synced>>

Filled(c) == IF upload[c].kind = "avatar" THEN "cache" ELSE "ok"

Fill(c) ==
    /\ UploadAt(c, "fill")
    /\ \/ PutFile(upload[c].kind, "png", Whole(upload[c].picture))
       \/ /\ files[upload[c].kind]["png"] # Opened(c)
          /\ PutFile(upload[c].kind, "png", Torn)
    /\ UploadMoves(c, Filled(c))
    /\ UNCHANGED <<cache, expected, synced>>

WriteFails(c) ==
    /\ UploadAt(c, "fill")
    /\ PutFile(upload[c].kind, "png", Torn)
    /\ UploadGoes(c, NoUpload)
    /\ UNCHANGED <<cache, expected, synced>>

(* sync_to_local_osu_cache, where the client's directory is there and can *)
(* be written *)
SyncCache(c) ==
    /\ UploadAt(c, "cache")
    /\ cache' = Meant(c)
    /\ synced' = (expected["avatar"] = Pending(c))
    /\ UploadMoves(c, "ok")
    /\ UNCHANGED <<files, expected>>

(* Without LOCALAPPDATA or the directory nothing is done, and the errors of *)
(* the write and of the removal are ignored: what the client had stays, or  *)
(* the write got half way, as where two overlap.  The answer is the same.   *)
SyncFails(c) ==
    /\ UploadAt(c, "cache")
    /\ \/ UNCHANGED cache
       \/ upload[c].what = "upload" /\ cache' = Torn
    /\ synced' = FALSE
    /\ UploadMoves(c, "ok")
    /\ UNCHANGED <<files, expected>>

(* the answer; it is known to hold if no other request came in between *)
Succeed(c) ==
    /\ UploadAt(c, "ok")
    /\ UploadGoes(c, NoUpload)
    /\ expected' = [expected EXCEPT ![upload[c].kind] =
                        IF @ = Pending(c) THEN Meant(c) ELSE @]
    /\ UNCHANGED <<files, cache, synced>>

(* The server is killed; a file being written stays as it is, here and in *)
(* the client's cache.                                                    *)
Crash ==
    /\ upload' = [c \in Uploaders |-> NoUpload]
    /\ files' = [k \in Kinds |-> [e \in DOMAIN files[k] |->
                    IF \E c \in Uploaders : files[k][e] = Opened(c) THEN Torn ELSE files[k][e]]]
    /\ \/ UNCHANGED cache
       \/ /\ \E c \in Uploaders : UploadAt(c, "cache") /\ upload[c].what = "upload"
          /\ cache' = Torn
    /\ UNCHANGED <<expected, synced>>

MediaInit ==
    /\ files \in [Kinds -> {[e \in Named |-> IF e \in old THEN Whole(Old) ELSE None] : old \in SUBSET {"jpg", "webp"}}]
    /\ cache = None
    /\ upload = [c \in Uploaders |-> NoUpload]
    /\ expected = [k \in Kinds |-> Unknown]
    /\ synced = FALSE

MediaNext ==
    \/ \E c \in Uploaders :
        \/ \E k \in Kinds :
            \/ Begin(c, k, "reset", Junk)
            \/ \E p \in Pictures \cup {Junk} : Begin(c, k, "upload", p)
        \/ Remove(c) \/ RemoveFails(c) \/ Refuse(c) \/ Sanitize(c)
        \/ Open(c) \/ Fill(c) \/ WriteFails(c)
        \/ SyncCache(c) \/ SyncFails(c) \/ Succeed(c)
    \/ Crash

MediaSpec == MediaInit /\ [][MediaNext]_mediaVars
-----------------------------------------------------------------------------
(* Properties *)

Contents == {None, Torn} \cup {Whole(p) : p \in Pictures \cup {Old}} \cup {Opened(c) : c \in Uploaders}

(* Files are what somebody may have left in them; junk is in none. *)
MediaTypeOK ==
    /\ files \in [Kinds -> [Named -> Contents]]
    /\ \A k \in Kinds, e \in Named : files[k][e] # None => e = "png" \/ files[k][e] = Whole(Old)
    /\ cache \in {None, Torn} \cup {Whole(p) : p \in Pictures}
    /\ synced \in BOOLEAN
    /\ \A c \in Uploaders : ~UploadAt(c, "idle") => <<upload[c].kind, upload[c].what>> \in Kinds \X {"upload", "reset"}
    /\ expected \in [Kinds -> {Unknown, None} \cup {Pending(c) : c \in Uploaders} \cup {Whole(p) : p \in Pictures}]

Settled(k) == expected[k] = None \/ \E p \in Pictures : expected[k] = Whole(p)

(* After an answer of success to a request that ran alone, and whose files *)
(* could be removed, everybody is shown what it sent, whatever older files *)
(* lie beside it or a crash has left behind, until the next request comes; *)
(* and so is a local client, if its cache could be written: the answer is  *)
(* the same where it could not, and the client keeps what it had.          *)
AsAnswered ==
    \A k \in Kinds : Settled(k) =>
        /\ Picture(k) = expected[k]
        /\ (k = "avatar" /\ synced => cache = expected[k])

(* An avatar stays until a reset or a good picture replaces it; a refused  *)
(* upload takes nothing away.  (A banner goes before the new one is seen.) *)
RefusedKeepsAvatar ==
    [][files["avatar"]' # files["avatar"] =>
        \E c \in Writers("avatar") :
                          /\ upload'[c] # upload[c]
                          /\ (upload[c].what = "reset" \/ upload[c].picture # Junk)]_mediaVars
=============================================================================
