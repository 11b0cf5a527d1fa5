-------------------------------- MODULE MCWeb --------------------------------
(***************************************************************************)
(* The web side in one run: WebAccess, Media and Sanitizer share no state, *)
(* so the initial state chooses the one that runs while the others rest.   *)
(* WebAccess has two studies: who administers, with cookies that stay      *)
(* good, and what makes a cookie go bad, with the pages that only read or  *)
(* are the user's own.                                                     *)
(***************************************************************************)
EXTENDS WebAccess, Media, Sanitizer, TLC

CONSTANTS root, ada, c1, c2, cat, dog, junk, old

VARIABLE study

MCSeeded   == <<"AM">>
MCReading  == {<<"POST", "profile">>, <<"GET", "chat/history">>, <<"GET", "badges">>}
MCRoots    == {t \in Token : t.user = root /\ t.issued < MaxTime}
MCClients  == {c1, c2}
MCPictures == {cat, dog}
MCSymmetry == Permutations(MCClients) \cup Permutations(MCPictures)

(* segments with metadata and without, with fill, with bytes in them that *)
(* look like others, and too short; a standalone marker, the start of a    *)
(* scan and the end; what is left when a segment is cut                    *)
MCJpegPieces ==
    {<<255, 225, 0, 2>>, <<255, 237, 0, 4, 255, 219>>, <<255, 255, 254, 0, 3, 255>>,
     <<255, 219, 0, 2>>, <<255, 219, 0, 4, 255, 225>>, <<255, 219, 0, 1>>,
     <<255, 208>>, <<255, 218>>, <<255, 217>>, <<255>>, <<0, 0>>}
MCPngChunks  == {"IHDR", "tEXt", "IDAT", "IEND", "cut"}
MCWebpChunks ==
    {[kind |-> "VP8X", flags |-> f] : f \in SUBSET {"EXIF", "ALPHA"}}
        \cup {[kind |-> k, flags |-> {}] : k \in {"EXIF", "VP8 ", "cut"}}

-----------------------------------------------------------------------------
(* The studies.  At rest, the pictures are those of one initial state and  *)
(* the body is the empty PNG.  Older files lie there for both or neither.  *)

MCInit ==
    /\ Init /\ MediaInit /\ SanitizerInit
    /\ study \in {"admins", "cookies", "pictures", "bodies"}
    /\ files["avatar"] = files["banner"]
    /\ study # "pictures" =>
            \A k \in Kinds, e \in Named : files[k][e] = None
    /\ study # "bodies" => format = "png"

(* Nothing happens to the cookies, and what is asked for changes something. *)
(* Foreign pages are shown to root, who begins as administrator; the other  *)
(* badges are for ada.                                                      *)
Admins ==
    \E c \in Clients :
        \/ Proceed(c)
        \/ \E route \in Routes \ MCReading, t \in {u \in Token : Issued(u)} \cup {NoToken}, here \in Origins :
            \E arg \in Arguments(route[2]) :
                /\ here \/ t.user = root
                /\ route[2] \in {"badges/award", "badges/revoke"} => arg # <<root, 2>>
                /\ Arrive(c, route, t, here, arg)

(* one user's cookies; those of the last second do not get old *)
Cookies ==
    \/ Tick
    \/ ChangePassword(root)
    \/ \E c \in Clients :
        \/ \E t \in MCRoots : SignOut(c, t)
        \/ Ask(c, MCReading, MCRoots)
        \/ Proceed(c)

MCNext ==
    /\ \/ study = "admins" /\ Admins
       \/ study = "cookies" /\ Cookies
       \/ study \in {"pictures", "bodies"} /\ UNCHANGED vars
    /\ IF study = "pictures" THEN MediaNext ELSE UNCHANGED mediaVars
    /\ IF study = "bodies" THEN SanitizerNext ELSE UNCHANGED sanitizerVars
    /\ UNCHANGED study

(* Avatars and banners share nothing: one kind is left alone. *)
MCOneKind == \E k \in Kinds : Writers(k) = {} /\ expected[k] = Unknown

MCSpec == MCInit /\ [][MCNext]_<<vars, mediaVars, sanitizerVars, study>>
==============================================================================
