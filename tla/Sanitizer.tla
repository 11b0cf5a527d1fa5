----------------------------- MODULE Sanitizer ------------------------------
(***************************************************************************)
(* The metadata strippers of src/server/avatars.rs as functions.  A JPEG   *)
(* is a sequence of bytes, of which only those count that the scan tells   *)
(* apart; PNG and WebP are sequences of chunks, their lengths having been  *)
(* found to fit.  A function returns Refused or what it keeps.             *)
(***************************************************************************)
EXTENDS Integers, Sequences, FiniteSets

CONSTANTS
    JpegPieces, PngChunks, WebpChunks,  \* what a body is grown of
    MaxBytes, MaxChunks                 \* bounds of the model: when it stops growing

ASSUME SanitizerAssumption ==
    /\ JpegPieces \subseteq Seq(0 .. 255)
    /\ \A c \in WebpChunks : c = [kind |-> c.kind, flags |-> c.flags]

VARIABLES format, body

sanitizerVars == <<format, body>>

-----------------------------------------------------------------------------
Refused == <<"refused">>
Kept(s) == <<"kept", s>>

Before(prefix, r) == IF r = Refused THEN Refused ELSE Kept(prefix \o r[2])

-----------------------------------------------------------------------------
(* strip_png_metadata.  "cut" is what is left when no whole chunk follows. *)

PngMetadata == {"eXIf", "tEXt", "zTXt", "iTXt", "iCCP"}

StripPng(chunks) ==
    LET from[i \in 1 .. Len(chunks) + 1] ==
            IF i > Len(chunks) \/ chunks[i] = "cut" THEN Refused
            ELSE IF chunks[i] = "IEND" THEN IF i = Len(chunks) THEN Kept(<<"IEND">>) ELSE Refused
            ELSE Before(IF chunks[i] \in PngMetadata THEN << >> ELSE <<chunks[i]>>, from[i + 1])
    IN  from[1]

-----------------------------------------------------------------------------
(* strip_webp_metadata.  A chunk is [kind, flags]; only VP8X has flags.    *)

WebpMetadata == {"EXIF", "XMP "}

(* Mutant: the header still announces the metadata that is gone. *)
FlagsKept(chunk) == IF chunk.kind \in WebpMetadata THEN << >> ELSE <<chunk>>

KeptWebp(chunk) ==
    IF chunk.kind \in WebpMetadata THEN << >>
    ELSE IF chunk.kind = "VP8X" THEN <<[chunk EXCEPT !.flags = @ \ WebpMetadata]>>
    ELSE <<chunk>>

StripWebp(chunks) ==
    LET from[i \in 1 .. Len(chunks) + 1] ==
            IF i > Len(chunks) THEN Kept(<< >>)
            ELSE IF chunks[i].kind = "cut" THEN Refused
            ELSE Before(KeptWebp(chunks[i]), from[i + 1])
    IN  from[1]

-----------------------------------------------------------------------------
(* strip_jpeg_metadata, with the offsets of the code (the first byte is at *)
(* 0).                                                                     *)

FF  == 255
SOI == 216
EOI == 217
SOS == 218
App1 == 225
App13 == 237
Comment == 254
JpegMetadata == {App1, App13, Comment}
Standalone == {1} \cup 208 .. 215

(* bytes[a..b] *)
Slice(bytes, a, b) == SubSeq(bytes, a + 1, b)

(* the first offset from o on whose byte is not ff, or the end *)
PastFill(bytes, o) ==
    CHOOSE p \in o .. Len(bytes) :
        /\ p < Len(bytes) => bytes[p + 1] # FF
        /\ \A q \in o .. p - 1 : bytes[q + 1] = FF

(* where the segment ends whose length stands at o *)
SegmentEnd(bytes, o) == o + 256 * bytes[o + 1] + bytes[o + 2]

StripJpeg(bytes) ==
    LET from[o \in 0 .. Len(bytes)] ==
            LET m == PastFill(bytes, o)   \* where the marker is
            IN  IF o = Len(bytes) \/ bytes[o + 1] # FF \/ m = Len(bytes) THEN Refused
                ELSE IF bytes[m + 1] = SOS THEN Kept(Slice(bytes, o, Len(bytes)))
                ELSE IF bytes[m + 1] = EOI
                     THEN IF m + 1 = Len(bytes) THEN Kept(Slice(bytes, o, m + 1)) ELSE Refused
                ELSE IF bytes[m + 1] \in Standalone
                     THEN Before(Slice(bytes, o, m + 1), from[m + 1])
                ELSE IF m + 3 > Len(bytes) THEN Refused
                ELSE LET e == SegmentEnd(bytes, m + 1)
                     IN  IF e < m + 3 \/ e > Len(bytes) THEN Refused
                         ELSE Before(IF bytes[m + 1] \in JpegMetadata THEN << >> ELSE Slice(bytes, o, e),
                                     from[e])
    IN  IF Len(bytes) < 2 \/ bytes[1] # FF \/ bytes[2] # SOI THEN Refused
        ELSE Before(<<FF, SOI>>, from[2])

-----------------------------------------------------------------------------
(* The uploads: bodies of each format grown from nothing, one piece at a   *)
(* time, so that every short body of such pieces is met.                   *)

SanitizerInit ==
    \/ format = "jpeg" /\ body = <<FF, SOI>>
    \/ format \in {"png", "webp"} /\ body = << >>

Grow(f, pieces, max) ==
    /\ format = f /\ Len(body) < max
    /\ \E piece \in pieces : body' = body \o piece
    /\ UNCHANGED format

SanitizerNext ==
    \/ Grow("jpeg", JpegPieces, MaxBytes)
    \/ Grow("png", {<<chunk>> : chunk \in PngChunks}, MaxChunks)
    \/ Grow("webp", {<<chunk>> : chunk \in WebpChunks}, MaxChunks)

SanitizerSpec == SanitizerInit /\ [][SanitizerNext]_sanitizerVars

Strip(b) == CASE format = "jpeg" -> StripJpeg(b)
              [] format = "png" -> StripPng(b)
              [] format = "webp" -> StripWebp(b)

-----------------------------------------------------------------------------
(* Properties *)

(* What a JPEG is made of, apart from how the code scans it: fill, one of  *)
(* the markers and, unless it stands alone, a length with as many bytes    *)
(* take all of bytes from c to e.                                          *)
IsSegment(bytes, markers, c, e) ==
    \E m \in c + 1 .. e - 1 :
        /\ \A q \in c .. m - 1 : bytes[q + 1] = FF
        /\ bytes[m + 1] \in markers \ {FF, SOS, EOI}
        /\ IF bytes[m + 1] \in Standalone THEN e = m + 1
           ELSE m + 3 <= e /\ 256 * bytes[m + 2] + bytes[m + 3] = e - (m + 1)

(* From the first two bytes to o there are whole segments, one behind the *)
(* other; none of them starts a scan.                                     *)
Begins(bytes, o) ==
    \E cuts \in SUBSET {c \in 2 .. o - 1 : bytes[c + 1] = FF} :
        /\ 2 \in cuts \cup {o}
        /\ \A c \in cuts : \E e \in cuts \cup {o} : IsSegment(bytes, 0 .. 255, c, e)

JpegMetadataAt(bytes, o, e) == IsSegment(bytes, JpegMetadata, o, e) /\ Begins(bytes, o)

PngMetadataAt(chunks, i) == chunks[i] \in PngMetadata /\ \A j \in 1 .. i - 1 : chunks[j] # "IEND"

(* the pieces of s without those from a to b *)
Without(s, a, b) == SubSeq(s, 1, a) \o SubSeq(s, b + 1, Len(s))

Unannounced(chunk) == [chunk EXCEPT !.flags = @ \ WebpMetadata]

(* Metadata makes no difference: without a piece of it, wherever it lies,  *)
(* or without its announcement in the header of a WebP, a picture is       *)
(* accepted just when it was, and stored as the same.                      *)
MetadataMakesNoDifference ==
    CASE format = "jpeg" ->
            \A o, e \in 2 .. Len(body) :
                JpegMetadataAt(body, o, e) => Strip(Without(body, o, e)) = Strip(body)
      [] format = "png" ->
            \A i \in DOMAIN body : PngMetadataAt(body, i) => Strip(Without(body, i - 1, i)) = Strip(body)
      [] format = "webp" ->
            \A i \in DOMAIN body :
                /\ body[i].kind \in WebpMetadata => Strip(Without(body, i - 1, i)) = Strip(body)
                /\ body[i].kind = "VP8X" => Strip([body EXCEPT ![i] = Unannounced(@)]) = Strip(body)

Plain ==
    CASE format = "jpeg" -> \A o, e \in 2 .. Len(body) : ~JpegMetadataAt(body, o, e)
      [] format = "png" -> \A i \in DOMAIN body : body[i] \notin PngMetadata
      [] format = "webp" ->
            \A i \in DOMAIN body : body[i].kind \notin WebpMetadata /\ body[i].flags \cap WebpMetadata = {}

(* At o, behind the fill, the scan begins or the picture ends. *)
ScanOrEnd(bytes, o) ==
    \E m \in o + 1 .. Len(bytes) - 1 :
        /\ \A q \in o .. m - 1 : bytes[q + 1] = FF
        /\ bytes[m + 1] = SOS \/ (bytes[m + 1] = EOI /\ m + 1 = Len(bytes))

(* Nothing is cut off, and nothing follows the end. *)
Complete ==
    CASE format = "jpeg" -> \E o \in 2 .. Len(body) : ScanOrEnd(body, o) /\ Begins(body, o)
      [] format = "png" ->
            /\ body # << >> /\ body[Len(body)] = "IEND"
            /\ \A i \in 1 .. Len(body) - 1 : body[i] \notin {"IEND", "cut"}
      [] format = "webp" -> \A i \in DOMAIN body : body[i].kind # "cut"

(* A complete picture without metadata is stored as it was sent. *)
PlainIsKept == Plain => Strip(body) = IF Complete THEN Kept(body) ELSE Refused

(* What strip_metadata takes out of a picture is its metadata, all of it   *)
(* wherever it lies, and nothing else.  In a JPEG that means all up to the *)
(* scan: behind it the code keeps whatever comes, metadata or not.         *)
(* Together the two say what is stored of every body: without its pieces   *)
(* of metadata, one after the other, it is plain.                          *)
OnlyMetadataGoes == MetadataMakesNoDifference /\ PlainIsKept
=============================================================================
