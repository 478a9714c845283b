------------------------------- MODULE Images -------------------------------
(***************************************************************************)
(* What the image optimisation decides of its inputs: which requests are   *)
(* valid, and of what type a file is.                                      *)
(*                                                                         *)
(* A pattern of the images manifest is the set of the names its expression *)
(* matches.  A query parameter is the sequence of its values.              *)
(***************************************************************************)
EXTENDS Naturals, SequencesExt

CONSTANTS
    Null,               \* undefined, null
    LocalPatterns,      \* __IMAGES_LOCAL_PATTERNS__: records [pathname, search]
    RemotePatterns,     \* __IMAGES_REMOTE_PATTERNS__
    Widths,             \* __IMAGES_DEVICE_SIZES__ and __IMAGES_IMAGE_SIZES__
    Qualities,          \* __IMAGES_QUALITIES__
    Formats             \* __IMAGES_FORMATS__, the preferred one first

ASSUME FormatsAssumption == Formats \in Seq({"avif", "webp"})

-----------------------------------------------------------------------------
(* Parameters of an image request.                                         *)

OnlyIfSet(expected, actual) == expected = Null \/ expected = actual

MatchLocalPattern(pattern, url) ==
    /\ OnlyIfSet(pattern.search, url.search)
    /\ url.pathname \in pattern.pathname

MatchRemotePattern(pattern, url) ==
    /\ OnlyIfSet(pattern.protocol, url.protocol)
    /\ OnlyIfSet(pattern.port, url.port)
    /\ url.hostname \in pattern.hostname
    /\ OnlyIfSet(pattern.search, url.search)
    /\ url.pathname \in pattern.pathname

\* The first characters of a url decide how it is read: "local" is "/", "network"
\* is "//", and "absolute" what the URL class parses.
ValidUrl(url) ==
    \/ /\ url.form = "local"
       /\ ~url.recursive                        \* not /_next/image itself
       /\ url.static \/ \E p \in LocalPatterns : MatchLocalPattern(p, url)
    \/ /\ url.form = "absolute"
       /\ url.protocol \in {"http", "https"}
       /\ \E p \in RemotePatterns : MatchRemotePattern(p, url)

Single(values) == Len(values) = 1

ValidWidth(width) == width > 0 /\ width \in Widths

ValidQuality(quality) == quality \in 1 .. 100 /\ quality \in Qualities

\* Slip: the preferred format, whatever the client accepts.
PreferredFormat(accept) == Formats[1]

\* The format to convert to: the first of the configuration that the client accepts.
Format(accept) ==
    LET first == SelectInSeq(Formats, LAMBDA format : format \in accept)
    IN  IF first = 0 THEN Null ELSE Formats[first]

\* parseImageRequest(): Null stands for its error.  A value that is not made of
\* digits is the number 0, which is refused like it.
ParseImageRequest(query, accept) ==
    IF /\ Single(query.url) /\ ValidUrl(query.url[1])
       /\ Single(query.w) /\ ValidWidth(query.w[1])
       /\ Single(query.q) /\ ValidQuality(query.q[1])
    THEN [url |-> query.url[1], format |-> Format(accept)]
    ELSE Null

\* parseCdnCgiImageRequest(): the form of what follows the options.
ParseCdnCgiImageRequest(url) ==
    IF url.form \in {"local", "absolute"} THEN [url |-> url, format |-> Null] ELSE Null

-----------------------------------------------------------------------------
(* The type of a file, from its first bytes.                               *)

Wild == 256     \* any byte

Signature(type, bytes) == [type |-> type, bytes |-> bytes]

Anything == <<Wild, Wild, Wild, Wild>>

\* The first box of an ISO media file.
Ftyp == Anything \o <<102, 116, 121, 112>>

Signatures == <<
    Signature("jpeg", <<255, 216, 255>>),
    Signature("png",  <<137, 80, 78, 71, 13, 10, 26, 10>>),
    Signature("gif",  <<71, 73, 70, 56>>),
    Signature("webp", <<82, 73, 70, 70>> \o Anything \o <<87, 69, 66, 80>>),
    Signature("svg",  <<60, 63, 120, 109, 108>>),
    Signature("svg",  <<60, 115, 118, 103>>),
    Signature("avif", Ftyp \o <<97, 118, 105, 102>>),
    Signature("ico",  <<0, 0, 1, 0>>),
    Signature("icns", <<105, 99, 110, 115>>),
    Signature("tiff", <<73, 73, 42, 0>>),
    Signature("bmp",  <<66, 77>>),
    Signature("jxl",  <<255, 10>>),
    Signature("jxl",  <<0, 0, 0, 12, 74, 88, 76, 32, 13, 10, 135, 10>>),
    Signature("heic", Ftyp \o <<104, 101, 105, 99>>),
    Signature("jp2",  <<0, 0, 0, 12, 106, 80, 32, 32, 13, 10, 135, 10>>)
>>

\* A byte beyond the end of a short file is undefined, and equal to none.
Matches(signature, bytes) ==
    \A i \in DOMAIN signature :
        signature[i] = Wild \/ (i \in DOMAIN bytes /\ bytes[i] = signature[i])

\* What a file may be found to be.
ContentTypes ==
    {"jpeg", "png", "gif", "webp", "svg", "avif", "ico", "icns", "tiff", "bmp", "jxl", "heic", "jp2"}

\* Slip: the signature of an icon is looked for first.
DetectIconFirst(bytes) ==
    LET Hit(s) == Matches(s.bytes, bytes)
        first == SelectInSeq(Signatures, Hit)
    IN  IF Matches(<<0, 0, 1, 0>>, bytes) THEN "ico"
        ELSE IF first = 0 THEN Null ELSE Signatures[first].type

\* detectImageContentType(): the first signature that matches.
DetectImageContentType(bytes) ==
    LET Hit(s) == Matches(s.bytes, bytes)
        first == SelectInSeq(Signatures, Hit)
    IN  IF first = 0 THEN Null ELSE Signatures[first].type

\* SUPPORTED_CDN_CGI_INPUT_TYPES
SupportedCdnCgiInputTypes == {"jpeg", "png", "gif", "webp", "svg", "heic"}
=============================================================================
