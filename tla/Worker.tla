------------------------------- MODULE Worker -------------------------------
(***************************************************************************)
(* One isolate of the deployed worker: what becomes of a request, from the *)
(* entry point to the answer, when it is for an image or an asset.  The    *)
(* middleware, the Next server and an older deployment only answer.        *)
(*                                                                         *)
(* A handler awaits ASSETS, the network and the IMAGES binding; handlers   *)
(* share nothing but what the first request of the isolate initialised.    *)
(***************************************************************************)
EXTENDS Images

CONSTANTS
    Requests,
    Inputs,         \* the requests that are received
    Configs,        \* the environments and builds the worker may have
    Files,          \* records [type, bytes]: what an upstream may send
    MaxRedirects,   \* __IMAGES_MAX_REDIRECTS__
    Undefined       \* a variable of the module that has no value yet

Rule == [positive : BOOLEAN, pattern : Seq(STRING)]

\* An answer: the type it declares, Null when it is not an image, and what its body is.
Replies ==
    [status : Nat, declared : ContentTypes \cup {Null},
     body : ContentTypes \cup {"text", "endless", Null}, immutable : BOOLEAN]

ASSUME RedirectsAssumption == MaxRedirects \in Nat

ASSUME NullAssumption == Null \notin Replies \cup {"text", "endless"}

ASSUME InputsAssumption ==
    /\ Null \notin Inputs
    /\ \A input \in Inputs : input.to = "app" => input.path \in Seq(STRING)

ASSUME ConfigsAssumption == \A c \in Configs : c.runFirst.rules \in Seq(Rule)

\* What a file starts with tells its type, and says so only of that type; the first
\* box of one that is made of boxes is smaller than 2^24 bytes.
ASSUME FilesAssumption ==
    \A file \in Files :
        /\ file.bytes \in Seq(0 .. 255)
        /\ \/ file.type = Null /\ \A i \in DOMAIN Signatures : ~Matches(Signatures[i].bytes, file.bytes)
           \/ \E i \in DOMAIN Signatures :
                file.type = Signatures[i].type /\ Matches(Signatures[i].bytes, file.bytes)
        /\ Matches(Ftyp, file.bytes) => file.type \in {"avif", "heic"} /\ file.bytes[1] = 0

VARIABLES
    config,     \* the bindings, and the build's constants
    origin,     \* process.env.OPEN_NEXT_ORIGIN and __NEXT_PRIVATE_ORIGIN
    request,    \* the request being handled
    at,         \* the await its handler is at
    parsed,     \* the result of the parsing of an image request
    left,       \* the redirects an image may still be followed through
    image,      \* the image the upstream sent: its file, and whether it is immutable
    answer

routing == <<config, origin, request>>
vars == <<routing, at, parsed, left, image, answer>>

Stages == {"idle", "forwarded", "fetch", "header", "transform", "routing", "asset", "routed", "done"}

TypeOK ==
    /\ config \in Configs
    /\ origin = Undefined \/ \E input \in Inputs : origin = input.host
    /\ at \in [Requests -> Stages]
    /\ left \in [Requests -> 0 .. MaxRedirects]
    /\ \A r \in Requests :
        /\ (request[r] = Null) <=> (at[r] = "idle")
        /\ at[r] # "idle" => request[r] \in Inputs
        /\ IF at[r] = "done" THEN answer[r] \in Replies ELSE answer[r] = Null
        /\ at[r] \in {"header", "transform"} => image[r].file \in Files

\* An earlier request may have initialised the isolate.
Init ==
    /\ config \in Configs
    /\ origin \in {Undefined} \cup {input.host : input \in Inputs}
    /\ request = [r \in Requests |-> Null]
    /\ at = [r \in Requests |-> "idle"]
    /\ parsed = [r \in Requests |-> Null]
    /\ left = [r \in Requests |-> MaxRedirects]
    /\ image = [r \in Requests |-> Null]
    /\ answer = [r \in Requests |-> Null]

-----------------------------------------------------------------------------
(* Answers.                                                                *)

Reply(status, declared, body, immutable) ==
    [status |-> status, declared |-> declared, body |-> body, immutable |-> immutable]

Text(status) == Reply(status, Null, "text", FALSE)

\* The handler throws: the platform answers.
Thrown == Text(500)

\* A response with such a status cannot be made with a text for body.
NullBodyStatuses == {204, 304}

Upstream(status) == IF status \in NullBodyStatuses THEN Thrown ELSE Text(status)

\* createImageResponse()
ImageReply(r, declared, type) == Reply(200, declared, type, image[r].immutable)

Finish(r, reply) ==
    /\ at' = [at EXCEPT ![r] = "done"]
    /\ answer' = [answer EXCEPT ![r] = reply]

Goto(r, stage) ==
    /\ at' = [at EXCEPT ![r] = stage]
    /\ UNCHANGED answer

-----------------------------------------------------------------------------
(* fetch(): the first request of the isolate initialises it, and the path  *)
(* of a request decides who handles it.                                    *)

\* What the parsing of the request gives.
Parsed(input) ==
    CASE input.to = "image" -> ParseImageRequest(input.query, input.accept)
      [] input.to = "cdn" -> ParseCdnCgiImageRequest(input.url)
      [] OTHER -> Null

\* handleImageRequest() and handleCdnCgiImageRequest(), up to the first await.
StartImage(r, parse) ==
    CASE parse = Null -> Finish(r, Text(400))
      [] parse # Null /\ parse.url.form = "local" /\ ~config.assets -> Finish(r, Text(404))
      [] OTHER -> Goto(r, "fetch")

\* populateProcessEnv(): the origin of the requests to come.
Origin(input) == input.host

\* init()
Initialised(input) == IF origin = Undefined THEN Origin(input) ELSE origin

Receive(r, input) ==
    /\ at[r] = "idle"
    /\ request' = [request EXCEPT ![r] = input]
    /\ origin' = Initialised(input)
    /\ parsed' = [parsed EXCEPT ![r] = Parsed(input)]
    /\ \/ input.older /\ Goto(r, "forwarded")
       \/ ~input.older /\ input.to \in {"cdn", "image"} /\ StartImage(r, Parsed(input))
       \/ ~input.older /\ input.to = "app" /\ Goto(r, "routing")
    /\ UNCHANGED <<config, left, image>>

\* The older deployment, the middleware or the Next server answers.
Served(r) ==
    /\ at[r] \in {"forwarded", "routing", "routed"}
    /\ Finish(r, Text(200))
    /\ UNCHANGED <<routing, parsed, left, image>>

-----------------------------------------------------------------------------
(* The image is fetched: from ASSETS, or by fetchWithRedirects().          *)

IsImage(r) == request[r].to = "image"
IsLocal(r) == parsed[r].url.form = "local"

\* Slip: one redirect too many.
OneMore(redirects) == redirects < 0

\* maxRedirectCount < 1
OutOfRedirects(redirects) == redirects < 1

\* A redirect that has a location.  Only the image handler follows them itself.
Redirected(r) ==
    /\ at[r] = "fetch"
    /\ IsImage(r) /\ ~IsLocal(r)
    /\ IF OutOfRedirects(left[r])
       THEN Finish(r, Text(508)) /\ UNCHANGED left
       ELSE left' = [left EXCEPT ![r] = left[r] - 1] /\ UNCHANGED <<at, answer>>
    /\ UNCHANGED <<routing, parsed, image>>

\* An upstream that does not answer in time is a failure like another for the
\* handlers that set no timeout.
FetchFails(r) ==
    /\ at[r] = "fetch"
    /\ \/ IsImage(r) /\ ~IsLocal(r) /\ Finish(r, Text(504))
       \/ Finish(r, Thrown)
    /\ UNCHANGED <<routing, parsed, left, image>>

\* A redirect without a location, an error, or a response without a body.
NoImage(r) ==
    /\ at[r] = "fetch"
    /\ \E status \in {204, 302, 304, 404} : Finish(r, Upstream(status))
    /\ UNCHANGED <<routing, parsed, left, image>>

\* The answer may claim that the image never changes; what Next built never does.
GotImage(r) ==
    /\ at[r] = "fetch"
    /\ Goto(r, "header")
    /\ \E file \in Files, claim \in BOOLEAN :
        image' = [image EXCEPT ![r] =
            [file |-> file, immutable |-> IsImage(r) /\ (parsed[r].url.static \/ claim)]]
    /\ UNCHANGED <<routing, parsed, left>>

-----------------------------------------------------------------------------
(* readImageHeader() tees the body; the type it finds decides what to do.  *)

Detected(r) == DetectImageContentType(image[r].file.bytes)

AsIs(r) == Finish(r, ImageReply(r, Detected(r), image[r].file.type))

Transformable == {"gif", "avif", "webp", "jpeg", "png"}

Refused(r) ==
    \/ Detected(r) = Null
    \/ Detected(r) = "svg" /\ ~config.allowSVG
    \/ ~IsImage(r) /\ Detected(r) \notin SupportedCdnCgiInputTypes

ReadHeader(r) ==
    /\ at[r] = "header"
    /\ CASE Refused(r) -> Finish(r, Text(400))
         [] ~Refused(r) /\ IsImage(r) /\ Detected(r) \in Transformable /\ config.images ->
                Goto(r, "transform")
         [] OTHER -> AsIs(r)
    /\ UNCHANGED <<routing, parsed, left, image>>

\* The body errors, the timeout of the fetch that gave it being one reason, or
\* the stream is closed: the body, locked by its tee, may refuse to be canceled.
HeaderLost(r) ==
    /\ at[r] = "header"
    /\ Finish(r, Thrown) \/ Finish(r, Text(400))
    /\ UNCHANGED <<routing, parsed, left, image>>

\* The format asked of the binding: an animation stays one.
OutputFormat(r) ==
    IF Detected(r) = "gif" \/ parsed[r].format = Null THEN Detected(r) ELSE parsed[r].format

\* Slip: the format that was asked for.
AskedFormat(r, output) == OutputFormat(r)

\* imageTransformationResult.contentType()
DeclaredFormat(r, output) == output

\* The binding converts the image, to webp when it is too large for avif.
Transformed(r) ==
    /\ at[r] = "transform"
    /\ \E output \in {OutputFormat(r)} \cup (IF OutputFormat(r) = "avif" THEN {"webp"} ELSE {}) :
        Finish(r, ImageReply(r, DeclaredFormat(r, output), output))
    /\ UNCHANGED <<routing, parsed, left, image>>

TransformFails(r) ==
    /\ at[r] = "transform"
    /\ Finish(r, Thrown)
    /\ UNCHANGED <<routing, parsed, left, image>>

-----------------------------------------------------------------------------
(* maybeGetAssetResult(), which the routing layer asks for an asset.       *)
(* A path is a sequence; so is the pattern of a rule, where "*" is a star. *)

\* Only the first star of a rule is turned into the expression .*
MatchRule(pattern, path) ==
    LET star == SelectInSeq(pattern, LAMBDA c : c = "*")
        before == SubSeq(pattern, 1, star - 1)
        after == SubSeq(pattern, star + 1, Len(pattern))
    IN  IF star = 0
        THEN path = pattern
        ELSE /\ Len(path) >= Len(before) + Len(after)
             /\ IsPrefix(before, path)
             /\ IsSuffix(after, path)

\* Slip: the first rule that matches decides.
FirstMatchDecides(rules, path) ==
    LET first == SelectInSeq(rules, LAMBDA rule : MatchRule(rule.pattern, path))
    IN  first # 0 /\ rules[first].positive

\* The body of the loop over the rules: a negative match ends it, and after a
\* positive match only negative rules are looked at.
Consider(found, rule, path) ==
    CASE found = "excluded" -> found
      [] found = "included" /\ rule.positive -> found
      [] OTHER -> IF MatchRule(rule.pattern, path)
                  THEN IF rule.positive THEN "included" ELSE "excluded"
                  ELSE found

RulesInclude(rules, path) ==
    LET found[i \in 0 .. Len(rules)] ==
            IF i = 0 THEN "undecided" ELSE Consider(found[i - 1], rules[i], path)
    IN  found[Len(rules)] = "included"

\* run_worker_first is a list of rules or one decision for all paths, false when absent.
IsUserWorkerFirst(first, path) == IF first.list THEN RulesInclude(first.rules, path) ELSE first.all

\* Slip: a response without a body is given one, whatever the method.
BodyOrStream(method, body) == IF body = Null THEN "endless" ELSE body

\* getResponseBody(): the stream that stands for a missing body never closes.
GetResponseBody(method, body) ==
    IF method = "HEAD" THEN Null ELSE IF body = Null THEN "endless" ELSE body

AskForAsset(r) ==
    /\ at[r] = "routing"
    /\ IF /\ config.assets
          /\ IsUserWorkerFirst(config.runFirst, request[r].path)
          /\ request[r].method \in {"GET", "HEAD"}
       THEN Goto(r, "asset")
       ELSE Goto(r, "routed")
    /\ UNCHANGED <<routing, parsed, left, image>>

\* A HEAD response has no body, nor has one that tells that nothing was modified.
AssetAnswers(r) ==
    /\ at[r] = "asset"
    /\ \/ Goto(r, "routed")                     \* 404
       \/ \E status \in {200, 304} :
            LET body == IF status = 304 \/ request[r].method = "HEAD" THEN Null ELSE "text"
            IN  Finish(r, Reply(status, Null, GetResponseBody(request[r].method, body), FALSE))
       \/ Finish(r, Thrown)
    /\ UNCHANGED <<routing, parsed, left, image>>

-----------------------------------------------------------------------------
Answers(r) ==
    \/ Served(r)
    \/ Redirected(r) \/ FetchFails(r) \/ NoImage(r) \/ GotImage(r)
    \/ ReadHeader(r) \/ HeaderLost(r)
    \/ Transformed(r) \/ TransformFails(r)
    \/ AskForAsset(r) \/ AssetAnswers(r)

Next == \E r \in Requests : (\E input \in Inputs : Receive(r, input)) \/ Answers(r)

Spec == Init /\ [][Next]_vars

\* What a request awaits comes, or fails.
FairSpec == Spec /\ \A r \in Requests : WF_vars(Answers(r))

-----------------------------------------------------------------------------
(* What has to hold.                                                       *)

IsAnImage(r) == answer[r] # Null /\ answer[r].declared # Null

\* An image is declared to be what it is, converted or not, and whatever the
\* binding fell back to.  Except a HEIC file whose first box is of 256 bytes:
\* these bytes are also the signature of an icon, which is looked for before.
TruthfulType ==
    \A r \in Requests : IsAnImage(r) =>
        \/ answer[r].declared = answer[r].body
        \/ answer[r].body = "heic" /\ SubSeq(image[r].file.bytes, 1, 4) = <<0, 0, 1, 0>>

\* An image is answered in the format of its file, or in one that the client
\* accepts and the build allows, or in the one the binding fell back to.
ServedFormat ==
    \A r \in Requests : (IsAnImage(r) /\ IsImage(r)) =>
        \/ answer[r].declared \in {Detected(r)} \cup (request[r].accept \cap ToSet(Formats))
        \/ answer[r].declared = "webp" /\ "avif" \in request[r].accept \cup {Detected(r)}

\* Images are what their type says, and of a type that was asked for.
TrueImages == TruthfulType /\ ServedFormat

\* What the rules mean: a star is any text, a negative rule wins wherever it
\* stands.  What a pattern's first i characters stand for ends at end[i].
Glob(pattern, path) ==
    \E end \in [0 .. Len(pattern) -> 0 .. Len(path)] :
        /\ end[0] = 0 /\ end[Len(pattern)] = Len(path)
        /\ \A i \in DOMAIN pattern :
            IF pattern[i] = "*" THEN end[i - 1] <= end[i]
            ELSE end[i] = end[i - 1] + 1 /\ path[end[i]] = pattern[i]

Means(rules, path) ==
    /\ \E i \in DOMAIN rules : rules[i].positive /\ Glob(rules[i].pattern, path)
    /\ \A i \in DOMAIN rules : ~rules[i].positive => ~Glob(rules[i].pattern, path)

\* A rule of two stars means something else to the code.
OneStar(pattern) ==
    \A i, j \in DOMAIN pattern : pattern[i] = "*" /\ pattern[j] = "*" => i = j

Understood(rules) == \A i \in DOMAIN rules : OneStar(rules[i].pattern)

\* An asset is only asked for with a binding, for a request that reads, and on
\* behalf of a path that the configuration sends to the worker first; and all of
\* these paths are found, in whatever order the rules are.
RulesDecide ==
    \A r \in Requests :
        LET first == config.runFirst
            path == request[r].path
        IN  /\ at[r] = "asset" => /\ config.assets /\ request[r].method \in {"GET", "HEAD"}
                                  /\ ~first.list => first.all
            /\ first.list /\ Understood(first.rules) =>
                /\ at[r] = "asset" => Means(first.rules, path)
                /\ at[r] = "routing" => (Means(first.rules, path) <=> IsUserWorkerFirst(first, path))

\* Except the body of a GET that is answered without one: it is given one that
\* does not.
BodyEnds(r) ==
    answer[r].body # "endless" \/ (request[r].method = "GET" /\ answer[r].status = 304)

\* A request is answered, however many redirects its image goes through, and
\* its body ends.
RequestEnds ==
    \A r \in Requests : (at[r] # "idle") ~> (at[r] = "done" /\ BodyEnds(r))
=============================================================================
