---------------------------- MODULE Deployments ----------------------------
(***************************************************************************)
(* Skew protection: the commands that deploy or upload a version of the    *)
(* worker, the mapping from deployment ids to versions that they compute   *)
(* and give it, and the routing of a request to the deployment it names.   *)
(*                                                                         *)
(* Commands run on several machines: nothing but the versions that the     *)
(* platform lists is shared, and it changes between two calls of its API.  *)
(* A version is its rank in the order of creation.                         *)
(***************************************************************************)
EXTENDS Integers, Sequences, FiniteSets

CONSTANTS
    Commands,       \* runs of `deploy' and `upload'
    Deployments,    \* deployment ids of builds
    NoDeployment,   \* a version built without one
    MaxVersions,    \* maxNumberOfVersions
    MaxAge,         \* the age in force: maxVersionAgeDays, or 7 days when it is 0 or not given
    MaxTime,        \* bound: the clock stops here
    MaxSecrets      \* bound: versions created by a change of a secret

ASSUME NoDeploymentAssumption == NoDeployment \notin Deployments
ASSUME BoundAssumption == {MaxVersions, MaxAge, MaxTime, MaxSecrets} \subseteq Nat

VARIABLES
    now,
    versions,   \* the versions of the worker
    command,    \* what each command runs: its kind and the build it finds
    step,       \* where it is
    listed,     \* deployedVersions
    seen,       \* history: versions created, and the time, when it listed them
    mapping     \* deploymentMapping

vars == <<now, versions, command, step, listed, seen, mapping>>

Current == 0                \* CURRENT_VERSION_ID
NoMapping == [id \in {} |-> Current]  \* {}

\* UPLOAD_TRIGGER_TYPES, and no annotation.
UploadTriggers == {"upload", "version_upload", "unknown"}
Triggers == UploadTriggers \cup {"secret"}

IsMapping(map, last) == \E ids \in SUBSET Deployments : map \in [ids -> 0 .. last]

IsVersion(v, i) ==
    /\ v.id \in Deployments \cup {NoDeployment}
    /\ IsMapping(v.mapping, i - 1)
    /\ v.trigger \in Triggers
    /\ {v.created, v.base, v.listedAt} \subseteq Int

Steps == {"idle", "start", "list", "detail", "populate", "wrangler", "done", "failed"}

\* A mapping is made of versions that exist; those of a version are older than it.
TypeOK ==
    /\ now \in Nat
    /\ \A i \in DOMAIN versions : IsVersion(versions[i], i)
    /\ step \in [Commands -> Steps]
    /\ \A c \in Commands :
        /\ command[c] \in [kind : {"deploy", "upload"}, id : Deployments, skew : BOOLEAN]
        /\ listed[c] \subseteq DOMAIN versions
        /\ IsMapping(mapping[c], Len(versions))

\* A version deployed before the project used skew protection, or its adapter.
Legacy ==
    [id |-> NoDeployment, mapping |-> NoMapping, trigger |-> "unknown", created |-> 0,
     base |-> 0, listedAt |-> 0]

Init ==
    /\ now = 1
    /\ versions \in {<<>>, <<Legacy>>}
    /\ command \in [Commands -> [kind : {"deploy", "upload"}, id : Deployments, skew : BOOLEAN]]
    /\ step = [c \in Commands |-> "idle"]
    /\ listed = [c \in Commands |-> {}]
    /\ seen = [c \in Commands |-> [count |-> 0, at |-> 0]]
    /\ mapping = [c \in Commands |-> NoMapping]

IsDeploy(c) == command[c].kind = "deploy"

Goto(c, s) == step' = [step EXCEPT ![c] = s]

-----------------------------------------------------------------------------
(* deployCommand() populates the cache, then computes the mapping;         *)
(* uploadCommand() does it the other way round.                            *)

Start(c) ==
    /\ step[c] = "idle"
    /\ Goto(c, IF IsDeploy(c) THEN "populate" ELSE "list")
    /\ UNCHANGED <<now, versions, command, listed, seen, mapping>>

Populate(c) ==
    /\ step[c] = "populate"
    /\ \/ Goto(c, IF IsDeploy(c) THEN "list" ELSE "wrangler")
       \/ Goto(c, "failed")
    /\ UNCHANGED <<now, versions, command, listed, seen, mapping>>

MappingDone(c) == Goto(c, IF IsDeploy(c) THEN "wrangler" ELSE "populate")

-----------------------------------------------------------------------------
(* getDeploymentMapping()                                                  *)

\* Slip: the versions created by a change of a secret are listed as well.
EveryVersion == {i \in DOMAIN versions : versions[i].created >= now - MaxAge}

\* The uploads that are recent enough.
RecentUploads ==
    {i \in DOMAIN versions :
        versions[i].created >= now - MaxAge /\ versions[i].trigger \in UploadTriggers}

\* Slip: one version less than may be kept.
OneShort(recent) ==
    {i \in recent : Cardinality({j \in recent : j >= i}) < MaxVersions}

\* The newest ones; the limit is looked at when one has been taken.
Limited(recent) ==
    {i \in recent : \/ \A j \in recent : j <= i
                    \/ Cardinality({j \in recent : j >= i}) <= MaxVersions}

\* Without skew protection there is no mapping.  The list is empty when the
\* worker has never been deployed.  Its pages are read at one time.
List(c) ==
    /\ step[c] = "list"
    /\ IF command[c].skew
       THEN /\ listed' = [listed EXCEPT ![c] = Limited(RecentUploads)]
            /\ seen' = [seen EXCEPT ![c] = [count |-> Len(versions), at |-> now]]
            /\ Goto(c, "detail")
       ELSE MappingDone(c) /\ UNCHANGED <<listed, seen>>
    /\ UNCHANGED <<now, versions, command, mapping>>

\* deployedVersions[0]
Newest(set) == CHOOSE i \in set : \A j \in set : j <= i

\* The mapping the newest listed version was given.
ExistingMapping(set) == IF set = {} THEN NoMapping ELSE versions[Newest(set)].mapping

\* Slip: the rank of the version to be is guessed.
GuessVersion(map, set, id) ==
    LET kept == {d \in DOMAIN map : IF map[d] = Current THEN set # {} ELSE map[d] \in set}
    IN  [d \in kept \cup {id} |->
            IF d \notin kept THEN Len(versions) + 1
            ELSE IF map[d] = Current THEN Newest(set)
            ELSE map[d]]

\* updateDeploymentMapping(): the entries whose version is not listed go.
UpdateDeploymentMapping(map, set, id) ==
    LET kept == {d \in DOMAIN map : IF map[d] = Current THEN set # {} ELSE map[d] \in set}
    IN  [d \in kept \cup {id} |->
            IF d \notin kept THEN Current
            ELSE IF map[d] = Current THEN Newest(set)
            ELSE map[d]]

\* The details of the newest version are fetched; a deployment id is used once.
Detail(c) ==
    /\ step[c] = "detail"
    /\ LET existing == ExistingMapping(listed[c])
       IN  IF command[c].id \in DOMAIN existing
           THEN Goto(c, "failed") /\ UNCHANGED mapping
           ELSE /\ mapping' = [mapping EXCEPT ![c] =
                        UpdateDeploymentMapping(existing, listed[c], command[c].id)]
                /\ MappingDone(c)
    /\ UNCHANGED <<now, versions, command, listed, seen>>

\* A call of the API fails.
ApiFails(c) ==
    /\ step[c] \in {"list", "detail"}
    /\ command[c].skew
    /\ Goto(c, "failed")
    /\ UNCHANGED <<now, versions, command, listed, seen, mapping>>

-----------------------------------------------------------------------------
(* wrangler and the platform.                                              *)

NewVersion(c) ==
    [id |-> command[c].id, mapping |-> mapping[c], created |-> now,
     trigger |-> IF IsDeploy(c) THEN "upload" ELSE "version_upload",
     base |-> IF command[c].skew THEN seen[c].count ELSE 0, listedAt |-> seen[c].at]

\* `wrangler deploy' makes the new version the live one, `versions upload' does
\* not; people promote versions and roll deployments back: any may be live.
Wrangler(c) ==
    /\ step[c] = "wrangler"
    /\ versions' = Append(versions, NewVersion(c))
    /\ Goto(c, "done")
    /\ UNCHANGED <<now, command, listed, seen, mapping>>

WranglerFails(c) ==
    /\ step[c] = "wrangler"
    /\ Goto(c, "failed")
    /\ UNCHANGED <<now, versions, command, listed, seen, mapping>>

\* The worker is created again from its last version with other secrets: the
\* variables stay, the assets are not part of it.
ChangeSecret ==
    /\ versions # <<>>
    /\ Cardinality({i \in DOMAIN versions : versions[i].trigger = "secret"}) < MaxSecrets
    /\ versions' = Append(versions,
            [versions[Len(versions)] EXCEPT !.trigger = "secret", !.created = now])
    /\ UNCHANGED <<now, command, step, listed, seen, mapping>>

Tick ==
    /\ now < MaxTime
    /\ now' = now + 1
    /\ UNCHANGED <<versions, command, step, listed, seen, mapping>>

-----------------------------------------------------------------------------
Next ==
    \/ \E c \in Commands :
        \/ Start(c) \/ Populate(c)
        \/ List(c) \/ Detail(c) \/ ApiFails(c)
        \/ Wrangler(c) \/ WranglerFails(c)
    \/ ChangeSecret
    \/ Tick

Spec == Init /\ [][Next]_vars

-----------------------------------------------------------------------------
(* maybeGetSkewProtectionResponse(): the version that answers a request    *)
(* for the deployment id, received by version v on a custom domain.  The   *)
(* older version, reached by its preview URL, does not route any further.  *)

Answering(v, id) ==
    LET map == versions[v].mapping
    IN  IF id = versions[v].id \/ id \notin DOMAIN map THEN v
        ELSE IF map[id] = Current THEN v
        ELSE map[id]

(* What has to hold.                                                       *)

IsUpload(i) == versions[i].trigger \in UploadTriggers

\* Whatever version is live, a request that names a deployment it knows is
\* answered by a version of that deployment, with its assets: commands that
\* overlap, roll backs, uploads never deployed and changes of secrets included.
RoutedRight ==
    \A v \in DOMAIN versions : \A id \in DOMAIN versions[v].mapping :
        LET answering == Answering(v, id)
        IN  /\ versions[answering].id = id
            /\ answering = v \/ IsUpload(answering)

\* The versions a command had to keep when it listed them for version v.
Window(v) ==
    LET recent == {i \in 1 .. versions[v].base :
                    IsUpload(i) /\ versions[i].created >= versions[v].listedAt - MaxAge}
    IN  {i \in recent : Cardinality({j \in recent : j >= i}) <= MaxVersions}

\* Another version was uploaded between the listing for version v and its
\* creation, or there was no listing.
Overlapped(v) == \E i \in versions[v].base + 1 .. v - 1 : IsUpload(i)

\* Deployments stay reachable: a new version knows the versions before it that
\* are recent enough, as many as are to be kept, unless commands overlapped or
\* a version without a mapping came between.
Retained ==
    \A v \in DOMAIN versions : \A w \in Window(v) :
        \/ \E u \in w .. v : versions[u].mapping = NoMapping
        \/ \E u \in w + 1 .. v : IsUpload(u) /\ Overlapped(u)
        \/ versions[w].id \in DOMAIN versions[v].mapping /\ versions[v].mapping[versions[w].id] = w
=============================================================================
