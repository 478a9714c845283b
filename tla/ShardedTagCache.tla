--------------------------- MODULE ShardedTagCache ---------------------------
(***************************************************************************)
(* The sharded tag cache: ShardedDOTagCache, run by the workers, over      *)
(* DOShardedTagCache, the durable objects that keep the tags of a shard.   *)
(* A shard is replicated; writes go to every replica, reads to one, with a *)
(* regional cache (the Cache API of a colo) and a cache of the request in  *)
(* front.                                                                  *)
(*                                                                         *)
(* Of the data of a tag the model keeps revalidatedAt, the time of the     *)
(* write, 0 for a tag without a row: TagData models what is decided from   *)
(* it.  A durable object answers a call in one step; every call, and every *)
(* operation of the Cache API, is an await.                                *)
(***************************************************************************)
EXTENDS Naturals, FiniteSets

CONSTANTS
    Tags, Shards, ShardOf,      \* the shard of a tag
    Replicas,                   \* replicas of a shard, in all regions
    Colos,
    Writers, WriterColo,        \* calls of writeTags(), each made once
    Checks,                     \* calls of #resolveTagData(), each made once
    Requests, RequestOf,        \* the request a check is part of
    RequestColo,
    None,
    Options,                    \* what opts may be: Opts below
    Ttl,                        \* opts.regionalCacheTtlSec
    MaxWriteRetries,            \* opts.maxWriteRetries
    PutDelay,                   \* how long the platform lets a waitUntil() run
    MaxTime,                    \* bound: the clock stops here
    MaxErrors                   \* bound: failed reads of objects and deletions from caches

Objects == Shards \X Replicas
ShardTags(d) == {t \in Tags : ShardOf[t] = d[1]}

\* A shard has at least one replica.
ASSUME DataAssumption ==
    /\ Replicas # {}
    /\ ShardOf \in [Tags -> Shards]
    /\ WriterColo \in [Writers -> Colos]
    /\ RequestOf \in [Checks -> Requests]
    /\ RequestColo \in [Requests -> Colos]

\* ShardedDOTagCacheOptions
Opts == [regionalCache : BOOLEAN, regionalCacheDangerouslyPersistMissingTags : BOOLEAN]

Entry == [at : Nat, until : Nat]

ASSUME NoneAssumption == None \notin Nat \cup Entry

ASSUME ConfigAssumption ==
    /\ Options \subseteq Opts
    /\ {Ttl, MaxWriteRetries, PutDelay, MaxTime, MaxErrors} \subseteq Nat

VARIABLES
    opts,       \* the options of the cache, fixed
    now,
    rows,       \* table revalidations of each object
    cached,     \* the regional cache of each colo
    writer,     \* where each writeTags() is
    tags,       \* the tags it writes
    time,       \* nowMs
    call,       \* its call of each object
    retry,      \* retryNumber of that call
    check,      \* where each #resolveTagData() is
    unmatched,  \* the tags it has not looked up in the regional cache yet
    remembered, \* what it has taken from the cache of its request
    wanted,     \* the tags it has no value of yet
    fetched,    \* what it has fetched
    memo,       \* do-sharded:tagItems, the cache of each request
    puts,       \* calls of putToRegionalCache() left to waitUntil()
    errors,     \* such failures so far
    doneAt,     \* history: when writeTags() returned
    floor,      \* history: the writes a check must see
    requestFloor,   \* history: those the first check of a request had to see
    regressed,  \* history: rows an older write has overwritten
    unread,     \* history: tags an object could not read
    leftover    \* history: entries put though every replica had a newer row, or not deleted

writing == <<writer, tags, time, call, retry, doneAt>>
started == <<remembered, floor, requestFloor>>
reading == <<check, unmatched, wanted, fetched, memo, started>>
regional == <<cached, puts, leftover>>
objects == <<rows, regressed>>
vars == <<opts, now, objects, regional, writing, reading, errors, unread>>

Calls == {"none", "sent", "applied", "succeeded", "done", "dead"}

TypeOK ==
    /\ opts \in Options
    /\ now \in Nat
    /\ rows \in [Objects -> [Tags -> Nat]]
    /\ cached \in [Colos -> [Tags -> Entry \cup {None}]]
    /\ writer \in [Writers -> {"idle", "writing", "done"}]
    /\ tags \in [Writers -> SUBSET Tags]
    /\ time \in [Writers -> Nat]
    /\ call \in [Writers -> [Objects -> Calls]]
    /\ retry \in [Writers -> [Objects -> 0 .. MaxWriteRetries]]
    /\ check \in [Checks -> {"idle", "asking", "done", "failed"}]
    /\ unmatched \in [Checks -> SUBSET Tags]
    /\ remembered \in [Checks -> [Tags -> Nat \cup {None}]]
    /\ wanted \in [Checks -> SUBSET Tags]
    /\ fetched \in [Checks -> [Tags -> Nat \cup {None}]]
    /\ memo \in [Requests -> [Tags -> Nat \cup {None}]]
    /\ puts \subseteq [colo : Colos, tag : Tags, at : Nat, since : Nat]
    /\ errors \in Nat
    /\ doneAt \in [Writers -> Nat \cup {None}]
    /\ floor \in [Checks -> [Tags -> Nat]]
    /\ requestFloor \in [Requests -> [Tags -> Nat]]
    /\ regressed \subseteq Objects \X Tags
    /\ unread \subseteq Tags
    /\ leftover \subseteq Colos \X Tags

\* Clocks of the system start at 1: 0 is "never revalidated".
Init ==
    /\ opts \in Options
    /\ now = 1
    /\ rows = [d \in Objects |-> [t \in Tags |-> 0]]
    /\ cached = [c \in Colos |-> [t \in Tags |-> None]]
    /\ writer = [w \in Writers |-> "idle"]
    /\ tags = [w \in Writers |-> {}]
    /\ time = [w \in Writers |-> 0]
    /\ call = [w \in Writers |-> [d \in Objects |-> "none"]]
    /\ retry = [w \in Writers |-> [d \in Objects |-> 0]]
    /\ check = [k \in Checks |-> "idle"]
    /\ unmatched = [k \in Checks |-> {}]
    /\ remembered = [k \in Checks |-> [t \in Tags |-> None]]
    /\ wanted = [k \in Checks |-> {}]
    /\ fetched = [k \in Checks |-> [t \in Tags |-> None]]
    /\ memo = [r \in Requests |-> [t \in Tags |-> None]]
    /\ puts = {}
    /\ errors = 0
    /\ doneAt = [w \in Writers |-> None]
    /\ floor = [k \in Checks |-> [t \in Tags |-> 0]]
    /\ requestFloor = [r \in Requests |-> [t \in Tags |-> 0]]
    /\ regressed = {}
    /\ unread = {}
    /\ leftover = {}

-----------------------------------------------------------------------------
(* writeTags(tags): one call per shard and replica, retried.               *)

\* Slip: the groups of a read, one replica of each shard.
OneReplicaOf(ts) ==
    {d \in Objects : ShardTags(d) \cap ts # {} /\ d[2] = CHOOSE r \in Replicas : TRUE}

\* groupTagsByDO({ tags, generateAllReplicas: true })
GroupsOf(ts) == {d \in Objects : ShardTags(d) \cap ts # {}}

Group(w, d) == tags[w] \cap ShardTags(d)

\* isDisabled is left out: a disabled cache has no state.
WriteTags(w, ts) ==
    /\ writer[w] = "idle"
    /\ writer' = [writer EXCEPT ![w] = "writing"]
    /\ tags' = [tags EXCEPT ![w] = ts]
    /\ time' = [time EXCEPT ![w] = now]
    /\ call' = [call EXCEPT ![w] =
                    [d \in Objects |-> IF d \in GroupsOf(ts) THEN "sent" ELSE "none"]]
    /\ UNCHANGED <<opts, now, objects, regional, retry, doneAt, reading, errors, unread>>

SetCall(w, d, state) == call' = [call EXCEPT ![w][d] = state]

\* DOShardedTagCache.writeTags(): INSERT OR REPLACE, whatever the row holds.
Apply(w, d) ==
    /\ call[w][d] = "sent"
    /\ SetCall(w, d, "applied")
    /\ rows' = [rows EXCEPT ![d] =
                    [t \in Tags |-> IF t \in Group(w, d) THEN time[w] ELSE rows[d][t]]]
    /\ regressed' = regressed \cup
                    {<<d, t>> : t \in {u \in Group(w, d) : rows[d][u] > time[w]}}
    /\ UNCHANGED <<opts, now, regional, writer, tags, time, retry, doneAt, reading, errors,
                   unread>>

Succeed(w, d) ==
    /\ call[w][d] = "applied"
    /\ SetCall(w, d, "succeeded")
    /\ UNCHANGED <<opts, now, objects, regional, writer, tags, time, retry, doneAt, reading,
                   errors,
                   unread>>

\* Slip: > where the code has >=.
OneTooMany(w, d) == retry[w][d] > MaxWriteRetries

TooManyRetries(w, d) == retry[w][d] >= MaxWriteRetries

\* Slip: retryNumber is not incremented.
SameRetryNumber(w, d) == UNCHANGED retry

NextRetryNumber(w, d) == retry' = [retry EXCEPT ![w][d] = @ + 1]

\* The call fails, applied or not: it is made again, or its tags are sent to
\* the dead letter queue.
Fail(w, d) ==
    /\ call[w][d] \in {"sent", "applied"}
    /\ IF TooManyRetries(w, d)
       THEN SetCall(w, d, "dead") /\ UNCHANGED retry
       ELSE SetCall(w, d, "sent") /\ NextRetryNumber(w, d)
    /\ UNCHANGED <<opts, now, objects, regional, writer, tags, time, doneAt, reading, errors,
                   unread>>

\* deleteRegionalCache(), in the colo of the writer.
DeleteRegional(w, d) ==
    /\ call[w][d] = "succeeded"
    /\ SetCall(w, d, "done")
    /\ cached' = [cached EXCEPT ![WriterColo[w]] =
                    [t \in Tags |-> IF t \in Group(w, d) THEN None ELSE @[t]]]
    /\ leftover' = leftover \ ({WriterColo[w]} \X Group(w, d))
    /\ UNCHANGED <<opts, now, objects, puts, writer, tags, time, retry, doneAt, reading, errors,
                   unread>>

\* "We never want to crash because of the cache": an error is ignored, with the
\* entries of some of the tags deleted.
DeleteFails(w, d) ==
    /\ call[w][d] = "succeeded"
    /\ opts.regionalCache
    /\ errors < MaxErrors
    /\ errors' = errors + 1
    /\ SetCall(w, d, "done")
    /\ \E kept \in SUBSET Group(w, d) \ {{}} :
        /\ cached' = [cached EXCEPT ![WriterColo[w]] =
                        [t \in Tags |-> IF t \in Group(w, d) \ kept THEN None ELSE @[t]]]
        /\ leftover' = (leftover \ ({WriterColo[w]} \X Group(w, d)))
                            \cup ({WriterColo[w]} \X kept)
    /\ UNCHANGED <<opts, now, objects, puts, writer, tags, time, retry, doneAt,
                   reading, unread>>

\* Slip: the deletion from the regional cache is not awaited.
SettledBeforeDelete(w, d) == call[w][d] \in {"succeeded", "done", "dead"}

Settled(w, d) == call[w][d] \in {"done", "dead"}

\* The Promise.all of the groups resolves.  The purge of the CDN that may follow
\* is that of BucketCachePurge.
WriteReturns(w) ==
    /\ writer[w] = "writing"
    /\ \A d \in GroupsOf(tags[w]) : Settled(w, d)
    /\ writer' = [writer EXCEPT ![w] = "done"]
    /\ doneAt' = [doneAt EXCEPT ![w] = now]
    /\ UNCHANGED <<opts, now, objects, regional, tags, time, call, retry, reading, errors,
                   unread>>

-----------------------------------------------------------------------------
(* #resolveTagData(tags): the request's cache, the regional cache, then one *)
(* replica of each shard.                                                  *)

Dead(w, t) == \E d \in Objects : t \in ShardTags(d) /\ call[w][d] = "dead"

\* How long a revalidation may take to be seen.
Lag == IF opts.regionalCache THEN Ttl + PutDelay ELSE 0

Visible(t) ==
    {w \in Writers : t \in tags[w] /\ writer[w] = "done" /\ ~Dead(w, t) /\ doneAt[w] + Lag <= now}

Latest(times) == CHOOSE x \in times \cup {0} : \A y \in times : y <= x

\* Slip: the cache is that of the isolate, whatever the request.
MemoOfIsolate(k) ==
    [t \in Tags |-> IF \A r \in Requests : memo[r][t] = None THEN None
                    ELSE memo[CHOOSE r \in Requests : memo[r][t] # None][t]]

MemoOf(k) == memo[RequestOf[k]]

\* The latest write of each tag that has to be seen by now.
SeenByNow == [t \in Tags |-> Latest({time[w] : w \in Visible(t)})]

FirstOfRequest(k) == \A j \in Checks : RequestOf[j] = RequestOf[k] => check[j] = "idle"

StartCheck(k, ts) ==
    LET uncached == {t \in ts : MemoOf(k)[t] = None}
    IN  /\ check[k] = "idle"
        /\ remembered' = [remembered EXCEPT ![k] =
                            [t \in Tags |-> IF t \in ts THEN MemoOf(k)[t] ELSE None]]
        /\ wanted' = [wanted EXCEPT ![k] = uncached]
        /\ unmatched' = [unmatched EXCEPT ![k] = IF opts.regionalCache THEN uncached ELSE {}]
        /\ check' = [check EXCEPT ![k] = IF uncached = {} THEN "done" ELSE "asking"]
        /\ floor' = [floor EXCEPT ![k] = SeenByNow]
        /\ requestFloor' = IF FirstOfRequest(k)
                           THEN [requestFloor EXCEPT ![RequestOf[k]] = SeenByNow]
                           ELSE requestFloor
        /\ UNCHANGED <<opts, now, objects, regional, writing, fetched, memo, errors, unread>>

\* Values are received for some of the tags wanted.
Receive(k, ts, values) ==
    /\ wanted' = [wanted EXCEPT ![k] = @ \ ts]
    /\ fetched' = [fetched EXCEPT ![k] = [t \in Tags |-> IF t \in ts THEN values[t] ELSE @[t]]]

\* Slip: an entry is used whatever its age.
AnyHit(c, t) == cached[c][t] # None

Hit(c, t) == cached[c][t] # None /\ now < cached[c][t].until

\* The groups of a check go on though another has failed.
Resolving(k) == check[k] \in {"asking", "failed"}

\* getFromRegionalCache(), of one tag.
MatchRegional(k, t) ==
    LET colo == RequestColo[RequestOf[k]]
    IN  /\ Resolving(k)
        /\ t \in unmatched[k]
        /\ Hit(colo, t)
        /\ unmatched' = [unmatched EXCEPT ![k] = @ \ {t}]
        /\ Receive(k, {t}, [u \in {t} |-> cached[colo][u].at])
        /\ UNCHANGED <<opts, now, objects, regional, writing, check, memo, started, errors,
                       unread>>

\* The cache has nothing, has evicted it or fails.
MissRegional(k, t) ==
    /\ Resolving(k)
    /\ t \in unmatched[k]
    /\ unmatched' = [unmatched EXCEPT ![k] = @ \ {t}]
    /\ UNCHANGED <<opts, now, objects, regional, writing, check, wanted, fetched, memo, started,
                   errors,
                   unread>>

\* What waitUntil(putToRegionalCache(...)) is left to put: rows, and the
\* sentinel for missing ones if missing tags are persisted.
PutsOf(k, ts, values) ==
    LET put == {t \in ts : values[t] # 0 \/ opts.regionalCacheDangerouslyPersistMissingTags}
    IN  {[colo |-> RequestColo[RequestOf[k]], tag |-> t, at |-> values[t], since |-> now] :
            t \in {u \in put : opts.regionalCache}}

\* The tags a replica is asked for, once the regional cache has been.
Remaining(k, d) ==
    IF Resolving(k) /\ unmatched[k] \cap ShardTags(d) = {} THEN wanted[k] \cap ShardTags(d) ELSE {}

\* One replica of the shard answers getTagData().
Ask(k, d) ==
    LET ts == Remaining(k, d)
    IN  /\ ts # {}
        /\ Receive(k, ts, rows[d])
        /\ puts' = puts \cup PutsOf(k, ts, rows[d])
        /\ UNCHANGED <<opts, now, objects, cached, leftover, writing, check, unmatched, memo,
                       started, errors,
                       unread>>

\* It cannot read its table, and answers that the tags have no row.
AskInError(k, d) ==
    LET ts == Remaining(k, d)
        nothing == [t \in Tags |-> 0]
    IN  /\ ts # {}
        /\ errors < MaxErrors
        /\ errors' = errors + 1
        /\ unread' = unread \cup ts
        /\ Receive(k, ts, nothing)
        /\ puts' = puts \cup PutsOf(k, ts, nothing)
        /\ UNCHANGED <<opts, now, objects, cached, leftover, writing, check, unmatched, memo,
                       started>>

\* The call of the object fails: the check answers "not revalidated", and
\* nothing is kept for the request.
CheckFails(k, d) ==
    /\ Remaining(k, d) # {}
    /\ errors < MaxErrors
    /\ errors' = errors + 1
    /\ check' = [check EXCEPT ![k] = "failed"]
    /\ wanted' = [wanted EXCEPT ![k] = @ \ Remaining(k, d)]
    /\ UNCHANGED <<opts, now, objects, regional, writing, unmatched, fetched, memo, started,
                   unread>>

\* Every group has answered: the values are kept for the request.
FinishCheck(k) ==
    /\ check[k] = "asking"
    /\ wanted[k] = {}
    /\ check' = [check EXCEPT ![k] = "done"]
    /\ memo' = [memo EXCEPT ![RequestOf[k]] =
                    [t \in Tags |-> IF fetched[k][t] # None THEN fetched[k][t] ELSE @[t]]]
    /\ UNCHANGED <<opts, now, objects, regional, writing, unmatched, wanted, fetched, started,
                   errors,
                   unread>>

-----------------------------------------------------------------------------
(* The regional cache and the clock.                                       *)

Outdated(p) == \A r \in Replicas : rows[<<ShardOf[p.tag], r>>][p.tag] > p.at

\* putToRegionalCache() puts what the object answered.
PutRegional(p) ==
    /\ p \in puts
    /\ puts' = puts \ {p}
    /\ cached' = [cached EXCEPT ![p.colo][p.tag] = [at |-> p.at, until |-> now + Ttl]]
    /\ leftover' = IF Outdated(p) THEN leftover \cup {<<p.colo, p.tag>>}
                    ELSE leftover \ {<<p.colo, p.tag>>}
    /\ UNCHANGED <<opts, now, objects, writing, reading, errors, unread>>

\* The platform cancels it, or the cache refuses.
DropPut(p) ==
    /\ p \in puts
    /\ puts' = puts \ {p}
    /\ UNCHANGED <<opts, now, objects, cached, leftover, writing, reading, errors, unread>>

Tick ==
    /\ now < MaxTime
    /\ \A p \in puts : now < p.since + PutDelay
    /\ now' = now + 1
    /\ UNCHANGED <<opts, objects, regional, writing, reading, errors, unread>>

-----------------------------------------------------------------------------
Write(w, d) ==
    Apply(w, d) \/ Succeed(w, d) \/ Fail(w, d) \/ DeleteRegional(w, d) \/ DeleteFails(w, d)

Next ==
    \/ \E w \in Writers, ts \in SUBSET Tags \ {{}} : WriteTags(w, ts)
    \/ \E w \in Writers, d \in Objects : Write(w, d)
    \/ \E w \in Writers : WriteReturns(w)
    \/ \E k \in Checks, ts \in SUBSET Tags \ {{}} : StartCheck(k, ts)
    \/ \E k \in Checks, t \in Tags : MatchRegional(k, t) \/ MissRegional(k, t)
    \/ \E k \in Checks, d \in Objects : Ask(k, d) \/ AskInError(k, d) \/ CheckFails(k, d)
    \/ \E k \in Checks : FinishCheck(k)
    \/ \E p \in puts : PutRegional(p) \/ DropPut(p)
    \/ Tick

Spec == Init /\ [][Next]_vars

\* A call of an object answers or fails, the Cache API answers, and a
\* continuation runs.
Fairness == \A w \in Writers : /\ \A d \in Objects : WF_vars(Write(w, d))
                               /\ WF_vars(WriteReturns(w))

FairSpec == Spec /\ Fairness

-----------------------------------------------------------------------------
(* What has to hold.                                                       *)

\* When writeTags() has returned, every replica of every shard has the write, or
\* a newer one, for each of its tags: whichever replica is read, the tag is
\* seen as revalidated.  Except a replica whose call went to the dead letter
\* queue, and a row an older write has overwritten.
EveryReplicaHasIt ==
    \A w \in Writers, d \in Objects :
        writer[w] = "done" /\ call[w][d] # "dead" =>
            \A t \in Group(w, d) : rows[d][t] >= time[w] \/ <<d, t>> \in regressed

Intact(t) == \A d \in Objects : <<d, t>> \notin regressed

\* When writeTags() has returned, the regional cache of its own colo holds no
\* older value, but for one that a read before the write, or one in error, left to
\* be put after it, and one that could not be deleted.
WriterColoClean ==
    \A w \in Writers : \A t \in tags[w] :
        (writer[w] = "done" /\ ~Dead(w, t) /\ Intact(t) /\ Hit(WriterColo[w], t)) =>
            \/ cached[WriterColo[w]][t].at >= time[w]
            \/ <<WriterColo[w], t>> \in leftover

\* In any colo, what a check fetches shows every write that returned longer ago,
\* when the check began, than the regional cache may keep an older value: its TTL,
\* and the time a put may take; without regional cache, every write that returned.
\* What it takes from the cache of its request shows every write that was as old
\* when the request made its first check: a request may hide a write for as long as
\* it lasts, and from no other request.  A check that fails decides on no value at
\* all (it answers "not revalidated"), and is not bound.
SeenAfterLag ==
    \A k \in Checks, t \in Tags : Intact(t) /\ t \notin unread =>
        /\ fetched[k][t] # None => fetched[k][t] >= floor[k][t]
        /\ remembered[k][t] # None => remembered[k][t] >= requestFloor[RequestOf[k]][t]

\* writeTags() returns, after a bounded number of calls of each object.
WriteEnds == \A w \in Writers : writer[w] = "writing" ~> writer[w] = "done"
=============================================================================
