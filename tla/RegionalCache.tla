---------------------------- MODULE RegionalCache ----------------------------
(***************************************************************************)
(* An entry of the incremental cache: a store shared by every colo (an R2  *)
(* bucket, a KV namespace or static assets), behind the regional cache     *)
(* that withRegionalCache() keeps with the Cache API of each colo.         *)
(*                                                                         *)
(* Writes go to the store and then to the cache of the writer's colo; the  *)
(* caches of the other colos, and what waitUntil() puts after an answer,   *)
(* lag behind.  A revalidation of a tag of the entry, and the purge of the *)
(* caches that may follow, are single steps here.                          *)
(*                                                                         *)
(* An entry has a type; delete() only deletes entries of type "cache", and *)
(* the entry followed here is one.                                         *)
(***************************************************************************)
EXTENDS Naturals, Sequences, FiniteSets

CONSTANTS
    Colos,
    Ops, ColoOf,        \* calls of set() and delete(), each made once
    Gets, GetColo,      \* calls of get(), each made once
    Build,              \* the value of the build
    None,
    Configs,            \* configurations to consider
    Revalidate,         \* value.revalidate of each value, 0 when it is false
    ShortTtl, LongTtl,  \* a minute; defaultLongLivedTtlSec or 30 minutes
    WorkLimit,          \* how long the platform lets work go on after an answer
    KVLag,              \* how long a colo of KV may answer what was overwritten
    MaxTime,            \* bound: the clock stops here
    MaxErrors           \* bound: calls of the store and the caches that fail

Values == Ops \cup {Build}

\* What the constructor reads: Options, globalThis.nextVersion and
\* isPurgeCacheEnabled(); the store it wraps; the tags of the entry, if it has any.
Config == [store : {"r2", "kv", "static"}, mode : {"short-lived", "long-lived"},
           next16 : BOOLEAN, purge : BOOLEAN, lazy : BOOLEAN \cup {None},
           bypass : BOOLEAN \cup {None}, tags : SUBSET {"tag"} \cup {None}]

ASSUME ConstantsAssumption ==
    /\ ColoOf \in [Ops -> Colos] /\ GetColo \in [Gets -> Colos]
    /\ Configs \subseteq Config
    /\ Revalidate \in [Values -> Nat]
    /\ {ShortTtl, LongTtl, WorkLimit, KVLag, MaxTime, MaxErrors} \subseteq Nat
    /\ Build \notin Ops /\ None \notin Values \cup Nat \cup BOOLEAN

VARIABLES
    config,
    now,
    stored,         \* what the store has held: the last one is what it holds
    cached,         \* the regional cache of each colo
    op, doing,      \* where each set() or delete() is, and which it is
    since,          \* when it wrote the store
    get,            \* where each get() is
    works,          \* refreshes and puts left to waitUntil()
    tagAt,          \* when a tag of the entry was last revalidated, 0 for never
    purgedAt,       \* when the caches were purged after that
    purged,         \* of which tag
    errors,
    failed,         \* history: calls of set() and delete() that met an error
    late            \* history: colos where what was put last was superseded already

writing == <<op, doing, since, failed>>
tagging == <<tagAt, purgedAt, purged>>
vars == <<config, now, stored, cached, writing, get, works, tagging, errors, late>>

Stored == [by : Values, value : Values \cup {None}, at : Nat, written : Nat]
Entry == [value : Values, at : Nat]
Cached == [value : Values, at : Nat, until : Nat, put : Nat]
Work == [by : Gets, colo : Colos, entry : Entry \cup {None}, since : Nat]

\* What may be revalidated: a tag the entry may list, its key, or the path of a page
\* that shows it, of which nothing in the entry tells.
Purgeable == {"tag", "key", "path"}

TypeOK ==
    /\ config \in Configs
    /\ now \in Nat \ {0}                  \* 0 stands for never
    /\ stored \in Seq(Stored) /\ stored # <<>>
    /\ cached \in [Colos -> Cached \cup {None}]
    /\ op \in [Ops -> {"idle", "stored", "done"}]
    /\ doing \in [Ops -> {"set", "delete"}]
    /\ since \in [Ops -> Nat]
    /\ get \in [Gets -> {"idle", "done"}]
    /\ works \subseteq Work
    /\ tagAt \in Nat /\ purgedAt \in Nat /\ purged \in Purgeable \cup {None}
    /\ errors \in Nat
    /\ failed \subseteq Ops
    /\ late \subseteq Colos

Init ==
    /\ config \in Configs
    /\ now = 1
    /\ stored = <<[by |-> Build, value |-> Build, at |-> 1, written |-> 1]>>
    /\ cached = [c \in Colos |-> None]
    /\ op = [s \in Ops |-> "idle"] /\ doing = [s \in Ops |-> "set"]
    /\ since = [s \in Ops |-> 0]
    /\ get = [g \in Gets |-> "idle"]
    /\ works = {}
    /\ tagAt = 0 /\ purgedAt = 0 /\ purged = None
    /\ errors = 0
    /\ failed = {} /\ late = {}

-----------------------------------------------------------------------------
(* Options.                                                                *)

\* ??=
Default(chosen, otherwise) == IF chosen = None THEN otherwise ELSE chosen

Bypass == Default(config.bypass, IF config.next16 THEN FALSE ELSE config.purge)

Lazy == Default(config.lazy, IF config.next16 THEN ~Bypass
                             ELSE config.mode = "long-lived" /\ ~config.purge)

\* Slip: revalidate: false is taken for no expiration.
TtlForever(v) ==
    IF config.mode = "short-lived" THEN ShortTtl
    ELSE IF Revalidate[v] # 0 THEN Revalidate[v] ELSE MaxTime

\* The max-age of putToCache(), in both modes.
TtlOf(v) ==
    IF config.mode = "short-lived" THEN ShortTtl
    ELSE IF Revalidate[v] # 0 THEN Revalidate[v] ELSE LongTtl

\* Slip: entries without tags get no cache-tag header.
OnlyTagged == Default(config.tags, {})

\* The cache-tag header: the tags of the entry, which may be an empty list, or its
\* key when it has no list.
CacheTag == Default(config.tags, {"key"})

-----------------------------------------------------------------------------
(* The store.                                                              *)

Held == stored[Len(stored)]

\* R2 answers what it holds; so do assets, which nobody writes; KV may still
\* answer, elsewhere, what was overwritten.
Readable ==
    IF config.store # "kv" THEN {Held}
    ELSE {stored[i] : i \in {j \in 1 .. Len(stored) :
                                j < Len(stored) => now < stored[j + 1].written + KVLag}}

\* Slip: the copy is dated, not the value.
DatedNow(e) == [value |-> e.value, at |-> now]

\* What get() returns, with lastModified.
EntryOf(e) == [value |-> e.value, at |-> e.at]

\* Slip: what the store answers is put though it has nothing.
AnyAnswer(e) == TRUE

HasValue(e) == e.value # None

\* The store holds something else by now.
Superseded(v) == \E i \in 1 .. Len(stored) - 1 : stored[i].value = v

-----------------------------------------------------------------------------
(* The regional cache.                                                     *)

Put(c, e) ==
    /\ cached' = [cached EXCEPT ![c] = [value |-> e.value, at |-> e.at,
                                        until |-> now + TtlOf(e.value), put |-> now]]
    /\ late' = IF Superseded(e.value) THEN late \cup {c} ELSE late \ {c}

Hit(c) == cached[c] # None /\ now < cached[c].until

Fail == errors < MaxErrors /\ errors' = errors + 1

-----------------------------------------------------------------------------
(* set() and delete().                                                     *)

Wrote(s, what) ==
    /\ op[s] = "idle"
    /\ op' = [op EXCEPT ![s] = "stored"]
    /\ doing' = [doing EXCEPT ![s] = what]
    /\ since' = [since EXCEPT ![s] = now]

\* R2 dates the value itself; KV is given the date at which the call was made.
Dates == IF config.store = "kv" THEN {now - 1, now} \ {0} ELSE {now}

\* The store is written.
Store(s, what) ==
    \E date \in Dates :
        /\ config.store # "static"
        /\ Wrote(s, what)
        /\ stored' = Append(stored, [by |-> s, value |-> IF what = "set" THEN s ELSE None,
                                     at |-> date, written |-> now])
        /\ UNCHANGED <<config, now, cached, failed, get, works, tagging, errors, late>>

\* put() or delete() fails, which is logged; the caller goes on.
StoreFails(s, what) ==
    /\ config.store # "static" /\ Fail
    /\ Wrote(s, what)
    /\ failed' = failed \cup {s}
    /\ UNCHANGED <<config, now, stored, cached, get, works, tagging, late>>

\* So does it when static assets, which are read-only, are written.
ReadOnly(s, what) ==
    /\ config.store = "static"
    /\ Wrote(s, what)
    /\ failed' = failed \cup {s}
    /\ UNCHANGED <<config, now, stored, cached, get, works, tagging, errors, late>>

Ended(s) ==
    /\ op' = [op EXCEPT ![s] = "done"]
    /\ since' = [since EXCEPT ![s] = 0]
    /\ UNCHANGED <<config, now, stored, doing, get, works, tagging>>

\* Slip: RegionalCache goes on when the store throws.
ThrowIgnored(s, what) == Wrote(s, what) /\ UNCHANGED <<failed, late>>

\* There is no binding: the store throws, and RegionalCache goes no further.
Thrown(s, what) ==
    /\ op[s] = "idle"
    /\ op' = [op EXCEPT ![s] = "done"]
    /\ failed' = failed \cup {s}
    /\ UNCHANGED <<doing, since, late>>

StoreThrows(s, what) ==
    /\ Fail
    /\ Thrown(s, what)
    /\ UNCHANGED <<config, now, stored, cached, get, works, tagging>>

\* Slip: delete() leaves the regional cache alone.
DeleteNothing(c) == UNCHANGED <<cached, late>>

Delete(c) == cached' = [cached EXCEPT ![c] = None] /\ late' = late \ {c}

\* The store has answered, at a time that Date.now() gives, then the Cache API.
Finish(s) ==
    \E date \in since[s] .. now :
        /\ op[s] = "stored"
        /\ IF doing[s] = "set" THEN Put(ColoOf[s], [value |-> s, at |-> date])
           ELSE Delete(ColoOf[s])
        /\ Ended(s)
        /\ UNCHANGED <<failed, errors>>

\* The Cache API fails, which is logged.
FinishFails(s) ==
    /\ op[s] = "stored"
    /\ Fail
    /\ Ended(s)
    /\ failed' = failed \cup {s}
    /\ UNCHANGED <<cached, late>>

-----------------------------------------------------------------------------
(* get().                                                                  *)

Got(g) == get[g] = "idle" /\ get' = [get EXCEPT ![g] = "done"]

\* A hit: a refresh is left to waitUntil().
Match(g) ==
    /\ Got(g)
    /\ Hit(GetColo[g])
    /\ works' = IF Lazy
                THEN works \cup {[by |-> g, colo |-> GetColo[g], entry |-> None, since |-> now]}
                ELSE works
    /\ UNCHANGED <<config, now, stored, cached, writing, tagging, errors, late>>

\* A miss, the entry may have been evicted: the store answers; what it has is put
\* in the regional cache after the answer.
Read(g) ==
    \E e \in Readable :
        /\ Got(g)
        /\ works' = IF ~HasValue(e) THEN works
                    ELSE works \cup {[by |-> g, colo |-> GetColo[g], entry |-> EntryOf(e),
                                      since |-> now]}
        /\ UNCHANGED <<config, now, stored, cached, writing, tagging, errors, late>>

\* The store, or the regional cache, fails: get() returns null.
ReadFails(g) ==
    /\ Got(g) /\ Fail
    /\ UNCHANGED <<config, now, stored, cached, writing, works, tagging, late>>

-----------------------------------------------------------------------------
(* What is left to waitUntil().                                            *)

\* The store answers a refresh: nothing is put, nor deleted, when it has no value.
Refresh(w) ==
    \E e \in Readable :
        /\ w \in works /\ w.entry = None
        /\ works' = (works \ {w}) \cup
                    {[w EXCEPT !.entry = EntryOf(x)] : x \in {y \in {e} : HasValue(y)}}
        /\ UNCHANGED <<config, now, stored, cached, writing, get, tagging, errors, late>>

PutWork(w) ==
    /\ w \in works /\ w.entry # None
    /\ works' = works \ {w}
    /\ Put(w.colo, w.entry)
    /\ UNCHANGED <<config, now, stored, writing, get, tagging, errors>>

\* It fails, or the platform cancels it.
DropWork(w) ==
    /\ w \in works
    /\ works' = works \ {w}
    /\ UNCHANGED <<config, now, stored, cached, writing, get, tagging, errors, late>>

-----------------------------------------------------------------------------
(* Revalidations and time.                                                 *)

\* revalidateTag() has written a tag of the entry.
RevalidateTag ==
    /\ tagAt = 0
    /\ tagAt' = now
    /\ UNCHANGED <<config, now, stored, cached, writing, get, works, purgedAt, purged, errors,
                   late>>

\* purgeCacheByTags(), of the tag that was revalidated: the caches of the zone lose
\* what has it in its header.
Purge(tag) ==
    /\ tagAt > 0 /\ purgedAt = 0 /\ config.purge
    /\ purgedAt' = now /\ purged' = tag
    /\ IF tag \in CacheTag
       THEN cached' = [c \in Colos |-> None] /\ late' = {}
       ELSE UNCHANGED <<cached, late>>
    /\ UNCHANGED <<config, now, stored, writing, get, works, tagAt, errors>>

Tick ==
    /\ now < MaxTime
    /\ \A w \in works : now < w.since + WorkLimit
    /\ \A s \in Ops : op[s] = "stored" => now < since[s] + WorkLimit
    /\ now' = now + 1
    /\ cached' = [c \in Colos |-> IF cached[c] # None /\ now + 1 < cached[c].until THEN cached[c] ELSE None]
    /\ late' = {c \in late : cached'[c] # None}
    /\ UNCHANGED <<config, stored, writing, get, works, tagging, errors>>

-----------------------------------------------------------------------------
Next ==
    \/ \E s \in Ops, what \in {"set", "delete"} :
            Store(s, what) \/ StoreFails(s, what) \/ ReadOnly(s, what) \/ StoreThrows(s, what)
    \/ \E s \in Ops : Finish(s) \/ FinishFails(s)
    \/ \E g \in Gets : Match(g) \/ Read(g) \/ ReadFails(g)
    \/ \E w \in works : Refresh(w) \/ PutWork(w) \/ DropWork(w)
    \/ RevalidateTag \/ (\E tag \in Purgeable : Purge(tag)) \/ Tick

Spec == Init /\ [][Next]_vars

-----------------------------------------------------------------------------
(* What has to hold.                                                       *)

LongestTtl(v) ==
    IF config.mode = "short-lived" THEN ShortTtl
    ELSE IF Revalidate[v] > LongTtl THEN Revalidate[v] ELSE LongTtl

StoreLag == IF config.store = "kv" THEN KVLag ELSE 0

\* No regional cache answers what the store was overwritten with, or deleted,
\* longer ago than the store may answer it, a put may be delayed and the entry
\* may be kept.
BoundedStaleness ==
    \A c \in Colos : \A i \in 1 .. Len(stored) - 1 :
        Hit(c) /\ cached[c].value = stored[i].value =>
            now < stored[i + 1].written + StoreLag + WorkLimit + LongestTtl(stored[i].value)

\* Once a set() or delete() has returned without error, the regional cache of
\* its colo holds nothing older, but for what was put late: read from the store,
\* or written to it, before that call wrote it.
OwnColoClean ==
    \A s \in Ops \ failed : \A i, j \in 1 .. Len(stored) :
        /\ op[s] = "done" /\ stored[j].by = s /\ i < j
        /\ Hit(ColoOf[s]) /\ stored[i].value = cached[ColoOf[s]].value
        => ColoOf[s] \in late

\* A regional cache holds a value the store never held only after the store
\* failed to write it: other colos never see that value.
PhantomsAreFailures ==
    \A c \in Colos :
        Hit(c) => \/ \E i \in 1 .. Len(stored) : stored[i].value = cached[c].value
                  \/ cached[c].value \in failed

Outdated(e) == tagAt > e.at

\* A regional cache has an entry for fresh that the store has for outdated only
\* if the tag was revalidated while the entry was being written.
AgreeOnTags ==
    \A c \in Colos : \A i \in 1 .. Len(stored) :
        /\ Hit(c) /\ stored[i].value = cached[c].value
        /\ Outdated(stored[i]) /\ ~Outdated(cached[c])
        => tagAt <= stored[i].written + WorkLimit

\* How old what a regional cache holds may be, elsewhere and where it was written.
Recency == BoundedStaleness /\ OwnColoClean

\* What it holds comes from the store, with its date.
Provenance == PhantomsAreFailures /\ AgreeOnTags

\* Tags an entry can be purged by: those it lists, or its key when it has no list.
Own(tag) == IF config.tags = None THEN tag = "key" ELSE tag \in config.tags

\* When an entry has been purged, no colo answers what the store had overwritten or
\* deleted, or had failed to write, longer before than the store may still answer
\* it and a put may be delayed: no late put brings it back.  Where hits bypass the
\* tag cache, nothing else would tell that it is outdated.
PurgedIsGone ==
    \A c \in Colos : purgedAt > 0 /\ Own(purged) /\ Hit(c) =>
        /\ \A i \in 1 .. Len(stored) - 1 :
            stored[i].value = cached[c].value =>
                purgedAt <= stored[i + 1].written + StoreLag + WorkLimit
        /\ \/ \E i \in 1 .. Len(stored) : stored[i].value = cached[c].value
           \/ purgedAt <= cached[c].at + WorkLimit
==============================================================================
