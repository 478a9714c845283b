---------------------------- MODULE TagFreshness ----------------------------
(***************************************************************************)
(* The life of tags in the three tag caches side by side, and in D1 behind *)
(* the filter of soft tags: the same writes at the same times, and what    *)
(* each cache decides, as time passes, of any set of tags and any page.  A *)
(* page is its lastModified.                                               *)
(***************************************************************************)
EXTENDS TagData

CONSTANTS
    Tags,
    SoftTags,       \* those that start with _N_T_
    MaxTime         \* bound: the clock, and every expire, stops here

ASSUME MaxTimeAssumption == MaxTime \in Nat \ {0}
ASSUME SoftTagsAssumption == SoftTags \subseteq Tags

VARIABLES
    now,
    sharded,    \* the rows of the durable objects
    d1,         \* the rows of the database
    kv,         \* the values of the KV namespace
    filtered,   \* the rows of a database behind withFilter()
    writtenAt   \* history: when each tag was written

values == <<sharded, d1, kv, filtered, writtenAt>>
vars == <<now, values>>

TypeOK ==
    /\ now \in Nat
    /\ sharded \in [Tags -> TagValue \cup {Null}]
    /\ d1 \in [Tags -> TagValue \cup {Null}]
    /\ kv \in [Tags -> TagValue \cup NumberValue \cup {Null}]
    /\ filtered \in [Tags -> TagValue \cup {Null}]
    /\ writtenAt \in [Tags -> Nat]

\* A tag was never written, or by a version older than the column `stale' and
\* than the filter.
Init ==
    /\ now = 1
    /\ writtenAt \in [Tags -> {0, 1}]
    /\ sharded = [t \in Tags |-> IF writtenAt[t] = 0 THEN Null ELSE UnmigratedRow(1)]
    /\ d1 = sharded /\ filtered = d1
    /\ kv = [t \in Tags |-> IF writtenAt[t] = 0 THEN Null ELSE [number |-> 1]]

\* The times a revalidation is given: it went stale by now, and expires later.
Inputs ==
    PlainInput \cup
    {input \in [plain : {FALSE}, stale : {Null} \cup 0 .. now, expire : {Null} \cup 0 .. MaxTime] :
        input.expire # Null => input.expire >= OrElse(input.stale, now)}

\* softTagFilter()
SoftTagFilter(t) == t \notin SoftTags

\* writeTags() of withFilter(): without a tag left nothing is written.
FilteredWrite(t, input) ==
    IF SoftTagFilter(t) THEN [filtered EXCEPT ![t] = D1Value(input, now)] ELSE filtered

Write(t, input, row) ==
    /\ sharded' = [sharded EXCEPT ![t] = row]
    /\ d1' = [d1 EXCEPT ![t] = D1Value(input, now)]
    /\ kv' = [kv EXCEPT ![t] = KVValue(input, now)]
    /\ filtered' = FilteredWrite(t, input)
    /\ writtenAt' = [writtenAt EXCEPT ![t] = now]
    /\ UNCHANGED now

\* writeTags() of the caches
WriteTag(t) == \E input \in Inputs : Write(t, input, ShardedValue(input, now))

\* ... by a worker that calls the durable object in the old format
WriteTagOldFormat(t) == \E input \in PlainInput : Write(t, input, OldFormatRow(now))

Tick ==
    /\ now < MaxTime
    /\ now' = now + 1
    /\ UNCHANGED values

Next == (\E t \in Tags : WriteTag(t) \/ WriteTagOldFormat(t)) \/ Tick

Spec == Init /\ [][Next]_vars

-----------------------------------------------------------------------------
(* What D1 and KV answer of tags and a page, each from what it stores.     *)

D1GetLastRevalidated(tags) == GetLastRevalidated(d1, tags)

D1HasBeenRevalidated(tags, page) == HasBeenRevalidated(d1, tags, page, now)

D1IsStale(tags, page) == IsStale(d1, tags, page, now)

KVValues == [t \in Tags |-> KVRead(kv[t])]

KVGetLastRevalidated(tags) == GetLastRevalidated(KVValues, tags)

KVHasBeenRevalidated(tags, page) == HasBeenRevalidated(KVValues, tags, page, now)

KVIsStale(tags, page) == IsStale(KVValues, tags, page, now)

\* Slip: a check passes every tag on.
EveryTag(tags) == tags

\* tags.filter(filterFn): when no tag is left the cache is not asked.
Filtered(tags) == {t \in tags : SoftTagFilter(t)}

FilteredGetLastRevalidated(tags) ==
    IF Filtered(tags) = {} THEN 0 ELSE GetLastRevalidated(filtered, Filtered(tags))

FilteredHasBeenRevalidated(tags, page) ==
    Filtered(tags) # {} /\ HasBeenRevalidated(filtered, Filtered(tags), page, now)

FilteredIsStale(tags, page) ==
    Filtered(tags) # {} /\ IsStale(filtered, Filtered(tags), page, now)

(* The verdict on a page, as the caller of the tag caches asks for it: is  *)
(* it to be discarded, and if not, is it stale?                            *)

Judge(revalidated, stale) ==
    IF revalidated THEN "revalidated" ELSE IF stale THEN "stale" ELSE "fresh"

Verdict(value, tags, page) ==
    Judge(HasBeenRevalidated(value, tags, page, now), IsStale(value, tags, page, now))

D1Verdict(tags, page) == Judge(D1HasBeenRevalidated(tags, page), D1IsStale(tags, page))

KVVerdict(tags, page) == Judge(KVHasBeenRevalidated(tags, page), KVIsStale(tags, page))

FilteredVerdict(tags, page) ==
    Judge(FilteredHasBeenRevalidated(tags, page), FilteredIsStale(tags, page))

Pages == 0 .. now

Age(verdict) == CASE verdict = "fresh" -> 0 [] verdict = "stale" -> 1 [] OTHER -> 2

\* The three caches decide the same of every page, even one without a time, and
\* The three caches decide the same of every page, even one without a time, and
\* find the same last revalidation, whatever versions wrote the tags.  Behind
\* the filter a cache decides as they do of the other tags alone, whatever was
\* written of the soft ones before it was put there.
CachesAgree ==
    \A tags \in SUBSET Tags :
        /\ D1GetLastRevalidated(tags) = GetLastRevalidated(sharded, tags)
        /\ KVGetLastRevalidated(tags) = GetLastRevalidated(sharded, tags)
        /\ FilteredGetLastRevalidated(tags) = GetLastRevalidated(sharded, tags \ SoftTags)
        /\ \A page \in Pages \cup {Null} :
            /\ D1Verdict(tags, page) = Verdict(sharded, tags, page)
            /\ KVVerdict(tags, page) = Verdict(sharded, tags, page)
            /\ FilteredVerdict(tags, page) = Verdict(sharded, tags \ SoftTags, page)

\* As time passes a page only ages, from fresh to stale to revalidated: nothing
\* but a write to its tags makes it younger.
PagesOnlyAge ==
    [][\A tags \in SUBSET Tags, page \in Pages :
        UNCHANGED values =>
            Age(Verdict(sharded, tags, page))' >= Age(Verdict(sharded, tags, page))]_vars

\* A page regenerated when, or after, its tags were written is fresh: no write
\* of an earlier cycle makes it stale.  Except that the expiry of a tag
\* discards the pages generated before it, those regenerated since included.
RegeneratedIsFresh ==
    \A tags \in SUBSET Tags, page \in Pages :
        (\A t \in tags : writtenAt[t] <= page) =>
            \/ Verdict(sharded, tags, page) = "fresh"
            \/ \E t \in tags : /\ sharded[t] # Null
                               /\ sharded[t].expire # Null
                               /\ page < sharded[t].expire /\ sharded[t].expire <= now

\* A page generated before one of its tags was revalidated is not fresh.
OutdatedIsNotFresh ==
    \A tags \in SUBSET Tags, page \in Pages :
        (\E t \in tags : sharded[t] # Null /\ page < sharded[t].revalidatedAt)
            => Verdict(sharded, tags, page) # "fresh"

\* The times of a cycle of writes, not those of an earlier one, decide of a page.
FreshWhenCurrent == RegeneratedIsFresh /\ OutdatedIsNotFresh
=============================================================================
