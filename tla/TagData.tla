------------------------------- MODULE TagData -------------------------------
(***************************************************************************)
(* What the three tag caches store for a tag and decide from it: the       *)
(* sharded durable objects, D1 and KV.  Each was written on its own, and   *)
(* KV keeps values of two formats.                                         *)
(*                                                                         *)
(* The times are those of Date.now(), in ms.  Null is null or undefined.   *)
(***************************************************************************)
EXTENDS Naturals

CONSTANT Null

ASSUME NullAssumption == Null \notin Nat

Time == Nat
MaybeTime == Nat \cup {Null}

\* TagData, D1TagValue and the new format of KVTagValue
TagValue == [revalidatedAt : Time, stale : MaybeTime, expire : MaybeTime]

\* The old format of KVTagValue
NumberValue == [number : Time]

ASSUME ValueAssumption == Null \notin TagValue \cup NumberValue

\* NextModeTagCacheWriteInput: a tag, or a tag with its times
PlainInput == [plain : {TRUE}]
TimedInput == [plain : {FALSE}, stale : MaybeTime, expire : MaybeTime]
WriteInput == PlainInput \cup TimedInput

\* value ?? default
OrElse(value, default) == IF value = Null THEN default ELSE value

Value(at, stale, expire) == [revalidatedAt |-> at, stale |-> stale, expire |-> expire]

-----------------------------------------------------------------------------
(* What a write stores.                                                    *)

\* ShardedDOTagCache.writeTags(): the input as it is sent to the objects
Normalized(input, now) ==
    IF input.plain THEN [stale |-> now, expire |-> Null]
    ELSE [stale |-> OrElse(input.stale, now), expire |-> input.expire]

\* DOShardedTagCache.writeTags(): the row of a normalized input
ObjectRow(entry, now) ==
    LET stale == OrElse(entry.stale, now) IN Value(stale, stale, entry.expire)

\* ... and that of the call of a worker of an older version
OldFormatRow(lastModified) == Value(lastModified, lastModified, Null)

\* A row of an object, or of the database, older than the column `stale'
UnmigratedRow(at) == Value(at, Null, Null)

ShardedValue(input, now) == ObjectRow(Normalized(input, now), now)

\* Slip: a missing `stale' is not defaulted.
D1ValueAsGiven(input, now) ==
    IF input.plain THEN Value(now, now, Null) ELSE Value(input.stale, input.stale, input.expire)

\* D1NextModeTagCache.writeTags()
D1Value(input, now) ==
    LET stale == IF input.plain THEN now ELSE OrElse(input.stale, now)
    IN  Value(stale, stale, IF input.plain THEN Null ELSE input.expire)

\* Slip: the time of the write, where the code stores that of the input.
KVValueAtNow(input, now) ==
    IF input.plain THEN [number |-> now]
    ELSE Value(now, OrElse(input.stale, now), input.expire)

\* KVNextModeTagCache.writeTags(): a number in the old format, or an object
KVValue(input, now) ==
    IF input.plain THEN [number |-> now]
    ELSE LET stale == OrElse(input.stale, now) IN Value(stale, stale, input.expire)

\* getRevalidatedAt(), getStale() and getExpire() of the KV tag cache; the
\* regional cache of the sharded one reads its old format the same way.
KVRead(value) ==
    IF value \in NumberValue THEN Value(value.number, value.number, Null) ELSE value

-----------------------------------------------------------------------------
(* What is decided.  A tag without a row has the value Null.               *)

\* Slip: the comparison with the present is the other way round.
RevalidatedUntilExpire(value, lastModified, now) ==
    /\ value # Null
    /\ IF value.expire # Null
       THEN value.expire >= now /\ value.expire > OrElse(lastModified, 0)
       ELSE value.revalidatedAt > OrElse(lastModified, now)

\* hasBeenRevalidated(), of one tag
Revalidated(value, lastModified, now) ==
    /\ value # Null
    /\ IF value.expire # Null
       THEN value.expire <= now /\ value.expire > OrElse(lastModified, 0)
       ELSE value.revalidatedAt > OrElse(lastModified, now)

\* Slip: the time of the revalidation is not compared with that of the page.
StaleInLastCycle(value, lastModified, now) ==
    LET lastModifiedOrNow == OrElse(lastModified, now)
    IN  /\ value # Null
        /\ value.stale # Null
        /\ lastModifiedOrNow <= value.stale
        /\ value.expire = Null \/ value.expire > now

\* isStale(), of one tag
Stale(value, lastModified, now) ==
    LET lastModifiedOrNow == OrElse(lastModified, now)
    IN  /\ value # Null
        /\ value.stale # Null
        /\ value.revalidatedAt > lastModifiedOrNow
        /\ lastModifiedOrNow <= value.stale
        /\ value.expire = Null \/ value.expire > now

\* ... of several: value is a function of the tags
HasBeenRevalidated(value, tags, lastModified, now) ==
    \E t \in tags : Revalidated(value[t], lastModified, now)

IsStale(value, tags, lastModified, now) ==
    \E t \in tags : Stale(value[t], lastModified, now)

\* getLastRevalidated()
GetLastRevalidated(value, tags) ==
    LET times == {0} \cup {value[t].revalidatedAt : t \in {u \in tags : value[u] # Null}}
    IN  CHOOSE latest \in times : \A other \in times : other <= latest
=============================================================================
