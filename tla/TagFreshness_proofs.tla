------------------------- MODULE TagFreshness_proofs -------------------------
(***************************************************************************)
(* Proofs about what the tag caches store and decide, for any tags, times  *)
(* and pages.                                                              *)
(***************************************************************************)
EXTENDS TagFreshness, TLAPS

USE NullAssumption, ValueAssumption, MaxTimeAssumption, SoftTagsAssumption

\* What KV stores of an input reads back as what D1 stores of it, and the
\* durable objects store the same, through the normalisation of the worker.
LEMMA StoredAlike ==
    ASSUME NEW input \in WriteInput, NEW at \in Nat
    PROVE  /\ ShardedValue(input, at) = D1Value(input, at)
           /\ KVRead(KVValue(input, at)) = D1Value(input, at)
           /\ D1Value(input, at) \in TagValue
           /\ KVValue(input, at) \in TagValue \cup NumberValue
  <1> DEFINE stale == IF input.plain THEN at ELSE OrElse(input.stale, at)
             expire == IF input.plain THEN Null ELSE input.expire
  <1>1. /\ stale \in Nat
        /\ expire \in MaybeTime
    BY DEF WriteInput, PlainInput, TimedInput, MaybeTime, OrElse
  <1>2. D1Value(input, at) = Value(stale, stale, expire)
    BY DEF D1Value
  <1>3. ShardedValue(input, at) = Value(stale, stale, expire)
    <2>1. Normalized(input, at) = [stale |-> stale, expire |-> expire]
      BY DEF Normalized
    <2> QED  BY <1>1, <2>1 DEF ShardedValue, ObjectRow, OrElse
  <1>4. KVValue(input, at) = IF input.plain THEN [number |-> at] ELSE Value(stale, stale, expire)
    BY DEF KVValue
  <1>5. Value(stale, stale, expire) \in TagValue
    BY <1>1 DEF Value, TagValue, Time, MaybeTime
  <1>6. [number |-> at] \in NumberValue
    BY DEF NumberValue, Time
  <1>7. Value(stale, stale, expire) \notin NumberValue
    BY DEF Value, NumberValue
  <1>8. KVRead(KVValue(input, at)) = Value(stale, stale, expire)
    BY <1>4, <1>6, <1>7 DEF KVRead
  <1> QED  BY <1>2, <1>3, <1>4, <1>5, <1>6, <1>8

-----------------------------------------------------------------------------
(* One tag.                                                                *)

\* What every value stored satisfies: it was stale when it was revalidated and
\* does not expire before, and a row without `stale' has no `expire' either.
Sound(value) ==
    value # Null =>
        /\ value \in TagValue
        /\ value.stale \in {Null, value.revalidatedAt}
        /\ value.expire # Null => value.stale # Null /\ value.revalidatedAt <= value.expire

\* Values that two caches may have of a tag: the same, or that of a row older
\* than the column `stale', which KV reads as stale.
Alike(value, other) ==
    \/ value = other
    \/ \E at \in Nat : value = UnmigratedRow(at) /\ other = Value(at, at, Null)

LEMMA ValueTypes ==
    ASSUME NEW value, Sound(value), value # Null
    PROVE  /\ value.revalidatedAt \in Nat
           /\ value.stale \in Nat \cup {Null}
           /\ value.expire \in Nat \cup {Null}
  BY DEF Sound, TagValue, Time, MaybeTime

\* Time moves a page only from fresh to stale to revalidated.
LEMMA ValueOnlyAges ==
    ASSUME NEW value, Sound(value), NEW page \in Nat,
           NEW before \in Nat, NEW after \in Nat, before <= after
    PROVE  /\ Revalidated(value, page, before) => Revalidated(value, page, after)
           /\ Stale(value, page, before) =>
                Stale(value, page, after) \/ Revalidated(value, page, after)
  <1>1. CASE value = Null
    BY <1>1 DEF Revalidated, Stale
  <1>2. CASE value # Null
    BY <1>2, ValueTypes DEF Revalidated, Stale, OrElse, Sound
  <1> QED  BY <1>1, <1>2

\* A page as recent as the revalidation is neither stale nor, but for an expire
\* that comes after it, revalidated; an older page is one or the other.
LEMMA ValueDecides ==
    ASSUME NEW value, Sound(value), value # Null, NEW page \in Nat, NEW at \in Nat
    PROVE  /\ value.revalidatedAt <= page =>
                /\ ~Stale(value, page, at)
                /\ Revalidated(value, page, at) =>
                        value.expire # Null /\ page < value.expire /\ value.expire <= at
           /\ page < value.revalidatedAt =>
                Stale(value, page, at) \/ Revalidated(value, page, at)
  BY ValueTypes DEF Revalidated, Stale, OrElse, Sound

\* Alike values agree on which pages are revalidated, and on which are stale
\* but not revalidated.
LEMMA AlikeDecide ==
    ASSUME NEW value, NEW other, Alike(value, other), NEW page \in MaybeTime, NEW at \in Nat
    PROVE  /\ Revalidated(value, page, at) <=> Revalidated(other, page, at)
           /\ ~Revalidated(value, page, at) => (Stale(value, page, at) <=> Stale(other, page, at))
           /\ value = Null <=> other = Null
           /\ value # Null => value.revalidatedAt = other.revalidatedAt
  <1>1. CASE value = other
    BY <1>1
  <1>2. ASSUME NEW time \in Nat, value = UnmigratedRow(time), other = Value(time, time, Null)
        PROVE  /\ Revalidated(value, page, at) <=> Revalidated(other, page, at)
               /\ ~Revalidated(value, page, at) => (Stale(value, page, at) <=> Stale(other, page, at))
               /\ value = Null <=> other = Null
               /\ value # Null => value.revalidatedAt = other.revalidatedAt
    <2>1. value \in TagValue /\ other \in TagValue
      BY <1>2 DEF UnmigratedRow, Value, TagValue, Time, MaybeTime
    <2>2. value # Null /\ other # Null
      BY <2>1
    <2>3. /\ value.revalidatedAt = time /\ value.stale = Null /\ value.expire = Null
          /\ other.revalidatedAt = time /\ other.expire = Null
      BY <1>2 DEF UnmigratedRow, Value
    <2> QED  BY <2>2, <2>3 DEF Revalidated, Stale
  <1> QED  BY <1>1, <1>2 DEF Alike

-----------------------------------------------------------------------------
(* The inductive invariant.                                                *)

FreshInv ==
    /\ now \in Nat
    /\ writtenAt \in [Tags -> Nat]
    /\ DOMAIN sharded = Tags /\ DOMAIN d1 = Tags /\ DOMAIN kv = Tags /\ DOMAIN filtered = Tags
    /\ \A t \in Tags :
        /\ Sound(sharded[t])
        /\ d1[t] = sharded[t]
        /\ SoftTagFilter(t) => filtered[t] = d1[t]
        /\ Alike(sharded[t], KVRead(kv[t]))
        /\ sharded[t] # Null => sharded[t].revalidatedAt <= writtenAt[t]

\* The row of a write, in either call format, is sound and no later than now.
LEMMA WrittenSound ==
    ASSUME now \in Nat, NEW input \in Inputs
    PROVE  /\ input \in WriteInput
           /\ Sound(D1Value(input, now))
           /\ D1Value(input, now).revalidatedAt <= now
           /\ input \in PlainInput => OldFormatRow(now) = D1Value(input, now)
  <1>1. CASE input \in PlainInput
    <2>1. D1Value(input, now) = Value(now, now, Null) /\ input \in WriteInput
      BY <1>1 DEF PlainInput, D1Value, WriteInput
    <2>2. Value(now, now, Null) \in TagValue
      BY DEF Value, TagValue, Time, MaybeTime
    <2> QED  BY <2>1, <2>2 DEF Sound, Value, OldFormatRow
  <1>2. CASE input \notin PlainInput
    <2>1. /\ input \in [plain : {FALSE}, stale : {Null} \cup 0 .. now, expire : {Null} \cup 0 .. MaxTime]
          /\ input.expire # Null => input.expire >= OrElse(input.stale, now)
      BY <1>2 DEF Inputs
    <2> DEFINE stale == OrElse(input.stale, now)
    <2>a. /\ input = [plain |-> input.plain, stale |-> input.stale, expire |-> input.expire]
          /\ input.plain = FALSE
          /\ input.stale \in {Null} \cup 0 .. now
          /\ input.expire \in {Null} \cup 0 .. MaxTime
      BY <2>1
    <2>b. input.stale \in MaybeTime /\ input.expire \in MaybeTime
      BY <2>a DEF MaybeTime
    <2>2. /\ input.plain = FALSE
          /\ stale \in Nat /\ stale <= now
          /\ input.expire \in Nat \cup {Null}
      BY <2>a DEF OrElse
    <2>3. input \in WriteInput
      BY <2>a, <2>b DEF WriteInput, TimedInput
    <2>4. D1Value(input, now) = Value(stale, stale, input.expire)
      BY <2>2 DEF D1Value
    <2>5. Value(stale, stale, input.expire) \in TagValue
      BY <2>2 DEF Value, TagValue, Time, MaybeTime
    <2> QED  BY <1>2, <2>1, <2>2, <2>3, <2>4, <2>5 DEF Sound, Value
  <1> QED  BY <1>1, <1>2

LEMMA FreshInit == Init => FreshInv
  <1> SUFFICES ASSUME Init PROVE FreshInv
    OBVIOUS
  <1>1. /\ now \in Nat
        /\ writtenAt \in [Tags -> Nat]
        /\ DOMAIN sharded = Tags /\ DOMAIN d1 = Tags /\ DOMAIN kv = Tags /\ DOMAIN filtered = Tags
    BY DEF Init
  <1>2. ASSUME NEW t \in Tags
        PROVE  /\ Sound(sharded[t])
               /\ d1[t] = sharded[t]
               /\ SoftTagFilter(t) => filtered[t] = d1[t]
               /\ Alike(sharded[t], KVRead(kv[t]))
               /\ sharded[t] # Null => sharded[t].revalidatedAt <= writtenAt[t]
    <2>1. CASE writtenAt[t] = 0
      <3>1. sharded[t] = Null /\ d1[t] = Null /\ kv[t] = Null /\ filtered = d1
        BY <2>1 DEF Init
      <3> QED  BY <3>1 DEF Sound, Alike, KVRead
    <2>2. CASE writtenAt[t] = 1
      <3>1. sharded[t] = UnmigratedRow(1) /\ d1[t] = sharded[t] /\ kv[t] = [number |-> 1] /\ filtered = d1
        <4>1. writtenAt[t] # 0
          BY <2>2
        <4> QED  BY <4>1 DEF Init
      <3>2. KVRead(kv[t]) = Value(1, 1, Null)
        <4>1. [number |-> 1] \in NumberValue
          BY DEF NumberValue, Time
        <4>2. [number |-> 1].number = 1
          OBVIOUS
        <4> QED  BY <3>1, <4>1, <4>2 DEF KVRead
      <3>3. UnmigratedRow(1) \in TagValue
        BY DEF UnmigratedRow, Value, TagValue, Time, MaybeTime
      <3>4. Sound(sharded[t]) /\ sharded[t].revalidatedAt = 1
        BY <3>1, <3>3 DEF Sound, UnmigratedRow, Value
      <3> QED  BY <2>2, <3>1, <3>2, <3>4 DEF Alike
    <2> QED  BY <2>1, <2>2 DEF Init
  <1> QED  BY <1>1, <1>2 DEF FreshInv

LEMMA FreshStep == FreshInv /\ [Next]_vars => FreshInv'
  <1> SUFFICES ASSUME FreshInv, [Next]_vars PROVE FreshInv'
    OBVIOUS
  <1>1. ASSUME NEW t \in Tags, NEW input \in Inputs, Write(t, input, D1Value(input, now))
        PROVE  FreshInv'
    <2>1. now \in Nat /\ now' = now
      BY <1>1 DEF Write, FreshInv
    <2>2. /\ sharded' = [sharded EXCEPT ![t] = D1Value(input, now)]
          /\ d1' = [d1 EXCEPT ![t] = D1Value(input, now)]
          /\ kv' = [kv EXCEPT ![t] = KVValue(input, now)]
          /\ filtered' = IF SoftTagFilter(t) THEN [filtered EXCEPT ![t] = D1Value(input, now)] ELSE filtered
          /\ writtenAt' = [writtenAt EXCEPT ![t] = now]
      BY <1>1 DEF Write, FilteredWrite
    <2>3. KVRead(KVValue(input, now)) = D1Value(input, now)
      BY <2>1, WrittenSound, StoredAlike
    <2>4. ASSUME NEW u \in Tags
          PROVE  /\ Sound(sharded'[u])
                 /\ d1'[u] = sharded'[u]
                 /\ SoftTagFilter(u) => filtered'[u] = d1'[u]
                 /\ Alike(sharded'[u], KVRead(kv'[u]))
                 /\ sharded'[u] # Null => sharded'[u].revalidatedAt <= writtenAt'[u]
      <3>1. CASE u = t
        <4>1. /\ sharded'[u] = D1Value(input, now) /\ d1'[u] = D1Value(input, now)
              /\ kv'[u] = KVValue(input, now) /\ writtenAt'[u] = now
              /\ SoftTagFilter(u) => filtered'[u] = D1Value(input, now)
          BY <2>2, <3>1 DEF FreshInv
        <4> QED  BY <2>1, <2>3, <4>1, WrittenSound DEF Alike
      <3>2. CASE u # t
        <4>1. /\ sharded'[u] = sharded[u] /\ d1'[u] = d1[u]
              /\ kv'[u] = kv[u] /\ writtenAt'[u] = writtenAt[u]
              /\ filtered'[u] = filtered[u]
          BY <2>2, <3>2 DEF FreshInv
        <4> QED  BY <4>1 DEF FreshInv
      <3> QED  BY <3>1, <3>2
    <2>5. /\ writtenAt' \in [Tags -> Nat]
          /\ DOMAIN sharded' = Tags /\ DOMAIN d1' = Tags /\ DOMAIN kv' = Tags /\ DOMAIN filtered' = Tags
      BY <2>1, <2>2 DEF FreshInv
    <2>6. FreshInv' = (/\ now' \in Nat
                       /\ writtenAt' \in [Tags -> Nat]
                       /\ DOMAIN sharded' = Tags /\ DOMAIN d1' = Tags /\ DOMAIN kv' = Tags /\ DOMAIN filtered' = Tags
                       /\ \A u \in Tags :
                            /\ Sound(sharded'[u])
                            /\ d1'[u] = sharded'[u]
                            /\ SoftTagFilter(u) => filtered'[u] = d1'[u]
                            /\ Alike(sharded'[u], KVRead(kv'[u]))
                            /\ sharded'[u] # Null => sharded'[u].revalidatedAt <= writtenAt'[u])
      BY DEF FreshInv
    <2> QED  BY <2>1, <2>4, <2>5, <2>6
  <1>2. CASE \E t \in Tags : WriteTag(t)
    <2>1. PICK t \in Tags, input \in Inputs : Write(t, input, ShardedValue(input, now))
      BY <1>2 DEF WriteTag
    <2>2. ShardedValue(input, now) = D1Value(input, now)
      BY WrittenSound, StoredAlike DEF FreshInv
    <2> QED  BY <1>1, <2>1, <2>2
  <1>3. CASE \E t \in Tags : WriteTagOldFormat(t)
    <2>1. PICK t \in Tags, input \in PlainInput : Write(t, input, OldFormatRow(now))
      BY <1>3 DEF WriteTagOldFormat
    <2>2. input \in Inputs
      BY DEF Inputs
    <2>3. OldFormatRow(now) = D1Value(input, now)
      BY <2>2, WrittenSound DEF FreshInv
    <2> QED  BY <1>1, <2>1, <2>2, <2>3
  <1>4. CASE Tick
    BY <1>4 DEF Tick, values, FreshInv
  <1>5. CASE UNCHANGED vars
    BY <1>5 DEF vars, values, FreshInv
  <1> QED  BY <1>2, <1>3, <1>4, <1>5 DEF Next

-----------------------------------------------------------------------------
(* Sets of tags.                                                           *)

LEMMA AlikeVerdict ==
    ASSUME NEW value, NEW other, NEW tags \in SUBSET Tags, NEW page \in MaybeTime, now \in Nat,
           \A t \in tags : Alike(value[t], other[t])
    PROVE  /\ Verdict(value, tags, page) = Verdict(other, tags, page)
           /\ GetLastRevalidated(value, tags) = GetLastRevalidated(other, tags)
  <1>1. HasBeenRevalidated(value, tags, page, now) <=> HasBeenRevalidated(other, tags, page, now)
    BY AlikeDecide DEF HasBeenRevalidated
  <1>2. ~HasBeenRevalidated(value, tags, page, now) =>
            (IsStale(value, tags, page, now) <=> IsStale(other, tags, page, now))
    BY AlikeDecide DEF HasBeenRevalidated, IsStale
  <1>3. {value[t].revalidatedAt : t \in {u \in tags : value[u] # Null}}
            = {other[t].revalidatedAt : t \in {u \in tags : other[u] # Null}}
    <2>1. \A t \in tags : /\ value[t] = Null <=> other[t] = Null
                          /\ value[t] # Null => value[t].revalidatedAt = other[t].revalidatedAt
      BY AlikeDecide
    <2> QED  BY <2>1
  <1> QED  BY <1>1, <1>2, <1>3 DEF Verdict, Judge, GetLastRevalidated

\* The filter asks of the tags it lets through what the other caches are asked.
LEMMA FilterDecides ==
    ASSUME FreshInv, NEW tags \in SUBSET Tags
    PROVE  /\ FilteredGetLastRevalidated(tags) = GetLastRevalidated(sharded, tags \ SoftTags)
           /\ \A page \in MaybeTime :
                FilteredVerdict(tags, page) = Verdict(sharded, tags \ SoftTags, page)
  <1> DEFINE hard == tags \ SoftTags
  <1>1. Filtered(tags) = hard
    BY DEF Filtered, SoftTagFilter
  <1>2. hard \in SUBSET Tags /\ now \in Nat /\ \A t \in hard : Alike(sharded[t], filtered[t])
    BY DEF FreshInv, Alike, SoftTagFilter
  <1>3. ASSUME NEW page \in MaybeTime
        PROVE  /\ Verdict(sharded, hard, page) = Verdict(filtered, hard, page)
               /\ GetLastRevalidated(sharded, hard) = GetLastRevalidated(filtered, hard)
    BY <1>2, AlikeVerdict
  <1>4. FilteredGetLastRevalidated(tags) = GetLastRevalidated(filtered, hard)
    <2>1. CASE hard = {}
      <3>1. {filtered[t].revalidatedAt : t \in {u \in hard : filtered[u] # Null}} = {}
        BY <2>1
      <3>2. GetLastRevalidated(filtered, hard) = CHOOSE latest \in {0} : \A other \in {0} : other <= latest
        BY <3>1 DEF GetLastRevalidated
      <3>3. GetLastRevalidated(filtered, hard) = 0
        BY <3>2
      <3> QED  BY <1>1, <2>1, <3>3 DEF FilteredGetLastRevalidated
    <2> QED  BY <1>1, <2>1 DEF FilteredGetLastRevalidated
  <1>5. ASSUME NEW page PROVE FilteredVerdict(tags, page) = Verdict(filtered, hard, page)
    <2>1. /\ FilteredHasBeenRevalidated(tags, page) <=> HasBeenRevalidated(filtered, hard, page, now)
          /\ FilteredIsStale(tags, page) <=> IsStale(filtered, hard, page, now)
      BY <1>1 DEF FilteredHasBeenRevalidated, FilteredIsStale, HasBeenRevalidated, IsStale
    <2> QED  BY <2>1 DEF FilteredVerdict, Verdict, Judge
  <1>6. Null \in MaybeTime
    BY DEF MaybeTime
  <1> QED  BY <1>3, <1>4, <1>5, <1>6

\* The durable objects, D1 and KV give every page, of any set of tags, the same
\* verdict, whatever writes of whatever version went before; and so does D1 behind
\* the filter, of the tags that are not soft.
THEOREM CachesAlwaysAgree == Spec => []CachesAgree
  <1>1. FreshInv => CachesAgree
    <2> SUFFICES ASSUME FreshInv, NEW tags \in SUBSET Tags
                 PROVE  /\ D1GetLastRevalidated(tags) = GetLastRevalidated(sharded, tags)
                        /\ KVGetLastRevalidated(tags) = GetLastRevalidated(sharded, tags)
                        /\ FilteredGetLastRevalidated(tags) = GetLastRevalidated(sharded, tags \ SoftTags)
                        /\ \A page \in Pages \cup {Null} :
                            /\ D1Verdict(tags, page) = Verdict(sharded, tags, page)
                            /\ KVVerdict(tags, page) = Verdict(sharded, tags, page)
                            /\ FilteredVerdict(tags, page) = Verdict(sharded, tags \ SoftTags, page)
      BY DEF CachesAgree
    <2>1. /\ \A t \in tags : Alike(sharded[t], d1[t])
          /\ \A t \in tags : Alike(sharded[t], KVValues[t])
      BY DEF FreshInv, KVValues, Alike
    <2>2. now \in Nat /\ Pages \cup {Null} \subseteq MaybeTime
      BY DEF FreshInv, Pages, MaybeTime
    <2>3. ASSUME NEW page \in MaybeTime
          PROVE  /\ Verdict(d1, tags, page) = Verdict(sharded, tags, page)
                 /\ GetLastRevalidated(d1, tags) = GetLastRevalidated(sharded, tags)
                 /\ Verdict(KVValues, tags, page) = Verdict(sharded, tags, page)
                 /\ GetLastRevalidated(KVValues, tags) = GetLastRevalidated(sharded, tags)
      <3>1. /\ Verdict(sharded, tags, page) = Verdict(d1, tags, page)
            /\ GetLastRevalidated(sharded, tags) = GetLastRevalidated(d1, tags)
        BY <2>1, <2>2, AlikeVerdict
      <3>2. /\ Verdict(sharded, tags, page) = Verdict(KVValues, tags, page)
            /\ GetLastRevalidated(sharded, tags) = GetLastRevalidated(KVValues, tags)
        BY <2>1, <2>2, AlikeVerdict
      <3> QED  BY <3>1, <3>2
    <2>4. ASSUME NEW page
          PROVE  /\ D1Verdict(tags, page) = Verdict(d1, tags, page)
                 /\ KVVerdict(tags, page) = Verdict(KVValues, tags, page)
      BY DEF D1Verdict, KVVerdict, Verdict, D1HasBeenRevalidated, D1IsStale,
             KVHasBeenRevalidated, KVIsStale
    <2>5. /\ D1GetLastRevalidated(tags) = GetLastRevalidated(sharded, tags)
          /\ KVGetLastRevalidated(tags) = GetLastRevalidated(sharded, tags)
      BY <2>3 DEF MaybeTime, D1GetLastRevalidated, KVGetLastRevalidated
    <2>6. /\ FilteredGetLastRevalidated(tags) = GetLastRevalidated(sharded, tags \ SoftTags)
          /\ \A page \in MaybeTime : FilteredVerdict(tags, page) = Verdict(sharded, tags \ SoftTags, page)
      BY FilterDecides
    <2> QED  BY <2>2, <2>3, <2>4, <2>5, <2>6
  <1> QED  BY <1>1, FreshInit, FreshStep, PTL DEF Spec

\* A page regenerated since its tags were written is fresh, but for an expiry.
THEOREM RegeneratedPagesAreFresh == Spec => []RegeneratedIsFresh
  <1>1. FreshInv => RegeneratedIsFresh
    <2> SUFFICES ASSUME FreshInv, NEW tags \in SUBSET Tags, NEW page \in Pages,
                        \A t \in tags : writtenAt[t] <= page,
                        Verdict(sharded, tags, page) # "fresh"
                 PROVE  \E t \in tags : /\ sharded[t] # Null
                                        /\ sharded[t].expire # Null
                                        /\ page < sharded[t].expire /\ sharded[t].expire <= now
      BY DEF RegeneratedIsFresh
    <2>1. page \in Nat /\ now \in Nat
      BY DEF Pages, FreshInv
    <2>2. PICK t \in tags : Revalidated(sharded[t], page, now) \/ Stale(sharded[t], page, now)
      BY DEF Verdict, Judge, HasBeenRevalidated, IsStale
    <2>3. sharded[t] # Null
      BY <2>2 DEF Revalidated, Stale
    <2>4. Sound(sharded[t]) /\ sharded[t].revalidatedAt <= page
      <3>1. /\ Sound(sharded[t])
            /\ sharded[t].revalidatedAt <= writtenAt[t] /\ writtenAt[t] <= page
            /\ writtenAt[t] \in Nat
        BY <2>3 DEF FreshInv
      <3> QED  BY <2>1, <2>3, <3>1, ValueTypes
    <2> QED  BY <2>1, <2>2, <2>3, <2>4, ValueDecides
  <1> QED  BY <1>1, FreshInit, FreshStep, PTL DEF Spec

\* A page older than the revalidation of one of its tags is not fresh.
THEOREM OutdatedPagesAreNotFresh == Spec => []OutdatedIsNotFresh
  <1>1. FreshInv => OutdatedIsNotFresh
    <2> SUFFICES ASSUME FreshInv, NEW tags \in SUBSET Tags, NEW page \in Pages, NEW t \in tags,
                        sharded[t] # Null, page < sharded[t].revalidatedAt
                 PROVE  Verdict(sharded, tags, page) # "fresh"
      BY DEF OutdatedIsNotFresh
    <2>1. page \in Nat /\ now \in Nat /\ Sound(sharded[t])
      BY DEF Pages, FreshInv
    <2>2. Stale(sharded[t], page, now) \/ Revalidated(sharded[t], page, now)
      BY <2>1, ValueDecides
    <2> QED  BY <2>2 DEF Verdict, Judge, HasBeenRevalidated, IsStale
  <1> QED  BY <1>1, FreshInit, FreshStep, PTL DEF Spec

\* The passage of time takes no page back to a younger state.
THEOREM TimeOnlyAgesPages == Spec => PagesOnlyAge
  <1>1. FreshInv /\ [Next]_vars =>
            \A tags \in SUBSET Tags, page \in Pages :
                UNCHANGED values =>
                    Age(Verdict(sharded, tags, page))' >= Age(Verdict(sharded, tags, page))
    <2> SUFFICES ASSUME FreshInv, [Next]_vars, NEW tags \in SUBSET Tags, NEW page \in Pages,
                        UNCHANGED values
                 PROVE  Age(Verdict(sharded, tags, page))' >= Age(Verdict(sharded, tags, page))
      OBVIOUS
    <2>1. page \in Nat /\ now \in Nat /\ sharded' = sharded
      BY DEF Pages, FreshInv, values
    <2>2. now' \in Nat /\ now <= now'
      BY <2>1 DEF Next, WriteTag, WriteTagOldFormat, Write, Tick, vars
    <2>3. \A t \in tags :
            /\ Revalidated(sharded[t], page, now) => Revalidated(sharded[t], page, now')
            /\ Stale(sharded[t], page, now) =>
                    Stale(sharded[t], page, now') \/ Revalidated(sharded[t], page, now')
      BY <2>1, <2>2, ValueOnlyAges DEF FreshInv
    <2>4. /\ HasBeenRevalidated(sharded, tags, page, now) => HasBeenRevalidated(sharded, tags, page, now')
          /\ IsStale(sharded, tags, page, now) =>
                IsStale(sharded, tags, page, now') \/ HasBeenRevalidated(sharded, tags, page, now')
      BY <2>3 DEF HasBeenRevalidated, IsStale
    <2>5. Verdict(sharded, tags, page)' =
            IF HasBeenRevalidated(sharded, tags, page, now') THEN "revalidated"
            ELSE IF IsStale(sharded, tags, page, now') THEN "stale" ELSE "fresh"
      BY <2>1 DEF Verdict, Judge
    <2> QED  BY <2>4, <2>5 DEF Verdict, Judge, Age
  <1> QED  BY <1>1, FreshInit, FreshStep, PTL DEF Spec, PagesOnlyAge

\* The times of the last writes, and no earlier ones, decide of a page.
THEOREM PagesFollowWrites == Spec => []FreshWhenCurrent
  BY RegeneratedPagesAreFresh, OutdatedPagesAreNotFresh, PTL DEF FreshWhenCurrent

-----------------------------------------------------------------------------
(* Type correctness.                                                       *)

LEMMA TypeInit == Init => TypeOK
  <1> SUFFICES ASSUME Init PROVE TypeOK
    OBVIOUS
  <1>1. UnmigratedRow(1) \in TagValue
    BY DEF UnmigratedRow, Value, TagValue, Time, MaybeTime
  <1>2. [number |-> 1] \in NumberValue
    BY DEF NumberValue, Time
  <1>3. sharded \in [Tags -> TagValue \cup {Null}] /\ d1 = sharded /\ filtered = d1
    BY <1>1 DEF Init
  <1>4. kv \in [Tags -> TagValue \cup NumberValue \cup {Null}]
    BY <1>2 DEF Init
  <1>5. now \in Nat /\ writtenAt \in [Tags -> Nat]
    BY DEF Init
  <1> QED  BY <1>3, <1>4, <1>5 DEF TypeOK

\* Every input gives each cache a value of its formats.
LEMMA TypeStep == TypeOK /\ [Next]_vars => TypeOK'
  <1> SUFFICES ASSUME TypeOK, [Next]_vars PROVE TypeOK'
    OBVIOUS
  <1>1. ASSUME NEW t \in Tags, NEW input \in Inputs, Write(t, input, D1Value(input, now))
        PROVE  TypeOK'
    <2>1. D1Value(input, now) \in TagValue /\ KVValue(input, now) \in TagValue \cup NumberValue
      BY WrittenSound, StoredAlike DEF TypeOK
    <2>2. filtered' \in [Tags -> TagValue \cup {Null}]
      <3>1. filtered' = IF SoftTagFilter(t) THEN [filtered EXCEPT ![t] = D1Value(input, now)] ELSE filtered
        BY <1>1 DEF Write, FilteredWrite
      <3> QED  BY <2>1, <3>1 DEF TypeOK
    <2> QED  BY <1>1, <2>1, <2>2 DEF Write, TypeOK
  <1>2. CASE \E t \in Tags : WriteTag(t)
    <2>1. PICK t \in Tags, input \in Inputs : Write(t, input, ShardedValue(input, now))
      BY <1>2 DEF WriteTag
    <2>2. ShardedValue(input, now) = D1Value(input, now)
      BY WrittenSound, StoredAlike DEF TypeOK
    <2> QED  BY <1>1, <2>1, <2>2
  <1>3. CASE \E t \in Tags : WriteTagOldFormat(t)
    <2>1. PICK t \in Tags, input \in PlainInput : Write(t, input, OldFormatRow(now))
      BY <1>3 DEF WriteTagOldFormat
    <2>2. input \in Inputs
      BY DEF Inputs
    <2>3. OldFormatRow(now) = D1Value(input, now)
      BY <2>2, WrittenSound DEF TypeOK
    <2> QED  BY <1>1, <2>1, <2>2, <2>3
  <1>4. CASE Tick \/ UNCHANGED vars
    BY <1>4 DEF Tick, values, vars, TypeOK
  <1> QED  BY <1>2, <1>3, <1>4 DEF Next

\* Every cache holds values of its formats, whatever versions wrote them.
THEOREM TypeCorrect == Spec => []TypeOK
  BY TypeInit, TypeStep, PTL DEF Spec
=============================================================================
