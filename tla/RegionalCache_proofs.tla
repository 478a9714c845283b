------------------------ MODULE RegionalCache_proofs ------------------------
(***************************************************************************)
(* Proofs about the regional cache: types, how old what it holds may be,   *)
(* where that comes from, and what a purge leaves.                         *)
(***************************************************************************)
EXTENDS RegionalCache, SequenceTheorems, TLAPS

-----------------------------------------------------------------------------
(* The history of the store: every value is written once, in the order of   *)
(* time, and what is dated is not dated later than it was written.          *)

HistoryInv ==
    /\ \A i \in DOMAIN stored :
        /\ stored[i].value \in {stored[i].by, None}
        /\ stored[i].at <= stored[i].written
        /\ stored[i].written <= now
        /\ stored[i].by \in Ops => op[stored[i].by] # "idle"
    /\ \A i, j \in DOMAIN stored :
        /\ stored[i].by = stored[j].by => i = j
        /\ i <= j => stored[i].written <= stored[j].written

\* A call that has written the store, or not, before its regional cache.
OpInv ==
    \A s \in Ops : op[s] = "stored" =>
        /\ since[s] <= now /\ now <= since[s] + WorkLimit
        /\ \A i \in DOMAIN stored : stored[i].by = s => stored[i].written = since[s]
        /\ s \notin failed => \E i \in DOMAIN stored : stored[i].by = s
        /\ s \notin failed /\ doing[s] = "set" => \E i \in DOMAIN stored : stored[i].value = s

\* An entry that is put later is one the store held, and answered when it was read.
WorkInv ==
    \A w \in works :
        /\ w.since <= now /\ now <= w.since + WorkLimit
        /\ w.entry # None =>
            /\ w.entry.at <= now
            /\ \E i \in DOMAIN stored : stored[i].value = w.entry.value
            /\ \A i \in DOMAIN stored : stored[i].value = w.entry.value =>
                /\ w.entry.at <= stored[i].written + WorkLimit
                /\ i < Len(stored) => w.since <= stored[i + 1].written + StoreLag

\* The purge has reached the entry.
Purged == purgedAt > 0 /\ purged \in CacheTag

\* An entry was put soon after the store held it, or failed to, and is kept for its time.
Kept(x) ==
    /\ x.at <= now /\ x.put <= now
    /\ x.until = x.put + TtlOf(x.value)
    /\ Purged => x.put >= purgedAt
    /\ (\A i \in DOMAIN stored : stored[i].value # x.value) => x.put <= x.at + WorkLimit
    /\ (\E i \in DOMAIN stored : stored[i].value = x.value) \/ x.value \in failed
    /\ \A i \in DOMAIN stored : stored[i].value = x.value =>
        /\ x.at <= stored[i].written + WorkLimit
        /\ i < Len(stored) => x.put <= stored[i + 1].written + StoreLag + WorkLimit

CacheInv == \A c \in Colos : cached[c] # None => Kept(cached[c])

\* What a call that has returned left in its colo.
CleanInv ==
    \A s \in Ops \ failed : \A i, j \in DOMAIN stored :
        /\ op[s] = "done" /\ stored[j].by = s /\ i < j
        /\ cached[ColoOf[s]] # None /\ stored[i].value = cached[ColoOf[s]].value
        => ColoOf[s] \in late

Inv ==
    /\ TypeOK /\ purgedAt <= now
    /\ HistoryInv /\ OpInv /\ WorkInv /\ CacheInv /\ CleanInv

-----------------------------------------------------------------------------
(* Times.                                                                  *)

LEMMA TtlTypes ==
    ASSUME TypeOK, NEW v \in Values
    PROVE  TtlOf(v) \in Nat /\ LongestTtl(v) \in Nat /\ TtlOf(v) <= LongestTtl(v)
<1>1. Revalidate[v] \in Nat /\ ShortTtl \in Nat /\ LongTtl \in Nat
  BY ConstantsAssumption
<1> QED
  BY <1>1 DEF TtlOf, LongestTtl

LEMMA LagType == TypeOK => StoreLag \in Nat /\ WorkLimit \in Nat
  BY ConstantsAssumption DEF StoreLag

LEMMA HeldType == ASSUME TypeOK PROVE /\ Len(stored) \in Nat /\ Len(stored) >= 1
                                      /\ DOMAIN stored = 1 .. Len(stored)
                                      /\ \A i \in DOMAIN stored : stored[i] \in Stored
                                      /\ Held \in Stored
  BY DEF TypeOK, Held

LEMMA ReadableType ==
    ASSUME TypeOK, NEW e \in Readable
    PROVE  /\ e \in Stored
           /\ \E k \in DOMAIN stored :
                /\ e = stored[k]
                /\ k < Len(stored) => now <= stored[k + 1].written + StoreLag
<1>1. CASE config.store # "kv"
  <2>1. e = stored[Len(stored)]
    BY <1>1 DEF Readable, Held
  <2>2. Len(stored) \in DOMAIN stored /\ ~(Len(stored) < Len(stored)) /\ stored[Len(stored)] \in Stored
    BY HeldType
  <2> QED
    BY <2>1, <2>2, Zenon
<1>2. CASE config.store = "kv"
  <2>1. PICK k \in 1 .. Len(stored) :
            /\ e = stored[k]
            /\ k < Len(stored) => now < stored[k + 1].written + KVLag
    BY <1>2 DEF Readable
  <2>2. StoreLag = KVLag
    BY <1>2 DEF StoreLag
  <2>3. k < Len(stored) => now <= stored[k + 1].written + StoreLag
    <3>1. k < Len(stored) => stored[k + 1].written \in Nat
      <4>1. k < Len(stored) => k + 1 \in DOMAIN stored
        BY HeldType
      <4> QED
        BY <4>1, HeldType DEF Stored
    <3>2. now \in Nat /\ KVLag \in Nat
      BY <2>2, LagType DEF TypeOK
    <3> QED
      BY <2>1, <2>2, <3>1, <3>2
  <2> QED
    BY <2>1, <2>3, HeldType
<1> QED
  BY <1>1, <1>2

-----------------------------------------------------------------------------
(* Types.                                                                  *)

LEMMA PutType ==
    ASSUME TypeOK, NEW c \in Colos, NEW e \in Entry, Put(c, e)
    PROVE  cached' \in [Colos -> Cached \cup {None}] /\ late' \subseteq Colos
<1>1. now + TtlOf(e.value) \in Nat
  BY TtlTypes DEF Entry, TypeOK
<1>2. [value |-> e.value, at |-> e.at, until |-> now + TtlOf(e.value), put |-> now] \in Cached
  BY <1>1 DEF Entry, Cached, TypeOK
<1> QED
  BY <1>2 DEF Put, TypeOK

LEMMA TypeInit == Init => TypeOK
  BY ConstantsAssumption DEF Init, TypeOK, Values, Stored

LEMMA TypeStep == TypeOK /\ [Next]_vars => TypeOK'
<1> SUFFICES ASSUME TypeOK, [Next]_vars PROVE TypeOK'
  OBVIOUS
<1> USE ConstantsAssumption DEF writing, tagging, Wrote, Got, Fail
<1>1. ASSUME NEW s \in Ops, NEW what \in {"set", "delete"}, Store(s, what)
      PROVE  TypeOK'
  <2>1. PICK date \in Dates :
          stored' = Append(stored, [by |-> s, value |-> IF what = "set" THEN s ELSE None,
                                    at |-> date, written |-> now])
    BY <1>1 DEF Store
  <2>2. date \in Nat
    BY <2>1 DEF Dates, TypeOK
  <2>3. stored' \in Seq(Stored) /\ stored' # <<>>
    <3> DEFINE value == IF what = "set" THEN s ELSE None
               e == [by |-> s, value |-> value, at |-> date, written |-> now]
    <3>1. value \in Values \cup {None} /\ s \in Values /\ now \in Nat
      BY DEF Values, TypeOK
    <3> HIDE DEF value
    <3>2. e \in Stored
      BY <2>2, <3>1 DEF Stored
    <3>3. stored \in Seq(Stored)
      BY DEF TypeOK
    <3>4. stored' = Append(stored, e)
      BY <2>1 DEF value
    <3> HIDE DEF e
    <3>5. Append(stored, e) \in Seq(Stored) /\ Append(stored, e) # <<>>
      BY <3>2, <3>3, AppendProperties
    <3> QED
      BY <3>4, <3>5, Zenon
  <2> QED
    BY <1>1, <2>3 DEF Store, TypeOK
<1>2. ASSUME NEW s \in Ops, NEW what \in {"set", "delete"}, StoreFails(s, what)
      PROVE  TypeOK'
  BY <1>2 DEF StoreFails, TypeOK
<1>3. ASSUME NEW s \in Ops, NEW what \in {"set", "delete"}, ReadOnly(s, what)
      PROVE  TypeOK'
  BY <1>3 DEF ReadOnly, TypeOK
<1>4. ASSUME NEW s \in Ops, NEW what \in {"set", "delete"}, StoreThrows(s, what)
      PROVE  TypeOK'
  BY <1>4 DEF StoreThrows, Thrown, TypeOK
<1>5. ASSUME NEW s \in Ops, Finish(s)
      PROVE  TypeOK'
  <2>1. PICK date \in since[s] .. now :
          IF doing[s] = "set" THEN Put(ColoOf[s], [value |-> s, at |-> date]) ELSE Delete(ColoOf[s])
    BY <1>5 DEF Finish
  <2>2. ColoOf[s] \in Colos /\ [value |-> s, at |-> date] \in Entry
    BY DEF Entry, Values, TypeOK
  <2>3. cached' \in [Colos -> Cached \cup {None}] /\ late' \subseteq Colos
    <3>1. CASE doing[s] = "set"
      BY <2>1, <2>2, <3>1, PutType
    <3>2. CASE doing[s] # "set"
      BY <2>1, <2>2, <3>2 DEF Delete, TypeOK
    <3> QED
      BY <3>1, <3>2
  <2> QED
    BY <1>5, <2>3 DEF Finish, Ended, TypeOK
<1>6. ASSUME NEW s \in Ops, FinishFails(s)
      PROVE  TypeOK'
  BY <1>6 DEF FinishFails, Ended, TypeOK
<1>7. ASSUME NEW g \in Gets, Match(g) \/ Read(g) \/ ReadFails(g)
      PROVE  TypeOK'
  <2>1. works' \subseteq Work
    <3>1. CASE Match(g)
      BY <3>1 DEF Match, TypeOK, Work
    <3>2. CASE Read(g)
      <4>1. PICK e \in Readable :
              works' = IF ~HasValue(e) THEN works
                       ELSE works \cup {[by |-> g, colo |-> GetColo[g], entry |-> EntryOf(e),
                                         since |-> now]}
        BY <3>2 DEF Read
      <4>2. HasValue(e) => EntryOf(e) \in Entry
        BY ReadableType DEF HasValue, EntryOf, Entry, Stored
      <4> QED
        BY <4>1, <4>2 DEF TypeOK, Work
    <3>3. CASE ReadFails(g)
      BY <3>3 DEF ReadFails, TypeOK
    <3> QED
      BY <1>7, <3>1, <3>2, <3>3
  <2>2. get' \in [Gets -> {"idle", "done"}]
    BY <1>7 DEF Match, Read, ReadFails, TypeOK
  <2>3. UNCHANGED <<config, now, stored, cached, writing, tagging, late>> /\ errors' \in Nat
    BY <1>7 DEF Match, Read, ReadFails, TypeOK
  <2> QED
    BY <2>1, <2>2, <2>3 DEF TypeOK
<1>8. ASSUME NEW w \in works, Refresh(w)
      PROVE  TypeOK'
  <2>1. PICK e \in Readable :
          works' = (works \ {w}) \cup {[w EXCEPT !.entry = EntryOf(x)] : x \in {y \in {e} : HasValue(y)}}
    BY <1>8 DEF Refresh
  <2>2. HasValue(e) => [w EXCEPT !.entry = EntryOf(e)] \in Work
    <3>1. HasValue(e) => EntryOf(e) \in Entry
      BY ReadableType DEF HasValue, EntryOf, Entry, Stored
    <3>2. w \in Work
      BY DEF TypeOK
    <3> QED
      BY <3>1, <3>2 DEF Work
  <2>3. works' \subseteq Work
    <3>1. \A v \in works' : v \in works \/ (HasValue(e) /\ v = [w EXCEPT !.entry = EntryOf(e)])
      BY <2>1, Zenon
    <3> QED
      BY <2>2, <3>1 DEF TypeOK
  <2> QED
    BY <1>8, <2>3 DEF Refresh, TypeOK
<1>9. ASSUME NEW w \in works, PutWork(w)
      PROVE  TypeOK'
  <2>1. w.colo \in Colos /\ w.entry \in Entry
    BY <1>9 DEF PutWork, TypeOK, Work
  <2>2. cached' \in [Colos -> Cached \cup {None}] /\ late' \subseteq Colos
    BY <1>9, <2>1, PutType DEF PutWork
  <2> QED
    BY <1>9, <2>2 DEF PutWork, TypeOK
<1>10. ASSUME NEW w \in works, DropWork(w)
       PROVE  TypeOK'
  BY <1>10 DEF DropWork, TypeOK
<1>11. CASE RevalidateTag
  BY <1>11 DEF RevalidateTag, TypeOK
<1>12. ASSUME NEW tag \in Purgeable, Purge(tag)
       PROVE  TypeOK'
  BY <1>12 DEF Purge, TypeOK
<1>13. CASE Tick
  BY <1>13 DEF Tick, TypeOK
<1>14. CASE UNCHANGED vars
  BY <1>14 DEF vars, TypeOK
<1> QED
  BY <1>1, <1>2, <1>3, <1>4, <1>5, <1>6, <1>7, <1>8, <1>9, <1>10, <1>11, <1>12, <1>13, <1>14 DEF Next

-----------------------------------------------------------------------------
(* The history of the store.                                               *)

LEMMA StoreAppends ==
    ASSUME TypeOK, NEW s \in Ops, NEW what \in {"set", "delete"}, Store(s, what)
    PROVE  /\ Len(stored') = Len(stored) + 1
           /\ DOMAIN stored = 1 .. Len(stored) /\ DOMAIN stored' = 1 .. Len(stored) + 1
           /\ \A i \in DOMAIN stored : stored'[i] = stored[i]
           /\ stored'[Len(stored) + 1].by = s
           /\ stored'[Len(stored) + 1].value = IF what = "set" THEN s ELSE None
           /\ stored'[Len(stored) + 1].at \in Nat /\ stored'[Len(stored) + 1].at <= now
           /\ stored'[Len(stored) + 1].written = now
<1>1. PICK date \in Dates :
          stored' = Append(stored, [by |-> s, value |-> IF what = "set" THEN s ELSE None,
                                    at |-> date, written |-> now])
  BY DEF Store
<1>2. date \in Nat /\ date <= now
  BY <1>1 DEF Dates, TypeOK
<1>3. stored \in Seq(Stored)
  BY DEF TypeOK
<1> QED
  BY <1>1, <1>2, <1>3

\* Any other step leaves the store alone, and no call becomes idle again.
Elsewhere ==
    /\ UNCHANGED <<config, stored>> /\ now' \in {now, now + 1}
    /\ \A t \in Ops : op[t] # "idle" => op'[t] # "idle"

LEMMA StoreOrElsewhere ==
    ASSUME TypeOK, [Next]_vars
    PROVE  (\E s \in Ops, what \in {"set", "delete"} : Store(s, what)) \/ Elsewhere
<1> USE DEF TypeOK, Elsewhere, writing
<1>1. ASSUME NEW s \in Ops, NEW what \in {"set", "delete"},
             StoreFails(s, what) \/ ReadOnly(s, what) \/ StoreThrows(s, what)
      PROVE  Elsewhere
  BY <1>1 DEF StoreFails, ReadOnly, StoreThrows, Thrown, Wrote
<1>2. ASSUME NEW s \in Ops, Finish(s) \/ FinishFails(s)
      PROVE  Elsewhere
  BY <1>2 DEF Finish, FinishFails, Ended
<1>3. ASSUME NEW g \in Gets, Match(g) \/ Read(g) \/ ReadFails(g)
      PROVE  Elsewhere
  BY <1>3 DEF Match, Read, ReadFails
<1>4. ASSUME NEW w \in works, Refresh(w) \/ PutWork(w) \/ DropWork(w)
      PROVE  Elsewhere
  BY <1>4 DEF Refresh, PutWork, DropWork
<1>5. CASE RevalidateTag \/ (\E tag \in Purgeable : Purge(tag)) \/ Tick \/ UNCHANGED vars
  BY <1>5 DEF RevalidateTag, Purge, Tick, vars
<1> HIDE DEF Elsewhere
<1> QED
  BY <1>1, <1>2, <1>3, <1>4, <1>5 DEF Next

LEMMA HistoryStep ==
    ASSUME TypeOK, HistoryInv, [Next]_vars
    PROVE  HistoryInv'
<1>1. ASSUME NEW s \in Ops, NEW what \in {"set", "delete"}, Store(s, what)
      PROVE  HistoryInv'
  <2>1. PICK n \in Nat : n = Len(stored)
    BY HeldType
  <2>2. /\ DOMAIN stored = 1 .. n /\ DOMAIN stored' = 1 .. n + 1
        /\ \A i \in 1 .. n : stored'[i] = stored[i] /\ stored[i] \in Stored
        /\ stored'[n + 1].by = s /\ stored'[n + 1].value \in {s, None}
        /\ stored'[n + 1].at <= now /\ stored'[n + 1].written = now
    BY <1>1, <2>1, StoreAppends, HeldType
  <2>3. /\ op[s] = "idle" /\ now' = now /\ now \in Nat
        /\ op'[s] = "stored" /\ \A t \in Ops : t # s => op'[t] = op[t]
    BY <1>1 DEF Store, Wrote, TypeOK
  <2>4. \A i \in 1 .. n : stored[i].by # s
    BY <2>2, <2>3 DEF HistoryInv
  <2>5. \A i \in 1 .. n + 1 :
          /\ stored'[i].value \in {stored'[i].by, None}
          /\ stored'[i].at <= stored'[i].written
          /\ stored'[i].written <= now'
          /\ stored'[i].by \in Ops => op'[stored'[i].by] # "idle"
    <3> TAKE i \in 1 .. n + 1
    <3>1. CASE i = n + 1
      BY <2>2, <2>3, <3>1
    <3>2. CASE i \in 1 .. n
      BY <2>2, <2>3, <2>4, <3>2 DEF HistoryInv
    <3> QED
      BY <3>1, <3>2
  <2>6. \A i, j \in 1 .. n + 1 : stored'[i].by = stored'[j].by => i = j
    <3> SUFFICES ASSUME NEW i \in 1 .. n + 1, NEW j \in 1 .. n + 1, stored'[i].by = stored'[j].by
                 PROVE  i = j
      OBVIOUS
    <3>1. CASE i \in 1 .. n /\ j \in 1 .. n
      BY <2>2, <3>1 DEF HistoryInv
    <3>2. CASE i = n + 1 \/ j = n + 1
      BY <2>2, <2>4, <3>2
    <3> QED
      BY <3>1, <3>2
  <2>7. \A i, j \in 1 .. n + 1 : i <= j => stored'[i].written <= stored'[j].written
    <3> SUFFICES ASSUME NEW i \in 1 .. n + 1, NEW j \in 1 .. n + 1, i <= j
                 PROVE  stored'[i].written <= stored'[j].written
      OBVIOUS
    <3>1. CASE j \in 1 .. n
      BY <2>2, <3>1 DEF HistoryInv
    <3>2. CASE j = n + 1
      BY <2>2, <2>3, <2>5, <3>2
    <3> QED
      BY <3>1, <3>2
  <2> QED
    BY <2>2, <2>5, <2>6, <2>7 DEF HistoryInv
<1>2. CASE Elsewhere
  <2>1. now' \in Nat /\ now <= now' /\ \A i \in DOMAIN stored : stored[i].written \in Nat
    BY <1>2, HeldType DEF Elsewhere, TypeOK, Stored
  <2> QED
    BY <1>2, <2>1 DEF HistoryInv, Elsewhere, TypeOK
<1> QED
  BY <1>1, <1>2, StoreOrElsewhere

LEMMA OpStep ==
    ASSUME TypeOK, HistoryInv, OpInv, [Next]_vars
    PROVE  OpInv'
<1> USE ConstantsAssumption DEF writing
<1>1. ASSUME NEW s \in Ops, NEW what \in {"set", "delete"}, Store(s, what)
      PROVE  OpInv'
  <2>1. PICK n \in Nat : n = Len(stored)
    BY HeldType
  <2>2. /\ DOMAIN stored = 1 .. n /\ DOMAIN stored' = 1 .. n + 1
        /\ \A i \in 1 .. n : stored'[i] = stored[i]
        /\ stored'[n + 1].by = s /\ stored'[n + 1].written = now
        /\ what = "set" => stored'[n + 1].value = s
    BY <1>1, <2>1, StoreAppends
  <2>3. /\ now' = now /\ failed' = failed /\ op[s] = "idle"
        /\ op' = [op EXCEPT ![s] = "stored"] /\ since' = [since EXCEPT ![s] = now]
        /\ doing' = [doing EXCEPT ![s] = what]
    BY <1>1 DEF Store, Wrote
  <2>4. \A i \in 1 .. n : stored[i].by # s
    BY <2>2, <2>3 DEF HistoryInv
  <2>5. ASSUME NEW t \in Ops, op'[t] = "stored"
        PROVE  /\ since'[t] <= now' /\ now' <= since'[t] + WorkLimit
               /\ \A i \in 1 .. n + 1 : stored'[i].by = t => stored'[i].written = since'[t]
               /\ t \notin failed => \E i \in 1 .. n + 1 : stored'[i].by = t
               /\ t \notin failed /\ doing'[t] = "set" => \E i \in 1 .. n + 1 : stored'[i].value = t
    <3>1. CASE t = s
      <4>1. since'[t] = now /\ doing'[t] = what /\ now \in Nat
        BY <2>3, <3>1 DEF TypeOK
      <4>2. n + 1 \in 1 .. n + 1
        OBVIOUS
      <4>3. since'[t] <= now' /\ now' <= since'[t] + WorkLimit
        BY <2>3, <4>1
      <4>4. \A i \in 1 .. n + 1 : stored'[i].by = t => stored'[i].written = since'[t]
        <5> SUFFICES ASSUME NEW i \in 1 .. n + 1, stored'[i].by = t
                     PROVE  stored'[i].written = since'[t]
          OBVIOUS
        <5>1. i = n + 1
          BY <2>2, <2>4, <3>1
        <5> QED
          BY <2>2, <4>1, <5>1
      <4>5. stored'[n + 1].by = t /\ (doing'[t] = "set" => stored'[n + 1].value = t)
        BY <2>2, <3>1, <4>1
      <4> QED
        BY <4>2, <4>3, <4>4, <4>5
    <3>2. CASE t # s
      <4>1. op[t] = "stored" /\ since'[t] = since[t] /\ doing'[t] = doing[t]
        BY <2>3, <2>5, <3>2 DEF TypeOK
      <4>2. \A i \in 1 .. n + 1 : stored'[i].by = t => stored'[i].written = since'[t]
        <5> SUFFICES ASSUME NEW i \in 1 .. n + 1, stored'[i].by = t
                     PROVE  stored'[i].written = since'[t]
          OBVIOUS
        <5>1. i \in 1 .. n
          BY <2>2, <3>2
        <5> QED
          BY <2>2, <4>1, <5>1 DEF OpInv
      <4>3. \A i \in 1 .. n : i \in 1 .. n + 1
        OBVIOUS
      <4>4. since'[t] <= now' /\ now' <= since'[t] + WorkLimit
        <5>1. since[t] <= now /\ now <= since[t] + WorkLimit
          BY <4>1 DEF OpInv
        <5> QED
          BY <2>3, <4>1, <5>1, Zenon
      <4>5. t \notin failed => \E i \in 1 .. n + 1 : stored'[i].by = t
        <5>1. t \notin failed => \E i \in 1 .. n : stored[i].by = t
          BY <2>2, <4>1 DEF OpInv
        <5> QED
          BY <2>2, <4>3, <5>1
      <4>6. t \notin failed /\ doing'[t] = "set" => \E i \in 1 .. n + 1 : stored'[i].value = t
        <5>1. t \notin failed /\ doing'[t] = "set" => \E i \in 1 .. n : stored[i].value = t
          BY <2>2, <4>1 DEF OpInv
        <5> QED
          BY <2>2, <4>3, <5>1
      <4> QED
        BY <4>2, <4>4, <4>5, <4>6
    <3> QED
      BY <3>1, <3>2
  <2>6. DOMAIN stored' = 1 .. n + 1 /\ failed' = failed
    BY <2>2, <2>3
  <2>7. \A t \in Ops : op'[t] = "stored" =>
            /\ since'[t] <= now' /\ now' <= since'[t] + WorkLimit
            /\ \A i \in DOMAIN stored' : stored'[i].by = t => stored'[i].written = since'[t]
            /\ t \notin failed' => \E i \in DOMAIN stored' : stored'[i].by = t
            /\ t \notin failed' /\ doing'[t] = "set" => \E i \in DOMAIN stored' : stored'[i].value = t
    BY <2>5, <2>6, Zenon
  <2> QED
    BY <2>7, Zenon DEF OpInv
<1>2. ASSUME NEW s \in Ops, NEW what \in {"set", "delete"}, StoreFails(s, what) \/ ReadOnly(s, what)
      PROVE  OpInv'
  <2>1. /\ now' = now /\ stored' = stored /\ failed' = failed \cup {s} /\ op[s] = "idle"
        /\ op' = [op EXCEPT ![s] = "stored"] /\ since' = [since EXCEPT ![s] = now]
        /\ doing' = [doing EXCEPT ![s] = what]
    BY <1>2 DEF StoreFails, ReadOnly, Wrote
  <2>2. \A i \in DOMAIN stored : stored[i].by # s
    BY <2>1 DEF HistoryInv
  <2> QED
    BY <2>1, <2>2 DEF OpInv, TypeOK
<1>3. ASSUME NEW s \in Ops,
             Finish(s) \/ FinishFails(s) \/ \E what \in {"set", "delete"} : StoreThrows(s, what)
      PROVE  OpInv'
  <2>1. /\ now' = now /\ stored' = stored /\ failed \subseteq failed' /\ op'[s] = "done"
        /\ doing' = doing
        /\ \A t \in Ops : t # s => op'[t] = op[t] /\ since'[t] = since[t]
    BY <1>3 DEF Finish, FinishFails, Ended, StoreThrows, Thrown, TypeOK
  <2> QED
    BY <2>1 DEF OpInv
<1>4. CASE Tick
  <2>1. UNCHANGED <<stored, writing>> /\ now' = now + 1 /\ now \in Nat
    BY <1>4 DEF Tick, TypeOK
  <2>2. ASSUME NEW s \in Ops, op[s] = "stored"
        PROVE  since[s] <= now' /\ now' <= since[s] + WorkLimit
    <3>1. since[s] <= now /\ now < since[s] + WorkLimit /\ since[s] \in Nat /\ WorkLimit \in Nat
      BY <1>4, <2>2 DEF Tick, OpInv, TypeOK
    <3> QED
      BY <2>1, <3>1
  <2> QED
    BY <2>1, <2>2 DEF OpInv
<1>5. ASSUME UNCHANGED <<now, stored, writing>>
      PROVE  OpInv'
  BY <1>5 DEF OpInv
<1>6. ASSUME NEW g \in Gets, Match(g) \/ Read(g) \/ ReadFails(g)
      PROVE  UNCHANGED <<now, stored, writing>>
  BY <1>6 DEF Match, Read, ReadFails
<1>7. ASSUME NEW w \in works, Refresh(w) \/ PutWork(w) \/ DropWork(w)
      PROVE  UNCHANGED <<now, stored, writing>>
  BY <1>7 DEF Refresh, PutWork, DropWork
<1>8. CASE RevalidateTag \/ (\E tag \in Purgeable : Purge(tag)) \/ UNCHANGED vars
  <2>1. UNCHANGED <<now, stored, writing>>
    BY <1>8 DEF RevalidateTag, Purge, vars
  <2> QED
    BY <2>1, <1>5
<1> QED
  BY <1>1, <1>2, <1>3, <1>4, <1>5, <1>6, <1>7, <1>8 DEF Next

-----------------------------------------------------------------------------
(* What is put later.                                                      *)

\* An entry, read or written at a time between since and now, may be put.
Puttable(e, begun) ==
    /\ e.at <= now
    /\ \E i \in DOMAIN stored : stored[i].value = e.value
    /\ \A i \in DOMAIN stored : stored[i].value = e.value =>
        /\ e.at <= stored[i].written + WorkLimit
        /\ i < Len(stored) => begun <= stored[i + 1].written + StoreLag

LEMMA ReadPuttable ==
    ASSUME TypeOK, HistoryInv, NEW e \in Readable, HasValue(e), NEW begun \in Nat, begun <= now
    PROVE  Puttable(EntryOf(e), begun)
<1>1. PICK k \in DOMAIN stored :
        /\ e = stored[k]
        /\ k < Len(stored) => now <= stored[k + 1].written + StoreLag
  BY ReadableType
<1>2. /\ stored[k].at \in Nat /\ stored[k].written \in Nat /\ now \in Nat
      /\ stored[k].at <= stored[k].written /\ stored[k].written <= now
  BY HeldType DEF HistoryInv, TypeOK, Stored
<1>3. ASSUME NEW i \in DOMAIN stored, stored[i].value = e.value
      PROVE  i = k
  <2>1. stored[i].by = stored[i].value /\ stored[k].by = stored[k].value
    BY <1>1, <1>3 DEF HistoryInv, HasValue
  <2> QED
    BY <1>1, <1>3, <2>1 DEF HistoryInv
<1>4. EntryOf(e).value = e.value /\ EntryOf(e).at = e.at
  BY DEF EntryOf
<1>5. k < Len(stored) => begun <= stored[k + 1].written + StoreLag
  <2>1. k < Len(stored) => stored[k + 1].written \in Nat
    BY HeldType DEF Stored
  <2> QED
    BY <1>1, <1>2, <2>1, LagType
<1>6. stored[k].at <= stored[k].written + WorkLimit
  BY <1>2, LagType
<1> QED
  BY <1>1, <1>2, <1>3, <1>4, <1>5, <1>6 DEF Puttable

\* It still may when the store is written, and later.
LEMMA StillPuttable ==
    ASSUME TypeOK, [Next]_vars, NEW e \in Entry, NEW begun \in Nat, begun <= now,
           Puttable(e, begun)
    PROVE  /\ e.at <= now'
           /\ \E i \in DOMAIN stored' : stored'[i].value = e.value
           /\ \A i \in DOMAIN stored' : stored'[i].value = e.value =>
                /\ e.at <= stored'[i].written + WorkLimit
                /\ i < Len(stored') => begun <= stored'[i + 1].written + StoreLag'
<1>0. now \in Nat /\ e.at \in Nat /\ e.at <= now /\ StoreLag \in Nat /\ WorkLimit \in Nat
  BY LagType DEF TypeOK, Entry, Puttable
<1>1. ASSUME NEW s \in Ops, NEW what \in {"set", "delete"}, Store(s, what)
      PROVE  /\ e.at <= now'
             /\ \E i \in DOMAIN stored' : stored'[i].value = e.value
             /\ \A i \in DOMAIN stored' : stored'[i].value = e.value =>
                  /\ e.at <= stored'[i].written + WorkLimit
                  /\ i < Len(stored') => begun <= stored'[i + 1].written + StoreLag'
  <2>1. PICK n \in Nat : n = Len(stored)
    BY HeldType
  <2>2. /\ DOMAIN stored = 1 .. n /\ DOMAIN stored' = 1 .. n + 1 /\ Len(stored') = n + 1
        /\ \A i \in 1 .. n : stored'[i] = stored[i]
        /\ stored'[n + 1].written = now
    BY <1>1, <2>1, StoreAppends
  <2>3. now' = now /\ StoreLag' = StoreLag
    BY <1>1 DEF Store, StoreLag
  <2>4. \E i \in DOMAIN stored' : stored'[i].value = e.value
    <3>1. PICK i \in 1 .. n : stored[i].value = e.value
      BY <2>2 DEF Puttable
    <3>2. i \in 1 .. n + 1 /\ stored'[i].value = e.value
      BY <2>2, <3>1
    <3> QED
      BY <2>2, <3>2
  <2>5. ASSUME NEW i \in 1 .. n + 1, stored'[i].value = e.value
        PROVE  /\ e.at <= stored'[i].written + WorkLimit
               /\ i < n + 1 => begun <= stored'[i + 1].written + StoreLag
    <3>1. CASE i = n + 1
      BY <1>0, <2>2, <3>1
    <3>2. CASE i = n
      <4>1. e.at <= stored[i].written + WorkLimit
        BY <2>2, <2>5, <3>2 DEF Puttable
      <4> QED
        BY <1>0, <2>2, <3>2, <4>1
    <3>3. CASE i \in 1 .. n /\ i # n
      <4>1. i + 1 \in 1 .. n /\ i < n
        BY <3>3
      <4> QED
        BY <2>1, <2>2, <2>5, <3>3, <4>1 DEF Puttable
    <3> QED
      BY <3>1, <3>2, <3>3
  <2> QED
    BY <1>0, <2>2, <2>3, <2>4, <2>5
<1>2. CASE Elsewhere
  <2>1. stored' = stored /\ now <= now' /\ StoreLag' = StoreLag /\ now' \in Nat
    BY <1>0, <1>2 DEF Elsewhere, StoreLag
  <2> QED
    BY <1>0, <2>1 DEF Puttable
<1> QED
  BY <1>1, <1>2, StoreOrElsewhere

LEMMA WorkStep ==
    ASSUME TypeOK, HistoryInv, WorkInv, [Next]_vars
    PROVE  WorkInv'
<1> USE ConstantsAssumption DEF writing
<1>1. ASSUME NEW w \in works, w \in works'
      PROVE  w.entry # None =>
                /\ w.entry.at <= now'
                /\ \E i \in DOMAIN stored' : stored'[i].value = w.entry.value
                /\ \A i \in DOMAIN stored' : stored'[i].value = w.entry.value =>
                    /\ w.entry.at <= stored'[i].written + WorkLimit
                    /\ i < Len(stored') => w.since <= stored'[i + 1].written + StoreLag'
  <2>1. w \in Work
    BY DEF TypeOK
  <2>2. w.entry # None => w.entry \in Entry /\ Puttable(w.entry, w.since)
    BY <2>1 DEF WorkInv, Puttable, Work
  <2>3. w.since \in Nat /\ w.since <= now
    BY <2>1 DEF WorkInv, Work
  <2> QED
    BY <2>2, <2>3, StillPuttable
<1>2. ASSUME NEW w \in works, w \in works'
      PROVE  w.since <= now' /\ now' <= w.since + WorkLimit
  <2>1. w.since <= now /\ now <= w.since + WorkLimit /\ w.since \in Nat /\ now \in Nat
    BY DEF WorkInv, TypeOK, Work
  <2>2. CASE Tick
    BY <2>1, <2>2 DEF Tick
  <2>3. CASE ~Tick
    <3>1. now' = now
      BY <2>3 DEF Next, vars, Store, StoreFails, ReadOnly, StoreThrows, Finish, FinishFails, Ended,
                  Match, Read, ReadFails, Refresh, PutWork, DropWork, RevalidateTag, Purge
    <3> QED
      BY <2>1, <3>1
  <2> QED
    BY <2>2, <2>3
<1>3. ASSUME NEW w \in works', w \notin works
      PROVE  /\ w.since <= now' /\ now' <= w.since + WorkLimit
             /\ UNCHANGED <<config, now, stored>>
             /\ w.entry # None => Puttable(w.entry, w.since)
  <2>1. ASSUME NEW g \in Gets, Match(g)
        PROVE  /\ w.since = now /\ w.entry = None
               /\ UNCHANGED <<config, now, stored>>
    BY <1>3, <2>1 DEF Match
  <2>2. ASSUME NEW g \in Gets, Read(g)
        PROVE  /\ w.since = now /\ Puttable(w.entry, w.since)
               /\ UNCHANGED <<config, now, stored>>
    <3>1. PICK e \in Readable :
            works' = IF ~HasValue(e) THEN works
                     ELSE works \cup {[by |-> g, colo |-> GetColo[g], entry |-> EntryOf(e),
                                       since |-> now]}
      BY <2>2 DEF Read
    <3>2. HasValue(e) /\ w.since = now /\ w.entry = EntryOf(e)
      BY <1>3, <3>1
    <3>3. now \in Nat /\ now <= now
      BY DEF TypeOK
    <3>4. Puttable(EntryOf(e), now)
      BY <3>2, <3>3, ReadPuttable
    <3> QED
      BY <2>2, <3>2, <3>4 DEF Read
  <2>3. ASSUME NEW v \in works, Refresh(v)
        PROVE  /\ w.since = v.since /\ Puttable(w.entry, w.since)
               /\ UNCHANGED <<config, now, stored>>
    <3>1. PICK e \in Readable :
            works' = (works \ {v}) \cup {[v EXCEPT !.entry = EntryOf(x)] : x \in {y \in {e} : HasValue(y)}}
      BY <2>3 DEF Refresh
    <3>2. HasValue(e) /\ w = [v EXCEPT !.entry = EntryOf(e)]
      BY <1>3, <3>1, Zenon
    <3>3. v \in Work /\ v.since \in Nat /\ v.since <= now
      BY DEF TypeOK, WorkInv, Work
    <3>4. w.since = v.since /\ w.entry = EntryOf(e)
      BY <3>2, <3>3 DEF Work
    <3>5. Puttable(EntryOf(e), v.since)
      BY <3>2, <3>3, ReadPuttable
    <3> QED
      BY <2>3, <3>4, <3>5 DEF Refresh
  <2>4. CASE works' \subseteq works
    BY <1>3, <2>4
  <2>5. \/ \E g \in Gets : Match(g) \/ Read(g)
        \/ \E v \in works : Refresh(v)
        \/ works' \subseteq works
    BY DEF Next, vars, Store, StoreFails, ReadOnly, StoreThrows, Finish, FinishFails, Ended,
           ReadFails, PutWork, DropWork, RevalidateTag, Purge, Tick
  <2>6. now \in Nat /\ \A v \in works : v.since \in Nat /\ v.since <= now /\ now <= v.since + WorkLimit
    BY DEF WorkInv, TypeOK, Work
  <2> QED
    BY <2>1, <2>2, <2>3, <2>4, <2>5, <2>6
<1>4. ASSUME NEW w \in works', w \notin works, w.entry # None
      PROVE  /\ w.entry.at <= now'
             /\ \E i \in DOMAIN stored' : stored'[i].value = w.entry.value
             /\ \A i \in DOMAIN stored' : stored'[i].value = w.entry.value =>
                /\ w.entry.at <= stored'[i].written + WorkLimit
                /\ i < Len(stored') => w.since <= stored'[i + 1].written + StoreLag'
  BY <1>3, <1>4 DEF Puttable, StoreLag
<1> QED
  BY <1>1, <1>2, <1>3, <1>4 DEF WorkInv

-----------------------------------------------------------------------------
(* What the regional caches hold.                                          *)

LEMMA CachedType == ASSUME TypeOK, NEW c \in Colos, cached[c] # None
                    PROVE  cached[c] \in Cached
  BY DEF TypeOK

LEMMA StillKept ==
    ASSUME TypeOK, [Next]_vars, NEW x \in Cached, Kept(x),
           Purged' => x.put >= purgedAt'
    PROVE  Kept(x)'
<1>0. /\ now \in Nat /\ x.at \in Nat /\ x.put \in Nat /\ StoreLag \in Nat /\ WorkLimit \in Nat
      /\ x.at <= now /\ x.put <= now
  BY LagType DEF TypeOK, Cached, Kept
<1>1. failed \subseteq failed'
  BY DEF Next, vars, writing, Store, StoreFails, ReadOnly, StoreThrows, Thrown, Wrote, Finish, FinishFails,
         Ended, Match, Read, ReadFails, Refresh, PutWork, DropWork, RevalidateTag, Purge, Tick
<1>2. Purged' => x.put >= purgedAt'
  OBVIOUS
<1>3. ASSUME NEW s \in Ops, NEW what \in {"set", "delete"}, Store(s, what)
      PROVE  Kept(x)'
  <2>1. PICK n \in Nat : n = Len(stored)
    BY HeldType
  <2>2. /\ DOMAIN stored = 1 .. n /\ DOMAIN stored' = 1 .. n + 1 /\ Len(stored') = n + 1
        /\ \A i \in 1 .. n : stored'[i] = stored[i]
        /\ stored'[n + 1].written = now
    BY <1>3, <2>1, StoreAppends
  <2>3. now' = now /\ StoreLag' = StoreLag /\ TtlOf(x.value)' = TtlOf(x.value)
    BY <1>3 DEF Store, StoreLag, TtlOf
  <2>4. (\E i \in DOMAIN stored' : stored'[i].value = x.value) \/ x.value \in failed'
    <3>1. CASE x.value \in failed
      BY <1>1, <3>1
    <3>2. CASE \E i \in DOMAIN stored : stored[i].value = x.value
      <4>1. PICK i \in 1 .. n : stored[i].value = x.value
        BY <2>2, <3>2
      <4>2. i \in 1 .. n + 1 /\ stored'[i].value = x.value
        BY <2>2, <4>1
      <4> QED
        BY <2>2, <4>2
    <3> QED
      BY <3>1, <3>2 DEF Kept
  <2>6. (\A i \in DOMAIN stored' : stored'[i].value # x.value) => x.put <= x.at + WorkLimit
    <3>1. \A i \in 1 .. n : i \in 1 .. n + 1
      OBVIOUS
    <3> QED
      BY <2>2, <3>1 DEF Kept
  <2>5. ASSUME NEW i \in 1 .. n + 1, stored'[i].value = x.value
        PROVE  /\ x.at <= stored'[i].written + WorkLimit
               /\ i < n + 1 => x.put <= stored'[i + 1].written + StoreLag + WorkLimit
    <3>1. CASE i = n + 1
      BY <1>0, <2>2, <3>1
    <3>2. CASE i = n
      <4>1. x.at <= stored[i].written + WorkLimit
        BY <2>2, <2>5, <3>2 DEF Kept
      <4> QED
        BY <1>0, <2>2, <3>2, <4>1
    <3>3. CASE i \in 1 .. n /\ i # n
      <4>1. i + 1 \in 1 .. n /\ i < n
        BY <3>3
      <4> QED
        BY <2>1, <2>2, <2>5, <3>3, <4>1 DEF Kept
    <3> QED
      BY <3>1, <3>2, <3>3
  <2> QED
    BY <1>0, <1>2, <2>2, <2>3, <2>4, <2>5, <2>6 DEF Kept
<1>4. CASE Elsewhere
  <2>1. /\ stored' = stored /\ now <= now' /\ StoreLag' = StoreLag /\ now' \in Nat
        /\ TtlOf(x.value)' = TtlOf(x.value)
    BY <1>0, <1>4 DEF Elsewhere, StoreLag, TtlOf
  <2> QED
    BY <1>0, <1>1, <1>2, <2>1 DEF Kept
<1> QED
  BY <1>3, <1>4, StoreOrElsewhere

\* What a Put() puts is kept from now on.
LEMMA PutKept ==
    ASSUME TypeOK, purgedAt <= now, NEW c \in Colos, NEW e \in Entry, Put(c, e),
           UNCHANGED <<config, now, stored, purgedAt>>, failed \subseteq failed',
           e.at <= now,
           (\A i \in DOMAIN stored : stored[i].value # e.value) => now <= e.at + WorkLimit,
           (\E i \in DOMAIN stored : stored[i].value = e.value) \/ e.value \in failed,
           \A i \in DOMAIN stored : stored[i].value = e.value =>
              /\ e.at <= stored[i].written + WorkLimit
              /\ i < Len(stored) => now <= stored[i + 1].written + StoreLag + WorkLimit
    PROVE  /\ \A d \in Colos : d # c => cached'[d] = cached[d]
           /\ \E x : cached'[c] = x /\ Kept(x)'
<1>1. \A d \in Colos : d # c => cached'[d] = cached[d]
  BY DEF Put, TypeOK
<1>2. PICK x : x = [value |-> e.value, at |-> e.at, until |-> now + TtlOf(e.value), put |-> now]
  OBVIOUS
<1>3. cached'[c] = x
  BY <1>2 DEF Put, TypeOK
<1>4. x.value = e.value /\ x.at = e.at /\ x.until = now + TtlOf(e.value) /\ x.put = now
  BY <1>2
<1>5. now \in Nat /\ purgedAt \in Nat
  BY DEF TypeOK
<1>6. StoreLag' = StoreLag /\ TtlOf(x.value)' = TtlOf(x.value)
  BY DEF StoreLag, TtlOf
<1>7. Kept(x)'
  BY <1>4, <1>5, <1>6 DEF Kept, Purged
<1> QED
  BY <1>1, <1>3, <1>7

LEMMA CacheStep ==
    ASSUME TypeOK, purgedAt <= now, HistoryInv, OpInv, WorkInv, CacheInv, [Next]_vars
    PROVE  CacheInv'
<1> USE ConstantsAssumption DEF writing
<1>1. SUFFICES ASSUME NEW c \in Colos, cached'[c] # None
               PROVE  \E x : cached'[c] = x /\ Kept(x)'
  BY DEF CacheInv, Kept
<1>2. CASE cached'[c] = cached[c] /\ UNCHANGED <<purgedAt, purged>>
  <2>0. Purged' = Purged
    <3>1. config' = config
      BY StoreOrElsewhere DEF Elsewhere, Store
    <3> QED
      BY <1>2, <3>1 DEF Purged, CacheTag, Default
  <2>1. PICK x : x = cached[c]
    OBVIOUS
  <2>2. x \in Cached /\ Kept(x)
    BY <1>1, <1>2, <2>1, CachedType DEF CacheInv
  <2>3. Purged' => x.put >= purgedAt'
    BY <1>2, <2>0, <2>2 DEF Kept
  <2> QED
    BY <1>2, <2>1, <2>2, <2>3, StillKept
<1>3. ASSUME NEW s \in Ops, Finish(s)
      PROVE  \E x : cached'[c] = x /\ Kept(x)'
  <2>1. PICK date \in since[s] .. now :
          /\ op[s] = "stored"
          /\ IF doing[s] = "set" THEN Put(ColoOf[s], [value |-> s, at |-> date])
             ELSE Delete(ColoOf[s])
    BY <1>3 DEF Finish
  <2>2. UNCHANGED <<config, now, stored, purgedAt, purged, failed>> /\ ColoOf[s] \in Colos
    BY <1>3 DEF Finish, Ended, tagging
  <2>3. CASE doing[s] # "set"
    BY <1>1, <1>2, <2>1, <2>2, <2>3 DEF Delete, TypeOK
  <2>4. CASE doing[s] = "set"
    <3>1. PICK e : e = [value |-> s, at |-> date]
      OBVIOUS
    <3>2. /\ since[s] \in Nat /\ date \in Nat /\ date <= now /\ now \in Nat
          /\ now <= since[s] + WorkLimit /\ StoreLag \in Nat /\ WorkLimit \in Nat
      BY <2>1, LagType DEF TypeOK, OpInv
    <3>3. e \in Entry /\ e.value = s /\ e.at = date
      BY <3>1, <3>2 DEF Entry, Values
    <3>4. (\E i \in DOMAIN stored : stored[i].value = s) \/ s \in failed
      BY <2>1, <2>4 DEF OpInv
    <3>5. ASSUME NEW i \in DOMAIN stored, stored[i].value = s
          PROVE  /\ date <= stored[i].written + WorkLimit
                 /\ i < Len(stored) => now <= stored[i + 1].written + StoreLag + WorkLimit
      <4>1. stored[i].by = s
        BY <3>5 DEF HistoryInv, Values
      <4>2. stored[i].written = since[s]
        BY <2>1, <4>1 DEF OpInv
      <4>3. i < Len(stored) => /\ stored[i + 1].written \in Nat
                               /\ stored[i].written <= stored[i + 1].written
        <5>1. i < Len(stored) => i + 1 \in DOMAIN stored /\ i <= i + 1
          BY HeldType
        <5> QED
          BY <5>1, HeldType DEF HistoryInv, Stored
      <4>4. date <= stored[i].written + WorkLimit
        BY <3>2, <4>2
      <4>5. ASSUME i < Len(stored)
            PROVE  now <= stored[i + 1].written + StoreLag + WorkLimit
        <5>1. PICK next : next = stored[i + 1].written
          OBVIOUS
        <5>2. next \in Nat /\ since[s] <= next
          BY <4>2, <4>3, <4>5, <5>1
        <5> QED
          BY <3>2, <5>1, <5>2
      <4> QED
        BY <4>4, <4>5
    <3>6. Put(ColoOf[s], e) /\ now <= date + WorkLimit
      BY <2>1, <2>4, <3>1, <3>2
    <3>7. ColoOf[s] \in Colos /\ UNCHANGED <<config, now, stored, purgedAt>> /\ failed \subseteq failed'
      BY <2>2, <3>2
    <3>8. /\ \A d \in Colos : d # ColoOf[s] => cached'[d] = cached[d]
          /\ \E x : cached'[ColoOf[s]] = x /\ Kept(x)'
      BY <2>2, <3>2, <3>3, <3>4, <3>5, <3>6, <3>7, PutKept
    <3> QED
      BY <1>2, <2>2, <3>8
  <2> QED
    BY <2>3, <2>4
<1>4. ASSUME NEW w \in works, PutWork(w)
      PROVE  \E x : cached'[c] = x /\ Kept(x)'
  <2>1. w \in Work /\ w.colo \in Colos /\ w.entry \in Entry /\ w.since \in Nat
    BY <1>4 DEF PutWork, TypeOK, Work
  <2>2. UNCHANGED <<config, now, stored, purgedAt, purged, failed>> /\ Put(w.colo, w.entry)
    BY <1>4 DEF PutWork, tagging
  <2>3. Puttable(w.entry, w.since) /\ now <= w.since + WorkLimit
    BY <1>4 DEF PutWork, WorkInv, Puttable
  <2>4. ASSUME NEW i \in DOMAIN stored, stored[i].value = w.entry.value
        PROVE  /\ w.entry.at <= stored[i].written + WorkLimit
               /\ i < Len(stored) => now <= stored[i + 1].written + StoreLag + WorkLimit
    <3>1. i < Len(stored) => stored[i + 1].written \in Nat
      <4>1. i < Len(stored) => i + 1 \in DOMAIN stored
        BY <2>4, HeldType
      <4> QED
        BY <4>1, HeldType DEF Stored
    <3>2. now \in Nat /\ StoreLag \in Nat /\ WorkLimit \in Nat
      BY LagType DEF TypeOK
    <3>3. w.entry.at <= stored[i].written + WorkLimit
      BY <2>3, <2>4 DEF Puttable
    <3>4. ASSUME i < Len(stored)
          PROVE  now <= stored[i + 1].written + StoreLag + WorkLimit
      <4>1. PICK next : next = stored[i + 1].written
        OBVIOUS
      <4>2. next \in Nat /\ w.since <= next + StoreLag
        BY <2>3, <2>4, <3>1, <3>4, <4>1 DEF Puttable
      <4> QED
        BY <2>1, <2>3, <3>2, <4>1, <4>2
    <3> QED
      BY <3>3, <3>4
  <2>5. \A d \in Colos : d # w.colo => cached'[d] = cached[d]
    BY <2>2 DEF Put, TypeOK
  <2>6. \E x : cached'[w.colo] = x /\ Kept(x)'
    BY <2>1, <2>2, <2>3, <2>4, PutKept DEF Puttable
  <2> QED
    BY <1>2, <2>2, <2>5, <2>6
<1>5. ASSUME NEW tag \in Purgeable, Purge(tag)
      PROVE  \E x : cached'[c] = x /\ Kept(x)'
  <2>1. tag \notin CacheTag /\ cached' = cached
    BY <1>1, <1>5 DEF Purge
  <2>2. ~Purged'
    BY <1>5, <2>1 DEF Purge, Purged, CacheTag, Default
  <2>3. PICK x : x = cached[c]
    OBVIOUS
  <2>4. x \in Cached /\ Kept(x)
    BY <1>1, <2>1, <2>3, CachedType DEF CacheInv
  <2> QED
    BY <2>1, <2>2, <2>3, <2>4, StillKept
<1>6. CASE Tick
  <2>1. cached'[c] = cached[c] /\ UNCHANGED <<purgedAt, purged>>
    BY <1>1, <1>6 DEF Tick, tagging
  <2> QED
    BY <1>2, <2>1
<1>7. \/ cached' = cached /\ UNCHANGED <<purgedAt, purged>>
      \/ \E s \in Ops : Finish(s)
      \/ \E w \in works : PutWork(w)
      \/ (\E tag \in Purgeable : Purge(tag)) \/ Tick
  BY DEF Next, vars, tagging, Store, StoreFails, ReadOnly, StoreThrows, FinishFails, Ended,
         Match, Read, ReadFails, Refresh, DropWork, RevalidateTag
<1> QED
  BY <1>2, <1>3, <1>4, <1>5, <1>6, <1>7

LEMMA CleanStep ==
    ASSUME TypeOK, HistoryInv, CleanInv, [Next]_vars
    PROVE  CleanInv'
<1> USE ConstantsAssumption DEF writing
<1>1. SUFFICES ASSUME NEW s \in Ops, s \notin failed', NEW c \in Colos, c = ColoOf[s],
                      NEW i \in DOMAIN stored', NEW j \in DOMAIN stored',
                      op'[s] = "done", stored'[j].by = s, i < j,
                      cached'[c] # None, stored'[i].value = cached'[c].value
               PROVE  c \in late'
  BY DEF CleanInv
<1>2. ASSUME op[s] = "done", s \notin failed, stored' = stored, cached'[c] = cached[c]
      PROVE  c \in late
  BY <1>1, <1>2 DEF CleanInv
<1>3. ASSUME NEW t \in Ops, NEW what \in {"set", "delete"}, Store(t, what)
      PROVE  c \in late'
  <2>1. PICK n \in Nat : n = Len(stored)
    BY HeldType
  <2>2. /\ DOMAIN stored = 1 .. n /\ DOMAIN stored' = 1 .. n + 1
        /\ \A k \in 1 .. n : stored'[k] = stored[k]
        /\ stored'[n + 1].by = t
    BY <1>3, <2>1, StoreAppends
  <2>3. /\ op' = [op EXCEPT ![t] = "stored"]
        /\ UNCHANGED <<cached, failed, late>>
    BY <1>3 DEF Store, Wrote
  <2>4. s # t /\ op[s] = "done"
    BY <1>1, <2>3 DEF TypeOK
  <2>5. i \in 1 .. n /\ j \in 1 .. n
    BY <1>1, <2>2, <2>4
  <2> QED
    BY <1>1, <2>2, <2>3, <2>4, <2>5 DEF CleanInv
<1>4. ASSUME NEW d \in Colos, NEW e \in Entry, Put(d, e), stored' = stored,
             d = c \/ (op[s] = "done" /\ s \notin failed)
      PROVE  c \in late'
  <2>1. CASE d = c
    <3>1. cached'[c].value = e.value
      BY <1>4, <2>1 DEF Put, TypeOK
    <3>2. i \in 1 .. Len(stored) - 1
      BY <1>1, <1>4, HeldType
    <3>3. Superseded(e.value)
      BY <1>1, <1>4, <3>1, <3>2 DEF Superseded
    <3> QED
      BY <1>4, <2>1, <3>3 DEF Put
  <2>2. CASE d # c
    <3>1. cached'[c] = cached[c] /\ late \ {d} \subseteq late'
      BY <1>4, <2>2 DEF Put, TypeOK
    <3> QED
      BY <1>2, <1>4, <2>2, <3>1
  <2> QED
    BY <2>1, <2>2
<1>5. ASSUME NEW t \in Ops, Finish(t)
      PROVE  c \in late'
  <2>1. PICK date \in since[t] .. now :
          IF doing[t] = "set" THEN Put(ColoOf[t], [value |-> t, at |-> date]) ELSE Delete(ColoOf[t])
    BY <1>5 DEF Finish
  <2>2. /\ stored' = stored /\ failed' = failed /\ op' = [op EXCEPT ![t] = "done"]
        /\ ColoOf[t] \in Colos /\ since[t] \in Nat /\ now \in Nat
    BY <1>5 DEF Finish, Ended, TypeOK
  <2>3. ColoOf[t] = c \/ (op[s] = "done" /\ s \notin failed)
    BY <1>1, <2>2 DEF TypeOK
  <2>4. CASE doing[t] = "set"
    <3>1. [value |-> t, at |-> date] \in Entry
      BY <2>1, <2>2 DEF Entry, Values
    <3> QED
      BY <1>4, <2>1, <2>2, <2>3, <2>4, <3>1
  <2>5. CASE doing[t] # "set"
    <3>1. Delete(ColoOf[t])
      BY <2>1, <2>5
    <3>2. c # ColoOf[t] /\ cached'[c] = cached[c] /\ late' = late \ {ColoOf[t]}
      BY <1>1, <2>2, <3>1 DEF Delete, TypeOK
    <3> QED
      BY <1>2, <2>2, <2>3, <3>2
  <2> QED
    BY <2>4, <2>5
<1>6. ASSUME NEW w \in works, PutWork(w)
      PROVE  c \in late'
  <2>1. w.colo \in Colos /\ w.entry \in Entry
    BY <1>6 DEF PutWork, TypeOK, Work
  <2>2. stored' = stored /\ op' = op /\ failed' = failed /\ Put(w.colo, w.entry)
    BY <1>6 DEF PutWork
  <2> QED
    BY <1>1, <1>4, <2>1, <2>2
<1>7. ASSUME UNCHANGED <<stored, cached, late>>, op'[s] = op[s] \/ s \in failed', failed \subseteq failed'
      PROVE  c \in late'
  BY <1>1, <1>2, <1>7
<1>8. ASSUME NEW t \in Ops,
             FinishFails(t) \/ \E what \in {"set", "delete"} :
                StoreFails(t, what) \/ ReadOnly(t, what) \/ StoreThrows(t, what)
      PROVE  c \in late'
  <2>1. /\ UNCHANGED <<stored, cached, late>> /\ failed' = failed \cup {t}
        /\ s # t => op'[s] = op[s]
    BY <1>8 DEF FinishFails, Ended, StoreFails, ReadOnly, StoreThrows, Thrown, Wrote, TypeOK
  <2> QED
    BY <1>7, <2>1
<1>9. ASSUME (\E g \in Gets : Match(g) \/ Read(g) \/ ReadFails(g))
             \/ (\E w \in works : Refresh(w) \/ DropWork(w)) \/ RevalidateTag \/ UNCHANGED vars
      PROVE  c \in late'
  <2>1. UNCHANGED <<stored, cached, late, op, failed>>
    BY <1>9 DEF Match, Read, ReadFails, Refresh, DropWork, RevalidateTag, vars
  <2> QED
    BY <1>7, <2>1
<1>10. ASSUME NEW tag \in Purgeable, Purge(tag)
       PROVE  c \in late'
  <2>1. UNCHANGED <<stored, op, failed>> /\ UNCHANGED <<cached, late>>
    BY <1>1, <1>10 DEF Purge
  <2> QED
    BY <1>7, <2>1
<1>11. CASE Tick
  <2>1. cached'[c] = cached[c] /\ stored' = stored /\ op' = op /\ failed' = failed
    BY <1>1, <1>11 DEF Tick
  <2>2. c \in late
    BY <1>1, <1>2, <2>1
  <2> QED
    BY <1>1, <1>11, <2>2 DEF Tick
<1> QED
  BY <1>3, <1>5, <1>6, <1>8, <1>9, <1>10, <1>11 DEF Next

-----------------------------------------------------------------------------
(* Invariance.                                                             *)

LEMMA InvInit == Init => Inv
<1> SUFFICES ASSUME Init PROVE Inv
  OBVIOUS
<1>1. TypeOK
  BY TypeInit
<1>2. /\ Len(stored) = 1 /\ DOMAIN stored = {1} /\ stored[1].by = Build /\ stored[1].value = Build
      /\ stored[1].at = 1 /\ stored[1].written = 1 /\ now = 1
  BY DEF Init
<1>3. HistoryInv
  BY <1>2, ConstantsAssumption DEF HistoryInv, Values
<1>4. OpInv /\ WorkInv /\ CacheInv /\ CleanInv /\ purgedAt <= now
  BY <1>2 DEF Init, OpInv, WorkInv, CacheInv, CleanInv
<1> QED
  BY <1>1, <1>3, <1>4 DEF Inv

LEMMA InvStep == Inv /\ [Next]_vars => Inv'
<1> SUFFICES ASSUME Inv, [Next]_vars PROVE Inv'
  OBVIOUS
<1>1. purgedAt' <= now'
  <2>1. purgedAt \in Nat /\ now \in Nat /\ purgedAt <= now
    BY DEF Inv, TypeOK
  <2>2. now' = now \/ now' = now + 1
    BY StoreOrElsewhere DEF Inv, Elsewhere, Store
  <2>3. purgedAt' = purgedAt \/ purgedAt' = now
    BY DEF Next, vars, tagging, Store, StoreFails, ReadOnly, StoreThrows, Finish, FinishFails, Ended,
           Match, Read, ReadFails, Refresh, PutWork, DropWork, RevalidateTag, Purge, Tick
  <2> QED
    BY <2>1, <2>2, <2>3
<1> QED
  BY <1>1, TypeStep, HistoryStep, OpStep, WorkStep, CacheStep, CleanStep DEF Inv

LEMMA Invariance == Spec => []Inv
  BY InvInit, InvStep, PTL DEF Spec

-----------------------------------------------------------------------------
(* Theorems.                                                               *)

\* Entries, puts and what the store has held keep their types.
THEOREM TypeCorrect == Spec => []TypeOK
<1>1. Inv => TypeOK
  BY DEF Inv
<1> QED
  BY <1>1, Invariance, PTL

\* Whatever is refreshed or put late, a colo answers an overwritten entry for a
\* bounded time only, and the writer's colo forgets it when the write returns.
THEOREM EntriesAreRecent == Spec => []Recency
<1>1. Inv => BoundedStaleness
  <2> SUFFICES ASSUME Inv, NEW c \in Colos, NEW i \in 1 .. Len(stored) - 1,
                      Hit(c), cached[c].value = stored[i].value
               PROVE  now < stored[i + 1].written + StoreLag + WorkLimit + LongestTtl(stored[i].value)
    BY DEF BoundedStaleness
  <2>1. PICK x : x = cached[c]
    OBVIOUS
  <2>2. x \in Cached /\ Kept(x) /\ now < x.until
    BY <2>1, CachedType DEF Hit, Inv, CacheInv
  <2>3. i \in DOMAIN stored /\ i < Len(stored) /\ i + 1 \in DOMAIN stored
    BY HeldType DEF Inv
  <2>4. x.until = x.put + TtlOf(x.value) /\ x.put <= stored[i + 1].written + StoreLag + WorkLimit
    BY <2>1, <2>2, <2>3 DEF Kept
  <2>5. PICK written : written = stored[i + 1].written
    OBVIOUS
  <2>6. written \in Nat
    BY <2>3, <2>5, HeldType DEF Inv, Stored
  <2>7. x.value \in Values /\ x.put \in Nat /\ now \in Nat /\ x.value = stored[i].value
    BY <2>1, <2>2 DEF Cached, Inv, TypeOK
  <2>8. PICK ttl, longest : ttl = TtlOf(x.value) /\ longest = LongestTtl(x.value)
    OBVIOUS
  <2>9. ttl \in Nat /\ longest \in Nat /\ ttl <= longest
    BY <2>7, <2>8, TtlTypes DEF Inv
  <2>10. PICK lag, limit : lag = StoreLag /\ limit = WorkLimit
    OBVIOUS
  <2>11. lag \in Nat /\ limit \in Nat
    BY <2>10, LagType DEF Inv
  <2>12. now < x.put + ttl /\ x.put <= written + lag + limit
    BY <2>2, <2>4, <2>5, <2>8, <2>10
  <2>13. now < written + lag + limit + longest
    BY <2>6, <2>7, <2>9, <2>11, <2>12
  <2> QED
    BY <2>5, <2>7, <2>8, <2>10, <2>13
<1>2. Inv => OwnColoClean
  BY HeldType DEF Inv, CleanInv, OwnColoClean, Hit
<1> QED
  BY <1>1, <1>2, Invariance, PTL DEF Recency

\* What a regional cache answers was held by the store, unless its write failed,
\* and is dated as the store dates it, but for the time that a write takes.
THEOREM EntriesComeFromTheStore == Spec => []Provenance
<1>1. Inv => PhantomsAreFailures
  BY HeldType DEF Inv, CacheInv, Kept, PhantomsAreFailures, Hit
<1>2. Inv => AgreeOnTags
  <2> SUFFICES ASSUME Inv, NEW c \in Colos, NEW i \in 1 .. Len(stored),
                      Hit(c), stored[i].value = cached[c].value, ~Outdated(cached[c])
               PROVE  tagAt <= stored[i].written + WorkLimit
    BY DEF AgreeOnTags
  <2>1. PICK x : x = cached[c]
    OBVIOUS
  <2>2. x \in Cached /\ Kept(x) /\ ~(tagAt > x.at)
    BY <2>1, CachedType DEF Hit, Inv, CacheInv, Outdated
  <2>3. x.at <= stored[i].written + WorkLimit /\ stored[i].written \in Nat
    BY <2>1, <2>2, HeldType DEF Kept, Inv, Stored
  <2>4. tagAt \in Nat /\ x.at \in Nat /\ WorkLimit \in Nat
    BY <2>2, LagType DEF Cached, Inv, TypeOK
  <2> QED
    BY <2>2, <2>3, <2>4
<1> QED
  BY <1>1, <1>2, Invariance, PTL DEF Provenance

\* What the store had given up well before the purge is in no colo after it: what is
\* put later was read, or written, soon before.
THEOREM PurgedEntriesAreGone == Spec => []PurgedIsGone
<1>1. Inv => PurgedIsGone
  <2> SUFFICES ASSUME Inv, NEW c \in Colos, purgedAt > 0, Own(purged), Hit(c)
               PROVE  /\ \A i \in 1 .. Len(stored) - 1 :
                            stored[i].value = cached[c].value =>
                                purgedAt <= stored[i + 1].written + StoreLag + WorkLimit
                      /\ \/ \E i \in 1 .. Len(stored) : stored[i].value = cached[c].value
                         \/ purgedAt <= cached[c].at + WorkLimit
    BY DEF PurgedIsGone
  <2>1. PICK x : x = cached[c]
    OBVIOUS
  <2>2. x \in Cached /\ Kept(x)
    BY <2>1, CachedType DEF Hit, Inv, CacheInv
  <2>3. x.put >= purgedAt
    <3>1. Purged
      BY DEF Own, Purged, CacheTag, Default
    <3> QED
      BY <2>2, <3>1 DEF Kept
  <2>4. x.put \in Nat /\ x.at \in Nat /\ purgedAt \in Nat /\ StoreLag \in Nat /\ WorkLimit \in Nat
    BY <2>2, LagType DEF Cached, Inv, TypeOK
  <2>5. ASSUME NEW i \in 1 .. Len(stored) - 1, stored[i].value = x.value
        PROVE  purgedAt <= stored[i + 1].written + StoreLag + WorkLimit
    <3>1. i \in DOMAIN stored /\ i < Len(stored) /\ i + 1 \in DOMAIN stored
      BY HeldType DEF Inv
    <3>2. PICK next : next = stored[i + 1].written
      OBVIOUS
    <3>3. next \in Nat /\ x.put <= next + StoreLag + WorkLimit
      BY <2>2, <2>5, <3>1, <3>2, HeldType DEF Kept, Inv, Stored
    <3> QED
      BY <2>3, <2>4, <3>2, <3>3
  <2>6. (\E i \in 1 .. Len(stored) : stored[i].value = x.value) \/ purgedAt <= x.at + WorkLimit
    <3>1. \/ \E i \in 1 .. Len(stored) : stored[i].value = x.value
          \/ x.put <= x.at + WorkLimit
      BY <2>2, HeldType DEF Kept, Inv
    <3> QED
      BY <2>3, <2>4, <3>1
  <2> QED
    BY <2>1, <2>5, <2>6
<1> QED
  BY <1>1, Invariance, PTL
=============================================================================
