-------------------------- MODULE QueueCache_proofs --------------------------
(***************************************************************************)
(* Proofs about the queue cache and the memory queue: types, revalidations *)
(* of a path one at a time, how recent what is left out repeats, and that  *)
(* a send() gets on and has an answer when it returns.                     *)
(***************************************************************************)
EXTENDS QueueCache, TLAPS

-----------------------------------------------------------------------------
(* A send() inserts its key once: when it is not waited for before it calls *)
(* the queue, and else when the queue has answered.                         *)

Called == {"throwing", "sending", "fetching"}

InsertInv ==
    \A s \in Sends :
        /\ send[s] \in {"idle", "matching"} => putAt[s] = 0
        /\ send[s] \in Called /\ waitForQueueAck => putAt[s] = 0
        /\ send[s] = "putting" =>
            /\ since[s] = putAt[s] /\ putAt[s] > 0
            /\ now <= since[s] + PutLimit
            /\ waitForQueueAck => outcome[s] = "acked"

\* A send() of key k that inserted it at the time at, after the answer of the queue
\* if it waits for it.
Inserter(t, k, at) ==
    /\ KeyOf[t] = k /\ putAt[t] = at /\ at > 0
    /\ waitForQueueAck => outcome[t] = "acked"

\* What the caches have found its way there by a send(), not long ago.
FoundInv ==
    /\ \A i \in Isolates, k \in Keys : localCache[i][k] # None =>
        \E t \in Sends : Inserter(t, k, localCache[i][k])
    /\ \A k \in Keys : cache[k] > now =>
        \E t \in Sends : Inserter(t, k, putAt[t]) /\ cache[k] <= putAt[t] + Ttl + PutLimit

Inv == TypeOK /\ now > 0 /\ InsertInv /\ FoundInv

-----------------------------------------------------------------------------
(* Types.                                                                  *)

Acts(s) == Asks(s) \/ Cached(s) \/ Puts(s) \/ Sent(s) \/ Fetched(s) \/ FetchTimesOut(s)

LEMMA NextActs == [Next]_vars => (\E s \in Sends : Acts(s)) \/ Tick \/ UNCHANGED vars
  BY DEF Next, Acts

LEMMA ClearedType ==
    ASSUME NEW local \in [Keys -> Nat \cup {None}]
    PROVE  Cleared(local) \in [Keys -> Nat \cup {None}]
  BY DEF Cleared

LEMMA EndsType ==
    ASSUME TypeOK, NEW s \in Sends, Ends(s, Local(s))
    PROVE  /\ send' = [send EXCEPT ![s] = "done"] /\ since' = [since EXCEPT ![s] = 0]
           /\ putAt' = putAt
           /\ localCache' \in [Isolates -> [Keys -> Nat \cup {None}]]
           /\ \A i \in Isolates, k \in Keys : localCache'[i][k] \in {localCache[i][k], None}
<1>1. IsolateOf[s] \in Isolates
  BY ConstantsAssumption
<1>2. Local(s) \in [Keys -> Nat \cup {None}]
  BY <1>1 DEF Local, TypeOK
<1>3. Cleared(Local(s)) \in [Keys -> Nat \cup {None}]
  BY <1>2, ClearedType
<1>4. \A k \in Keys : Cleared(Local(s))[k] \in {Local(s)[k], None}
  BY DEF Cleared
<1>5. localCache' = [localCache EXCEPT ![IsolateOf[s]] = Cleared(Local(s))]
  BY DEF Ends
<1>6. localCache' \in [Isolates -> [Keys -> Nat \cup {None}]]
  BY <1>1, <1>3, <1>5 DEF TypeOK
<1>7. \A i \in Isolates, k \in Keys : localCache'[i][k] \in {localCache[i][k], None}
  BY <1>1, <1>4, <1>5 DEF TypeOK, Local
<1> QED
  BY <1>6, <1>7 DEF Ends, Goes

LEMMA StartPutType ==
    ASSUME TypeOK, NEW s \in Sends, StartPut(s)
    PROVE  /\ send' = [send EXCEPT ![s] = "putting"] /\ since' = [since EXCEPT ![s] = now]
           /\ putAt' = [putAt EXCEPT ![s] = now]
           /\ localCache' \in [Isolates -> [Keys -> Nat \cup {None}]]
           /\ \A i \in Isolates, k \in Keys :
                \/ localCache'[i][k] = localCache[i][k]
                \/ k = KeyOf[s] /\ localCache'[i][k] = now
<1>1. IsolateOf[s] \in Isolates /\ KeyOf[s] \in Keys /\ now \in Nat
  BY ConstantsAssumption DEF TypeOK
<1>2. localCache' = [localCache EXCEPT ![IsolateOf[s]][KeyOf[s]] = now]
  BY DEF StartPut
<1> QED
  BY <1>1, <1>2 DEF StartPut, Goes, TypeOK

LEMMA CallType ==
    ASSUME TypeOK, NEW s \in Sends, CallQueue(s)
    PROVE  /\ \E where \in Called : \E at \in Nat :
                send' = [send EXCEPT ![s] = where] /\ since' = [since EXCEPT ![s] = at]
           /\ putAt' = putAt /\ outcome' = [outcome EXCEPT ![s] = "called"]
           /\ revalidatedPaths' \in [Isolates -> SUBSET Keys]
<1>1. IsolateOf[s] \in Isolates /\ KeyOf[s] \in Keys /\ now \in Nat
  BY ConstantsAssumption DEF TypeOK
<1>2. revalidatedPaths' \in [Isolates -> SUBSET Keys]
  BY <1>1 DEF CallQueue, Marked, TypeOK
<1> QED
  BY <1>1, <1>2 DEF Called, CallQueue, Goes, Becomes

\* The ways a step of a send() ends: with the call of the queue, the insertion of
\* the key, or the return.
Calling(s) ==
    /\ \E where \in Called : \E at \in Nat :
         send' = [send EXCEPT ![s] = where] /\ since' = [since EXCEPT ![s] = at]
    /\ putAt' = putAt /\ outcome' = [outcome EXCEPT ![s] = "called"]
    /\ \A i \in Isolates, k \in Keys : localCache'[i][k] \in {localCache[i][k], None}

Inserting(s) ==
    /\ send' = [send EXCEPT ![s] = "putting"] /\ since' = [since EXCEPT ![s] = now]
    /\ putAt' = [putAt EXCEPT ![s] = now]
    /\ \A i \in Isolates, k \in Keys :
         \/ localCache'[i][k] = localCache[i][k]
         \/ k = KeyOf[s] /\ localCache'[i][k] = now

Returning(s) ==
    /\ send' = [send EXCEPT ![s] = "done"] /\ since' = [since EXCEPT ![s] = 0]
    /\ putAt' = putAt
    /\ \A i \in Isolates, k \in Keys : localCache'[i][k] \in {localCache[i][k], None}

\* What a step of a send() does, and when.
Effect(s) ==
    \/ /\ send[s] = "idle" /\ send' = [send EXCEPT ![s] = "matching"]
       /\ since' = [since EXCEPT ![s] = 0]
       /\ UNCHANGED <<localCache, cache, outcome, putAt>>
    \/ /\ send[s] = "fetching" /\ send' = [send EXCEPT ![s] = "sending"]
       /\ since' = [since EXCEPT ![s] = 0]
       /\ UNCHANGED <<localCache, cache, outcome, putAt>>
    \/ /\ send[s] \in {"idle", "matching"} /\ waitForQueueAck
       /\ Calling(s) /\ UNCHANGED cache
    \/ /\ send[s] \in {"idle", "matching"} /\ ~waitForQueueAck
       /\ Inserting(s) /\ UNCHANGED <<outcome, cache>>
    \/ /\ send[s] = "putting" /\ ~waitForQueueAck
       /\ Calling(s) /\ cache' = [cache EXCEPT ![KeyOf[s]] = now + Ttl]
    \/ /\ send[s] = "putting" /\ waitForQueueAck
       /\ Returning(s) /\ outcome' = outcome
       /\ cache' = cache \/ cache' = [cache EXCEPT ![KeyOf[s]] = now + Ttl]
    \/ /\ send[s] \in Called /\ waitForQueueAck
       /\ Inserting(s) /\ outcome' = [outcome EXCEPT ![s] = "acked"] /\ UNCHANGED cache
    \/ /\ send[s] \in Called \/ (send[s] = "putting" /\ ~waitForQueueAck)
       /\ Returning(s) /\ UNCHANGED cache
       /\ \E o \in {"acked", "failed"} : outcome' = [outcome EXCEPT ![s] = o]
       /\ waitForQueueAck => outcome' = [outcome EXCEPT ![s] = "failed"]
    \/ /\ send[s] \in {"idle", "matching"}
       /\ Returning(s) /\ UNCHANGED cache
       /\ \E o \in {"cached", "failed"} : outcome' = [outcome EXCEPT ![s] = o]

Shaped ==
    /\ localCache' \in [Isolates -> [Keys -> Nat \cup {None}]]
    /\ revalidatedPaths' \in [Isolates -> SUBSET Keys]
    /\ cache' \in [Keys -> Nat]
    /\ UNCHANGED <<waitForQueueAck, memory, now>>

LEMMA UnknownEffect ==
    ASSUME TypeOK, NEW s \in Sends, send[s] \in {"idle", "matching"}, Unknown(s), UNCHANGED cache,
           waitForQueueAck => /\ localCache' \in [Isolates -> [Keys -> Nat \cup {None}]]
                              /\ \A i \in Isolates, k \in Keys : localCache'[i][k] \in {localCache[i][k], None},
           UNCHANGED <<waitForQueueAck, memory, now>>
    PROVE  Effect(s) /\ Shaped
<1>1. CASE waitForQueueAck
  <2>1. CallQueue(s)
    BY <1>1 DEF Unknown
  <2> QED
    BY <1>1, <2>1, CallType DEF Called, Effect, Calling, Shaped, TypeOK
<1>2. CASE ~waitForQueueAck
  <2>1. StartPut(s) /\ UNCHANGED <<outcome, revalidatedPaths>>
    BY <1>2 DEF Unknown
  <2> QED
    BY <1>2, <2>1, StartPutType DEF Called, Effect, Inserting, Shaped, TypeOK
<1> QED
  BY <1>1, <1>2

LEMMA AnsweredEffect ==
    ASSUME TypeOK, NEW s \in Sends, send[s] \in Called, Answered(s)
    PROVE  /\ Effect(s) /\ UNCHANGED <<waitForQueueAck, memory, now, cache>>
           /\ localCache' \in [Isolates -> [Keys -> Nat \cup {None}]]
<1>1. CASE waitForQueueAck
  <2>1. StartPut(s) /\ outcome' = [outcome EXCEPT ![s] = "acked"]
        /\ UNCHANGED <<waitForQueueAck, memory, now, cache>>
    BY <1>1 DEF Answered, Becomes, Constant
  <2> QED
    BY <1>1, <2>1, StartPutType DEF Called, Effect, Inserting
<1>2. CASE ~waitForQueueAck
  <2>1. Ends(s, Local(s)) /\ outcome' = [outcome EXCEPT ![s] = "acked"]
        /\ UNCHANGED <<waitForQueueAck, memory, now, cache>>
    BY <1>2 DEF Answered, Becomes, Constant
  <2> QED
    BY <1>2, <2>1, EndsType DEF Called, Effect, Returning
<1> QED
  BY <1>1, <1>2

LEMMA ActsEffect ==
    ASSUME TypeOK, NEW s \in Sends, Acts(s)
    PROVE  Effect(s) /\ Shaped
<1> USE DEF Constant, Becomes
<1>0. IsolateOf[s] \in Isolates /\ KeyOf[s] \in Keys /\ now \in Nat /\ Ttl \in Nat
  BY ConstantsAssumption DEF TypeOK
<1>1. CASE LocalHit(s) \/ Match(s) \/ MatchFails(s)
  <2>1. /\ send[s] \in {"idle", "matching"} /\ Ends(s, Local(s))
        /\ \E o \in {"cached", "failed"} : outcome' = [outcome EXCEPT ![s] = o]
        /\ UNCHANGED <<waitForQueueAck, memory, now, cache, revalidatedPaths>>
    BY <1>1 DEF LocalHit, Match, MatchFails
  <2> QED
    BY <2>1, EndsType DEF Called, Effect, Returning, Shaped, TypeOK
<1>2. CASE LocalStale(s)
  <2>1. /\ send[s] \in {"idle", "matching"} /\ Unknown(s)
        /\ UNCHANGED <<waitForQueueAck, memory, now, cache>>
        /\ waitForQueueAck => localCache' = [localCache EXCEPT ![IsolateOf[s]][KeyOf[s]] = None]
    BY <1>2 DEF LocalStale
  <2>2. waitForQueueAck => /\ localCache' \in [Isolates -> [Keys -> Nat \cup {None}]]
                           /\ \A i \in Isolates, k \in Keys : localCache'[i][k] \in {localCache[i][k], None}
    <3>1. localCache \in [Isolates -> [Keys -> Nat \cup {None}]]
      BY DEF TypeOK
    <3> QED
      BY <1>0, <2>1, <3>1
  <2> QED
    BY <2>1, <2>2, UnknownEffect
<1>3. CASE NoMatch(s)
  <2>1. /\ send[s] \in {"idle", "matching"} /\ Unknown(s)
        /\ UNCHANGED <<waitForQueueAck, memory, now, cache>>
        /\ waitForQueueAck => localCache' = localCache
    BY <1>3 DEF NoMatch
  <2>2. waitForQueueAck => /\ localCache' \in [Isolates -> [Keys -> Nat \cup {None}]]
                           /\ \A i \in Isolates, k \in Keys : localCache'[i][k] \in {localCache[i][k], None}
    BY <2>1 DEF TypeOK
  <2> QED
    BY <2>1, <2>2, UnknownEffect
<1>4. CASE Ask(s)
  BY <1>4 DEF Ask, Goes, Effect, Shaped, TypeOK
<1>5. CASE Put(s)
  <2>1. /\ send[s] = "putting" /\ cache' = [cache EXCEPT ![KeyOf[s]] = now + Ttl]
        /\ UNCHANGED <<waitForQueueAck, memory, now>>
        /\ cache' \in [Keys -> Nat]
    BY <1>0, <1>5 DEF Put, TypeOK
  <2>2. CASE waitForQueueAck
    <3>1. Ends(s, Local(s)) /\ UNCHANGED <<outcome, revalidatedPaths>>
      BY <1>5, <2>2 DEF Put
    <3> QED
      BY <2>1, <2>2, <3>1, EndsType DEF Called, Effect, Returning, Shaped, TypeOK
  <2>3. CASE ~waitForQueueAck
    <3>1. CallQueue(s) /\ UNCHANGED localCache
      BY <1>5, <2>3 DEF Put
    <3> QED
      BY <2>1, <2>3, <3>1, CallType DEF Called, Effect, Calling, Shaped, TypeOK
  <2> QED
    BY <2>2, <2>3
<1>6. CASE PutFails(s)
  <2>1. /\ send[s] = "putting" /\ Ends(s, Local(s))
        /\ IF waitForQueueAck THEN UNCHANGED outcome ELSE outcome' = [outcome EXCEPT ![s] = "failed"]
        /\ UNCHANGED <<waitForQueueAck, memory, now, cache, revalidatedPaths>>
    BY <1>6 DEF PutFails
  <2> QED
    BY <2>1, EndsType DEF Called, Effect, Returning, Shaped, TypeOK
<1>7. CASE Acked(s)
  BY <1>7, AnsweredEffect DEF Called, Acked, Shaped, TypeOK
<1>8. CASE Failed(s)
  <2>1. /\ send[s] \in {"throwing", "sending"} /\ Ends(s, Local(s)) /\ outcome' = [outcome EXCEPT ![s] = "failed"]
        /\ UNCHANGED <<waitForQueueAck, memory, now, cache, revalidatedPaths>>
    BY <1>8 DEF Failed, GivenUp
  <2>2. Returning(s) /\ Shaped
    BY <2>1, EndsType DEF Returning, Shaped, TypeOK
  <2>3. \E o \in {"acked", "failed"} : outcome' = [outcome EXCEPT ![s] = o]
    BY <2>1
  <2>4. /\ send[s] \in Called \/ (send[s] = "putting" /\ ~waitForQueueAck)
        /\ UNCHANGED cache
        /\ waitForQueueAck => outcome' = [outcome EXCEPT ![s] = "failed"]
    BY <2>1 DEF Called
  <2> QED
    BY <2>2, <2>3, <2>4, Zenon DEF Called, Effect
<1>9. CASE FetchTimesOut(s)
  <2>1. /\ send[s] = "fetching" /\ Answered(s) /\ revalidatedPaths' = Unmarked(s)
    BY <1>9 DEF FetchTimesOut
  <2>2. revalidatedPaths' \in [Isolates -> SUBSET Keys]
    BY <1>0, <2>1 DEF Unmarked, TypeOK
  <2> QED
    BY <2>1, <2>2, AnsweredEffect DEF Called, Shaped, TypeOK
<1>10. CASE Fetched(s)
  <2>1. /\ send[s] = "fetching" /\ send' = [send EXCEPT ![s] = "sending"]
        /\ since' = [since EXCEPT ![s] = 0] /\ revalidatedPaths' = Unmarked(s)
        /\ UNCHANGED <<waitForQueueAck, memory, now, localCache, cache, outcome, putAt>>
    BY <1>10 DEF Fetched, Goes
  <2>2. revalidatedPaths' \in [Isolates -> SUBSET Keys]
    BY <1>0, <2>1 DEF Unmarked, TypeOK
  <2> QED
    BY <2>1, <2>2 DEF Effect, Shaped, TypeOK
<1> QED
  BY <1>1, <1>2, <1>3, <1>4, <1>5, <1>6, <1>7, <1>8, <1>9, <1>10 DEF Acts, Asks, Cached, Puts, Sent

LEMMA TypeStep == TypeOK /\ [Next]_vars => TypeOK'
<1> SUFFICES ASSUME TypeOK, [Next]_vars PROVE TypeOK'
  OBVIOUS
<1>1. ASSUME NEW s \in Sends, Acts(s)
      PROVE  TypeOK'
  <2>1. Effect(s) /\ Shaped
    BY <1>1, ActsEffect
  <2>2. now \in Nat
    BY DEF TypeOK
  <2>3. send' \in [Sends -> States] /\ since' \in [Sends -> Nat] /\ putAt' \in [Sends -> Nat]
    <3>1. \E at \in Nat : since' = [since EXCEPT ![s] = at]
      <4>1. \/ since' = [since EXCEPT ![s] = 0] \/ since' = [since EXCEPT ![s] = now]
            \/ \E at \in Nat : since' = [since EXCEPT ![s] = at]
        BY <2>1 DEF Called, Effect, Calling, Inserting, Returning
      <4>2. 0 \in Nat
        OBVIOUS
      <4> QED
        BY <2>2, <4>1, <4>2, Zenon
    <3>2. \E where \in States : send' = [send EXCEPT ![s] = where]
      BY <2>1 DEF Called, Effect, Calling, Inserting, Returning, States
    <3>3. putAt' = putAt \/ putAt' = [putAt EXCEPT ![s] = now]
      BY <2>1 DEF Called, Effect, Calling, Inserting, Returning
    <3>4. since' \in [Sends -> Nat]
      BY <3>1 DEF TypeOK
    <3>5. send' \in [Sends -> States]
      BY <3>2 DEF TypeOK
    <3>6. putAt' \in [Sends -> Nat]
      BY <2>2, <3>3 DEF TypeOK
    <3> QED
      BY <3>4, <3>5, <3>6
  <2>4. outcome' \in [Sends -> Outcomes]
    BY <2>1 DEF Called, Effect, Calling, Outcomes, TypeOK
  <2> QED
    BY <2>1, <2>3, <2>4 DEF Shaped, TypeOK
<1>2. CASE Tick
  BY <1>2 DEF Tick, TypeOK
<1>3. CASE UNCHANGED vars
  BY <1>3 DEF vars, TypeOK
<1> QED
  BY <1>1, <1>2, <1>3, NextActs

-----------------------------------------------------------------------------
(* What the caches find.                                                   *)

LEMMA InsertStep ==
    ASSUME TypeOK, now > 0, InsertInv, [Next]_vars
    PROVE  InsertInv'
<1>1. ASSUME NEW s \in Sends, Acts(s)
      PROVE  InsertInv'
  <2>1. Effect(s) /\ UNCHANGED <<waitForQueueAck, now>>
    BY <1>1, ActsEffect DEF Shaped
  <2>2. now \in Nat /\ PutLimit \in Nat
    BY ConstantsAssumption DEF TypeOK
  <2>3. ASSUME NEW t \in Sends, t # s
        PROVE  send'[t] = send[t] /\ putAt'[t] = putAt[t] /\ since'[t] = since[t] /\ outcome'[t] = outcome[t]
    BY <2>1, <2>3 DEF Called, Effect, Calling, Inserting, Returning, TypeOK
  <2>4. /\ send'[s] \in {"idle", "matching"} => putAt'[s] = 0
        /\ send'[s] \in Called /\ waitForQueueAck => putAt'[s] = 0
        /\ send'[s] = "putting" =>
            /\ since'[s] = putAt'[s] /\ putAt'[s] > 0
            /\ now <= since'[s] + PutLimit
            /\ waitForQueueAck => outcome'[s] = "acked"
    BY <2>1, <2>2 DEF Called, Effect, Calling, Inserting, Returning, TypeOK, InsertInv
  <2> QED
    BY <2>1, <2>3, <2>4 DEF InsertInv
<1>2. CASE Tick
  BY <1>2, ConstantsAssumption DEF Tick, InsertInv, TypeOK
<1>3. CASE UNCHANGED vars
  BY <1>3 DEF vars, InsertInv
<1> QED
  BY <1>1, <1>2, <1>3, NextActs

\* An inserter stays one: a key is inserted once, and an answer is kept.
LEMMA StillInserter ==
    ASSUME TypeOK, InsertInv, [Next]_vars, NEW t \in Sends, NEW k \in Keys, NEW at, Inserter(t, k, at)
    PROVE  /\ KeyOf[t] = k /\ putAt'[t] = at /\ at > 0
           /\ waitForQueueAck' => outcome'[t] = "acked"
<1>1. ASSUME NEW s \in Sends, Acts(s)
      PROVE  putAt'[t] = at /\ (waitForQueueAck' => outcome'[t] = "acked")
  <2>1. Effect(s) /\ UNCHANGED <<waitForQueueAck, now>>
    BY <1>1, ActsEffect DEF Shaped
  <2>2. CASE t # s
    BY <2>1, <2>2 DEF Called, Effect, Calling, Inserting, Returning, TypeOK, Inserter
  <2>3. CASE t = s
    <3>1. putAt[s] = at /\ at > 0 /\ ~(0 > 0)
      BY <2>3 DEF Inserter
    <3>2. /\ send[s] \notin {"idle", "matching"}
          /\ waitForQueueAck => send[s] \notin Called
      BY <3>1 DEF InsertInv
    <3> QED
      BY <2>1, <2>3, <3>1, <3>2 DEF Called, Effect, Calling, Inserting, Returning, TypeOK, Inserter
  <2> QED
    BY <2>2, <2>3
<1>2. CASE Tick
  BY <1>2 DEF Tick, Inserter
<1>3. CASE UNCHANGED vars
  BY <1>3 DEF vars, Inserter
<1> QED
  BY <1>1, <1>2, <1>3, NextActs DEF Inserter

LEMMA FoundStep ==
    ASSUME TypeOK, now > 0, InsertInv, FoundInv, [Next]_vars
    PROVE  FoundInv'
<1>1. ASSUME NEW i \in Isolates, NEW k \in Keys, localCache'[i][k] # None, localCache'[i][k] = localCache[i][k]
      PROVE  \E t \in Sends : Inserter(t, k, localCache[i][k])'
  <2>1. PICK t \in Sends : Inserter(t, k, localCache[i][k])
    BY <1>1 DEF FoundInv
  <2> QED
    BY <1>1, <2>1, StillInserter DEF Inserter
<1>2. ASSUME NEW k \in Keys, NEW until, until > now, cache[k] = until, cache'[k] = until
      PROVE  \E t \in Sends : Inserter(t, k, putAt[t])' /\ cache'[k] <= putAt'[t] + Ttl + PutLimit
  <2>1. PICK t \in Sends : Inserter(t, k, putAt[t]) /\ cache[k] <= putAt[t] + Ttl + PutLimit
    BY <1>2 DEF FoundInv
  <2>2. Inserter(t, k, putAt[t])' /\ putAt'[t] = putAt[t]
    BY <2>1, StillInserter DEF Inserter
  <2> QED
    BY <1>2, <2>1, <2>2
<1>3. ASSUME NEW s \in Sends, Acts(s)
      PROVE  FoundInv'
  <2>1. Effect(s) /\ UNCHANGED <<waitForQueueAck, now>>
    BY <1>3, ActsEffect DEF Shaped
  <2>2. now \in Nat /\ Ttl \in Nat /\ PutLimit \in Nat /\ KeyOf[s] \in Keys
    BY ConstantsAssumption DEF TypeOK
  <2>3. ASSUME NEW i \in Isolates, NEW k \in Keys, localCache'[i][k] # None
        PROVE  \E t \in Sends : Inserter(t, k, localCache[i][k])'
    <3>1. CASE localCache'[i][k] = localCache[i][k]
      BY <1>1, <2>3, <3>1
    <3>2. CASE localCache'[i][k] # localCache[i][k]
      <4>1. Inserting(s) /\ k = KeyOf[s] /\ localCache'[i][k] = now
            /\ (waitForQueueAck => outcome' = [outcome EXCEPT ![s] = "acked"])
        BY <2>1, <2>3, <3>2 DEF Called, Effect, Calling, Inserting, Returning
      <4>2. putAt'[s] = now
        BY <4>1 DEF Inserting, TypeOK
      <4> QED
        BY <2>1, <2>2, <4>1, <4>2 DEF Inserter, TypeOK
    <3> QED
      BY <3>1, <3>2
  <2>4. ASSUME NEW k \in Keys, cache'[k] > now'
        PROVE  \E t \in Sends : Inserter(t, k, putAt[t])' /\ cache'[k] <= putAt'[t] + Ttl + PutLimit
    <3>1. CASE cache'[k] = cache[k]
      BY <1>2, <2>1, <2>4, <3>1
    <3>2. CASE cache'[k] # cache[k]
      <4>1. /\ send[s] = "putting" /\ k = KeyOf[s] /\ cache'[k] = now + Ttl /\ putAt' = putAt
            /\ waitForQueueAck => outcome' = outcome
        BY <2>1, <3>2 DEF Called, Effect, Calling, Returning, TypeOK
      <4>2. /\ putAt[s] \in Nat /\ putAt[s] > 0 /\ now <= putAt[s] + PutLimit
            /\ waitForQueueAck => outcome[s] = "acked"
        BY <4>1 DEF InsertInv, TypeOK
      <4>3. cache'[k] <= putAt'[s] + Ttl + PutLimit
        BY <2>2, <4>1, <4>2
      <4> QED
        BY <2>1, <4>1, <4>2, <4>3 DEF Inserter
    <3> QED
      BY <3>1, <3>2
  <2> QED
    BY <2>3, <2>4 DEF FoundInv
<1>4. CASE Tick
  <2>1. /\ localCache' = localCache /\ now' = now + 1 /\ now \in Nat
        /\ \A k \in Keys : cache'[k] > now' => cache'[k] = cache[k] /\ cache[k] > now
    BY <1>4 DEF Tick, TypeOK
  <2> QED
    BY <1>1, <1>2, <2>1 DEF FoundInv
<1>5. CASE UNCHANGED vars
  <2>1. localCache' = localCache /\ cache' = cache /\ now' = now
    BY <1>5 DEF vars
  <2> QED
    BY <1>1, <1>2, <2>1 DEF FoundInv
<1> QED
  BY <1>3, <1>4, <1>5, NextActs

LEMMA InvInit == Init => Inv
<1> SUFFICES ASSUME Init PROVE Inv
  OBVIOUS
<1>1. TypeOK
  BY ConstantsAssumption DEF Init, TypeOK, States, Outcomes
<1>2. now > 0 /\ InsertInv /\ FoundInv
  BY DEF Called, Init, InsertInv, FoundInv
<1> QED
  BY <1>1, <1>2 DEF Inv

LEMMA InvStep == Inv /\ [Next]_vars => Inv'
<1> SUFFICES ASSUME Inv, [Next]_vars PROVE Inv'
  OBVIOUS
<1>1. now' = now \/ now' = now + 1
  <2>1. ASSUME NEW s \in Sends, Acts(s)
        PROVE  now' = now
    BY <2>1, ActsEffect DEF Inv, Shaped
  <2> QED
    BY <2>1, NextActs DEF Tick, vars
<1>2. now' > 0
  BY <1>1 DEF Inv, TypeOK
<1> QED
  BY <1>2, TypeStep, InsertStep, FoundStep DEF Inv

LEMMA Invariance == Spec => []Inv
  BY InvInit, InvStep, PTL DEF Spec

\* A send() is left out when a cache finds its key.
LEMMA LeftOutStep ==
    ASSUME Inv, [Next]_vars, NEW s \in Sends, outcome[s] # "cached", outcome'[s] = "cached"
    PROVE  \E t \in Sends : /\ KeyOf[t] = KeyOf[s] /\ putAt[t] > 0
                            /\ now < putAt[t] + Ttl + PutLimit
                            /\ waitForQueueAck => outcome[t] = "acked"
<1>0. /\ now \in Nat /\ Ttl \in Nat /\ PutLimit \in Nat
      /\ IsolateOf[s] \in Isolates /\ KeyOf[s] \in Keys /\ cache[KeyOf[s]] \in Nat
  BY ConstantsAssumption DEF Inv, TypeOK
<1>1. LocalHit(s) \/ Match(s)
  <2>1. ASSUME NEW r \in Sends, Acts(r), ~LocalHit(r), ~Match(r)
        PROVE  outcome'[s] # "cached"
    <3>1. \/ outcome' = outcome
          \/ \E o \in {"called", "acked", "failed"} : outcome' = [outcome EXCEPT ![r] = o]
      BY <2>1 DEF Acts, Asks, Cached, Puts, Sent, LocalStale, Ask, NoMatch, MatchFails, Put, PutFails, Acked,
             Failed, Fetched, FetchTimesOut, Answered, Unknown, CallQueue, Becomes
    <3> QED
      BY <3>1 DEF Inv, TypeOK
  <2>2. ASSUME NEW r \in Sends, LocalHit(r) \/ Match(r), r # s
        PROVE  outcome'[s] # "cached"
    BY <2>2 DEF LocalHit, Match, Becomes, Inv, TypeOK
  <2>3. Tick \/ UNCHANGED vars => outcome' = outcome
    BY DEF Tick, vars
  <2> QED
    BY <2>1, <2>2, <2>3, NextActs
<1>2. CASE LocalHit(s)
  <2>1. PICK at : at = localCache[IsolateOf[s]][KeyOf[s]]
    OBVIOUS
  <2>2. at # None /\ now - at < Ttl
    BY <1>2, <2>1 DEF LocalHit, Fresh, Inserted, Local
  <2>3. at \in Nat
    BY <1>0, <2>1, <2>2 DEF Inv, TypeOK
  <2>4. PICK t \in Sends : Inserter(t, KeyOf[s], at)
    BY <1>0, <2>1, <2>2 DEF Inv, FoundInv
  <2>5. now < at + Ttl + PutLimit
    BY <1>0, <2>2, <2>3
  <2> QED
    BY <2>4, <2>5 DEF Inserter
<1>3. CASE Match(s)
  <2>1. cache[KeyOf[s]] > now
    BY <1>0, <1>3 DEF Match
  <2>2. PICK t \in Sends : /\ Inserter(t, KeyOf[s], putAt[t])
                           /\ cache[KeyOf[s]] <= putAt[t] + Ttl + PutLimit
    BY <1>0, <2>1 DEF Inv, FoundInv
  <2>3. putAt[t] \in Nat
    BY DEF Inv, TypeOK
  <2>4. now < putAt[t] + Ttl + PutLimit
    BY <1>0, <2>1, <2>2, <2>3
  <2> QED
    BY <2>2, <2>4 DEF Inserter
<1> QED
  BY <1>1, <1>2, <1>3

-----------------------------------------------------------------------------
(* The memory queue.                                                       *)

Fetching(i) == {s \in Sends : send[s] = "fetching" /\ IsolateOf[s] = i}

RevalidatingInv ==
    memory => \A i \in Isolates :
        /\ \A k \in Keys : k \in revalidatedPaths[i] <=>
              \E s \in Sends : send[s] = "fetching" /\ IsolateOf[s] = i /\ KeyOf[s] = k
        /\ \A s, t \in Sends :
              /\ send[s] = "fetching" /\ IsolateOf[s] = i
              /\ send[t] = "fetching" /\ IsolateOf[t] = i /\ KeyOf[s] = KeyOf[t]
              => s = t

\* What a step does to the paths that are marked.
Marking(s) ==
    \/ send[s] # "fetching" /\ send'[s] # "fetching" /\ revalidatedPaths' = revalidatedPaths
    \/ /\ memory /\ send[s] # "fetching" /\ send'[s] # "fetching"
       /\ Revalidating(s) /\ revalidatedPaths' = Marked(s)
    \/ /\ memory /\ send[s] # "fetching" /\ send'[s] = "fetching"
       /\ ~Revalidating(s) /\ revalidatedPaths' = Marked(s)
    \/ send[s] = "fetching" /\ send'[s] # "fetching" /\ revalidatedPaths' = Unmarked(s)

LEMMA CallMarking ==
    ASSUME TypeOK, NEW s \in Sends, send[s] # "fetching", CallQueue(s)
    PROVE  Marking(s)
<1>1. CASE Goes(s, "throwing") /\ UNCHANGED revalidatedPaths
  <2>1. send'[s] = "throwing"
    BY <1>1 DEF Goes, TypeOK
  <2> QED
    BY <1>1, <2>1 DEF Marking
<1>2. CASE /\ Goes(s, IF memory /\ ~Revalidating(s) THEN "fetching" ELSE "sending")
           /\ revalidatedPaths' = IF memory THEN Marked(s) ELSE revalidatedPaths
  <2>1. send'[s] = IF memory /\ ~Revalidating(s) THEN "fetching" ELSE "sending"
    BY <1>2 DEF Goes, TypeOK
  <2> QED
    BY <1>2, <2>1 DEF Marking
<1> QED
  BY <1>1, <1>2 DEF CallQueue

LEMMA ActsMarking ==
    ASSUME TypeOK, NEW s \in Sends, Acts(s)
    PROVE  Marking(s)
<1>1. ASSUME send[s] # "fetching", revalidatedPaths' = revalidatedPaths,
             Ends(s, Local(s)) \/ StartPut(s) \/ Goes(s, "matching")
      PROVE  Marking(s)
  <2>1. send'[s] \in {"done", "putting", "matching"}
    BY <1>1 DEF Ends, StartPut, Goes, TypeOK
  <2> QED
    BY <1>1, <2>1 DEF Marking
<1>2. ASSUME send[s] # "fetching", Unknown(s)
      PROVE  Marking(s)
  BY <1>1, <1>2, CallMarking DEF Unknown
<1>3. CASE Asks(s) \/ Cached(s) \/ Puts(s) \/ Sent(s)
  BY <1>1, <1>2, <1>3, CallMarking DEF Asks, Cached, Puts, Sent, LocalHit, LocalStale, Ask, Match, NoMatch,
     MatchFails, Put, PutFails, Acked, Failed, Answered, GivenUp
<1>4. CASE Fetched(s) \/ FetchTimesOut(s)
  <2>1. send[s] = "fetching" /\ revalidatedPaths' = Unmarked(s)
        /\ (Ends(s, Local(s)) \/ StartPut(s) \/ Goes(s, "sending"))
    BY <1>4 DEF Fetched, FetchTimesOut, Answered
  <2>2. send'[s] # "fetching"
    BY <2>1 DEF Ends, StartPut, Goes, TypeOK
  <2> QED
    BY <2>1, <2>2 DEF Marking
<1> QED
  BY <1>3, <1>4 DEF Acts

LEMMA RevalidatingStep ==
    ASSUME TypeOK, RevalidatingInv, [Next]_vars
    PROVE  RevalidatingInv'
<1>1. ASSUME NEW s \in Sends, Acts(s)
      PROVE  RevalidatingInv'
  <2>1. Effect(s) /\ Shaped /\ Marking(s)
    BY <1>1, ActsEffect, ActsMarking
  <2>2. \A t \in Sends : t # s => send'[t] = send[t]
    BY <2>1 DEF Called, Effect, Calling, Inserting, Returning, TypeOK
  <2>3. memory' = memory
    BY <2>1 DEF Shaped
  <2>4. IsolateOf[s] \in Isolates /\ KeyOf[s] \in Keys /\ revalidatedPaths \in [Isolates -> SUBSET Keys]
    BY ConstantsAssumption DEF TypeOK
  <2>5. CASE send[s] # "fetching" /\ send'[s] # "fetching" /\ revalidatedPaths' = revalidatedPaths
    BY <2>2, <2>3, <2>5 DEF RevalidatingInv
  <2>6. CASE /\ memory /\ send[s] # "fetching" /\ send'[s] # "fetching"
             /\ Revalidating(s) /\ revalidatedPaths' = Marked(s)
    <3>1. revalidatedPaths' = revalidatedPaths
      BY <2>4, <2>6 DEF Marked, Revalidating
    <3> QED
      BY <2>2, <2>3, <2>6, <3>1 DEF RevalidatingInv
  <2>7. CASE /\ memory /\ send[s] # "fetching" /\ send'[s] = "fetching"
             /\ ~Revalidating(s) /\ revalidatedPaths' = Marked(s)
    <3>1. \A i \in Isolates, k \in Keys :
            k \in revalidatedPaths'[i] <=> k \in revalidatedPaths[i] \/ (i = IsolateOf[s] /\ k = KeyOf[s])
      BY <2>4, <2>7 DEF Marked
    <3>2. KeyOf[s] \notin revalidatedPaths[IsolateOf[s]]
      BY <2>7 DEF Revalidating
    <3>3. \A t \in Sends : send[t] = "fetching" /\ IsolateOf[t] = IsolateOf[s] => KeyOf[t] # KeyOf[s]
      BY <2>4, <2>7, <3>2 DEF RevalidatingInv
    <3> QED
      BY <2>2, <2>3, <2>4, <2>7, <3>1, <3>3 DEF RevalidatingInv
  <2>8. CASE send[s] = "fetching" /\ send'[s] # "fetching" /\ revalidatedPaths' = Unmarked(s)
    <3>1. \A i \in Isolates, k \in Keys :
            k \in revalidatedPaths'[i] <=> k \in revalidatedPaths[i] /\ ~(i = IsolateOf[s] /\ k = KeyOf[s])
      BY <2>4, <2>8 DEF Unmarked
    <3> QED
      BY <2>2, <2>3, <2>4, <2>8, <3>1 DEF RevalidatingInv
  <2> QED
    BY <2>1, <2>5, <2>6, <2>7, <2>8 DEF Marking
<1>2. CASE Tick
  BY <1>2 DEF Tick, RevalidatingInv
<1>3. CASE UNCHANGED vars
  BY <1>3 DEF vars, RevalidatingInv
<1> QED
  BY <1>1, <1>2, <1>3, NextActs

-----------------------------------------------------------------------------
(* What SendEnds says but for fairness: a send() has so many steps to go,   *)
(* and has heard of its message when it has none.                          *)

\* The awaits before the return: of the Cache API, then of the queue, which may
\* take two, and of the insertion, in the order that waitForQueueAck gives them.
Awaits(s) ==
    CASE send[s] = "idle" -> 5
      [] send[s] = "matching" -> 4
      [] send[s] = "putting" -> IF waitForQueueAck THEN 1 ELSE 3
      [] send[s] = "fetching" -> IF waitForQueueAck THEN 3 ELSE 2
      [] send[s] \in {"throwing", "sending"} -> IF waitForQueueAck THEN 2 ELSE 1
      [] OTHER -> 0

AnsweredInv ==
    \A s \in Sends :
        send[s] = "done" => outcome[s] \in {"cached", "acked", "failed"}

LEMMA AwaitsFewer ==
    ASSUME TypeOK, NEW s \in Sends, Acts(s)
    PROVE  Awaits(s)' < Awaits(s)
<1>1. Effect(s) /\ waitForQueueAck' = waitForQueueAck /\ send \in [Sends -> States]
  BY ActsEffect DEF Shaped, TypeOK
<1>2. /\ send[s] = "idle" => send'[s] # "idle"
      /\ send[s] = "matching" => send'[s] \notin {"idle", "matching"}
      /\ send[s] = "putting" =>
            send'[s] \in IF waitForQueueAck THEN {"done"} ELSE Called \cup {"done"}
      /\ send[s] = "fetching" =>
            send'[s] \in IF waitForQueueAck THEN {"sending", "putting", "done"} ELSE {"sending", "done"}
      /\ send[s] \in {"throwing", "sending"} =>
            send'[s] \in IF waitForQueueAck THEN {"putting", "done"} ELSE {"done"}
      /\ send[s] # "done" /\ send'[s] \in States
  BY <1>1 DEF Called, Effect, Calling, Inserting, Returning, States
<1> QED
  BY <1>1, <1>2 DEF Called, Awaits, States

LEMMA OthersWait ==
    ASSUME TypeOK, NEW s \in Sends, Acts(s), NEW t \in Sends, t # s
    PROVE  send'[t] = send[t] /\ outcome'[t] = outcome[t]
<1>1. Effect(s)
  BY ActsEffect
<1> QED
  BY <1>1 DEF Called, Effect, Calling, Inserting, Returning, TypeOK

LEMMA AnsweredStep == TypeOK /\ InsertInv /\ AnsweredInv /\ [Next]_vars => AnsweredInv'
<1> SUFFICES ASSUME TypeOK, InsertInv, AnsweredInv, [Next]_vars PROVE AnsweredInv'
  OBVIOUS
<1>1. ASSUME NEW s \in Sends, Acts(s)
      PROVE  AnsweredInv'
  <2>1. Effect(s)
    BY <1>1, ActsEffect
  <2>2. send'[s] = "done" => outcome'[s] \in {"cached", "acked", "failed"}
    BY <2>1 DEF Called, Effect, Calling, Inserting, Returning, TypeOK, InsertInv
  <2> QED
    BY <1>1, <2>2, OthersWait DEF AnsweredInv
<1>2. CASE Tick
  BY <1>2 DEF Tick, AnsweredInv
<1>3. CASE UNCHANGED vars
  BY <1>3 DEF vars, AnsweredInv
<1> QED
  BY <1>1, <1>2, <1>3, NextActs

-----------------------------------------------------------------------------
(* Theorems.                                                               *)

\* The maps, the cache and the calls of send() keep their types.
THEOREM TypeCorrect == Spec => []TypeOK
<1>1. Inv => TypeOK
  BY DEF Inv
<1> QED
  BY <1>1, Invariance, PTL

\* A message that QueueCache.send() leaves out repeats one of the last few seconds,
\* which the queue has answered when it is waited for.
THEOREM LeftOutMessagesAreRecent == Spec => LeftOutIsRecent
<1>1. Inv /\ [Next]_vars =>
        [\A s \in Sends : outcome[s] # "cached" /\ outcome'[s] = "cached" =>
            \E t \in Sends : /\ KeyOf[t] = KeyOf[s] /\ putAt[t] > 0
                             /\ now < putAt[t] + Ttl + PutLimit
                             /\ waitForQueueAck => outcome[t] = "acked"]_vars
  BY LeftOutStep
<1> QED
  BY <1>1, Invariance, PTL DEF Spec, LeftOutIsRecent

\* The memory queue revalidates a path once at a time in an isolate and marks the
\* paths that it revalidates and no other, after timeouts and errors too.
THEOREM PathsAreRevalidatedOnce == Spec => []OneRevalidation
<1>1. Init => RevalidatingInv
  BY DEF Init, RevalidatingInv
<1>2. TypeOK /\ RevalidatingInv => OneRevalidation
  <2> SUFFICES ASSUME TypeOK, RevalidatingInv, NEW i \in Isolates, memory
               PROVE  /\ revalidatedPaths[i] = {KeyOf[s] : s \in Fetching(i)}
                      /\ \A s, t \in Fetching(i) : KeyOf[s] = KeyOf[t] => s = t
    BY Zenon DEF OneRevalidation, Fetching
  <2>1. revalidatedPaths[i] \subseteq Keys /\ \A s \in Sends : KeyOf[s] \in Keys
    BY ConstantsAssumption DEF TypeOK
  <2>2. \A k \in Keys : k \in revalidatedPaths[i] <=> \E s \in Fetching(i) : KeyOf[s] = k
    BY DEF RevalidatingInv, Fetching
  <2>3. \A s \in Fetching(i) : KeyOf[s] \in Keys
    BY <2>1 DEF Fetching
  <2>4. revalidatedPaths[i] = {KeyOf[s] : s \in Fetching(i)}
    BY <2>1, <2>2, <2>3
  <2> QED
    BY <2>4 DEF RevalidatingInv, Fetching
<1> QED
  BY <1>1, <1>2, RevalidatingStep, TypeCorrect, PTL DEF Spec

\* No send() goes on forever: each of its steps leaves it fewer awaits, of five at
\* most, whatever the caches, the queue and other calls do meanwhile.
THEOREM SendsAdvance ==
    Spec => [][\A s \in Sends : send'[s] = send[s] \/ Awaits(s)' < Awaits(s)]_vars
<1>1. TypeOK /\ [Next]_vars => [\A s \in Sends : send'[s] = send[s] \/ Awaits(s)' < Awaits(s)]_vars
  <2> SUFFICES ASSUME TypeOK, Next PROVE \A s \in Sends : send'[s] = send[s] \/ Awaits(s)' < Awaits(s)
    OBVIOUS
  <2>1. CASE \E s \in Sends : Acts(s)
    BY <2>1, AwaitsFewer, OthersWait
  <2>2. CASE Tick
    BY <2>2 DEF Tick
  <2> QED
    BY <2>1, <2>2 DEF Next, Acts
<1> QED
  BY <1>1, TypeCorrect, PTL DEF Spec

\* A send() that has returned has left its message out, or had an answer or an
\* error for it: it does not return before the queue has been heard of.
THEOREM SendsAreAnswered == Spec => []AnsweredInv
<1>1. Init => AnsweredInv
  BY DEF Init, AnsweredInv
<1>2. Inv => TypeOK /\ InsertInv
  BY DEF Inv
<1> QED
  BY <1>1, <1>2, AnsweredStep, Invariance, PTL DEF Spec
=============================================================================
