----------------------------- MODULE QueueCache -----------------------------
(***************************************************************************)
(* QueueCache: the cache that keeps a revalidation from being sent again   *)
(* to the queue for a few seconds, with a map in the memory of an isolate  *)
(* and the Cache API of its colo; and behind it the memory queue, which    *)
(* revalidates in the isolate, or the durable object queue, of which only  *)
(* the answer matters here.                                                *)
(*                                                                         *)
(* The isolates are those of one colo: colos share nothing but the queue.  *)
(***************************************************************************)
EXTENDS Naturals, FiniteSets

CONSTANTS
    Isolates, Keys,         \* a key: MessageGroupId and MessageDeduplicationId
    Sends, IsolateOf, KeyOf,\* calls of send(), each made once
    None,
    WaitForQueueAck,        \* values of waitForQueueAck to consider
    Memory,                 \* whether the queue is the memory queue: values to consider
    Ttl,                    \* regionalCacheTtlSec
    Timeout,                \* revalidationTimeoutMs
    PutLimit,               \* how long cache.put() takes at most
    MaxTime                 \* bound: the clock stops here

ASSUME ConstantsAssumption ==
    /\ IsolateOf \in [Sends -> Isolates] /\ KeyOf \in [Sends -> Keys]
    /\ WaitForQueueAck \subseteq BOOLEAN /\ Memory \subseteq BOOLEAN
    /\ {Ttl, Timeout, PutLimit, MaxTime} \subseteq Nat
    /\ None \notin Nat

VARIABLES
    waitForQueueAck, memory,
    now,
    localCache,         \* of each isolate: when a key was inserted
    cache,              \* the Cache API: until when a key is kept
    revalidatedPaths,   \* of each isolate: the keys the memory queue revalidates
    send,               \* where each send() is
    since,              \* when it got there, of those that are timed
    outcome,            \* history: what became of its call of the queue
    putAt               \* history: when it inserted its key, 0 for never

vars == <<waitForQueueAck, memory, now, localCache, cache, revalidatedPaths, send, since,
          outcome, putAt>>

States == {"idle", "matching", "putting", "throwing", "sending", "fetching", "done"}

\* Not called, left out because of the cache, called, answered without or with an error.
Outcomes == {"none", "cached", "called", "acked", "failed"}

TypeOK ==
    /\ waitForQueueAck \in BOOLEAN /\ memory \in BOOLEAN
    /\ now \in Nat
    /\ localCache \in [Isolates -> [Keys -> Nat \cup {None}]]
    /\ cache \in [Keys -> Nat]
    /\ revalidatedPaths \in [Isolates -> SUBSET Keys]
    /\ send \in [Sends -> States] /\ since \in [Sends -> Nat]
    /\ outcome \in [Sends -> Outcomes]
    /\ putAt \in [Sends -> Nat]

Init ==
    /\ waitForQueueAck \in WaitForQueueAck /\ memory \in Memory
    /\ now = 1
    /\ localCache = [i \in Isolates |-> [k \in Keys |-> None]]
    /\ cache = [k \in Keys |-> 0]
    /\ revalidatedPaths = [i \in Isolates |-> {}]
    /\ send = [s \in Sends |-> "idle"] /\ since = [s \in Sends |-> 0]
    /\ outcome = [s \in Sends |-> "none"]
    /\ putAt = [s \in Sends |-> 0]

Goes(s, where) ==
    /\ send' = [send EXCEPT ![s] = where]
    /\ since' = [since EXCEPT ![s] = IF where \in {"putting", "fetching"} THEN now ELSE 0]

Becomes(s, what) == outcome' = [outcome EXCEPT ![s] = what]

\* clearLocalCache(), which every send() ends with.
Cleared(local) ==
    [k \in Keys |-> IF local[k] # None /\ local[k] + Ttl < now THEN None ELSE local[k]]

Ends(s, local) ==
    /\ Goes(s, "done")
    /\ UNCHANGED putAt
    /\ localCache' = [localCache EXCEPT ![IsolateOf[s]] = Cleared(local)]

Local(s) == localCache[IsolateOf[s]]

-----------------------------------------------------------------------------
(* MemoryQueue.send().                                                     *)

\* Slip: the call is marked, not its deduplication id.
CallMarked(s) == [revalidatedPaths EXCEPT ![IsolateOf[s]] = @ \cup {s}]

\* Slip: a failing revalidation leaves its path marked.
KeptMarked(s) == revalidatedPaths

Marked(s) == [revalidatedPaths EXCEPT ![IsolateOf[s]] = @ \cup {KeyOf[s]}]

Unmarked(s) == [revalidatedPaths EXCEPT ![IsolateOf[s]] = @ \ {KeyOf[s]}]

Revalidating(s) == memory /\ KeyOf[s] \in revalidatedPaths[IsolateOf[s]]

-----------------------------------------------------------------------------
(* QueueCache.send().                                                      *)

\* originalQueue.send(msg), as far as its first await; the memory queue throws
\* before that if it has no service binding.
CallQueue(s) ==
    /\ Becomes(s, "called")
    /\ UNCHANGED putAt
    /\ \/ /\ Goes(s, IF memory /\ ~Revalidating(s) THEN "fetching" ELSE "sending")
          /\ revalidatedPaths' = IF memory THEN Marked(s) ELSE revalidatedPaths
       \/ memory /\ Goes(s, "throwing") /\ UNCHANGED revalidatedPaths

\* putToCache(msg), as far as cache.put().
StartPut(s) ==
    /\ Goes(s, "putting")
    /\ putAt' = [putAt EXCEPT ![s] = now]
    /\ localCache' = [localCache EXCEPT ![IsolateOf[s]][KeyOf[s]] = now]

\* The cache knows nothing of the message.
Unknown(s) ==
    IF waitForQueueAck
    THEN CallQueue(s)
    ELSE StartPut(s) /\ UNCHANGED <<outcome, revalidatedPaths>>

Inserted(s) == Local(s)[KeyOf[s]] # None

Fresh(s) == Inserted(s) /\ now - Local(s)[KeyOf[s]] < Ttl

Constant == UNCHANGED <<waitForQueueAck, memory, now>>

\* isInCache(): the map of the isolate has it.
LocalHit(s) ==
    /\ send[s] = "idle" /\ Fresh(s)
    /\ Becomes(s, "cached")
    /\ Ends(s, Local(s))
    /\ Constant /\ UNCHANGED <<cache, revalidatedPaths>>

\* It has an old one, which is deleted; the Cache API is not asked.
LocalStale(s) ==
    LET forgotten == [localCache EXCEPT ![IsolateOf[s]][KeyOf[s]] = None]
    IN  /\ send[s] = "idle" /\ Inserted(s) /\ ~Fresh(s)
        /\ Unknown(s)
        /\ waitForQueueAck => localCache' = forgotten
        /\ Constant /\ UNCHANGED cache

Ask(s) ==
    /\ send[s] = "idle" /\ ~Inserted(s)
    /\ Goes(s, "matching")
    /\ Constant /\ UNCHANGED <<localCache, cache, revalidatedPaths, outcome, putAt>>

Match(s) ==
    /\ send[s] = "matching" /\ now < cache[KeyOf[s]]
    /\ Becomes(s, "cached")
    /\ Ends(s, Local(s))
    /\ Constant /\ UNCHANGED <<cache, revalidatedPaths>>

\* The Cache API has nothing, or has evicted it.
NoMatch(s) ==
    /\ send[s] = "matching"
    /\ Unknown(s)
    /\ waitForQueueAck => UNCHANGED localCache
    /\ Constant /\ UNCHANGED cache

\* It fails: the message is not sent.
MatchFails(s) ==
    /\ send[s] = "matching"
    /\ Becomes(s, "failed")
    /\ Ends(s, Local(s))
    /\ Constant /\ UNCHANGED <<cache, revalidatedPaths>>

Put(s) ==
    /\ send[s] = "putting"
    /\ cache' = [cache EXCEPT ![KeyOf[s]] = now + Ttl]
    /\ IF waitForQueueAck
       THEN Ends(s, Local(s)) /\ UNCHANGED <<outcome, revalidatedPaths>>
       ELSE CallQueue(s) /\ UNCHANGED localCache
    /\ Constant

\* It fails: without waitForQueueAck the queue is not called.
PutFails(s) ==
    /\ send[s] = "putting"
    /\ IF waitForQueueAck THEN UNCHANGED outcome ELSE Becomes(s, "failed")
    /\ Ends(s, Local(s))
    /\ Constant /\ UNCHANGED <<cache, revalidatedPaths>>

\* The queue has answered.
Answered(s) ==
    /\ Becomes(s, "acked")
    /\ IF waitForQueueAck THEN StartPut(s) ELSE Ends(s, Local(s))
    /\ Constant /\ UNCHANGED cache

\* The durable object queue has taken the message; the memory queue has left it
\* to the revalidation under way, or cancelled the body of the answer.
Acked(s) ==
    /\ send[s] = "sending"
    /\ Answered(s) /\ UNCHANGED revalidatedPaths

\* The revalidation ends, whatever its answer is: its path is unmarked, and the
\* body of the answer is left to cancel.
Fetched(s) ==
    /\ send[s] = "fetching"
    /\ Goes(s, "sending") /\ revalidatedPaths' = Unmarked(s)
    /\ Constant /\ UNCHANGED <<localCache, cache, outcome, putAt>>

\* Slip: a fetch without AbortSignal.timeout().
NeverTimesOut(s) == FALSE

\* The clock of the model stops; timeouts do not.
TimesOut(s) == now >= since[s] + Timeout \/ now = MaxTime

FetchTimesOut(s) ==
    /\ send[s] = "fetching" /\ TimesOut(s)
    /\ Answered(s) /\ revalidatedPaths' = Unmarked(s)

\* Slip: an error of the queue counts as its answer.
TakenAsAnswer(s) == IF waitForQueueAck THEN StartPut(s) ELSE Ends(s, Local(s))

GivenUp(s) == Ends(s, Local(s))

\* The durable object queue fails, or the memory queue has thrown.
Failed(s) ==
    /\ send[s] = IF memory THEN "throwing" ELSE "sending"
    /\ Becomes(s, "failed")
    /\ GivenUp(s)
    /\ Constant /\ UNCHANGED <<cache, revalidatedPaths>>

Tick ==
    /\ now < MaxTime
    /\ \A s \in Sends : send[s] = "putting" => now < since[s] + PutLimit
    /\ now' = now + 1
    /\ cache' = [k \in Keys |-> IF cache[k] > now + 1 THEN cache[k] ELSE 0]
    /\ UNCHANGED <<waitForQueueAck, memory, localCache, revalidatedPaths, send, since,
                   outcome, putAt>>

-----------------------------------------------------------------------------
Asks(s) == LocalHit(s) \/ LocalStale(s) \/ Ask(s)

Cached(s) == Match(s) \/ NoMatch(s) \/ MatchFails(s)

Puts(s) == Put(s) \/ PutFails(s)

Sent(s) == Acked(s) \/ Failed(s)

Next == Tick \/ \E s \in Sends : Asks(s) \/ Cached(s) \/ Puts(s) \/ Sent(s) \/ Fetched(s)
                                 \/ FetchTimesOut(s)

Spec == Init /\ [][Next]_vars

\* The Cache API and a durable object answer or fail, a body is cancelled, and
\* time goes on; the server that revalidates may never answer.
Fairness ==
    /\ WF_vars(Tick)
    /\ \A s \in Sends : /\ WF_vars(Cached(s)) /\ WF_vars(Puts(s)) /\ WF_vars(Sent(s))
                        /\ WF_vars(FetchTimesOut(s))

FairSpec == Spec /\ Fairness

-----------------------------------------------------------------------------
(* What has to hold.                                                       *)

\* A message left out because of the cache repeats one of the last few seconds,
\* that the queue has answered when it is waited for: what is found is not kept
\* any longer for it, and an error of the queue leaves nothing to find.
LeftOutIsRecent ==
    [][\A s \in Sends : outcome[s] # "cached" /\ outcome'[s] = "cached" =>
         \E t \in Sends : /\ KeyOf[t] = KeyOf[s] /\ putAt[t] > 0
                          /\ now < putAt[t] + Ttl + PutLimit
                          /\ waitForQueueAck => outcome[t] = "acked"]_vars

\* The memory queue revalidates a path once at a time in an isolate, and has
\* marked the paths that it revalidates and no other: none is shut out for good.
OneRevalidation ==
    \A i \in Isolates : memory =>
        LET fetching == {s \in Sends : send[s] = "fetching" /\ IsolateOf[s] = i}
        IN  /\ revalidatedPaths[i] = {KeyOf[s] : s \in fetching}
            /\ \A s, t \in fetching : KeyOf[s] = KeyOf[t] => s = t

\* Every send() returns, even when the server that revalidates never answers.
SendEnds == \A s \in Sends : send[s] # "idle" ~> send[s] = "done"
=============================================================================
