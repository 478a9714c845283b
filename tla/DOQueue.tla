------------------------------- MODULE DOQueue -------------------------------
(***************************************************************************)
(* The durable object queue: DOQueueHandler, which runs the time-based     *)
(* (ISR) revalidations a worker asks for, one HEAD request to the worker   *)
(* itself per revalidation.                                                *)
(*                                                                         *)
(* A durable object is single threaded.  An `await' on the network lets    *)
(* other events in; an `await' on the object's storage closes the input    *)
(* gate, so that only the crash of the object can come in between; and the *)
(* continuations of a settled promise run before the next event.           *)
(* Quiescent is the state in which the next event may be delivered.        *)
(***************************************************************************)
EXTENDS Integers, FiniteSets, FiniteSetsExt

CONSTANTS
    Ids,                \* deduplication ids: one per route and version of its cache entry
    Routes,             \* host + url
    RouteOf,            \* the route of an id
    LastModified,       \* the lastModified (ms) of the cache entry an id is about
    Calls,              \* calls of revalidate(), each made once
    AlarmHandler,       \* the run of alarm() the platform starts
    None,
    MaxRevalidations,   \* NEXT_CACHE_DO_QUEUE_MAX_REVALIDATION
    MaxRetries,         \* NEXT_CACHE_DO_QUEUE_MAX_RETRIES
    RetryInterval,      \* NEXT_CACHE_DO_QUEUE_RETRY_INTERVAL_MS
    DisableSQLite,      \* NEXT_CACHE_DO_QUEUE_DISABLE_SQLITE
    TickMs,             \* bound: the clock moves by this much
    MaxTime,            \* bound: and stops here
    MaxCrashes,         \* bound: crashes and evictions of the object
    MaxBuilds           \* bound: builds deployed

FailedState == [retryCount : Nat, nextAlarmMs : Nat]
FailedRow == [data : FailedState, buildId : Nat]
SyncRow == [lastSuccess : Nat, buildId : Nat]

Actors == Calls \cup {AlarmHandler}

ASSUME FiniteAssumption == IsFiniteSet(Ids) /\ IsFiniteSet(Calls)

ASSUME MessageAssumption ==
    /\ RouteOf \in [Ids -> Routes]
    /\ LastModified \in [Ids -> Nat]

ASSUME NoneAssumption ==
    /\ AlarmHandler \notin Calls
    /\ None \notin Ids \cup Actors
    /\ None \notin FailedState \cup FailedRow \cup SyncRow \cup Nat

ASSUME ConfigAssumption ==
    /\ MaxRetries \in Nat
    /\ {MaxRevalidations, RetryInterval, TickMs} \subseteq Nat \ {0}
    /\ DisableSQLite \in BOOLEAN
    /\ {MaxTime, MaxCrashes, MaxBuilds} \subseteq Nat

VARIABLES
    up,             \* the object is in memory and its state is restored
    buildId,        \* the deployed build
    now,            \* Date.now()
    ongoing,        \* ongoingRevalidations: the call whose promise the map holds
    failed,         \* routeInFailedState
    failedRows,     \* table failed_state
    syncRows,       \* table sync
    alarm,          \* the alarm of the object, kept by the platform
    phase,          \* where each call, and the alarm handler, is
    msg,            \* the message it handles
    racing,         \* the calls whose promises a blocked call races
    todo,           \* what is left of allEventsToRetry in alarm()
    crashes,        \* crashes so far
    succeededAt,    \* history: when (ms) the sync row of a route was written
    lost            \* history: the failed states the last crash took from the memory

memory == <<ongoing, failed>>
storage == <<failedRows, syncRows, succeededAt>>
code == <<phase, msg, racing, todo>>
world == <<up, buildId, now, crashes, lost>>
vars == <<world, memory, storage, alarm, code>>

Phases == {"idle", "blocked", "fetching", "addAlarm", "cancelling", "done"}

TypeOK ==
    /\ up \in BOOLEAN
    /\ {buildId, now, crashes} \subseteq Nat
    /\ ongoing \in [Ids -> Calls \cup {None}]
    /\ failed \in [Ids -> FailedState \cup {None}]
    /\ failedRows \in [Ids -> FailedRow \cup {None}]
    /\ syncRows \in [Routes -> SyncRow \cup {None}]
    /\ alarm \in Nat \cup {None}
    /\ phase \in [Actors -> Phases]
    /\ msg \in [Actors -> Ids \cup {None}]
    /\ racing \in [Calls -> SUBSET Calls]
    /\ todo \subseteq Ids
    /\ succeededAt \in [Routes -> Nat]
    /\ lost \in [Ids -> FailedState \cup {None}]

NothingFailed == [id \in Ids |-> None]

Init ==
    /\ up = TRUE
    /\ buildId = 1
    /\ now = 0
    /\ ongoing = [id \in Ids |-> None]
    /\ failed = NothingFailed
    /\ failedRows = [id \in Ids |-> None]
    /\ syncRows = [r \in Routes |-> None]
    /\ alarm = None
    /\ phase = [a \in Actors |-> "idle"]
    /\ msg = [a \in Actors |-> None]
    /\ racing = [c \in Calls |-> {}]
    /\ todo = {}
    /\ crashes = 0
    /\ succeededAt = [r \in Routes |-> 0]
    /\ lost = NothingFailed

-----------------------------------------------------------------------------
(* Scheduling of the object.                                               *)

Busy == {"fetching", "addAlarm", "cancelling"}  \* inside executeRevalidation

\* One of the promises a blocked call races has settled.
Awake(c) == /\ phase[c] = "blocked"
            /\ \E d \in racing[c] : phase[d] = "done"

\* No continuation is due and the input gate is open.
Quiescent == /\ up
             /\ \A a \in Actors : phase[a] # "addAlarm"
             /\ \A c \in Calls : ~Awake(c)

-----------------------------------------------------------------------------
(* revalidate(msg).                                                        *)

Running == {id \in Ids : ongoing[id] # None}

HasFreeSlot == Cardinality(Running) < MaxRevalidations

\* Math.round(lastModified / 1000)
RoundToSeconds(ms) == (ms + 500) \div 1000

\* unixepoch()
UnixEpoch == now \div 1000

\* Slip: >= where the query has >.
SyncedAtOrSince(id) ==
    /\ ~DisableSQLite
    /\ syncRows[RouteOf[id]] # None
    /\ syncRows[RouteOf[id]].lastSuccess >= RoundToSeconds(LastModified[id])

\* checkSyncTable(msg)
SyncedSince(id) ==
    /\ ~DisableSQLite
    /\ syncRows[RouteOf[id]] # None
    /\ syncRows[RouteOf[id]].lastSuccess > RoundToSeconds(LastModified[id])

\* The early returns of revalidate(): the first two need no storage.
InMemory(id) == ongoing[id] # None \/ failed[id] # None

AlreadyHandled(id) == InMemory(id) \/ SyncedSince(id)

\* checkSyncTable answers false when the query finds no row, and when it throws.
GoesAhead(id) == ~InMemory(id)

\* A call reaches an object in memory with a message about an entry that exists.
Arrives(c, id) == /\ Quiescent
                  /\ phase[c] = "idle"
                  /\ LastModified[id] <= now

\* executeRevalidation runs up to its fetch, and its promise is stored.
StartRevalidation(c, id) ==
    /\ phase' = [phase EXCEPT ![c] = "fetching"]
    /\ ongoing' = [ongoing EXCEPT ![id] = c]
    /\ racing' = [racing EXCEPT ![c] = {}]

\* Slip: the iterator of the map is already exhausted when it is raced.
RaceNothing(c) ==
    /\ phase' = [phase EXCEPT ![c] = "blocked"]
    /\ racing' = [racing EXCEPT ![c] = {}]
    /\ UNCHANGED <<ongoing>>

\* Slip: deleted entries are raced too.
RaceEverything(c) ==
    /\ phase' = [phase EXCEPT ![c] = "blocked"]
    /\ racing' = [racing EXCEPT ![c] = {ongoing[id] : id \in Ids}]
    /\ UNCHANGED <<ongoing>>

\* Promise.race over the values of the map, as they are now.
RaceOngoing(c) ==
    /\ phase' = [phase EXCEPT ![c] = "blocked"]
    /\ racing' = [racing EXCEPT ![c] = {ongoing[id] : id \in Running}]
    /\ UNCHANGED <<ongoing>>

Deduplicate(c, id) ==
    /\ Arrives(c, id)
    /\ AlreadyHandled(id)
    /\ phase' = [phase EXCEPT ![c] = "done"]
    /\ msg' = [msg EXCEPT ![c] = id]
    /\ UNCHANGED <<world, memory, storage, alarm, racing, todo>>

Start(c, id) ==
    /\ Arrives(c, id)
    /\ GoesAhead(id)
    /\ HasFreeSlot
    /\ msg' = [msg EXCEPT ![c] = id]
    /\ StartRevalidation(c, id)
    /\ UNCHANGED <<world, failed, storage, alarm, todo>>

Block(c, id) ==
    /\ Arrives(c, id)
    /\ GoesAhead(id)
    /\ ~HasFreeSlot
    /\ msg' = [msg EXCEPT ![c] = id]
    /\ RaceOngoing(c)
    /\ UNCHANGED <<world, failed, storage, alarm, todo>>

\* Slip: `if' where the code has `while'.
WakeOnce(c) ==
    /\ up
    /\ Awake(c)
    /\ StartRevalidation(c, msg[c])
    /\ UNCHANGED <<world, failed, storage, alarm, msg, todo>>

\* The loop tests the size again, and nothing else.
Wake(c) ==
    /\ up
    /\ Awake(c)
    /\ IF HasFreeSlot THEN StartRevalidation(c, msg[c]) ELSE RaceOngoing(c)
    /\ UNCHANGED <<world, failed, storage, alarm, msg, todo>>

-----------------------------------------------------------------------------
(* executeRevalidation(msg), by a call or by the alarm handler.            *)

\* The answer, an error or the timeout of the fetch is delivered.
Answered(e) == Quiescent /\ phase[e] = "fetching"

\* Slip: the entry is deleted on success only, and this is the other path.
KeepSlot(e) ==
    /\ UNCHANGED ongoing
    /\ phase' = [phase EXCEPT ![e] = "cancelling"]

\* The finally block, up to the cancellation of the body.
FreeSlot(e) ==
    /\ ongoing' = [ongoing EXCEPT ![msg[e]] = None]
    /\ phase' = [phase EXCEPT ![e] = "cancelling"]

ForgetFailure(id) == failed' = [failed EXCEPT ![id] = None]

\* INSERT OR REPLACE INTO sync
UpsertSync(id) ==
    IF DisableSQLite THEN UNCHANGED <<syncRows, succeededAt>>
    ELSE /\ syncRows' = [syncRows EXCEPT ![RouteOf[id]] =
                            [lastSuccess |-> UnixEpoch, buildId |-> buildId]]
         /\ succeededAt' = [succeededAt EXCEPT ![RouteOf[id]] = now]

\* 200, REVALIDATED
Revalidated(e) ==
    /\ Answered(e)
    /\ UpsertSync(msg[e])
    /\ ForgetFailure(msg[e])
    /\ FreeSlot(e)
    /\ UNCHANGED <<world, failedRows, alarm, msg, racing, todo>>

\* 200 without REVALIDATED (FatalError), or 404 (IgnorableError)
Dropped(e) ==
    /\ Answered(e)
    /\ ForgetFailure(msg[e])
    /\ FreeSlot(e)
    /\ UNCHANGED <<world, storage, alarm, msg, racing, todo>>

-----------------------------------------------------------------------------
(* addToFailedState(msg): any other status, a network error, a timeout.    *)

\* Slip: > where the code has >=.
RetriesExceeded(id) == failed[id] # None /\ failed[id].retryCount > MaxRetries

RetriesExhausted(id) == failed[id] # None /\ failed[id].retryCount >= MaxRetries

FirstRetryDelay == 2000

NextFailedState(id) ==
    IF failed[id] = None
    THEN [retryCount |-> 1, nextAlarmMs |-> now + FirstRetryDelay]
    ELSE LET tries == failed[id].retryCount + 1
         IN  [retryCount |-> tries, nextAlarmMs |-> now + (2^tries) * RetryInterval]

\* Slip: INSERT OR IGNORE.
InsertFailed(id, data) ==
    failedRows' = IF DisableSQLite \/ failedRows[id] # None THEN failedRows
                  ELSE [failedRows EXCEPT ![id] = [data |-> data, buildId |-> buildId]]

\* INSERT OR REPLACE INTO failed_state
UpsertFailed(id, data) ==
    failedRows' = IF DisableSQLite THEN failedRows
                  ELSE [failedRows EXCEPT ![id] = [data |-> data, buildId |-> buildId]]

\* The entry leaves the memory, not the table.
GiveUp(e) ==
    /\ Answered(e)
    /\ RetriesExhausted(msg[e])
    /\ ForgetFailure(msg[e])
    /\ FreeSlot(e)
    /\ UNCHANGED <<world, storage, alarm, msg, racing, todo>>

\* Up to the await on getAlarm().
RecordFailure(e) ==
    /\ Answered(e)
    /\ ~RetriesExhausted(msg[e])
    /\ failed' = [failed EXCEPT ![msg[e]] = NextFailedState(msg[e])]
    /\ UpsertFailed(msg[e], NextFailedState(msg[e]))
    /\ phase' = [phase EXCEPT ![e] = "addAlarm"]
    /\ UNCHANGED <<world, ongoing, syncRows, succeededAt, alarm, msg, racing, todo>>

\* addAlarm(), over the failed states given.
AlarmFor(states) ==
    LET entries == {id \in Ids : states[id] # None}
        earliest == Min({states[id].nextAlarmMs : id \in entries})
    IN  IF alarm # None \/ entries = {} THEN alarm
        ELSE IF earliest < now THEN now + RetryInterval
        ELSE earliest

AddAlarm(e) ==
    /\ up
    /\ phase[e] = "addAlarm"
    /\ alarm' = AlarmFor(failed)
    /\ FreeSlot(e)
    /\ UNCHANGED <<world, failed, storage, msg, racing, todo>>

-----------------------------------------------------------------------------
(* The end of executeRevalidation, and alarm().                            *)

\* The body is cancelled and the promise settles.
Settle(c) ==
    /\ Quiescent
    /\ phase[c] = "cancelling"
    /\ phase' = [phase EXCEPT ![c] = "done"]
    /\ UNCHANGED <<world, memory, storage, alarm, msg, racing, todo>>

\* The loop over `events' executes the next of them (their order is left
\* open), or the handler returns.
RetryNext(events) ==
    \/ \E id \in events :
        /\ todo' = events \ {id}
        /\ msg' = [msg EXCEPT ![AlarmHandler] = id]
        /\ phase' = [phase EXCEPT ![AlarmHandler] = "fetching"]
    \/ /\ events = {}
       /\ todo' = {}
       /\ msg' = [msg EXCEPT ![AlarmHandler] = None]
       /\ phase' = [phase EXCEPT ![AlarmHandler] = "idle"]

Expired == {id \in Ids : failed[id] # None /\ failed[id].nextAlarmMs <= now}

\* The first of the entries that are still to come.
NextEventToRetry ==
    LET future == {id \in Ids : failed[id] # None /\ failed[id].nextAlarmMs > now}
    IN  {id \in future : \A other \in future :
            failed[id].nextAlarmMs <= failed[other].nextAlarmMs}

\* The platform clears the alarm and runs alarm().
FireAlarm ==
    /\ Quiescent
    /\ phase[AlarmHandler] = "idle"
    /\ alarm # None
    /\ alarm <= now
    /\ alarm' = None
    /\ \E next \in SUBSET NextEventToRetry :
        /\ Cardinality(next) = IF NextEventToRetry = {} THEN 0 ELSE 1
        /\ RetryNext(Expired \cup next)
    /\ UNCHANGED <<world, memory, storage, racing>>

NextRetry ==
    /\ Quiescent
    /\ phase[AlarmHandler] = "cancelling"
    /\ RetryNext(todo)
    /\ UNCHANGED <<world, memory, storage, alarm, racing>>

-----------------------------------------------------------------------------
(* The life of the object.                                                 *)

\* The memory is lost, and with it the calls in progress; storage and alarm
\* stay.  The platform runs an interrupted alarm() again.
LoseMemory ==
    /\ up' = FALSE
    /\ ongoing' = [id \in Ids |-> None]
    /\ failed' = NothingFailed
    /\ phase' = [a \in Actors |-> IF a = AlarmHandler THEN "idle"
                                  ELSE IF phase[a] = "idle" THEN "idle" ELSE "done"]
    /\ msg' = [a \in Actors |-> None]
    /\ racing' = [c \in Calls |-> {}]
    /\ todo' = {}
    /\ alarm' = IF phase[AlarmHandler] # "idle" /\ alarm = None THEN now ELSE alarm

Crash ==
    /\ up
    /\ crashes < MaxCrashes
    /\ crashes' = crashes + 1
    /\ LoseMemory
    /\ lost' = failed
    /\ UNCHANGED <<buildId, now, storage>>

Deploy ==
    /\ buildId < MaxBuilds
    /\ buildId' = buildId + 1
    /\ LoseMemory
    /\ lost' = NothingFailed
    /\ UNCHANGED <<now, crashes, storage>>

\* Slip: nothing is deleted.
OfAnyBuild(rows) == rows

\* DELETE FROM ... WHERE buildId != ?
OfThisBuild(rows) ==
    [key \in DOMAIN rows |->
        IF rows[key] # None /\ rows[key].buildId = buildId THEN rows[key] ELSE None]

\* Slip: the memory starts empty.
RestoreNothing(rows) == NothingFailed

RestoredFailures(rows) ==
    [id \in Ids |-> IF rows[id] = None THEN None ELSE rows[id].data]

\* The constructor and initState(), under blockConcurrencyWhile.
Construct ==
    /\ ~up
    /\ up' = TRUE
    /\ IF DisableSQLite THEN UNCHANGED <<failedRows, syncRows, failed, alarm>>
       ELSE /\ failedRows' = OfThisBuild(failedRows)
            /\ syncRows' = OfThisBuild(syncRows)
            /\ failed' = RestoredFailures(failedRows')
            /\ alarm' = AlarmFor(failed')
    /\ lost' = NothingFailed
    /\ UNCHANGED <<buildId, now, crashes, ongoing, succeededAt, code>>

Tick ==
    /\ now + TickMs <= MaxTime
    /\ now' = now + TickMs
    /\ UNCHANGED <<up, buildId, crashes, lost, memory, storage, alarm, code>>

-----------------------------------------------------------------------------
Execute(e) == Revalidated(e) \/ Dropped(e) \/ GiveUp(e) \/ RecordFailure(e) \/ AddAlarm(e)

Next ==
    \/ \E c \in Calls, id \in Ids : Deduplicate(c, id) \/ Start(c, id) \/ Block(c, id)
    \/ \E c \in Calls : Wake(c) \/ Settle(c)
    \/ \E e \in Actors : Execute(e)
    \/ FireAlarm
    \/ NextRetry
    \/ Crash
    \/ Deploy
    \/ Construct
    \/ Tick

Spec == Init /\ [][Next]_vars

\* The fetch has a timeout, the storage answers or the object is reset, and a
\* due continuation runs.  Nothing obliges a call to arrive, the object to be
\* constructed again or the clock to move.
Fairness ==
    /\ \A e \in Actors : WF_vars(Execute(e))
    /\ \A c \in Calls : WF_vars(Wake(c)) /\ WF_vars(Settle(c))
    /\ WF_vars(NextRetry)

FairSpec == Spec /\ Fairness

-----------------------------------------------------------------------------
(* What has to hold.                                                       *)

\* The map never holds more revalidations than configured.
OngoingBounded == Cardinality(Running) <= MaxRevalidations

Pool == INSTANCE BoundedPool WITH Tasks <- Ids, running <- Running, limit <- MaxRevalidations

\* The map is a pool of at most that many revalidations, one more at a time,
\* whatever the order in which slots are freed, blocked calls woken and new
\* calls received (the while loop of revalidate()).
PoolIsBounded == Pool!Spec

\* Every entry of the map belongs to a call that is still executing that very
\* message: no early exit of executeRevalidation leaks a slot, and a
\* second run of the same id, or the alarm handler's, leaves no orphan.
NoLeakedSlot ==
    \A id \in Running : /\ phase[ongoing[id]] \in {"fetching", "addAlarm"}
                        /\ msg[ongoing[id]] = id

\* A blocked call races calls that are still executing or whose promise has
\* settled, and at least one: it cannot miss its wake-up.
NoLostWakeup ==
    \A c \in Calls : phase[c] = "blocked" =>
        /\ racing[c] # {}
        /\ \A d \in racing[c] : phase[d] \in Busy \cup {"done"}

\* What the memory knows of a failed route survives a restart in its latest
\* form: retry count and date are those of the row, which is of this build.
FailedStatePersisted ==
    ~DisableSQLite => \A id \in Ids : failed[id] # None =>
        failedRows[id] = [data |-> failed[id], buildId |-> buildId]

\* Once the object is constructed, no row written by another build can restore
\* a failure or hide a revalidation.
NoForeignRows ==
    up => /\ \A id \in Ids : failedRows[id] # None => failedRows[id].buildId = buildId
          /\ \A r \in Routes : syncRows[r] # None => syncRows[r].buildId = buildId

\* What the memory lost is back, what else is restored is what a row of this build
\* says, and whatever is restored has an alarm.
Restores ==
    /\ \A id \in Ids : lost[id] # None => failed'[id] = lost[id]
    /\ \A id \in Ids : failed'[id] # None =>
          failedRows[id] = [data |-> failed'[id], buildId |-> buildId]
    /\ failed' # NothingFailed => alarm' # None

\* A crash loses no failed route and a deployment brings none along: the object
\* constructed after a crash has every failed state its memory held at that moment,
\* in its latest form, with an alarm to retry it, and an object in memory never sees
\* a row of another build (initState(), and the rows addToFailedState() writes for it).
RestoredState ==
    [][/\ ~up /\ up' /\ ~DisableSQLite => Restores
       /\ NoForeignRows']_vars

\* The sync table only drops a message about a cache entry at least half a
\* second older than the last success of the route: the comparison of a
\* truncated with a rounded second never drops a fresher entry.
SyncDropsOnlyOlder ==
    \A id \in Ids : SyncedSince(id) => LastModified[id] + 500 <= succeededAt[RouteOf[id]]

\* No sequence of calls, retries and restarts counts an id past the retries it
\* is allowed (one is recorded before the limit is first read).
RetryBudget ==
    \A id \in Ids : failed[id] # None => failed[id].retryCount <= Max({1, MaxRetries})

\* "We don't want to set an alarm in the past": not by a late retry, and not
\* when a restart finds dates that have passed.
AlarmNotInPast == [][alarm' \notin {alarm, None} => alarm' >= now]_vars

\* A call that arrived, blocked or not, and a started alarm handler come to
\* their end.
EveryRunEnds ==
    \A a \in Actors : phase[a] \notin {"idle", "done"} ~> phase[a] \in {"idle", "done"}

-----------------------------------------------------------------------------
(* What the code does not keep, though a comment says so.                  *)

\* "The route is already in a failed state, it will be retried later."
FailedRouteHasAlarm ==
    (Quiescent /\ phase[AlarmHandler] = "idle" /\ \E id \in Ids : failed[id] # None)
        => alarm # None
=============================================================================
