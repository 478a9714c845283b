-------------------------- MODULE BucketCachePurge --------------------------
(***************************************************************************)
(* The durable object that buffers the tags to purge from the CDN and      *)
(* purges them in batches from its alarm, so that the purge API is called  *)
(* no more often than its rate limit allows.                               *)
(*                                                                         *)
(* The object keeps no state in memory: the table and the alarm persist.   *)
(* An `await' on its storage lets nothing in but a crash; while alarm()    *)
(* awaits the purge API, calls are received.                               *)
(*                                                                         *)
(* The worker exports the class of this object, and Worker_proofs extends  *)
(* this module as well as Worker: hence the names of what both have.       *)
(***************************************************************************)
EXTENDS Naturals, FiniteSets

CONSTANTS
    Tags,
    Calls,              \* calls of purgeCacheByTags(), each made once
    BatchSize,          \* MAX_NUMBER_OF_TAGS_PER_PURGE
    PlatformRetries,    \* how often the platform retries an alarm() that throws
    MaxRateLimits,      \* bound: answers 429 of the API
    MaxCrashes          \* bound: crashes of the object

ASSUME FiniteAssumption == IsFiniteSet(Tags)
ASSUME BatchAssumption == BatchSize \in Nat \ {0}
ASSUME BoundAssumption == {PlatformRetries, MaxRateLimits, MaxCrashes} \subseteq Nat

VARIABLES
    table,      \* table cache_purge
    alarm,      \* an alarm of the object is set
    attempts,   \* retries so far of that alarm, or of the one being handled
    call,       \* where each call is
    asked,      \* the tags it asks to purge
    handler,    \* where alarm() is, and what its request to the API met with
    batch,      \* tags: the rows alarm() selected
    limited,    \* answers 429 so far
    crashes,    \* crashes so far
    outdated,   \* history: tags asked for whose copies the CDN still has
    refused,    \* history: tags whose rows were dropped though the API failed
    overtaken   \* history: tags asked for again after their purge, before its answer

platform == <<alarm, attempts>>
history == <<outdated, refused, overtaken>>
purgeVars == <<table, platform, call, asked, handler, batch, limited, crashes, history>>

PurgeTypeOK ==
    /\ table \subseteq Tags
    /\ alarm \in BOOLEAN
    /\ call \in [Calls -> {"idle", "inserted", "acknowledged", "failed"}]
    /\ asked \in [Calls -> SUBSET Tags]
    /\ handler \in {"idle", "sent", "purged", "unpurged"}
    /\ batch \subseteq Tags
    /\ Cardinality(batch) <= BatchSize
    /\ {attempts, limited, crashes} \subseteq Nat
    /\ {outdated, refused, overtaken} \subseteq SUBSET Tags

PurgeInit ==
    /\ table = {}
    /\ alarm = FALSE
    /\ attempts = 0
    /\ call = [c \in Calls |-> "idle"]
    /\ asked = [c \in Calls |-> {}]
    /\ handler = "idle"
    /\ batch = {}
    /\ limited = 0
    /\ crashes = 0
    /\ outdated = {}
    /\ refused = {}
    /\ overtaken = {}

InputGateOpen == \A c \in Calls : call[c] # "inserted"

-----------------------------------------------------------------------------
(* purgeCacheByTags(tags).                                                 *)

\* The rows are inserted, up to the await on getAlarm().
Insert(c, tags) ==
    /\ InputGateOpen
    /\ call[c] = "idle"
    /\ call' = [call EXCEPT ![c] = "inserted"]
    /\ asked' = [asked EXCEPT ![c] = tags]
    /\ table' = table \cup tags
    /\ outdated' = outdated \cup tags
    /\ refused' = refused \ tags
    /\ overtaken' = IF handler \in {"purged", "unpurged"}
                    THEN overtaken \cup (tags \cap batch)
                    ELSE overtaken \ tags
    /\ UNCHANGED <<platform, handler, batch, limited, crashes>>

\* Slip: an alarm is set for the first rows of the table only.
SetAlarmForFirst(c) ==
    /\ call[c] = "inserted"
    /\ call' = [call EXCEPT ![c] = "acknowledged"]
    /\ alarm' = (alarm \/ table = asked[c])
    /\ attempts' = IF alarm THEN attempts ELSE 0
    /\ UNCHANGED <<table, asked, handler, batch, limited, crashes, history>>

\* getAlarm() answers, and an alarm is set unless there is one.
SetAlarm(c) ==
    /\ call[c] = "inserted"
    /\ call' = [call EXCEPT ![c] = "acknowledged"]
    /\ alarm' = TRUE
    /\ attempts' = IF alarm THEN attempts ELSE 0
    /\ UNCHANGED <<table, asked, handler, batch, limited, crashes, history>>

-----------------------------------------------------------------------------
(* alarm().                                                                *)

\* Slip: no LIMIT.
AllRows(rows) == {rows}

\* SELECT * FROM cache_purge LIMIT 100
FirstRows(rows) ==
    {some \in SUBSET rows : /\ Cardinality(some) <= BatchSize
                            /\ some # rows => Cardinality(some) = BatchSize}

\* The next batch is sent to the API, or alarm() returns.
Purge(rows) ==
    IF rows = {}
    THEN handler' = "idle" /\ batch' = {}
    ELSE handler' = "sent" /\ batch' \in FirstRows(rows)

\* The platform clears the alarm and runs alarm().
FireAlarm ==
    /\ InputGateOpen
    /\ alarm
    /\ handler = "idle"
    /\ alarm' = FALSE
    /\ Purge(table)
    /\ UNCHANGED <<table, attempts, call, asked, limited, crashes, history>>

\* The API purges the batch, or does not.
CdnPurges ==
    /\ handler = "sent"
    /\ \/ handler' = "purged" /\ outdated' = outdated \ batch
       \/ handler' = "unpurged" /\ UNCHANGED outdated
    /\ UNCHANGED <<table, platform, call, asked, batch, limited, crashes, refused, overtaken>>

\* Slip: the whole table is deleted.
EveryRow == table

\* DELETE FROM cache_purge WHERE tag IN ...
DeletedRows == batch

\* Slip: one batch per alarm.
AfterOneBatch == handler' = "idle" /\ batch' = {}

\* A short batch was the last one; otherwise the next one is selected.
NextBatch ==
    IF Cardinality(batch) < BatchSize
    THEN handler' = "idle" /\ batch' = {}
    ELSE Purge(table')

\* "purge-success", or "purge-failed" and "missing-credentials": a failure is
\* an answer of the API or of the network, so the purge may have been applied.
\* The rows are deleted all the same.
Answer ==
    /\ InputGateOpen
    /\ handler \in {"purged", "unpurged"}
    /\ table' = table \ DeletedRows
    /\ NextBatch
    /\ refused' = IF handler = "unpurged" THEN refused \cup batch ELSE refused
    /\ UNCHANGED <<platform, call, asked, limited, crashes, outdated, overtaken>>

\* "rate-limit-exceeded": alarm() throws, and the platform retries the alarm
\* unless another was set or it has been retried often enough.
RateLimited ==
    /\ InputGateOpen
    /\ handler = "unpurged"
    /\ limited < MaxRateLimits
    /\ limited' = limited + 1
    /\ alarm' = (alarm \/ attempts < PlatformRetries)
    /\ attempts' = IF alarm THEN attempts ELSE attempts + 1
    /\ handler' = "idle"
    /\ batch' = {}
    /\ UNCHANGED <<table, call, asked, crashes, history>>

\* The object is reset: a call being received fails, with its rows in the
\* table, and the platform runs an interrupted alarm() again.
Crash ==
    /\ crashes < MaxCrashes
    /\ crashes' = crashes + 1
    /\ call' = [c \in Calls |->
                    IF call[c] = "inserted" THEN "failed" ELSE call[c]]
    /\ alarm' = (alarm \/ handler # "idle")
    /\ handler' = "idle"
    /\ batch' = {}
    /\ UNCHANGED <<table, attempts, asked, limited, history>>

-----------------------------------------------------------------------------
PurgeNext ==
    \/ \E c \in Calls, tags \in SUBSET Tags : Insert(c, tags)
    \/ \E c \in Calls : SetAlarm(c)
    \/ FireAlarm
    \/ CdnPurges
    \/ Answer
    \/ RateLimited
    \/ Crash

PurgeSpec == PurgeInit /\ [][PurgeNext]_purgeVars

\* The storage answers or the object is reset, the platform fires a due alarm,
\* and the API answers, with 429 only so often (MaxRateLimits).
Fairness ==
    /\ \A c \in Calls : WF_purgeVars(SetAlarm(c))
    /\ WF_purgeVars(FireAlarm)
    /\ WF_purgeVars(CdnPurges)
    /\ WF_purgeVars(Answer)

FairPurgeSpec == PurgeSpec /\ Fairness

-----------------------------------------------------------------------------
(* What has to hold.                                                       *)

\* A tag asked for and not purged since has a row, unless the API failed for
\* it or its row was deleted by the answer to an older purge: rows inserted
\* while alarm() awaits the API are not lost, nor are those of a batch that was
\* rate limited or interrupted.
NoPurgeForgotten == outdated \subseteq table \cup refused \cup overtaken

\* Rows left in the table have an alarm that will purge them, even when they
\* were inserted while alarm() was running: except rows of a call that
\* failed, and after more answers 429 than the platform retries.
RowsHaveAlarm ==
    table # {} => \/ alarm
                  \/ handler # "idle"
                  \/ \E c \in Calls : call[c] \in {"inserted", "failed"}
                  \/ limited > PlatformRetries

\* Once an alarm is set, the table is emptied: batch after batch, across crashes
\* and as many answers 429 as the platform retries.
TableEmptied == (table # {} /\ alarm) ~> (table = {} \/ limited > PlatformRetries)
=============================================================================
