---------------------------- MODULE PopulateCache ----------------------------
(***************************************************************************)
(* populateCache(): the command that fills the incremental cache from the  *)
(* build, and creates the table of the D1 tag cache, before a deployment.  *)
(*                                                                         *)
(* R2 is filled through a worker started for it, r2-cache.ts, or with      *)
(* rclone from a staging directory: both run a pool of promises.  KV is    *)
(* filled by chunks, static assets by a copy.  A command that failed may   *)
(* be run again.                                                           *)
(*                                                                         *)
(* JavaScript runs the continuations of an answer before it takes the next *)
(* one: an answer, the end of its promise and what the loop that awaits it *)
(* does are one step, or steps nothing comes between.                      *)
(***************************************************************************)
EXTENDS Naturals, FiniteSets

CONSTANTS
    Count,              \* the number of cache assets, 1 to Count in their order
    Plans,              \* what is to be populated and how: plans to consider
    NaN,
    MaxRequestRetries,
    MaxRuns             \* bound: times the command is run

Assets == 1 .. Count

\* The options, and what the configuration and resolveCacheName() give.
Plan == [incremental : {"r2", "rclone", "kv", "static", "none"}, tag : {"d1", "none"},
         remote : BOOLEAN, cacheChunkSize : Nat \cup {NaN}]

ASSUME ConstantsAssumption ==
    /\ Count \in Nat /\ MaxRequestRetries \in Nat \ {0} /\ MaxRuns \in Nat
    /\ Plans \subseteq Plan
    /\ NaN \notin Nat

VARIABLES
    plan,
    runs,
    step,       \* where populateCache() is
    next,       \* the next asset the loop of the pool, or of the chunks, takes
    pending,    \* the promises of the pool
    task,       \* where the task of each asset is
    attempt,    \* which attempt of sendEntryToR2Worker() it makes
    worker,     \* whether the worker that writes to R2 runs
    temp,       \* temporary directories and files this run has made and not removed
    stored,     \* assets that the incremental cache holds
    columns,    \* of the table revalidations, {} when there is none
    bucket,     \* whether the remote bucket exists
    unaltered   \* history: whether ALTER TABLE failed for another reason than theirs

pool == <<next, pending, task, attempt>>
cloud == <<stored, columns, bucket>>
vars == <<plan, runs, step, pool, worker, temp, cloud, unaltered>>

Steps == {"start", "bucket", "account", "find", "create", "worker", "sending", "configDir",
          "stagingDir", "keys", "staging", "copying", "chunksDir", "kv", "static", "cleaning", "tags", "alter", "done",
          "failing", "failed"}

\* Of rclone: two directories, and in the first the file with the keys.  Of KV: a
\* directory, and in it the file of a chunk.
RcloneFiles == {"config", "keys", "staging"}
KVFiles == {"chunks", "chunk"}

TypeOK ==
    /\ plan \in Plans
    /\ runs \in Nat
    /\ step \in Steps
    /\ next \in 1 .. Count + 1
    /\ pending \subseteq Assets
    /\ task \in [Assets -> {"none", "requesting", "written", "waiting", "staging", "done", "failed"}]
    /\ attempt \in [Assets -> 0 .. MaxRequestRetries]
    /\ worker \in BOOLEAN
    /\ temp \subseteq RcloneFiles \cup KVFiles
    /\ stored \subseteq Assets
    /\ columns \subseteq {"tag", "revalidatedAt", "stale", "expire"}
    /\ {bucket, unaltered} \subseteq BOOLEAN

UsesBucket == plan.incremental = "r2" /\ plan.remote

\* The table is missing, of v1.18, or current.
Init ==
    /\ plan \in Plans
    /\ runs = 1
    /\ step = "start"
    /\ next = 1 /\ pending = {}
    /\ task = [a \in Assets |-> "none"] /\ attempt = [a \in Assets |-> 0]
    /\ worker = FALSE /\ temp = {}
    /\ stored = {}
    /\ columns \in {{}, {"tag", "revalidatedAt"}, {"tag", "revalidatedAt", "stale", "expire"}}
    /\ bucket \in IF UsesBucket THEN BOOLEAN ELSE {FALSE}
    /\ unaltered = FALSE

Goto(s) == step' = s

-----------------------------------------------------------------------------
(* Which caches need populating.                                           *)

\* populateCache(): the build is there, the binding and its bucket_name too; or
\* an error is thrown, as for --rclone with a local target.
Start ==
    /\ step = "start"
    /\ Goto(IF Count = 0 /\ plan.incremental # "static" THEN "tags"
            ELSE CASE plan.incremental = "r2"     -> IF plan.remote THEN "bucket" ELSE "worker"
                   [] plan.incremental = "rclone" -> IF plan.remote THEN "configDir" ELSE "failed"
                   [] plan.incremental = "kv"     -> "chunksDir"
                   [] plan.incremental = "static" -> "static"
                   [] plan.incremental = "none"   -> "tags")
    /\ UNCHANGED <<plan, runs, pool, worker, temp, cloud, unaltered>>

\* A missing build, binding, bucket or credential, or an invalid path of an asset.
StartFails ==
    /\ step = "start"
    /\ Goto("failed")
    /\ UNCHANGED <<plan, runs, pool, worker, temp, cloud, unaltered>>

\* ensureR2Bucket(): `wrangler auth token', after `wrangler login' if needed.
Authenticate ==
    /\ step = "bucket"
    /\ \E s \in {"account", "failed"} : Goto(s)
    /\ UNCHANGED <<plan, runs, pool, worker, temp, cloud, unaltered>>

\* getAccountId(): from the environment, the only one, the one chosen, or none.
Account ==
    /\ step = "account"
    /\ \E s \in {"find", "failed"} : Goto(s)
    /\ UNCHANGED <<plan, runs, pool, worker, temp, cloud, unaltered>>

\* The bucket is looked up: any error but "not found" is a failure.
FindBucket ==
    /\ step = "find"
    /\ \E s \in {IF bucket THEN "worker" ELSE "create", "failed"} : Goto(s)
    /\ UNCHANGED <<plan, runs, pool, worker, temp, cloud, unaltered>>

\* It is created, if no one has since it was looked up; the answer may be lost.
CreateBucket ==
    /\ step = "create"
    /\ \/ ~bucket /\ bucket' = TRUE /\ \E s \in {"worker", "failed"} : Goto(s)
       \/ Goto("failed") /\ UNCHANGED bucket
    /\ UNCHANGED <<plan, runs, pool, worker, temp, stored, columns, unaltered>>

\* Another command, or someone, creates it meanwhile.
BucketAppears ==
    /\ step = "create" /\ ~bucket
    /\ bucket' = TRUE
    /\ UNCHANGED <<plan, runs, step, pool, worker, temp, stored, columns, unaltered>>

\* unstable_startWorker(), before the try.
StartWorker ==
    /\ step = "worker"
    /\ \E started \in BOOLEAN :
        /\ worker' = started
        /\ Goto(IF started THEN "sending" ELSE "failed")
    /\ UNCHANGED <<plan, runs, pool, temp, cloud, unaltered>>

-----------------------------------------------------------------------------
(* The pool of sendEntriesToR2Worker() and stageCacheAssets().             *)

Larger(a, b) == IF a > b THEN a ELSE b

\* Math.max(1, cacheChunkSize); no size of a set is >= NaN.
MaxConcurrency == IF plan.cacheChunkSize = NaN THEN Larger(1, Count)
                  ELSE Larger(1, plan.cacheChunkSize)

\* Slip: > where the code has >=.
OneMore == Cardinality(pending) <= MaxConcurrency

\* The loop goes on when it has not reached the limit, or one has finished.
MayStart == Cardinality(pending) < MaxConcurrency

Launch ==
    /\ step \in {"sending", "staging"} /\ next <= Count /\ MayStart
    /\ next' = next + 1
    /\ pending' = pending \cup {next}
    /\ task' = [task EXCEPT ![next] = IF step = "sending" THEN "requesting" ELSE "staging"]
    /\ attempt' = [attempt EXCEPT ![next] = 1]
    /\ UNCHANGED <<plan, runs, step, worker, temp, cloud, unaltered>>

\* The promise of a task is fulfilled, or rejected: then the loop throws.
Settle(a, how) ==
    /\ pending' = pending \ {a}
    /\ task' = [task EXCEPT ![a] = how]
    /\ step' = IF how = "failed" /\ step \in {"sending", "staging"} THEN "failing" ELSE step

\* Promise.all(pending).
AllSettled == next > Count /\ pending = {}

PoolDone ==
    /\ step \in {"sending", "staging"} /\ AllSettled
    /\ Goto(IF step = "sending" THEN "cleaning" ELSE "copying")
    /\ UNCHANGED <<plan, runs, pool, worker, temp, cloud, unaltered>>

-----------------------------------------------------------------------------
(* sendEntryToR2Worker() and the worker, r2-cache.ts.                      *)

\* r2.put(key, request.body)
Put(a) ==
    /\ task[a] = "requesting" /\ worker /\ (UsesBucket => bucket)
    /\ task' = [task EXCEPT ![a] = "written"]
    /\ stored' = stored \cup {a}
    /\ UNCHANGED <<plan, runs, step, next, pending, attempt, worker, temp, columns, bucket, unaltered>>

\* 200, { success: true }
Answer(a) ==
    /\ task[a] = "written"
    /\ Settle(a, "done")
    /\ UNCHANGED <<plan, runs, next, attempt, worker, temp, cloud, unaltered>>

\* Slip: the last attempt is followed by another: the loop ends, and nothing is thrown.
GiveUpSilently(a) == Settle(a, "done")

GiveUp(a) == Settle(a, "failed")

\* Slip: the attempts are counted from 0.
RetriesOneMore(a) == attempt[a] <= MaxRequestRetries

MayRetry(a) == attempt[a] < MaxRequestRetries

\* Slip: attempt is not incremented.
SameAttempt(a) == attempt

NextAttempt(a) == [attempt EXCEPT ![a] = @ + 1]

\* The request fails or takes a minute; r2.put() failed, or there is no binding
\* (500), or the answer to a request that has been served is lost.
Retryable(a) ==
    /\ task[a] \in {"requesting", "written"}
    /\ IF MayRetry(a)
       THEN task' = [task EXCEPT ![a] = "waiting"] /\ UNCHANGED <<step, pending>>
       ELSE GiveUp(a)
    /\ UNCHANGED <<plan, runs, next, attempt, worker, temp, cloud, unaltered>>

\* 400, 404, an answer below 500 that is not JSON, or a body that cannot be read.
NotRetryable(a) ==
    /\ task[a] \in {"requesting", "written"} /\ worker
    /\ GiveUp(a)
    /\ UNCHANGED <<plan, runs, next, attempt, worker, temp, cloud, unaltered>>

Retry(a) ==
    /\ task[a] = "waiting"
    /\ task' = [task EXCEPT ![a] = "requesting"]
    /\ attempt' = NextAttempt(a)
    /\ UNCHANGED <<plan, runs, step, next, pending, worker, temp, cloud, unaltered>>

-----------------------------------------------------------------------------
(* populateR2IncrementalCacheWithRclone().                                 *)

\* Before the try: when the second directory cannot be made, the first is left.
MakeConfigDir ==
    /\ step = "configDir"
    /\ \/ temp' = temp \cup {"config"} /\ Goto("stagingDir")
       \/ temp' = temp /\ Goto("failed")
    /\ UNCHANGED <<plan, runs, pool, worker, cloud, unaltered>>

MakeStagingDir ==
    /\ step = "stagingDir"
    /\ \/ temp' = temp \cup {"staging"} /\ Goto("keys")
       \/ temp' = temp /\ Goto("failed")
    /\ UNCHANGED <<plan, runs, pool, worker, cloud, unaltered>>

\* The configuration is written, and rclone may then be found not to run; or the
\* file cannot be written, or not all of it.
WriteKeys ==
    /\ step = "keys"
    /\ \/ temp' = temp \cup {"keys"} /\ \E s \in {"staging", "failing"} : Goto(s)
       \/ temp' = temp /\ Goto("failing")
    /\ UNCHANGED <<plan, runs, pool, worker, cloud, unaltered>>

\* mkdir(), link() and copyFile(): the directory of the file is made, again when
\* it is gone.
Stage(a) ==
    /\ task[a] = "staging"
    /\ temp' = temp \cup {"staging"}
    /\ \E how \in {"done", "failed"} : Settle(a, how)
    /\ UNCHANGED <<plan, runs, next, attempt, worker, cloud, unaltered>>

\* rclone exits, having copied all of the directory if its code is 0.
Copy ==
    /\ step = "copying"
    /\ \/ stored' = Assets /\ Goto("cleaning")
       \/ (\E part \in SUBSET Assets : stored' = stored \cup part) /\ Goto("failing")
    /\ UNCHANGED <<plan, runs, pool, worker, temp, columns, bucket, unaltered>>

-----------------------------------------------------------------------------
(* Chunks of KV, static assets.                                            *)

\* mkdtemp(): nothing removes this directory, whatever follows.
MakeChunksDir ==
    /\ step = "chunksDir"
    /\ \/ temp' = temp \cup {"chunks"} /\ Goto("kv")
       \/ temp' = temp /\ Goto("failed")
    /\ UNCHANGED <<plan, runs, pool, worker, cloud, unaltered>>

\* The number of chunks is Math.ceil(assets.length / NaN), and there is none.
NoChunkLeft == next > Count \/ plan.cacheChunkSize = NaN

Chunk == {a \in Assets : next <= a /\ a < next + Larger(1, plan.cacheChunkSize)}

\* Slip: the file of the chunk is not removed.
KeepChunkFile == temp \cup {"chunk"}

\* rmSync() of the file that was written, whatever wrangler answered.
RemoveChunkFile == temp \ {"chunk"}

PutChunk ==
    /\ step = "kv" /\ ~NoChunkLeft
    /\ stored' = stored \cup Chunk
    /\ next' = next + Cardinality(Chunk)
    /\ temp' = RemoveChunkFile
    /\ UNCHANGED <<plan, runs, step, pending, task, attempt, worker, columns, bucket, unaltered>>

\* An asset cannot be read, or the file not be written, which may leave a part of
\* it; or wrangler fails, having stored the chunk or not.  The command stops there.
PutChunkFails ==
    /\ step = "kv" /\ ~NoChunkLeft
    /\ Goto("failed")
    /\ \/ stored' = stored /\ temp' \in {temp, temp \cup {"chunk"}}
       \/ stored' \in {stored, stored \cup Chunk} /\ temp' = RemoveChunkFile
    /\ UNCHANGED <<plan, runs, pool, worker, columns, bucket, unaltered>>

ChunksDone ==
    /\ step = "kv" /\ NoChunkLeft
    /\ Goto("tags")
    /\ UNCHANGED <<plan, runs, pool, worker, temp, cloud, unaltered>>

CopyStaticAssets ==
    /\ step = "static"
    /\ \/ stored' = Assets /\ Goto("tags")
       \/ stored' = stored /\ Goto("failed")
    /\ UNCHANGED <<plan, runs, pool, worker, temp, columns, bucket, unaltered>>

-----------------------------------------------------------------------------
(* finally, and the tag cache.                                             *)

\* Slip: the worker and the directories are left when an error is thrown.
CleanedOnSuccess == step = "cleaning"

Cleaned == step \in {"cleaning", "failing"}

\* worker.dispose(); rm() of the directories of rclone, with what they hold.
Clean ==
    /\ step \in {"cleaning", "failing"}
    /\ Goto(IF step = "cleaning" THEN "tags" ELSE "failed")
    /\ IF Cleaned THEN worker' = FALSE /\ temp' = temp \ RcloneFiles ELSE UNCHANGED <<worker, temp>>
    /\ UNCHANGED <<plan, runs, pool, cloud, unaltered>>

\* populateD1TagCache(): CREATE TABLE IF NOT EXISTS, or its failure.
CreateTable ==
    /\ step = "tags"
    /\ IF plan.tag = "none" THEN Goto("done") /\ UNCHANGED columns
       ELSE \/ Goto("failed") /\ UNCHANGED columns
            \/ /\ Goto("alter")
               /\ columns' = IF columns = {} THEN {"tag", "revalidatedAt", "stale", "expire"}
                             ELSE columns
    /\ UNCHANGED <<plan, runs, pool, worker, temp, stored, bucket, unaltered>>

\* Slip: one column is forgotten.
WithStale == columns \cup {"stale"}

WithNewColumns == columns \cup {"stale", "expire"}

\* ALTER TABLE, whose failure is ignored: it fails when the columns are there.
AlterTable ==
    /\ step = "alter"
    /\ Goto("done")
    /\ \/ columns' = WithNewColumns /\ UNCHANGED unaltered
       \/ columns' = columns /\ unaltered' = ("stale" \notin columns \/ unaltered)
    /\ UNCHANGED <<plan, runs, pool, worker, temp, stored, bucket>>

\* A command that failed is run again, once its promises have settled; what it
\* has left on the disk is not followed further.
RunAgain ==
    /\ step = "failed" /\ pending = {} /\ runs < MaxRuns
    /\ runs' = runs + 1
    /\ Goto("start")
    /\ next' = 1 /\ pending' = {}
    /\ task' = [a \in Assets |-> "none"] /\ attempt' = [a \in Assets |-> 0]
    /\ temp' = {}
    /\ UNCHANGED <<plan, worker, cloud, unaltered>>

-----------------------------------------------------------------------------
Command ==
    \/ Start \/ StartFails \/ Authenticate \/ Account \/ FindBucket \/ CreateBucket
    \/ StartWorker \/ Launch \/ PoolDone
    \/ MakeConfigDir \/ MakeStagingDir \/ WriteKeys \/ Copy
    \/ MakeChunksDir \/ PutChunk \/ PutChunkFails \/ ChunksDone \/ CopyStaticAssets
    \/ Clean \/ CreateTable \/ AlterTable

Work(a) == Put(a) \/ Answer(a) \/ Retryable(a) \/ NotRetryable(a) \/ Retry(a) \/ Stage(a)

Next == Command \/ BucketAppears \/ RunAgain \/ \E a \in Assets : Work(a)

Spec == Init /\ [][Next]_vars

\* Requests time out, files and child processes end, the event loop goes on.
Fairness == WF_vars(Command) /\ \A a \in Assets : WF_vars(Work(a))

FairSpec == Spec /\ Fairness

-----------------------------------------------------------------------------
(* What has to hold.                                                       *)

\* A command that ends well has stored every asset, whatever was retried; but
\* KV, given a chunk size that is no number, stores nothing.
SuccessMeansStored ==
    step = "done" /\ plan.incremental # "none" /\ (plan.incremental = "kv" => plan.cacheChunkSize # NaN)
    => stored = Assets

\* The table of the tag cache then has the columns of v1.19, unless they could
\* not be added, which no one is told.
ColumnsAdded ==
    step = "done" /\ plan.tag = "d1" /\ ~unaltered => {"stale", "expire"} \subseteq columns

\* However it ends, the command leaves no worker running and no file with the
\* keys of the bucket.  When it ends well it leaves nothing on the disk, but for
\* KV the directory of the chunks, which is empty.
NothingLeft ==
    /\ step \in {"done", "failed", "tags", "alter"} => ~worker /\ "keys" \notin temp
    /\ step = "done" => temp = IF plan.incremental = "kv" /\ Count # 0 THEN {"chunks"} ELSE {}

\* What a command that has ended, well or not, has done and leaves behind.
Outcome == SuccessMeansStored /\ ColumnsAdded /\ NothingLeft

\* Every command ends, and so do its promises: there are so many attempts.
CommandEnds == [](step = "start" => <>(step \in {"done", "failed"} /\ pending = {}))

Bounded == INSTANCE BoundedPool WITH Tasks <- Assets, running <- pending, limit <- MaxConcurrency

\* The promises are a pool that never exceeds maxConcurrency.
PoolIsBounded == Bounded!Spec
=============================================================================
