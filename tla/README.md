# TLA+ for the OpenNext Cloudflare adapter

The adapter (`src/packages/cloudflare`) runs a Next.js application on Cloudflare
Workers. The workers are stateless and many; what they share lives in caches,
stores and durable objects. This directory models the parts where that state is
changed concurrently: it states what has to hold, checks it with TLC on small
instances and proves the most important parts with TLAPS for all instances.

## 1. Inventory

| Component | State | Operations | What makes it correct |
|---|---|---|---|
| **Durable object queue** (`durable-objects/queue.ts`) | map of ongoing revalidations, failed routes (memory), tables `failed_state` and `sync`, one alarm | `revalidate`, `executeRevalidation`, `addToFailedState`, `addAlarm`, `alarm`, `initState` | never more revalidations than configured; a slot is always freed; no call waits forever; failed routes survive restarts with their counts; only older messages are dropped |
| **Queue cache, memory queue** (`overrides/queue/`) | a `Map` of each isolate and a Cache API entry per message; a set of paths being revalidated | `send` | what is left out repeats a message of the last seconds; a path is revalidated once at a time, and again after a failure |
| **Cache purge** (`durable-objects/bucket-cache-purge.ts`, `overrides/internal.ts`) | table of tags, one alarm | `purgeCacheByTags`, `alarm` | a tag asked for is purged, within the limits of the API |
| **Sharded tag cache** (`overrides/tag-cache/do-sharded-tag-cache.ts`, `durable-objects/sharded-tag-cache.ts`) | a row per tag in every replica of its shard, a regional cache per colo, a cache per request | `writeTags` with retries, `getLastRevalidated`, `hasBeenRevalidated`, `isStale` | a revalidation that returned is seen, by every replica at once and in every colo after a bounded lag |
| **D1 and KV tag caches** | a row, or a value of one of two formats, per tag | the same | they decide what the sharded cache decides |
| **Tag cache filter** (`overrides/tag-cache/tag-cache-filter.ts`) | none | the same, on some of the tags | it decides as the cache behind it does of the tags it lets through |
| **Incremental caches** (`overrides/incremental-cache/`) | R2 or KV objects, static assets, a regional cache per colo | `get`, `set`, `delete`, refreshes and puts after the answer | what is read was written, and how old it may be; what was purged is gone |
| **Skew protection** (`cli/commands/skew-protection.ts`, `cli/templates/skew-protection.ts`) | the versions of the worker, each with a mapping from deployment ids to versions | listing, update of the mapping, routing of a request | a request reaches the deployment it names; recent deployments stay reachable |
| **Cache population** (`cli/commands/populate-cache.ts`, `cli/workers/r2-cache.ts`, `cli/utils/ensure-r2-bucket.ts`) | a pool of uploads, a worker, temporary directories, a bucket, a table | creation of the bucket, uploads with retries, `ALTER TABLE` | the pool is bounded; a command that ends well has stored everything, and however it ends it leaves no worker running and no keys on the disk |
| **Image optimisation** (`cli/templates/images.ts`) | none between requests | validation, fetch with redirects, detection of the type, transformation | an image is what its type says and a format that may be answered; every request is answered |
| **Asset resolver** (`overrides/asset-resolver/`) | none | `maybeGetAssetResult` | negative rules win, whatever the order of the rules |
| **Worker entry points and shims** (`cli/templates/worker.ts`, `init.ts`) | what the first request of an isolate initialised | routing of a request | every request has one handler and an answer |
| CLI drivers, build and patches, scaffolding | - | - | glue, I/O and code generation: not modelled |

How they interact. A request asks the *incremental cache* for a page and the
*tag cache* whether its tags were revalidated since. A stale page is served and a
message is sent to the *queue*, which makes a HEAD request to the worker itself:
that request regenerates the page and writes the incremental cache. A call of
`revalidateTag` writes the tag cache, every replica of it, and asks the *cache
purge* to remove the pages of the tag from the CDN. Nothing locks anything: the
parts meet through persisted rows, timestamps and alarms.

What is hard.

* A durable object is single threaded, but every `await` on the network lets other
  events in; an `await` on its storage does not (the input gate is closed). State
  read before an `await` is used after it: the slot and the deduplication of the
  queue, the batch of the purge.
* An object can be evicted or crash at any `await`: its memory is lost, its tables
  and its alarm stay.
* The platform clears an alarm when it runs the handler, retries a handler that
  throws a bounded number of times, and keeps one alarm per object.
* Calls of an object fail before or after they took effect, are retried, and
  overtake each other.
* Caches in front of the stores (per request, per isolate, per colo) keep older values;
  a value read before a write is put after it, by work left to `waitUntil`.
* Commands run on several machines and share nothing but what the platform lists, which
  changes between two calls of its API; they fail half way and are run again.
* Upstreams answer anything: redirects without end, no body, a body of another type.
* Times of different units, roundings and origins are compared: seconds and
  milliseconds, rounded and truncated, of the page, the write and the expiry.

`PROJECT.json` lists these hazards at their lines, with the properties that
cover each.

## 2. Modules

| Module | Models | Checked by | Proved in |
|---|---|---|---|
| `DOQueue` | the durable object queue | `MCDOQueue`, `queue_*.cfg` | `DOQueue_proofs` |
| `BucketCachePurge` | the durable object of the cache purge | `MCBucketCachePurge`, `purge.cfg` | `Worker_proofs` |
| `ShardedTagCache` | workers, replicas and caches of the sharded tag cache | `MCShardedTagCache`, `tags_*.cfg` | `ShardedTagCache_proofs` |
| `TagData` | what the three tag caches store and decide, as operators | through `TagFreshness` | through `TagFreshness_proofs` |
| `TagFreshness` | a history of writes, the three tag caches and a filtered one side by side | `MCTagFreshness`, `tags_freshness.cfg` | `TagFreshness_proofs` |
| `RegionalCache` | an entry of the incremental cache: store and regional caches | `MCRegionalCache`, `incremental_cache.cfg` | `RegionalCache_proofs` |
| `QueueCache` | the queue cache, in front of the memory queue or the durable object queue | `MCQueueCache`, `queue_cache.cfg` | `QueueCache_proofs` |
| `BoundedPool` | abstract: a pool of tasks that never exceeds its limit | implemented by `DOQueue` and `PopulateCache` | refinements in their proofs |
| `PopulateCache` | the command that fills the caches before a deployment | `MCPopulateCache`, `populate.cfg` | `PopulateCache_proofs` |
| `Deployments` | deployments, their mappings and the routing by them | `MCDeployments`, `deployments.cfg` | `Deployments_proofs` |
| `Images` | what the image optimisation decides of its inputs, as operators | through `Worker` | through `Worker_proofs` |
| `Worker` | one isolate: entry point, image requests, asset resolver | `MCWorker`, `worker.cfg` | `Worker_proofs` |

Conventions. Names are those of the source. A comment `Slip:` marks an operator
that is no part of the specification: it is the next definition with a plausible
mistake in it, and the properties are known to be able to fail because each is
violated when some slip replaces the definition it precedes (`mutants` in
`PROJECT.json`). Variables marked *history* record what a property needs to know
of the past; no action reads them. Constants marked *bound* only keep the
instances of TLC finite; the proofs hold for any value of them.

### 2.1 The durable object queue

`ongoing` is the `Map` (which call's promise it holds for each id), `failed` is
`routeInFailedState`, `failedRows` and `syncRows` are the tables, `alarm` is the
alarm the platform keeps. `phase` says where each call of `revalidate()`, and
the run of `alarm()`, stands at an `await`:

| `phase` | in the code |
|---|---|
| `blocked` | awaits `Promise.race` in the loop of `revalidate()` |
| `fetching` | awaits the HEAD request in `executeRevalidation` |
| `addAlarm` | awaits `getAlarm()` in `addAlarm` |
| `cancelling` | awaits `body.cancel()` in the `finally` block |
| `done` | its promise has settled |

An action is a stretch of code between two `await`s. `Quiescent` is the condition under which
the platform may deliver the next event: no storage operation in progress and no continuation
due. `Deduplicate`, `Start` and `Block` are the three ways through `revalidate()` up to its
first `await`, `Wake` is the test of the `while` loop after a race; `Revalidated`, `Dropped`,
`GiveUp` and `RecordFailure` are the outcomes of the request, `AddAlarm` and `Settle` the rest
of `executeRevalidation`; `FireAlarm` and `NextRetry` are the loop of `alarm()`; `Construct` is
`initState()`, after `Crash` or `Deploy`. The history variable `succeededAt` holds the time of a
success in ms, of which the code keeps the second only, and `lost` what `failed` was when the
object crashed (of a deployment, whose rows are to be dropped, nothing). `RestoredState`
compares the two ends of a restart: what the memory lost is back in the step of `Construct`, in
its latest form and with an alarm, and what else is there is what a row of this build says.
`Running` is what the map holds: with its limit it implements `BoundedPool` (`PoolIsBounded`).
The retries of `alarm()` are not in the map.

### 2.2 The cache purge

The definitions that other modules have too carry the name of the purge (`PurgeSpec`,
`PurgeTypeOK`), since its proofs share a module with those of the worker. `table` and `alarm`
persist, `attempts` counts the platform's retries. `Insert` and `SetAlarm` are
`purgeCacheByTags()` before and after the `await` of `getAlarm()`; `FireAlarm`, `Answer` and
`RateLimited` are `alarm()` around the `await` of `internalPurgeCacheByTags`, whose effect on
the CDN (`CdnPurges`) comes at some point in between. `outdated` are the tags of which the CDN
may still have copies made before they were asked for; the property `NoPurgeForgotten` says that
each has a row, or is in one of two sets: `refused`, dropped because the API failed, as a
comment of the code announces, and `overtaken`, asked for again between the purge and its
answer, whose row the deletion of the batch takes.

### 2.3 The sharded tag cache

`rows[d]` is the table of the object `d`, a shard and a replica; `cached[c]` the
Cache API of a colo; `memo[q]` the cache of a request. Only the time of a write is
kept of a row: whether it is enough to decide rightly is the matter of `TagData`.

* `WriteTags` starts one call per object (`GroupsOf`). Each is applied (`Apply`),
  succeeds, or fails before or after it was applied (`Fail`) and is made again until
  `TooManyRetries`. A success is followed by the deletion of the entries in the
  writer's colo (`DeleteRegional`), which may fail unnoticed for some of its tags
  (`DeleteFails`).
  `WriteReturns` is the `Promise.all`.
* `StartCheck` is `#resolveTagData` up to its first `await`, with what it takes from the
  cache of its request (`remembered`); `MatchRegional` and
  `MissRegional` are `getFromRegionalCache` for one tag; `Ask` is the answer of one
  replica, any of them, once the tags of its shard have been matched;
  `AskInError` is an object that cannot read its table (it answers that there are no
  rows), `CheckFails` a call that fails; `FinishCheck` sets the request's cache.
* `PutRegional` is the `putToRegionalCache` that `Ask` left to `waitUntil`: it puts
  what was read, up to `PutDelay` later.

History: `floor` is the latest write of each tag that a check has to see, fixed when it
starts, and `requestFloor` the same for the first check of its request. `SeenAfterLag` has
a bound for each of the two ways a check gets a value: what it fetches shows the writes up
to `floor`, what it takes from the cache of its request those up to `requestFloor`, however
old the request has become. A check that fails has no value and decides "not
revalidated": nothing bounds that.

The names of shards (hashes, soft and hard tags) and the choice of a region are
constants: `ShardOf` is any function of the tags, `Replicas` are those of all regions,
and a read may ask any. A soft and a hard shard have the same number of replicas.

### 2.4 What tags mean

`TagData` has one operator for each step of `writeTags`, of the objects and of the
three caches (`ShardedValue`, `D1Value`, `KVValue`), of the rows and values of older
versions (`OldFormatRow`, `UnmigratedRow`, `NumberValue`), of the decisions
(`Revalidated`, `Stale`, `GetLastRevalidated`). The decisions are the same text three
times in the code, over values got in three ways; in the model they are one operator
over three values. `TagFreshness` applies the same writes to the three and asks, at any
time, for the `Verdict` on any page: revalidated (discarded), stale, or fresh. The reads
of D1 and KV have operators of their own (`D1IsStale`, `KVIsStale`, ...). `filtered` is a
D1 database behind `withFilter(softTagFilter)`, which receives the same writes; rows of
soft tags may be left in it from before the filter.

### 2.5 The incremental cache

`stored` is the history of one entry in the store: its last element is what the store holds, the
others what KV may still answer (`Readable`). `cached[c]` is the Cache API entry of a colo. A
call of `set()` or `delete()` writes the store (`Store`, or one of its failures: `StoreFails`,
which the store logs and swallows, `ReadOnly` static assets, `StoreThrows` without a binding)
and then the cache of its colo (`Finish`, `FinishFails`). `get()` hits (`Match`), misses
(`Read`) or fails (`ReadFails`). `works` are the refreshes of a lazy hit and the puts that
`waitUntil` got: `Refresh`, `PutWork`, `DropWork`. `Bypass`, `Lazy` and `TtlOf` are the options
with their defaults. `RevalidateTag` and `Purge` are single steps here. `config.tags` are the
tags the entry lists, `None` if it has no list; `CacheTag` is the header it is put with: that
list, which may be empty (there is no header then), or the key. `Purge(tag)` empties the caches
of what has the tag in its header and of nothing else. `PurgedIsGone` speaks of an entry the
purge is about (`Own`, which is not taken from the header): no put delayed beyond the purge
brings back what the store had overwritten long enough before. History: `failed` are the calls
that met an error, `late` the colos where what was put last was superseded already.

### 2.6 The queue cache and the memory queue

`send` says at which `await` each `send()` is: `matching` the Cache API, `putting`
into it, `sending` to the queue, `fetching`, when the memory queue revalidates, or
`throwing`, when that queue has no binding and throws before it marks the path. After its
fetch the memory queue is in `sending` too, while the body is cancelled.
`localCache` is the map of an isolate, `cache` the Cache API of the colo,
`revalidatedPaths` the set of the memory queue. With `waitForQueueAck` the key is
inserted after the answer of the queue, without it before the call (`Unknown`,
`CallQueue`, `StartPut`). Of the durable object queue only its answer is kept.

### 2.7 The population of the caches

`step` is where `populateCache()` is, `task[a]` where the promise of an asset is in the
pool of `sendEntriesToR2Worker()` or `stageCacheAssets()`, `pending` the pool. `Put`,
`Answer`, `Retryable` and `NotRetryable` are the request to the worker of `r2-cache.ts`
and what is made of its answer; `Clean` is the `finally` block. `temp` is what the command has
on the disk: each directory is a step that may fail (`MakeConfigDir`, `MakeStagingDir`,
`MakeChunksDir`), as is the file with the keys of the bucket (`WriteKeys`), and a chunk of
KV is written, put and removed in three (`Chunk`, `PutChunk`, `RemoveChunkFile`).
`CreateTable` and
`AlterTable` fill D1. `BucketAppears` is another command that creates the bucket
meanwhile, `RunAgain` the command run again after a failure. `BoundedPool` is what a pool
raced with `Promise.race` promises; this pool and the map of the queue both implement it.

### 2.8 Deployments

A version is its rank in the order of creation; it has a deployment id, a trigger and
the mapping it was given. A command lists the versions (`List`), computes the mapping
from that of the newest one (`Detail`, `UpdateDeploymentMapping`) and creates a version
(`Wrangler`), with the population before or in between. `ChangeSecret` makes the
platform create the last version again, without its assets. `Answering(v, id)` is the
routing of a request by version `v`; any version may be live, so the properties speak of
all of them. History: `base` and `listedAt` of a version are how many versions there
were, and the time, when they were listed for it.

### 2.9 The worker

`Images` has the operators without state: the patterns, `ParseImageRequest`, the table
of signatures (`DetectImageContentType`). `Worker` has one action per outcome of an
`await`: the upstream of an image redirects, fails, has no image or an image of any type;
its header is read or lost; the binding converts it, to another format than asked or not
at all; ASSETS answers an asset. `at` is the `await` at which a handler is, `left` the
redirects it may still follow. The rules of the resolver are lists of patterns over paths
that are sequences. `Consider` is the body of the loop of `isUserWorkerFirst()`, and
`RulesInclude` the loop; `Means` is the reference they are compared with: a star is any
text, wherever it may end (`Glob`), a path needs a positive rule, a negative one wins. It
is what the setting means of rules with one star (`Understood`): of two stars the code takes the
second for a character, and `RulesDecide` says nothing of a list with such a rule.

What the upstreams may send is a constant, `Files`, with an assumption: the type of a file
is the one of its signature, and the first box of an ISO file is smaller than 2^24 bytes, so
that its first byte is zero. `InputsAssumption` and `ConfigsAssumption` give paths and rules
their shape; the formats are those of the type `NextConfigImageFormat`.

## 3. Runs

Every property of a passing run has a mutant that violates it.

| Run | Question and answer |
|---|---|
| `queue_concurrency` | Three calls of two ids compete for a slot, with every outcome, retries by alarms and a crash. The map implements a bounded pool although slots are freed, taken and waited for in any order (`PoolIsBounded`), no entry is left behind (`NoLeakedSlot`), a blocked call always races a promise that will settle or has (`NoLostWakeup`), and every call and every run of the alarm handler ends (`EveryRunEnds`). |
| `queue_retries` | Failing routes retried by alarms, a crash and a deployment. An object constructed after a crash has every failed route its memory had lost, with an alarm, and nothing that no row of this build says; rows of others are gone (`RestoredState`), counts stay within the limit (`RetryBudget`), the sync table drops only messages about older entries in spite of seconds (`SyncDropsOnlyOlder`). |
| `purge` | Two calls for up to three tags, batches of two, every answer of the API, one rate limit more than the platform retries, a crash. No purge is forgotten but in the named ways (`NoPurgeForgotten`), rows have an alarm (`RowsHaveAlarm`), and once there is one the table is emptied (`TableEmptied`). |
| `tags_reads` | A write of a replicated tag and three checks of two requests in its colo, with every option of the regional cache, a failing read or deletion. The writer's colo is clean when the write returns, but for a late put, a failed deletion or an unreadable object (`WriterColoClean`); what a check fetches shows it after the TTL and the delay of a put, at once when there is no regional cache, whichever replica is read; what it takes from the cache of its request shows it if it was as old when the request began (`SeenAfterLag`). A check that fails is not bound. |
| `tags_writes` | Two concurrent writes of a replicated tag, with failing calls. A write returns (`WriteEnds`), and then every replica has it (`EveryReplicaHasIt`). |
| `tags_freshness` | Two tags, one of them soft, four instants, every input. The caches agree, and the filtered one with them on the hard tags (`CachesAgree`); a page regenerated since the last write of its tags is fresh, an outdated one is not (`FreshWhenCurrent`); pages only age (`PagesOnlyAge`). |
| `incremental_cache` | Two calls of `set()` or `delete()` in one colo and reads in two, with refreshes, a tag revalidation, a purge and a failure. An overwritten entry is answered for a bounded time only, and the writer's colo holds nothing older once the call has returned, but for late puts (`Recency`); what is answered was in the store unless its write failed, and both dates give the same answer about a tag, but for one written meanwhile (`Provenance`); once the entry is purged, by a tag it lists or by its key, no late put brings back what the store had overwritten long enough before (`PurgedIsGone`). |
| `queue_cache` | Three messages of one key from two isolates, over either queue, waited for or not. A message left out repeats a recent one, which the queue has answered when it is waited for (`LeftOutIsRecent`); the memory queue marks the paths it revalidates and no other (`OneRevalidation`); every call returns (`SendEnds`). |
| `populate` | Three assets, every cache, target and chunk size, every failure and a second run. A command that ended well has stored everything and added the columns, and leaves nothing on the disk, but for KV an empty directory; however it ended, no worker runs and no file has the keys (`Outcome`); it ends (`CommandEnds`); its promises implement the bounded pool (`PoolIsBounded`). |
| `worker` | Every kind of image and asset request, every answer of the upstreams. Images are what they are declared to be, in a format that may be answered (`TrueImages`); assets are asked for by the rules in whatever order, a rule of two stars among them (`RulesDecide`); requests are answered with a body that ends (`RequestEnds`). |
| `deployments` | Three commands that may overlap, a change of a secret, failures. A request that names a known deployment reaches a version of it that was uploaded (`RoutedRight`); a new version knows the recent ones, unless commands overlapped (`Retained`). |

One more run finds a violation: it shows where the code does not do what its text says.

| Run | What TLC shows |
|---|---|
| `queue_alarm_violation` | `alarm()` retries the expired and one future route; when they succeed a third failed route has no alarm, and its calls are still dropped |

### Differences the models show without a run of their own

Most are exceptions that a property has to name, and the mutants of which are the code
one would expect.

* Queue: the retries of `alarm()` take no slot, so there may be more revalidations than
  the maximum; a blocked call is not deduplicated again when it resumes; the row of a
  route that was given up is restored by a restart; the first retry comes after two
  seconds whatever the configured interval (`FirstRetryDelay`, where
  `cloudflare-context.ts:57` describes the setting as the time of a retry).
* Purge: the deletion of a batch takes the row of a tag that was asked for again during
  the API call (`overtaken`). Rate limited more often than the platform retries an alarm,
  rows wait without an alarm for the next request (last disjunct of `RowsHaveAlarm`;
  `bucket-cache-purge.ts:66` speaks of the next alarm).
* Tags: an older write that is retried overwrites a newer one. A replica whose call
  failed too often is given up while `writeTags()` returns (`"dead"`;
  `do-sharded-tag-cache.ts:70` says that writes always apply to all).
* The cache of a request has no age: a request that lasts decides on what it first read,
  whatever was written since (`SeenAfterLag`, second part).
* Regional cache: an entry put after a purge may be as outdated as the one that was purged,
  if the store still holds that; where hits bypass the tag cache it is answered until the
  page is regenerated. An entry with an empty list of tags has no header and cannot be
  purged by its key either. After a failed write of the store, the colo of the writer answers a
  value nobody else sees. A refresh may put what was overwritten meanwhile (`late`).
* Population: with a chunk size that is no number KV stores nothing, and the command
  reports success. The temporary directory of KV (`populate-cache.ts:696`) is never removed,
  a chunk that could not be written may be left in it, and when the second directory of
  rclone cannot be made the first is left. A failed `ALTER TABLE` is ignored for whatever reason.
* Deployments: the newest version is listed even if `maxNumberOfVersions` is 0
  (`Limited`); overlapping commands lose each other's deployments. An unknown deployment id
  is answered by the current version, where `cli/templates/skew-protection.ts:20` says 400.
* Images: a HEIC file whose first box is of 256 bytes is taken for an icon, whose
  signature is looked for before. An image too large for AVIF is answered as WebP.
* Assets: only the first star of a rule is any text. A GET that is answered without a
  body gets a stream that is never closed.

### Bounds

* Queue: three calls and a slot let one run, another be blocked and a third arrive
  between a wake-up and the test of the loop; `MaxTime` of `queue_concurrency` lets
  an alarm retry beside them. In `queue_retries` two ids of one route are of entries
  of different ages, 1000 ms per tick and five seconds leave time for two retries,
  one crash and two builds restore or drop each kind of row. That two slots are
  never exceeded either is proved, not checked.
* Purge: batches of two of three tags, so that full, short and empty batches
  follow each other; `MaxRateLimits` exceeds `PlatformRetries` by one; one crash.
* Tags: two replicas, two writers, or one writer and three checks: a property relates one write,
  one read and one object, and for the cache of a request two of its checks, with one of another
  request beside them. One colo is enough: a colo other than the writer's is one whose deletion
  fails, and colos share nothing but the objects. `Ttl` and `PutDelay` are one, and `MaxTime` is
  beyond their sum, so that entries expire and puts come late. `MaxErrors` is one. A call of an
  object that failed is not applied later than its retry: the error is taken as the end of it.
  The send to the dead letter queue is taken to succeed.
* Freshness: four instants order a page, a stale time, an expire time and the
  present in every way; one tag is soft and one hard; the proofs need no bound.
* Incremental cache: two writes order an older, a newer and the entry of the build. Both are
  made in one colo, the second colo only reads: it is what `Recency` says of elsewhere. The
  four configurations take each store, each mode, the defaults with and without purge, and
  an entry with tags, with an empty list and with none; the proofs hold for all of them.
  `MaxTime` reaches the bound of `Recency` in each: for KV, whose entries are kept for
  `ShortTtl`, an overwrite at 1 may be answered until 1 + `KVLag` + `WorkLimit` +
  `ShortTtl` = 4; one failure. The two calls
  are alike, hence the symmetry.
* Queue cache: three calls of one key let one find what another inserted while a third
  is at an `await`; two share an isolate. `Ttl` and `Timeout` are two, so that an entry of
  the map gets old while one of the Cache API has not, and the reverse.
* Population: three assets and a chunk size of 2 let the pool be full and wait; 0 and no
  number are the edges. Two attempts and two runs let a retry and a second run find what
  an earlier one wrote.
* Worker: a file of every signature, with a first box of two sizes, one of which is the
  signature of an icon; two redirects; lists of two rules in every order, one of which has two
  stars. One request is enough: handlers share only what the first of them initialised, and
  `Init` lets an earlier request have done so.
* Deployments: three commands, so that two overlap and a third works on what they made;
  two versions to keep, of age one, among up to five.
* Calls and the clock are bounded, so the systems end: deadlock is not checked, but
  in `tags_freshness`, where writes go on.

### Fairness

Safety runs assume none. Liveness assumes weak fairness of single steps the code
cannot refuse, and never of arrivals or crashes.

* Queue: the request has a timeout (`AbortSignal.timeout`), so an outcome comes;
  the storage answers or the object is reset; a continuation whose promise settled
  runs.
* Purge: the platform fires a due alarm and repeats an interrupted one; the API
  answers. `TableEmptied` promises nothing once there were more answers 429 than
  the platform retries.
* Tags: a call of an object answers or fails. Nothing is assumed of the success of any.
* Queue cache: the Cache API and a durable object answer or fail, a body is cancelled; time goes
  on, which is what the timeout of the memory queue relies on. That a revalidation answers is
  not assumed: `SendEnds` is about servers that never do.
* Population: requests time out (`AbortSignal.timeout`) or fail, child processes end, the
  event loop goes on. Nothing is assumed of their success.
* Worker: what a request awaits comes, or fails.

## 4. Proofs

All theorems hold for every value of the constants under the named assumptions of
the modules: finite sets of ids, calls or tags, a positive number of slots, batch size
and interval, a `None` apart from the values. `TLC` evaluates these assumptions in
every run.

| Module | Theorems | Argument |
|---|---|---|
| `DOQueue_proofs` | `TypeCorrect`, `VariablesHaveTypes` | `TypeInv`: types, and whoever is in progress has a message (an entry of the map is set at its message) |
| | `OngoingStaysBounded`, `SlotsAreFreed`, `WakeupsAreKept` | `SlotInv`, the conjunction. None is inductive alone: that a blocked call races someone needs that the map is full of entries when it blocks and that these belong to calls that execute |
| | `MapImplementsPool` | step by step: a call that starts takes a slot of the pool, one that ends frees one, a crash ends all, every other step stutters |
| | `FailuresArePersisted`, `RowsAreOfThisBuild`, `StateIsRestored`, `RetriesStayInBudget`, `SyncIsSafe` | `StorageInv`: memory, rows, the counts in both, and the relation of a stored second to the ms of the success, kept across crashes, when rows and memory differ in what they have. `LostPersisted`: what the memory lost has its row, of this build, until the object is constructed; `ConstructRestores` follows it through `initState()` |
| | `AlarmsAreAhead` | an action property, from the types |
| | `RunsAdvance`, `RunsNeverStall` | the measure of a blocked call is the set of calls it races or may race later (`MayWake`): one of those it raced has settled when it wakes, and `SlotInv` says that none of those it races next has |
| `Worker_proofs`, of the worker | `TypeCorrect`, `ImagesAreTrue` | `RowInv`, a conjunction for each request: what it was parsed to, the image it got and the answer agree. Every action changes one request (`OneAtATime`). `DetectedIs` compares the signatures two by two: of a file that starts with one, only the first box of a HEIC file may be taken for another |
| | `AssetsFollowRules` | `MatchIsGlob`: the test by prefix and suffix says the same as a cut of the path into the parts of the pattern. `RulesMean`: the loop is at every index what the rules up to there mean |
| | `BodiesEnd`, `HandlersAdvance` | the safety half of `RequestEnds`, and a measure (redirects left, stages to go) that every step of a handler decreases: what is left to fairness is that its next step comes |
| `Worker_proofs`, of the purge | `PurgeTypeCorrect`, `PurgesAreKept`, `RowsAreScheduled`, `PurgesAdvance` | `PurgeInv`: the tags of a batch in progress that were purged and not asked for since are not outdated. `AlarmInv`: the retry count is below the platform's limit unless as many answers were 429. `BatchInv`: a batch is made of rows, one at least, so that its answer makes the table smaller |
| `ShardedTagCache_proofs` | `TypeCorrect`, `ReplicasHaveTheWrite` | `WriteInv`: a call applied and not failed since left its rows; a write has calls for all replicas, none under way when it is done |
| | `WritersSeeTheirWrites` | `CleanInv`: once all the calls of a tag have ended, the entry of the colo is as new or left over; every put and deletion is compared with it |
| | `ReadersSeeAfterLag` | `LagInv`: a put read after a write returned has it (`PutsSee`), and an entry kept longer than the lag after it was put by such a put (`EntriesSee`), because puts and entries have limited lives (`Timely`). What a check owes is fixed when it starts (`FloorsVisible`), and what the later checks of a request owe is no less than the first did (`RequestFloors`), so that what was kept for the request shows what the first owed (`MemoSees`) |
| | `WritesAdvance`, `WritesNeverStall`, `ChecksAdvance` | the measure of a call: retries left, then its way to the object and back; that of a check: the tags it has not looked up. `CallsMade`: a write has called the objects of its tags and no other |
| `TagFreshness_proofs` | `TypeCorrect`, `CachesAlwaysAgree`, `RegeneratedPagesAreFresh`, `OutdatedPagesAreNotFresh`, `PagesFollowWrites`, `TimeOnlyAgesPages` | `FreshInv`: the values of a tag decide alike, the filtered row of a hard tag is that of D1, and a stale time is not beyond its write; the decisions of a value are then compared case by case |
| `RegionalCache_proofs` | `TypeCorrect`, `EntriesAreRecent`, `EntriesComeFromTheStore`, `PurgedEntriesAreGone` | `HistoryInv` (values are written once, in the order of time), `OpInv`, `WorkInv` (what waits to be put was held and read a limited time ago), `CacheInv` (an entry was put soon after the store held it, or soon after its own failed write, and since the purge if that reached it), `CleanInv` (what a call that returned left in its colo). A bound on what a put may carry is what makes the bound of an entry inductive |
| `QueueCache_proofs` | `TypeCorrect`, `LeftOutMessagesAreRecent`, `PathsAreRevalidatedOnce` | `InsertInv`: when a call inserts, once; `FoundInv`: each entry of a map or cache has a call that inserted it at its time; `RevalidatingInv`: the paths marked are those of the calls that fetch |
| | `SendsAdvance`, `SendsAreAnswered` | the measure is the number of awaits left; a call that inserts has had its answer when it waits for one (`InsertInv`) |
| `PopulateCache_proofs` | `TypeCorrect`, `CommandsEndClean`, `PromisesImplementPool` | `PoolInv` (a promise is pending while its task awaits, and none outside the pool's steps), `PhaseInv`, `TaskInv` (which assets are stored at each step, by kind of cache), `StoredInv`, `ColumnInv`, `LeftInv` |
| | `CommandsAdvance`, `PoolsNeverStall` | the measure: phases left, assets not taken, attempts left to each task and its way through the current one; a chunk of KV holds an asset at least (`ChunkIsSome`), whatever its size |
| `Deployments_proofs` | `TypeCorrect`, `RequestsRoutedRight` | `RouteInv`: the mappings of versions and commands lead to uploads of the deployments they name; `updateDeploymentMapping()` keeps that |
| | `DeploymentsRetained` | `TimeInv`, `OwnInv`, `PhaseInv`, `KeepInv`: what a command lists includes the versions to keep (`WindowOfNewest`, `UpdateKeeps`), and versions created meanwhile change none of it unless commands overlapped |

The library's induction theorems cannot be used with the provers at hand; where a proof needs an
induction over a sequence it takes the least index at which the claim fails and shows that
it fails at the one before (`LeastNat`, from the well-foundedness of the naturals;
`EndsWithoutStar`, `LoopRuns`).

Only model-checked: liveness (`EveryRunEnds`, `TableEmptied`, `WriteEnds`, `SendEnds`,
`CommandEnds`, `RequestEnds`), which is outside the reach of the prover under fairness. Of each
the part that needs no fairness is proved for every instance: a measure that every step of the
actor decreases, whatever the others do in between (`...Advance`), and, where actors wait for
each other, that one of them can always go on (`...NeverStall`, `NoLostWakeup`,
`RowsHaveAlarm`). What is left to fairness, and to TLC, is that the next step comes. The
bounds named *bound* are part of some of these measures: answers 429, crashes and runs of the
population each raise one, and are counted.

## 5. Not modelled, and why

* Contents of requests, pages, headers and logs: no property depends on them.
* The request's cache and failing reads of the D1 and KV tag caches: the first is the same
  as that of the sharded cache, which is modelled, and of a failing read the caches answer
  that nothing was revalidated. The eventual consistency of KV: the code only documents it.
* SQL statements of the queue's object that throw, other than the read of the sync table,
  whose error the code takes for "not synced" (`GoesAhead`). When the sync row cannot be
  written the route is recorded as failed, as after `RecordFailure`; when the row of a failed
  route cannot, the promise of the call is rejected and the memory has a state without row.
* A `rm()` that fails in the `finally` block of the population, which the code ignores, and
  what an earlier run left on the disk. The pages of the listing of versions, which are read
  one after the other: the model lists at one time. The seven days that stand for a
  `maxVersionAgeDays` of 0 or none: the model has the age in force.
* More than one entry of the incremental cache: entries share nothing. The older
  formats of KV keys.
* Cache purges without a durable object: one call of the API, whose failure is logged.
* Environment variables, shims of Node.js, the development context: glue.
* The drivers `build`, `preview` and `migrate`, prompts, scaffolding, the build and its
  patches: I/O and code generation, one step after the other.

## 6. Plan

Done: the modules of section 2, their runs and proofs. Left, in this order:

1. Composition of the queue with the incremental cache: a sync row written after an entry
   hides the next revalidation of that entry when the answer takes long.
2. Composition of the tag cache with the purge and the regional cache: a page purged
   before its tag is seen as revalidated everywhere may be put again.
3. An abstract register with bounded staleness that `RegionalCache` and the regional
   cache of `ShardedTagCache` both implement, as two modules implement `BoundedPool`.
4. The request's cache of the D1 and KV tag caches with concurrent checks.
