------------------------ MODULE PopulateCache_proofs ------------------------
(***************************************************************************)
(* Proofs about the population of the caches: types, the pool of promises, *)
(* what a command that has ended has stored and leaves behind, and that it *)
(* gets on, and its pool too, whatever fails and is retried.               *)
(***************************************************************************)
EXTENDS PopulateCache, FiniteSetTheorems, TLAPS

-----------------------------------------------------------------------------
(* The pool.  A promise is pending while its task is at an await, and tasks *)
(* are taken in order, only while the pool of the command is open.          *)

AtAwait == {"requesting", "written", "waiting", "staging"}

Open == {"sending", "staging"}

PoolInv ==
    /\ \A a \in Assets : a \in pending <=> task[a] \in AtAwait
    /\ \A a \in Assets : task[a] = "waiting" => attempt[a] < MaxRequestRetries
    /\ \A a \in Assets : next <= a => task[a] = "none"
    /\ step \notin Open \cup {"failing", "failed"} => pending = {}

-----------------------------------------------------------------------------
(* Where the command is tells which cache it populates, and what of it is   *)
(* stored so far.                                                           *)

Before == {"start", "bucket", "account", "find", "create", "worker", "configDir", "stagingDir", "keys", "chunksDir"}

PhaseInv ==
    /\ step \in Before => next = 1
    /\ step \in {"bucket", "account", "find", "create", "worker", "sending"} => plan.incremental = "r2"
    /\ step \in {"configDir", "stagingDir", "keys", "staging", "copying"} => plan.incremental = "rclone"
    /\ step \in {"chunksDir", "kv"} => plan.incremental = "kv" /\ Count # 0
    /\ step = "static" => plan.incremental = "static"
    /\ step = "cleaning" => plan.incremental \in {"r2", "rclone"}
    /\ step = "kv" => next \in Nat \ {0}

TaskInv ==
    \A a \in Assets :
        /\ task[a] = "staging" => plan.incremental = "rclone"
        /\ task[a] \in {"requesting", "written", "waiting"} => plan.incremental = "r2"
        /\ task[a] = "written" => a \in stored
        /\ task[a] = "done" /\ plan.incremental = "r2" => a \in stored
        /\ step = "sending" /\ a < next => a \in pending \/ task[a] = "done"
        /\ step = "kv" /\ a < next => a \in stored

Populates ==
    plan.incremental # "none" /\ (plan.incremental = "kv" => plan.cacheChunkSize # NaN)

StoredInv ==
    step \in {"cleaning", "tags", "alter", "done"} /\ Populates => stored = Assets

ColumnInv ==
    /\ "stale" \in columns => "expire" \in columns
    /\ step = "done" /\ plan.tag = "d1" /\ ~unaltered => "stale" \in columns

LeftInv ==
    /\ worker => step \in {"sending", "cleaning", "failing"}
    /\ "keys" \in temp => step \in {"staging", "copying", "cleaning", "failing"}
    /\ plan.incremental # "rclone" => temp \subseteq KVFiles
    /\ plan.incremental # "kv" => temp \subseteq RcloneFiles
    /\ step \in {"start", "chunksDir"} => temp = {}
    /\ step = "kv" => temp = {"chunks"}
    /\ step \in {"tags", "alter", "done"} =>
            temp = IF plan.incremental = "kv" /\ Count # 0 THEN {"chunks"} ELSE {}

Inv == TypeOK /\ PoolInv /\ PhaseInv /\ TaskInv /\ StoredInv /\ ColumnInv /\ LeftInv

-----------------------------------------------------------------------------
LEMMA InitInv == Init => Inv
<1> SUFFICES ASSUME Init PROVE Inv
  OBVIOUS
<1> USE ConstantsAssumption DEF Init, Assets, Steps, AtAwait, Open, Before, Populates, RcloneFiles, KVFiles, Plan
<1>1. TypeOK
  <2>1. plan \in Plans /\ runs \in Nat /\ step \in Steps /\ next \in 1 .. Count + 1
    OBVIOUS
  <2>2. /\ task \in [Assets -> {"none", "requesting", "written", "waiting", "staging", "done", "failed"}]
        /\ attempt \in [Assets -> 0 .. MaxRequestRetries]
    OBVIOUS
  <2>3. /\ pending \subseteq Assets /\ stored \subseteq Assets /\ worker \in BOOLEAN
        /\ temp \subseteq RcloneFiles \cup KVFiles
        /\ columns \subseteq {"tag", "revalidatedAt", "stale", "expire"}
    OBVIOUS
  <2>4. {bucket, unaltered} \subseteq BOOLEAN
    OBVIOUS
  <2> QED
    BY <2>1, <2>2, <2>3, <2>4 DEF TypeOK
<1>2. PoolInv
  BY DEF PoolInv
<1>3. PhaseInv
  BY DEF PhaseInv
<1>4. TaskInv
  BY DEF TaskInv
<1>5. StoredInv
  BY DEF StoredInv
<1>6. ColumnInv
  BY DEF ColumnInv
<1>7. LeftInv
  BY DEF LeftInv
<1> QED
  BY <1>1, <1>2, <1>3, <1>4, <1>5, <1>6, <1>7 DEF Inv

LEMMA CommandStep ==
    ASSUME Inv, Command
    PROVE  Inv'
<1> USE ConstantsAssumption DEF Assets, Steps, AtAwait, Open, Before, Populates, RcloneFiles, KVFiles, Plan, Goto, pool, cloud,
      Inv, TypeOK, PoolInv, PhaseInv, TaskInv, StoredInv, ColumnInv, LeftInv
<1>1. CASE Start
  <2>1. TypeOK'
    BY <1>1 DEF Start
  <2>2. PoolInv'
    BY <1>1 DEF Start
  <2>3. PhaseInv'
    BY <1>1 DEF Start
  <2>4. TaskInv'
    BY <1>1 DEF Start
  <2>5. StoredInv'
    <3>1. Count = 0 => stored = 1 .. Count
      OBVIOUS
    <3> QED
      BY <1>1, <3>1 DEF Start
  <2>6. ColumnInv'
    BY <1>1 DEF Start
  <2>7. LeftInv'
    BY <1>1 DEF Start
  <2> QED
    BY <2>1, <2>2, <2>3, <2>4, <2>5, <2>6, <2>7
<1>2. CASE StartFails
  BY <1>2 DEF StartFails
<1>3. CASE Authenticate
  BY <1>3 DEF Authenticate
<1>4. CASE Account
  BY <1>4 DEF Account
<1>5. CASE FindBucket
  BY <1>5 DEF FindBucket
<1>6. CASE CreateBucket
  BY <1>6 DEF CreateBucket
<1>7. CASE StartWorker
  BY <1>7 DEF StartWorker
<1>8. CASE Launch
  BY <1>8 DEF Launch, MayStart
<1>9. CASE PoolDone
  <2>1. TypeOK'
    BY <1>9 DEF PoolDone, AllSettled
  <2>2. PoolInv'
    BY <1>9 DEF PoolDone, AllSettled
  <2>3. PhaseInv'
    BY <1>9 DEF PoolDone, AllSettled
  <2>4. TaskInv'
    BY <1>9 DEF PoolDone, AllSettled
  <2>5. StoredInv'
    <3>1. ASSUME step = "sending"
          PROVE  stored = 1 .. Count
      <4>1. \A a \in 1 .. Count : a < next
        BY <1>9, <3>1 DEF PoolDone, AllSettled
      <4>2. \A a \in 1 .. Count : a \in stored
        BY <1>9, <3>1, <4>1 DEF PoolDone, AllSettled
      <4>3. stored \subseteq 1 .. Count
        OBVIOUS
      <4> QED
        BY <4>2, <4>3, Zenon
    <3> QED
      BY <1>9, <3>1 DEF PoolDone, AllSettled
  <2>6. ColumnInv'
    BY <1>9 DEF PoolDone, AllSettled
  <2>7. LeftInv'
    BY <1>9 DEF PoolDone, AllSettled
  <2> QED
    BY <2>1, <2>2, <2>3, <2>4, <2>5, <2>6, <2>7
<1>10. CASE MakeConfigDir \/ MakeStagingDir \/ WriteKeys \/ MakeChunksDir
  <2>1. CASE MakeConfigDir
    BY <2>1 DEF MakeConfigDir
  <2>2. CASE MakeStagingDir
    BY <2>2 DEF MakeStagingDir
  <2>3. CASE WriteKeys
    BY <2>3 DEF WriteKeys
  <2>4. CASE MakeChunksDir
    <3>1. TypeOK'
      BY <2>4 DEF MakeChunksDir
    <3>2. PoolInv'
      BY <2>4 DEF MakeChunksDir
    <3>5. PhaseInv'
      BY <2>4 DEF MakeChunksDir
    <3>6. TaskInv'
      <4>1. /\ next = 1 /\ step' # "sending"
            /\ UNCHANGED <<plan, next, pending, task, stored>>
        BY <2>4 DEF MakeChunksDir
      <4> QED
        BY <4>1
    <3>3. StoredInv' /\ ColumnInv'
      BY <2>4 DEF MakeChunksDir
    <3>4. LeftInv'
      <4>1. /\ plan' = plan /\ ~worker' /\ plan.incremental = "kv" /\ temp = {}
            /\ \/ step' = "kv" /\ temp' = {"chunks"}
               \/ step' = "failed" /\ temp' = {}
        BY <2>4 DEF MakeChunksDir
      <4> QED
        BY <4>1
    <3> QED
      BY <3>1, <3>2, <3>3, <3>4, <3>5, <3>6
  <2> QED
    BY <1>10, <2>1, <2>2, <2>3, <2>4
<1>11. CASE Copy
  BY <1>11 DEF Copy
<1>12. CASE PutChunk
  <2> DEFINE size  == Larger(1, plan.cacheChunkSize)
             chunk == Chunk
             last  == IF next + size <= Count + 1 THEN next + size - 1 ELSE Count
  <2>1. /\ step = "kv" /\ next \in 1 .. Count
        /\ stored' = stored \cup chunk
        /\ next' = next + Cardinality(chunk)
        /\ UNCHANGED <<plan, runs, step, pending, task, attempt, worker, columns, bucket, unaltered>>
        /\ temp' = temp
    BY <1>12 DEF PutChunk, NoChunkLeft, RemoveChunkFile
  <2>2. size \in Nat \ {0}
    BY <1>12 DEF PutChunk, NoChunkLeft, Larger
  <2>a. chunk = {a \in 1 .. Count : next <= a /\ a < next + size}
    BY DEF Chunk
  <2> HIDE DEF size
  <2>3. last \in Int /\ last >= next /\ last <= Count
    BY <2>1, <2>2
  <2>4. chunk = next .. last
    BY <2>1, <2>2, <2>a
  <2>5. Cardinality(chunk) = last - next + 1
    <3>1. next \in Int /\ last \in Int /\ ~(next > last)
      BY <2>1, <2>3
    <3>2. Cardinality(next .. last) = IF next > last THEN 0 ELSE last - next + 1
      BY <3>1, FS_Interval, Zenon
    <3> QED
      BY <2>4, <3>1, <3>2, Zenon
  <2>6. next' = last + 1
    BY <2>1, <2>3, <2>5
  <2>7. stored' = stored \cup (next .. last)
    BY <2>1, <2>4
  <2> HIDE DEF last, chunk
  <2>8. TypeOK'
    <3>1. next' \in 1 .. Count + 1
      BY <2>1, <2>3, <2>6
    <3>2. stored' \subseteq 1 .. Count
      <4>1. stored \subseteq 1 .. Count
        OBVIOUS
      <4>2. next .. last \subseteq 1 .. Count
        BY <2>1, <2>3
      <4> QED
        BY <2>7, <4>1, <4>2, Zenon
    <3> QED
      BY <2>1, <3>1, <3>2
  <2>9. PoolInv'
    BY <2>1, <2>3, <2>6
  <2>10. PhaseInv'
    BY <2>1, <2>3, <2>6
  <2>11. TaskInv'
    <3>1. \A a \in 1 .. Count : a < next' => a \in stored'
      <4> SUFFICES ASSUME NEW a \in 1 .. Count, a < next' PROVE a \in stored'
        OBVIOUS
      <4>1. CASE a < next
        BY <2>1, <4>1
      <4>2. CASE ~(a < next)
        <5>1. a \in next .. last
          BY <2>1, <2>3, <2>6, <4>2
        <5> QED
          BY <2>7, <5>1
      <4> QED
        BY <4>1, <4>2
    <3>2. stored \subseteq stored'
      BY <2>1
    <3> QED
      BY <2>1, <3>1, <3>2
  <2>12. StoredInv' /\ ColumnInv' /\ LeftInv'
    BY <2>1
  <2> QED
    BY <2>8, <2>9, <2>10, <2>11, <2>12
<1>13. CASE PutChunkFails
  BY <1>13 DEF PutChunkFails, NoChunkLeft, Chunk, RemoveChunkFile
<1>14. CASE ChunksDone
  <2>1. TypeOK'
    BY <1>14 DEF ChunksDone, NoChunkLeft
  <2>2. PoolInv'
    BY <1>14 DEF ChunksDone, NoChunkLeft
  <2>3. PhaseInv'
    BY <1>14 DEF ChunksDone, NoChunkLeft
  <2>4. TaskInv'
    BY <1>14 DEF ChunksDone, NoChunkLeft
  <2>5. StoredInv'
    <3>1. ASSUME next > Count
          PROVE  stored = 1 .. Count
      <4>1. \A a \in 1 .. Count : a < next
        BY <1>14, <3>1 DEF ChunksDone, NoChunkLeft
      <4>2. \A a \in 1 .. Count : a \in stored
        BY <1>14, <3>1, <4>1 DEF ChunksDone, NoChunkLeft
      <4>3. stored \subseteq 1 .. Count
        OBVIOUS
      <4> QED
        BY <4>2, <4>3, Zenon
    <3> QED
      BY <1>14, <3>1 DEF ChunksDone, NoChunkLeft
  <2>6. ColumnInv'
    BY <1>14 DEF ChunksDone, NoChunkLeft
  <2>7. LeftInv'
    BY <1>14 DEF ChunksDone, NoChunkLeft
  <2> QED
    BY <2>1, <2>2, <2>3, <2>4, <2>5, <2>6, <2>7
<1>15. CASE CopyStaticAssets
  BY <1>15 DEF CopyStaticAssets
<1>16. CASE Clean
  <2>1. /\ \/ step = "cleaning" /\ step' = "tags"
           \/ step = "failing" /\ step' = "failed"
        /\ worker' = FALSE /\ temp' = temp \ RcloneFiles
        /\ UNCHANGED <<plan, runs, pool, cloud, unaltered>>
    BY <1>16 DEF Clean, Cleaned
  <2>2. TypeOK'
    BY <2>1
  <2>3. PoolInv' /\ PhaseInv'
    BY <2>1
  <2>4. TaskInv' /\ StoredInv' /\ ColumnInv'
    BY <2>1
  <2>5. LeftInv'
    BY <2>1
  <2> QED
    BY <2>2, <2>3, <2>4, <2>5
<1>17. CASE CreateTable
  BY <1>17 DEF CreateTable
<1>18. CASE AlterTable
  BY <1>18 DEF AlterTable, WithNewColumns
<1> QED
  BY <1>1, <1>2, <1>3, <1>4, <1>5, <1>6, <1>7, <1>8, <1>9, <1>10, <1>11, <1>12, <1>13, <1>14, <1>15, <1>16, <1>17, <1>18 DEF Command

LEMMA WorkStep ==
    ASSUME Inv, NEW a \in Assets, Work(a)
    PROVE  Inv'
<1> USE ConstantsAssumption DEF Assets, Steps, AtAwait, Open, Before, Populates, RcloneFiles, KVFiles, Plan, cloud,
      Settle, GiveUp, Inv, TypeOK, PoolInv, PhaseInv, TaskInv, StoredInv, ColumnInv, LeftInv
<1>1. CASE Put(a)
  BY <1>1 DEF Put, UsesBucket
<1>2. CASE Answer(a)
  BY <1>2 DEF Answer
<1>3. CASE Retryable(a)
  <2>1. CASE MayRetry(a)
    <3>1. attempt[a] < MaxRequestRetries /\ a \in pending
      BY <1>3, <2>1 DEF MayRetry, Retryable
    <3>2. /\ task' = [task EXCEPT ![a] = "waiting"]
          /\ UNCHANGED <<plan, runs, step, next, pending, attempt, worker, temp, cloud, unaltered>>
      BY <1>3, <2>1 DEF Retryable
    <3>3. TypeOK'
      BY <3>2
    <3>4. PoolInv'
      <4>1. /\ task'[a] = "waiting" /\ \A b \in Assets : b # a => task'[b] = task[b]
            /\ step' = step /\ next' = next /\ pending' = pending /\ attempt' = attempt
        BY <3>2
      <4>2. task[a] # "none" /\ step \in Open \cup {"failing", "failed"}
        BY <1>3, <3>1 DEF Retryable
      <4>3. \A b \in Assets : /\ b \in pending' <=> task'[b] \in AtAwait
                              /\ task'[b] = "waiting" => attempt'[b] < MaxRequestRetries
                              /\ next' <= b => task'[b] = "none"
        <5> TAKE b \in Assets
        <5>1. CASE b = a
          BY <3>1, <4>1, <4>2, <5>1
        <5>2. CASE b # a
          BY <4>1, <5>2
        <5> QED
          BY <5>1, <5>2
      <4> QED
        BY <4>1, <4>2, <4>3
    <3>5. PhaseInv'
      BY <1>3, <3>2 DEF Retryable
    <3>6. TaskInv'
      BY <1>3, <3>1, <3>2 DEF Retryable
    <3>7. StoredInv' /\ ColumnInv' /\ LeftInv'
      BY <1>3, <3>2 DEF Retryable
    <3> QED
      BY <3>3, <3>4, <3>5, <3>6, <3>7
  <2>2. CASE ~MayRetry(a)
    <3>1. Settle(a, "failed") /\ UNCHANGED <<plan, runs, next, attempt, worker, temp, cloud, unaltered>>
      BY <1>3, <2>2 DEF Retryable
    <3>2. a \in pending
      BY <1>3 DEF Retryable
    <3> QED
      BY <3>1, <3>2
  <2> QED
    BY <2>1, <2>2
<1>4. CASE NotRetryable(a)
  BY <1>4 DEF NotRetryable
<1>5. CASE Retry(a)
  BY <1>5 DEF Retry, NextAttempt
<1>6. CASE Stage(a)
  BY <1>6 DEF Stage
<1> QED
  BY <1>1, <1>2, <1>3, <1>4, <1>5, <1>6 DEF Work

LEMMA NextStep == Inv /\ [Next]_vars => Inv'
<1> SUFFICES ASSUME Inv, [Next]_vars PROVE Inv'
  OBVIOUS
<1>1. CASE Command
  BY <1>1, CommandStep
<1>2. CASE BucketAppears
  <2>1. TypeOK'
    BY <1>2 DEF BucketAppears, pool, Inv, TypeOK
  <2> QED
    BY <1>2, <2>1 DEF BucketAppears, pool, Populates, AtAwait, Open, Before, RcloneFiles, KVFiles,
         Inv, PoolInv, PhaseInv, TaskInv, StoredInv, ColumnInv, LeftInv
<1>3. CASE RunAgain
  BY <1>3, ConstantsAssumption
  DEF RunAgain, Goto, cloud, Assets, Steps, Populates, AtAwait, Open, Before, RcloneFiles, KVFiles, Inv, TypeOK, PoolInv, PhaseInv, TaskInv, StoredInv, ColumnInv, LeftInv
<1>4. CASE \E a \in Assets : Work(a)
  BY <1>4, WorkStep
<1>5. CASE UNCHANGED vars
  BY <1>5 DEF vars, pool, cloud, Populates, AtAwait, Open, Before, RcloneFiles, KVFiles, Inv, TypeOK, PoolInv, PhaseInv, TaskInv, StoredInv, ColumnInv, LeftInv
<1> QED
  BY <1>1, <1>2, <1>3, <1>4, <1>5 DEF Next

LEMMA Invariance == Spec => []Inv
<1> QED
  BY InitInv, NextStep, PTL DEF Spec

-----------------------------------------------------------------------------
(* Theorems.                                                               *)

\* Variables keep their types: what is stored are assets of the build, and no
\* request is attempted more often than MaxRequestRetries.
THEOREM TypeCorrect == Spec => []TypeOK
<1>1. Inv => TypeOK
  BY DEF Inv
<1> QED
  BY <1>1, Invariance, PTL

\* A command that ended well has stored every asset and added the columns, and of
\* its temporary files it leaves only the empty directory of KV; one that ended,
\* well or not, leaves no worker and no keys.
THEOREM CommandsEndClean == Spec => []Outcome
<1>1. Inv => Outcome
  <2> SUFFICES ASSUME Inv PROVE SuccessMeansStored /\ ColumnsAdded /\ NothingLeft
    BY DEF Outcome
  <2>1. SuccessMeansStored
    BY DEF Inv, StoredInv, Populates, SuccessMeansStored
  <2>2. ColumnsAdded
    BY DEF Inv, ColumnInv, ColumnsAdded
  <2>3. NothingLeft
    BY DEF Inv, LeftInv, NothingLeft
  <2> QED
    BY <2>1, <2>2, <2>3
<1> QED
  BY <1>1, Invariance, PTL

-----------------------------------------------------------------------------
(* The refinement.                                                         *)

LEMMA LimitIsNat == Inv => MaxConcurrency \in Nat
  BY ConstantsAssumption DEF Inv, TypeOK, MaxConcurrency, Larger, Plan

LEMMA PoolStep == Inv /\ [Next]_vars => [Bounded!Next]_<<pending, MaxConcurrency>>
<1> SUFFICES ASSUME Inv, [Next]_vars
             PROVE  [Bounded!Next]_<<pending, MaxConcurrency>>
  OBVIOUS
<1>1. plan' = plan
  BY DEF Next, vars, Command, BucketAppears, RunAgain, Work, Start, StartFails, Authenticate, Account,
         FindBucket, CreateBucket, StartWorker, Launch, PoolDone, MakeConfigDir,
         MakeStagingDir, WriteKeys, Copy, MakeChunksDir, PutChunk, PutChunkFails, ChunksDone, CopyStaticAssets, Clean, CreateTable, AlterTable,
         Put, Answer, Retryable, NotRetryable, Retry, Stage
<1>2. MaxConcurrency' = MaxConcurrency
  BY <1>1 DEF MaxConcurrency
<1>3. CASE Launch
  <2>1. next \in Assets /\ next \notin pending
    BY <1>3, ConstantsAssumption DEF Launch, Inv, TypeOK, PoolInv, Assets, AtAwait
  <2>2. Bounded!Start(next)
    <3>1. Bounded!Cardinality(pending) = Cardinality(pending)
      BY DEF Bounded!Cardinality, Cardinality
    <3> QED
      BY <1>2, <1>3, <2>1, <3>1 DEF Launch, MayStart, Bounded!Start
  <2> QED
    BY <2>1, <2>2 DEF Bounded!Next
<1>4. ASSUME NEW a \in Assets, Answer(a) \/ Retryable(a) \/ NotRetryable(a) \/ Stage(a)
      PROVE  [Bounded!Next]_<<pending, MaxConcurrency>>
  <2>1. a \in pending
    BY <1>4 DEF Inv, PoolInv, AtAwait, Answer, Retryable, NotRetryable, Stage
  <2>2. pending' = pending \/ pending' = pending \ {a}
    BY <1>4 DEF Answer, Retryable, NotRetryable, Stage, GiveUp, Settle
  <2>3. pending' = pending \ {a} => Bounded!Finish({a})
    BY <1>2 DEF Bounded!Finish
  <2> QED
    BY <1>2, <2>1, <2>2, <2>3 DEF Bounded!Next
<1>5. CASE RunAgain
  BY <1>2, <1>5 DEF RunAgain
<1>6. CASE (Command /\ ~Launch) \/ BucketAppears \/ (\E a \in Assets : Put(a) \/ Retry(a)) \/ UNCHANGED vars
  <2>1. pending' = pending
    BY <1>6 DEF vars, pool, Command, BucketAppears, Start, StartFails, Authenticate, Account,
         FindBucket, CreateBucket, StartWorker, PoolDone, MakeConfigDir,
         MakeStagingDir, WriteKeys, Copy, MakeChunksDir, PutChunk, PutChunkFails, ChunksDone, CopyStaticAssets, Clean, CreateTable, AlterTable, Put, Retry
  <2> QED
    BY <1>2, <2>1
<1> QED
  BY <1>3, <1>4, <1>5, <1>6 DEF Next, Work

\* The promises of sendEntriesToR2Worker() and stageCacheAssets() implement the
\* bounded pool: never more than maxConcurrency of them, whatever fails.
THEOREM PromisesImplementPool == Spec => PoolIsBounded
<1>1. Init => Bounded!Init
  <2>1. Init => Inv
    BY InitInv
  <2> QED
    BY <2>1, LimitIsNat DEF Init, Bounded!Init
<1> QED
  BY <1>1, Invariance, PoolStep, PTL DEF Spec, PoolIsBounded, Bounded!Spec

-----------------------------------------------------------------------------
(* What CommandEnds says but for fairness: a run of the command has so many *)
(* steps to go, and so has each of its promises.                           *)

\* The steps of populateCache(), the later ones lower, whichever cache it fills.
Ahead ==
    CASE step = "start" -> 10
      [] step = "bucket" -> 9
      [] step \in {"account", "configDir"} -> 8
      [] step \in {"find", "stagingDir"} -> 7
      [] step \in {"create", "keys"} -> 6
      [] step \in {"worker", "staging", "chunksDir"} -> 5
      [] step \in {"sending", "copying", "kv", "static"} -> 4
      [] step \in {"cleaning", "failing"} -> 3
      [] step = "tags" -> 2
      [] step = "alter" -> 1
      [] OTHER -> 0

\* The attempts left to the task of an asset, and its way through the current one.
Left(a) ==
    4 * (MaxRequestRetries - attempt[a])
        + (CASE task[a] = "requesting" -> 3
             [] task[a] = "written" -> 2
             [] task[a] \in {"waiting", "staging"} -> 1
             [] OTHER -> 0)

\* Nothing to go through comes back, and some of it has been gone through.
Fewer ==
    /\ runs' = runs /\ (bucket' = bucket \/ bucket')
    /\ Ahead' <= Ahead /\ next' >= next /\ \A a \in Assets : Left(a)' <= Left(a)
    /\ Ahead' < Ahead \/ next' > next \/ \E a \in Assets : Left(a)' < Left(a)

AttemptInv == \A a \in Assets : task[a] = "none" => attempt[a] = 0

LEMMA AttemptStep == Inv /\ AttemptInv /\ [Next]_vars => AttemptInv'
<1> SUFFICES ASSUME Inv, AttemptInv, [Next]_vars PROVE AttemptInv'
  OBVIOUS
<1>t. /\ task \in [Assets -> {"none", "requesting", "written", "waiting", "staging", "done", "failed"}]
      /\ attempt \in [Assets -> 0 .. MaxRequestRetries]
  BY DEF Inv, TypeOK
<1>1. CASE Launch
  BY <1>t, <1>1 DEF Launch, AttemptInv
<1>2. ASSUME NEW a \in Assets, Work(a) PROVE AttemptInv'
  <2>1. PICK state \in {"requesting", "written", "waiting", "done", "failed"} :
          /\ task' = [task EXCEPT ![a] = state] \/ task' = task
          /\ attempt' = attempt \/ (task[a] = "waiting" /\ attempt' = NextAttempt(a))
    BY <1>2 DEF Work, Put, Answer, Retryable, NotRetryable, Retry, Stage, Settle, GiveUp
  <2>2. task[a] # "none"
    BY <1>2 DEF Work, Put, Answer, Retryable, NotRetryable, Retry, Stage
  <2> QED
    BY <1>t, <2>1, <2>2 DEF AttemptInv, NextAttempt
<1>3. CASE RunAgain
  BY <1>3 DEF RunAgain, AttemptInv
<1>4. CASE (Command /\ ~Launch) \/ BucketAppears \/ UNCHANGED vars
  <2>1. UNCHANGED <<task, attempt>>
    BY <1>4 DEF vars, pool, Command, BucketAppears, Start, StartFails, Authenticate, Account,
         FindBucket, CreateBucket, StartWorker, PoolDone, MakeConfigDir,
         MakeStagingDir, WriteKeys, Copy, MakeChunksDir, PutChunk, PutChunkFails, ChunksDone, CopyStaticAssets, Clean, CreateTable, AlterTable
  <2> QED
    BY <2>1 DEF AttemptInv
<1> QED
  BY <1>1, <1>2, <1>3, <1>4 DEF Next

LEMMA LeftTypes == Inv => Ahead \in 0 .. 10 /\ next \in Nat /\ \A a \in Assets : Left(a) \in Nat
<1> SUFFICES ASSUME Inv PROVE Ahead \in 0 .. 10 /\ next \in Nat /\ \A a \in Assets : Left(a) \in Nat
  OBVIOUS
<1>1. Ahead \in 0 .. 10
  BY DEF Ahead
<1>2. next \in Nat /\ attempt \in [Assets -> 0 .. MaxRequestRetries] /\ MaxRequestRetries \in Nat
  BY ConstantsAssumption DEF Inv, TypeOK
<1>3. ASSUME NEW a \in Assets PROVE Left(a) \in Nat
  <2>1. attempt[a] \in 0 .. MaxRequestRetries
    BY <1>2
  <2>2. MaxRequestRetries - attempt[a] \in Nat
    BY <1>2, <2>1
  <2> QED
    BY <2>2 DEF Left
<1> QED
  BY <1>1, <1>2, <1>3

LEMMA ChunkIsSome ==
    ASSUME Inv, PutChunk
    PROVE  next' > next /\ next' \in Nat
<1> DEFINE chunk == Chunk
<1>1. /\ step = "kv" /\ next \in 1 .. Count /\ next' = next + Cardinality(chunk)
      /\ plan.cacheChunkSize \in Nat
  BY ConstantsAssumption DEF PutChunk, NoChunkLeft, Inv, TypeOK, Plan
<1>2. next \in chunk
  BY <1>1, ConstantsAssumption DEF Larger, Assets, Chunk
<1>3. IsFiniteSet(chunk)
  <2>1. IsFiniteSet(1 .. Count)
    BY FS_Interval, ConstantsAssumption
  <2>2. chunk \subseteq 1 .. Count
    BY DEF Assets, Chunk
  <2> QED
    BY <2>1, <2>2, FS_Subset
<1> HIDE DEF chunk
<1>4. Cardinality(chunk) \in Nat /\ Cardinality(chunk) # 0
  BY <1>2, <1>3, FS_CardinalityType, FS_EmptySet
<1> QED
  BY <1>1, <1>4

LEMMA WorkFewer ==
    ASSUME Inv, NEW a \in Assets, Work(a)
    PROVE  Fewer
<1>t. /\ task \in [Assets -> {"none", "requesting", "written", "waiting", "staging", "done", "failed"}]
      /\ attempt \in [Assets -> 0 .. MaxRequestRetries] /\ MaxRequestRetries \in Nat
  BY ConstantsAssumption DEF Inv, TypeOK
<1>1. UNCHANGED <<runs, bucket, next>>
  BY DEF Work, Put, Answer, Retryable, NotRetryable, Retry, Stage, cloud
<1>2. step' = step \/ (step \in {"sending", "staging"} /\ step' = "failing")
  BY DEF Work, Put, Answer, Retryable, NotRetryable, Retry, Stage, Settle, GiveUp
<1>3. Ahead' <= Ahead
  BY <1>2 DEF Ahead
<1>4. \A b \in Assets : b # a => task'[b] = task[b] /\ attempt'[b] = attempt[b]
  BY <1>t DEF Work, Put, Answer, Retryable, NotRetryable, Retry, Stage, Settle, GiveUp, NextAttempt
<1>5. Left(a)' < Left(a) /\ Left(a)' \in Int
  <2>1. CASE Put(a)
    <3>1. task[a] = "requesting" /\ task'[a] = "written" /\ attempt'[a] = attempt[a]
      BY <1>t, <2>1 DEF Put
    <3> QED
      BY <1>t, <3>1 DEF Left
  <2>2. CASE Answer(a) \/ Stage(a) \/ NotRetryable(a)
    <3>1. /\ task[a] \in {"requesting", "written", "staging"} /\ task'[a] \in {"done", "failed"}
          /\ attempt'[a] = attempt[a]
      BY <1>t, <2>2 DEF Answer, Stage, NotRetryable, GiveUp, Settle
    <3> QED
      BY <1>t, <3>1 DEF Left
  <2>3. CASE Retryable(a)
    <3>1. /\ task[a] \in {"requesting", "written"} /\ task'[a] \in {"waiting", "failed"}
          /\ attempt'[a] = attempt[a]
      BY <1>t, <2>3 DEF Retryable, GiveUp, Settle
    <3> QED
      BY <1>t, <3>1 DEF Left
  <2>4. CASE Retry(a)
    <3>1. task[a] = "waiting" /\ task'[a] = "requesting" /\ attempt'[a] = attempt[a] + 1
      BY <1>t, <2>4 DEF Retry, NextAttempt
    <3> QED
      BY <1>t, <3>1 DEF Left
  <2> QED
    BY <2>1, <2>2, <2>3, <2>4 DEF Work
<1>6. \A b \in Assets : Left(b)' <= Left(b)
  <2> TAKE b \in Assets
  <2>1. Left(a) \in Int /\ Left(b) \in Int
    BY LeftTypes
  <2>2. b # a => Left(b)' = Left(b)
    BY <1>4 DEF Left
  <2> QED
    BY <1>5, <2>1, <2>2
<1> QED
  BY <1>1, <1>3, <1>5, <1>6, LeftTypes DEF Fewer

LEMMA CommandFewer ==
    ASSUME Inv, AttemptInv, Command
    PROVE  Fewer
<1>t. next \in Nat /\ Ahead \in 0 .. 10 /\ \A a \in Assets : Left(a) \in Nat
  BY LeftTypes
<1>1. CASE Launch
  <2>1. next \in Assets
    BY <1>1, ConstantsAssumption DEF Launch, Inv, TypeOK, Assets
  <2>2. task[next] = "none" /\ attempt[next] = 0
    BY <2>1, <1>t DEF Inv, PoolInv, AttemptInv
  <2>3. /\ task'[next] \in {"requesting", "staging"} /\ attempt'[next] = 1
        /\ \A a \in Assets : a # next => task'[a] = task[a] /\ attempt'[a] = attempt[a]
        /\ UNCHANGED <<runs, step, bucket>> /\ next' = next + 1
    BY <1>1, <2>1 DEF Launch, Inv, TypeOK, cloud
  <2>4. Left(next) = 4 * MaxRequestRetries
    BY <2>2, ConstantsAssumption DEF Left
  <2>5. \A a \in Assets : a = next =>
            4 * (MaxRequestRetries - attempt'[a])
                + (CASE task'[a] = "requesting" -> 3
                     [] task'[a] = "written" -> 2
                     [] task'[a] \in {"waiting", "staging"} -> 1
                     [] OTHER -> 0) <= 4 * MaxRequestRetries
    BY <2>3, ConstantsAssumption
  <2>6. \A a \in Assets : Left(a)' <= Left(a)
    BY <1>t, <2>3, <2>4, <2>5 DEF Left
  <2>7. Ahead' = Ahead
    BY <2>3 DEF Ahead
  <2> QED
    BY <1>t, <2>3, <2>6, <2>7 DEF Fewer
<1>2. CASE PutChunk
  <2>1. UNCHANGED <<runs, step, bucket, task, attempt>>
    BY <1>2 DEF PutChunk
  <2>2. Ahead' = Ahead /\ \A a \in Assets : Left(a)' = Left(a)
    BY <2>1 DEF Ahead, Left
  <2> QED
    BY <1>t, <1>2, <2>1, <2>2, ChunkIsSome DEF Fewer
<1>3. CASE Command /\ ~Launch /\ ~PutChunk
  <2>1. UNCHANGED <<runs, next, task, attempt>> /\ (bucket' = bucket \/ bucket')
    BY <1>3 DEF pool, cloud, Command, Start, StartFails, Authenticate, Account,
         FindBucket, CreateBucket, StartWorker, PoolDone, MakeConfigDir,
         MakeStagingDir, WriteKeys, Copy, MakeChunksDir, PutChunkFails, ChunksDone, CopyStaticAssets, Clean, CreateTable, AlterTable
  <2>2. Ahead' < Ahead
    <3>1. CASE Start \/ StartFails
      <4>1. plan \in Plan
        BY ConstantsAssumption DEF Inv, TypeOK
      <4>2. step = "start" /\ step' \in {"tags", "bucket", "worker", "configDir", "failed", "chunksDir", "static"}
        BY <3>1, <4>1 DEF Start, StartFails, Goto, Plan
      <4> QED
        BY <4>2 DEF Ahead
    <3>2. CASE Authenticate \/ Account \/ FindBucket
      BY <3>2 DEF Authenticate, Account, FindBucket, Goto, Ahead
    <3>3. CASE CreateBucket \/ StartWorker \/ PoolDone
      BY <3>3 DEF CreateBucket, StartWorker, PoolDone, Goto, Ahead
    <3>6. CASE MakeConfigDir \/ MakeStagingDir \/ WriteKeys \/ MakeChunksDir
      BY <3>6 DEF MakeConfigDir, MakeStagingDir, WriteKeys, MakeChunksDir, Goto, Ahead
    <3>4. CASE Copy \/ PutChunkFails \/ ChunksDone \/ CopyStaticAssets
      BY <3>4 DEF Copy, PutChunkFails, ChunksDone, CopyStaticAssets, Goto, Ahead
    <3>5. CASE Clean \/ CreateTable \/ AlterTable
      BY <3>5 DEF Clean, CreateTable, AlterTable, Goto, Ahead
    <3> QED
      BY <1>3, <3>1, <3>2, <3>3, <3>4, <3>5, <3>6 DEF Command
  <2>3. Ahead' \in 0 .. 10
    BY DEF Ahead
  <2>4. \A a \in Assets : Left(a)' = Left(a)
    BY <2>1 DEF Left
  <2> QED
    BY <1>t, <2>1, <2>2, <2>3, <2>4 DEF Fewer
<1> QED
  BY <1>1, <1>2, <1>3

\* A run of the command cannot go on forever, nor can its promises: every step of either
\* leaves fewer, but the next run and the bucket that appears, of which there are so many.
THEOREM CommandsAdvance ==
    Spec => [][\/ Fewer
               \/ step = "failed" /\ runs' = runs + 1 /\ runs' <= MaxRuns
               \/ ~bucket /\ bucket' /\ UNCHANGED <<runs, step, next, task, attempt>>]_vars
<1>1. Init => AttemptInv
  BY DEF Init, AttemptInv
<1>2. Inv /\ AttemptInv /\ [Next]_vars =>
        [\/ Fewer
         \/ step = "failed" /\ runs' = runs + 1 /\ runs' <= MaxRuns
         \/ ~bucket /\ bucket' /\ UNCHANGED <<runs, step, next, task, attempt>>]_vars
  <2> SUFFICES ASSUME Inv, AttemptInv, Next
               PROVE  \/ Fewer
                      \/ step = "failed" /\ runs' = runs + 1 /\ runs' <= MaxRuns
                      \/ ~bucket /\ bucket' /\ UNCHANGED <<runs, step, next, task, attempt>>
    OBVIOUS
  <2>1. CASE RunAgain
    BY <2>1, ConstantsAssumption DEF RunAgain, Inv, TypeOK
  <2>2. CASE BucketAppears
    BY <2>2 DEF BucketAppears, pool
  <2> QED
    BY <2>1, <2>2, CommandFewer, WorkFewer DEF Next
<1> QED
  BY <1>1, <1>2, AttemptStep, Invariance, PTL DEF Spec

\* The loop of the pool can always go on, whatever the chunk size: it takes the next asset,
\* or awaits a promise that a task is going to settle, or all have settled.
PoolGoesOn ==
    step \in Open =>
        \/ AllSettled
        \/ next <= Count /\ MayStart
        \/ \E a \in pending : task[a] \in AtAwait

\* Nobody waits for a pool that is full of nothing, or for a promise without a task.
THEOREM PoolsNeverStall == Spec => []PoolGoesOn
<1>1. Inv => PoolGoesOn
  <2> SUFFICES ASSUME Inv, pending = {}, ~AllSettled PROVE next <= Count /\ MayStart
    <3>1. Inv => \A a \in pending : task[a] \in AtAwait
      BY DEF Inv, TypeOK, PoolInv
    <3> QED
      BY <3>1 DEF PoolGoesOn
  <2>1. next <= Count
    BY ConstantsAssumption DEF AllSettled, Inv, TypeOK
  <2>2. Cardinality(pending) = 0
    BY FS_EmptySet
  <2>3. MaxConcurrency \in Nat /\ MaxConcurrency >= 1
    BY ConstantsAssumption DEF Inv, TypeOK, MaxConcurrency, Larger, Plan
  <2> QED
    BY <2>1, <2>2, <2>3 DEF MayStart
<1> QED
  BY <1>1, Invariance, PTL
=============================================================================
