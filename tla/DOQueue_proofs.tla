---------------------------- MODULE DOQueue_proofs ----------------------------
(***************************************************************************)
(* Theorems about DOQueue, for every number of ids, routes and calls, every *)
(* configuration and any number of crashes, deployments and retries.       *)
(***************************************************************************)
EXTENDS DOQueue, FiniteSetTheorems, WellFoundedInduction, TLAPS

-----------------------------------------------------------------------------
(* Arithmetic.                                                             *)

\* A nonempty set of dates has an earliest one.
LEMMA MinOfNats ==
    ASSUME NEW S \in SUBSET Nat, S # {}
    PROVE  Min(S) \in S /\ \A t \in S : Min(S) <= t
<1> DEFINE R == {ss \in Nat \X Nat : ss[1] < ss[2]}
<1>1. IsWellFoundedOn(R, Nat)
  <2>1. R = OpToRel(<, Nat)
    BY DEF OpToRel
  <2> QED BY <2>1, NatLessThanWellFounded, Zenon
<1>2. PICK s \in S : \A t \in S : ~(<<t, s>> \in R)
  <2> HIDE DEF R
  <2> QED BY <1>1, WFMin
<1>3. \A t \in S : s <= t
  <2> SUFFICES ASSUME NEW t \in S, t < s PROVE FALSE
    OBVIOUS
  <2>1. <<t, s>> \in R
    OBVIOUS
  <2> QED BY <1>2, <2>1
<1> QED BY <1>3 DEF Min

\* The backoff is a number of milliseconds.
LEMMA PowerOfTwo ==
    ASSUME NEW n \in Nat
    PROVE  2^n \in Nat
<1>1. IsFiniteSet(1..n) /\ Cardinality(1..n) = n
  BY FS_Interval
<1>2. IsFiniteSet(SUBSET (1..n)) /\ Cardinality(SUBSET (1..n)) = 2^n
  BY <1>1, FS_SUBSET
<1> QED BY <1>2, FS_CardinalityType

\* A second count above the rounded date, taken from a later truncated date.
LEMMA RoundedBelowTruncated ==
    ASSUME NEW ms \in Nat, NEW s \in Nat, NEW t \in Nat,
           s > RoundToSeconds(ms), 1000 * s <= t
    PROVE  ms + 500 <= t
  BY DEF RoundToSeconds

\* The truncation loses less than a second.
LEMMA Truncated ==
    ASSUME NEW t \in Nat
    PROVE  t \div 1000 \in Nat /\ 1000 * (t \div 1000) <= t
  OBVIOUS

-----------------------------------------------------------------------------
(* Type correctness.                                                       *)

USE NoneAssumption, MessageAssumption, ConfigAssumption

LEMMA NextFailedStateType ==
    ASSUME TypeOK, NEW id \in Ids
    PROVE  NextFailedState(id) \in FailedState
<1>1. CASE failed[id] = None
  BY <1>1 DEF TypeOK, NextFailedState, FailedState, FirstRetryDelay
<1>2. CASE failed[id] # None
  <2> DEFINE tries == failed[id].retryCount + 1
  <2>1. tries \in Nat
    BY <1>2 DEF TypeOK, FailedState
  <2>2. 2^tries \in Nat
    BY <2>1, PowerOfTwo
  <2>3. now + (2^tries) * RetryInterval \in Nat
    <3> DEFINE p == 2^tries
    <3>1. p \in Nat BY <2>2
    <3> HIDE DEF p
    <3>2. now + p * RetryInterval \in Nat BY <3>1 DEF TypeOK
    <3> QED BY <3>2 DEF p
  <2> HIDE DEF tries
  <2>4. NextFailedState(id) =
          [retryCount |-> tries, nextAlarmMs |-> now + (2^tries) * RetryInterval]
    BY <1>2 DEF NextFailedState, tries
  <2> QED BY <2>1, <2>3, <2>4 DEF FailedState
<1> QED BY <1>1, <1>2

\* addAlarm sets no date in the past.
LEMMA AlarmForType ==
    ASSUME TypeOK, NEW states \in [Ids -> FailedState \cup {None}]
    PROVE  /\ AlarmFor(states) \in Nat \cup {None}
           /\ AlarmFor(states) \notin {alarm, None} => AlarmFor(states) >= now
           /\ (\E id \in Ids : states[id] # None) => AlarmFor(states) # None
<1> DEFINE entries == {id \in Ids : states[id] # None}
           dates == {states[id].nextAlarmMs : id \in entries}
<1>1. CASE alarm # None \/ entries = {}
  BY <1>1 DEF AlarmFor, TypeOK
<1>2. CASE alarm = None /\ entries # {}
  <2>1. dates \in SUBSET Nat /\ dates # {}
    BY <1>2 DEF FailedState
  <2>2. Min(dates) \in Nat
    BY <2>1, MinOfNats
  <2>3. AlarmFor(states) = IF Min(dates) < now THEN now + RetryInterval ELSE Min(dates)
    BY <1>2 DEF AlarmFor
  <2> HIDE DEF dates
  <2>4. AlarmFor(states) \in Nat /\ AlarmFor(states) >= now
    BY <2>2, <2>3 DEF TypeOK
  <2> QED BY <2>4
<1> QED BY <1>1, <1>2

\* Whoever is in progress works on a message.
HasMessage ==
    \A a \in Actors : phase[a] \notin {"idle", "done"} => msg[a] \in Ids

TypeInv == TypeOK /\ HasMessage

\* A crash leaves nothing in progress and an alarm that is a date.
LEMMA LoseMemoryType ==
    ASSUME TypeOK, LoseMemory
    PROVE  /\ up' \in BOOLEAN
           /\ ongoing' \in [Ids -> Calls \cup {None}]
           /\ failed' \in [Ids -> FailedState \cup {None}]
           /\ phase' \in [Actors -> {"idle", "done"}]
           /\ msg' \in [Actors -> Ids \cup {None}]
           /\ racing' \in [Calls -> SUBSET Calls]
           /\ todo' \subseteq Ids
           /\ alarm' \in Nat \cup {None}
           /\ NothingFailed \in [Ids -> FailedState \cup {None}]
<1>1. phase' \in [Actors -> {"idle", "done"}]
  BY DEF LoseMemory
<1>2. alarm' \in Nat \cup {None}
  BY DEF LoseMemory, TypeOK
<1> QED BY <1>1, <1>2 DEF LoseMemory, NothingFailed

LEMMA TypeInit == Init => TypeInv
  BY DEF Init, NothingFailed, TypeInv, TypeOK, HasMessage, Phases

LEMMA TypeStep == TypeInv /\ [Next]_vars => TypeInv'
<1> SUFFICES ASSUME TypeInv, [Next]_vars PROVE TypeInv'
  OBVIOUS
<1> USE DEF TypeInv, TypeOK, HasMessage, Phases, Actors
<1>1. ASSUME NEW c \in Calls, NEW id \in Ids, Deduplicate(c, id) PROVE TypeInv'
  BY <1>1 DEF Deduplicate, world, memory, storage
<1>2. ASSUME NEW c \in Calls, NEW id \in Ids, Start(c, id) PROVE TypeInv'
  BY <1>2 DEF Start, StartRevalidation, world, storage
<1>3. ASSUME NEW c \in Calls, NEW id \in Ids, Block(c, id) PROVE TypeInv'
  BY <1>3 DEF Block, RaceOngoing, Running, world, storage
<1>4. ASSUME NEW c \in Calls, Wake(c) PROVE TypeInv'
  BY <1>4 DEF Wake, Awake, StartRevalidation, RaceOngoing, Running, world, storage
<1>5. ASSUME NEW c \in Calls, Settle(c) PROVE TypeInv'
  BY <1>5 DEF Settle, world, memory, storage
<1>6. ASSUME NEW e \in Actors, Revalidated(e) PROVE TypeInv'
  <2>1. UnixEpoch \in Nat
    BY Truncated DEF UnixEpoch
  <2> QED BY <1>6, <2>1 DEF Revalidated, Answered, UpsertSync, ForgetFailure, FreeSlot, SyncRow, world
<1>7. ASSUME NEW e \in Actors, Dropped(e) PROVE TypeInv'
  BY <1>7 DEF Dropped, Answered, ForgetFailure, FreeSlot, world, storage
<1>8. ASSUME NEW e \in Actors, GiveUp(e) PROVE TypeInv'
  BY <1>8 DEF GiveUp, Answered, ForgetFailure, FreeSlot, world, storage
<1>9. ASSUME NEW e \in Actors, RecordFailure(e) PROVE TypeInv'
  <2>1. NextFailedState(msg[e]) \in FailedState
    BY <1>9, NextFailedStateType DEF RecordFailure, Answered
  <2> QED BY <1>9, <2>1 DEF RecordFailure, Answered, UpsertFailed, FailedRow, world
<1>10. ASSUME NEW e \in Actors, AddAlarm(e) PROVE TypeInv'
  <2>1. AlarmFor(failed) \in Nat \cup {None}
    BY AlarmForType
  <2> QED BY <1>10, <2>1 DEF AddAlarm, FreeSlot, world, storage
<1>11. CASE FireAlarm
  BY <1>11 DEF FireAlarm, RetryNext, Expired, NextEventToRetry, world, memory, storage
<1>12. CASE NextRetry
  BY <1>12 DEF NextRetry, RetryNext, world, memory, storage
<1>13. CASE Crash
  <2>1. LoseMemory
    BY <1>13 DEF Crash
  <2> QED BY <1>13, <2>1, LoseMemoryType DEF Crash, storage
<1>14. CASE Deploy
  <2>1. LoseMemory
    BY <1>14 DEF Deploy
  <2> QED BY <1>14, <2>1, LoseMemoryType DEF Deploy, storage
<1>15. CASE Construct
  <2>1. CASE DisableSQLite
    BY <1>15, <2>1 DEF Construct, NothingFailed, code
  <2>2. CASE ~DisableSQLite
    <3>1. failedRows' \in [Ids -> FailedRow \cup {None}]
      BY <1>15, <2>2 DEF Construct, OfThisBuild
    <3>2. syncRows' \in [Routes -> SyncRow \cup {None}]
      BY <1>15, <2>2 DEF Construct, OfThisBuild
    <3>3. failed' \in [Ids -> FailedState \cup {None}]
      BY <1>15, <2>2, <3>1 DEF Construct, RestoredFailures, FailedRow
    <3>4. alarm' \in Nat \cup {None}
      BY <1>15, <2>2, <3>3, AlarmForType DEF Construct
    <3> QED BY <1>15, <2>2, <3>1, <3>2, <3>3, <3>4 DEF Construct, NothingFailed, code
  <2> QED BY <2>1, <2>2
<1>16. CASE Tick
  BY <1>16 DEF Tick, memory, storage, code
<1>17. CASE UNCHANGED vars
  BY <1>17 DEF vars, world, memory, storage, code
<1> QED
  BY <1>1, <1>2, <1>3, <1>4, <1>5, <1>6, <1>7, <1>8, <1>9, <1>10, <1>11, <1>12,
     <1>13, <1>14, <1>15, <1>16, <1>17 DEF Next, Execute

\* The state of the object, its storage and its calls have their types in every
\* reachable state, and whoever is in progress works on a message.
THEOREM TypeCorrect == Spec => []TypeInv
  BY TypeInit, TypeStep, PTL DEF Spec

\* Every variable of the queue keeps its type.
THEOREM VariablesHaveTypes == Spec => []TypeOK
  BY TypeCorrect, PTL DEF TypeInv

-----------------------------------------------------------------------------
(* The slots and the calls that wait for one.                              *)

\* Adding an id to the running ones needs a free slot; freeing one never hurts.
LEMMA RunningFinite ==
    ASSUME TypeOK
    PROVE  IsFiniteSet(Running) /\ Cardinality(Running) \in Nat
<1>1. IsFiniteSet(Running)
  BY FiniteAssumption, FS_Subset DEF Running
<1> QED BY <1>1, FS_CardinalityType

LEMMA StartKeepsBound ==
    ASSUME TypeOK, HasFreeSlot, NEW c \in Calls, NEW id \in Ids, StartRevalidation(c, id)
    PROVE  OngoingBounded'
<1>1. Running' = Running \cup {id}
  BY DEF Running, StartRevalidation, TypeOK, Actors
<1>2. Cardinality(Running \cup {id}) \in {Cardinality(Running), Cardinality(Running) + 1}
  BY RunningFinite, FS_AddElement, Zenon
<1> QED BY <1>1, <1>2, RunningFinite DEF OngoingBounded, HasFreeSlot

LEMMA FewerKeepsBound ==
    ASSUME TypeOK, OngoingBounded, Running' \subseteq Running
    PROVE  OngoingBounded'
<1>1. IsFiniteSet(Running') /\ Cardinality(Running') <= Cardinality(Running)
  BY RunningFinite, FS_Subset
<1>2. Cardinality(Running') \in Nat
  BY <1>1, FS_CardinalityType
<1> QED BY <1>1, <1>2, RunningFinite DEF OngoingBounded

SlotInv == OngoingBounded /\ NoLeakedSlot /\ NoLostWakeup

\* With every slot taken there is a call to race, and it is executing.
LEMMA RaceHasRunner ==
    ASSUME TypeInv, SlotInv, ~HasFreeSlot, NEW c \in Calls, RaceOngoing(c)
    PROVE  /\ racing'[c] # {}
           /\ \A d \in racing'[c] : d \in Calls /\ phase[d] \in {"fetching", "addAlarm"}
<1>1. Running # {}
  BY RunningFinite, FS_EmptySet DEF HasFreeSlot
<1>2. racing'[c] = {ongoing[id] : id \in Running}
  BY DEF RaceOngoing, TypeInv, TypeOK
<1>3. \A id \in Running : ongoing[id] \in Calls /\ phase[ongoing[id]] \in {"fetching", "addAlarm"}
  BY DEF SlotInv, NoLeakedSlot, TypeInv, TypeOK, Running
<1>4. racing'[c] # {}
  <2>1. PICK id \in Ids : id \in Running
    BY <1>1 DEF Running
  <2>2. ongoing[id] \in racing'[c]
    BY <1>2, <2>1
  <2> QED BY <2>2
<1> QED BY <1>2, <1>3, <1>4

\* A step in which nobody leaves the phases a blocked call relies on.
LEMMA FreeSlotKeeps ==
    ASSUME TypeInv, SlotInv, NEW e \in Actors, phase[e] \in {"fetching", "addAlarm"},
           FreeSlot(e), UNCHANGED <<msg, racing>>
    PROVE  SlotInv'
<1>1. msg[e] \in Ids
  BY DEF TypeInv, HasMessage
<1>2. Running' \subseteq Running
  BY <1>1 DEF FreeSlot, Running, TypeInv, TypeOK
<1>3. OngoingBounded'
  BY <1>2, FewerKeepsBound DEF TypeInv, SlotInv
<1>4. NoLeakedSlot'
  <2> SUFFICES ASSUME NEW id \in Running'
               PROVE  /\ phase'[ongoing'[id]] \in {"fetching", "addAlarm"}
                      /\ msg'[ongoing'[id]] = id
    BY DEF NoLeakedSlot
  <2>1. id \in Running /\ ongoing'[id] = ongoing[id] /\ id # msg[e]
    BY <1>1, <1>2 DEF FreeSlot, Running, TypeInv, TypeOK
  <2>2. ongoing[id] # e /\ ongoing[id] \in Actors
    BY <2>1 DEF SlotInv, NoLeakedSlot, Running, Actors, TypeInv, TypeOK
  <2> QED BY <2>1, <2>2 DEF SlotInv, NoLeakedSlot, FreeSlot, TypeInv, TypeOK
<1>5. NoLostWakeup'
  BY DEF SlotInv, NoLostWakeup, FreeSlot, Busy, TypeInv, TypeOK, Actors
<1> QED BY <1>3, <1>4, <1>5 DEF SlotInv

LEMMA StartKeeps ==
    ASSUME TypeInv, SlotInv, HasFreeSlot, NEW c \in Calls, NEW id \in Ids,
           phase[c] \in {"idle", "blocked"}, StartRevalidation(c, id),
           msg' = [msg EXCEPT ![c] = id]
    PROVE  SlotInv'
<1>1. OngoingBounded'
  BY StartKeepsBound DEF TypeInv
<1>2. NoLeakedSlot'
  BY DEF SlotInv, NoLeakedSlot, StartRevalidation, Running, TypeInv, TypeOK, Actors
<1>3. NoLostWakeup'
  BY DEF SlotInv, NoLostWakeup, StartRevalidation, Busy, TypeInv, TypeOK, Actors
<1> QED BY <1>1, <1>2, <1>3 DEF SlotInv

LEMMA BlockKeeps ==
    ASSUME TypeInv, SlotInv, ~HasFreeSlot, NEW c \in Calls, NEW id \in Ids,
           phase[c] \in {"idle", "blocked"}, RaceOngoing(c),
           msg' = [msg EXCEPT ![c] = id]
    PROVE  SlotInv'
<1>1. OngoingBounded'
  BY FewerKeepsBound DEF TypeInv, SlotInv, RaceOngoing, Running
<1>2. NoLeakedSlot'
  BY DEF SlotInv, NoLeakedSlot, RaceOngoing, Running, TypeInv, TypeOK, Actors
<1>3. NoLostWakeup'
  <2> SUFFICES ASSUME NEW b \in Calls, phase'[b] = "blocked"
               PROVE  /\ racing'[b] # {}
                      /\ \A d \in racing'[b] : phase'[d] \in Busy \cup {"done"}
    BY DEF NoLostWakeup
  <2>1. CASE b = c
    BY <2>1, RaceHasRunner DEF RaceOngoing, Busy, TypeInv, TypeOK, Actors
  <2>2. CASE b # c
    BY <2>2 DEF RaceOngoing, Busy, SlotInv, NoLostWakeup, TypeInv, TypeOK, Actors
  <2> QED BY <2>1, <2>2
<1> QED BY <1>1, <1>2, <1>3 DEF SlotInv

\* A step that leaves the map, and only moves an actor that holds no slot.
LEMMA MoveKeeps ==
    ASSUME TypeInv, SlotInv, UNCHANGED <<ongoing, racing>>,
           NEW p \in Phases \ {"blocked"},
           NEW e \in Actors,
           e = AlarmHandler \/ (phase[e] \notin {"fetching", "addAlarm"} /\ p = "done"),
           phase' = [phase EXCEPT ![e] = p],
           NEW m \in Ids \cup {None}, msg' = [msg EXCEPT ![e] = m]
    PROVE  SlotInv'
<1>1. OngoingBounded'
  BY DEF SlotInv, OngoingBounded, Running
<1>2. NoLeakedSlot'
  BY DEF SlotInv, NoLeakedSlot, Running, TypeInv, TypeOK, Actors
<1>3. NoLostWakeup'
  BY DEF SlotInv, NoLostWakeup, Busy, TypeInv, TypeOK, Actors
<1> QED BY <1>1, <1>2, <1>3 DEF SlotInv

LEMMA LoseMemoryKeeps ==
    ASSUME TypeInv, LoseMemory
    PROVE  SlotInv'
<1>1. Running' = {}
  BY DEF LoseMemory, Running
<1>2. OngoingBounded'
  BY <1>1, FS_EmptySet DEF OngoingBounded
<1>3. \A c \in Calls : phase'[c] # "blocked"
  BY DEF LoseMemory, Actors
<1> QED BY <1>1, <1>2, <1>3 DEF SlotInv, NoLeakedSlot, NoLostWakeup

LEMMA SlotInit == Init => SlotInv
<1> SUFFICES ASSUME Init PROVE SlotInv
  OBVIOUS
<1>1. Running = {}
  BY DEF Init, Running
<1>2. OngoingBounded
  BY <1>1, FS_EmptySet DEF OngoingBounded
<1> QED BY <1>1, <1>2 DEF Init, SlotInv, NoLeakedSlot, NoLostWakeup, Actors

LEMMA SlotStep == TypeInv /\ SlotInv /\ [Next]_vars => SlotInv'
<1> SUFFICES ASSUME TypeInv, SlotInv, [Next]_vars PROVE SlotInv'
  OBVIOUS
<1>1. ASSUME NEW c \in Calls, NEW id \in Ids, Deduplicate(c, id) PROVE SlotInv'
  BY <1>1, MoveKeeps, "done" \in Phases \ {"blocked"}
     DEF Deduplicate, Arrives, memory, Actors, Phases
<1>2. ASSUME NEW c \in Calls, NEW id \in Ids, Start(c, id) PROVE SlotInv'
  BY <1>2, StartKeeps DEF Start, Arrives
<1>3. ASSUME NEW c \in Calls, NEW id \in Ids, Block(c, id) PROVE SlotInv'
  BY <1>3, BlockKeeps DEF Block, Arrives
<1>4. ASSUME NEW c \in Calls, Wake(c) PROVE SlotInv'
  <2>1. msg[c] \in Ids /\ phase[c] = "blocked" /\ msg' = [msg EXCEPT ![c] = msg[c]]
    BY <1>4 DEF Wake, Awake, TypeInv, TypeOK, HasMessage, Actors
  <2> QED BY <1>4, <2>1, StartKeeps, BlockKeeps DEF Wake
<1>5. ASSUME NEW c \in Calls, Settle(c) PROVE SlotInv'
  <2>1. msg' = [msg EXCEPT ![c] = msg[c]] /\ msg[c] \in Ids \cup {None}
    BY <1>5 DEF Settle, TypeInv, TypeOK, Actors
  <2> QED BY <1>5, <2>1, MoveKeeps, "done" \in Phases \ {"blocked"}
          DEF Settle, memory, Actors, Phases
<1>6. ASSUME NEW e \in Actors, Execute(e) PROVE SlotInv'
  <2>1. CASE Revalidated(e)
    BY <2>1, FreeSlotKeeps DEF Revalidated, Answered
  <2>2. CASE Dropped(e)
    BY <2>2, FreeSlotKeeps DEF Dropped, Answered
  <2>3. CASE GiveUp(e)
    BY <2>3, FreeSlotKeeps DEF GiveUp, Answered
  <2>4. CASE RecordFailure(e)
    <3>1. OngoingBounded'
      BY <2>4 DEF RecordFailure, SlotInv, OngoingBounded, Running
    <3>2. NoLeakedSlot'
      BY <2>4 DEF RecordFailure, SlotInv, NoLeakedSlot, Running, TypeInv, TypeOK, Actors
    <3>3. NoLostWakeup'
      BY <2>4 DEF RecordFailure, SlotInv, NoLostWakeup, Busy, TypeInv, TypeOK, Actors
    <3> QED BY <3>1, <3>2, <3>3 DEF SlotInv
  <2>5. CASE AddAlarm(e)
    BY <2>5, FreeSlotKeeps DEF AddAlarm
  <2> QED BY <1>6, <2>1, <2>2, <2>3, <2>4, <2>5 DEF Execute
<1>7. ASSUME NEW events \in SUBSET Ids, RetryNext(events), UNCHANGED <<ongoing, racing>>
      PROVE  SlotInv'
  BY <1>7, MoveKeeps, "fetching" \in Phases \ {"blocked"}, "idle" \in Phases \ {"blocked"}
     DEF RetryNext, Actors, Phases
<1>8. CASE FireAlarm
  <2>1. PICK next \in SUBSET NextEventToRetry : RetryNext(Expired \cup next)
    BY <1>8 DEF FireAlarm
  <2>2. Expired \cup next \in SUBSET Ids
    BY DEF Expired, NextEventToRetry
  <2>3. UNCHANGED <<ongoing, racing>>
    BY <1>8 DEF FireAlarm, memory
  <2> QED BY <1>7, <2>1, <2>2, <2>3, Zenon
<1>9. CASE NextRetry
  BY <1>7, <1>9 DEF NextRetry, memory, TypeInv, TypeOK
<1>10. CASE Crash \/ Deploy
  BY <1>10, LoseMemoryKeeps DEF Crash, Deploy
<1>11. CASE Construct \/ Tick \/ UNCHANGED vars
  <2>1. UNCHANGED <<ongoing, phase, msg, racing>>
    BY <1>11 DEF Construct, Tick, vars, memory, code
  <2> QED BY <2>1 DEF SlotInv, OngoingBounded, NoLeakedSlot, NoLostWakeup, Running
<1> QED
  BY <1>1, <1>2, <1>3, <1>4, <1>5, <1>6, <1>8, <1>9, <1>10, <1>11 DEF Next

-----------------------------------------------------------------------------
(* The map implements a pool of bounded size.                              *)

\* Entries that leave the map are tasks of the pool that end.
LEMMA FewerIsPoolStep ==
    ASSUME Running' \subseteq Running
    PROVE  [Pool!Next]_<<Running, MaxRevalidations>>
<1>1. CASE Running' = Running
  BY <1>1
<1>2. CASE Running' # Running
  <2> DEFINE ended == Running \ Running'
  <2>1. Running' = Running \ ended
    OBVIOUS
  <2>2. ended # {} /\ ended \in SUBSET Running
    BY <1>2
  <2>3. Pool!Finish(ended)
    BY <2>1, <2>2 DEF Pool!Finish
  <2> QED BY <2>2, <2>3 DEF Pool!Next
<1> QED BY <1>1, <1>2

\* A revalidation that starts is a task that does, unless its id had an entry,
\* which it overwrites.
LEMMA StartIsPoolStep ==
    ASSUME TypeOK, HasFreeSlot, NEW c \in Calls, NEW id \in Ids, StartRevalidation(c, id)
    PROVE  [Pool!Next]_<<Running, MaxRevalidations>>
<1>1. Running' = Running \cup {id}
  BY DEF Running, StartRevalidation, TypeOK, Actors
<1>2. CASE id \in Running
  BY <1>1, <1>2
<1>3. CASE id \notin Running
  <2>1. Pool!Cardinality(Running) = Cardinality(Running)
    BY DEF Pool!Cardinality, Cardinality
  <2> QED BY <1>1, <1>3, <2>1 DEF Pool!Start, Pool!Next, HasFreeSlot
<1> QED BY <1>2, <1>3

LEMMA FreeSlotIsPoolStep ==
    ASSUME TypeInv, NEW e \in Actors, phase[e] \in {"fetching", "addAlarm"}, FreeSlot(e)
    PROVE  [Pool!Next]_<<Running, MaxRevalidations>>
<1>1. Running' \subseteq Running
  BY DEF FreeSlot, Running, TypeInv, TypeOK, HasMessage
<1> QED BY <1>1, FewerIsPoolStep

LEMMA PoolStep == TypeInv /\ [Next]_vars => [Pool!Next]_<<Running, MaxRevalidations>>
<1> SUFFICES ASSUME TypeInv, [Next]_vars PROVE [Pool!Next]_<<Running, MaxRevalidations>>
  OBVIOUS
<1>1. ASSUME UNCHANGED ongoing PROVE [Pool!Next]_<<Running, MaxRevalidations>>
  BY <1>1 DEF Running
<1>2. ASSUME NEW c \in Calls, NEW id \in Ids, Start(c, id) PROVE [Pool!Next]_<<Running, MaxRevalidations>>
  BY <1>2, StartIsPoolStep DEF Start, TypeInv
<1>3. ASSUME NEW c \in Calls, Wake(c) PROVE [Pool!Next]_<<Running, MaxRevalidations>>
  <2>1. CASE HasFreeSlot
    <3>1. msg[c] \in Ids
      BY <1>3 DEF Wake, Awake, TypeInv, HasMessage, Actors
    <3> QED BY <1>3, <2>1, <3>1, StartIsPoolStep DEF Wake, TypeInv
  <2>2. CASE ~HasFreeSlot
    BY <1>1, <1>3, <2>2 DEF Wake, RaceOngoing
  <2> QED BY <2>1, <2>2
<1>4. ASSUME NEW e \in Actors, Execute(e) PROVE [Pool!Next]_<<Running, MaxRevalidations>>
  <2>1. CASE RecordFailure(e)
    BY <1>1, <2>1 DEF RecordFailure
  <2>2. CASE Revalidated(e) \/ Dropped(e) \/ GiveUp(e) \/ AddAlarm(e)
    <3>1. FreeSlot(e) /\ phase[e] \in {"fetching", "addAlarm"}
      BY <2>2 DEF Revalidated, Dropped, GiveUp, AddAlarm, Answered
    <3> QED BY <3>1, FreeSlotIsPoolStep
  <2> QED BY <1>4, <2>1, <2>2 DEF Execute
<1>5. CASE Crash \/ Deploy
  <2>1. Running' = {}
    BY <1>5 DEF Crash, Deploy, LoseMemory, Running
  <2> QED BY <2>1, FewerIsPoolStep
<1>6. ASSUME NEW c \in Calls, NEW id \in Ids, Deduplicate(c, id) \/ Block(c, id)
      PROVE  [Pool!Next]_<<Running, MaxRevalidations>>
  BY <1>1, <1>6 DEF Deduplicate, Block, RaceOngoing, memory
<1>7. ASSUME NEW c \in Calls, Settle(c) PROVE [Pool!Next]_<<Running, MaxRevalidations>>
  BY <1>1, <1>7 DEF Settle, memory
<1>8. CASE FireAlarm \/ NextRetry \/ Construct \/ Tick \/ UNCHANGED vars
  BY <1>1, <1>8 DEF FireAlarm, NextRetry, Construct, Tick, vars, memory
<1> QED BY <1>2, <1>3, <1>4, <1>5, <1>6, <1>7, <1>8 DEF Next

\* The map of ongoing revalidations, with the loop of revalidate(), implements
\* the pool: BoundedPool is its abstract specification.
THEOREM MapImplementsPool == Spec => PoolIsBounded
<1>1. Init => Pool!Init
  BY DEF Init, Pool!Init, Running
<1> QED BY <1>1, TypeCorrect, PoolStep, PTL DEF Spec, PoolIsBounded, Pool!Spec

\* revalidate() never lets the map grow past the configured maximum.
THEOREM OngoingStaysBounded == Spec => []OngoingBounded
<1>1. SlotInv => OngoingBounded
  BY DEF SlotInv
<1> QED BY <1>1, TypeInit, TypeStep, SlotInit, SlotStep, PTL DEF Spec

\* Every slot taken belongs to a call that still executes that message.
THEOREM SlotsAreFreed == Spec => []NoLeakedSlot
<1>1. SlotInv => NoLeakedSlot
  BY DEF SlotInv
<1> QED BY <1>1, TypeInit, TypeStep, SlotInit, SlotStep, PTL DEF Spec

\* A blocked call always races the promise of a call that executes or has ended.
THEOREM WakeupsAreKept == Spec => []NoLostWakeup
<1>1. SlotInv => NoLostWakeup
  BY DEF SlotInv
<1> QED BY <1>1, TypeInit, TypeStep, SlotInit, SlotStep, PTL DEF Spec

-----------------------------------------------------------------------------
(* The tables and the memory.                                              *)

NoRowsWhenDisabled ==
    DisableSQLite => /\ \A id \in Ids : failedRows[id] = None
                     /\ \A r \in Routes : syncRows[r] = None

\* The recorded second is the second in which the route last succeeded.
SyncRecorded ==
    \A r \in Routes : syncRows[r] # None => 1000 * syncRows[r].lastSuccess <= succeededAt[r]

\* As long as the object is down the rows hold what its memory lost.
LostPersisted ==
    ~up /\ ~DisableSQLite => \A id \in Ids : lost[id] # None =>
        failedRows[id] = [data |-> lost[id], buildId |-> buildId]

\* A restart restores what the rows hold, so they keep the budget too.
RowBudget ==
    \A id \in Ids : failedRows[id] # None =>
        failedRows[id].data.retryCount <= Max({1, MaxRetries})

StorageInv ==
    /\ FailedStatePersisted
    /\ LostPersisted
    /\ NoForeignRows
    /\ RetryBudget
    /\ NoRowsWhenDisabled
    /\ SyncRecorded
    /\ RowBudget

LEMMA BudgetIsMax ==
    Max({1, MaxRetries}) \in Nat /\ 1 <= Max({1, MaxRetries}) /\ MaxRetries <= Max({1, MaxRetries})
<1>1. \E m \in {1, MaxRetries} : \A n \in {1, MaxRetries} : m >= n
  BY 1 <= MaxRetries \/ MaxRetries <= 1
<1> QED BY <1>1 DEF Max

LEMMA NextFailedStateBudget ==
    ASSUME TypeOK, NEW id \in Ids, ~RetriesExhausted(id)
    PROVE  NextFailedState(id).retryCount <= Max({1, MaxRetries})
<1>1. CASE failed[id] = None
  BY <1>1, BudgetIsMax DEF NextFailedState
<1>2. CASE failed[id] # None
  <2>1. failed[id].retryCount \in Nat /\ failed[id].retryCount < MaxRetries
    BY <1>2 DEF RetriesExhausted, TypeOK, FailedState
  <2>2. NextFailedState(id).retryCount = failed[id].retryCount + 1
    BY <1>2 DEF NextFailedState
  <2> QED BY <2>1, <2>2, BudgetIsMax
<1> QED BY <1>1, <1>2

LEMMA StorageInit == Init => StorageInv
  BY DEF Init, NothingFailed, StorageInv, FailedStatePersisted, LostPersisted, NoForeignRows,
         RetryBudget, NoRowsWhenDisabled, SyncRecorded, RowBudget

LEMMA SameStorage ==
    ASSUME StorageInv, UNCHANGED <<up, buildId, lost, failed, storage>>
    PROVE  StorageInv'
<1> USE DEF StorageInv, storage
<1>1. FailedStatePersisted' /\ LostPersisted'
  BY DEF FailedStatePersisted, LostPersisted
<1>2. NoForeignRows'
  BY DEF NoForeignRows
<1>3. RetryBudget'
  BY DEF RetryBudget
<1>4. NoRowsWhenDisabled'
  BY DEF NoRowsWhenDisabled
<1>5. SyncRecorded'
  BY DEF SyncRecorded
<1>6. RowBudget'
  BY DEF RowBudget
<1> QED BY <1>1, <1>2, <1>3, <1>4, <1>5, <1>6

\* Forgetting a failure keeps what is said of the remaining ones.
LEMMA ForgetKeeps ==
    ASSUME TypeOK, StorageInv, NEW id \in Ids, ForgetFailure(id), UNCHANGED <<buildId, failedRows>>
    PROVE  FailedStatePersisted' /\ RetryBudget' /\ RowBudget'
  BY DEF TypeOK, StorageInv, ForgetFailure, FailedStatePersisted, RetryBudget, RowBudget

LEMMA StorageStep == TypeInv /\ StorageInv /\ [Next]_vars => StorageInv'
<1> SUFFICES ASSUME TypeInv, StorageInv, [Next]_vars PROVE StorageInv'
  OBVIOUS
<1>1. ASSUME NEW c \in Calls, NEW id \in Ids,
             Deduplicate(c, id) \/ Start(c, id) \/ Block(c, id)
      PROVE  StorageInv'
  <2>1. UNCHANGED <<up, buildId, lost, failed, storage>>
    BY <1>1 DEF Deduplicate, Start, Block, world, memory
  <2> QED BY <2>1, SameStorage
<1>2. ASSUME NEW c \in Calls, Wake(c) \/ Settle(c) PROVE StorageInv'
  <2>1. UNCHANGED <<up, buildId, lost, failed, storage>>
    BY <1>2 DEF Wake, Settle, world, memory
  <2> QED BY <2>1, SameStorage
<1>3. ASSUME NEW e \in Actors, Answered(e) PROVE msg[e] \in Ids /\ up
  BY <1>3 DEF Answered, Quiescent, TypeInv, HasMessage
<1>4. ASSUME NEW e \in Actors, Revalidated(e) PROVE StorageInv'
  <2>1. msg[e] \in Ids /\ up
    BY <1>3, <1>4 DEF Revalidated
  <2>2. FailedStatePersisted' /\ RetryBudget' /\ RowBudget'
    BY <1>4, <2>1, ForgetKeeps DEF Revalidated, world, TypeInv
  <2>0. LostPersisted'
    BY <1>4, <2>1 DEF Revalidated, world, LostPersisted
  <2>3. NoForeignRows' /\ NoRowsWhenDisabled'
    BY <1>4, <2>1 DEF Revalidated, UpsertSync, world, TypeInv, TypeOK, StorageInv,
                      NoForeignRows, NoRowsWhenDisabled
  <2>4. SyncRecorded'
    <3>1. UnixEpoch \in Nat /\ 1000 * UnixEpoch <= now
      BY Truncated DEF UnixEpoch, TypeInv, TypeOK
    <3> QED BY <1>4, <2>1, <3>1 DEF Revalidated, UpsertSync, TypeInv, TypeOK, StorageInv, SyncRecorded
  <2> QED BY <2>0, <2>2, <2>3, <2>4 DEF StorageInv
<1>5. ASSUME NEW e \in Actors, Dropped(e) \/ GiveUp(e) PROVE StorageInv'
  <2>1. up /\ msg[e] \in Ids /\ ForgetFailure(msg[e]) /\ UNCHANGED <<up, buildId, storage>>
    BY <1>3, <1>5 DEF Dropped, GiveUp, world
  <2>2. FailedStatePersisted' /\ RetryBudget' /\ RowBudget'
    BY <2>1, ForgetKeeps DEF storage, TypeInv
  <2>3. LostPersisted' /\ NoForeignRows' /\ NoRowsWhenDisabled' /\ SyncRecorded'
    BY <2>1 DEF storage, StorageInv, LostPersisted, NoForeignRows, NoRowsWhenDisabled, SyncRecorded
  <2> QED BY <2>2, <2>3 DEF StorageInv
<1>6. ASSUME NEW e \in Actors, RecordFailure(e) PROVE StorageInv'
  <2> DEFINE id == msg[e]
             next == NextFailedState(id)
  <2>1. id \in Ids /\ up
    BY <1>3, <1>6 DEF RecordFailure
  <2>2. next \in FailedState /\ next.retryCount <= Max({1, MaxRetries})
    BY <1>6, <2>1, NextFailedStateType, NextFailedStateBudget DEF RecordFailure, TypeInv
  <2>3. /\ failed' = [failed EXCEPT ![id] = next]
        /\ failedRows' = IF DisableSQLite THEN failedRows
                         ELSE [failedRows EXCEPT ![id] = [data |-> next, buildId |-> buildId]]
        /\ UNCHANGED <<up, buildId, syncRows, succeededAt>>
    BY <1>6 DEF RecordFailure, UpsertFailed, world
  <2> HIDE DEF id, next
  <2>4. FailedStatePersisted' /\ LostPersisted'
    BY <2>1, <2>2, <2>3 DEF StorageInv, FailedStatePersisted, LostPersisted, TypeInv, TypeOK
  <2>5. RetryBudget' /\ RowBudget'
    BY <2>1, <2>2, <2>3 DEF StorageInv, RetryBudget, RowBudget, TypeInv, TypeOK
  <2>6. NoForeignRows' /\ NoRowsWhenDisabled' /\ SyncRecorded'
    BY <2>1, <2>3 DEF StorageInv, NoForeignRows, NoRowsWhenDisabled, SyncRecorded, TypeInv, TypeOK
  <2> QED BY <2>4, <2>5, <2>6 DEF StorageInv
<1>7. ASSUME NEW e \in Actors, AddAlarm(e) PROVE StorageInv'
  <2>1. UNCHANGED <<up, buildId, lost, failed, storage>>
    BY <1>7 DEF AddAlarm, world
  <2> QED BY <2>1, SameStorage
<1>8. CASE FireAlarm \/ NextRetry \/ Tick \/ UNCHANGED vars
  <2>1. UNCHANGED <<up, buildId, lost, failed, storage>>
    BY <1>8 DEF FireAlarm, NextRetry, Tick, vars, world, memory
  <2> QED BY <2>1, SameStorage
<1>9. CASE Crash \/ Deploy
  <2>1. /\ ~up'
        /\ \A id \in Ids : failed'[id] = None
        /\ UNCHANGED <<failedRows, syncRows, succeededAt>>
    BY <1>9 DEF Crash, Deploy, LoseMemory, NothingFailed, storage
  <2>2. FailedStatePersisted' /\ NoForeignRows' /\ RetryBudget'
    BY <2>1 DEF FailedStatePersisted, NoForeignRows, RetryBudget
  <2>5. LostPersisted'
    <3>1. CASE Crash
      BY <2>1, <3>1 DEF Crash, StorageInv, FailedStatePersisted, LostPersisted
    <3>2. CASE Deploy
      BY <3>2 DEF Deploy, NothingFailed, LostPersisted
    <3> QED BY <1>9, <3>1, <3>2
  <2>3. NoRowsWhenDisabled' /\ SyncRecorded'
    BY <2>1 DEF StorageInv, NoRowsWhenDisabled, SyncRecorded
  <2>4. RowBudget'
    BY <2>1 DEF StorageInv, RowBudget
  <2> QED BY <2>2, <2>3, <2>4, <2>5 DEF StorageInv
<1>10. CASE Construct
  <2>0. LostPersisted'
    BY <1>10 DEF Construct, LostPersisted
  <2>1. CASE DisableSQLite
    <3>1. UNCHANGED <<failed, failedRows, syncRows, succeededAt>>
      BY <1>10, <2>1 DEF Construct
    <3>2. NoForeignRows' /\ NoRowsWhenDisabled' /\ FailedStatePersisted'
      BY <2>1, <3>1 DEF StorageInv, NoForeignRows, NoRowsWhenDisabled, FailedStatePersisted
    <3>3. RetryBudget' /\ RowBudget'
      BY <3>1 DEF StorageInv, RetryBudget, RowBudget
    <3>4. SyncRecorded'
      BY <3>1 DEF StorageInv, SyncRecorded
    <3> QED BY <2>0, <3>2, <3>3, <3>4 DEF StorageInv
  <2>2. CASE ~DisableSQLite
    <3>1. /\ failedRows' = OfThisBuild(failedRows)
          /\ syncRows' = OfThisBuild(syncRows)
          /\ failed' = RestoredFailures(failedRows')
          /\ UNCHANGED <<buildId, succeededAt>>
      BY <1>10, <2>2 DEF Construct
    <3>2. \A id \in Ids : failedRows'[id] # None =>
            failedRows'[id] = failedRows[id] /\ failedRows[id].buildId = buildId
      BY <3>1 DEF OfThisBuild, TypeInv, TypeOK
    <3>3. \A r \in Routes : syncRows'[r] # None =>
            syncRows'[r] = syncRows[r] /\ syncRows[r].buildId = buildId
      BY <3>1 DEF OfThisBuild, TypeInv, TypeOK
    <3>4. \A id \in Ids : failed'[id] # None =>
            failedRows'[id] # None /\ failed'[id] = failedRows'[id].data
      BY <3>1 DEF RestoredFailures
    <3>5. FailedStatePersisted'
      <4> SUFFICES ASSUME NEW id \in Ids, failed'[id] # None
                   PROVE  failedRows'[id] = [data |-> failed'[id], buildId |-> buildId']
        BY DEF FailedStatePersisted
      <4>1. failedRows'[id] \in FailedRow
        BY <3>2, <3>4 DEF TypeInv, TypeOK
      <4> QED BY <3>1, <3>2, <3>4, <4>1 DEF FailedRow
    <3>6. RetryBudget' /\ RowBudget'
      BY <3>2, <3>4 DEF StorageInv, RetryBudget, RowBudget
    <3>7. NoForeignRows' /\ SyncRecorded' /\ NoRowsWhenDisabled'
      BY <2>2, <3>1, <3>2, <3>3 DEF StorageInv, NoForeignRows, SyncRecorded, NoRowsWhenDisabled
    <3> QED BY <2>0, <3>5, <3>6, <3>7 DEF StorageInv
  <2> QED BY <2>1, <2>2
<1> QED
  BY <1>1, <1>2, <1>4, <1>5, <1>6, <1>7, <1>8, <1>9, <1>10 DEF Next, Execute

LEMMA StorageInvariant == Spec => [](TypeInv /\ StorageInv)
  BY TypeInit, TypeStep, StorageInit, StorageStep, PTL DEF Spec

\* A restart finds every failure the memory knew, in its latest form.
THEOREM FailuresArePersisted == Spec => []FailedStatePersisted
<1>1. StorageInv => FailedStatePersisted
  BY DEF StorageInv
<1> QED BY <1>1, StorageInvariant, PTL

\* Rows of other builds are gone before anything reads the tables.
THEOREM RowsAreOfThisBuild == Spec => []NoForeignRows
<1>1. StorageInv => NoForeignRows
  BY DEF StorageInv
<1> QED BY <1>1, StorageInvariant, PTL

\* initState() restores all that the memory lost and nothing of another build.
LEMMA ConstructRestores ==
    ASSUME TypeInv, StorageInv, Construct, ~DisableSQLite
    PROVE  Restores
<1>1. /\ ~up
      /\ failedRows' = OfThisBuild(failedRows)
      /\ failed' = RestoredFailures(failedRows')
      /\ alarm' = AlarmFor(failed')
  BY DEF Construct
<1>2. /\ failedRows' \in [Ids -> FailedRow \cup {None}]
      /\ failed' \in [Ids -> FailedState \cup {None}]
  BY TypeStep DEF Next, TypeInv, TypeOK
<1>3. \A id \in Ids : failedRows'[id] =
        IF failedRows[id] # None /\ failedRows[id].buildId = buildId THEN failedRows[id] ELSE None
  BY <1>1 DEF OfThisBuild, TypeInv, TypeOK
<1>4. \A id \in Ids : failed'[id] = IF failedRows'[id] = None THEN None ELSE failedRows'[id].data
  BY <1>1 DEF RestoredFailures
<1>5. ASSUME NEW id \in Ids, lost[id] # None PROVE failed'[id] = lost[id]
  <2>1. failedRows[id] = [data |-> lost[id], buildId |-> buildId]
    BY <1>1, <1>5 DEF StorageInv, LostPersisted
  <2>2. failedRows[id] # None
    BY <1>5, <2>1 DEF TypeInv, TypeOK, FailedRow
  <2> QED BY <1>3, <1>4, <2>1, <2>2
<1>6. ASSUME NEW id \in Ids, failed'[id] # None
      PROVE  failedRows[id] = [data |-> failed'[id], buildId |-> buildId]
  <2>1. failedRows[id] \in FailedRow /\ failedRows[id].buildId = buildId
    BY <1>3, <1>4, <1>6 DEF TypeInv, TypeOK
  <2> QED BY <1>3, <1>4, <1>6, <2>1 DEF FailedRow
<1>7. ASSUME failed' # NothingFailed PROVE alarm' # None
  <2>1. \E id \in Ids : failed'[id] # None
    BY <1>2, <1>7 DEF NothingFailed
  <2> QED BY <1>1, <1>2, <2>1, AlarmForType DEF TypeInv
<1> QED BY <1>5, <1>6, <1>7 DEF Restores

\* No crash loses a failed route and no deployment brings one along: the object that is
\* constructed has again what its memory held, in its latest form and with an alarm.
THEOREM StateIsRestored == Spec => RestoredState
<1> DEFINE Good == /\ ~up /\ up' /\ ~DisableSQLite => Restores
                   /\ NoForeignRows'
<1>1. TypeInv /\ StorageInv /\ StorageInv' /\ [Next]_vars => [Good]_vars
  <2> SUFFICES ASSUME TypeInv, StorageInv, StorageInv', Next, ~up, up', ~DisableSQLite
               PROVE  Restores
    BY DEF StorageInv
  <2>1. CASE Construct
    BY <2>1, ConstructRestores
  <2>2. CASE Crash \/ Deploy
    BY <2>2 DEF Crash, Deploy, LoseMemory
  <2>3. CASE Tick
    BY <2>3 DEF Tick
  <2>4. ASSUME UNCHANGED world PROVE FALSE
    BY <2>4 DEF world
  <2> QED
    BY <2>1, <2>2, <2>3, <2>4 DEF Next, Execute, Deduplicate, Start, Block, Wake, Settle,
       Revalidated, Dropped, GiveUp, RecordFailure, AddAlarm, FireAlarm, NextRetry
<1> HIDE DEF Good
<1>2. Spec => [][Good]_vars
  BY <1>1, StorageInvariant, PTL DEF Spec
<1> QED BY <1>2 DEF RestoredState, Good

\* No id is counted past its retries, across restarts.
THEOREM RetriesStayInBudget == Spec => []RetryBudget
<1>1. StorageInv => RetryBudget
  BY DEF StorageInv
<1> QED BY <1>1, StorageInvariant, PTL

\* The sync table drops no message about an entry fresher than the last success.
THEOREM SyncIsSafe == Spec => []SyncDropsOnlyOlder
<1>1. TypeInv /\ StorageInv => SyncDropsOnlyOlder
  <2> SUFFICES ASSUME TypeInv, StorageInv, NEW id \in Ids, SyncedSince(id)
               PROVE  LastModified[id] + 500 <= succeededAt[RouteOf[id]]
    BY DEF SyncDropsOnlyOlder
  <2> DEFINE r == RouteOf[id]
  <2>1. r \in Routes /\ syncRows[r] # None /\ syncRows[r] \in SyncRow
    BY DEF SyncedSince, TypeInv, TypeOK
  <2>2. syncRows[r].lastSuccess \in Nat /\ succeededAt[r] \in Nat /\ LastModified[id] \in Nat
    BY <2>1 DEF SyncRow, TypeInv, TypeOK
  <2>3. 1000 * syncRows[r].lastSuccess <= succeededAt[r]
    BY <2>1 DEF StorageInv, SyncRecorded
  <2>4. syncRows[r].lastSuccess > RoundToSeconds(LastModified[id])
    BY DEF SyncedSince
  <2> DEFINE s == syncRows[r].lastSuccess
             t == succeededAt[r]
             ms == LastModified[id]
  <2>5. s \in Nat /\ t \in Nat /\ ms \in Nat /\ s > RoundToSeconds(ms) /\ 1000 * s <= t
    BY <2>2, <2>3, <2>4
  <2>6. ms + 500 <= t
    <3> HIDE DEF s, t, ms
    <3> QED BY <2>5, RoundedBelowTruncated
  <2> QED BY <2>6
<1> QED BY <1>1, StorageInvariant, PTL

-----------------------------------------------------------------------------
(* The alarm.                                                              *)

\* No step sets an alarm in the past.
THEOREM AlarmsAreAhead == Spec => AlarmNotInPast
<1>1. TypeInv /\ TypeInv' /\ [Next]_vars => [alarm' \notin {alarm, None} => alarm' >= now]_vars
  <2> SUFFICES ASSUME TypeInv, TypeInv', [Next]_vars, alarm' \notin {alarm, None}
               PROVE  alarm' >= now
    BY DEF vars
  <2>1. CASE \E e \in Actors : AddAlarm(e)
    BY <2>1, AlarmForType DEF AddAlarm, TypeInv, TypeOK
  <2>2. CASE Construct
    BY <2>2, AlarmForType DEF Construct, TypeInv, TypeOK
  <2>3. CASE Crash \/ Deploy
    BY <2>3 DEF Crash, Deploy, LoseMemory, TypeInv, TypeOK
  <2>4. CASE UNCHANGED alarm \/ alarm' = None
    BY <2>4
  <2> QED BY <2>1, <2>2, <2>3, <2>4
       DEF Next, Execute, Deduplicate, Start, Block, Wake, Settle, Revalidated, Dropped, GiveUp,
           RecordFailure, FireAlarm, NextRetry, Tick, vars
<1> QED BY <1>1, TypeCorrect, PTL DEF Spec, AlarmNotInPast
-----------------------------------------------------------------------------
(* What EveryRunEnds says but for fairness: no loop of the code spins.     *)

\* The way that is left to a call, or to the current event of the alarm handler.
Ahead(a) ==
    CASE phase[a] = "idle" -> 5
      [] phase[a] = "blocked" -> 4
      [] phase[a] = "fetching" -> 3
      [] phase[a] = "addAlarm" -> 2
      [] phase[a] = "cancelling" -> 1
      [] OTHER -> 0

\* The calls that a blocked call may still be woken by: those it races, and those
\* whose promises, not settled yet, it may race later.
MayWake(c) == racing[c] \cup {d \in Calls : phase[d] # "done"}

\* A call moves on, or has fewer calls left to be woken by.
CallAdvances(c) ==
    /\ MayWake(c)' \subseteq MayWake(c)
    /\ \/ phase'[c] = phase[c] /\ (phase[c] = "blocked" => racing'[c] = racing[c])
       \/ Ahead(c)' < Ahead(c)
       \/ phase[c] = "blocked" /\ phase'[c] = "blocked" /\ MayWake(c)' # MayWake(c)

\* The alarm handler moves on with its event, goes to the next one, or ends.
HandlerAdvances ==
    phase[AlarmHandler] # "idle" =>
        \/ phase'[AlarmHandler] = "idle"
        \/ UNCHANGED <<phase[AlarmHandler], todo>>
        \/ todo' = todo /\ Ahead(AlarmHandler)' < Ahead(AlarmHandler)
        \/ todo' \subseteq todo /\ todo' # todo

\* Steps that move one actor on and leave the races alone.
LEMMA MoveAdvances ==
    ASSUME TypeInv, UNCHANGED racing, NEW a \in Actors, NEW p \in Phases \ {"idle", "blocked"},
           phase[a] # "done", phase[a] # p, phase' = [phase EXCEPT ![a] = p],
           \/ phase[a] \in {"idle", "blocked"}
           \/ phase[a] = "fetching" /\ p \in {"addAlarm", "cancelling"}
           \/ phase[a] = "addAlarm" /\ p = "cancelling"
           \/ p = "done",
           phase[AlarmHandler] # "idle" => todo' = todo
    PROVE  (\A c \in Calls : CallAdvances(c)) /\ HandlerAdvances
<1>t. phase \in [Actors -> Phases] /\ AlarmHandler \in Actors /\ Calls \subseteq Actors
  BY DEF TypeInv, TypeOK, Actors
<1>1. Ahead(a)' < Ahead(a)
  BY <1>t DEF Ahead, Phases
<1>2. \A b \in Actors : b # a => phase'[b] = phase[b]
  BY <1>t
<1>3. \A c \in Calls : MayWake(c)' \subseteq MayWake(c)
  BY <1>t, <1>2 DEF MayWake
<1>4. \A c \in Calls : CallAdvances(c)
  BY <1>t, <1>1, <1>2, <1>3 DEF CallAdvances
<1>5. HandlerAdvances
  BY <1>t, <1>1, <1>2 DEF HandlerAdvances
<1> QED BY <1>4, <1>5

\* A call that blocks, again or for the first time, races none that has settled.
LEMMA RaceAdvances ==
    ASSUME TypeInv, SlotInv, ~HasFreeSlot, NEW c \in Calls, RaceOngoing(c), UNCHANGED todo,
           phase[c] = "idle" \/ Awake(c)
    PROVE  (\A b \in Calls : CallAdvances(b)) /\ HandlerAdvances
<1>t. /\ phase \in [Actors -> Phases] /\ AlarmHandler \in Actors \ Calls /\ Calls \subseteq Actors
      /\ racing \in [Calls -> SUBSET Calls]
  BY DEF TypeInv, TypeOK, Actors
<1>1. /\ phase' = [phase EXCEPT ![c] = "blocked"]
      /\ \A b \in Calls : b # c => racing'[b] = racing[b]
      /\ \A d \in racing'[c] : d \in Calls /\ phase[d] \in {"fetching", "addAlarm"}
  BY <1>t, RaceHasRunner DEF RaceOngoing
<1>2. \A d \in Calls : phase'[d] = "done" <=> phase[d] = "done"
  BY <1>t, <1>1 DEF Awake
<1>3. MayWake(c)' = {d \in Calls : phase[d] # "done"}
  BY <1>1, <1>2 DEF MayWake
<1>4. \A b \in Calls : b # c => MayWake(b)' = MayWake(b) /\ phase'[b] = phase[b]
  BY <1>t, <1>1, <1>2 DEF MayWake
<1>5. CallAdvances(c)
  <2>1. CASE phase[c] = "idle"
    <3>1. Ahead(c)' < Ahead(c)
      BY <1>t, <1>1, <2>1 DEF Ahead
    <3> QED BY <1>3, <3>1 DEF CallAdvances, MayWake
  <2>2. CASE Awake(c)
    <3>1. PICK d \in racing[c] : phase[d] = "done"
      BY <2>2 DEF Awake
    <3>2. d \in MayWake(c) /\ d \notin MayWake(c)'
      BY <1>3, <3>1 DEF MayWake
    <3>3. phase[c] = "blocked" /\ phase'[c] = "blocked"
      BY <1>t, <1>1, <2>2 DEF Awake
    <3> QED BY <1>3, <3>2, <3>3 DEF CallAdvances, MayWake
  <2> QED BY <2>1, <2>2
<1>6. \A b \in Calls : b # c => CallAdvances(b)
  BY <1>1, <1>4 DEF CallAdvances
<1>7. HandlerAdvances
  BY <1>t, <1>1 DEF HandlerAdvances
<1> QED BY <1>5, <1>6, <1>7

\* A call that starts, at once or after it was blocked.
LEMMA StartAdvances ==
    ASSUME TypeInv, NEW c \in Calls, NEW id \in Ids, StartRevalidation(c, id), UNCHANGED todo,
           phase[c] = "idle" \/ Awake(c)
    PROVE  (\A b \in Calls : CallAdvances(b)) /\ HandlerAdvances
<1>t. /\ phase \in [Actors -> Phases] /\ AlarmHandler \in Actors \ Calls /\ Calls \subseteq Actors
      /\ racing \in [Calls -> SUBSET Calls]
  BY DEF TypeInv, TypeOK, Actors
<1>1. /\ phase' = [phase EXCEPT ![c] = "fetching"]
      /\ racing' = [racing EXCEPT ![c] = {}]
      /\ phase[c] \in {"idle", "blocked"}
  BY DEF StartRevalidation, Awake
<1>2. \A d \in Calls : phase'[d] = "done" <=> phase[d] = "done"
  BY <1>t, <1>1
<1>3. \A b \in Calls : racing'[b] \subseteq racing[b]
  BY <1>t, <1>1
<1>4. \A b \in Calls : MayWake(b)' \subseteq MayWake(b)
  BY <1>2, <1>3 DEF MayWake
<1>5. Ahead(c)' < Ahead(c)
  BY <1>t, <1>1 DEF Ahead
<1>6. \A b \in Calls : b # c => UNCHANGED <<phase[b], racing[b]>>
  BY <1>t, <1>1
<1>7. HandlerAdvances
  BY <1>t, <1>1 DEF HandlerAdvances
<1> QED BY <1>4, <1>5, <1>6, <1>7 DEF CallAdvances

\* A step of the loop of alarm(), which has not begun or has executed an event.
LEMMA RetryAdvances ==
    ASSUME TypeInv, UNCHANGED racing, NEW events \in SUBSET Ids, RetryNext(events),
           phase[AlarmHandler] = "idle" \/ events = todo
    PROVE  (\A c \in Calls : CallAdvances(c)) /\ HandlerAdvances
<1>t. phase \in [Actors -> Phases] /\ AlarmHandler \in Actors \ Calls /\ Calls \subseteq Actors
  BY DEF TypeInv, TypeOK, Actors
<1>1. \A c \in Calls : phase'[c] = phase[c]
  BY <1>t DEF RetryNext
<1>2. \/ phase'[AlarmHandler] = "idle"
      \/ \E id \in events : todo' = events \ {id}
  BY <1>t DEF RetryNext
<1>3. HandlerAdvances
  BY <1>2 DEF HandlerAdvances
<1> QED BY <1>1, <1>3 DEF CallAdvances, MayWake

\* The end of the object is the end of what it was doing.
LEMMA LoseMemoryAdvances ==
    ASSUME TypeInv, LoseMemory
    PROVE  (\A c \in Calls : CallAdvances(c)) /\ HandlerAdvances
<1>t. phase \in [Actors -> Phases] /\ AlarmHandler \in Actors \ Calls /\ Calls \subseteq Actors
  BY DEF TypeInv, TypeOK, Actors
<1>1. /\ \A c \in Calls : phase'[c] = IF phase[c] = "idle" THEN "idle" ELSE "done"
      /\ phase'[AlarmHandler] = "idle" /\ \A c \in Calls : racing'[c] = {}
  BY <1>t DEF LoseMemory
<1>2. \A c \in Calls : MayWake(c)' \subseteq MayWake(c)
  BY <1>1 DEF MayWake
<1>3. ASSUME NEW c \in Calls PROVE CallAdvances(c)
  BY <1>t, <1>1, <1>2 DEF CallAdvances, Ahead, Phases
<1> QED BY <1>1, <1>3 DEF HandlerAdvances

\* Neither loop spins: a blocked call that finds the map full again has one call less to
\* be woken by, whoever took the slot meanwhile, and a call that has begun only goes on;
\* alarm() executes each of its events once, and a crash or deployment ends both.
THEOREM RunsAdvance ==
    Spec => [][(\A c \in Calls : CallAdvances(c)) /\ HandlerAdvances]_vars
<1>1. TypeInv /\ SlotInv /\ [Next]_vars => [(\A c \in Calls : CallAdvances(c)) /\ HandlerAdvances]_vars
  <2> SUFFICES ASSUME TypeInv, SlotInv, Next
               PROVE  (\A c \in Calls : CallAdvances(c)) /\ HandlerAdvances
    OBVIOUS
  <2>1. ASSUME NEW c \in Calls, NEW id \in Ids, Deduplicate(c, id)
        PROVE  (\A b \in Calls : CallAdvances(b)) /\ HandlerAdvances
    <3>1. /\ phase[c] = "idle" /\ phase' = [phase EXCEPT ![c] = "done"]
          /\ UNCHANGED <<racing, todo>>
      BY <2>1 DEF Deduplicate, Arrives
    <3> QED BY <3>1, MoveAdvances DEF Actors, Phases
  <2>2. ASSUME NEW c \in Calls, NEW id \in Ids, Start(c, id)
        PROVE  (\A b \in Calls : CallAdvances(b)) /\ HandlerAdvances
    BY <2>2, StartAdvances DEF Start, Arrives
  <2>3. ASSUME NEW c \in Calls, NEW id \in Ids, Block(c, id)
        PROVE  (\A b \in Calls : CallAdvances(b)) /\ HandlerAdvances
    BY <2>3, RaceAdvances DEF Block, Arrives
  <2>4. ASSUME NEW c \in Calls, Wake(c)
        PROVE  (\A b \in Calls : CallAdvances(b)) /\ HandlerAdvances
    <3>1. msg[c] \in Ids
      BY <2>4 DEF Wake, Awake, TypeInv, HasMessage, Actors
    <3> QED BY <2>4, <3>1, StartAdvances, RaceAdvances DEF Wake
  <2>5. ASSUME NEW c \in Calls, Settle(c)
        PROVE  (\A b \in Calls : CallAdvances(b)) /\ HandlerAdvances
    <3>1. /\ phase[c] = "cancelling" /\ phase' = [phase EXCEPT ![c] = "done"]
          /\ UNCHANGED <<racing, todo>>
      BY <2>5 DEF Settle
    <3> QED BY <3>1, MoveAdvances DEF Actors, Phases
  <2>6. ASSUME NEW e \in Actors, Execute(e)
        PROVE  (\A b \in Calls : CallAdvances(b)) /\ HandlerAdvances
    <3>1. CASE Revalidated(e) \/ Dropped(e) \/ GiveUp(e)
      <4>1. /\ phase[e] = "fetching" /\ phase' = [phase EXCEPT ![e] = "cancelling"]
            /\ UNCHANGED <<racing, todo>>
        BY <3>1 DEF Revalidated, Dropped, GiveUp, Answered, FreeSlot
      <4> QED BY <4>1, MoveAdvances DEF Phases
    <3>2. CASE RecordFailure(e)
      <4>1. /\ phase[e] = "fetching" /\ phase' = [phase EXCEPT ![e] = "addAlarm"]
            /\ UNCHANGED <<racing, todo>>
        BY <3>2 DEF RecordFailure, Answered
      <4> QED BY <4>1, MoveAdvances DEF Phases
    <3>3. CASE AddAlarm(e)
      <4>1. /\ phase[e] = "addAlarm" /\ phase' = [phase EXCEPT ![e] = "cancelling"]
            /\ UNCHANGED <<racing, todo>>
        BY <3>3 DEF AddAlarm, FreeSlot
      <4> QED BY <4>1, MoveAdvances DEF Phases
    <3> QED BY <2>6, <3>1, <3>2, <3>3 DEF Execute
  <2>7. CASE FireAlarm
    <3>1. PICK next \in SUBSET NextEventToRetry : RetryNext(Expired \cup next)
      BY <2>7 DEF FireAlarm
    <3>2. Expired \cup next \in SUBSET Ids
      BY DEF Expired, NextEventToRetry
    <3>3. phase[AlarmHandler] = "idle" /\ UNCHANGED racing
      BY <2>7 DEF FireAlarm
    <3> QED BY <3>1, <3>2, <3>3, RetryAdvances
  <2>8. CASE NextRetry
    <3>1. todo \in SUBSET Ids
      BY DEF TypeInv, TypeOK
    <3> QED BY <2>8, <3>1, RetryAdvances DEF NextRetry
  <2>9. CASE Crash \/ Deploy
    BY <2>9, LoseMemoryAdvances DEF Crash, Deploy
  <2>10. CASE Construct \/ Tick
    <3>1. UNCHANGED <<phase, racing, todo>>
      BY <2>10 DEF Construct, Tick, code
    <3> QED BY <3>1 DEF CallAdvances, HandlerAdvances, MayWake
  <2> QED
    BY <2>1, <2>2, <2>3, <2>4, <2>5, <2>6, <2>7, <2>8, <2>9, <2>10 DEF Next
<1> QED BY <1>1, TypeInit, TypeStep, SlotInit, SlotStep, PTL DEF Spec

\* Who is in progress is so in an object that is in memory, and somebody can go on: an
\* answer or a cancelled body may be delivered, or a continuation is due.
GoesOn ==
    (\E a \in Actors : phase[a] \notin {"idle", "done"}) =>
        /\ up
        /\ \/ \E a \in Actors : phase[a] = "addAlarm"
           \/ \E c \in Calls : Awake(c)
           \/ Quiescent /\ \E a \in Actors : phase[a] \in {"fetching", "cancelling"}

OnlyWhenUp == ~up => \A a \in Actors : phase[a] \in {"idle", "done"}

\* alarm() never waits for a slot.
NeverBlocks == phase[AlarmHandler] # "blocked"

LEMMA OnlyWhenUpStep == TypeInv /\ OnlyWhenUp /\ [Next]_vars => OnlyWhenUp'
<1> SUFFICES ASSUME TypeInv, OnlyWhenUp, [Next]_vars PROVE OnlyWhenUp'
  OBVIOUS
<1>1. CASE Crash \/ Deploy
  <2>1. LoseMemory
    BY <1>1 DEF Crash, Deploy
  <2> QED BY <2>1, LoseMemoryType DEF TypeInv, OnlyWhenUp
<1>2. CASE up' = up /\ (up \/ UNCHANGED phase)
  BY <1>2 DEF OnlyWhenUp
<1>3. CASE Construct
  BY <1>3 DEF Construct, OnlyWhenUp
<1>4. CASE \/ \E c \in Calls, id \in Ids : Deduplicate(c, id) \/ Start(c, id) \/ Block(c, id)
           \/ \E c \in Calls : Wake(c) \/ Settle(c)
           \/ FireAlarm \/ NextRetry
  BY <1>2, <1>4 DEF Deduplicate, Start, Block, Wake, Settle, FireAlarm, NextRetry, Arrives,
       Quiescent, world
<1>5. CASE \E e \in Actors : Execute(e)
  BY <1>2, <1>5 DEF Execute, Revalidated, Dropped, GiveUp, RecordFailure, AddAlarm, Answered,
       Quiescent, world
<1>6. CASE Tick \/ UNCHANGED vars
  BY <1>2, <1>6 DEF Tick, vars, world, code
<1> QED BY <1>1, <1>3, <1>4, <1>5, <1>6 DEF Next

LEMMA NeverBlocksStep == TypeInv /\ NeverBlocks /\ [Next]_vars => NeverBlocks'
<1> SUFFICES ASSUME TypeInv, NeverBlocks, [Next]_vars PROVE NeverBlocks'
  OBVIOUS
<1>t. phase \in [Actors -> Phases] /\ AlarmHandler \in Actors \ Calls /\ Calls \subseteq Actors
  BY DEF TypeInv, TypeOK, Actors
<1>1. CASE Crash \/ Deploy
  BY <1>t, <1>1 DEF Crash, Deploy, LoseMemory, NeverBlocks
<1>2. CASE \/ \E c \in Calls, id \in Ids : Deduplicate(c, id) \/ Start(c, id) \/ Block(c, id)
           \/ \E c \in Calls : Wake(c) \/ Settle(c)
  <2>1. PICK c \in Calls, p \in Phases : phase' = [phase EXCEPT ![c] = p]
    BY <1>2 DEF Deduplicate, Start, Block, Wake, Settle, StartRevalidation, RaceOngoing, Phases
  <2> QED BY <1>t, <2>1 DEF NeverBlocks
<1>3. CASE FireAlarm \/ NextRetry
  <2>1. phase'[AlarmHandler] \in {"fetching", "idle"}
    BY <1>t, <1>3 DEF FireAlarm, NextRetry, RetryNext
  <2> QED BY <2>1 DEF NeverBlocks
<1>4. CASE \E e \in Actors : Execute(e)
  <2>1. PICK e \in Actors, p \in {"addAlarm", "cancelling"} : phase' = [phase EXCEPT ![e] = p]
    BY <1>4 DEF Execute, Revalidated, Dropped, GiveUp, RecordFailure, AddAlarm, FreeSlot
  <2> QED BY <1>t, <2>1 DEF NeverBlocks
<1>5. CASE Construct \/ Tick \/ UNCHANGED vars
  BY <1>5 DEF Construct, Tick, vars, code, NeverBlocks
<1> QED BY <1>1, <1>2, <1>3, <1>4, <1>5 DEF Next

\* The calls never wait for each other only: as long as one is blocked, another executes
\* or its settled promise is about to wake it.
THEOREM RunsNeverStall == Spec => []GoesOn
<1>1. TypeInv /\ SlotInv /\ OnlyWhenUp /\ NeverBlocks => GoesOn
  <2> SUFFICES ASSUME TypeInv, SlotInv, OnlyWhenUp, NeverBlocks,
                      NEW a \in Actors, phase[a] \notin {"idle", "done"},
                      \A b \in Actors : phase[b] # "addAlarm", \A c \in Calls : ~Awake(c)
               PROVE  up /\ Quiescent /\ \E b \in Actors : phase[b] \in {"fetching", "cancelling"}
    BY DEF GoesOn, OnlyWhenUp
  <2>1. up /\ Quiescent
    BY DEF OnlyWhenUp, Quiescent
  <2>2. CASE phase[a] = "blocked"
    <3>1. a \in Calls /\ racing[a] \subseteq Calls
      BY <2>2 DEF TypeInv, TypeOK, NeverBlocks, Actors
    <3>2. PICK d \in racing[a] : phase[d] \in Busy \cup {"done"}
      BY <2>2, <3>1 DEF SlotInv, NoLostWakeup
    <3>3. phase[d] \in {"fetching", "cancelling"} /\ d \in Actors
      BY <2>2, <3>1, <3>2 DEF Awake, Busy, Actors
    <3> QED BY <2>1, <3>3
  <2>3. CASE phase[a] # "blocked"
    BY <2>1, <2>3 DEF TypeInv, TypeOK, Phases
  <2> QED BY <2>2, <2>3
<1>2. Init => OnlyWhenUp /\ NeverBlocks
  BY DEF Init, OnlyWhenUp, NeverBlocks, Actors
<1> QED BY <1>1, <1>2, OnlyWhenUpStep, NeverBlocksStep, TypeInit, TypeStep, SlotInit, SlotStep, PTL DEF Spec

=============================================================================
