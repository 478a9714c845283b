----------------------- MODULE ShardedTagCache_proofs -----------------------
(***************************************************************************)
(* Proofs about ShardedTagCache, for any tags, shards, replicas, colos,    *)
(* calls and configuration.                                                *)
(***************************************************************************)
EXTENDS ShardedTagCache, NaturalsInduction, WellFoundedInduction, TLAPS

USE DataAssumption, ConfigAssumption, NoneAssumption

\* The groups of a write are objects, and cover every replica of the shard of
\* each tag (groupTagsByDO with generateAllReplicas).
LEMMA GroupsCover ==
    ASSUME NEW ts \in SUBSET Tags, NEW d \in Objects, NEW t \in ts \cap ShardTags(d)
    PROVE  d \in GroupsOf(ts)
  BY DEF GroupsOf

-----------------------------------------------------------------------------
(* Every replica has the write.                                            *)

\* What the variables that EveryReplicaHasIt relates are, as far as it needs.
WriteTypes ==
    /\ rows \in [Objects -> [Tags -> Nat]]
    /\ time \in [Writers -> Nat]
    /\ tags \in [Writers -> SUBSET Tags]
    /\ call \in [Writers -> [Objects -> Calls]]
    /\ writer \in [Writers -> {"idle", "writing", "done"}]
    /\ now \in Nat

HasIt(w, d) == \A t \in Group(w, d) : rows[d][t] >= time[w] \/ <<d, t>> \in regressed

\* A call that was applied and has not failed since has left its tags in the
\* object, and so have all calls that are neither under way nor dead.
AppliedHasIt ==
    \A w \in Writers, d \in Objects :
        call[w][d] \in {"applied", "succeeded", "done"} => HasIt(w, d)

\* A write has a call for each replica of the shards of its tags, none of which
\* is under way when it is done.
CallsMade ==
    \A w \in Writers, d \in Objects :
        /\ writer[w] = "idle" => tags[w] = {}
        /\ call[w][d] = "none" => Group(w, d) = {}
        /\ d \notin GroupsOf(tags[w]) => call[w][d] = "none"
        /\ writer[w] = "done" => call[w][d] \in {"none", "done", "dead"}

WriteInv == WriteTypes /\ AppliedHasIt /\ CallsMade

LEMMA WriteTypesStep == WriteTypes /\ [Next]_vars => WriteTypes'
  <1> SUFFICES ASSUME WriteTypes, [Next]_vars PROVE WriteTypes'
    OBVIOUS
  <1> USE DEF WriteTypes, objects, regional, writing, reading, started
  <1>1. ASSUME NEW w \in Writers, NEW ts \in SUBSET Tags, WriteTags(w, ts) PROVE WriteTypes'
    BY <1>1 DEF WriteTags, Calls
  <1>2. ASSUME NEW w \in Writers, NEW d \in Objects, Apply(w, d) PROVE WriteTypes'
    BY <1>2 DEF Apply, SetCall, Calls
  <1>3. ASSUME NEW w \in Writers, NEW d \in Objects, Succeed(w, d) PROVE WriteTypes'
    BY <1>3 DEF Succeed, SetCall, Calls
  <1>4. ASSUME NEW w \in Writers, NEW d \in Objects, Fail(w, d) PROVE WriteTypes'
    <2>1. PICK state \in {"dead", "sent"} : call' = [call EXCEPT ![w][d] = state]
      BY <1>4 DEF Fail, SetCall
    <2>2. UNCHANGED <<now, rows, writer, tags, time>>
      BY <1>4 DEF Fail
    <2>3. call' \in [Writers -> [Objects -> Calls]]
      BY <2>1 DEF Calls
    <2> QED  BY <2>2, <2>3
  <1>5. ASSUME NEW w \in Writers, NEW d \in Objects, DeleteRegional(w, d) \/ DeleteFails(w, d)
        PROVE  WriteTypes'
    <2>1. call' = [call EXCEPT ![w][d] = "done"] /\ UNCHANGED <<now, rows, writer, tags, time>>
      BY <1>5 DEF DeleteRegional, DeleteFails, SetCall
    <2>2. call' \in [Writers -> [Objects -> Calls]]
      BY <2>1 DEF Calls
    <2> QED  BY <2>1, <2>2
  <1>6. ASSUME NEW w \in Writers, WriteReturns(w) PROVE WriteTypes'
    BY <1>6 DEF WriteReturns
  <1>7. ASSUME NEW k \in Checks, NEW ts \in SUBSET Tags, StartCheck(k, ts) PROVE WriteTypes'
    BY <1>7 DEF StartCheck
  <1>8. ASSUME NEW k \in Checks, NEW t \in Tags,
               MatchRegional(k, t) \/ MissRegional(k, t)
        PROVE  WriteTypes'
    BY <1>8 DEF MatchRegional, MissRegional
  <1>9. ASSUME NEW k \in Checks, NEW d \in Objects,
               Ask(k, d) \/ AskInError(k, d) \/ CheckFails(k, d)
        PROVE  WriteTypes'
    BY <1>9 DEF Ask, AskInError, CheckFails
  <1>13. ASSUME NEW k \in Checks, FinishCheck(k) PROVE WriteTypes'
    BY <1>13 DEF FinishCheck
  <1>10. ASSUME NEW p \in puts, PutRegional(p) \/ DropPut(p) PROVE WriteTypes'
    BY <1>10 DEF PutRegional, DropPut
  <1>11. CASE Tick
    BY <1>11 DEF Tick
  <1>12. CASE UNCHANGED vars
    BY <1>12 DEF vars
  <1> QED
    BY <1>1, <1>2, <1>3, <1>4, <1>5, <1>6, <1>7, <1>8, <1>9, <1>10, <1>11, <1>12, <1>13
    DEF Next, Write

\* Steps that change neither a row nor a call nor a write.
LEMMA WriteInvUnchanged ==
    ASSUME WriteInv, UNCHANGED <<rows, regressed, writer, tags, time, call>>, WriteTypes'
    PROVE  WriteInv'
  BY DEF WriteInv, AppliedHasIt, CallsMade, HasIt, Group

LEMMA WriteInvStep == WriteInv /\ [Next]_vars => WriteInv'
  <1> SUFFICES ASSUME WriteInv, [Next]_vars PROVE WriteInv'
    OBVIOUS
  <1>0. WriteTypes'
    BY WriteTypesStep DEF WriteInv
  <1> USE DEF WriteInv, objects, regional, writing, reading, started
  <1>1. ASSUME NEW w \in Writers, NEW ts \in SUBSET Tags, WriteTags(w, ts) PROVE WriteInv'
    <2>1. /\ call' = [call EXCEPT ![w] =
                        [d \in Objects |-> IF d \in GroupsOf(ts) THEN "sent" ELSE "none"]]
          /\ tags' = [tags EXCEPT ![w] = ts]
          /\ writer' = [writer EXCEPT ![w] = "writing"]
          /\ time' = [time EXCEPT ![w] = now]
          /\ UNCHANGED <<rows, regressed>>
      BY <1>1 DEF WriteTags
    <2>2. ASSUME NEW v \in Writers, NEW d \in Objects, v # w
          PROVE  /\ HasIt(v, d)' = HasIt(v, d) /\ Group(v, d)' = Group(v, d)
                 /\ call'[v][d] = call[v][d] /\ tags'[v] = tags[v] /\ writer'[v] = writer[v]
      BY <2>1, <2>2 DEF WriteTypes, HasIt, Group
    <2>3. ASSUME NEW d \in Objects
          PROVE  /\ call'[w][d] \in {"sent", "none"}
                 /\ call'[w][d] = "none" => Group(w, d)' = {}
                 /\ d \notin GroupsOf(tags'[w]) => call'[w][d] = "none"
                 /\ writer'[w] = "writing"
      <3>1. call'[w][d] = IF d \in GroupsOf(ts) THEN "sent" ELSE "none"
        BY <2>1 DEF WriteTypes
      <3>2. tags'[w] = ts /\ writer'[w] = "writing"
        BY <2>1 DEF WriteTypes
      <3>3. d \notin GroupsOf(ts) => ts \cap ShardTags(d) = {}
        BY DEF GroupsOf
      <3> QED  BY <3>1, <3>2, <3>3 DEF Group
    <2>4. AppliedHasIt'
      BY <2>2, <2>3 DEF AppliedHasIt
    <2>5. CallsMade'
      BY <2>2, <2>3 DEF CallsMade
    <2> QED  BY <1>0, <2>4, <2>5
  <1>2. ASSUME NEW w \in Writers, NEW d \in Objects, Apply(w, d) PROVE WriteInv'
    <2>1. /\ call' = [call EXCEPT ![w][d] = "applied"]
          /\ rows' = [rows EXCEPT ![d] =
                        [t \in Tags |-> IF t \in Group(w, d) THEN time[w] ELSE rows[d][t]]]
          /\ regressed' = regressed \cup
                        {<<d, t>> : t \in {u \in Group(w, d) : rows[d][u] > time[w]}}
          /\ UNCHANGED <<writer, tags, time>>
          /\ call[w][d] = "sent"
      BY <1>2 DEF Apply, SetCall
    <2>2. ASSUME NEW v \in Writers, NEW e \in Objects,
                 call'[v][e] \in {"applied", "succeeded", "done"}
          PROVE  HasIt(v, e)'
      <3> SUFFICES ASSUME NEW t \in Group(v, e)
                   PROVE  rows'[e][t] >= time[v] \/ <<e, t>> \in regressed'
        BY <2>1 DEF HasIt, Group
      <3>0. t \in Tags /\ rows[e][t] \in Nat /\ time[v] \in Nat /\ time[w] \in Nat
        BY DEF Group, ShardTags, WriteTypes
      <3>1. CASE v = w /\ e = d
        BY <2>1, <3>0, <3>1 DEF WriteTypes
      <3>2. CASE ~(v = w /\ e = d)
        <4>1. call'[v][e] = call[v][e]
          BY <2>1, <3>2 DEF WriteTypes
        <4>2. rows[e][t] >= time[v] \/ <<e, t>> \in regressed
          BY <2>2, <4>1 DEF AppliedHasIt, HasIt
        <4>3. CASE e = d /\ t \in Group(w, d)
          <5>1. rows'[e][t] = time[w]
            BY <2>1, <3>0, <4>3 DEF WriteTypes
          <5>2. rows[e][t] > time[w] => <<e, t>> \in regressed'
            BY <2>1, <4>3
          <5>3. <<e, t>> \in regressed => <<e, t>> \in regressed'
            BY <2>1
          <5> QED  BY <3>0, <4>2, <5>1, <5>2, <5>3
        <4>4. CASE ~(e = d /\ t \in Group(w, d))
          <5>1. rows'[e][t] = rows[e][t]
            BY <2>1, <3>0, <4>4 DEF WriteTypes
          <5> QED  BY <2>1, <4>2, <5>1
        <4> QED  BY <4>3, <4>4
      <3> QED  BY <3>1, <3>2
    <2>3. CallsMade'
      BY <2>1 DEF CallsMade, WriteTypes, Group
    <2> QED  BY <1>0, <2>2, <2>3 DEF AppliedHasIt
  <1>3. ASSUME NEW w \in Writers, NEW d \in Objects,
               Succeed(w, d) \/ Fail(w, d) \/ DeleteRegional(w, d) \/ DeleteFails(w, d)
        PROVE  WriteInv'
    <2>1. PICK state \in {"succeeded", "done", "sent", "dead"} :
            /\ call' = [call EXCEPT ![w][d] = state]
            /\ state \in {"succeeded", "done"} => call[w][d] \in {"applied", "succeeded"}
            /\ call[w][d] \in {"sent", "applied", "succeeded"}
            /\ UNCHANGED <<rows, regressed, writer, tags, time>>
      BY <1>3 DEF Succeed, Fail, DeleteRegional, DeleteFails, SetCall
    <2>2. \A v \in Writers, e \in Objects :
            /\ HasIt(v, e)' = HasIt(v, e)
            /\ Group(v, e)' = Group(v, e)
            /\ call'[v][e] = IF v = w /\ e = d THEN state ELSE call[v][e]
      BY <2>1 DEF WriteTypes, HasIt, Group
    <2>3. AppliedHasIt'
      BY <2>1, <2>2 DEF AppliedHasIt
    <2>4. CallsMade'
      BY <2>1, <2>2 DEF CallsMade
    <2> QED  BY <1>0, <2>3, <2>4
  <1>4. ASSUME NEW w \in Writers, WriteReturns(w) PROVE WriteInv'
    <2>1. /\ writer' = [writer EXCEPT ![w] = "done"]
          /\ writer[w] = "writing"
          /\ \A d \in GroupsOf(tags[w]) : call[w][d] \in {"done", "dead"}
          /\ UNCHANGED <<rows, regressed, tags, time, call>>
      BY <1>4 DEF WriteReturns, Settled
    <2>2. AppliedHasIt'
      BY <2>1 DEF AppliedHasIt, HasIt, Group
    <2>3. CallsMade'
      <3> SUFFICES ASSUME NEW v \in Writers, NEW d \in Objects
                   PROVE  /\ writer'[v] = "idle" => tags[v] = {}
                          /\ call[v][d] = "none" => Group(v, d) = {}
                          /\ d \notin GroupsOf(tags[v]) => call[v][d] = "none"
                          /\ writer'[v] = "done" => call[v][d] \in {"none", "done", "dead"}
        BY <2>1 DEF CallsMade, Group
      <3>1. CASE v = w
        BY <2>1, <3>1 DEF CallsMade, WriteTypes
      <3>2. CASE v # w
        BY <2>1, <3>2 DEF CallsMade, WriteTypes
      <3> QED  BY <3>1, <3>2
    <2> QED  BY <1>0, <2>2, <2>3
  <1>5. ASSUME NEW k \in Checks, NEW ts \in SUBSET Tags, StartCheck(k, ts) PROVE WriteInv'
    BY <1>0, <1>5, WriteInvUnchanged DEF StartCheck
  <1>6. ASSUME NEW k \in Checks, NEW t \in Tags, MatchRegional(k, t) \/ MissRegional(k, t)
        PROVE  WriteInv'
    BY <1>0, <1>6, WriteInvUnchanged DEF MatchRegional, MissRegional
  <1>7. ASSUME NEW k \in Checks, NEW d \in Objects,
               Ask(k, d) \/ AskInError(k, d) \/ CheckFails(k, d)
        PROVE  WriteInv'
    BY <1>0, <1>7, WriteInvUnchanged DEF Ask, AskInError, CheckFails
  <1>11. ASSUME NEW k \in Checks, FinishCheck(k) PROVE WriteInv'
    BY <1>0, <1>11, WriteInvUnchanged DEF FinishCheck
  <1>8. ASSUME NEW p \in puts, PutRegional(p) \/ DropPut(p) PROVE WriteInv'
    BY <1>0, <1>8, WriteInvUnchanged DEF PutRegional, DropPut
  <1>9. CASE Tick
    BY <1>0, <1>9, WriteInvUnchanged DEF Tick
  <1>10. CASE UNCHANGED vars
    BY <1>0, <1>10, WriteInvUnchanged DEF vars
  <1> QED
    BY <1>1, <1>2, <1>3, <1>4, <1>5, <1>6, <1>7, <1>8, <1>9, <1>10, <1>11
    DEF Next, Write

LEMMA WriteInvInit == Init => WriteInv
  <1> SUFFICES ASSUME Init PROVE WriteInv
    OBVIOUS
  <1>1. WriteTypes
    BY DEF Init, WriteTypes, Calls
  <1>2. AppliedHasIt
    BY DEF Init, AppliedHasIt
  <1>3. CallsMade
    BY DEF Init, CallsMade, Group
  <1> QED  BY <1>1, <1>2, <1>3 DEF WriteInv

\* When writeTags() has returned, whichever replica is read has the write or a
\* newer one, but for dead letters and rows an older write has overwritten.
THEOREM ReplicasHaveTheWrite == Spec => []EveryReplicaHasIt
  <1>1. WriteInv => EveryReplicaHasIt
    <2> SUFFICES ASSUME WriteInv, NEW w \in Writers, NEW d \in Objects,
                        writer[w] = "done", call[w][d] # "dead",
                        NEW t \in Group(w, d)
                 PROVE  rows[d][t] >= time[w] \/ <<d, t>> \in regressed
      BY DEF EveryReplicaHasIt
    <2>1. call[w][d] = "done"
      BY DEF WriteInv, CallsMade
    <2> QED  BY <2>1 DEF WriteInv, AppliedHasIt, HasIt
  <1> QED  BY <1>1, WriteInvInit, WriteInvStep, PTL DEF Spec

-----------------------------------------------------------------------------
(* Type correctness.                                                       *)

\* Of times up to a bound, there is a latest, or 0.
LEMMA LatestOfTimes ==
    ASSUME NEW n \in Nat, NEW times \in SUBSET (0 .. n)
    PROVE  Latest(times) \in times \cup {0} /\ \A y \in times : y <= Latest(times)
  <1> DEFINE R == {ss \in Nat \X Nat : ss[1] < ss[2]}
             S == {n - x : x \in times \cup {0}}
  <1>1. IsWellFoundedOn(R, Nat)
    <2>1. R = OpToRel(<, Nat)
      BY DEF OpToRel
    <2> QED  BY <2>1, NatLessThanWellFounded, Zenon
  <1>2. S \subseteq Nat /\ n - 0 \in S
    OBVIOUS
  <1>3. PICK s \in S : \A t \in S : ~(<<t, s>> \in R)
    <2> HIDE DEF R, S
    <2> QED  BY <1>1, <1>2, WFMin
  <1>4. PICK x \in times \cup {0} : s = n - x
    OBVIOUS
  <1>5. ASSUME NEW y \in times PROVE y <= x
    <2>1. n - y \in S /\ n - y \in Nat /\ s \in Nat
      BY <1>2
    <2>2. ~(n - y < s)
      BY <1>3, <2>1
    <2> QED  BY <1>4, <2>1, <2>2
  <1> QED  BY <1>4, <1>5 DEF Latest

\* A write is made no later than now.
TypeInv == TypeOK /\ \A w \in Writers : time[w] <= now

LEMMA PutsOfType ==
    ASSUME TypeOK, NEW k \in Checks, NEW ts \in SUBSET Tags, NEW read \in [Tags -> Nat]
    PROVE  PutsOf(k, ts, read) \subseteq [colo : Colos, tag : Tags, at : Nat, since : Nat]
  <1>1. ASSUME NEW t \in ts
        PROVE  [colo |-> RequestColo[RequestOf[k]], tag |-> t, at |-> read[t], since |-> now]
                 \in [colo : Colos, tag : Tags, at : Nat, since : Nat]
    <2>1. RequestColo[RequestOf[k]] \in Colos /\ t \in Tags /\ read[t] \in Nat /\ now \in Nat
      BY DEF TypeOK
    <2> QED  BY <2>1
  <1> QED  BY <1>1 DEF PutsOf

LEMMA ReceiveType ==
    ASSUME TypeOK, NEW k \in Checks, NEW ts \in SUBSET Tags, NEW read,
           \A t \in ts : read[t] \in Nat, Receive(k, ts, read)
    PROVE  /\ wanted' \in [Checks -> SUBSET Tags]
           /\ fetched' \in [Checks -> [Tags -> Nat \cup {None}]]
  BY DEF TypeOK, Receive

LEMMA WriteTypeStep ==
    ASSUME TypeInv, NEW w \in Writers, NEW d \in Objects, Write(w, d)
    PROVE  TypeInv'
  <1> USE DEF TypeInv, TypeOK, objects, regional, writing, reading, started, SetCall, Calls, Group
  <1>1. CASE Apply(w, d)
    BY <1>1 DEF Apply
  <1>2. CASE Succeed(w, d)
    BY <1>2 DEF Succeed
  <1>3. CASE Fail(w, d)
    <2>1. retry' \in [Writers -> [Objects -> 0 .. MaxWriteRetries]]
      <3>1. CASE TooManyRetries(w, d)
        BY <1>3, <3>1 DEF Fail
      <3>2. CASE ~TooManyRetries(w, d)
        <4>1. retry[w][d] \in 0 .. MaxWriteRetries
          OBVIOUS
        <4>2. retry[w][d] + 1 \in 0 .. MaxWriteRetries
          BY <3>2, <4>1, MaxWriteRetries \in Nat DEF TooManyRetries
        <4>3. retry' = [retry EXCEPT ![w][d] = @ + 1]
          BY <1>3, <3>2 DEF Fail, NextRetryNumber
        <4> QED  BY <4>2, <4>3
      <3> QED  BY <3>1, <3>2
    <2>2. call' \in [Writers -> [Objects -> Calls]]
      <3>1. call' = [call EXCEPT ![w][d] = "dead"] \/ call' = [call EXCEPT ![w][d] = "sent"]
        BY <1>3 DEF Fail
      <3>2. call \in [Writers -> [Objects -> Calls]] /\ "dead" \in Calls /\ "sent" \in Calls
        OBVIOUS
      <3> HIDE DEF TypeInv, TypeOK, Calls, Group
      <3> QED  BY <3>1, <3>2
    <2>3. UNCHANGED <<opts, now, objects, regional, writer, tags, time, doneAt, reading, errors,
                      unread>>
      BY <1>3 DEF Fail
    <2> QED  BY <2>1, <2>2, <2>3
  <1>4. CASE DeleteRegional(w, d)
    BY <1>4 DEF DeleteRegional
  <1>5. CASE DeleteFails(w, d)
    BY <1>5 DEF DeleteFails, ShardTags
  <1> QED  BY <1>1, <1>2, <1>3, <1>4, <1>5 DEF Write

LEMMA ReadTypeStep ==
    ASSUME TypeInv, NEW k \in Checks, NEW d \in Objects, Ask(k, d) \/ AskInError(k, d)
    PROVE  TypeInv'
  <1> DEFINE ts == Remaining(k, d)
             nothing == [t \in Tags |-> 0]
  <1>1. ts \in SUBSET Tags
    BY DEF Remaining, ShardTags
  <1>2. nothing \in [Tags -> Nat]
    OBVIOUS
  <1>3. rows[d] \in [Tags -> Nat]
    BY DEF TypeInv, TypeOK
  <1>4. PICK read \in [Tags -> Nat] : Receive(k, ts, read) /\ puts' = puts \cup PutsOf(k, ts, read)
    <2>1. CASE Ask(k, d)
      <3>1. Receive(k, ts, rows[d]) /\ puts' = puts \cup PutsOf(k, ts, rows[d])
        BY <2>1 DEF Ask
      <3> HIDE DEF ts
      <3> QED  BY <3>1, <1>3
    <2>2. CASE AskInError(k, d)
      <3>1. Receive(k, ts, nothing) /\ puts' = puts \cup PutsOf(k, ts, nothing)
        BY <2>2 DEF AskInError
      <3> HIDE DEF ts, nothing
      <3> QED  BY <3>1, <1>2
    <2> QED  BY <2>1, <2>2
  <1>5. /\ wanted' \in [Checks -> SUBSET Tags]
        /\ fetched' \in [Checks -> [Tags -> Nat \cup {None}]]
    <2> HIDE DEF ts
    <2>1. \A t \in ts : read[t] \in Nat
      BY <1>1
    <2> QED  BY <1>1, <1>4, <2>1, ReceiveType DEF TypeInv
  <1>6. puts' \subseteq [colo : Colos, tag : Tags, at : Nat, since : Nat]
    <2> HIDE DEF ts
    <2>1. PutsOf(k, ts, read) \subseteq [colo : Colos, tag : Tags, at : Nat, since : Nat]
      BY <1>1, PutsOfType DEF TypeInv
    <2>2. puts \subseteq [colo : Colos, tag : Tags, at : Nat, since : Nat]
      BY DEF TypeInv, TypeOK
    <2> QED  BY <1>4, <2>1, <2>2
  <1>7. errors' \in Nat /\ unread' \subseteq Tags
    BY <1>1 DEF Ask, AskInError, TypeInv, TypeOK
  <1>8. UNCHANGED <<opts, now, rows, cached, writer, tags, time, call, retry, check, unmatched,
                    memo, doneAt, started, regressed, leftover>>
    BY DEF Ask, AskInError, objects, writing
  <1> HIDE DEF ts, nothing
  <1> QED  BY <1>5, <1>6, <1>7, <1>8 DEF TypeInv, TypeOK, started

\* The latest write that has to be seen by now is one of them, if there is any.
LEMMA SeenByNowIsLatest ==
    ASSUME TypeInv, NEW t \in Tags
    PROVE  /\ SeenByNow[t] \in Nat
           /\ SeenByNow[t] = 0 \/ \E w \in Visible(t) : SeenByNow[t] = time[w]
           /\ \A w \in Visible(t) : time[w] <= SeenByNow[t]
  <1> DEFINE times == {time[w] : w \in Visible(t)}
  <1>1. times \in SUBSET (0 .. now) /\ now \in Nat
    BY DEF Visible, TypeInv, TypeOK
  <1>2. SeenByNow[t] = Latest(times)
    BY DEF SeenByNow
  <1>3. Latest(times) \in times \cup {0} /\ \A y \in times : y <= Latest(times)
    <2> HIDE DEF times
    <2> QED  BY <1>1, LatestOfTimes
  <1>4. Latest(times) \in Nat
    <2> HIDE DEF times
    <2>1. \A x \in 0 .. now : x \in Nat
      OBVIOUS
    <2>2. 0 \in Nat
      OBVIOUS
    <2> QED  BY <1>1, <1>3, <2>1, <2>2, Zenon
  <1>5. Latest(times) = 0 \/ \E w \in Visible(t) : Latest(times) = time[w]
    BY <1>3
  <1>6. \A w \in Visible(t) : time[w] <= Latest(times)
    BY <1>3
  <1> HIDE DEF times
  <1> QED  BY <1>2, <1>4, <1>5, <1>6

LEMMA TypeStep == TypeInv /\ [Next]_vars => TypeInv'
  <1> SUFFICES ASSUME TypeInv, [Next]_vars PROVE TypeInv'
    OBVIOUS
  <1> USE DEF TypeInv, TypeOK, objects, regional, writing, reading, started
  <1>1. ASSUME NEW w \in Writers, NEW ts \in SUBSET Tags, WriteTags(w, ts) PROVE TypeInv'
    BY <1>1 DEF WriteTags, Calls
  <1>2. ASSUME NEW w \in Writers, WriteReturns(w) PROVE TypeInv'
    BY <1>2 DEF WriteReturns
  <1>3. ASSUME NEW k \in Checks, NEW ts \in SUBSET Tags, StartCheck(k, ts) PROVE TypeInv'
    <2>1. SeenByNow \in [Tags -> Nat]
      <3>1. \A t \in Tags : SeenByNow[t] \in Nat
        BY SeenByNowIsLatest
      <3>2. SeenByNow = [t \in Tags |-> SeenByNow[t]]
        BY DEF SeenByNow
      <3> QED  BY <3>1, <3>2
    <2>2. floor' \in [Checks -> [Tags -> Nat]]
      BY <1>3, <2>1 DEF StartCheck
    <2>3. requestFloor' \in [Requests -> [Tags -> Nat]]
      BY <1>3, <2>1 DEF StartCheck
    <2>4. remembered' \in [Checks -> [Tags -> Nat \cup {None}]]
      <3>1. MemoOf(k) \in [Tags -> Nat \cup {None}]
        BY DEF MemoOf
      <3> QED  BY <1>3, <3>1 DEF StartCheck
    <2> QED  BY <1>3, <2>2, <2>3, <2>4 DEF StartCheck
  <1>4. ASSUME NEW k \in Checks, NEW t \in Tags, MatchRegional(k, t) PROVE TypeInv'
    <2> DEFINE colo == RequestColo[RequestOf[k]]
    <2>1. colo \in Colos /\ cached[colo][t] \in Entry
      BY <1>4 DEF MatchRegional, Hit
    <2>2. cached[colo][t].at \in Nat
      BY <2>1 DEF Entry
    <2>3. Receive(k, {t}, [v \in {t} |-> cached[colo][v].at])
      BY <1>4 DEF MatchRegional
    <2>4. /\ wanted' \in [Checks -> SUBSET Tags]
          /\ fetched' \in [Checks -> [Tags -> Nat \cup {None}]]
      <3>1. wanted' = [wanted EXCEPT ![k] = @ \ {t}]
        BY <2>3 DEF Receive
      <3>2. fetched' = [fetched EXCEPT ![k] =
                          [u \in Tags |-> IF u \in {t} THEN cached[colo][t].at ELSE @[u]]]
        BY <2>3 DEF Receive
      <3> HIDE DEF colo
      <3> QED  BY <2>2, <3>1, <3>2
    <2> QED  BY <1>4, <2>4 DEF MatchRegional
  <1>5. ASSUME NEW k \in Checks, NEW t \in Tags, MissRegional(k, t) PROVE TypeInv'
    BY <1>5 DEF MissRegional
  <1>6. ASSUME NEW k \in Checks, NEW d \in Objects, CheckFails(k, d) PROVE TypeInv'
    BY <1>6 DEF CheckFails
  <1>7. ASSUME NEW k \in Checks, FinishCheck(k) PROVE TypeInv'
    BY <1>7 DEF FinishCheck
  <1>8. ASSUME NEW p \in puts, PutRegional(p) PROVE TypeInv'
    <2>1. p \in [colo : Colos, tag : Tags, at : Nat, since : Nat]
      OBVIOUS
    <2>2. p.colo \in Colos /\ p.tag \in Tags
      BY <2>1
    <2>3. [at |-> p.at, until |-> now + Ttl] \in Entry
      BY <2>1, Ttl \in Nat DEF Entry
    <2>4. cached' \in [Colos -> [Tags -> Entry \cup {None}]]
      BY <1>8, <2>2, <2>3 DEF PutRegional
    <2>5. leftover' \subseteq Colos \X Tags
      BY <1>8, <2>2 DEF PutRegional
    <2>6. puts' \subseteq puts
      BY <1>8 DEF PutRegional
    <2> QED  BY <1>8, <2>4, <2>5, <2>6 DEF PutRegional
  <1>9. ASSUME NEW p \in puts, DropPut(p) PROVE TypeInv'
    BY <1>9 DEF DropPut
  <1>10. CASE Tick \/ UNCHANGED vars
    BY <1>10 DEF Tick, vars
  <1> QED
    BY <1>1, <1>2, <1>3, <1>4, <1>5, <1>6, <1>7, <1>8, <1>9, <1>10, WriteTypeStep, ReadTypeStep
    DEF Next

LEMMA TypeInit == Init => TypeInv
  BY DEF Init, TypeInv, TypeOK, Calls

\* Types, with retries within their number, for any calls, faults and options.
THEOREM TypeCorrect == Spec => []TypeOK
  <1>1. Init => TypeInv
    BY TypeInit
  <1>2. TypeInv => TypeOK
    BY DEF TypeInv
  <1> QED  BY <1>1, <1>2, TypeStep, PTL DEF Spec

-----------------------------------------------------------------------------
(* The regional cache of the writer's colo.                                *)

\* Every replica of the shard of a tag has answered the write, and the entry has
\* been deleted after that.
AllDone(w, t) ==
    /\ t \in tags[w]
    /\ \A d \in Objects : t \in ShardTags(d) => call[w][d] = "done"

Clean(w, t) ==
    \/ cached[WriterColo[w]][t] = None
    \/ cached[WriterColo[w]][t].at >= time[w]
    \/ <<WriterColo[w], t>> \in leftover

CleanInv == \A w \in Writers, t \in Tags : AllDone(w, t) /\ Intact(t) => Clean(w, t)

\* A step that leaves the caches alone and ends no call.
LEMMA CleanUnchanged ==
    ASSUME CleanInv, UNCHANGED <<cached, leftover, time>>, regressed \subseteq regressed',
           \A w \in Writers, t \in Tags : AllDone(w, t)' => AllDone(w, t)
    PROVE  CleanInv'
  <1> SUFFICES ASSUME NEW w \in Writers, NEW t \in Tags, AllDone(w, t)', Intact(t)'
               PROVE  Clean(w, t)'
    BY DEF CleanInv, Clean
  <1>1. AllDone(w, t) /\ Intact(t)
    BY DEF Intact
  <1>2. Clean(w, t)
    BY <1>1 DEF CleanInv, Clean
  <1> QED  BY <1>2 DEF Clean

\* What an object answers a call that is done is not older than the write: what
\* is put of it is not either, or every replica has something newer.
LEMMA PutIsCleanOrOutdated ==
    ASSUME TypeInv, WriteInv, NEW w \in Writers, NEW p \in puts,
           AllDone(w, p.tag), Intact(p.tag), ~Outdated(p)
    PROVE  p.at >= time[w]
  <1>1. PICK r \in Replicas : ~(rows[<<ShardOf[p.tag], r>>][p.tag] > p.at)
    BY DEF Outdated
  <1> DEFINE d == <<ShardOf[p.tag], r>>
  <1>2. p.tag \in Tags /\ p.at \in Nat
    BY DEF TypeInv, TypeOK
  <1>3. d \in Objects /\ p.tag \in ShardTags(d)
    BY <1>2 DEF Objects, ShardTags
  <1>4. call[w][d] = "done" /\ p.tag \in Group(w, d)
    BY <1>3 DEF AllDone, Group
  <1>5. rows[d][p.tag] >= time[w]
    BY <1>3, <1>4 DEF WriteInv, AppliedHasIt, HasIt, Intact
  <1>6. ~(rows[d][p.tag] > p.at)
    BY <1>1
  <1> HIDE DEF d
  <1>7. rows[d][p.tag] \in Nat /\ time[w] \in Nat
    BY <1>2, <1>3 DEF TypeInv, TypeOK
  <1> QED  BY <1>2, <1>5, <1>6, <1>7

LEMMA CleanStep == TypeInv /\ WriteInv /\ CleanInv /\ [Next]_vars => CleanInv'
  <1> SUFFICES ASSUME TypeInv, WriteInv, CleanInv, [Next]_vars PROVE CleanInv'
    OBVIOUS
  <1> USE DEF objects, regional, writing, reading, started
  <1>t. /\ cached \in [Colos -> [Tags -> Entry \cup {None}]]
        /\ call \in [Writers -> [Objects -> Calls]]
        /\ tags \in [Writers -> SUBSET Tags]
        /\ time \in [Writers -> Nat]
    BY DEF TypeInv, TypeOK
  <1>1. ASSUME NEW w \in Writers, NEW ts \in SUBSET Tags, WriteTags(w, ts) PROVE CleanInv'
    <2>1. /\ call' = [call EXCEPT ![w] =
                        [d \in Objects |-> IF d \in GroupsOf(ts) THEN "sent" ELSE "none"]]
          /\ tags' = [tags EXCEPT ![w] = ts]
          /\ time' = [time EXCEPT ![w] = now]
          /\ UNCHANGED <<cached, leftover, regressed>>
      BY <1>1 DEF WriteTags
    <2>2. ASSUME NEW t \in Tags PROVE ~AllDone(w, t)'
      <3> SUFFICES ASSUME t \in ts
                   PROVE  \E d \in Objects : t \in ShardTags(d) /\ call'[w][d] # "done"
        BY <1>t, <2>1 DEF AllDone
      <3>1. PICK r \in Replicas : TRUE
        OBVIOUS
      <3> DEFINE d == <<ShardOf[t], r>>
      <3>2. d \in Objects /\ t \in ShardTags(d)
        BY DEF Objects, ShardTags
      <3> HIDE DEF d
      <3>3. call'[w][d] \in {"sent", "none"}
        BY <1>t, <2>1, <3>2
      <3> QED  BY <3>2, <3>3
    <2>3. ASSUME NEW v \in Writers, NEW t \in Tags, v # w, AllDone(v, t)', Intact(t)'
          PROVE  Clean(v, t)'
      <3>1. AllDone(v, t) /\ Intact(t)
        BY <1>t, <2>1, <2>3 DEF AllDone, Intact
      <3>2. Clean(v, t)
        BY <3>1 DEF CleanInv, Clean
      <3> QED  BY <1>t, <2>1, <2>3, <3>2 DEF Clean
    <2> QED  BY <2>2, <2>3 DEF CleanInv, Clean
  <1>2. ASSUME NEW w \in Writers, NEW d \in Objects,
               Apply(w, d) \/ Succeed(w, d) \/ Fail(w, d)
        PROVE  CleanInv'
    <2>1. PICK state \in {"applied", "succeeded", "sent", "dead"} :
            call' = [call EXCEPT ![w][d] = state]
      BY <1>2 DEF Apply, Succeed, Fail, SetCall
    <2>2. UNCHANGED <<cached, leftover, time, tags>> /\ regressed \subseteq regressed'
      BY <1>2 DEF Apply, Succeed, Fail
    <2>3. \A v \in Writers, t \in Tags : AllDone(v, t)' => AllDone(v, t)
      BY <1>t, <2>1, <2>2 DEF AllDone
    <2> QED  BY <2>2, <2>3, CleanUnchanged
  <1>3. ASSUME NEW w \in Writers, NEW d \in Objects, DeleteRegional(w, d) PROVE CleanInv'
    <2>1. /\ call' = [call EXCEPT ![w][d] = "done"]
          /\ cached' = [cached EXCEPT ![WriterColo[w]] =
                            [t \in Tags |-> IF t \in Group(w, d) THEN None ELSE @[t]]]
          /\ leftover' = leftover \ ({WriterColo[w]} \X Group(w, d))
          /\ UNCHANGED <<time, tags, regressed>>
      BY <1>3 DEF DeleteRegional, SetCall
    <2> SUFFICES ASSUME NEW v \in Writers, NEW t \in Tags, AllDone(v, t)', Intact(t)'
                 PROVE  Clean(v, t)'
      BY DEF CleanInv, Clean
    <2>2. CASE WriterColo[v] = WriterColo[w] /\ t \in Group(w, d)
      <3>1. cached'[WriterColo[v]][t] = None
        BY <1>t, <2>1, <2>2
      <3> QED  BY <3>1 DEF Clean
    <2>3. CASE ~(WriterColo[v] = WriterColo[w] /\ t \in Group(w, d))
      <3>1. cached'[WriterColo[v]][t] = cached[WriterColo[v]][t]
        BY <1>t, <2>1, <2>3
      <3>2. <<WriterColo[v], t>> \in leftover => <<WriterColo[v], t>> \in leftover'
        BY <2>1, <2>3
      <3>3. AllDone(v, t)
        <4>1. t \in tags[v]
          BY <2>1 DEF AllDone
        <4>2. ASSUME NEW e \in Objects, t \in ShardTags(e) PROVE call[v][e] = "done"
          <5>1. call'[v][e] = "done"
            BY <4>2 DEF AllDone
          <5>2. CASE v = w /\ e = d
            BY <2>3, <4>1, <4>2, <5>2 DEF Group
          <5>3. CASE ~(v = w /\ e = d)
            BY <1>t, <2>1, <5>1, <5>3
          <5> QED  BY <5>2, <5>3
        <4> QED  BY <4>1, <4>2 DEF AllDone
      <3>4. Clean(v, t)
        BY <2>1, <3>3 DEF CleanInv, Clean, Intact
      <3> QED  BY <2>1, <3>1, <3>2, <3>4 DEF Clean
    <2> QED  BY <2>2, <2>3
  <1>4. ASSUME NEW w \in Writers, NEW d \in Objects, DeleteFails(w, d) PROVE CleanInv'
    <2>1. PICK kept \in SUBSET Group(w, d) :
            /\ call' = [call EXCEPT ![w][d] = "done"]
            /\ cached' = [cached EXCEPT ![WriterColo[w]] =
                            [t \in Tags |-> IF t \in Group(w, d) \ kept THEN None ELSE @[t]]]
            /\ leftover' = (leftover \ ({WriterColo[w]} \X Group(w, d)))
                                \cup ({WriterColo[w]} \X kept)
            /\ UNCHANGED <<time, tags, regressed>>
      BY <1>4 DEF DeleteFails, SetCall
    <2> SUFFICES ASSUME NEW v \in Writers, NEW t \in Tags, AllDone(v, t)', Intact(t)'
                 PROVE  Clean(v, t)'
      BY DEF CleanInv, Clean
    <2>2. CASE WriterColo[v] = WriterColo[w] /\ t \in Group(w, d)
      <3>1. CASE t \in kept
        BY <2>1, <2>2, <3>1 DEF Clean
      <3>2. CASE t \notin kept
        <4>1. cached'[WriterColo[v]][t] = None
          BY <1>t, <2>1, <2>2, <3>2
        <4> QED  BY <4>1 DEF Clean
      <3> QED  BY <3>1, <3>2
    <2>3. CASE ~(WriterColo[v] = WriterColo[w] /\ t \in Group(w, d))
      <3>1. cached'[WriterColo[v]][t] = cached[WriterColo[v]][t]
        BY <1>t, <2>1, <2>3
      <3>2. <<WriterColo[v], t>> \in leftover => <<WriterColo[v], t>> \in leftover'
        BY <2>1, <2>3
      <3>3. AllDone(v, t)
        <4>1. t \in tags[v]
          BY <2>1 DEF AllDone
        <4>2. ASSUME NEW e \in Objects, t \in ShardTags(e) PROVE call[v][e] = "done"
          <5>1. call'[v][e] = "done"
            BY <4>2 DEF AllDone
          <5>2. CASE v = w /\ e = d
            BY <2>3, <4>1, <4>2, <5>2 DEF Group
          <5>3. CASE ~(v = w /\ e = d)
            BY <1>t, <2>1, <5>1, <5>3
          <5> QED  BY <5>2, <5>3
        <4> QED  BY <4>1, <4>2 DEF AllDone
      <3>4. Clean(v, t)
        BY <2>1, <3>3 DEF CleanInv, Clean, Intact
      <3> QED  BY <2>1, <3>1, <3>2, <3>4 DEF Clean
    <2> QED  BY <2>2, <2>3
  <1>5. ASSUME NEW p \in puts, PutRegional(p) PROVE CleanInv'
    <2>1. /\ cached' = [cached EXCEPT ![p.colo][p.tag] = [at |-> p.at, until |-> now + Ttl]]
          /\ leftover' = IF Outdated(p) THEN leftover \cup {<<p.colo, p.tag>>}
                         ELSE leftover \ {<<p.colo, p.tag>>}
          /\ UNCHANGED <<time, tags, call, regressed>>
      BY <1>5 DEF PutRegional
    <2> SUFFICES ASSUME NEW v \in Writers, NEW t \in Tags, AllDone(v, t)', Intact(t)'
                 PROVE  Clean(v, t)'
      BY DEF CleanInv, Clean
    <2>2. AllDone(v, t) /\ Intact(t)
      BY <2>1 DEF AllDone, Intact
    <2>3. CASE p.colo = WriterColo[v] /\ p.tag = t
      <3>1. CASE Outdated(p)
        BY <2>1, <2>3, <3>1 DEF Clean
      <3>2. CASE ~Outdated(p)
        <4>1. p.at >= time[v]
          BY <2>2, <2>3, <3>2, PutIsCleanOrOutdated
        <4>2. cached'[WriterColo[v]][t] = [at |-> p.at, until |-> now + Ttl]
          BY <1>t, <2>1, <2>3
        <4> QED  BY <2>1, <4>1, <4>2 DEF Clean
      <3> QED  BY <3>1, <3>2
    <2>4. CASE ~(p.colo = WriterColo[v] /\ p.tag = t)
      <3>1. cached'[WriterColo[v]][t] = cached[WriterColo[v]][t]
        BY <1>t, <2>1, <2>4
      <3>2. <<WriterColo[v], t>> \in leftover => <<WriterColo[v], t>> \in leftover'
        BY <2>1, <2>4
      <3>3. Clean(v, t)
        BY <2>2 DEF CleanInv, Clean
      <3> QED  BY <2>1, <3>1, <3>2, <3>3 DEF Clean
    <2> QED  BY <2>3, <2>4
  <1>6. ASSUME UNCHANGED <<cached, leftover, time, tags, call, regressed>> PROVE CleanInv'
    BY <1>6, CleanUnchanged DEF AllDone
  <1>7. ASSUME NEW w \in Writers, WriteReturns(w) PROVE CleanInv'
    BY <1>6, <1>7 DEF WriteReturns
  <1>8. ASSUME NEW k \in Checks, NEW ts \in SUBSET Tags, StartCheck(k, ts) PROVE CleanInv'
    BY <1>6, <1>8 DEF StartCheck
  <1>9. ASSUME NEW k \in Checks, NEW t \in Tags, MatchRegional(k, t) \/ MissRegional(k, t)
        PROVE  CleanInv'
    BY <1>6, <1>9 DEF MatchRegional, MissRegional
  <1>10. ASSUME NEW k \in Checks, NEW d \in Objects,
                Ask(k, d) \/ AskInError(k, d) \/ CheckFails(k, d)
         PROVE  CleanInv'
    BY <1>6, <1>10 DEF Ask, AskInError, CheckFails
  <1>11. ASSUME NEW k \in Checks, FinishCheck(k) PROVE CleanInv'
    BY <1>6, <1>11 DEF FinishCheck
  <1>12. ASSUME NEW p \in puts, DropPut(p) PROVE CleanInv'
    BY <1>6, <1>12 DEF DropPut
  <1>13. CASE Tick \/ UNCHANGED vars
    BY <1>6, <1>13 DEF Tick, vars
  <1> HIDE DEF CleanInv
  <1> QED
    BY <1>1, <1>2, <1>3, <1>4, <1>5, <1>7, <1>8, <1>9, <1>10, <1>11, <1>12, <1>13
    DEF Next, Write

\* A write that has returned with none of its calls dead has ended them all.
LEMMA ReturnedAllDone ==
    ASSUME WriteInv, NEW w \in Writers, NEW t \in tags[w], writer[w] = "done", ~Dead(w, t)
    PROVE  AllDone(w, t)
  <1> SUFFICES ASSUME NEW d \in Objects, t \in ShardTags(d) PROVE call[w][d] = "done"
    BY DEF AllDone
  <1>1. t \in Group(w, d)
    BY DEF Group
  <1>2. call[w][d] \in {"none", "done", "dead"} /\ call[w][d] # "none"
    BY <1>1 DEF WriteInv, CallsMade
  <1> QED  BY <1>2 DEF Dead

\* The colo of a writer does not go back to what its write superseded, but for
\* what was left over.
THEOREM WritersSeeTheirWrites == Spec => []WriterColoClean
  <1>1. Init => TypeInv /\ WriteInv /\ CleanInv
    <2>1. ASSUME Init, NEW w \in Writers, NEW t \in Tags PROVE Clean(w, t)
      BY <2>1 DEF Init, Clean
    <2>2. Init => CleanInv
      BY <2>1 DEF CleanInv
    <2> QED  BY <2>2, TypeInit, WriteInvInit
  <1>2. TypeInv /\ WriteInv /\ CleanInv => WriterColoClean
    <2> SUFFICES ASSUME TypeInv, WriteInv, CleanInv, NEW w \in Writers, NEW t \in tags[w],
                        writer[w] = "done", ~Dead(w, t), Intact(t), Hit(WriterColo[w], t)
                 PROVE  \/ cached[WriterColo[w]][t].at >= time[w]
                        \/ <<WriterColo[w], t>> \in leftover
      BY DEF WriterColoClean
    <2>1. t \in Tags
      BY DEF TypeInv, TypeOK
    <2>2. AllDone(w, t)
      BY ReturnedAllDone
    <2> QED  BY <2>1, <2>2 DEF CleanInv, Clean, Hit
  <1> QED  BY <1>1, <1>2, TypeStep, WriteInvStep, CleanStep, PTL DEF Spec

-----------------------------------------------------------------------------
(* What is seen after the delay.                                           *)

DoneWrite(w, t) == t \in tags[w] /\ writer[w] = "done" /\ ~Dead(w, t)

Trusted(t) == Intact(t) /\ t \notin unread

\* Nothing is put later than it may be, nor kept longer.
Timely ==
    /\ \A w \in Writers : writer[w] = "done" => doneAt[w] \in Nat /\ doneAt[w] <= now
    /\ \A p \in puts : p.since <= now /\ now <= p.since + PutDelay
    /\ \A c \in Colos, t \in Tags : cached[c][t] # None => cached[c][t].until <= now + Ttl

\* What a replica answered has every write that had returned by then.
PutsSee ==
    \A p \in puts, w \in Writers :
        DoneWrite(w, p.tag) /\ Trusted(p.tag) /\ doneAt[w] < p.since => p.at >= time[w]

\* An entry kept long after a write returned was read since.
EntriesSee ==
    \A c \in Colos, t \in Tags, w \in Writers :
        /\ cached[c][t] # None
        /\ DoneWrite(w, t) /\ Trusted(t) /\ doneAt[w] + Ttl + PutDelay < cached[c][t].until
        => cached[c][t].at >= time[w]

\* A write that has to be seen, and a floor that is the time of one, if any.
ToBeSeen(w, t) == DoneWrite(w, t) /\ doneAt[w] + Lag <= now

IsFloor(at, t) == at = 0 \/ \E w \in Writers : ToBeSeen(w, t) /\ at = time[w]

FloorsVisible == \A k \in Checks, t \in Tags : IsFloor(floor[k][t], t)

Begun ==
    /\ \A k \in Checks, t \in Tags : check[k] = "idle" => fetched[k][t] = None
    /\ \A k \in Checks : ~opts.regionalCache => unmatched[k] = {}

FetchedSee ==
    \A k \in Checks, t \in Tags :
        Trusted(t) /\ fetched[k][t] # None => fetched[k][t] >= floor[k][t]

\* The floor of a request is set by the first of its checks, before anything is kept
\* for it, and those of its later checks are not lower.
RequestFloors ==
    /\ \A r \in Requests, t \in Tags : IsFloor(requestFloor[r][t], t)
    /\ \A k \in Checks, t \in Tags :
        /\ check[k] # "idle" => floor[k][t] >= requestFloor[RequestOf[k]][t]
        /\ check[k] = "idle" => remembered[k][t] = None
    /\ \A r \in Requests, t \in Tags :
        memo[r][t] # None => \E k \in Checks : RequestOf[k] = r /\ check[k] # "idle"

\* What is kept for a request, and what is taken of it, shows the writes that had to be
\* seen when it began.
MemoSees ==
    \A t \in Tags : Trusted(t) =>
        /\ \A r \in Requests : memo[r][t] # None => memo[r][t] >= requestFloor[r][t]
        /\ \A k \in Checks :
            remembered[k][t] # None => remembered[k][t] >= requestFloor[RequestOf[k]][t]

LagInv ==
    /\ Timely /\ PutsSee /\ EntriesSee /\ FloorsVisible /\ Begun /\ FetchedSee
    /\ RequestFloors /\ MemoSees

-----------------------------------------------------------------------------
(* What a step does to writes, to the caches and to what checks have read. *)

\* A write that is done stays as it is; one that gets done does so now.
LEMMA WritingEffect ==
    ASSUME TypeInv, WriteInv, [Next]_vars, NEW w \in Writers
    PROVE  /\ writer[w] = "done" =>
                /\ writer'[w] = "done" /\ tags'[w] = tags[w]
                /\ time'[w] = time[w] /\ doneAt'[w] = doneAt[w]
                /\ \A d \in Objects : call'[w][d] = call[w][d]
           /\ writer'[w] = "done" /\ writer[w] # "done" =>
                doneAt'[w] = now /\ now' = now
  <1> DEFINE Goal ==
           /\ writer[w] = "done" =>
                /\ writer'[w] = "done" /\ tags'[w] = tags[w]
                /\ time'[w] = time[w] /\ doneAt'[w] = doneAt[w]
                /\ \A d \in Objects : call'[w][d] = call[w][d]
           /\ writer'[w] = "done" /\ writer[w] # "done" =>
                doneAt'[w] = now /\ now' = now
  <1>t. /\ writer \in [Writers -> {"idle", "writing", "done"}]
        /\ tags \in [Writers -> SUBSET Tags] /\ time \in [Writers -> Nat]
        /\ call \in [Writers -> [Objects -> Calls]]
        /\ doneAt \in [Writers -> Nat \cup {None}]
    BY DEF TypeInv, TypeOK
  <1> USE DEF objects, regional, writing, reading, started
  <1>1. ASSUME NEW v \in Writers, NEW ts \in SUBSET Tags, WriteTags(v, ts) PROVE Goal
    <2>1. /\ writer[v] = "idle" /\ writer' = [writer EXCEPT ![v] = "writing"]
          /\ tags' = [tags EXCEPT ![v] = ts] /\ time' = [time EXCEPT ![v] = now]
          /\ call' = [call EXCEPT ![v] =
                        [d \in Objects |-> IF d \in GroupsOf(ts) THEN "sent" ELSE "none"]]
          /\ UNCHANGED doneAt
      BY <1>1 DEF WriteTags
    <2> QED  BY <1>t, <2>1
  <1>2. ASSUME NEW v \in Writers, NEW d \in Objects, Write(v, d) PROVE Goal
    <2>1. /\ \E state : call' = [call EXCEPT ![v][d] = state]
          /\ call[v][d] \in {"sent", "applied", "succeeded"}
          /\ UNCHANGED <<writer, tags, time, doneAt>>
      BY <1>2 DEF Write, Apply, Succeed, Fail, DeleteRegional, DeleteFails, SetCall
    <2>2. writer[w] = "done" => call[w][d] \in {"none", "done", "dead"}
      BY DEF WriteInv, CallsMade
    <2>3. writer[w] = "done" => \A e \in Objects : call'[w][e] = call[w][e]
      BY <1>t, <2>1, <2>2
    <2> QED  BY <2>1, <2>3
  <1>3. ASSUME NEW v \in Writers, WriteReturns(v) PROVE Goal
    BY <1>t, <1>3 DEF WriteReturns
  <1>4. ASSUME UNCHANGED writing PROVE Goal
    BY <1>4
  <1>5. ASSUME NEW k \in Checks, NEW ts \in SUBSET Tags, StartCheck(k, ts) PROVE Goal
    BY <1>4, <1>5 DEF StartCheck
  <1>6. ASSUME NEW k \in Checks, NEW t \in Tags, MatchRegional(k, t) \/ MissRegional(k, t)
        PROVE  Goal
    BY <1>4, <1>6 DEF MatchRegional, MissRegional
  <1>7. ASSUME NEW k \in Checks, NEW d \in Objects,
               Ask(k, d) \/ AskInError(k, d) \/ CheckFails(k, d)
        PROVE  Goal
    BY <1>4, <1>7 DEF Ask, AskInError, CheckFails
  <1>8. ASSUME NEW k \in Checks, FinishCheck(k) PROVE Goal
    BY <1>4, <1>8 DEF FinishCheck
  <1>9. ASSUME NEW p \in puts, PutRegional(p) \/ DropPut(p) PROVE Goal
    BY <1>4, <1>9 DEF PutRegional, DropPut
  <1>10. ASSUME Tick \/ UNCHANGED vars PROVE Goal
    BY <1>4, <1>10 DEF Tick, vars
  <1> HIDE DEF Goal
  <1>11. Goal
    BY <1>1, <1>2, <1>3, <1>5, <1>6, <1>7, <1>8, <1>9, <1>10 DEF Next
  <1> QED  BY <1>11 DEF Goal

\* The options do not change, time goes on, what is lost stays lost.
LEMMA GlobalEffect ==
    ASSUME TypeInv, [Next]_vars
    PROVE  /\ opts' = opts
           /\ \/ now' = now
              \/ Tick
           /\ regressed \subseteq regressed' /\ unread \subseteq unread'
  <1> USE DEF objects, regional, writing, reading, started
  <1>1. ASSUME NEW w \in Writers, NEW d \in Objects, Write(w, d)
        PROVE  UNCHANGED <<opts, now, unread>> /\ regressed \subseteq regressed'
    BY <1>1 DEF Write, Apply, Succeed, Fail, DeleteRegional, DeleteFails
  <1>2. ASSUME NEW k \in Checks, NEW d \in Objects,
               Ask(k, d) \/ AskInError(k, d) \/ CheckFails(k, d)
        PROVE  UNCHANGED <<opts, now, regressed>> /\ unread \subseteq unread'
    BY <1>2 DEF Ask, AskInError, CheckFails
  <1>3. CASE Tick
    BY <1>3 DEF Tick
  <1>4. CASE UNCHANGED vars
    BY <1>4 DEF vars
  <1> QED
    BY <1>1, <1>2, <1>3, <1>4
    DEF Next, WriteTags, WriteReturns, StartCheck, MatchRegional, MissRegional, FinishCheck,
        PutRegional, DropPut

\* An entry of a regional cache stays, goes, or is one that was left to be put.
LEMMA CachedEffect ==
    ASSUME TypeInv, [Next]_vars, NEW c \in Colos, NEW t \in Tags
    PROVE  \/ cached'[c][t] \in {cached[c][t], None}
           \/ \E p \in puts : /\ p.tag = t /\ now' = now /\ UNCHANGED writing
                              /\ cached'[c][t] = [at |-> p.at, until |-> now + Ttl]
  <1> DEFINE Goal ==
           \/ cached'[c][t] \in {cached[c][t], None}
           \/ \E p \in puts : /\ p.tag = t /\ now' = now /\ UNCHANGED writing
                              /\ cached'[c][t] = [at |-> p.at, until |-> now + Ttl]
  <1>t. cached \in [Colos -> [Tags -> Entry \cup {None}]]
    BY DEF TypeInv, TypeOK
  <1> USE DEF objects, regional
  <1>1. ASSUME NEW w \in Writers, NEW d \in Objects, DeleteRegional(w, d) PROVE Goal
    <2>1. cached' = [cached EXCEPT ![WriterColo[w]] =
                        [u \in Tags |-> IF u \in Group(w, d) THEN None ELSE @[u]]]
      BY <1>1 DEF DeleteRegional
    <2> QED  BY <1>t, <2>1
  <1>2. ASSUME NEW p \in puts, PutRegional(p) PROVE Goal
    <2>1. cached' = [cached EXCEPT ![p.colo][p.tag] = [at |-> p.at, until |-> now + Ttl]]
      BY <1>2 DEF PutRegional
    <2>2. UNCHANGED <<now, writing>>
      BY <1>2 DEF PutRegional
    <2>3. CASE p.colo = c /\ p.tag = t
      <3>1. cached'[c][t] = [at |-> p.at, until |-> now + Ttl]
        BY <1>t, <2>1, <2>3
      <3> QED  BY <2>2, <2>3, <3>1
    <2>4. CASE ~(p.colo = c /\ p.tag = t)
      <3>1. cached'[c][t] = cached[c][t]
        BY <1>t, <2>1, <2>4
      <3> QED  BY <3>1
    <2> QED  BY <2>3, <2>4
  <1>3. ASSUME UNCHANGED cached PROVE Goal
    BY <1>3
  <1>14. ASSUME NEW w \in Writers, NEW d \in Objects, DeleteFails(w, d) PROVE Goal
    <2>1. PICK kept :
            cached' = [cached EXCEPT ![WriterColo[w]] =
                        [u \in Tags |-> IF u \in Group(w, d) \ kept THEN None ELSE @[u]]]
      BY <1>14 DEF DeleteFails
    <2> QED  BY <1>t, <2>1
  <1>4. ASSUME NEW w \in Writers, NEW d \in Objects,
               Apply(w, d) \/ Succeed(w, d) \/ Fail(w, d)
        PROVE  Goal
    BY <1>3, <1>4 DEF Apply, Succeed, Fail
  <1>5. ASSUME NEW k \in Checks, NEW d \in Objects,
               Ask(k, d) \/ AskInError(k, d) \/ CheckFails(k, d)
        PROVE  Goal
    BY <1>3, <1>5 DEF Ask, AskInError, CheckFails
  <1>6. ASSUME NEW k \in Checks, NEW u \in Tags, MatchRegional(k, u) \/ MissRegional(k, u)
        PROVE  Goal
    BY <1>3, <1>6 DEF MatchRegional, MissRegional
  <1>7. ASSUME Tick \/ UNCHANGED vars PROVE Goal
    BY <1>3, <1>7 DEF Tick, vars
  <1>8. ASSUME NEW p \in puts, DropPut(p) PROVE Goal
    BY <1>3, <1>8 DEF DropPut
  <1>9. ASSUME NEW k \in Checks, FinishCheck(k) PROVE Goal
    BY <1>3, <1>9 DEF FinishCheck
  <1>10. ASSUME NEW k \in Checks, NEW ts \in SUBSET Tags, StartCheck(k, ts) PROVE Goal
    BY <1>3, <1>10 DEF StartCheck
  <1>11. ASSUME NEW w \in Writers, NEW ts \in SUBSET Tags, WriteTags(w, ts) PROVE Goal
    BY <1>3, <1>11 DEF WriteTags
  <1>12. ASSUME NEW w \in Writers, WriteReturns(w) PROVE Goal
    BY <1>3, <1>12 DEF WriteReturns
  <1> HIDE DEF Goal
  <1>13. Goal
    BY <1>1, <1>2, <1>4, <1>5, <1>6, <1>7, <1>8, <1>9, <1>10, <1>11, <1>12, <1>14
    DEF Next, Write
  <1> QED  BY <1>13 DEF Goal

\* What is left to be put was before, or has just been answered by a replica, or
\* in its error.
LEMMA PutsEffect ==
    ASSUME TypeInv, [Next]_vars, NEW p \in puts'
    PROVE  \/ p \in puts
           \/ /\ p.since = now /\ now' = now /\ UNCHANGED writing
              /\ p.tag \in Tags
              /\ \/ p.tag \in unread'
                 \/ \E d \in Objects : p.tag \in ShardTags(d) /\ p.at = rows[d][p.tag]
  <1> DEFINE Goal ==
           \/ p \in puts
           \/ /\ p.since = now /\ now' = now /\ UNCHANGED writing
              /\ p.tag \in Tags
              /\ \/ p.tag \in unread'
                 \/ \E d \in Objects : p.tag \in ShardTags(d) /\ p.at = rows[d][p.tag]
  <1> USE DEF objects, regional
  <1>1. ASSUME NEW k \in Checks, NEW ts, NEW read, p \in PutsOf(k, ts, read)
        PROVE  p.tag \in ts /\ p.since = now /\ p.at = read[p.tag]
    BY <1>1 DEF PutsOf
  <1>2. ASSUME NEW k \in Checks, NEW d \in Objects, Ask(k, d) PROVE Goal
    <2>1. puts' = puts \cup PutsOf(k, Remaining(k, d), rows[d])
      BY <1>2 DEF Ask
    <2>2. UNCHANGED <<now, writing>>
      BY <1>2 DEF Ask
    <2>3. CASE p \in PutsOf(k, Remaining(k, d), rows[d])
      <3>1. p.tag \in Remaining(k, d) /\ p.since = now /\ p.at = rows[d][p.tag]
        BY <1>1, <2>3
      <3>2. p.tag \in ShardTags(d) /\ p.tag \in Tags
        BY <3>1 DEF Remaining, ShardTags
      <3> QED  BY <2>2, <3>1, <3>2
    <2> QED  BY <2>1, <2>3
  <1>3. ASSUME NEW k \in Checks, NEW d \in Objects, AskInError(k, d) PROVE Goal
    <2> DEFINE nothing == [t \in Tags |-> 0]
    <2>1. puts' = puts \cup PutsOf(k, Remaining(k, d), nothing)
      BY <1>3 DEF AskInError
    <2>2. UNCHANGED <<now, writing>> /\ Remaining(k, d) \subseteq unread'
      BY <1>3 DEF AskInError
    <2> HIDE DEF nothing
    <2>3. CASE p \in PutsOf(k, Remaining(k, d), nothing)
      <3>1. p.tag \in Remaining(k, d) /\ p.since = now
        BY <1>1, <2>3
      <3>2. p.tag \in Tags
        BY <3>1 DEF Remaining, ShardTags
      <3> QED  BY <2>2, <3>1, <3>2
    <2> QED  BY <2>1, <2>3
  <1>4. ASSUME puts' \subseteq puts PROVE Goal
    BY <1>4
  <1>5. ASSUME NEW k \in Checks, NEW d \in Objects, CheckFails(k, d) PROVE Goal
    BY <1>4, <1>5 DEF CheckFails
  <1>6. ASSUME NEW q \in puts, PutRegional(q) \/ DropPut(q) PROVE Goal
    BY <1>4, <1>6 DEF PutRegional, DropPut
  <1>7. ASSUME Tick \/ UNCHANGED vars PROVE Goal
    BY <1>4, <1>7 DEF Tick, vars
  <1>8. ASSUME NEW w \in Writers, NEW d \in Objects, Write(w, d) PROVE Goal
    BY <1>4, <1>8 DEF Write, Apply, Succeed, Fail, DeleteRegional, DeleteFails
  <1>9. ASSUME NEW k \in Checks, NEW t \in Tags, MatchRegional(k, t) \/ MissRegional(k, t)
        PROVE  Goal
    BY <1>4, <1>9 DEF MatchRegional, MissRegional
  <1>10. ASSUME NEW k \in Checks, FinishCheck(k) PROVE Goal
    BY <1>4, <1>10 DEF FinishCheck
  <1>11. ASSUME NEW k \in Checks, NEW ts \in SUBSET Tags, StartCheck(k, ts) PROVE Goal
    BY <1>4, <1>11 DEF StartCheck
  <1>12. ASSUME NEW w \in Writers, NEW ts \in SUBSET Tags, WriteTags(w, ts) PROVE Goal
    BY <1>4, <1>12 DEF WriteTags
  <1>13. ASSUME NEW w \in Writers, WriteReturns(w) PROVE Goal
    BY <1>4, <1>13 DEF WriteReturns
  <1> HIDE DEF Goal
  <1>14. Goal
    BY <1>2, <1>3, <1>5, <1>6, <1>7, <1>8, <1>9, <1>10, <1>11, <1>12, <1>13 DEF Next
  <1> QED  BY <1>14 DEF Goal

\* How a check k comes to a value of t: from a replica, in its error, or from the
\* regional cache.  The step changes no write and no floor.
Reads(k, t) ==
    /\ check[k] # "idle" /\ UNCHANGED <<now, writing, floor>>
    /\ \/ t \in unread'
       \/ \E d \in Objects : t \in ShardTags(d) /\ fetched'[k][t] = rows[d][t]
       \/ t \in unmatched[k] /\ \E c \in Colos : Hit(c, t) /\ fetched'[k][t] = cached[c][t].at

\* A check starts, when it has no value yet.
Starts(k, t) ==
    /\ check[k] = "idle" /\ UNCHANGED <<now, writing, fetched>>
    /\ floor'[k][t] = SeenByNow[t]

\* What a step of a check, or of anything else, does to a check.
LEMMA CheckEffect ==
    ASSUME TypeInv, [Next]_vars, NEW k \in Checks, NEW t \in Tags
    PROVE  /\ \/ fetched'[k][t] = fetched[k][t] /\ floor'[k][t] = floor[k][t]
              \/ Reads(k, t)
              \/ Starts(k, t)
           /\ check'[k] = "idle" => check[k] = "idle" /\ fetched'[k][t] = fetched[k][t]
           /\ ~opts.regionalCache /\ unmatched[k] = {} => unmatched'[k] = {}
  <1> DEFINE Goal ==
           /\ \/ fetched'[k][t] = fetched[k][t] /\ floor'[k][t] = floor[k][t]
              \/ Reads(k, t)
              \/ Starts(k, t)
           /\ check'[k] = "idle" => check[k] = "idle" /\ fetched'[k][t] = fetched[k][t]
           /\ ~opts.regionalCache /\ unmatched[k] = {} => unmatched'[k] = {}
  <1>t. /\ check \in [Checks -> {"idle", "asking", "done", "failed"}]
        /\ unmatched \in [Checks -> SUBSET Tags]
        /\ fetched \in [Checks -> [Tags -> Nat \cup {None}]]
        /\ floor \in [Checks -> [Tags -> Nat]]
        /\ cached \in [Colos -> [Tags -> Entry \cup {None}]]
    BY DEF TypeInv, TypeOK
  <1> USE DEF objects, regional, reading, started
  <1>1. ASSUME NEW j \in Checks, NEW ts \in SUBSET Tags, StartCheck(j, ts) PROVE Goal
    <2> DEFINE uncached == {u \in ts : MemoOf(j)[u] = None}
    <2>1. /\ check[j] = "idle"
          /\ unmatched' = [unmatched EXCEPT ![j] = IF opts.regionalCache THEN uncached ELSE {}]
          /\ check' = [check EXCEPT ![j] = IF uncached = {} THEN "done" ELSE "asking"]
          /\ floor' = [floor EXCEPT ![j] = SeenByNow]
          /\ UNCHANGED <<now, writing, fetched>>
      BY <1>1 DEF StartCheck
    <2> HIDE DEF uncached
    <2>3. CASE j = k
      <3>1. floor'[k][t] = SeenByNow[t]
        BY <1>t, <2>1, <2>3
      <3>2. Starts(k, t)
        BY <2>1, <2>3, <3>1 DEF Starts
      <3>3. check'[k] # "idle" /\ (~opts.regionalCache => unmatched'[k] = {})
        BY <1>t, <2>1, <2>3
      <3> QED  BY <3>2, <3>3
    <2>4. CASE j # k
      BY <1>t, <2>1, <2>4
    <2> QED  BY <2>3, <2>4
  <1>2. ASSUME NEW j \in Checks, NEW u \in Tags, MatchRegional(j, u) PROVE Goal
    <2> DEFINE colo == RequestColo[RequestOf[j]]
    <2>1. /\ check[j] # "idle" /\ u \in unmatched[j] /\ Hit(colo, u)
          /\ unmatched' = [unmatched EXCEPT ![j] = @ \ {u}]
          /\ Receive(j, {u}, [v \in {u} |-> cached[colo][v].at])
          /\ UNCHANGED <<now, writing, check, floor>>
      BY <1>2 DEF MatchRegional, Resolving
    <2>2. fetched' = [fetched EXCEPT ![j] =
                        [v \in Tags |-> IF v \in {u} THEN cached[colo][u].at ELSE @[v]]]
      BY <2>1 DEF Receive
    <2>3. colo \in Colos
      OBVIOUS
    <2> HIDE DEF colo
    <2>4. CASE j = k /\ u = t
      <3>1. fetched'[k][t] = cached[colo][t].at
        BY <1>t, <2>2, <2>4
      <3>2. Reads(k, t)
        BY <2>1, <2>3, <2>4, <3>1 DEF Reads
      <3> QED  BY <1>t, <2>1, <2>4, <3>2
    <2>5. CASE ~(j = k /\ u = t)
      <3>1. fetched'[k][t] = fetched[k][t]
        BY <1>t, <2>2, <2>5
      <3>2. ~opts.regionalCache /\ unmatched[k] = {} => unmatched'[k] = {}
        BY <1>t, <2>1
      <3> QED  BY <2>1, <3>1, <3>2
    <2> QED  BY <2>4, <2>5
  <1>3. ASSUME NEW j \in Checks, NEW u \in Tags, MissRegional(j, u) PROVE Goal
    <2>1. /\ unmatched' = [unmatched EXCEPT ![j] = @ \ {u}]
          /\ UNCHANGED <<check, fetched, floor>>
      BY <1>3 DEF MissRegional
    <2> QED  BY <1>t, <2>1
  <1>4. ASSUME NEW j \in Checks, NEW d \in Objects, Ask(j, d) \/ AskInError(j, d) PROVE Goal
    <2>1. PICK read : /\ Receive(j, Remaining(j, d), read)
                      /\ read = rows[d] \/ Remaining(j, d) \subseteq unread'
      BY <1>4 DEF Ask, AskInError
    <2>2. /\ UNCHANGED <<now, writing, check, unmatched, floor>>
          /\ Remaining(j, d) # {}
      BY <1>4 DEF Ask, AskInError
    <2>3. fetched' = [fetched EXCEPT ![j] =
                        [v \in Tags |-> IF v \in Remaining(j, d) THEN read[v] ELSE @[v]]]
      BY <2>1 DEF Receive
    <2>4. check[j] # "idle" /\ Remaining(j, d) \subseteq ShardTags(d)
      BY <2>2 DEF Remaining, Resolving
    <2>5. CASE j = k /\ t \in Remaining(j, d)
      <3>1. fetched'[k][t] = read[t]
        BY <1>t, <2>3, <2>5
      <3>2. Reads(k, t)
        BY <2>1, <2>2, <2>4, <2>5, <3>1 DEF Reads
      <3> QED  BY <2>2, <2>4, <2>5, <3>2
    <2>6. CASE ~(j = k /\ t \in Remaining(j, d))
      <3>1. fetched'[k][t] = fetched[k][t]
        BY <1>t, <2>3, <2>6
      <3> QED  BY <2>2, <3>1
    <2> QED  BY <2>5, <2>6
  <1>5. ASSUME NEW j \in Checks, NEW d \in Objects, CheckFails(j, d) PROVE Goal
    <2>1. /\ check' = [check EXCEPT ![j] = "failed"]
          /\ UNCHANGED <<unmatched, fetched, floor>>
      BY <1>5 DEF CheckFails
    <2> QED  BY <1>t, <2>1
  <1>6. ASSUME NEW j \in Checks, FinishCheck(j) PROVE Goal
    <2>1. /\ check' = [check EXCEPT ![j] = "done"]
          /\ UNCHANGED <<unmatched, fetched, floor>>
      BY <1>6 DEF FinishCheck
    <2> QED  BY <1>t, <2>1
  <1>7. ASSUME UNCHANGED reading PROVE Goal
    BY <1>7
  <1>8. ASSUME NEW p \in puts, PutRegional(p) \/ DropPut(p) PROVE Goal
    BY <1>7, <1>8 DEF PutRegional, DropPut
  <1>9. ASSUME Tick \/ UNCHANGED vars PROVE Goal
    BY <1>7, <1>9 DEF Tick, vars
  <1>10. ASSUME NEW w \in Writers, NEW d \in Objects, Write(w, d) PROVE Goal
    BY <1>7, <1>10 DEF Write, Apply, Succeed, Fail, DeleteRegional, DeleteFails
  <1>11. ASSUME NEW w \in Writers, NEW ts \in SUBSET Tags, WriteTags(w, ts) PROVE Goal
    BY <1>7, <1>11 DEF WriteTags
  <1>12. ASSUME NEW w \in Writers, WriteReturns(w) PROVE Goal
    BY <1>7, <1>12 DEF WriteReturns
  <1> HIDE DEF Goal
  <1>13. Goal
    BY <1>1, <1>2, <1>3, <1>4, <1>5, <1>6, <1>8, <1>9, <1>10, <1>11, <1>12 DEF Next
  <1> QED  BY <1>13 DEF Goal

\* A write that is done for a tag remains so; one that gets done does so now.
LEMMA DoneWriteEffect ==
    ASSUME TypeInv, WriteInv, [Next]_vars, NEW w \in Writers, NEW t \in Tags
    PROVE  /\ DoneWrite(w, t) =>
                DoneWrite(w, t)' /\ time'[w] = time[w] /\ doneAt'[w] = doneAt[w]
           /\ DoneWrite(w, t)' =>
                \/ DoneWrite(w, t) /\ time'[w] = time[w] /\ doneAt'[w] = doneAt[w]
                \/ doneAt'[w] = now /\ now' = now
  <1>1. CASE writer[w] = "done"
    <2>1. /\ writer'[w] = "done" /\ tags'[w] = tags[w]
          /\ time'[w] = time[w] /\ doneAt'[w] = doneAt[w]
          /\ \A d \in Objects : call'[w][d] = call[w][d]
      BY <1>1, WritingEffect
    <2>2. Dead(w, t)' = Dead(w, t)
      BY <2>1 DEF Dead
    <2> QED  BY <1>1, <2>1, <2>2 DEF DoneWrite
  <1>2. CASE writer[w] # "done"
    <2>1. writer'[w] = "done" => doneAt'[w] = now /\ now' = now
      BY <1>2, WritingEffect
    <2> QED  BY <1>2, <2>1 DEF DoneWrite
  <1> QED  BY <1>1, <1>2

LEMMA TrustedStep ==
    ASSUME TypeInv, [Next]_vars, NEW t \in Tags, Trusted(t)'
    PROVE  Trusted(t)
  BY GlobalEffect DEF Trusted, Intact

\* Whichever replica is read has the writes that are done.
LEMMA ReadSees ==
    ASSUME TypeInv, WriteInv, NEW w \in Writers, NEW d \in Objects, NEW t \in ShardTags(d),
           DoneWrite(w, t), Intact(t)
    PROVE  rows[d][t] >= time[w]
  <1>1. AllDone(w, t)
    BY ReturnedAllDone DEF DoneWrite
  <1>2. call[w][d] = "done" /\ t \in Group(w, d)
    BY <1>1 DEF AllDone, Group
  <1> QED  BY <1>2 DEF WriteInv, AppliedHasIt, HasIt, Intact

-----------------------------------------------------------------------------
(* The parts of the invariant.                                             *)

LEMMA TimelyStep == TypeInv /\ WriteInv /\ Timely /\ [Next]_vars => Timely'
  <1> SUFFICES ASSUME TypeInv, WriteInv, Timely, [Next]_vars PROVE Timely'
    OBVIOUS
  <1>1. now \in Nat /\ now' \in Nat /\ now <= now'
    BY GlobalEffect DEF TypeInv, TypeOK, Tick
  <1>2. ASSUME NEW w \in Writers, writer'[w] = "done"
        PROVE  doneAt'[w] \in Nat /\ doneAt'[w] <= now'
    <2>1. CASE writer[w] = "done"
      <3>1. doneAt'[w] = doneAt[w]
        BY <2>1, WritingEffect
      <3>2. doneAt[w] \in Nat /\ doneAt[w] <= now
        BY <2>1 DEF Timely
      <3> QED  BY <1>1, <3>1, <3>2
    <2>2. CASE writer[w] # "done"
      <3>1. doneAt'[w] = now
        BY <1>2, <2>2, WritingEffect
      <3> QED  BY <1>1, <3>1
    <2> QED  BY <2>1, <2>2
  <1>3. ASSUME NEW p \in puts' PROVE p.since <= now' /\ now' <= p.since + PutDelay
    <2>1. CASE p \in puts
      <3>1. p.since \in Nat /\ PutDelay \in Nat
        BY <2>1 DEF TypeInv, TypeOK
      <3>2. p.since <= now /\ now <= p.since + PutDelay
        BY <2>1 DEF Timely
      <3>3. now' = now \/ (now' = now + 1 /\ now < p.since + PutDelay)
        BY <2>1, GlobalEffect DEF Tick
      <3> QED  BY <1>1, <3>1, <3>2, <3>3
    <2>2. CASE p \notin puts
      <3>1. p.since = now /\ now' = now /\ PutDelay \in Nat
        BY <2>2, PutsEffect
      <3> QED  BY <1>1, <3>1
    <2> QED  BY <2>1, <2>2
  <1>4. ASSUME NEW c \in Colos, NEW t \in Tags, cached'[c][t] # None
        PROVE  cached'[c][t].until <= now' + Ttl
    <2>1. CASE cached'[c][t] = cached[c][t]
      <3>1. cached[c][t] \in Entry
        BY <1>4, <2>1 DEF TypeInv, TypeOK
      <3>2. cached[c][t].until \in Nat /\ Ttl \in Nat
        BY <3>1 DEF Entry
      <3>3. cached[c][t].until <= now + Ttl
        BY <1>4, <2>1 DEF Timely
      <3> QED  BY <1>1, <2>1, <3>2, <3>3
    <2>2. CASE cached'[c][t] # cached[c][t]
      <3>1. PICK p \in puts : now' = now /\ cached'[c][t] = [at |-> p.at, until |-> now + Ttl]
        BY <1>4, <2>2, CachedEffect
      <3>2. cached'[c][t].until = now + Ttl /\ Ttl \in Nat
        BY <3>1
      <3> QED  BY <1>1, <3>1, <3>2
    <2> QED  BY <2>1, <2>2
  <1> QED  BY <1>2, <1>3, <1>4 DEF Timely

LEMMA PutsSeeStep ==
    TypeInv /\ WriteInv /\ Timely /\ PutsSee /\ [Next]_vars => PutsSee'
  <1> SUFFICES ASSUME TypeInv, WriteInv, Timely, PutsSee, [Next]_vars,
                      NEW p \in puts', NEW w \in Writers,
                      DoneWrite(w, p.tag)', Trusted(p.tag)', doneAt'[w] < p.since
               PROVE  p.at >= time'[w]
    BY DEF PutsSee
  <1>1. CASE p \in puts
    <2>1. p.tag \in Tags /\ p.since \in Nat /\ now \in Nat /\ p.since <= now
      BY <1>1 DEF TypeInv, TypeOK, Timely
    <2>2. Trusted(p.tag)
      BY <2>1, TrustedStep
    <2>3. ~(doneAt'[w] = now)
      BY <2>1
    <2>4. DoneWrite(w, p.tag) /\ time'[w] = time[w] /\ doneAt'[w] = doneAt[w]
      BY <2>1, <2>3, DoneWriteEffect
    <2> QED  BY <1>1, <2>2, <2>4 DEF PutsSee
  <1>2. CASE p \notin puts
    <2>1. UNCHANGED writing /\ p.tag \in Tags
      BY <1>2, PutsEffect
    <2>2. PICK d \in Objects : p.tag \in ShardTags(d) /\ p.at = rows[d][p.tag]
      BY <1>2, PutsEffect DEF Trusted
    <2>3. DoneWrite(w, p.tag) /\ time'[w] = time[w]
      BY <2>1 DEF writing, DoneWrite, Dead
    <2>4. Intact(p.tag)
      BY <2>1, TrustedStep DEF Trusted
    <2> QED  BY <2>2, <2>3, <2>4, ReadSees
  <1> QED  BY <1>1, <1>2

LEMMA EntriesSeeStep ==
    TypeInv /\ WriteInv /\ Timely /\ PutsSee /\ EntriesSee /\ [Next]_vars => EntriesSee'
  <1> SUFFICES ASSUME TypeInv, WriteInv, Timely, PutsSee, EntriesSee, [Next]_vars,
                      NEW c \in Colos, NEW t \in Tags, NEW w \in Writers,
                      cached'[c][t] # None, DoneWrite(w, t)', Trusted(t)',
                      doneAt'[w] + Ttl + PutDelay < cached'[c][t].until
               PROVE  cached'[c][t].at >= time'[w]
    BY DEF EntriesSee
  <1>1. now \in Nat /\ Ttl \in Nat /\ PutDelay \in Nat
    BY DEF TypeInv, TypeOK
  <1>2. Trusted(t)
    BY TrustedStep
  <1>3. CASE cached'[c][t] = cached[c][t]
    <2>1. cached[c][t] \in Entry
      BY <1>3 DEF TypeInv, TypeOK
    <2>2. cached[c][t].until \in Nat /\ cached[c][t].until <= now + Ttl
      BY <1>3, <2>1 DEF Entry, Timely
    <2>3. ~(doneAt'[w] = now)
      <3> SUFFICES ASSUME doneAt'[w] = now PROVE FALSE
        OBVIOUS
      <3>1. now + Ttl + PutDelay < cached[c][t].until
        BY <1>3
      <3> QED  BY <1>1, <2>2, <3>1
    <2>4. DoneWrite(w, t) /\ time'[w] = time[w] /\ doneAt'[w] = doneAt[w]
      BY <2>3, DoneWriteEffect
    <2> QED  BY <1>2, <1>3, <2>4 DEF EntriesSee
  <1>4. CASE cached'[c][t] # cached[c][t]
    <2>1. PICK p \in puts : /\ p.tag = t /\ UNCHANGED writing
                            /\ cached'[c][t] = [at |-> p.at, until |-> now + Ttl]
      BY <1>4, CachedEffect
    <2>2. DoneWrite(w, t) /\ time'[w] = time[w] /\ doneAt'[w] = doneAt[w]
      BY <2>1 DEF writing, DoneWrite, Dead
    <2>3. cached'[c][t].until = now + Ttl /\ cached'[c][t].at = p.at
      BY <2>1
    <2>4. /\ doneAt[w] \in Nat /\ p.since \in Nat
          /\ now <= p.since + PutDelay
          /\ doneAt[w] + Ttl + PutDelay < now + Ttl
      BY <2>2, <2>3 DEF Timely, TypeInv, TypeOK, DoneWrite
    <2>5. doneAt[w] < p.since
      BY <1>1, <2>4
    <2>6. p.at >= time[w]
      BY <1>2, <2>1, <2>2, <2>5 DEF PutsSee
    <2> QED  BY <2>2, <2>3, <2>6
  <1> QED  BY <1>3, <1>4

\* A write that has to be seen remains one, and so a floor remains one; so is what has to
\* be seen by now.
LEMMA IsFloorStep ==
    ASSUME TypeInv, WriteInv, Timely, [Next]_vars, NEW at, NEW t \in Tags,
           IsFloor(at, t) \/ at = SeenByNow[t]
    PROVE  IsFloor(at, t)'
  <1>1. Lag' = Lag /\ Lag \in Nat
    BY GlobalEffect, Ttl \in Nat, PutDelay \in Nat DEF Lag
  <1>2. now \in Nat /\ now' \in Nat /\ now <= now'
    BY GlobalEffect DEF TypeInv, TypeOK, Tick
  <1>3. ASSUME NEW w \in Writers, ToBeSeen(w, t) PROVE ToBeSeen(w, t)' /\ time'[w] = time[w]
    <2>1. DoneWrite(w, t)' /\ time'[w] = time[w] /\ doneAt'[w] = doneAt[w]
      BY <1>3, DoneWriteEffect DEF ToBeSeen
    <2>2. doneAt[w] \in Nat /\ doneAt[w] + Lag <= now
      BY <1>3 DEF Timely, DoneWrite, ToBeSeen
    <2> QED  BY <1>1, <1>2, <2>1, <2>2 DEF ToBeSeen
  <1>4. IsFloor(at, t)
    <2>1. \A w \in Visible(t) : w \in Writers /\ ToBeSeen(w, t)
      BY DEF Visible, DoneWrite, ToBeSeen
    <2> QED  BY <2>1, SeenByNowIsLatest DEF IsFloor
  <1> QED  BY <1>3, <1>4 DEF IsFloor

LEMMA FloorsVisibleStep ==
    TypeInv /\ WriteInv /\ Timely /\ FloorsVisible /\ [Next]_vars => FloorsVisible'
  <1> SUFFICES ASSUME TypeInv, WriteInv, Timely, FloorsVisible, [Next]_vars,
                      NEW k \in Checks, NEW t \in Tags
               PROVE  IsFloor(floor[k][t], t)'
    BY DEF FloorsVisible
  <1> DEFINE at == floor'[k][t]
  <1>1. at = floor[k][t] \/ at = SeenByNow[t]
    BY CheckEffect DEF Reads, Starts
  <1>2. IsFloor(at, t) \/ at = SeenByNow[t]
    BY <1>1 DEF FloorsVisible
  <1> HIDE DEF at
  <1>3. \A x : IsFloor(x, t) \/ x = SeenByNow[t] => IsFloor(x, t)'
    BY IsFloorStep
  <1> QED  BY <1>2, <1>3 DEF at, IsFloor

LEMMA BegunStep == TypeInv /\ Begun /\ [Next]_vars => Begun'
  <1> SUFFICES ASSUME TypeInv, Begun, [Next]_vars PROVE Begun'
    OBVIOUS
  <1>1. ASSUME NEW k \in Checks, NEW t \in Tags, check'[k] = "idle"
        PROVE  fetched'[k][t] = None
    BY <1>1, CheckEffect DEF Begun
  <1>2. ASSUME NEW k \in Checks, ~opts'.regionalCache PROVE unmatched'[k] = {}
    <2>1. ~opts.regionalCache /\ unmatched[k] = {}
      BY <1>2, GlobalEffect DEF Begun
    <2>2. \A t \in Tags : unmatched'[k] = {}
      BY <2>1, CheckEffect
    <2>3. TypeInv'
      BY TypeStep
    <2>4. unmatched'[k] \subseteq Tags
      BY <2>3 DEF TypeInv, TypeOK
    <2> QED  BY <2>2, <2>4
  <1> QED  BY <1>1, <1>2 DEF Begun

LEMMA FetchedSeeStep ==
    TypeInv /\ WriteInv /\ LagInv /\ [Next]_vars => FetchedSee'
  <1> SUFFICES ASSUME TypeInv, WriteInv, LagInv, [Next]_vars,
                      NEW k \in Checks, NEW t \in Tags, fetched'[k][t] # None, Trusted(t)'
               PROVE  fetched'[k][t] >= floor'[k][t]
    BY DEF FetchedSee
  <1>1. Trusted(t)
    BY TrustedStep
  <1>2. CASE fetched'[k][t] = fetched[k][t] /\ floor'[k][t] = floor[k][t]
    BY <1>1, <1>2 DEF LagInv, FetchedSee
  <1>3. CASE Starts(k, t)
    <2>1. fetched'[k][t] = None
      BY <1>3 DEF Starts, LagInv, Begun
    <2> QED  BY <2>1
  <1>4. CASE Reads(k, t)
    <2>1. floor'[k][t] = floor[k][t]
      BY <1>4 DEF Reads
    <2>2. CASE floor[k][t] = 0
      <3>1. TypeInv'
        BY TypeStep
      <3>2. fetched'[k][t] \in Nat
        BY <3>1 DEF TypeInv, TypeOK
      <3> QED  BY <2>1, <2>2, <3>2
    <2>3. CASE floor[k][t] # 0
      <3>1. PICK w \in Writers : /\ DoneWrite(w, t) /\ doneAt[w] + Lag <= now
                                 /\ floor[k][t] = time[w]
        BY <2>3 DEF LagInv, FloorsVisible, IsFloor, ToBeSeen
      <3>2. ASSUME NEW d \in Objects, t \in ShardTags(d), fetched'[k][t] = rows[d][t]
            PROVE  fetched'[k][t] >= time[w]
        BY <1>1, <3>1, <3>2, ReadSees DEF Trusted
      <3>3. ASSUME t \in unmatched[k], NEW c \in Colos, Hit(c, t),
                   fetched'[k][t] = cached[c][t].at
            PROVE  fetched'[k][t] >= time[w]
        <4>1. Lag = Ttl + PutDelay
          BY <3>3 DEF LagInv, Begun, Lag
        <4>2. cached[c][t] # None /\ now < cached[c][t].until
          BY <3>3 DEF Hit
        <4>3. cached[c][t].until \in Nat
          BY <4>2 DEF TypeInv, TypeOK, Entry
        <4>4. /\ doneAt[w] \in Nat /\ now \in Nat
              /\ Ttl \in Nat /\ PutDelay \in Nat
          BY <3>1 DEF LagInv, Timely, DoneWrite, TypeInv, TypeOK
        <4>5. doneAt[w] + Ttl + PutDelay < cached[c][t].until
          BY <3>1, <4>1, <4>2, <4>3, <4>4
        <4> QED  BY <1>1, <3>1, <3>3, <4>2, <4>5 DEF LagInv, EntriesSee
      <3> QED  BY <1>4, <2>1, <3>1, <3>2, <3>3, <1>1 DEF Reads, Trusted
    <2> QED  BY <2>2, <2>3
  <1> QED  BY <1>2, <1>3, <1>4, CheckEffect

\* A step starts a check, ends one, or leaves the floors and the caches of requests.
LEMMA RequestEffect ==
    ASSUME TypeInv, [Next]_vars
    PROVE  \/ \E j \in Checks, ts \in SUBSET Tags : StartCheck(j, ts)
           \/ \E j \in Checks : FinishCheck(j)
           \/ /\ UNCHANGED <<memo, started>>
              /\ \A k \in Checks : check'[k] = "idle" <=> check[k] = "idle"
  <1> DEFINE Goal ==
           /\ UNCHANGED <<memo, started>>
           /\ \A k \in Checks : check'[k] = "idle" <=> check[k] = "idle"
  <1>1. ASSUME UNCHANGED <<memo, started, check>> PROVE Goal
    BY <1>1
  <1>2. ASSUME UNCHANGED reading PROVE Goal
    BY <1>2 DEF reading
  <1>3. ASSUME NEW k \in Checks, NEW t \in Tags, MatchRegional(k, t) \/ MissRegional(k, t)
        PROVE  Goal
    BY <1>1, <1>3 DEF MatchRegional, MissRegional
  <1>4. ASSUME NEW k \in Checks, NEW d \in Objects, Ask(k, d) \/ AskInError(k, d) PROVE Goal
    BY <1>1, <1>4 DEF Ask, AskInError
  <1>5. ASSUME NEW k \in Checks, NEW d \in Objects, CheckFails(k, d) PROVE Goal
    <2>1. /\ check' = [check EXCEPT ![k] = "failed"]
          /\ UNCHANGED <<memo, started>>
          /\ check[k] # "idle"
      BY <1>5 DEF CheckFails, Remaining, Resolving
    <2>2. check \in [Checks -> {"idle", "asking", "done", "failed"}]
      BY DEF TypeInv, TypeOK
    <2> QED  BY <2>1, <2>2
  <1>6. ASSUME NEW p \in puts, PutRegional(p) \/ DropPut(p) PROVE Goal
    BY <1>2, <1>6 DEF PutRegional, DropPut
  <1>7. ASSUME Tick \/ UNCHANGED vars PROVE Goal
    BY <1>2, <1>7 DEF Tick, vars
  <1>8. ASSUME NEW w \in Writers, NEW d \in Objects, Write(w, d) PROVE Goal
    BY <1>2, <1>8 DEF Write, Apply, Succeed, Fail, DeleteRegional, DeleteFails
  <1>9. ASSUME NEW w \in Writers, NEW ts \in SUBSET Tags, WriteTags(w, ts) PROVE Goal
    BY <1>2, <1>9 DEF WriteTags
  <1>10. ASSUME NEW w \in Writers, WriteReturns(w) PROVE Goal
    BY <1>2, <1>10 DEF WriteReturns
  <1> HIDE DEF Goal
  <1>11. \/ \E j \in Checks, ts \in SUBSET Tags : StartCheck(j, ts)
         \/ \E j \in Checks : FinishCheck(j)
         \/ Goal
    BY <1>3, <1>4, <1>5, <1>6, <1>7, <1>8, <1>9, <1>10 DEF Next
  <1> QED  BY <1>11 DEF Goal

\* What the start of a check changes of the floors and of the caches of requests.
LEMMA StartEffect ==
    ASSUME TypeInv, NEW j \in Checks, NEW ts \in SUBSET Tags, StartCheck(j, ts)
    PROVE  /\ memo' = memo /\ check[j] = "idle" /\ check'[j] # "idle"
           /\ \A k \in Checks \ {j}, t \in Tags :
                /\ check'[k] = check[k] /\ floor'[k][t] = floor[k][t]
                /\ remembered'[k][t] = remembered[k][t]
           /\ \A t \in Tags : /\ floor'[j][t] = SeenByNow[t]
                              /\ remembered'[j][t] \in {None, memo[RequestOf[j]][t]}
           /\ \A r \in Requests, t \in Tags :
                IF r = RequestOf[j] /\ FirstOfRequest(j)
                THEN requestFloor'[r][t] = SeenByNow[t]
                ELSE requestFloor'[r][t] = requestFloor[r][t]
  <1>t. /\ check \in [Checks -> {"idle", "asking", "done", "failed"}]
        /\ remembered \in [Checks -> [Tags -> Nat \cup {None}]]
        /\ floor \in [Checks -> [Tags -> Nat]]
        /\ requestFloor \in [Requests -> [Tags -> Nat]]
    BY DEF TypeInv, TypeOK
  <1> DEFINE uncached == {t \in ts : MemoOf(j)[t] = None}
             memoized == [t \in Tags |-> IF t \in ts THEN MemoOf(j)[t] ELSE None]
  <1>1. /\ memo' = memo /\ check[j] = "idle"
        /\ check' = [check EXCEPT ![j] = IF uncached = {} THEN "done" ELSE "asking"]
        /\ remembered' = [remembered EXCEPT ![j] = memoized]
        /\ floor' = [floor EXCEPT ![j] = SeenByNow]
        /\ requestFloor' = IF FirstOfRequest(j)
                           THEN [requestFloor EXCEPT ![RequestOf[j]] = SeenByNow]
                           ELSE requestFloor
    BY DEF StartCheck
  <1>2. \A t \in Tags : memoized[t] \in {None, memo[RequestOf[j]][t]}
    BY DEF MemoOf
  <1> HIDE DEF uncached, memoized
  <1>3. check'[j] # "idle"
    BY <1>t, <1>1
  <1>4. \A k \in Checks \ {j}, t \in Tags :
            /\ check'[k] = check[k] /\ floor'[k][t] = floor[k][t]
            /\ remembered'[k][t] = remembered[k][t]
    BY <1>t, <1>1
  <1>5. \A t \in Tags : /\ floor'[j][t] = SeenByNow[t]
                        /\ remembered'[j][t] \in {None, memo[RequestOf[j]][t]}
    BY <1>t, <1>1, <1>2
  <1>6. ASSUME NEW r \in Requests, NEW t \in Tags
        PROVE  IF r = RequestOf[j] /\ FirstOfRequest(j)
               THEN requestFloor'[r][t] = SeenByNow[t]
               ELSE requestFloor'[r][t] = requestFloor[r][t]
    BY <1>t, <1>1
  <1> QED  BY <1>1, <1>3, <1>4, <1>5, <1>6

\* The end of a check: what it fetched is kept for its request.
LEMMA FinishEffect ==
    ASSUME TypeInv, NEW j \in Checks, FinishCheck(j)
    PROVE  /\ UNCHANGED started
           /\ \A k \in Checks : check'[k] = "idle" <=> check[k] = "idle"
           /\ check[j] # "idle"
           /\ \A r \in Requests, t \in Tags :
                \/ memo'[r][t] = memo[r][t]
                \/ r = RequestOf[j] /\ memo'[r][t] = fetched[j][t] /\ fetched[j][t] # None
  <1>t. /\ check \in [Checks -> {"idle", "asking", "done", "failed"}]
        /\ memo \in [Requests -> [Tags -> Nat \cup {None}]]
    BY DEF TypeInv, TypeOK
  <1>1. /\ UNCHANGED started /\ check[j] = "asking"
        /\ check' = [check EXCEPT ![j] = "done"]
        /\ memo' = [memo EXCEPT ![RequestOf[j]] =
                    [t \in Tags |-> IF fetched[j][t] # None THEN fetched[j][t] ELSE @[t]]]
    BY DEF FinishCheck
  <1>2. \A k \in Checks : check'[k] = "idle" <=> check[k] = "idle"
    BY <1>t, <1>1
  <1>3. \A r \in Requests, t \in Tags :
                \/ memo'[r][t] = memo[r][t]
                \/ r = RequestOf[j] /\ memo'[r][t] = fetched[j][t] /\ fetched[j][t] # None
    BY <1>t, <1>1
  <1> QED  BY <1>1, <1>2, <1>3

\* Once something is kept for a request, or taken of it, its floor is set: a check that
\* starts leaves it.
LEMMA RequestFloorKept ==
    ASSUME TypeInv, RequestFloors, NEW j \in Checks, NEW ts \in SUBSET Tags, StartCheck(j, ts),
           NEW k \in Checks, check[k] # "idle", NEW t \in Tags
    PROVE  requestFloor'[RequestOf[k]][t] = requestFloor[RequestOf[k]][t]
  <1>1. RequestOf[k] \in Requests
    OBVIOUS
  <1>2. ~(RequestOf[k] = RequestOf[j] /\ FirstOfRequest(j))
    BY DEF FirstOfRequest
  <1> QED  BY <1>1, <1>2, StartEffect

\* What had to be seen before has to be by now.
LEMMA FloorsGrow ==
    ASSUME TypeInv, NEW t \in Tags, NEW at, IsFloor(at, t)
    PROVE  at <= SeenByNow[t]
  <1>1. SeenByNow[t] \in Nat /\ \A w \in Visible(t) : time[w] <= SeenByNow[t]
    BY SeenByNowIsLatest
  <1>2. \A w \in Writers : ToBeSeen(w, t) => w \in Visible(t)
    BY DEF ToBeSeen, DoneWrite, Visible
  <1> QED  BY <1>1, <1>2 DEF IsFloor

LEMMA RequestFloorsStep ==
    TypeInv /\ WriteInv /\ Timely /\ RequestFloors /\ [Next]_vars => RequestFloors'
  <1> SUFFICES ASSUME TypeInv, WriteInv, Timely, RequestFloors, [Next]_vars
               PROVE  RequestFloors'
    OBVIOUS
  <1> DEFINE Floors == \A r \in Requests, t \in Tags :
                            \/ requestFloor'[r][t] = requestFloor[r][t]
                            \/ requestFloor'[r][t] = SeenByNow[t]
             Later == \A k \in Checks, t \in Tags :
                        /\ check'[k] # "idle" => floor'[k][t] >= requestFloor'[RequestOf[k]][t]
                        /\ check'[k] = "idle" => remembered'[k][t] = None
             Kept == \A r \in Requests, t \in Tags :
                        memo'[r][t] # None =>
                            \E k \in Checks : RequestOf[k] = r /\ check'[k] # "idle"
  <1>1. ASSUME NEW j \in Checks, NEW ts \in SUBSET Tags, StartCheck(j, ts)
        PROVE  Floors /\ Later /\ Kept
    <2>1. Floors
      BY <1>1, StartEffect
    <2>2. ASSUME NEW k \in Checks, NEW t \in Tags
          PROVE  /\ check'[k] # "idle" => floor'[k][t] >= requestFloor'[RequestOf[k]][t]
                 /\ check'[k] = "idle" => remembered'[k][t] = None
      <3>1. CASE k = j
        <4>0. RequestOf[j] \in Requests
          OBVIOUS
        <4>1. check'[j] # "idle" /\ floor'[j][t] = SeenByNow[t]
          BY <1>1, StartEffect
        <4>2. requestFloor'[RequestOf[j]][t] \in {requestFloor[RequestOf[j]][t], SeenByNow[t]}
          BY <2>1, <4>0
        <4>3. SeenByNow[t] \in Nat
          BY SeenByNowIsLatest
        <4>4. requestFloor[RequestOf[j]][t] <= SeenByNow[t]
          BY <4>0, FloorsGrow DEF RequestFloors
        <4>5. requestFloor[RequestOf[j]][t] \in Nat
          BY <4>0 DEF TypeInv, TypeOK
        <4> QED  BY <3>1, <4>1, <4>2, <4>3, <4>4, <4>5
      <3>2. CASE k # j
        <4>1. /\ check'[k] = check[k] /\ floor'[k][t] = floor[k][t]
              /\ remembered'[k][t] = remembered[k][t]
          BY <1>1, <3>2, StartEffect
        <4>2. check[k] # "idle" =>
                requestFloor'[RequestOf[k]][t] = requestFloor[RequestOf[k]][t]
          BY <1>1, RequestFloorKept
        <4> QED  BY <4>1, <4>2 DEF RequestFloors
      <3> QED  BY <3>1, <3>2
    <2>3. Kept
      <3>1. memo' = memo
        BY <1>1, StartEffect
      <3>2. /\ check[j] = "idle"
            /\ \A k \in Checks \ {j} : \A t \in Tags : check'[k] = check[k]
        BY <1>1, StartEffect
      <3> QED  BY <3>1, <3>2 DEF RequestFloors
    <2> QED  BY <2>1, <2>2, <2>3
  <1>2. ASSUME UNCHANGED started, \A k \in Checks : check'[k] = "idle" <=> check[k] = "idle"
        PROVE  Floors /\ Later
    BY <1>2 DEF started, RequestFloors
  <1>3. ASSUME NEW j \in Checks, FinishCheck(j) PROVE Floors /\ Later /\ Kept
    <2>1. /\ UNCHANGED started
          /\ \A k \in Checks : check'[k] = "idle" <=> check[k] = "idle"
          /\ check[j] # "idle"
          /\ \A r \in Requests, t \in Tags : memo'[r][t] = memo[r][t] \/ r = RequestOf[j]
      BY <1>3, FinishEffect
    <2>2. Kept
      BY <2>1 DEF RequestFloors
    <2> QED  BY <1>2, <2>1, <2>2
  <1>4. ASSUME UNCHANGED <<memo, started>>,
               \A k \in Checks : check'[k] = "idle" <=> check[k] = "idle"
        PROVE  Floors /\ Later /\ Kept
    <2>1. Kept
      BY <1>4 DEF RequestFloors
    <2> QED  BY <1>2, <1>4, <2>1
  <1>5. Floors /\ Later /\ Kept
    <2> HIDE DEF Floors, Later, Kept
    <2> QED  BY <1>1, <1>3, <1>4, RequestEffect
  <1>6. ASSUME NEW r \in Requests, NEW t \in Tags PROVE IsFloor(requestFloor[r][t], t)'
    <2> DEFINE at == requestFloor'[r][t]
    <2>1. IsFloor(at, t) \/ at = SeenByNow[t]
      BY <1>5 DEF RequestFloors
    <2> HIDE DEF at
    <2>2. \A x : IsFloor(x, t) \/ x = SeenByNow[t] => IsFloor(x, t)'
      BY IsFloorStep
    <2> QED  BY <2>1, <2>2 DEF at, IsFloor
  <1> QED  BY <1>5, <1>6 DEF RequestFloors

LEMMA MemoSeesStep == TypeInv /\ WriteInv /\ LagInv /\ [Next]_vars => MemoSees'
  <1> SUFFICES ASSUME TypeInv, WriteInv, LagInv, [Next]_vars, NEW t \in Tags, Trusted(t)'
               PROVE  /\ \A r \in Requests :
                            memo'[r][t] # None => memo'[r][t] >= requestFloor'[r][t]
                      /\ \A k \in Checks :
                            remembered'[k][t] # None =>
                                remembered'[k][t] >= requestFloor'[RequestOf[k]][t]
    BY DEF MemoSees
  <1>0. Trusted(t) /\ RequestFloors
    BY TrustedStep DEF LagInv
  <1>1. /\ \A r \in Requests : memo[r][t] # None => memo[r][t] >= requestFloor[r][t]
        /\ \A k \in Checks :
                remembered[k][t] # None => remembered[k][t] >= requestFloor[RequestOf[k]][t]
    BY <1>0 DEF LagInv, MemoSees
  <1>2. ASSUME NEW j \in Checks, NEW ts \in SUBSET Tags, StartCheck(j, ts)
        PROVE  /\ \A r \in Requests :
                    memo'[r][t] # None => memo'[r][t] >= requestFloor'[r][t]
               /\ \A k \in Checks :
                    remembered'[k][t] # None =>
                        remembered'[k][t] >= requestFloor'[RequestOf[k]][t]
    <2>1. ASSUME NEW r \in Requests, memo[r][t] # None
          PROVE  memo'[r][t] = memo[r][t] /\ memo[r][t] >= requestFloor'[r][t]
      <3>1. PICK k \in Checks : RequestOf[k] = r /\ check[k] # "idle"
        BY <1>0, <2>1 DEF RequestFloors
      <3>2. requestFloor'[r][t] = requestFloor[r][t]
        BY <1>0, <1>2, <3>1, RequestFloorKept
      <3>3. memo' = memo
        BY <1>2, StartEffect
      <3> QED  BY <1>1, <2>1, <3>2, <3>3
    <2>2. ASSUME NEW k \in Checks, remembered'[k][t] # None
          PROVE  remembered'[k][t] >= requestFloor'[RequestOf[k]][t]
      <3>1. CASE k = j
        <4>1. remembered'[j][t] = memo[RequestOf[j]][t] /\ RequestOf[j] \in Requests
          BY <1>2, <2>2, <3>1, StartEffect
        <4> QED  BY <2>1, <2>2, <3>1, <4>1
      <3>2. CASE k # j
        <4>1. remembered'[k][t] = remembered[k][t]
          BY <1>2, <3>2, StartEffect
        <4>2. check[k] # "idle"
          BY <1>0, <2>2, <4>1 DEF RequestFloors
        <4>3. requestFloor'[RequestOf[k]][t] = requestFloor[RequestOf[k]][t]
          BY <1>0, <1>2, <4>2, RequestFloorKept
        <4> QED  BY <1>1, <2>2, <4>1, <4>3
      <3> QED  BY <3>1, <3>2
    <2>3. memo' = memo
      BY <1>2, StartEffect
    <2> QED  BY <2>1, <2>2, <2>3
  <1>3. ASSUME NEW j \in Checks, FinishCheck(j)
        PROVE  /\ UNCHANGED started
               /\ \A r \in Requests :
                    memo'[r][t] # None => memo'[r][t] >= requestFloor[r][t]
    <2>1. /\ UNCHANGED started /\ check[j] # "idle"
          /\ \A r \in Requests :
                \/ memo'[r][t] = memo[r][t]
                \/ r = RequestOf[j] /\ memo'[r][t] = fetched[j][t] /\ fetched[j][t] # None
      BY <1>3, FinishEffect
    <2>2. fetched[j][t] # None => fetched[j][t] >= floor[j][t]
      BY <1>0 DEF LagInv, FetchedSee
    <2>3. floor[j][t] >= requestFloor[RequestOf[j]][t]
      BY <1>0, <2>1 DEF RequestFloors
    <2>4. /\ floor[j][t] \in Nat /\ requestFloor[RequestOf[j]][t] \in Nat
          /\ fetched[j][t] # None => fetched[j][t] \in Nat
      BY DEF TypeInv, TypeOK
    <2>5. fetched[j][t] # None => fetched[j][t] >= requestFloor[RequestOf[j]][t]
      BY <2>2, <2>3, <2>4
    <2> QED  BY <1>1, <2>1, <2>5
  <1>4. CASE \E j \in Checks : FinishCheck(j)
    BY <1>1, <1>3, <1>4 DEF started
  <1>5. CASE UNCHANGED <<memo, started>>
    BY <1>1, <1>5 DEF started
  <1> QED  BY <1>2, <1>4, <1>5, RequestEffect

\* What a check fetches, in any colo, from any replica, shows every write that returned
\* longer ago than the lag, and what it takes from the cache of its request those that
\* were as old when the request began: by induction on what is put, what is kept, what
\* is read, what is remembered.
THEOREM ReadersSeeAfterLag == Spec => []SeenAfterLag
  <1>1. Init => TypeInv /\ WriteInv /\ LagInv
    <2>1. Init => Timely /\ PutsSee /\ EntriesSee /\ FloorsVisible /\ Begun /\ FetchedSee
      BY DEF Init, Timely, PutsSee, EntriesSee, FloorsVisible, IsFloor, Begun, FetchedSee
    <2>2. Init => RequestFloors /\ MemoSees
      BY DEF Init, RequestFloors, MemoSees, IsFloor
    <2> QED  BY <2>1, <2>2, TypeInit, WriteInvInit DEF LagInv
  <1>2. TypeInv /\ WriteInv /\ LagInv /\ [Next]_vars => LagInv'
    BY TimelyStep, PutsSeeStep, EntriesSeeStep, FloorsVisibleStep, BegunStep, FetchedSeeStep,
       RequestFloorsStep, MemoSeesStep
    DEF LagInv
  <1>3. LagInv => SeenAfterLag
    BY DEF LagInv, FetchedSee, MemoSees, Trusted, SeenAfterLag
  <1> QED  BY <1>1, <1>2, <1>3, TypeStep, WriteInvStep, PTL DEF Spec
-----------------------------------------------------------------------------
(* What WriteEnds says but for fairness, and the same of checks: each has so *)
(* much to do, and every step of it leaves less.                           *)

\* The steps a call may still take: retries left, then its way from the worker to the
\* object and to the regional cache.
Tries(w, d) ==
    4 * (MaxWriteRetries - retry[w][d])
        + (CASE call[w][d] = "sent" -> 3
             [] call[w][d] = "applied" -> 2
             [] call[w][d] = "succeeded" -> 1
             [] OTHER -> 0)

FewerTries(w) ==
    writer[w] # "idle" =>
        \A d \in Objects : UNCHANGED <<call[w][d], retry[w][d]>> \/ Tries(w, d)' < Tries(w, d)

LEMMA WriteTakesTry ==
    ASSUME TypeInv, NEW w \in Writers, NEW d \in Objects, Write(w, d)
    PROVE  /\ Tries(w, d)' < Tries(w, d)
           /\ \A v \in Writers, e \in Objects : v # w \/ e # d => UNCHANGED <<call[v][e], retry[v][e]>>
  <1> USE DEF SetCall, Calls
  <1>t. /\ call \in [Writers -> [Objects -> Calls]]
        /\ retry \in [Writers -> [Objects -> 0 .. MaxWriteRetries]]
    BY DEF TypeInv, TypeOK
  <1>1. CASE Apply(w, d) \/ Succeed(w, d) \/ DeleteRegional(w, d) \/ DeleteFails(w, d)
    <2>1. PICK state \in {"applied", "succeeded", "done"} :
            /\ call' = [call EXCEPT ![w][d] = state] /\ UNCHANGED retry
            /\ call[w][d] = CASE state = "applied" -> "sent"
                              [] state = "succeeded" -> "applied"
                              [] OTHER -> "succeeded"
      BY <1>1 DEF Apply, Succeed, DeleteRegional, DeleteFails
    <2>2. call'[w][d] = state /\ retry'[w][d] = retry[w][d] /\ retry[w][d] \in 0 .. MaxWriteRetries
      BY <1>t, <2>1
    <2>3. Tries(w, d)' < Tries(w, d)
      BY <2>1, <2>2 DEF Tries
    <2> QED  BY <1>t, <2>1, <2>3
  <1>2. CASE Fail(w, d)
    <2>1. CASE TooManyRetries(w, d)
      <3>1. /\ call[w][d] \in {"sent", "applied"} /\ call' = [call EXCEPT ![w][d] = "dead"]
            /\ UNCHANGED retry
        BY <1>2, <2>1 DEF Fail
      <3>2. call'[w][d] = "dead" /\ retry'[w][d] = retry[w][d] /\ retry[w][d] \in 0 .. MaxWriteRetries
        BY <1>t, <3>1
      <3>3. Tries(w, d)' < Tries(w, d)
        BY <3>1, <3>2 DEF Tries
      <3> QED  BY <1>t, <3>1, <3>3
    <2>2. CASE ~TooManyRetries(w, d)
      <3>1. /\ call[w][d] \in {"sent", "applied"} /\ call' = [call EXCEPT ![w][d] = "sent"]
            /\ retry' = [retry EXCEPT ![w][d] = @ + 1]
        BY <1>2, <2>2 DEF Fail, NextRetryNumber
      <3>2. /\ call'[w][d] = "sent" /\ retry'[w][d] = retry[w][d] + 1
            /\ retry[w][d] \in 0 .. MaxWriteRetries
        BY <1>t, <3>1
      <3>3. Tries(w, d)' < Tries(w, d)
        BY <3>1, <3>2, MaxWriteRetries \in Nat DEF Tries
      <3> QED  BY <1>t, <3>1, <3>3
    <2> QED  BY <2>1, <2>2
  <1> QED  BY <1>1, <1>2 DEF Write

\* writeTags() calls an object a bounded number of times: with every step of a call it
\* has fewer to go, however calls fail and whatever else goes on.
THEOREM WritesAdvance == Spec => [][\A w \in Writers : FewerTries(w)]_vars
  <1>1. TypeInv /\ [Next]_vars => [\A w \in Writers : FewerTries(w)]_vars
    <2> SUFFICES ASSUME TypeInv, Next, NEW w \in Writers, writer[w] # "idle"
                 PROVE  \A d \in Objects : UNCHANGED <<call[w][d], retry[w][d]>> \/ Tries(w, d)' < Tries(w, d)
      BY DEF FewerTries
    <2>1. ASSUME NEW v \in Writers, NEW d \in Objects, Write(v, d)
          PROVE  \A e \in Objects : UNCHANGED <<call[w][e], retry[w][e]>> \/ Tries(w, e)' < Tries(w, e)
      BY <2>1, WriteTakesTry
    <2>2. ASSUME NEW v \in Writers, NEW ts \in SUBSET Tags, WriteTags(v, ts)
          PROVE  \A e \in Objects : UNCHANGED <<call[w][e], retry[w][e]>>
      <3>1. v # w /\ UNCHANGED retry
        BY <2>2 DEF WriteTags
      <3>2. \A e \in Objects : call'[w][e] = call[w][e]
        BY <2>2, <3>1 DEF WriteTags, TypeInv, TypeOK
      <3> QED  BY <3>1, <3>2
    <2>3. CASE UNCHANGED <<call, retry>>
      BY <2>3
    <2>4. ASSUME NEW v \in Writers, WriteReturns(v) PROVE UNCHANGED <<call, retry>>
      BY <2>4 DEF WriteReturns
    <2>5. ASSUME NEW k \in Checks, NEW ts \in SUBSET Tags, StartCheck(k, ts)
          PROVE  UNCHANGED <<call, retry>>
      BY <2>5 DEF StartCheck, writing
    <2>6. ASSUME NEW k \in Checks, NEW t \in Tags, MatchRegional(k, t) \/ MissRegional(k, t)
          PROVE  UNCHANGED <<call, retry>>
      BY <2>6 DEF MatchRegional, MissRegional, writing
    <2>7. ASSUME NEW k \in Checks, NEW d \in Objects,
                 Ask(k, d) \/ AskInError(k, d) \/ CheckFails(k, d)
          PROVE  UNCHANGED <<call, retry>>
      BY <2>7 DEF Ask, AskInError, CheckFails, writing
    <2>8. ASSUME NEW k \in Checks, FinishCheck(k) PROVE UNCHANGED <<call, retry>>
      BY <2>8 DEF FinishCheck, writing
    <2>9. ASSUME NEW p \in puts, PutRegional(p) \/ DropPut(p) PROVE UNCHANGED <<call, retry>>
      BY <2>9 DEF PutRegional, DropPut, writing
    <2>10. ASSUME Tick PROVE UNCHANGED <<call, retry>>
      BY <2>10 DEF Tick, writing
    <2> QED
      BY <2>1, <2>2, <2>3, <2>4, <2>5, <2>6, <2>7, <2>8, <2>9, <2>10 DEF Next
  <1>2. Spec => []TypeInv
    BY TypeInit, TypeStep, PTL DEF Spec
  <1> QED  BY <1>1, <1>2, PTL DEF Spec

\* A write that has not returned can go on: it has called each object of its tags, and no
\* other, and a call is under way unless all have ended.
CanGoOn(w) ==
    /\ \A d \in Objects : call[w][d] # "none" <=> d \in GroupsOf(tags[w])
    /\ \/ \A d \in GroupsOf(tags[w]) : Settled(w, d)
       \/ writer[w] = "writing" /\ \E d \in Objects : call[w][d] \in {"sent", "applied", "succeeded"}

\* writeTags() never waits for a call that was not made or that no step can end.
THEOREM WritesNeverStall == Spec => [](\A w \in Writers : CanGoOn(w))
  <1>1. WriteInv => \A w \in Writers : CanGoOn(w)
    <2> SUFFICES ASSUME WriteInv, NEW w \in Writers PROVE CanGoOn(w)
      OBVIOUS
    <2>1. ASSUME NEW d \in Objects
          PROVE  call[w][d] \in Calls /\ (call[w][d] # "none" <=> d \in GroupsOf(tags[w]))
      <3>1. tags[w] \cap ShardTags(d) = {} <=> d \notin GroupsOf(tags[w])
        BY DEF GroupsOf
      <3> QED  BY <3>1 DEF WriteInv, WriteTypes, CallsMade, Group
    <2>2. writer[w] \in {"idle", "writing", "done"}
      BY DEF WriteInv, WriteTypes
    <2>3. writer[w] = "idle" => GroupsOf(tags[w]) = {}
      BY DEF WriteInv, CallsMade, GroupsOf
    <2>4. writer[w] = "done" => \A d \in Objects : call[w][d] \in {"none", "done", "dead"}
      BY DEF WriteInv, CallsMade
    <2>5. GroupsOf(tags[w]) \subseteq Objects
      BY DEF GroupsOf
    <2> QED  BY <2>1, <2>2, <2>3, <2>4, <2>5 DEF CanGoOn, Settled, Calls
  <1> QED  BY <1>1, WriteInvInit, WriteInvStep, PTL DEF Spec

\* What a check still has to look up, of which every step of it leaves less; when there
\* is nothing left it ends.
FewerTags(k) ==
    /\ check[k] = "done" => check'[k] = "done"
    /\ check[k] # "idle" =>
        /\ check'[k] # "idle"
        /\ unmatched'[k] \subseteq unmatched[k] /\ wanted'[k] \subseteq wanted[k]
        /\ \/ UNCHANGED <<check[k], unmatched[k], wanted[k]>>
           \/ unmatched'[k] # unmatched[k] \/ wanted'[k] # wanted[k]
           \/ check[k] = "asking" /\ check'[k] = "done"

LEMMA CheckStepFewer ==
    ASSUME TypeInv, NEW j \in Checks, NEW k \in Checks,
           \/ \E ts \in SUBSET Tags : StartCheck(j, ts)
           \/ \E t \in Tags : MatchRegional(j, t) \/ MissRegional(j, t)
           \/ \E d \in Objects : Ask(j, d) \/ AskInError(j, d) \/ CheckFails(j, d)
           \/ FinishCheck(j)
    PROVE  FewerTags(k)
  <1>t. /\ check \in [Checks -> {"idle", "asking", "done", "failed"}]
        /\ unmatched \in [Checks -> SUBSET Tags] /\ wanted \in [Checks -> SUBSET Tags]
    BY DEF TypeInv, TypeOK
  <1>1. ASSUME NEW ts \in SUBSET Tags, StartCheck(j, ts) PROVE FewerTags(k)
    <2> DEFINE uncached == {t \in ts : MemoOf(j)[t] = None}
    <2>1. /\ check[j] = "idle"
          /\ check' = [check EXCEPT ![j] = IF uncached = {} THEN "done" ELSE "asking"]
          /\ wanted' = [wanted EXCEPT ![j] = uncached]
          /\ unmatched' = [unmatched EXCEPT ![j] = IF opts.regionalCache THEN uncached ELSE {}]
      BY <1>1 DEF StartCheck
    <2> HIDE DEF uncached
    <2> QED  BY <1>t, <2>1 DEF FewerTags
  <1>2. ASSUME NEW t \in Tags, MatchRegional(j, t) \/ MissRegional(j, t) PROVE FewerTags(k)
    <2>1. /\ t \in unmatched[j] /\ UNCHANGED check /\ Resolving(j)
          /\ unmatched' = [unmatched EXCEPT ![j] = @ \ {t}]
          /\ wanted' = wanted \/ wanted' = [wanted EXCEPT ![j] = @ \ {t}]
      BY <1>2 DEF MatchRegional, MissRegional, Receive
    <2>2. unmatched'[k] \subseteq unmatched[k] /\ wanted'[k] \subseteq wanted[k] /\ check'[k] = check[k]
      BY <1>t, <2>1
    <2>3. k = j => unmatched'[k] # unmatched[k]
      BY <1>t, <2>1
    <2>4. k # j => UNCHANGED <<unmatched[k], wanted[k]>>
      BY <1>t, <2>1
    <2> QED  BY <2>2, <2>3, <2>4 DEF FewerTags
  <1>3. ASSUME NEW d \in Objects, Ask(j, d) \/ AskInError(j, d) \/ CheckFails(j, d)
        PROVE  FewerTags(k)
    <2>1. /\ Remaining(j, d) # {} /\ UNCHANGED unmatched
          /\ wanted' = [wanted EXCEPT ![j] = @ \ Remaining(j, d)]
          /\ check' = check \/ check' = [check EXCEPT ![j] = "failed"]
      BY <1>3 DEF Ask, AskInError, CheckFails, Receive
    <2>2. Remaining(j, d) \subseteq wanted[j] /\ check[j] \in {"asking", "failed"}
      BY <2>1 DEF Remaining, Resolving
    <2> HIDE DEF Remaining
    <2>3. /\ wanted'[k] \subseteq wanted[k] /\ unmatched'[k] = unmatched[k]
          /\ check[k] = "done" => check'[k] = "done"
          /\ check[k] # "idle" => check'[k] # "idle"
      BY <1>t, <2>1, <2>2
    <2>4. k = j => wanted'[k] # wanted[k]
      BY <1>t, <2>1, <2>2
    <2>5. k # j => UNCHANGED <<check[k], wanted[k]>>
      BY <1>t, <2>1
    <2> QED  BY <2>3, <2>4, <2>5 DEF FewerTags
  <1>4. ASSUME FinishCheck(j) PROVE FewerTags(k)
    BY <1>t, <1>4 DEF FinishCheck, FewerTags
  <1> QED  BY <1>1, <1>2, <1>3, <1>4

\* #resolveTagData() goes through each tag a bounded number of times: every step of a
\* check, failed or not, leaves it fewer to look up, or ends it.
THEOREM ChecksAdvance == Spec => [][\A k \in Checks : FewerTags(k)]_vars
  <1>1. TypeInv /\ [Next]_vars => [\A k \in Checks : FewerTags(k)]_vars
    <2> SUFFICES ASSUME TypeInv, Next, NEW k \in Checks PROVE FewerTags(k)
      OBVIOUS
    <2>1. ASSUME NEW j \in Checks,
                 \/ \E ts \in SUBSET Tags : StartCheck(j, ts)
                 \/ \E t \in Tags : MatchRegional(j, t) \/ MissRegional(j, t)
                 \/ \E d \in Objects : Ask(j, d) \/ AskInError(j, d) \/ CheckFails(j, d)
                 \/ FinishCheck(j)
          PROVE  FewerTags(k)
      BY <2>1, CheckStepFewer
    <2>2. CASE UNCHANGED reading
      BY <2>2 DEF FewerTags, reading
    <2>3. ASSUME NEW w \in Writers, NEW ts \in SUBSET Tags, WriteTags(w, ts)
          PROVE  UNCHANGED reading
      BY <2>3 DEF WriteTags
    <2>4. ASSUME NEW w \in Writers, NEW d \in Objects, Write(w, d) PROVE UNCHANGED reading
      BY <2>4 DEF Write, Apply, Succeed, Fail, DeleteRegional, DeleteFails
    <2>5. ASSUME NEW w \in Writers, WriteReturns(w) PROVE UNCHANGED reading
      BY <2>5 DEF WriteReturns
    <2>6. ASSUME NEW p \in puts, PutRegional(p) \/ DropPut(p) PROVE UNCHANGED reading
      BY <2>6 DEF PutRegional, DropPut
    <2>7. ASSUME Tick PROVE UNCHANGED reading
      BY <2>7 DEF Tick
    <2> QED
      BY <2>1, <2>2, <2>3, <2>4, <2>5, <2>6, <2>7 DEF Next
  <1>2. Spec => []TypeInv
    BY TypeInit, TypeStep, PTL DEF Spec
  <1> QED  BY <1>1, <1>2, PTL DEF Spec
=============================================================================
