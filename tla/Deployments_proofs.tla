-------------------------- MODULE Deployments_proofs --------------------------
(***************************************************************************)
(* Proofs about Deployments, for any commands, deployments and limits:     *)
(* type correctness, and that requests are routed to the deployment they   *)
(* name.                                                                   *)
(***************************************************************************)
EXTENDS Deployments, FiniteSetTheorems, NaturalsInduction, WellFoundedInduction, TLAPS

USE NoDeploymentAssumption, BoundAssumption

Maps == UNION {[ids -> Nat] : ids \in SUBSET Deployments}

Version ==
    [id : Deployments \cup {NoDeployment}, mapping : Maps, trigger : Triggers,
     created : Int, base : Int, listedAt : Int]

\* TypeOK says of each version what it is: here, that they are a sequence.
TypeInv ==
    /\ TypeOK
    /\ versions \in Seq(Version)
    /\ seen \in [Commands -> [count : Nat, at : Nat]]
    /\ listed \in [Commands -> SUBSET Nat]
    /\ mapping \in [Commands -> Maps]

-----------------------------------------------------------------------------
(* Lemmas.                                                                 *)

\* Of versions there is a newest one.
LEMMA NewestIsOne ==
    ASSUME NEW n \in Nat, NEW set \in SUBSET (1 .. n), set # {}
    PROVE  Newest(set) \in set /\ \A i \in set : i <= Newest(set)
  <1> DEFINE R == {ss \in Nat \X Nat : ss[1] < ss[2]}
             S == {n - i : i \in set}
  <1>1. IsWellFoundedOn(R, Nat)
    <2>1. R = OpToRel(<, Nat)
      BY DEF OpToRel
    <2> QED  BY <2>1, NatLessThanWellFounded, Zenon
  <1>2. S \subseteq Nat /\ S # {}
    <2>1. \A i \in set : n - i \in Nat
      OBVIOUS
    <2> QED  BY <2>1
  <1>3. PICK s \in S : \A t \in S : ~(<<t, s>> \in R)
    <2> HIDE DEF R, S
    <2> QED  BY <1>1, <1>2, WFMin
  <1>4. PICK i \in set : s = n - i
    OBVIOUS
  <1>5. ASSUME NEW j \in set PROVE j <= i
    <2>1. n - j \in S /\ n - j \in Nat /\ s \in Nat
      BY <1>2
    <2>2. ~(n - j < s)
      BY <1>3, <2>1
    <2> QED  BY <1>4, <2>1, <2>2
  <1> QED  BY <1>4, <1>5 DEF Newest

\* A mapping of some versions is one of more of them.
LEMMA MappingOfMore ==
    ASSUME NEW m \in Nat, NEW n \in Nat, m <= n, NEW map, IsMapping(map, m)
    PROVE  IsMapping(map, n) /\ map \in Maps
  <1>1. PICK ids \in SUBSET Deployments : map \in [ids -> 0 .. m]
    BY DEF IsMapping
  <1>2. map \in [ids -> 0 .. n] /\ map \in [ids -> Nat]
    BY <1>1
  <1> QED  BY <1>2 DEF IsMapping, Maps

LEMMA NoMappingIsOne == ASSUME NEW n \in Nat PROVE IsMapping(NoMapping, n)
  <1>1. NoMapping \in [{} -> 0 .. n]
    BY DEF NoMapping
  <1> QED  BY <1>1 DEF IsMapping

\* The new version is the last one; the others stay.
LEMMA Appended ==
    ASSUME versions \in Seq(Version), NEW v \in Version, versions' = Append(versions, v)
    PROVE  /\ versions' \in Seq(Version)
           /\ Len(versions') = Len(versions) + 1
           /\ versions'[Len(versions) + 1] = v
           /\ DOMAIN versions' = DOMAIN versions \cup {Len(versions) + 1}
           /\ \A i \in DOMAIN versions : versions'[i] = versions[i]
  OBVIOUS

\* updateDeploymentMapping() makes a mapping of the versions there are.
LEMMA UpdateType ==
    ASSUME TypeInv, NEW set \in SUBSET DOMAIN versions, NEW map, NEW id \in Deployments,
           IsMapping(map, Len(versions))
    PROVE  IsMapping(UpdateDeploymentMapping(map, set, id), Len(versions))
  <1> DEFINE kept == {d \in DOMAIN map : IF map[d] = Current THEN set # {} ELSE map[d] \in set}
             new == [d \in kept \cup {id} |->
                        IF d \notin kept THEN Current
                        ELSE IF map[d] = Current THEN Newest(set)
                        ELSE map[d]]
  <1>1. Len(versions) \in Nat /\ set \in SUBSET (1 .. Len(versions))
    BY DEF TypeInv
  <1>2. set # {} => Newest(set) \in set
    BY <1>1, NewestIsOne
  <1>3. kept \cup {id} \in SUBSET Deployments
    BY DEF IsMapping
  <1>4. ASSUME NEW d \in kept \cup {id} PROVE new[d] \in 0 .. Len(versions)
    <2>1. CASE d \notin kept
      BY <1>1, <2>1 DEF Current
    <2>2. CASE d \in kept
      BY <1>1, <1>2, <2>2
    <2> QED  BY <2>1, <2>2
  <1>5. new \in [kept \cup {id} -> 0 .. Len(versions)]
    <2> HIDE DEF kept
    <2> QED  BY <1>4
  <1>6. IsMapping(new, Len(versions))
    <2> HIDE DEF kept, new
    <2> QED  BY <1>3, <1>5 DEF IsMapping
  <1> QED  BY <1>6 DEF UpdateDeploymentMapping

LEMMA ExistingType ==
    ASSUME TypeInv, NEW c \in Commands
    PROVE  IsMapping(ExistingMapping(listed[c]), Len(versions))
  <1>1. Len(versions) \in Nat /\ listed[c] \in SUBSET (1 .. Len(versions))
    BY DEF TypeInv, TypeOK
  <1>2. CASE listed[c] = {}
    BY <1>1, <1>2, NoMappingIsOne DEF ExistingMapping
  <1>3. CASE listed[c] # {}
    <2> DEFINE i == Newest(listed[c])
    <2>1. i \in 1 .. Len(versions)
      BY <1>1, <1>3, NewestIsOne
    <2> HIDE DEF i
    <2>2. IsMapping(versions[i].mapping, i - 1)
      BY <1>1, <2>1 DEF TypeInv, TypeOK, IsVersion
    <2>3. IsMapping(versions[i].mapping, Len(versions))
      <3>1. i - 1 \in Nat /\ i - 1 <= Len(versions)
        BY <1>1, <2>1
      <3> QED  BY <1>1, <2>2, <3>1, MappingOfMore
    <2> QED  BY <1>3, <2>3 DEF ExistingMapping, i
  <1> QED  BY <1>2, <1>3

-----------------------------------------------------------------------------
(* Type correctness.                                                       *)

\* Nothing but the place of commands changes.
LEMMA OnlySteps ==
    ASSUME TypeInv, UNCHANGED <<versions, command, listed, seen, mapping>>,
           now' \in Nat, step' \in [Commands -> Steps]
    PROVE  TypeInv'
  BY DEF TypeInv, TypeOK

\* A version is created.
LEMMA VersionType ==
    ASSUME TypeInv, NEW v \in Version, IsVersion(v, Len(versions) + 1),
           versions' = Append(versions, v), UNCHANGED <<now, command, listed, seen, mapping>>,
           step' \in [Commands -> Steps]
    PROVE  TypeInv'
  <1>1. Len(versions) \in Nat /\ DOMAIN versions = 1 .. Len(versions)
    BY DEF TypeInv
  <1>2. /\ versions' \in Seq(Version)
        /\ Len(versions') = Len(versions) + 1
        /\ versions'[Len(versions) + 1] = v
        /\ DOMAIN versions' = DOMAIN versions \cup {Len(versions) + 1}
        /\ \A i \in DOMAIN versions : versions'[i] = versions[i]
    BY Appended DEF TypeInv
  <1>3. \A i \in DOMAIN versions' : IsVersion(versions'[i], i)
    BY <1>2 DEF TypeInv, TypeOK
  <1>4. \A c \in Commands : listed'[c] \subseteq DOMAIN versions'
    BY <1>2 DEF TypeInv, TypeOK
  <1>5. ASSUME NEW c \in Commands PROVE IsMapping(mapping'[c], Len(versions'))
    BY <1>1, <1>2, MappingOfMore DEF TypeInv, TypeOK
  <1> QED  BY <1>2, <1>3, <1>4, <1>5 DEF TypeInv, TypeOK

LEMMA TypeInit == Init => TypeInv
  <1> SUFFICES ASSUME Init PROVE TypeInv
    OBVIOUS
  <1>1. IsMapping(NoMapping, 0) /\ NoMapping \in Maps
    BY NoMappingIsOne, MappingOfMore
  <1>2. Legacy \in Version /\ IsVersion(Legacy, 1)
    BY <1>1 DEF Legacy, Version, IsVersion, Triggers, UploadTriggers
  <1>3. versions \in Seq(Version) /\ \A i \in DOMAIN versions : IsVersion(versions[i], i)
    <2>1. CASE versions = <<>>
      BY <2>1
    <2>2. CASE versions = <<Legacy>>
      <3>1. Len(versions) = 1 /\ DOMAIN versions = {1} /\ versions[1] = Legacy
        BY <2>2
      <3> QED  BY <1>2, <2>2, <3>1
    <2> QED  BY <2>1, <2>2 DEF Init
  <1>4. \A c \in Commands : IsMapping(mapping[c], Len(versions))
    BY <1>3, NoMappingIsOne DEF Init
  <1>5. NoMapping \in Maps
    BY <1>1
  <1> QED  BY <1>3, <1>4, <1>5 DEF Init, TypeInv, TypeOK, Steps

LEMMA GotoType ==
    ASSUME TypeInv, NEW c \in Commands, NEW s \in Steps, Goto(c, s)
    PROVE  step' \in [Commands -> Steps]
  BY DEF TypeInv, TypeOK, Goto

LEMMA NewVersionType ==
    ASSUME TypeInv, NEW c \in Commands
    PROVE  NewVersion(c) \in Version /\ IsVersion(NewVersion(c), Len(versions) + 1)
  <1>1. Len(versions) \in Nat /\ IsMapping(mapping[c], Len(versions))
    BY DEF TypeInv, TypeOK
  <1>2. mapping[c] \in Maps
    BY <1>1, MappingOfMore
  <1>3. command[c].id \in Deployments /\ now \in Nat
    BY DEF TypeInv, TypeOK
  <1>4. seen[c].count \in Nat /\ seen[c].at \in Nat
    BY DEF TypeInv
  <1>5. (Len(versions) + 1) - 1 = Len(versions)
    BY <1>1
  <1> QED
    BY <1>1, <1>2, <1>3, <1>4, <1>5 DEF NewVersion, Version, IsVersion, Triggers, UploadTriggers

\* A change of a secret makes another version of the last one.
LEMMA SecretVersionType ==
    ASSUME TypeInv, versions # <<>>
    PROVE  LET v == [versions[Len(versions)] EXCEPT !.trigger = "secret", !.created = now]
           IN  v \in Version /\ IsVersion(v, Len(versions) + 1)
  <1> DEFINE last == versions[Len(versions)]
             v == [last EXCEPT !.trigger = "secret", !.created = now]
  <1>1. Len(versions) \in Nat \ {0} /\ Len(versions) \in DOMAIN versions
    BY DEF TypeInv
  <1>2. last \in Version /\ IsVersion(last, Len(versions)) /\ now \in Nat
    BY <1>1 DEF TypeInv, TypeOK
  <1> HIDE DEF last
  <1>3. v \in Version /\ v.id = last.id /\ v.mapping = last.mapping
    <2>1. "secret" \in Triggers /\ now \in Int
      BY <1>2 DEF Triggers
    <2> QED  BY <1>2, <2>1 DEF Version
  <1>4. v.trigger \in Triggers /\ {v.created, v.base, v.listedAt} \subseteq Int
    BY <1>3 DEF Version
  <1> HIDE DEF v
  <1>5. IsMapping(v.mapping, Len(versions))
    <2>1. IsMapping(last.mapping, Len(versions) - 1) /\ Len(versions) - 1 \in Nat
      BY <1>1, <1>2 DEF IsVersion
    <2> QED  BY <1>1, <1>3, <2>1, MappingOfMore
  <1>6. (Len(versions) + 1) - 1 = Len(versions)
    BY <1>1
  <1>7. v \in Version /\ IsVersion(v, Len(versions) + 1)
    BY <1>2, <1>3, <1>4, <1>5, <1>6 DEF IsVersion
  <1> QED  BY <1>7 DEF v, last

LEMMA TypeStep == TypeInv /\ [Next]_vars => TypeInv'
  <1> SUFFICES ASSUME TypeInv, [Next]_vars PROVE TypeInv'
    OBVIOUS
  <1>1. ASSUME NEW c \in Commands, Start(c) \/ Populate(c) \/ ApiFails(c) \/ WranglerFails(c)
        PROVE  TypeInv'
    <2>1. PICK s \in Steps : Goto(c, s)
      BY <1>1 DEF Start, Populate, ApiFails, WranglerFails, Steps
    <2>2. UNCHANGED <<now, versions, command, listed, seen, mapping>>
      BY <1>1 DEF Start, Populate, ApiFails, WranglerFails
    <2> QED  BY <2>1, <2>2, GotoType, OnlySteps DEF TypeInv, TypeOK
  <1>2. ASSUME NEW c \in Commands, List(c) PROVE TypeInv'
    <2>1. PICK s \in Steps : Goto(c, s)
      BY <1>2 DEF List, MappingDone, Steps
    <2>2. step' \in [Commands -> Steps]
      BY <2>1, GotoType
    <2>3. UNCHANGED <<now, versions, command, mapping>>
      BY <1>2 DEF List
    <2>4. CASE command[c].skew
      <3>1. /\ listed' = [listed EXCEPT ![c] = Limited(RecentUploads)]
            /\ seen' = [seen EXCEPT ![c] = [count |-> Len(versions), at |-> now]]
        BY <1>2, <2>4 DEF List
      <3>2. Limited(RecentUploads) \subseteq DOMAIN versions
        BY DEF Limited, RecentUploads
      <3>3. /\ listed' \in [Commands -> SUBSET Nat]
            /\ \A d \in Commands : listed'[d] \subseteq DOMAIN versions
        <4>1. \A d \in Commands : listed'[d] \in {listed[d], Limited(RecentUploads)}
          BY <3>1 DEF TypeInv
        <4>2. Limited(RecentUploads) \subseteq Nat
          BY <3>2 DEF TypeInv
        <4>3. listed' \in [Commands -> SUBSET Nat]
          BY <3>1, <4>2 DEF TypeInv
        <4> QED  BY <3>2, <4>1, <4>3 DEF TypeInv, TypeOK
      <3>4. [count |-> Len(versions), at |-> now] \in [count : Nat, at : Nat]
        BY DEF TypeInv, TypeOK
      <3>5. seen' \in [Commands -> [count : Nat, at : Nat]]
        BY <3>1, <3>4 DEF TypeInv
      <3> QED  BY <2>2, <2>3, <3>3, <3>5 DEF TypeInv, TypeOK
    <2>5. CASE ~command[c].skew
      <3>1. UNCHANGED <<listed, seen>>
        BY <1>2, <2>5 DEF List
      <3> QED  BY <2>2, <2>3, <3>1, OnlySteps DEF TypeInv, TypeOK
    <2> QED  BY <2>4, <2>5
  <1>3. ASSUME NEW c \in Commands, Detail(c) PROVE TypeInv'
    <2> DEFINE existing == ExistingMapping(listed[c])
               new == UpdateDeploymentMapping(existing, listed[c], command[c].id)
    <2>1. PICK s \in Steps : Goto(c, s)
      BY <1>3 DEF Detail, MappingDone, Steps
    <2>2. step' \in [Commands -> Steps]
      BY <2>1, GotoType
    <2>3. UNCHANGED <<now, versions, command, listed, seen>>
      BY <1>3 DEF Detail
    <2>4. IsMapping(new, Len(versions))
      <3>1. /\ command[c].id \in Deployments /\ listed[c] \in SUBSET DOMAIN versions
        BY DEF TypeInv, TypeOK
      <3>2. IsMapping(existing, Len(versions))
        BY ExistingType
      <3> HIDE DEF existing
      <3> QED  BY <3>1, <3>2, UpdateType
    <2>5. mapping' = mapping \/ mapping' = [mapping EXCEPT ![c] = new]
      BY <1>3 DEF Detail
    <2> HIDE DEF new
    <2>6. /\ mapping' \in [Commands -> Maps]
          /\ \A d \in Commands : mapping'[d] \in {mapping[d], new}
      <3>1. new \in Maps
        BY <2>4, MappingOfMore DEF TypeInv
      <3> QED  BY <2>5, <3>1 DEF TypeInv
    <2>7. \A d \in Commands : IsMapping(mapping'[d], Len(versions))
      BY <2>4, <2>6 DEF TypeInv, TypeOK
    <2> QED  BY <2>2, <2>3, <2>6, <2>7 DEF TypeInv, TypeOK
  <1>4. ASSUME NEW c \in Commands, Wrangler(c) PROVE TypeInv'
    <2>1. step' \in [Commands -> Steps]
      BY <1>4, GotoType DEF Wrangler, Steps
    <2> QED  BY <1>4, <2>1, NewVersionType, VersionType DEF Wrangler
  <1>5. ASSUME ChangeSecret PROVE TypeInv'
    <2>1. step' \in [Commands -> Steps]
      BY <1>5 DEF ChangeSecret, TypeInv, TypeOK
    <2> QED  BY <1>5, <2>1, SecretVersionType, VersionType DEF ChangeSecret
  <1>6. ASSUME Tick PROVE TypeInv'
    BY <1>6, OnlySteps DEF Tick, TypeInv, TypeOK
  <1>7. ASSUME UNCHANGED vars PROVE TypeInv'
    BY <1>7, OnlySteps DEF vars, TypeInv, TypeOK
  <1> QED  BY <1>1, <1>2, <1>3, <1>4, <1>5, <1>6, <1>7 DEF Next

\* Types: a mapping names versions that exist, and that of a version older ones.
THEOREM TypeCorrect == Spec => []TypeOK
  <1>1. TypeInv => TypeOK
    BY DEF TypeInv
  <1> QED  BY <1>1, TypeInit, TypeStep, PTL DEF Spec

-----------------------------------------------------------------------------
(* Requests are routed right.                                              *)

\* A mapping leads to uploads of the deployments it names; "current" is the
\* deployment of the version it is made for.
GoodMapping(map, own) ==
    \A id \in DOMAIN map :
        \/ map[id] = Current /\ id = own
        \/ /\ map[id] \in DOMAIN versions
           /\ versions[map[id]].id = id
           /\ IsUpload(map[id])

RouteInv ==
    /\ \A v \in DOMAIN versions : GoodMapping(versions[v].mapping, versions[v].id)
    /\ \A c \in Commands : GoodMapping(mapping[c], command[c].id)
    /\ \A c \in Commands : \A i \in listed[c] : IsUpload(i)

\* What a command computes from the versions it listed is good for its own.
LEMMA UpdateIsGood ==
    ASSUME TypeInv, RouteInv, NEW c \in Commands
    PROVE  GoodMapping(UpdateDeploymentMapping(ExistingMapping(listed[c]), listed[c],
                                               command[c].id),
                       command[c].id)
  <1> DEFINE set == listed[c]
             map == ExistingMapping(set)
             own == command[c].id
             kept == {d \in DOMAIN map : IF map[d] = Current THEN set # {} ELSE map[d] \in set}
             new == [d \in kept \cup {own} |->
                        IF d \notin kept THEN Current
                        ELSE IF map[d] = Current THEN Newest(set)
                        ELSE map[d]]
  <1>1. set \in SUBSET DOMAIN versions /\ \A i \in set : IsUpload(i)
    BY DEF TypeInv, TypeOK, RouteInv
  <1>2. Current \notin DOMAIN versions
    BY DEF TypeInv, Current
  <1>3. ASSUME NEW d \in kept
        PROVE  new[d] \in set /\ versions[new[d]].id = d
    <2>1. set # {}
      OBVIOUS
    <2>2. Newest(set) \in set
      <3>1. Len(versions) \in Nat /\ set \in SUBSET (1 .. Len(versions))
        BY <1>1 DEF TypeInv
      <3> HIDE DEF set
      <3> QED  BY <2>1, <3>1, NewestIsOne
    <2>3. map = versions[Newest(set)].mapping
      BY <2>1 DEF ExistingMapping
    <2> HIDE DEF map, set
    <2>4. GoodMapping(map, versions[Newest(set)].id)
      BY <1>1, <2>2, <2>3 DEF RouteInv
    <2>5. d \in DOMAIN map
      OBVIOUS
    <2>6. CASE map[d] = Current
      <3>1. d = versions[Newest(set)].id
        BY <1>2, <2>4, <2>5, <2>6 DEF GoodMapping
      <3>2. new[d] = Newest(set)
        BY <2>6
      <3> QED  BY <2>2, <3>1, <3>2
    <2>7. CASE map[d] # Current
      <3>1. map[d] \in set /\ new[d] = map[d]
        BY <2>7
      <3>2. versions[map[d]].id = d
        BY <2>4, <2>5, <2>7 DEF GoodMapping
      <3> QED  BY <3>1, <3>2
    <2> QED  BY <2>6, <2>7
  <1>4. GoodMapping(new, own)
    <2> SUFFICES ASSUME NEW d \in DOMAIN new
                 PROVE  \/ new[d] = Current /\ d = own
                        \/ /\ new[d] \in DOMAIN versions
                           /\ versions[new[d]].id = d
                           /\ IsUpload(new[d])
      BY DEF GoodMapping
    <2> HIDE DEF kept, set, map, own
    <2>1. CASE d \in kept
      BY <1>1, <1>3, <2>1
    <2>2. CASE d \notin kept
      BY <2>2
    <2> QED  BY <2>1, <2>2
  <1> QED  BY <1>4 DEF UpdateDeploymentMapping

\* Nothing that a mapping depends on changes.
LEMMA RouteInvUnchanged ==
    ASSUME RouteInv, UNCHANGED <<versions, command, listed, mapping>>
    PROVE  RouteInv'
  BY DEF RouteInv, GoodMapping, IsUpload

\* A version is created with a good mapping.
LEMMA RouteInvAppended ==
    ASSUME TypeInv, RouteInv, NEW v \in Version, GoodMapping(v.mapping, v.id),
           versions' = Append(versions, v), UNCHANGED <<command, listed, mapping>>
    PROVE  RouteInv'
  <1>1. /\ versions'[Len(versions) + 1] = v
        /\ DOMAIN versions' = DOMAIN versions \cup {Len(versions) + 1}
        /\ \A i \in DOMAIN versions : versions'[i] = versions[i]
    BY Appended DEF TypeInv
  <1>2. \A i \in DOMAIN versions : IsUpload(i) => IsUpload(i)'
    BY <1>1 DEF IsUpload
  <1>3. ASSUME NEW map, NEW own, GoodMapping(map, own)
        PROVE  \A id \in DOMAIN map :
                    \/ map[id] = Current /\ id = own
                    \/ /\ map[id] \in DOMAIN versions'
                       /\ versions'[map[id]].id = id
                       /\ IsUpload(map[id])'
    BY <1>1, <1>2, <1>3 DEF GoodMapping, IsUpload
  <1>4. ASSUME NEW i \in DOMAIN versions'
        PROVE  GoodMapping(versions[i].mapping, versions[i].id)'
    <2>1. CASE i \in DOMAIN versions
      <3>1. GoodMapping(versions[i].mapping, versions[i].id)
        BY <2>1 DEF RouteInv
      <3> QED  BY <1>1, <1>3, <2>1, <3>1 DEF GoodMapping, IsUpload
    <2>2. CASE i = Len(versions) + 1
      BY <1>1, <1>3, <2>2 DEF GoodMapping, IsUpload
    <2> QED  BY <1>1, <2>1, <2>2
  <1>5. ASSUME NEW c \in Commands PROVE GoodMapping(mapping[c], command[c].id)'
    <2>1. GoodMapping(mapping[c], command[c].id)
      BY DEF RouteInv
    <2> QED  BY <1>3, <2>1 DEF GoodMapping, IsUpload
  <1>6. \A c \in Commands : \A i \in listed'[c] : IsUpload(i)'
    BY <1>2 DEF RouteInv, TypeInv, TypeOK
  <1> QED  BY <1>4, <1>5, <1>6 DEF RouteInv

LEMMA RouteInvStep == TypeInv /\ RouteInv /\ [Next]_vars => RouteInv'
  <1> SUFFICES ASSUME TypeInv, RouteInv, [Next]_vars PROVE RouteInv'
    OBVIOUS
  <1>1. ASSUME NEW c \in Commands, Start(c) \/ Populate(c) \/ ApiFails(c) \/ WranglerFails(c)
        PROVE  RouteInv'
    BY <1>1, RouteInvUnchanged DEF Start, Populate, ApiFails, WranglerFails
  <1>2. ASSUME NEW c \in Commands, List(c) PROVE RouteInv'
    <2>1. UNCHANGED <<versions, command, mapping>>
      BY <1>2 DEF List
    <2>2. listed' = listed \/ listed' = [listed EXCEPT ![c] = Limited(RecentUploads)]
      BY <1>2 DEF List
    <2>3. \A i \in Limited(RecentUploads) : IsUpload(i)
      BY DEF Limited, RecentUploads, IsUpload
    <2>4. \A d \in Commands : listed'[d] \in {listed[d], Limited(RecentUploads)}
      BY <2>2 DEF TypeInv
    <2> QED  BY <2>1, <2>3, <2>4 DEF RouteInv, GoodMapping, IsUpload
  <1>3. ASSUME NEW c \in Commands, Detail(c) PROVE RouteInv'
    <2> DEFINE new == UpdateDeploymentMapping(ExistingMapping(listed[c]), listed[c],
                                              command[c].id)
    <2>1. UNCHANGED <<versions, command, listed>>
      BY <1>3 DEF Detail
    <2>2. mapping' = mapping \/ mapping' = [mapping EXCEPT ![c] = new]
      BY <1>3 DEF Detail
    <2>3. GoodMapping(new, command[c].id)
      BY UpdateIsGood
    <2> HIDE DEF new
    <2>4. \A d \in Commands : mapping'[d] = mapping[d] \/ (d = c /\ mapping'[d] = new)
      BY <2>2 DEF TypeInv
    <2>5. \A d \in Commands : GoodMapping(mapping'[d], command[d].id)
      BY <2>3, <2>4 DEF RouteInv
    <2> QED  BY <2>1, <2>5 DEF RouteInv, GoodMapping, IsUpload
  <1>4. ASSUME NEW c \in Commands, Wrangler(c) PROVE RouteInv'
    <2>1. NewVersion(c) \in Version
      BY NewVersionType
    <2>2. GoodMapping(NewVersion(c).mapping, NewVersion(c).id)
      BY DEF NewVersion, RouteInv
    <2> QED  BY <1>4, <2>1, <2>2, RouteInvAppended DEF Wrangler
  <1>5. ASSUME ChangeSecret PROVE RouteInv'
    <2> DEFINE last == versions[Len(versions)]
               v == [last EXCEPT !.trigger = "secret", !.created = now]
    <2>1. versions' = Append(versions, v) /\ versions # <<>>
      BY <1>5 DEF ChangeSecret
    <2>2. v \in Version
      BY <2>1, SecretVersionType
    <2>3. Len(versions) \in DOMAIN versions
      BY <2>1 DEF TypeInv
    <2>4. last \in Version /\ GoodMapping(last.mapping, last.id)
      BY <2>3 DEF TypeInv, RouteInv
    <2> HIDE DEF last
    <2>5. v.mapping = last.mapping /\ v.id = last.id
      BY <2>4 DEF Version
    <2>6. GoodMapping(v.mapping, v.id)
      <3> HIDE DEF v
      <3> QED  BY <2>4, <2>5
    <2>7. UNCHANGED <<command, listed, mapping>>
      BY <1>5 DEF ChangeSecret
    <2> HIDE DEF v
    <2> QED  BY <2>1, <2>2, <2>6, <2>7, RouteInvAppended
  <1>6. ASSUME Tick \/ UNCHANGED vars PROVE RouteInv'
    BY <1>6, RouteInvUnchanged DEF Tick, vars
  <1> QED  BY <1>1, <1>2, <1>3, <1>4, <1>5, <1>6 DEF Next

LEMMA RouteInvInit == Init => RouteInv
  <1> SUFFICES ASSUME Init PROVE RouteInv
    OBVIOUS
  <1>1. \A v \in DOMAIN versions : versions[v].mapping = NoMapping
    BY DEF Init, Legacy
  <1>2. \A own : GoodMapping(NoMapping, own)
    BY DEF GoodMapping, NoMapping
  <1> QED  BY <1>1, <1>2 DEF Init, RouteInv

\* Whatever version is live, a request that names a deployment it knows gets the
\* assets of that deployment.
THEOREM RequestsRoutedRight == Spec => []RoutedRight
  <1>2. TypeInv /\ RouteInv => RoutedRight
    <2> SUFFICES ASSUME TypeInv, RouteInv, NEW v \in DOMAIN versions,
                        NEW id \in DOMAIN versions[v].mapping
                 PROVE  /\ versions[Answering(v, id)].id = id
                        /\ Answering(v, id) = v \/ IsUpload(Answering(v, id))
      BY DEF RoutedRight
    <2>1. Current \notin DOMAIN versions
      BY DEF TypeInv, Current
    <2> QED  BY <2>1 DEF RouteInv, GoodMapping, Answering
  <1> QED  BY <1>2, TypeInit, TypeStep, RouteInvInit, RouteInvStep, PTL DEF Spec

-----------------------------------------------------------------------------
(* Deployments stay reachable.                                             *)

\* The versions to keep of the first `base', at a time.
WindowAt(base, at) ==
    LET recent == {i \in 1 .. base : IsUpload(i) /\ versions[i].created >= at - MaxAge}
    IN  {i \in recent : Cardinality({j \in recent : j >= i}) <= MaxVersions}

SeenWindow(c) == WindowAt(seen[c].count, seen[c].at)

\* What Retained says of one version, of the mapping made for version `last'.
Kept(map, last, w) ==
    \/ \E u \in w .. last : versions[u].mapping = NoMapping
    \/ \E u \in w + 1 .. last : IsUpload(u) /\ Overlapped(u)
    \/ versions[w].id \in DOMAIN map /\ map[versions[w].id] = w

\* Versions are created in order, after the listing they are made from.
TimeInv ==
    /\ \A i, j \in DOMAIN versions : i <= j => versions[i].created <= versions[j].created
    /\ \A i \in DOMAIN versions :
        /\ versions[i].created <= now
        /\ versions[i].listedAt <= versions[i].created
        /\ versions[i].base \in 0 .. i - 1
    /\ \A c \in Commands :
        /\ seen[c].count <= Len(versions) /\ seen[c].at <= now
        /\ \A i \in 1 .. seen[c].count : versions[i].created <= seen[c].at

\* A mapping knows the version it is made for.
OwnInv ==
    /\ \A v \in DOMAIN versions :
        LET map == versions[v].mapping
        IN  map # NoMapping => versions[v].id \in DOMAIN map /\ map[versions[v].id] = Current
    /\ \A c \in Commands :
        mapping[c] # NoMapping =>
            command[c].id \in DOMAIN mapping[c] /\ mapping[c][command[c].id] = Current

\* A command computes its mapping once, from all the versions to keep.
PhaseInv ==
    \A c \in Commands :
        /\ \/ step[c] \in {"idle", "list", "detail"}
           \/ step[c] = "populate" /\ IsDeploy(c)
           => mapping[c] = NoMapping
        /\ step[c] = "detail" =>
            /\ SeenWindow(c) \subseteq listed[c]
            /\ listed[c] \subseteq 1 .. seen[c].count

ComputedKeeps(c) ==
    mapping[c] # NoMapping => \A w \in SeenWindow(c) : Kept(mapping[c], seen[c].count, w)

\* What a command has computed, and the versions, have what was to be kept.
KeepInv ==
    /\ \A c \in Commands : ComputedKeeps(c)
    /\ Retained

RetainInv == TimeInv /\ OwnInv /\ PhaseInv /\ KeepInv

LEMMA KeptByMore ==
    ASSUME NEW m \in Nat, NEW n \in Nat, m <= n, NEW map, NEW w \in Nat, Kept(map, m, w)
    PROVE  Kept(map, n, w)
  <1>1. w .. m \subseteq w .. n /\ w + 1 .. m \subseteq w + 1 .. n
    OBVIOUS
  <1> QED  BY <1>1 DEF Kept

\* What was to be kept for a command was for the newest version it listed, if
\* that version knew of it.
LEMMA WindowOfNewest ==
    ASSUME TypeInv, TimeInv, NEW count \in 0 .. Len(versions), NEW at \in Nat,
           NEW w \in WindowAt(count, at), NEW n \in 1 .. count, w <= versions[n].base,
           versions[n].created <= at
    PROVE  w \in Window(n)
  <1> DEFINE recent == {i \in 1 .. count : IsUpload(i) /\ versions[i].created >= at - MaxAge}
             before == {i \in 1 .. versions[n].base :
                            IsUpload(i) /\ versions[i].created >= versions[n].listedAt - MaxAge}
  <1>1. count \in Nat /\ MaxAge \in Nat /\ MaxVersions \in Nat
    OBVIOUS
  <1>0. 1 .. count \subseteq DOMAIN versions /\ n \in DOMAIN versions
    BY <1>1 DEF TypeInv
  <1>2. \A i \in 1 .. count : versions[i] \in Version /\ versions[i].created \in Int
    <2>1. \A i \in DOMAIN versions : versions[i] \in Version
      BY DEF TypeInv
    <2> QED  BY <1>0, <2>1 DEF Version
  <1>3. /\ versions[n].base \in 0 .. n - 1
        /\ versions[n].listedAt \in Int /\ versions[n].listedAt <= at
    <2>1. versions[n].base \in 0 .. n - 1 /\ versions[n].listedAt <= versions[n].created
      BY <1>0 DEF TimeInv
    <2>2. versions[n].listedAt \in Int /\ versions[n].created \in Int
      BY <1>2 DEF Version
    <2> QED  BY <2>1, <2>2
  <1>4. w \in recent /\ Cardinality({j \in recent : j >= w}) <= MaxVersions
    BY DEF WindowAt
  <1>5. \A j \in 1 .. count : w <= j => versions[w].created <= versions[j].created
    BY <1>0, <1>4 DEF TimeInv
  <1>6. w \in before
    <2>1. w \in 1 .. count /\ IsUpload(w) /\ versions[w].created >= at - MaxAge
      BY <1>4
    <2>2. w \in 1 .. versions[n].base
      BY <1>1, <1>3, <2>1
    <2>3. versions[w].created >= versions[n].listedAt - MaxAge
      <3> DEFINE x == versions[w].created
                 y == versions[n].listedAt
      <3>1. x \in Int /\ x >= at - MaxAge
        BY <1>2, <2>1
      <3>2. y \in Int /\ y <= at
        BY <1>3
      <3> HIDE DEF recent, before, x, y
      <3>3. x >= y - MaxAge
        BY <1>1, <3>1, <3>2
      <3> QED  BY <3>3 DEF x, y
    <2> QED  BY <2>1, <2>2, <2>3
  <1>7. {j \in before : j >= w} \subseteq {j \in recent : j >= w}
    <2> SUFFICES ASSUME NEW j \in before, j >= w PROVE j \in recent
      OBVIOUS
    <2>1. j \in 1 .. count /\ IsUpload(j)
      BY <1>1, <1>3
    <2>2. versions[w].created \in Int /\ versions[w].created >= at - MaxAge
      BY <1>2, <1>4
    <2>3. versions[w].created <= versions[j].created /\ versions[j].created \in Int
      BY <1>2, <1>4, <1>5, <2>1
    <2>4. versions[j].created >= at - MaxAge
      BY <1>1, <2>2, <2>3
    <2> QED  BY <2>1, <2>4
  <1>8. IsFiniteSet({j \in recent : j >= w})
    <2>1. IsFiniteSet(1 .. count)
      <3>1. 1 \in Int /\ count \in Int
        BY <1>1
      <3> HIDE DEF recent, before
      <3> QED  BY <3>1, FS_Interval, Zenon
    <2>2. {j \in recent : j >= w} \subseteq 1 .. count
      OBVIOUS
    <2> QED  BY <2>1, <2>2, FS_Subset
  <1> HIDE DEF recent, before
  <1>9. Cardinality({j \in before : j >= w}) <= MaxVersions
    <2>1. /\ IsFiniteSet({j \in before : j >= w})
          /\ Cardinality({j \in before : j >= w}) <= Cardinality({j \in recent : j >= w})
      BY <1>7, <1>8, FS_Subset
    <2>2. /\ Cardinality({j \in before : j >= w}) \in Nat
          /\ Cardinality({j \in recent : j >= w}) \in Nat
      BY <1>8, <2>1, FS_CardinalityType
    <2> QED  BY <1>1, <1>4, <2>1, <2>2
  <1> QED  BY <1>6, <1>9 DEF Window, before

\* The mapping a command computes has what was to be kept, and the command.
LEMMA UpdateKeeps ==
    ASSUME TypeInv, RouteInv, RetainInv, NEW c \in Commands, step[c] = "detail",
           command[c].id \notin DOMAIN ExistingMapping(listed[c]),
           NEW w \in SeenWindow(c)
    PROVE  Kept(UpdateDeploymentMapping(ExistingMapping(listed[c]), listed[c], command[c].id),
                seen[c].count, w)
  <1> DEFINE set == listed[c]
             map == ExistingMapping(set)
             own == command[c].id
             count == seen[c].count
             new == UpdateDeploymentMapping(map, set, own)
             n == Newest(set)
  <1>1. /\ count \in 0 .. Len(versions) /\ seen[c].at \in Nat
        /\ w \in set /\ set \subseteq 1 .. count
    BY DEF TypeInv, RetainInv, TimeInv, PhaseInv
  <1>2. n \in set /\ \A i \in set : i <= n
    <2>1. Len(versions) \in Nat /\ set \in SUBSET (1 .. Len(versions)) /\ set # {}
      BY <1>1
    <2> HIDE DEF set
    <2> QED  BY <2>1, NewestIsOne
  <1>4. map = versions[n].mapping
    BY <1>1 DEF ExistingMapping
  <1>5. ASSUME NEW d \in DOMAIN map, map[d] = Current \/ map[d] \in set
        PROVE  /\ d \in DOMAIN new
               /\ new[d] = IF map[d] = Current THEN n ELSE map[d]
    BY <1>1, <1>5 DEF UpdateDeploymentMapping
  <1>6. /\ w \in Nat /\ n \in 1 .. count /\ w <= n /\ n \in DOMAIN versions
        /\ Current \notin set
    BY <1>1, <1>2 DEF TypeInv, Current
  <1> HIDE DEF set, map, own, new
  <1>7. CASE versions[n].mapping = NoMapping
    <2>1. n \in w .. count
      BY <1>1, <1>6
    <2> QED  BY <1>7, <2>1 DEF Kept, new, map, set, own
  <1>8. CASE versions[n].mapping # NoMapping /\ w = n
    <2>1. versions[n].id \in DOMAIN map /\ map[versions[n].id] = Current
      BY <1>4, <1>6, <1>8 DEF RetainInv, OwnInv
    <2>2. versions[w].id \in DOMAIN new /\ new[versions[w].id] = w
      BY <1>5, <1>8, <2>1
    <2> QED  BY <2>2 DEF Kept, new, map, set, own
  <1>9. CASE w # n /\ w > versions[n].base
    <2>1. IsUpload(w) /\ IsUpload(n)
      BY <1>2 DEF RouteInv, SeenWindow, WindowAt, set
    <2>2. versions[n].base \in 0 .. n - 1
      BY <1>6 DEF RetainInv, TimeInv
    <2>3. w \in versions[n].base + 1 .. n - 1 /\ n \in w + 1 .. count
      BY <1>6, <1>9, <2>2
    <2>4. Overlapped(n)
      BY <2>1, <2>3 DEF Overlapped
    <2> QED  BY <2>1, <2>3, <2>4 DEF Kept
  <1>10. CASE w # n /\ w <= versions[n].base
    <2>1. versions[n].created <= seen[c].at
      BY <1>6 DEF RetainInv, TimeInv
    <2>2. w \in Window(n)
      BY <1>1, <1>6, <1>10, <2>1, WindowOfNewest DEF RetainInv, SeenWindow
    <2>3. Kept(versions[n].mapping, n, w)
      BY <1>6, <2>2 DEF RetainInv, KeepInv, Retained, Kept
    <2>4. w .. n \subseteq w .. count /\ w + 1 .. n \subseteq w + 1 .. count
      <3>1. n \in Nat /\ count \in Nat /\ w \in Nat /\ n <= count
        BY <1>1, <1>6
      <3> HIDE DEF count
      <3> QED  BY <3>1
    <2>5. CASE versions[w].id \in DOMAIN map /\ map[versions[w].id] = w
      <3>1. versions[w].id \in DOMAIN new /\ new[versions[w].id] = w
        BY <1>1, <1>5, <1>6, <2>5
      <3> QED  BY <3>1 DEF Kept, new, map, set, own
    <2> QED  BY <1>4, <2>3, <2>4, <2>5 DEF Kept
  <1> QED  BY <1>6, <1>7, <1>8, <1>9, <1>10 DEF TypeInv, RetainInv, TimeInv

\* A version is created by a step that computes nothing.
Creates(v) ==
    /\ v \in Version /\ versions' = Append(versions, v)
    /\ v.created = now /\ v.listedAt <= now /\ v.base \in 0 .. Len(versions)
    /\ UNCHANGED <<now, command, listed, seen, mapping>>

LEMMA WranglerCreates ==
    ASSUME TypeInv, RetainInv, NEW c \in Commands, Wrangler(c)
    PROVE  Creates(NewVersion(c))
  <1>1. NewVersion(c) \in Version
    BY NewVersionType
  <1>2. seen[c].count \in 0 .. Len(versions) /\ seen[c].at <= now
    BY DEF TypeInv, RetainInv, TimeInv
  <1>3. Len(versions) \in Nat
    BY DEF TypeInv
  <1>4. NewVersion(c).base \in 0 .. Len(versions)
    BY <1>2, <1>3 DEF NewVersion
  <1> QED  BY <1>1, <1>2, <1>4 DEF Wrangler, NewVersion, Creates

LEMMA SecretCreates ==
    ASSUME TypeInv, RetainInv, ChangeSecret
    PROVE  \E v : /\ Creates(v)
                  /\ Len(versions) \in DOMAIN versions
                  /\ v.id = versions[Len(versions)].id
                  /\ v.mapping = versions[Len(versions)].mapping
                  /\ v.base = versions[Len(versions)].base
                  /\ v.listedAt = versions[Len(versions)].listedAt
                  /\ UNCHANGED step
  <1> DEFINE last == versions[Len(versions)]
             v == [last EXCEPT !.trigger = "secret", !.created = now]
  <1>1. versions' = Append(versions, v) /\ versions # <<>>
        /\ UNCHANGED <<now, command, step, listed, seen, mapping>>
    BY DEF ChangeSecret
  <1>2. v \in Version
    BY <1>1, SecretVersionType
  <1>3. Len(versions) \in DOMAIN versions /\ Len(versions) \in Nat
    BY <1>1 DEF TypeInv
  <1>4. last \in Version
    BY <1>3 DEF TypeInv
  <1>5. /\ last.created <= now /\ last.listedAt <= last.created
        /\ last.base \in 0 .. Len(versions) - 1
    BY <1>3 DEF RetainInv, TimeInv
  <1> HIDE DEF last
  <1>6. v.mapping = last.mapping /\ v.id = last.id /\ v.created = now
        /\ v.listedAt = last.listedAt /\ v.base = last.base
    BY <1>4 DEF Version
  <1>7. last.listedAt <= now
    <2>1. last.listedAt \in Int /\ last.created \in Int /\ now \in Int
      BY <1>4 DEF Version, TypeInv, TypeOK
    <2> QED  BY <1>5, <2>1
  <1> HIDE DEF v
  <1>8. Creates(v)
    BY <1>1, <1>2, <1>3, <1>5, <1>6, <1>7 DEF Creates
  <1> QED  BY <1>1, <1>3, <1>6, <1>8 DEF last

LEMMA CreatedTime ==
    ASSUME TypeInv, RetainInv, NEW v, Creates(v)
    PROVE  TimeInv'
  <1>1. /\ Len(versions) \in Nat /\ DOMAIN versions = 1 .. Len(versions)
        /\ Len(versions') = Len(versions) + 1
        /\ versions'[Len(versions) + 1] = v
        /\ DOMAIN versions' = DOMAIN versions \cup {Len(versions) + 1}
        /\ \A i \in DOMAIN versions : versions'[i] = versions[i]
    BY Appended DEF TypeInv, Creates
  <1>2. now \in Nat /\ now' = now /\ v.created = now
    BY DEF TypeInv, TypeOK, Creates
  <1>3. ASSUME NEW i \in DOMAIN versions', NEW j \in DOMAIN versions', i <= j
        PROVE  versions'[i].created <= versions'[j].created
    <2>1. CASE i \in DOMAIN versions /\ j \in DOMAIN versions
      BY <1>1, <1>3, <2>1 DEF RetainInv, TimeInv
    <2>2. CASE i \in DOMAIN versions /\ j = Len(versions) + 1
      BY <1>1, <1>2, <2>2 DEF RetainInv, TimeInv
    <2>3. CASE i = Len(versions) + 1
      <3>1. j = i
        BY <1>1, <1>3, <2>3
      <3> QED  BY <1>1, <1>2, <2>3, <3>1
    <2> QED  BY <1>1, <2>1, <2>2, <2>3
  <1>4. ASSUME NEW i \in DOMAIN versions'
        PROVE  /\ versions'[i].created <= now'
               /\ versions'[i].listedAt <= versions'[i].created
               /\ versions'[i].base \in 0 .. i - 1
    <2>1. CASE i \in DOMAIN versions
      BY <1>1, <1>2, <2>1 DEF RetainInv, TimeInv
    <2>2. CASE i = Len(versions) + 1
      <3>1. v.listedAt <= now /\ v.base \in 0 .. (Len(versions) + 1) - 1
        BY <1>1 DEF Creates
      <3> QED  BY <1>1, <1>2, <2>2, <3>1
    <2> QED  BY <1>1, <2>1, <2>2
  <1>5. ASSUME NEW c \in Commands
        PROVE  /\ seen'[c].count <= Len(versions') /\ seen'[c].at <= now'
               /\ \A i \in 1 .. seen'[c].count : versions'[i].created <= seen'[c].at
    <2>1. /\ seen[c].count <= Len(versions) /\ seen[c].at <= now
          /\ \A i \in 1 .. seen[c].count : versions[i].created <= seen[c].at
      BY DEF RetainInv, TimeInv
    <2>2. seen[c].count \in Nat /\ seen' = seen
      BY DEF TypeInv, Creates
    <2>3. 1 .. seen[c].count \subseteq DOMAIN versions
      BY <1>1, <2>1, <2>2
    <2> QED  BY <1>1, <1>2, <2>1, <2>2, <2>3
  <1> QED  BY <1>3, <1>4, <1>5 DEF TimeInv

LEMMA TimeStep == TypeInv /\ RetainInv /\ [Next]_vars => TimeInv'
  <1> SUFFICES ASSUME TypeInv, RetainInv, [Next]_vars PROVE TimeInv'
    OBVIOUS
  <1>1. ASSUME UNCHANGED <<now, versions, seen>> PROVE TimeInv'
    BY <1>1 DEF RetainInv, TimeInv
  <1>2. ASSUME NEW c \in Commands, List(c) PROVE TimeInv'
    <2>1. /\ seen' = [seen EXCEPT ![c] = [count |-> Len(versions), at |-> now]] \/ seen' = seen
          /\ UNCHANGED <<now, versions>>
      BY <1>2 DEF List
    <2>2. Len(versions) \in Nat /\ now \in Nat /\ DOMAIN versions = 1 .. Len(versions)
      BY DEF TypeInv, TypeOK
    <2>3. ASSUME NEW d \in Commands
          PROVE  /\ seen'[d].count <= Len(versions) /\ seen'[d].at <= now
                 /\ \A i \in 1 .. seen'[d].count : versions[i].created <= seen'[d].at
      <3>1. seen'[d] \in {seen[d], [count |-> Len(versions), at |-> now]}
        BY <2>1 DEF TypeInv
      <3>2. CASE seen'[d] = seen[d]
        BY <3>2 DEF RetainInv, TimeInv
      <3>3. CASE seen'[d] = [count |-> Len(versions), at |-> now]
        <4>1. seen'[d].count = Len(versions) /\ seen'[d].at = now
          BY <3>3
        <4> QED  BY <2>2, <4>1 DEF RetainInv, TimeInv
      <3> QED  BY <3>1, <3>2, <3>3
    <2> QED  BY <2>1, <2>3 DEF RetainInv, TimeInv
  <1>3. ASSUME NEW c \in Commands,
               Start(c) \/ Populate(c) \/ Detail(c) \/ ApiFails(c) \/ WranglerFails(c)
        PROVE  TimeInv'
    BY <1>1, <1>3 DEF Start, Populate, Detail, ApiFails, WranglerFails
  <1>4. ASSUME NEW c \in Commands, Wrangler(c) PROVE TimeInv'
    BY <1>4, WranglerCreates, CreatedTime
  <1>5. ASSUME ChangeSecret PROVE TimeInv'
    BY <1>5, SecretCreates, CreatedTime
  <1>6. ASSUME Tick PROVE TimeInv'
    <2>1. now \in Nat /\ now' = now + 1 /\ UNCHANGED <<versions, seen>>
      BY <1>6 DEF Tick, TypeInv, TypeOK
    <2>2. ASSUME NEW i \in DOMAIN versions PROVE versions[i].created <= now'
      <3>1. versions[i].created <= now /\ versions[i] \in Version
        BY DEF TypeInv, RetainInv, TimeInv
      <3>2. versions[i].created \in Int
        BY <3>1 DEF Version
      <3> QED  BY <2>1, <3>1, <3>2
    <2>3. ASSUME NEW c \in Commands PROVE seen[c].at <= now'
      <3>1. seen[c].at \in Nat /\ seen[c].at <= now
        BY DEF TypeInv, RetainInv, TimeInv
      <3> QED  BY <2>1, <3>1
    <2> QED  BY <2>1, <2>2, <2>3 DEF RetainInv, TimeInv
  <1> HIDE DEF TimeInv
  <1> QED  BY <1>1, <1>2, <1>3, <1>4, <1>5, <1>6 DEF Next, vars

LEMMA OwnStep == TypeInv /\ RetainInv /\ [Next]_vars => OwnInv'
  <1> SUFFICES ASSUME TypeInv, RetainInv, [Next]_vars PROVE OwnInv'
    OBVIOUS
  <1>0. OwnInv
    BY DEF RetainInv
  <1>1. ASSUME UNCHANGED <<versions, command, mapping>> PROVE OwnInv'
    BY <1>0, <1>1 DEF OwnInv
  <1>2. ASSUME NEW v, Creates(v),
               v.mapping # NoMapping => v.id \in DOMAIN v.mapping /\ v.mapping[v.id] = Current
        PROVE  OwnInv'
    <2>1. /\ versions'[Len(versions) + 1] = v
          /\ DOMAIN versions' = DOMAIN versions \cup {Len(versions) + 1}
          /\ \A i \in DOMAIN versions : versions'[i] = versions[i]
      BY <1>2, Appended DEF TypeInv, Creates
    <2> QED  BY <1>0, <1>2, <2>1 DEF OwnInv, Creates
  <1>3. ASSUME NEW c \in Commands, Detail(c) PROVE OwnInv'
    <2> DEFINE existing == ExistingMapping(listed[c])
               own == command[c].id
               new == UpdateDeploymentMapping(existing, listed[c], own)
    <2>1. /\ UNCHANGED <<versions, command>>
          /\ \/ mapping' = mapping
             \/ own \notin DOMAIN existing /\ mapping' = [mapping EXCEPT ![c] = new]
      BY <1>3 DEF Detail
    <2>2. own \notin DOMAIN existing => own \in DOMAIN new /\ new[own] = Current
      <3> HIDE DEF existing, own
      <3> QED  BY DEF UpdateDeploymentMapping
    <2> HIDE DEF new, existing
    <2>3. ASSUME NEW d \in Commands, mapping'[d] # NoMapping
          PROVE  command[d].id \in DOMAIN mapping'[d] /\ mapping'[d][command[d].id] = Current
      <3>1. mapping'[d] = mapping[d] \/ (own \notin DOMAIN existing /\ d = c /\ mapping'[d] = new)
        BY <2>1 DEF TypeInv
      <3> QED  BY <1>0, <2>2, <2>3, <3>1 DEF OwnInv
    <2> QED  BY <1>0, <2>1, <2>3 DEF OwnInv
  <1>4. ASSUME NEW c \in Commands, Wrangler(c) PROVE OwnInv'
    <2>1. NewVersion(c).mapping = mapping[c] /\ NewVersion(c).id = command[c].id
      BY DEF NewVersion
    <2> QED  BY <1>0, <1>2, <1>4, <2>1, WranglerCreates DEF OwnInv
  <1>5. ASSUME ChangeSecret PROVE OwnInv'
    BY <1>0, <1>2, <1>5, SecretCreates DEF OwnInv
  <1>6. ASSUME NEW c \in Commands,
               Start(c) \/ Populate(c) \/ List(c) \/ ApiFails(c) \/ WranglerFails(c)
        PROVE  OwnInv'
    BY <1>1, <1>6 DEF Start, Populate, List, ApiFails, WranglerFails
  <1>7. ASSUME Tick \/ UNCHANGED vars PROVE OwnInv'
    BY <1>1, <1>7 DEF Tick, vars
  <1> HIDE DEF OwnInv
  <1> QED  BY <1>3, <1>4, <1>5, <1>6, <1>7 DEF Next

\* The versions there were stay as they are, and so does what depends on them.
LEMMA PrefixStays ==
    ASSUME TypeInv, RetainInv, NEW v, Creates(v), NEW i \in DOMAIN versions
    PROVE  /\ versions'[i] = versions[i]
           /\ IsUpload(i)' = IsUpload(i)
           /\ Overlapped(i)' = Overlapped(i)
  <1>1. \A j \in DOMAIN versions : versions'[j] = versions[j]
    BY Appended DEF TypeInv, Creates
  <1>2. \A j \in DOMAIN versions : IsUpload(j)' = IsUpload(j)
    BY <1>1 DEF IsUpload
  <1>3. Overlapped(i)' = Overlapped(i)
    <2>1. versions[i].base \in 0 .. i - 1
      BY DEF RetainInv, TimeInv
    <2>2. versions[i].base + 1 .. i - 1 \subseteq DOMAIN versions
      BY <2>1 DEF TypeInv
    <2> QED  BY <1>1, <1>2, <2>2 DEF Overlapped
  <1> QED  BY <1>1, <1>2, <1>3

LEMMA SeenWindowStays ==
    ASSUME TypeInv, RetainInv, NEW v, Creates(v), NEW c \in Commands
    PROVE  SeenWindow(c)' = SeenWindow(c)
  <1>1. seen' = seen /\ 1 .. seen[c].count \subseteq DOMAIN versions
    BY DEF Creates, TypeInv, RetainInv, TimeInv
  <1>2. {i \in 1 .. seen'[c].count : IsUpload(i)' /\ versions'[i].created >= seen'[c].at - MaxAge}
          = {i \in 1 .. seen[c].count : IsUpload(i) /\ versions[i].created >= seen[c].at - MaxAge}
    BY <1>1, PrefixStays
  <1> QED  BY <1>2 DEF SeenWindow, WindowAt

LEMMA WindowStays ==
    ASSUME TypeInv, RetainInv, NEW v, Creates(v), NEW x \in DOMAIN versions
    PROVE  Window(x)' = Window(x)
  <1>1. versions'[x] = versions[x]
    BY PrefixStays
  <1>2. 1 .. versions[x].base \subseteq DOMAIN versions
    BY DEF TypeInv, RetainInv, TimeInv
  <1>3. {i \in 1 .. versions'[x].base :
            IsUpload(i)' /\ versions'[i].created >= versions'[x].listedAt - MaxAge}
          = {i \in 1 .. versions[x].base :
                IsUpload(i) /\ versions[i].created >= versions[x].listedAt - MaxAge}
    BY <1>1, <1>2, PrefixStays
  <1> QED  BY <1>3 DEF Window

LEMMA SameSeenWindow ==
    ASSUME UNCHANGED versions, NEW c \in Commands, UNCHANGED seen[c]
    PROVE  SeenWindow(c)' = SeenWindow(c)
  <1>1. {i \in 1 .. seen'[c].count :
            IsUpload(i)' /\ versions'[i].created >= seen'[c].at - MaxAge}
          = {i \in 1 .. seen[c].count :
                IsUpload(i) /\ versions[i].created >= seen[c].at - MaxAge}
    BY DEF IsUpload
  <1> QED  BY <1>1 DEF SeenWindow, WindowAt

LEMMA PhaseStep == TypeInv /\ RetainInv /\ [Next]_vars => PhaseInv'
  <1> SUFFICES ASSUME TypeInv, RetainInv, [Next]_vars PROVE PhaseInv'
    OBVIOUS
  <1>0. PhaseInv /\ step \in [Commands -> Steps]
    BY DEF RetainInv, TypeInv, TypeOK
  <1>1. ASSUME NEW c \in Commands, NEW s, Goto(c, s), UNCHANGED <<versions, command>>,
               \A d \in Commands \ {c} : UNCHANGED <<listed[d], seen[d], mapping[d]>>,
               \/ s \in {"idle", "list", "detail"}
               \/ s = "populate" /\ IsDeploy(c)
               => mapping'[c] = NoMapping,
               s = "detail" =>
                   /\ SeenWindow(c)' \subseteq listed'[c]
                   /\ listed'[c] \subseteq 1 .. seen'[c].count
        PROVE  PhaseInv'
    <2>1. step'[c] = s /\ \A d \in Commands \ {c} : step'[d] = step[d]
      BY <1>0, <1>1 DEF Goto
    <2>2. ASSUME NEW d \in Commands, UNCHANGED seen[d] PROVE SeenWindow(d)' = SeenWindow(d)
      BY <1>1, <2>2, SameSeenWindow
    <2>3. ASSUME NEW d \in Commands \ {c}
          PROVE  /\ \/ step'[d] \in {"idle", "list", "detail"}
                    \/ step'[d] = "populate" /\ IsDeploy(d)'
                    => mapping'[d] = NoMapping
                 /\ step'[d] = "detail" =>
                     /\ SeenWindow(d)' \subseteq listed'[d]
                     /\ listed'[d] \subseteq 1 .. seen'[d].count
      BY <1>0, <1>1, <2>1, <2>2 DEF PhaseInv, IsDeploy
    <2>4. /\ \/ step'[c] \in {"idle", "list", "detail"}
             \/ step'[c] = "populate" /\ IsDeploy(c)'
             => mapping'[c] = NoMapping
          /\ step'[c] = "detail" =>
              /\ SeenWindow(c)' \subseteq listed'[c]
              /\ listed'[c] \subseteq 1 .. seen'[c].count
      BY <1>1, <2>1 DEF IsDeploy
    <2> QED  BY <2>3, <2>4 DEF PhaseInv
  <1>2. ASSUME NEW c \in Commands, NEW s \in {"list", "populate", "wrangler", "failed"},
               Goto(c, s), UNCHANGED <<versions, command, listed, seen, mapping>>,
               \/ s = "list"
               \/ s = "populate" /\ IsDeploy(c)
               => mapping[c] = NoMapping
        PROVE  PhaseInv'
    BY <1>1, <1>2
  <1>3. ASSUME NEW c \in Commands, Start(c) PROVE PhaseInv'
    <2>1. PICK s \in {"list", "populate"} : Goto(c, s)
      BY <1>3 DEF Start
    <2>2. mapping[c] = NoMapping /\ UNCHANGED <<versions, command, listed, seen, mapping>>
      BY <1>0, <1>3 DEF Start, PhaseInv
    <2> QED  BY <1>2, <2>1, <2>2
  <1>4. ASSUME NEW c \in Commands, Populate(c) PROVE PhaseInv'
    <2>1. PICK s \in {"list", "wrangler", "failed"} : Goto(c, s) /\ (s = "list" => IsDeploy(c))
      BY <1>4 DEF Populate
    <2>2. /\ IsDeploy(c) => mapping[c] = NoMapping
          /\ UNCHANGED <<versions, command, listed, seen, mapping>>
      BY <1>0, <1>4 DEF Populate, PhaseInv
    <2> QED  BY <1>2, <2>1, <2>2
  <1>5. ASSUME NEW c \in Commands, List(c) PROVE PhaseInv'
    <2>1. mapping[c] = NoMapping /\ UNCHANGED <<versions, command, mapping>>
      BY <1>0, <1>5 DEF List, PhaseInv
    <2>2. CASE command[c].skew
      <3>1. /\ listed' = [listed EXCEPT ![c] = Limited(RecentUploads)]
            /\ seen' = [seen EXCEPT ![c] = [count |-> Len(versions), at |-> now]]
            /\ Goto(c, "detail")
        BY <1>5, <2>2 DEF List
      <3>2. \A d \in Commands \ {c} : UNCHANGED <<listed[d], seen[d], mapping[d]>>
        BY <2>1, <3>1 DEF TypeInv
      <3>3. /\ listed'[c] = Limited(RecentUploads)
            /\ seen'[c].count = Len(versions) /\ seen'[c].at = now
        BY <3>1 DEF TypeInv
      <3>4. DOMAIN versions = 1 .. Len(versions)
        BY DEF TypeInv
      <3>5. RecentUploads =
                {i \in 1 .. Len(versions) : IsUpload(i) /\ versions[i].created >= now - MaxAge}
        BY <3>4 DEF RecentUploads, IsUpload
      <3>6. SeenWindow(c)' \subseteq Limited(RecentUploads)
        <4>1. {i \in 1 .. seen'[c].count :
                  IsUpload(i)' /\ versions'[i].created >= seen'[c].at - MaxAge}
                = RecentUploads
          BY <2>1, <3>3, <3>5 DEF IsUpload
        <4> QED  BY <4>1 DEF SeenWindow, WindowAt, Limited
      <3>7. Limited(RecentUploads) \subseteq 1 .. Len(versions)
        BY <3>4 DEF Limited, RecentUploads
      <3> QED  BY <1>1, <2>1, <3>1, <3>2, <3>3, <3>6, <3>7
    <2>3. CASE ~command[c].skew
      <3>1. MappingDone(c) /\ UNCHANGED <<listed, seen>>
        BY <1>5, <2>3 DEF List
      <3>2. PICK s \in {"populate", "wrangler"} : Goto(c, s)
        BY <3>1 DEF MappingDone
      <3> QED  BY <1>2, <2>1, <3>1, <3>2
    <2> QED  BY <2>2, <2>3
  <1>6. ASSUME NEW c \in Commands, Detail(c) PROVE PhaseInv'
    <2>1. /\ UNCHANGED <<versions, command, listed, seen>>
          /\ \E new : mapping' = mapping \/ mapping' = [mapping EXCEPT ![c] = new]
      BY <1>6 DEF Detail
    <2>2. \A d \in Commands \ {c} : UNCHANGED <<listed[d], seen[d], mapping[d]>>
      BY <2>1 DEF TypeInv
    <2>3. PICK s \in {"populate", "wrangler", "failed"} :
            Goto(c, s) /\ (s = "populate" => ~IsDeploy(c))
      BY <1>6 DEF Detail, MappingDone
    <2> QED  BY <1>1, <2>1, <2>2, <2>3
  <1>7. ASSUME NEW c \in Commands, ApiFails(c) \/ WranglerFails(c) PROVE PhaseInv'
    BY <1>2, <1>7 DEF ApiFails, WranglerFails
  <1>8. ASSUME NEW v, Creates(v), step' = step \/ \E c \in Commands : Goto(c, "done")
        PROVE  PhaseInv'
    <2> SUFFICES ASSUME NEW c \in Commands
                 PROVE  /\ \/ step'[c] \in {"idle", "list", "detail"}
                           \/ step'[c] = "populate" /\ IsDeploy(c)'
                           => mapping'[c] = NoMapping
                        /\ step'[c] = "detail" =>
                            /\ SeenWindow(c)' \subseteq listed'[c]
                            /\ listed'[c] \subseteq 1 .. seen'[c].count
      BY DEF PhaseInv
    <2>1. step'[c] = step[c] \/ step'[c] = "done"
      BY <1>0, <1>8 DEF Goto
    <2>2. UNCHANGED <<command, listed, seen, mapping>>
      BY <1>8 DEF Creates
    <2>5. SeenWindow(c)' = SeenWindow(c)
      BY <1>8, SeenWindowStays
    <2> QED  BY <1>0, <2>1, <2>2, <2>5 DEF PhaseInv, IsDeploy
  <1>9. ASSUME NEW c \in Commands, Wrangler(c) PROVE PhaseInv'
    BY <1>8, <1>9, WranglerCreates DEF Wrangler
  <1>10. ASSUME ChangeSecret PROVE PhaseInv'
    BY <1>8, <1>10, SecretCreates
  <1>11. ASSUME Tick \/ UNCHANGED vars PROVE PhaseInv'
    <2>1. UNCHANGED <<versions, command, step, listed, seen, mapping>>
      BY <1>11 DEF Tick, vars
    <2>2. UNCHANGED seen
      BY <1>11 DEF Tick, vars
    <2>3. ASSUME NEW c \in Commands PROVE SeenWindow(c)' = SeenWindow(c)
      BY <2>1, <2>2, SameSeenWindow
    <2> QED  BY <1>0, <2>1, <2>3 DEF PhaseInv, IsDeploy
  <1> HIDE DEF PhaseInv
  <1> QED  BY <1>3, <1>4, <1>5, <1>6, <1>7, <1>9, <1>10, <1>11 DEF Next

RetainedAt(v) == \A w \in Window(v) : Kept(versions[v].mapping, v, w)

LEMMA CreatedKeeps ==
    ASSUME TypeInv, RetainInv, NEW v, Creates(v)
    PROVE  /\ \A c \in Commands : ComputedKeeps(c)'
           /\ \A x \in DOMAIN versions : RetainedAt(x)'
  <1>1. Len(versions) \in Nat /\ DOMAIN versions = 1 .. Len(versions)
    BY DEF TypeInv
  <1>2. ASSUME NEW last \in 0 .. Len(versions), NEW map, NEW w \in 1 .. last, Kept(map, last, w)
        PROVE  Kept(map, last, w)'
    <2>1. w .. last \subseteq DOMAIN versions /\ w + 1 .. last \subseteq DOMAIN versions
      BY <1>1
    <2>2. w \in DOMAIN versions
      BY <1>1
    <2> QED  BY <1>2, <2>1, <2>2, PrefixStays DEF Kept
  <1>3. ASSUME NEW c \in Commands PROVE ComputedKeeps(c)'
    <2> SUFFICES ASSUME mapping'[c] # NoMapping, NEW w \in SeenWindow(c)'
                 PROVE  Kept(mapping[c], seen[c].count, w)'
      BY DEF ComputedKeeps, Kept
    <2>1. mapping' = mapping /\ seen' = seen
      BY DEF Creates
    <2>2. PICK count \in 0 .. Len(versions), map \in Maps : seen[c].count = count /\ mapping[c] = map
      BY DEF TypeInv, RetainInv, TimeInv
    <2>3. w \in SeenWindow(c)
      BY SeenWindowStays
    <2>4. Kept(map, count, w) /\ w \in 1 .. count
      BY <2>1, <2>2, <2>3 DEF RetainInv, KeepInv, ComputedKeeps, SeenWindow, WindowAt
    <2>5. Kept(map, count, w)'
      BY <1>2, <2>4
    <2> QED  BY <2>1, <2>2, <2>5 DEF Kept
  <1>4. ASSUME NEW x \in DOMAIN versions PROVE RetainedAt(x)'
    <2> SUFFICES ASSUME NEW w \in Window(x)' PROVE Kept(versions[x].mapping, x, w)'
      BY DEF RetainedAt, Kept
    <2>1. w \in Window(x)
      BY WindowStays
    <2>2. PICK map : versions[x].mapping = map
      OBVIOUS
    <2>3. Kept(map, x, w)
      BY <2>1, <2>2 DEF RetainInv, KeepInv, Retained, Kept
    <2>4. versions[x].base \in 0 .. x - 1 /\ w \in 1 .. versions[x].base
      BY <2>1 DEF RetainInv, TimeInv, Window
    <2>5. x \in 0 .. Len(versions) /\ w \in 1 .. x
      BY <1>1, <2>4
    <2>6. Kept(map, x, w)'
      BY <1>2, <2>3, <2>5
    <2>7. versions'[x].mapping = map
      BY <2>2, PrefixStays
    <2> QED  BY <2>6, <2>7 DEF Kept
  <1> QED  BY <1>3, <1>4

\* The version that is created has what was to be kept.
LEMMA KeepCreated ==
    ASSUME TypeInv, RetainInv, NEW v, Creates(v), NEW x, x = Len(versions) + 1, RetainedAt(x)'
    PROVE  KeepInv'
  <1>1. DOMAIN versions' = DOMAIN versions \cup {x}
    BY Appended DEF TypeInv, Creates
  <1>2. \A y \in DOMAIN versions' : RetainedAt(y)'
    BY <1>1, CreatedKeeps
  <1>3. Retained'
    BY <1>2 DEF Retained, RetainedAt, Kept
  <1> QED  BY <1>3, CreatedKeeps DEF KeepInv

LEMMA KeepStep == TypeInv /\ RouteInv /\ RetainInv /\ [Next]_vars => KeepInv'
  <1> SUFFICES ASSUME TypeInv, RouteInv, RetainInv, [Next]_vars PROVE KeepInv'
    OBVIOUS
  <1>0. KeepInv
    BY DEF RetainInv
  <1>1. ASSUME UNCHANGED versions PROVE Retained'
    <2>1. \A x : Window(x)' = Window(x)
      BY <1>1 DEF Window, IsUpload
    <2>2. \A x : Overlapped(x)' = Overlapped(x) /\ IsUpload(x)' = IsUpload(x)
      BY <1>1 DEF Overlapped, IsUpload
    <2> QED  BY <1>0, <1>1, <2>1, <2>2 DEF KeepInv, Retained
  <1>2. ASSUME UNCHANGED versions, NEW map, NEW last, NEW w, Kept(map, last, w)
        PROVE  Kept(map, last, w)'
    BY <1>2 DEF Kept, IsUpload, Overlapped
  <1>3. ASSUME UNCHANGED versions, NEW c \in Commands,
               UNCHANGED <<seen[c], mapping[c]>> \/ mapping'[c] = NoMapping
        PROVE  ComputedKeeps(c)'
    <2> SUFFICES ASSUME mapping'[c] # NoMapping, NEW w \in SeenWindow(c)'
                 PROVE  Kept(mapping[c], seen[c].count, w)'
      BY DEF ComputedKeeps, Kept
    <2>1. UNCHANGED <<seen[c], mapping[c]>>
      BY <1>3
    <2>2. PICK count, map : seen[c].count = count /\ mapping[c] = map
      OBVIOUS
    <2>3. w \in SeenWindow(c)
      BY <1>3, <2>1, SameSeenWindow
    <2>4. Kept(map, count, w)
      BY <1>0, <2>1, <2>2, <2>3 DEF KeepInv, ComputedKeeps
    <2>5. Kept(map, count, w)'
      BY <1>2, <1>3, <2>4
    <2> QED  BY <2>1, <2>2, <2>5 DEF Kept
  <1>4. ASSUME UNCHANGED <<versions, seen, mapping>> PROVE KeepInv'
    BY <1>1, <1>3, <1>4 DEF KeepInv
  <1>5. ASSUME NEW c \in Commands, List(c) PROVE KeepInv'
    <2>1. UNCHANGED <<versions, mapping>> /\ mapping[c] = NoMapping
      BY <1>5 DEF List, RetainInv, PhaseInv
    <2>2. \A d \in Commands \ {c} : UNCHANGED seen[d]
      BY <1>5 DEF List, TypeInv
    <2>3. \A d \in Commands : UNCHANGED <<seen[d], mapping[d]>> \/ mapping'[d] = NoMapping
      BY <2>1, <2>2
    <2> QED  BY <1>1, <1>3, <2>1, <2>3 DEF KeepInv
  <1>6. ASSUME NEW c \in Commands, Detail(c) PROVE KeepInv'
    <2> DEFINE existing == ExistingMapping(listed[c])
               new == UpdateDeploymentMapping(existing, listed[c], command[c].id)
    <2>1. UNCHANGED <<versions, seen>> /\ step[c] = "detail"
      BY <1>6 DEF Detail
    <2>2. CASE UNCHANGED mapping
      BY <1>4, <2>1, <2>2
    <2>3. CASE command[c].id \notin DOMAIN existing /\ mapping' = [mapping EXCEPT ![c] = new]
      <3>1. mapping'[c] = new /\ \A d \in Commands \ {c} : UNCHANGED mapping[d]
        BY <2>3 DEF TypeInv
      <3>2. \A w \in SeenWindow(c) : Kept(new, seen[c].count, w)
        BY <2>1, <2>3, UpdateKeeps
      <3> HIDE DEF new, existing
      <3>3. PICK map, count : new = map /\ seen[c].count = count
        OBVIOUS
      <3>4. ASSUME NEW w \in SeenWindow(c)' PROVE Kept(mapping[c], seen[c].count, w)'
        <4>1. w \in SeenWindow(c)
          BY <2>1, SameSeenWindow
        <4>2. Kept(map, count, w)
          BY <3>2, <3>3, <4>1
        <4>3. Kept(map, count, w)'
          BY <1>2, <2>1, <4>2
        <4> QED  BY <2>1, <3>1, <3>3, <4>3 DEF Kept
      <3>5. ComputedKeeps(c)'
        BY <3>4 DEF ComputedKeeps, Kept
      <3> QED  BY <1>1, <1>3, <2>1, <3>1, <3>5 DEF KeepInv
    <2> QED  BY <1>6, <2>2, <2>3 DEF Detail
  <1>7. ASSUME NEW c \in Commands, Wrangler(c) PROVE KeepInv'
    <2>1. PICK v : v = NewVersion(c)
      OBVIOUS
    <2>2. Creates(v)
      BY <1>7, <2>1, WranglerCreates
    <2>3. PICK x : x = Len(versions) + 1
      OBVIOUS
    <2>4. versions'[x] = v /\ Len(versions) \in Nat
      BY <2>2, <2>3, Appended DEF TypeInv, Creates
    <2>5. PICK map, at, count :
            mapping[c] = map /\ seen[c].at = at /\ seen[c].count = count
      OBVIOUS
    <2>10. count \in 0 .. Len(versions)
      BY <2>5 DEF TypeInv, RetainInv, TimeInv
    <2>6. /\ v.mapping = map /\ v.listedAt = at
          /\ v.base = IF command[c].skew THEN count ELSE 0
      BY <2>1, <2>5 DEF NewVersion
    <2>7. mapping'[c] = map /\ seen'[c].count = count /\ seen'[c].at = at
      BY <2>2, <2>5 DEF Creates
    <2>8. ASSUME NEW w \in Window(x)' PROVE Kept(map, x, w)'
      <3>1. w \in 1 .. v.base
        BY <2>4 DEF Window
      <3>2. v.base = count
        BY <2>6, <3>1
      <3>3. w \in SeenWindow(c)'
        <4>1. {i \in 1 .. versions'[x].base :
                  IsUpload(i)' /\ versions'[i].created >= versions'[x].listedAt - MaxAge}
                = {i \in 1 .. seen'[c].count :
                      IsUpload(i)' /\ versions'[i].created >= seen'[c].at - MaxAge}
          BY <2>4, <2>6, <2>7, <3>2
        <4> QED  BY <4>1 DEF Window, SeenWindow, WindowAt
      <3>4. {w, x, count} \subseteq Nat /\ w <= count /\ count <= x
        BY <2>3, <2>4, <2>10, <3>1, <3>2
      <3>5. CASE map = NoMapping
        <4>1. x \in w .. x /\ versions'[x].mapping = NoMapping
          BY <2>4, <2>6, <3>4, <3>5
        <4> QED  BY <4>1 DEF Kept
      <3>6. CASE map # NoMapping
        <4>1. Kept(mapping[c], seen[c].count, w)'
          BY <2>2, <2>7, <3>3, <3>6, CreatedKeeps DEF ComputedKeeps, Kept
        <4>2. Kept(map, count, w)'
          BY <2>7, <4>1 DEF Kept
        <4>3. w .. count \subseteq w .. x /\ w + 1 .. count \subseteq w + 1 .. x
          BY <3>4
        <4> QED  BY <4>2, <4>3 DEF Kept
      <3> QED  BY <3>5, <3>6
    <2>9. RetainedAt(x)'
      BY <2>4, <2>6, <2>8 DEF RetainedAt, Kept
    <2> QED  BY <2>2, <2>3, <2>9, KeepCreated
  <1>8. ASSUME ChangeSecret PROVE KeepInv'
    <2>1. PICK n, x : n = Len(versions) /\ x = Len(versions) + 1
      OBVIOUS
    <2>2. PICK v : /\ Creates(v)
                   /\ n \in DOMAIN versions
                   /\ v.mapping = versions[n].mapping
                   /\ v.base = versions[n].base
                   /\ v.listedAt = versions[n].listedAt
      BY <1>8, <2>1, SecretCreates
    <2>3. versions'[x] = v /\ n \in Nat /\ x = n + 1
      BY <2>1, <2>2, Appended DEF TypeInv, Creates
    <2>4. versions'[n] = versions[n] /\ RetainedAt(n)'
      BY <2>2, PrefixStays, CreatedKeeps
    <2>5. Window(x)' = Window(n)'
      BY <2>2, <2>3, <2>4 DEF Window
    <2>6. ASSUME NEW w \in Window(x)' PROVE Kept(versions[x].mapping, x, w)'
      <3>1. Kept(versions[n].mapping, n, w)'
        BY <2>4, <2>5 DEF RetainedAt, Kept
      <3>2. w \in Nat
        BY DEF Window
      <3>3. w .. n \subseteq w .. x /\ w + 1 .. n \subseteq w + 1 .. x
        BY <2>3, <3>2
      <3>4. versions'[x].mapping = versions'[n].mapping
        BY <2>2, <2>3, <2>4
      <3> QED  BY <3>1, <3>3, <3>4 DEF Kept
    <2>7. RetainedAt(x)'
      BY <2>6 DEF RetainedAt, Kept
    <2> QED  BY <2>1, <2>2, <2>7, KeepCreated
  <1>9. ASSUME NEW c \in Commands, Start(c) \/ Populate(c) \/ ApiFails(c) \/ WranglerFails(c)
        PROVE  KeepInv'
    BY <1>4, <1>9 DEF Start, Populate, ApiFails, WranglerFails
  <1>10. ASSUME Tick \/ UNCHANGED vars PROVE KeepInv'
    BY <1>4, <1>10 DEF Tick, vars
  <1> HIDE DEF KeepInv
  <1> QED  BY <1>5, <1>6, <1>7, <1>8, <1>9, <1>10 DEF Next

\* Each deployment that is recent enough stays reachable from the versions after
\* it, but for commands that overlap and versions without a mapping: by induction
\* on the versions, each of which is made from the newest one its command listed.
THEOREM DeploymentsRetained == Spec => []Retained
  <1>1. Init => RetainInv
    <2> SUFFICES ASSUME Init PROVE RetainInv
      OBVIOUS
    <2>1. \A i \in DOMAIN versions : i = 1 /\ versions[i] = Legacy
      BY DEF Init
    <2>2. Len(versions) \in Nat
      BY TypeInit DEF TypeInv
    <2>3. TimeInv
      BY <2>1, <2>2 DEF Init, TimeInv, Legacy
    <2>4. OwnInv
      BY <2>1 DEF Init, OwnInv, Legacy
    <2>5. PhaseInv
      BY DEF Init, PhaseInv
    <2>6. KeepInv
      <3>1. Retained
        BY <2>1 DEF Retained, Window, Legacy
      <3> QED  BY <3>1 DEF Init, KeepInv, ComputedKeeps
    <2> QED  BY <2>3, <2>4, <2>5, <2>6 DEF RetainInv
  <1>2. TypeInv /\ RouteInv /\ RetainInv /\ [Next]_vars => RetainInv'
    BY TimeStep, OwnStep, PhaseStep, KeepStep DEF RetainInv
  <1>3. RetainInv => Retained
    BY DEF RetainInv, KeepInv
  <1> QED
    BY <1>1, <1>2, <1>3, TypeInit, TypeStep, RouteInvInit, RouteInvStep, PTL DEF Spec
=============================================================================
