--------------------------- MODULE PDMemberProofs ---------------------------
(***************************************************************************)
(* About PDMember, for any number of replicas, templates, attempts, failed *)
(* requests and restarts: type correctness, that PD never scales, and, for *)
(* any number of template edits that wait for the roll before to be over,  *)
(* that the roll goes from the top down, that no member is replaced while  *)
(* two others are down, and that it implements the abstract Rollout.       *)
(***************************************************************************)
EXTENDS PDMember, TLAPS, FiniteSetTheorems

USE StatefulSetAssumption, StatefulSetControlAssumption, PDAssumption

-----------------------------------------------------------------------------
(* What the steps of Kubernetes and of the control do to the types of the set, *)
(* of its copies and of the pods                                               *)

\* A set built for replicas and a template is a configuration.
LEMMA NewSetType ==
  ASSUME NEW r \in 0 .. MaxReplicas, NEW t \in Revisions \cup {0}
  PROVE  NewSet(r, t) \in Config
  BY DEF NewSet, Config

LEMMA NoSetType == NoConfig \in Config /\ NoSet \in SetObject /\ NoRequest.spec \in Config
  BY DEF NoConfig, NoSet, NoStatus, NoRequest, Config, Status, SetObject

\* A write leaves an object of the API server's type.
LEMMA StoredType ==
  ASSUME sts \in SetObject, NEW spec \in Config, NEW applied \in Config
  PROVE  Stored(spec, applied) \in SetObject
  BY DEF Stored, SetObject

\* No more pods are ready than there are ordinals.
LEMMA ReadyCount ==
  ASSUME NEW S \in SUBSET Ordinals
  PROVE  Cardinality(S) \in 0 .. MaxReplicas
<1>1. IsFiniteSet(Ordinals) /\ Cardinality(Ordinals) = MaxReplicas
  BY FS_Interval DEF Ordinals
<1>2. IsFiniteSet(S) /\ Cardinality(S) <= MaxReplicas
  BY <1>1, FS_Subset
<1>3. QED
  BY <1>2, FS_CardinalityType

\* So the controller computes a status.
LEMMA ComputedStatusType ==
  ASSUME StsTypeOK
  PROVE  ComputedStatus \in Status
<1>1. Cardinality({i \in Ordinals : i < sts.spec.replicas /\ Ready(i)}) \in 0 .. MaxReplicas
  BY ReadyCount
<1>2. sts.spec \in Config /\ sts.status \in Status
  BY DEF StsTypeOK, SetObject
<1>3. QED
  BY <1>1, <1>2 DEF ComputedStatus, Config, Status

\* What a step of Kubernetes does to the types.
LEMMA EnvironmentType ==
  ASSUME StsTypeOK, Environment
  PROVE  StsTypeOK'
<1> USE DEF StsTypeOK
<1>1. CASE ObserveStatus
  <2>1. ComputedStatus \in Status
    BY ComputedStatusType
  <2>2. sts' \in SetObject
    BY <1>1, <2>1 DEF ObserveStatus, SetObject
  <2>3. QED
    BY <1>1, <2>2 DEF ObserveStatus, AllStale
<1>2. ASSUME NEW i \in Ordinals, CreatePod(i) PROVE StsTypeOK'
  <2>1. RevisionFor(i) \in Revisions \cup {0}
    BY DEF RevisionFor, SetObject, Status, Config
  <2>2. QED
    BY <1>2, <2>1 DEF CreatePod, PodStates
<1>3. ASSUME NEW i \in Ordinals, DeleteForUpdate(i) \/ DeleteCondemned(i) PROVE StsTypeOK'
  BY <1>3 DEF DeleteForUpdate, DeleteCondemned, NoPod, PodStates
<1>4. ASSUME NEW i \in Ordinals, StartPod(i) \/ MemberUp(i) PROVE StsTypeOK'
  <2>1. \E st \in PodStates : pods' = [pods EXCEPT ![i].st = st]
    BY <1>4 DEF StartPod, MemberUp, PodStates
  <2>2. UNCHANGED <<sts, cache, ver, budget>>
    BY <1>4 DEF StartPod, MemberUp
  <2>3. QED
    BY <2>1, <2>2
<1>5. ASSUME NEW i \in Ordinals, MemberCrash(i) PROVE StsTypeOK'
  BY <1>5 DEF MemberCrash, PodStates
<1>6. CASE DeliverSet
  BY <1>6 DEF DeliverSet
<1>7. QED
  BY <1>1, <1>2, <1>3, <1>4, <1>5, <1>6 DEF Environment, RollPods, ScaleIn, BringUp

\* What a step of an update in flight does to the types.
LEMMA UpdateType ==
  ASSUME ControlTypeOK, UpdateStatefulSet
  PROVE  ControlTypeOK'
<1> USE DEF ControlTypeOK, StsTypeOK
<1>1. NoRequest \in [tries : 0 .. MaxTries, spec : Config, applied : Config]
  BY NoSetType DEF NoRequest
<1>2. Stored(req.spec, req.applied) \in SetObject
  BY StoredType
<1>3. AllStale \in [cache : BOOLEAN, req : BOOLEAN, alias : BOOLEAN]
  BY DEF AllStale
<1>4. CASE UpdateAccepted
  BY <1>1, <1>2, <1>3, <1>4 DEF UpdateAccepted
<1>5. CASE UpdateConflict
  <2>1. cache.applied \in Config
    BY DEF SetObject
  <2>2. req' \in [tries : 0 .. MaxTries, spec : Config, applied : Config]
    <3>1. CASE req.tries > 1
      <4>1. req' = [req EXCEPT !.tries = @ - 1, !.applied = cache.applied]
        BY <1>5, <3>1 DEF UpdateConflict
      <4>2. req.tries - 1 \in 0 .. MaxTries
        BY <3>1
      <4>3. QED BY <2>1, <4>1, <4>2
    <3>2. CASE ~(req.tries > 1)
      BY <1>1, <1>5, <3>2 DEF UpdateConflict
    <3>3. QED BY <3>1, <3>2
  <2>3. ver' \in [cache : BOOLEAN, req : BOOLEAN, alias : BOOLEAN]
    BY <1>5 DEF UpdateConflict
  <2>4. QED
    BY <1>5, <2>2, <2>3 DEF UpdateConflict
<1>6. CASE UpdateFailed
  <2>1. /\ req' = NoRequest
        /\ budget' \in [crash : 0 .. MaxCrashes, fail : 0 .. MaxFailures,
                        restart : 0 .. MaxRestarts]
        /\ UNCHANGED <<cache, pods>>
    BY <1>6 DEF UpdateFailed
  <2>2. \/ UNCHANGED <<sts, ver>>
        \/ sts' = Stored(req.spec, req.applied) /\ ver' = AllStale
    BY <1>6 DEF UpdateFailed
  <2>3. /\ sts' \in SetObject
        /\ ver' \in [cache : BOOLEAN, req : BOOLEAN, alias : BOOLEAN]
    BY <1>2, <1>3, <2>2
  <2>4. QED
    BY <1>1, <2>1, <2>3
<1>7. QED
  BY <1>4, <1>5, <1>6 DEF UpdateStatefulSet

\* What submitting an update does to the types.
LEMMA SubmitType ==
  ASSUME ControlTypeOK, NEW new \in Config, SubmitUpdate(new)
  PROVE  ControlTypeOK'
<1>1. [cache EXCEPT !.spec.replicas = new.replicas, !.applied = new] \in SetObject
  BY DEF ControlTypeOK, StsTypeOK, SetObject, Config
<1>2. QED
  BY <1>1 DEF ControlTypeOK, StsTypeOK, SubmitUpdate

\* What creating the set does to the types.
LEMMA CreateType ==
  ASSUME ControlTypeOK, NEW new \in Config, CreateStatefulSet(new)
  PROVE  ControlTypeOK'
<1>1. Stored(new, new) \in SetObject
  BY StoredType DEF ControlTypeOK, StsTypeOK
<1>2. CASE UNCHANGED setVars
  BY <1>2 DEF setVars, ControlTypeOK, StsTypeOK
<1>3. CASE sts' = Stored(new, new) /\ ver' = AllStale /\ UNCHANGED <<cache, pods, budget, req>>
  BY <1>1, <1>3 DEF ControlTypeOK, StsTypeOK, AllStale
<1>4. CASE /\ budget.fail > 0
           /\ budget' = [budget EXCEPT !.fail = @ - 1]
           /\ UNCHANGED <<sts, cache, ver, pods, req>>
  BY <1>4 DEF ControlTypeOK, StsTypeOK
<1>5. QED
  BY <1>2, <1>3, <1>4 DEF CreateStatefulSet

-----------------------------------------------------------------------------
(* Type correctness *)

\* Whatever the upgrader decides, what is written is a configuration.
LEMMA UpdatesType ==
  ASSUME TypeOK
  PROVE  Updates \subseteq Config
<1>1. pass.new \in Config /\ pass.old.spec \in Config /\ pass.old.status \in Status
  BY DEF TypeOK, SetObject
<1>2. Pending \subseteq 0 .. MaxReplicas
  BY <1>1 DEF Pending, Status
<1>3. GracefulPartitions \subseteq 0 .. MaxReplicas
  BY <1>1, <1>2 DEF GracefulPartitions, Config
<1>4. UpgradePartitions \subseteq 0 .. MaxReplicas
  BY <1>1, <1>3 DEF UpgradePartitions, Config
<1>5. \A p \in 0 .. MaxReplicas : [pass.new EXCEPT !.partition = p] \in Config
  BY <1>1 DEF Config
<1>6. QED
  BY <1>4, <1>5 DEF Updates

LEMMA InitType == Init => TypeOK
<1> SUFFICES ASSUME Init PROVE TypeOK
  OBVIOUS
<1>1. StsTypeOK
  BY NoSetType DEF Init, ControlInit, StsInit, StsTypeOK, FullBudget, NoPod, PodStates
<1>2. ControlTypeOK
  BY <1>1, NoSetType DEF Init, ControlInit, ControlTypeOK, NoRequest
<1>3. asked \in SUBSET Ordinals /\ known \in BOOLEAN
  BY DEF Init
<1>4. QED
  BY <1>2, <1>3, NoSetType DEF Init, TypeOK, NoPass, Phases

\* Every step keeps the types.
LEMMA StepType == TypeOK /\ [Next]_vars => TypeOK'
<1> SUFFICES ASSUME TypeOK, [Next]_vars PROVE TypeOK'
  OBVIOUS
<1>0. ControlTypeOK /\ StsTypeOK
  BY DEF TypeOK, ControlTypeOK
<1>n. NoPass \in [new : Config, old : SetObject, health : SUBSET Ordinals]
  BY NoSetType DEF NoPass
<1>1. CASE CreateSet
  <2>1. NewSet(want.replicas, want.tmpl) \in Config
    BY NewSetType DEF TypeOK
  <2>2. ControlTypeOK'
    BY <1>0, <1>1, <2>1, CreateType DEF CreateSet
  <2>3. QED
    BY <1>1, <2>2 DEF CreateSet, pdVars, passVars, startVars, TypeOK
<1>2. CASE SyncStatus
  <2>1. PICK synced \in BOOLEAN :
          /\ \/ UNCHANGED budget
             \/ budget.fail > 0 /\ budget' = [budget EXCEPT !.fail = @ - 1]
          /\ status' = [phase |-> IF MemberSetIsUpgrading(cache) THEN "Upgrade" ELSE "Normal",
                        synced |-> synced]
          /\ pass' = [new |-> NewSet(want.replicas, want.tmpl), old |-> cache,
                      health |-> IF synced THEN Healthy ELSE {}]
    BY <1>2 DEF SyncStatus
  <2>2. pass' \in [new : Config, old : SetObject, health : SUBSET Ordinals]
    <3>1. Healthy \in SUBSET Ordinals
      BY DEF Healthy, UpMembers
    <3>2. NewSet(want.replicas, want.tmpl) \in Config
      BY NewSetType DEF TypeOK
    <3>3. cache \in SetObject
      BY <1>0 DEF StsTypeOK
    <3>4. QED BY <2>1, <3>1, <3>2, <3>3
  <2>3. status' \in [phase : Phases, synced : BOOLEAN]
    BY <2>1 DEF Phases
  <2>4. budget' \in [crash : 0 .. MaxCrashes, fail : 0 .. MaxFailures,
                     restart : 0 .. MaxRestarts]
    BY <1>0, <2>1 DEF StsTypeOK
  <2>5. ver' \in [cache : BOOLEAN, req : BOOLEAN, alias : BOOLEAN]
    BY <1>0, <1>2 DEF SyncStatus, StsTypeOK
  <2>6. ControlTypeOK'
    BY <1>0, <1>2, <2>4, <2>5 DEF SyncStatus, ControlTypeOK, StsTypeOK
  <2>7. QED
    BY <1>2, <2>2, <2>3, <2>6 DEF SyncStatus, TypeOK, startVars
<1>3. CASE Upgrade
  <2>1. status' \in [phase : Phases, synced : BOOLEAN]
    BY <1>3 DEF Upgrade, PhaseAfterUpgrade, Phases, TypeOK
  <2>2. CASE UNCHANGED setVars
    BY <1>0, <1>3, <1>n, <2>1, <2>2
    DEF Upgrade, setVars, startVars, TypeOK, ControlTypeOK, StsTypeOK
  <2>3. ASSUME NEW new \in Updates, SubmitUpdate(new) PROVE TypeOK'
    <3>1. new \in Config
      BY UpdatesType
    <3>2. ControlTypeOK'
      BY <1>0, <2>3, <3>1, SubmitType
    <3>3. QED
      BY <1>3, <1>n, <2>1, <3>2 DEF Upgrade, TypeOK, startVars
  <2>4. QED
    BY <1>3, <2>2, <2>3 DEF Upgrade
<1>4. CASE UpdateStatefulSet /\ UNCHANGED pdVars
  BY <1>0, <1>4, UpdateType DEF pdVars, passVars, startVars, TypeOK
<1>5. CASE Environment /\ UNCHANGED <<req, pdVars>>
  BY <1>0, <1>5, EnvironmentType DEF pdVars, passVars, startVars, TypeOK, ControlTypeOK
<1>6. CASE Restart
  <2>1. ControlTypeOK'
    <3>1. budget' \in [crash : 0 .. MaxCrashes, fail : 0 .. MaxFailures,
                       restart : 0 .. MaxRestarts]
      BY <1>0, <1>6 DEF Restart, StsTypeOK
    <3>2. ver' \in [cache : BOOLEAN, req : BOOLEAN, alias : BOOLEAN]
      BY <1>0, <1>6 DEF Restart, StsTypeOK
    <3>3. NoRequest \in [tries : 0 .. MaxTries, spec : Config, applied : Config]
      BY NoSetType DEF NoRequest
    <3>4. QED
      BY <1>0, <1>6, <3>1, <3>2, <3>3 DEF Restart, ControlTypeOK, StsTypeOK
  <2>2. QED
    BY <1>6, <1>n, <2>1 DEF Restart, TypeOK, startVars
<1>7. CASE EditSpec
  <2>1. want' \in [replicas : 0 .. MaxReplicas, tmpl : Revisions]
    <3>1. ReplicaEdits \subseteq 0 .. MaxReplicas
      OBVIOUS
    <3>2. QED BY <1>7, <3>1 DEF EditSpec
  <2>2. edits' \in 0 .. MaxEdits
    BY <1>7 DEF EditSpec, TypeOK
  <2>3. ControlTypeOK'
    BY <1>0, <1>7 DEF EditSpec, setVars, ControlTypeOK, StsTypeOK
  <2>4. QED
    BY <1>7, <2>1, <2>2, <2>3 DEF EditSpec, TypeOK, startVars
<1>8. CASE UNCHANGED vars
  BY <1>0, <1>8 DEF vars, setVars, pdVars, passVars, startVars, TypeOK, ControlTypeOK, StsTypeOK
<1>9. ASSUME NEW i \in Ordinals, Discover(i) PROVE TypeOK'
  <2>1. asked' \in SUBSET Ordinals /\ known' \in BOOLEAN
    BY <1>9 DEF Discover, TypeOK
  <2>2. QED
    BY <1>0, <1>9, <2>1
    DEF Discover, setVars, passVars, TypeOK, ControlTypeOK, StsTypeOK
<1>10. QED
  BY <1>1, <1>2, <1>3, <1>4, <1>5, <1>6, <1>7, <1>8, <1>9 DEF Next, Pass

\* The manager, the API server and the pods are always of their types: every
\* partition and ordinal computed is one of the set's.
\* pd_member_manager.go and pd_upgrader.go.
THEOREM TypeCorrect == Spec => []TypeOK
  BY InitType, StepType, PTL DEF Spec

-----------------------------------------------------------------------------
(* PD never scales *)

LEMMA InitReplicas == Init => ReplicasFixed
  BY DEF Init, ControlInit, StsInit, ReplicasFixed, NoSet, NoRequest, Writing

\* Every step keeps what is in flight at the replicas of the set, and the set
\* at its own.
LEMMA StepReplicas ==
  TypeOK /\ ReplicasFixed /\ [Next]_vars
    => /\ ReplicasFixed'
       /\ sts.exists => sts'.exists /\ sts'.spec.replicas = sts.spec.replicas
<1> DEFINE Kept == sts.exists => sts'.exists /\ sts'.spec.replicas = sts.spec.replicas
<1> SUFFICES ASSUME TypeOK, ReplicasFixed, [Next]_vars PROVE ReplicasFixed' /\ Kept
  OBVIOUS
<1> USE DEF ReplicasFixed, Writing
<1>0. /\ sts \in SetObject /\ cache \in SetObject /\ pass.old \in SetObject
      /\ sts.spec \in Config /\ cache.spec \in Config /\ pass.new \in Config
      /\ req \in [tries : 0 .. MaxTries, spec : Config, applied : Config]
  BY DEF TypeOK, ControlTypeOK, StsTypeOK, SetObject
<1>1. CASE CreateSet
  BY <1>0, <1>1 DEF CreateSet, CreateStatefulSet, Stored, setVars, pdVars, passVars, SetObject
<1>2. CASE SyncStatus
  BY <1>2 DEF SyncStatus
<1>3. CASE Upgrade
  <2>1. CASE UNCHANGED setVars
    BY <1>3, <2>1 DEF Upgrade, setVars
  <2>2. ASSUME NEW new \in Updates, SubmitUpdate(new) PROVE ReplicasFixed' /\ Kept
    <3>1. new.replicas = pass.old.spec.replicas
      BY DEF Updates
    <3>2. sts.exists /\ pass.old.spec.replicas = sts.spec.replicas
      BY <1>3 DEF Upgrade
    <3>3. /\ cache'.exists = cache.exists
          /\ cache'.spec.replicas \in {cache.spec.replicas, new.replicas}
      BY <1>0, <2>2 DEF SubmitUpdate, SetObject, Config
    <3>4. req'.spec = new /\ UNCHANGED sts /\ pc' = "idle"
      BY <1>3, <2>2 DEF SubmitUpdate, Upgrade
    <3>5. QED
      BY <3>1, <3>2, <3>3, <3>4
  <2>3. QED
    BY <1>3, <2>1, <2>2 DEF Upgrade
<1>4. CASE UpdateStatefulSet /\ UNCHANGED pdVars
  <2>1. /\ UNCHANGED <<cache, pdVars>> /\ Writing
        /\ req'.tries > 0 => req'.spec = req.spec
        /\ \/ UNCHANGED sts
           \/ sts' = Stored(req.spec, req.applied)
    <3>1. CASE UpdateAccepted
      BY <1>4, <3>1 DEF UpdateAccepted, NoRequest
    <3>2. CASE UpdateConflict
      <4>1. CASE req.tries > 1
        BY <1>0, <1>4, <3>2, <4>1 DEF UpdateConflict
      <4>2. CASE ~(req.tries > 1)
        BY <1>4, <3>2, <4>2 DEF UpdateConflict, NoRequest
      <4>3. QED BY <4>1, <4>2
    <3>3. CASE UpdateFailed
      BY <1>4, <3>3 DEF UpdateFailed, NoRequest
    <3>4. QED
      BY <1>4, <3>1, <3>2, <3>3 DEF UpdateStatefulSet
  <2>2. Stored(req.spec, req.applied).exists /\ Stored(req.spec, req.applied).spec = req.spec
    BY <1>0 DEF Stored, SetObject
  <2>3. Kept /\ sts'.exists /\ sts'.spec.replicas = sts.spec.replicas
    BY <2>1, <2>2
  <2>4. QED
    BY <2>1, <2>3 DEF pdVars, passVars
<1>5. CASE Environment /\ UNCHANGED <<req, pdVars>>
  <2>1. /\ sts'.exists = sts.exists /\ sts'.spec = sts.spec
        /\ \/ UNCHANGED cache
           \/ cache' = sts /\ UNCHANGED sts
    BY <1>0, <1>5
    DEF Environment, ObserveStatus, RollPods, ScaleIn, BringUp, DeliverSet, CreatePod,
        DeleteForUpdate, DeleteCondemned, StartPod, MemberUp, MemberCrash, SetObject
  <2>2. QED
    BY <1>5, <2>1 DEF pdVars, passVars
<1>6. CASE Restart
  BY <1>6 DEF Restart, NoRequest
<1>7. CASE EditSpec
  BY <1>7 DEF EditSpec, setVars
<1>8. CASE (\E i \in Ordinals : Discover(i)) \/ UNCHANGED vars
  BY <1>8 DEF Discover, vars, setVars, pdVars, passVars
<1>9. QED
  BY <1>1, <1>2, <1>3, <1>4, <1>5, <1>6, <1>7, <1>8 DEF Next, Pass

\* The cache, the pass and the request in flight always have the replicas of
\* the set.  pd_member_manager.go: syncPDStatefulSetForCellCluster.
THEOREM ReplicasAgree == Spec => []ReplicasFixed
  BY InitType, StepType, InitReplicas, StepReplicas, PTL DEF Spec

\* No edit, stale read, shared copy or retry ever changes the number of PD
\* replicas.  pd_member_manager.go: the check of the replicas before the update.
THEOREM ReplicasNeverChange == Spec => NeverScales
<1>1. TypeOK /\ ReplicasFixed /\ [Next]_vars
        => [sts.exists => sts'.spec.replicas = sts.spec.replicas]_vars
  BY StepReplicas
<1>2. Spec => [](TypeOK /\ ReplicasFixed)
  BY InitType, StepType, InitReplicas, StepReplicas, PTL DEF Spec
<1>3. QED
  BY <1>1, <1>2, PTL DEF Spec, NeverScales
-----------------------------------------------------------------------------
(* The roll goes from the top down.  One edit takes the running set from its   *)
(* first template to another; every copy of it, of its status and of what was  *)
(* asked for is either still of the first template or of the new one, and none *)
(* is ahead of the object it was copied from.                                  *)

\* A copy is behind an object: each of its revisions is the first or the object's.
Behind(b, copy, object) ==
  /\ copy.spec.tmpl \in {b, object.spec.tmpl}
  /\ copy.status.updateRev \in {b, object.status.updateRev}
  /\ copy.status.currentRev \in {b, object.status.currentRev}

\* The templates asked for: the pass and the request in flight may have missed the
\* edit, but never what was stored before them.
Asked(b) ==
  /\ sts.spec.tmpl \in {b, want.tmpl}
  /\ pc = "upgrade" => /\ ~Writing
                       /\ pass.new.partition = pass.new.replicas
                       /\ pass.new.tmpl \in {b, want.tmpl}
                       /\ sts.spec.tmpl \in {b, pass.new.tmpl}
  /\ Writing => req.spec.tmpl \in {b, want.tmpl} /\ sts.spec.tmpl \in {b, req.spec.tmpl}

\* A running set: the status is of its replicas, and none of its revisions is from
\* elsewhere than its template.
Running(b, object) ==
  /\ object.exists
  /\ object.spec.partition <= Replicas
  /\ object.spec.replicas = Replicas /\ object.status.replicas = Replicas
  /\ object.status.updateRev \in {b, object.spec.tmpl}
  /\ object.status.currentRev \in {b, object.spec.tmpl}
  /\ object.observed => object.status.updateRev = object.spec.tmpl

Copies(b) ==
  /\ Running(b, sts) /\ Running(b, cache) /\ Behind(b, cache, sts)
  /\ pc = "upgrade" => Running(b, pass.old) /\ Behind(b, pass.old, cache)
  /\ Writing => req.spec.replicas = Replicas /\ req.spec.partition <= Replicas

\* The pods are of one of the two templates, and the current revision is of one
\* whose image can be pulled: the upgrade is never forced.
PodsFollow(b) ==
  /\ sts.status.currentRev \notin BadRevisions
  /\ \A i \in Ordinals :
       /\ Exists(i) => i < Replicas /\ pods[i].rev \in {b, sts.spec.tmpl}
       /\ Ready(i) => pods[i].rev \notin BadRevisions
       /\ pods[i].st = "pullFailed" => pods[i].rev \in BadRevisions

\* No pod has been replaced yet.
HeldBack(b) ==
  /\ sts.spec.partition = Replicas /\ sts.status.currentRev = b
  /\ \A i \in Ordinals : Exists(i) => pods[i].rev = b

\* As long as a copy in use has the new template, or misses it, under a status that
\* still has the old update revision, the upgrader cannot tell the upgraded pods:
\* none is upgraded.
NothingMissed(b) ==
  /\ sts.spec.tmpl # b /\ cache.status.updateRev = b => HeldBack(b)
  /\ sts.spec.tmpl # b /\ pc = "upgrade" /\ pass.old.status.updateRev = b => HeldBack(b)
  /\ cache.spec.tmpl # b /\ cache.status.updateRev = b => cache.spec.partition = Replicas
  /\ pc = "upgrade" /\ pass.old.spec.tmpl # b /\ pass.old.status.updateRev = b
       => pass.old.spec.partition = Replicas

\* A partition is lowered by a request only when all pods above are upgraded, and
\* the status had shown so.
Lowers(b) ==
  Writing /\ req.spec.tmpl # b /\ req.spec.partition < Replicas
    => /\ cache.status.updateRev = req.spec.tmpl
       /\ \A j \in Ordinals : req.spec.partition < j /\ j < Replicas
            => Exists(j) /\ pods[j].rev = req.spec.tmpl

RollInv(b) ==
  /\ TypeOK /\ Asked(b) /\ Copies(b) /\ PodsFollow(b)
  /\ NothingMissed(b) /\ Lowers(b) /\ RollsTopDown

LEMMA Kinds ==
  ASSUME TypeOK
  PROVE  /\ sts \in SetObject /\ cache \in SetObject /\ pass.old \in SetObject
         /\ pass.new \in Config /\ req.spec \in Config /\ req.tries \in Nat
         /\ sts.spec \in Config /\ cache.spec \in Config
         /\ sts.status \in Status /\ cache.status \in Status /\ pass.old.status \in Status
         /\ pass.old.spec \in Config
         /\ pods \in [Ordinals -> [rev : Revisions \cup {0}, st : PodStates]]
         /\ want.tmpl \in Revisions
  BY DEF TypeOK, ControlTypeOK, StsTypeOK, SetObject

\* The ordinals of the set, of which there is at least one.
LEMMA MemberOrdinals ==
  /\ Replicas \in Nat /\ Replicas > 0 /\ FirstRevision \in Revisions
  /\ \A b \in Revisions : b # 0
  /\ 0 \in Ordinals /\ Ordinals \subseteq Nat
  /\ \A i \in 0 .. (Replicas - 1) : i \in Ordinals /\ i < Replicas
  BY DEF Ordinals

\* A running cluster of a template that can be pulled is at the start of a roll.
LEMMA RollInit ==
  ASSUME NEW b \in Revisions, b = FirstRevision, b \notin BadRevisions, Deployed
  PROVE  RollInv(b)
<1> DEFINE config == NewSet(Replicas, b)
<1>1. config \in Config /\ config.replicas = Replicas /\ config.partition = Replicas
      /\ config.tmpl = b
  BY MemberOrdinals, NewSetType DEF NewSet, Config
<1>2. /\ sts = [exists |-> TRUE, spec |-> config, applied |-> config, observed |-> TRUE,
                status |-> [currentRev |-> b, updateRev |-> b, replicas |-> Replicas,
                            ready |-> Replicas]]
      /\ cache = sts /\ pc = "idle" /\ req = NoRequest /\ edits = MaxEdits
      /\ pods = [i \in Ordinals |-> IF i < Replicas THEN [rev |-> b, st |-> "up"] ELSE NoPod]
      /\ want = [replicas |-> Replicas, tmpl |-> b]
  BY DEF Deployed
<1>3. sts \in SetObject
  BY <1>1, <1>2, MemberOrdinals DEF SetObject, Status
<1>4. pods \in [Ordinals -> [rev : Revisions \cup {0}, st : PodStates]]
  BY <1>2, MemberOrdinals DEF NoPod, PodStates
<1>5. StsTypeOK
  BY <1>2, <1>3, <1>4 DEF Deployed, StsTypeOK, FullBudget
<1>6. TypeOK
  BY <1>2, <1>5, MemberOrdinals, NoSetType
  DEF Deployed, TypeOK, ControlTypeOK, NoRequest, NoPass, Phases
<1>7. ~Writing /\ sts.spec = config /\ sts.status.updateRev = b /\ sts.status.currentRev = b
  BY <1>2 DEF Writing, NoRequest
<1>8. Asked(b) /\ Copies(b) /\ NothingMissed(b) /\ Lowers(b)
  BY <1>1, <1>2, <1>7, MemberOrdinals DEF Asked, Copies, Running, Behind, NothingMissed, Lowers
<1>9. PodsFollow(b) /\ RollsTopDown
  <2>1. \A i \in Ordinals :
          /\ Exists(i) => i < Replicas /\ pods[i].rev = b
          /\ pods[i].st # "pullFailed"
    BY <1>2 DEF Exists, NoPod
  <2>2. \A i \in Ordinals : Ready(i) => Exists(i)
    BY DEF Ready, Exists
  <2>3. QED
    BY <1>1, <1>7, <2>1, <2>2 DEF PodsFollow, RollsTopDown
<1>10. QED
  BY <1>6, <1>8, <1>9 DEF RollInv

\* The upgrade is never forced: the current revision is one that was rolled out.
LEMMA NeverForced ==
  ASSUME NEW b \in Revisions, b \notin BadRevisions, RollInv(b), pc = "upgrade"
  PROVE  ~NeedForceUpgrade
<1> USE DEF RollInv
<1>1. pass.old.status.currentRev \in {b, sts.status.currentRev}
  BY DEF Copies, Behind
<1>2. FailedPods(pass.old.status.currentRev) = {}
  BY <1>1 DEF FailedPods, PodsFollow
<1>3. Cardinality(FailedPods(pass.old.status.currentRev)) = 0
  BY <1>2, FS_EmptySet
<1>4. pass.old.status.replicas = Replicas
  BY DEF Copies, Running
<1>5. Replicas \div 2 + 1 > 0
  BY MemberOrdinals
<1>6. QED
  BY <1>3, <1>4, <1>5 DEF NeedForceUpgrade

\* What the upgrader asks for.  With a new template it keeps every pod back, or has
\* seen the pods above the partition upgraded, by an update revision that is the new
\* one, and healthy; or all of them.
LEMMA UpgradeAsks ==
  ASSUME NEW b \in Revisions, b \notin BadRevisions, RollInv(b), pc = "upgrade", NEW new \in Updates
  PROVE  /\ new \in Config /\ new.replicas = Replicas /\ new.partition <= Replicas
         /\ new.tmpl = pass.new.tmpl
         /\ new.tmpl # b
              => \/ /\ new.partition = Replicas
                    /\ \/ pass.old.status.updateRev = b
                       \/ pass.old.spec.tmpl # b /\ status.phase = "Normal"
                 \/ /\ pass.old.status.updateRev = new.tmpl
                    /\ \A j \in Ordinals : j < Replicas => Exists(j) /\ pods[j].rev = new.tmpl
                 \/ /\ pass.old.status.updateRev = new.tmpl
                    /\ new.partition \in Ordinals /\ Exists(new.partition)
                    /\ new.partition < Replicas /\ pods[new.partition].rev # new.tmpl
                    /\ \A j \in Ordinals : new.partition < j /\ j < Replicas
                         => Exists(j) /\ pods[j].rev = new.tmpl /\ j \in pass.health
<1> USE DEF RollInv
<1> DEFINE Keeps == /\ new.partition = Replicas
                    /\ \/ pass.old.status.updateRev = b
                       \/ pass.old.spec.tmpl # b /\ status.phase = "Normal"
           AllSeen == /\ pass.old.status.updateRev = new.tmpl
                      /\ \A j \in Ordinals : j < Replicas => Exists(j) /\ pods[j].rev = new.tmpl
           SeenAbove == /\ pass.old.status.updateRev = new.tmpl
                        /\ new.partition \in Ordinals /\ Exists(new.partition)
                        /\ new.partition < Replicas /\ pods[new.partition].rev # new.tmpl
                        /\ \A j \in Ordinals : new.partition < j /\ j < Replicas
                             => Exists(j) /\ pods[j].rev = new.tmpl /\ j \in pass.health
           Goal == /\ new.partition <= Replicas
                   /\ new.tmpl # b => Keeps \/ AllSeen \/ SeenAbove
<1>1. PICK p \in UpgradePartitions : new = [pass.new EXCEPT !.partition = p]
  BY DEF Updates
<1>2. /\ new \in Config /\ new.replicas = pass.old.spec.replicas
      /\ new.partition = p /\ new.tmpl = pass.new.tmpl /\ new.replicas = pass.new.replicas
  BY <1>1, UpdatesType, Kinds DEF Updates, Config
<1>3. /\ pass.old.spec.replicas = Replicas /\ pass.old.status.replicas = Replicas
      /\ pass.new.partition = pass.new.replicas
      /\ pass.old.spec.partition <= Replicas
      /\ pass.old.status.updateRev \in {b, pass.old.spec.tmpl}
  BY DEF Copies, Running, Asked
<1>p. Pending = {i \in 0 .. (Replicas - 1) :
                   ~ /\ Exists(i) /\ pods[i].rev = pass.old.status.updateRev
                     /\ i \in pass.health}
  BY <1>3 DEF Pending
<1>4. ASSUME p = pass.new.partition, ~TemplateEqual(pass.new, pass.old)
      PROVE  Goal
  <2>1. new.partition = Replicas
    BY <1>2, <1>3, <1>4
  <2>2. ASSUME new.tmpl # b
        PROVE  pass.old.status.updateRev = b
    <3>1. pass.old.spec.tmpl \in {b, sts.spec.tmpl} /\ sts.spec.tmpl \in {b, new.tmpl}
      BY <1>2 DEF Copies, Behind, Asked
    <3>2. QED
      BY <1>2, <1>3, <1>4, <3>1 DEF TemplateEqual
  <2>3. QED
    BY <2>1, <2>2, MemberOrdinals
<1>5. ASSUME p = pass.new.partition, ~NeedUpgrade
      PROVE  Goal
  <2>1. new.partition = Replicas
    BY <1>2, <1>3, <1>5
  <2>2. pass.old.spec.tmpl = new.tmpl /\ status.phase = "Normal"
    BY <1>2, <1>5 DEF NeedUpgrade, TemplateEqual, TypeOK, Phases
  <2>3. QED
    BY <2>1, <2>2, MemberOrdinals
<1>6. ASSUME p \in GracefulPartitions, TemplateEqual(pass.new, pass.old)
      PROVE  Goal
  <2>1. pass.old.spec.tmpl = new.tmpl
    BY <1>2, <1>6 DEF TemplateEqual
  <2>2. p = pass.old.spec.partition \/ p < Replicas
    BY <1>6, <1>p, MemberOrdinals DEF GracefulPartitions
  <2>3. new.partition <= Replicas
    <3>1. p \in 0 .. MaxReplicas
      BY <1>2 DEF Config
    <3>2. QED
      BY <1>2, <1>3, <2>2, <3>1, MemberOrdinals
  <2>4. ASSUME new.tmpl # b, pass.old.status.updateRev = b
        PROVE  new.partition = Replicas
    <3>1. pass.old.spec.partition = Replicas
      BY <2>1, <2>4 DEF NothingMissed
    <3>2. sts.spec.tmpl # b
      BY <2>1, <2>4 DEF Copies, Behind
    <3>3. HeldBack(b)
      BY <2>4, <3>2 DEF NothingMissed
    <3>4. \A i \in Pending : ~(Exists(i) /\ pods[i].rev # pass.old.status.updateRev)
      BY <1>p, <2>4, <3>3, MemberOrdinals DEF HeldBack
    <3>5. QED
      BY <1>2, <1>6, <3>1, <3>4 DEF GracefulPartitions
  <2>5. ASSUME pass.old.status.updateRev = new.tmpl, Pending = {}
        PROVE  \A j \in Ordinals : j < Replicas => Exists(j) /\ pods[j].rev = new.tmpl
    <3>1. \A j \in Ordinals : j < Replicas => j \in 0 .. (Replicas - 1)
      BY MemberOrdinals DEF Ordinals
    <3>2. QED
      BY <1>p, <2>5, <3>1
  <2>6. ASSUME pass.old.status.updateRev = new.tmpl, Pending # {}
        PROVE  /\ p \in Ordinals /\ Exists(p) /\ p < Replicas /\ pods[p].rev # new.tmpl
               /\ \A j \in Ordinals : p < j /\ j < Replicas
                    => Exists(j) /\ pods[j].rev = new.tmpl /\ j \in pass.health
    <3>1. /\ p \in Pending /\ \A j \in Pending : j <= p
          /\ Exists(p) /\ pods[p].rev # pass.old.status.updateRev
      BY <1>6, <2>6 DEF GracefulPartitions
    <3>2. p \in Ordinals /\ p \in Nat /\ p < Replicas
      BY <1>p, <3>1, MemberOrdinals
    <3>3. ASSUME NEW j \in Ordinals, p < j, j < Replicas
          PROVE  j \notin Pending /\ j \in 0 .. (Replicas - 1)
      BY <3>1, <3>2, <3>3, MemberOrdinals
    <3>4. QED
      BY <1>p, <2>6, <3>1, <3>2, <3>3
  <2>7. ASSUME new.tmpl # b
        PROVE  Keeps \/ AllSeen \/ SeenAbove
    <3>1. CASE pass.old.status.updateRev = b
      BY <2>4, <2>7, <3>1
    <3>2. CASE pass.old.status.updateRev = new.tmpl
      <4>1. CASE Pending = {}
        BY <2>5, <3>2, <4>1
      <4>2. CASE Pending # {}
        BY <1>2, <2>6, <3>2, <4>2
      <4>3. QED
        BY <4>1, <4>2
    <3>3. QED
      BY <1>3, <2>1, <3>1, <3>2
  <2>8. QED
    BY <2>3, <2>7
<1>7. Goal
  <2>1. ~NeedForceUpgrade
    BY NeverForced
  <2>2. CASE ~NeedUpgrade
    BY <1>5, <2>2 DEF UpgradePartitions
  <2>3. CASE NeedUpgrade /\ ~status.synced
    BY <2>1, <2>3 DEF UpgradePartitions
  <2>4. CASE NeedUpgrade /\ status.synced
    BY <1>4, <1>6, <2>1, <2>4 DEF UpgradePartitions
  <2>5. QED
    BY <2>2, <2>3, <2>4
<1>8. QED
  BY <1>2, <1>3, <1>7

\* What is proved of every step (the types are kept by StepType).
Order(b) ==
  /\ Asked(b) /\ Copies(b) /\ PodsFollow(b) /\ NothingMissed(b) /\ Lowers(b) /\ RollsTopDown

\* A step of an update in flight: it is stored, or tried again, or given up.
LEMMA UpdateStep ==
  ASSUME TypeOK, UpdateStatefulSet
  PROVE  /\ Writing /\ UNCHANGED <<cache, pods>>
         /\ Writing' => req'.spec = req.spec
         /\ \/ UNCHANGED sts
            \/ ~Writing' /\ sts' = Stored(req.spec, req.applied)
<1>0. req \in [tries : 0 .. MaxTries, spec : Config, applied : Config]
  BY DEF TypeOK, ControlTypeOK
<1>1. CASE UpdateAccepted
  BY <1>1 DEF UpdateAccepted, Writing, NoRequest
<1>2. CASE UpdateConflict
  <2>1. CASE req.tries > 1
    BY <1>0, <1>2, <2>1 DEF UpdateConflict, Writing
  <2>2. CASE ~(req.tries > 1)
    BY <1>2, <2>2 DEF UpdateConflict, Writing, NoRequest
  <2>3. QED
    BY <2>1, <2>2
<1>3. CASE UpdateFailed
  BY <1>3 DEF UpdateFailed, Writing, NoRequest
<1>4. QED
  BY <1>1, <1>2, <1>3 DEF UpdateStatefulSet

LEMMA StoredSet ==
  ASSUME TypeOK, NEW spec \in Config, NEW applied \in Config
  PROVE  /\ Stored(spec, applied).exists /\ Stored(spec, applied).spec = spec
         /\ Stored(spec, applied).status = sts.status
         /\ Stored(spec, applied).observed => spec = sts.spec /\ sts.observed
  BY Kinds DEF Stored, SetObject

LEMMA SyncRolls ==
  ASSUME NEW b \in Revisions, RollInv(b), SyncStatus
  PROVE  Order(b)'
<1> USE DEF RollInv, Order
<1>1. /\ UNCHANGED <<sts, cache, pods, req, want, edits>>
      /\ ~Writing /\ ~Writing'
      /\ pass'.new = NewSet(want.replicas, want.tmpl) /\ pass'.old = cache
  BY DEF SyncStatus, Writing
<1>2. pass'.new.partition = pass'.new.replicas /\ pass'.new.tmpl = want.tmpl
  BY <1>1 DEF NewSet
<1>3. Asked(b)'
  BY <1>1, <1>2 DEF Asked
<1>4. Copies(b)'
  BY <1>1 DEF Copies, Running, Behind
<1>5. PodsFollow(b)' /\ RollsTopDown'
  BY <1>1 DEF PodsFollow, RollsTopDown, Exists, Ready
<1>6. NothingMissed(b)'
  BY <1>1 DEF NothingMissed, HeldBack, Exists
<1>7. Lowers(b)'
  BY <1>1 DEF Lowers
<1>8. QED
  BY <1>3, <1>4, <1>5, <1>6, <1>7

LEMMA UpgradeRolls ==
  ASSUME NEW b \in Revisions, b \notin BadRevisions, RollInv(b), Upgrade
  PROVE  Order(b)'
<1> USE DEF RollInv, Order
<1>1. /\ UNCHANGED <<sts, pods, want, edits>> /\ pc = "upgrade" /\ pc' = "idle"
      /\ ~Writing
  BY DEF Upgrade, setVars, SubmitUpdate, Asked
<1>2. PodsFollow(b)' /\ RollsTopDown'
  BY <1>1 DEF PodsFollow, RollsTopDown, Exists, Ready
<1>3. CASE UNCHANGED setVars
  <2>1. ~Writing' /\ UNCHANGED cache
    BY <1>1, <1>3 DEF setVars, Writing
  <2>2. Asked(b)' /\ Copies(b)' /\ NothingMissed(b)' /\ Lowers(b)'
    BY <1>1, <2>1 DEF Asked, Copies, Running, Behind, NothingMissed, HeldBack, Exists, Lowers
  <2>3. QED
    BY <1>2, <2>2
<1>4. ASSUME NEW new \in Updates, SubmitUpdate(new)
      PROVE  Order(b)'
  <2>1. /\ req'.spec = new
        /\ new \in Config /\ new.replicas = Replicas /\ new.partition <= Replicas
        /\ new.tmpl = pass.new.tmpl
    BY <1>1, <1>4, UpgradeAsks DEF SubmitUpdate
  <2>2. /\ cache'.exists = cache.exists /\ cache'.status = cache.status
        /\ cache'.spec.tmpl = cache.spec.tmpl /\ cache'.spec.partition = cache.spec.partition
        /\ cache'.spec.replicas \in {cache.spec.replicas, Replicas}
        /\ cache'.observed = cache.observed
    BY <1>4, <2>1, Kinds DEF SubmitUpdate, SetObject, Config
  <2>3. Asked(b)'
    BY <1>1, <2>1 DEF Asked
  <2>4. Copies(b)'
    BY <1>1, <2>1, <2>2 DEF Copies, Running, Behind
  <2>5. NothingMissed(b)'
    BY <1>1, <2>2 DEF NothingMissed, HeldBack, Exists
  <2>6. Lowers(b)'
    <3> SUFFICES ASSUME new.tmpl # b, new.partition < Replicas
                 PROVE  /\ cache.status.updateRev = new.tmpl
                        /\ \A j \in Ordinals : new.partition < j /\ j < Replicas
                             => Exists(j) /\ pods[j].rev = new.tmpl
      BY <1>1, <2>1, <2>2 DEF Lowers, Exists
    <3>1. /\ pass.old.status.updateRev = new.tmpl
          /\ \A j \in Ordinals : new.partition < j /\ j < Replicas
               => Exists(j) /\ pods[j].rev = new.tmpl
      BY <1>1, UpgradeAsks, MemberOrdinals
    <3>2. cache.status.updateRev = new.tmpl
      BY <1>1, <3>1 DEF Copies, Behind
    <3>3. QED
      BY <3>1, <3>2
  <2>7. QED
    BY <1>2, <2>3, <2>4, <2>5, <2>6
<1>5. QED
  BY <1>3, <1>4 DEF Upgrade

LEMMA UpdateRolls ==
  ASSUME NEW b \in Revisions, RollInv(b), UpdateStatefulSet, UNCHANGED pdVars
  PROVE  Order(b)'
<1> USE DEF RollInv, Order
<1>1. /\ Writing /\ UNCHANGED <<cache, pods, want, edits, pc, pass>> /\ pc # "upgrade"
      /\ Writing' => req'.spec = req.spec
  BY UpdateStep DEF pdVars, passVars, Asked
<1>2. CASE UNCHANGED sts
  <2>1. Asked(b)' /\ Copies(b)' /\ PodsFollow(b)' /\ RollsTopDown'
    BY <1>1, <1>2 DEF Asked, Copies, Running, Behind, PodsFollow, RollsTopDown, Exists, Ready
  <2>2. NothingMissed(b)' /\ Lowers(b)'
    BY <1>1, <1>2 DEF NothingMissed, HeldBack, Lowers, Exists
  <2>3. QED
    BY <2>1, <2>2
<1>3. CASE ~Writing' /\ sts' = Stored(req.spec, req.applied)
  <2>1. /\ sts'.exists /\ sts'.spec = req.spec /\ sts'.status = sts.status
        /\ sts'.observed => req.spec = sts.spec /\ sts.observed
    BY <1>3, StoredSet DEF TypeOK, ControlTypeOK
  <2>2. /\ req.spec.tmpl \in {b, want.tmpl} /\ sts.spec.tmpl \in {b, req.spec.tmpl}
        /\ req.spec.replicas = Replicas /\ req.spec.partition <= Replicas
    BY <1>1 DEF Asked, Copies
  <2>3. Asked(b)'
    BY <1>1, <1>3, <2>1, <2>2 DEF Asked
  <2>4. Copies(b)'
    BY <1>1, <1>3, <2>1, <2>2 DEF Copies, Running, Behind
  <2>5. PodsFollow(b)'
    BY <1>1, <2>1, <2>2 DEF PodsFollow, Exists, Ready
  <2>6. NothingMissed(b)'
    <3>1. ASSUME req.spec.tmpl # b, cache.status.updateRev = b
          PROVE  HeldBack(b)'
      <4>1. req.spec.partition = Replicas
        BY <1>1, <2>2, <3>1, Kinds, MemberOrdinals DEF Lowers, Config
      <4>2. CASE sts.spec.tmpl = b
        BY <1>1, <2>1, <4>1, <4>2 DEF Copies, Running, PodsFollow, HeldBack, Exists
      <4>3. CASE sts.spec.tmpl # b
        BY <1>1, <2>1, <3>1, <4>1, <4>3 DEF NothingMissed, HeldBack, Exists
      <4>4. QED
        BY <4>2, <4>3
    <3>2. QED
      BY <1>1, <2>1, <3>1 DEF NothingMissed
  <2>7. RollsTopDown'
    <3> SUFFICES ASSUME NEW j \in Ordinals, req.spec.partition < j, j < Replicas, Exists(j)
                 PROVE  pods[j].rev = req.spec.tmpl
      BY <1>1, <2>1, <2>2 DEF RollsTopDown, Exists
    <3>1. CASE req.spec.tmpl = b
      BY <2>2, <3>1 DEF PodsFollow
    <3>2. CASE req.spec.tmpl # b
      <4>1. req.spec.partition < Replicas
        BY Kinds, MemberOrdinals DEF Config
      <4>2. QED
        BY <1>1, <3>2, <4>1 DEF Lowers
    <3>3. QED
      BY <3>1, <3>2
  <2>8. QED
    BY <1>3, <2>3, <2>4, <2>5, <2>6, <2>7 DEF Lowers
<1>4. QED
  BY <1>2, <1>3, UpdateStep

\* The controller's status: of the set's template, and with a new current revision
\* only when every pod is of it and runs.
LEMMA ObservedStatus ==
  ASSUME NEW b \in Revisions, RollInv(b), ObserveStatus
  PROVE  /\ UNCHANGED <<cache, pods>> /\ sts'.exists /\ sts'.spec = sts.spec
         /\ sts'.status.updateRev = sts.spec.tmpl /\ sts'.status.replicas = Replicas
         /\ \/ sts'.status.currentRev = sts.status.currentRev
            \/ /\ sts'.status.currentRev = sts.spec.tmpl
               /\ \A i \in Ordinals : i < Replicas => Ready(i) /\ pods[i].rev = sts.spec.tmpl
<1> USE DEF RollInv
<1>1. /\ UNCHANGED <<cache, pods>> /\ sts'.exists /\ sts'.spec = sts.spec
      /\ sts'.status = ComputedStatus
  BY Kinds DEF ObserveStatus, SetObject, Copies, Running
<1>2. sts.spec.replicas = Replicas /\ sts.status.currentRev # 0
  <2>1. sts.status.currentRev \in {b, sts.spec.tmpl} /\ sts.spec.tmpl \in {b, want.tmpl}
    BY DEF Copies, Running, Asked
  <2>2. QED
    BY <2>1, Kinds, MemberOrdinals DEF Copies, Running
<1>3. QED
  BY <1>1, <1>2 DEF ComputedStatus

LEMMA ObserveRolls ==
  ASSUME NEW b \in Revisions, b \notin BadRevisions, RollInv(b), ObserveStatus,
         UNCHANGED <<req, pdVars>>
  PROVE  Order(b)'
<1> USE DEF RollInv, Order
<1>1. UNCHANGED <<cache, pods, want, edits, pc, pass, req>>
  BY ObservedStatus DEF pdVars, passVars
<1>2. /\ sts'.exists /\ sts'.spec = sts.spec
      /\ sts'.status.updateRev = sts.spec.tmpl /\ sts'.status.replicas = Replicas
      /\ sts'.status.currentRev \in {sts.status.currentRev, sts.spec.tmpl}
  BY ObservedStatus
<1>3. Asked(b)' /\ Lowers(b)' /\ RollsTopDown'
  BY <1>1, <1>2 DEF Asked, Lowers, RollsTopDown, Writing, Exists
<1>4. Copies(b)'
  BY <1>1, <1>2 DEF Copies, Running, Behind, Writing
<1>5. ASSUME sts'.status.currentRev # sts.status.currentRev
      PROVE  /\ sts'.status.currentRev = sts.spec.tmpl
             /\ Ready(0) /\ Exists(0) /\ pods[0].rev = sts.spec.tmpl
  BY <1>5, ObservedStatus, MemberOrdinals DEF Ready, Exists
<1>6. PodsFollow(b)'
  BY <1>1, <1>2, <1>5, MemberOrdinals DEF PodsFollow, Exists, Ready
<1>7. ASSUME sts.spec.tmpl # b, HeldBack(b)
      PROVE  HeldBack(b)'
  BY <1>1, <1>2, <1>5, <1>7, MemberOrdinals DEF HeldBack, Exists
<1>8. NothingMissed(b)'
  BY <1>1, <1>2, <1>7 DEF NothingMissed
<1>9. QED
  BY <1>3, <1>4, <1>6, <1>8

LEMMA DeliverRolls ==
  ASSUME NEW b \in Revisions, RollInv(b), cache' = sts,
         UNCHANGED <<sts, pods, req, want, edits, pc, pass>>
  PROVE  Order(b)'
<1> USE DEF RollInv, Order
<1>1. Asked(b)' /\ PodsFollow(b)' /\ RollsTopDown'
  <2>1. Asked(b)'
    BY DEF Asked, Writing
  <2>2. QED
    BY <2>1 DEF PodsFollow, RollsTopDown, Exists, Ready
<1>2. Behind(b, cache, sts)
  BY DEF Copies
<1>3. Copies(b)'
  <2>1. Running(b, sts)' /\ Running(b, cache)' /\ Behind(b, cache, sts)'
    BY DEF Copies, Running, Behind
  <2>2. pc = "upgrade" => Running(b, pass.old)' /\ Behind(b, pass.old, cache)'
    BY <1>2 DEF Copies, Running, Behind
  <2>3. QED
    BY <2>1, <2>2 DEF Copies, Writing
<1>4. NothingMissed(b)'
  <2>1. sts.spec.tmpl # b /\ sts.status.updateRev = b => HeldBack(b)
    BY <1>2 DEF NothingMissed, Behind
  <2>2. HeldBack(b)' = HeldBack(b)
    BY DEF HeldBack, Exists
  <2>3. QED
    BY <2>1, <2>2 DEF NothingMissed, HeldBack
<1>5. Lowers(b)'
  BY <1>2 DEF Lowers, Behind, Writing, Exists
<1>6. QED
  BY <1>1, <1>3, <1>4, <1>5

\* A step of one pod.
LEMMA PodRolls ==
  ASSUME NEW b \in Revisions, RollInv(b), NEW i \in Ordinals,
         BringUp(i) \/ MemberCrash(i) \/ DeleteForUpdate(i) \/ DeleteCondemned(i),
         UNCHANGED <<req, pdVars>>
  PROVE  Order(b)'
<1> USE DEF RollInv, Order
<1>0. UNCHANGED <<sts, cache, want, edits, pc, pass, req>>
  BY DEF BringUp, CreatePod, StartPod, MemberUp, MemberCrash, DeleteForUpdate, DeleteCondemned,
         pdVars, passVars
<1>1. \A j \in Ordinals \ {i} : pods'[j] = pods[j]
  BY Kinds
  DEF BringUp, CreatePod, StartPod, MemberUp, MemberCrash, DeleteForUpdate, DeleteCondemned
<1>2. Asked(b)' /\ Copies(b)'
  BY <1>0 DEF Asked, Copies, Running, Behind, Writing
<1>3. /\ sts.spec.replicas = Replicas
      /\ sts.status.currentRev \in {b, sts.spec.tmpl} /\ sts.status.currentRev # 0
  <2>1. sts.status.currentRev \in {b, sts.spec.tmpl} /\ sts.spec.tmpl \in {b, want.tmpl}
    BY DEF Copies, Running, Asked
  <2>2. QED
    BY <2>1, Kinds, MemberOrdinals DEF Copies, Running
<1>4. CASE CreatePod(i)
  <2>1. pods'[i].rev = RevisionFor(i) /\ pods'[i].st = "starting" /\ ~Exists(i) /\ i < Replicas
    BY <1>3, <1>4, Kinds DEF CreatePod
  <2>2. /\ RevisionFor(i) \in {sts.status.currentRev, sts.spec.tmpl}
        /\ i < sts.spec.partition => RevisionFor(i) = sts.status.currentRev
        /\ sts.spec.partition < i => RevisionFor(i) = sts.spec.tmpl
    BY <1>3, Kinds, MemberOrdinals DEF RevisionFor, Config
  <2>3. PodsFollow(b)'
    BY <1>0, <1>1, <1>3, <2>1, <2>2 DEF PodsFollow, Exists, Ready
  <2>4. HeldBack(b) => HeldBack(b)'
    BY <1>0, <1>1, <2>1, <2>2 DEF HeldBack, Exists
  <2>5. NothingMissed(b)'
    BY <1>0, <2>4 DEF NothingMissed
  <2>6. Lowers(b)'
    BY <1>0, <1>1, <2>1 DEF Lowers, Writing, Exists
  <2>7. RollsTopDown'
    BY <1>0, <1>1, <2>1, <2>2 DEF RollsTopDown, Exists
  <2>8. QED
    BY <1>2, <2>3, <2>5, <2>6, <2>7
<1>5. CASE DeleteForUpdate(i) \/ DeleteCondemned(i)
  <2>1. pods'[i].st = "absent" /\ Exists(i)
    BY <1>5, Kinds DEF DeleteForUpdate, DeleteCondemned, NoPod
  <2>2. pods[i].rev # sts.spec.tmpl
    BY <1>3, <1>5, <2>1, MemberOrdinals DEF DeleteForUpdate, DeleteCondemned, PodsFollow
  <2>3. PodsFollow(b)'
    BY <1>0, <1>1, <2>1 DEF PodsFollow, Exists, Ready
  <2>4. HeldBack(b) => HeldBack(b)'
    BY <1>0, <1>1, <2>1 DEF HeldBack, Exists
  <2>5. NothingMissed(b)'
    BY <1>0, <2>4 DEF NothingMissed
  <2>6. Lowers(b)'
    <3>1. Writing /\ req.spec.tmpl # b /\ req.spec.partition < Replicas
            => sts.spec.tmpl = req.spec.tmpl
      BY DEF Lowers, Copies, Behind, Running
    <3>2. QED
      BY <1>0, <1>1, <2>2, <3>1 DEF Lowers, Writing, Exists
  <2>7. RollsTopDown'
    BY <1>0, <1>1, <2>1 DEF RollsTopDown, Exists
  <2>8. QED
    BY <1>2, <2>3, <2>5, <2>6, <2>7
<1>6. CASE StartPod(i) \/ MemberUp(i) \/ MemberCrash(i)
  <2>1. /\ pods'[i].rev = pods[i].rev /\ Exists(i) /\ pods'[i].st # "absent"
        /\ pods'[i].st = "pullFailed" => pods[i].rev \in BadRevisions
        /\ pods'[i].st \in {"running", "up"} => pods[i].rev \notin BadRevisions
    BY <1>6, Kinds DEF StartPod, MemberUp, MemberCrash, Exists, Up, Ready, PodsFollow
  <2>2. PodsFollow(b)'
    BY <1>0, <1>1, <2>1 DEF PodsFollow, Exists, Ready
  <2>3. HeldBack(b) => HeldBack(b)'
    BY <1>0, <1>1, <2>1 DEF HeldBack, Exists
  <2>4. NothingMissed(b)'
    BY <1>0, <2>3 DEF NothingMissed
  <2>5. Lowers(b)'
    BY <1>0, <1>1, <2>1 DEF Lowers, Writing, Exists
  <2>6. RollsTopDown'
    BY <1>0, <1>1, <2>1 DEF RollsTopDown, Exists
  <2>7. QED
    BY <1>2, <2>2, <2>4, <2>5, <2>6
<1>7. QED
  BY <1>4, <1>5, <1>6 DEF BringUp

LEMMA EditRolls ==
  ASSUME NEW b \in Revisions, RollInv(b), EditSpec, want.tmpl = b
  PROVE  Order(b)'
<1> USE DEF RollInv, Order
<1>1. UNCHANGED <<sts, cache, pods, req, pc, pass>>
  BY DEF EditSpec, setVars
<1>3. Asked(b)'
  BY <1>1 DEF Asked, EditSpec, Writing
<1>4. Copies(b)' /\ PodsFollow(b)' /\ RollsTopDown'
  BY <1>1 DEF Copies, Running, Behind, PodsFollow, RollsTopDown, Exists, Ready, Writing
<1>5. NothingMissed(b)' /\ Lowers(b)'
  BY <1>1 DEF NothingMissed, HeldBack, Lowers, Exists, Writing
<1>6. QED
  BY <1>3, <1>4, <1>5

\* Every step keeps the order of the roll.
LEMMA RollStep ==
  ASSUME NEW b \in Revisions, b \notin BadRevisions, RollInv(b), [Next]_vars,
         edits' # edits => want.tmpl = b
  PROVE  RollInv(b)'
<1>0. TypeOK'
  BY StepType DEF RollInv
<1> SUFFICES Order(b)'
  BY <1>0 DEF RollInv, Order
<1>1. CASE CreateSet
  BY <1>1 DEF CreateSet, RollInv, Copies, Running
<1>2. CASE SyncStatus
  BY <1>2, SyncRolls
<1>3. CASE Upgrade
  BY <1>3, UpgradeRolls
<1>4. CASE UpdateStatefulSet /\ UNCHANGED pdVars
  BY <1>4, UpdateRolls
<1>5. CASE Environment /\ UNCHANGED <<req, pdVars>>
  <2>1. CASE ObserveStatus
    BY <1>5, <2>1, ObserveRolls
  <2>2. CASE DeliverSet
    BY <1>5, <2>2, DeliverRolls DEF DeliverSet, pdVars, passVars
  <2>3. CASE \E i \in Ordinals :
               BringUp(i) \/ MemberCrash(i) \/ DeleteForUpdate(i) \/ DeleteCondemned(i)
    BY <1>5, <2>3, PodRolls
  <2>4. QED
    BY <1>5, <2>1, <2>2, <2>3 DEF Environment, RollPods, ScaleIn
<1>6. CASE Restart
  <2>1. /\ cache' = sts /\ pc' = "idle" /\ ~Writing' /\ UNCHANGED <<sts, pods, want, edits>>
    BY <1>6 DEF Restart, Writing, NoRequest
  <2>2. Asked(b)' /\ PodsFollow(b)' /\ RollsTopDown' /\ Lowers(b)'
    BY <2>1 DEF RollInv, Asked, PodsFollow, RollsTopDown, Lowers, Exists, Ready
  <2>3. Copies(b)'
    BY <2>1 DEF RollInv, Copies, Running, Behind
  <2>4. NothingMissed(b)'
    <3>1. sts.spec.tmpl # b /\ sts.status.updateRev = b => HeldBack(b)
      BY DEF RollInv, NothingMissed, Copies, Behind
    <3>2. HeldBack(b)' = HeldBack(b)
      BY <2>1 DEF HeldBack, Exists
    <3>3. QED
      BY <2>1, <3>1, <3>2 DEF NothingMissed, HeldBack
  <2>5. QED
    BY <2>2, <2>3, <2>4 DEF Order
<1>7. CASE EditSpec
  <2>1. edits' # edits
    BY <1>7 DEF EditSpec, RollInv, TypeOK
  <2>2. QED
    BY <1>7, <2>1, EditRolls
<1>8. CASE (\E i \in Ordinals : Discover(i)) \/ UNCHANGED vars
  <2>1. UNCHANGED <<sts, cache, pods, req, want, edits, pc, pass>>
    BY <1>8 DEF Discover, vars, setVars, pdVars, passVars
  <2>2. Asked(b)' /\ Copies(b)' /\ PodsFollow(b)' /\ RollsTopDown'
    BY <2>1 DEF RollInv, Asked, Copies, Running, Behind, PodsFollow, RollsTopDown, Exists, Ready,
                Writing
  <2>3. NothingMissed(b)' /\ Lowers(b)'
    BY <2>1 DEF RollInv, NothingMissed, HeldBack, Lowers, Exists, Writing
  <2>4. QED
    BY <2>2, <2>3 DEF Order
<1>9. QED
  BY <1>1, <1>2, <1>3, <1>4, <1>5, <1>6, <1>7, <1>8 DEF Next, Pass

\* When everything in use shows the template asked for, the next roll is from there.
LEMMA NextRoll ==
  ASSUME NEW b \in Revisions, RollInv(b), AtRest
  PROVE  want.tmpl \in Revisions \ BadRevisions /\ RollInv(want.tmpl)
<1> DEFINE w == want.tmpl
<1> USE DEF RollInv
<1>1. /\ Shows(sts, w) /\ Shows(cache, w)
      /\ pc = "upgrade" => Shows(pass.old, w) /\ pass.new.tmpl = w
      /\ Writing => req.spec.tmpl = w
      /\ \A i \in Ordinals : i < Replicas => Up(i) /\ pods[i].rev = w
  BY DEF AtRest
<1>2. w \in Revisions \ BadRevisions
  <2>1. Ready(0) /\ pods[0].rev = w
    BY <1>1, MemberOrdinals DEF Up, Ready
  <2>2. QED
    BY <2>1, Kinds, MemberOrdinals DEF PodsFollow
<1> HIDE DEF w
<1>3. Asked(w)
  BY <1>1 DEF Asked, Shows, w
<1>4. Copies(w)
  BY <1>1 DEF Copies, Running, Behind, Shows
<1>5. PodsFollow(w)
  BY <1>1, <1>2 DEF PodsFollow, Shows
<1>6. NothingMissed(w) /\ Lowers(w)
  BY <1>1 DEF NothingMissed, Lowers, Shows
<1>7. RollInv(w)
  BY <1>3, <1>4, <1>5, <1>6
<1>8. QED
  BY <1>2, <1>7 DEF w

\* The one edit finds the first template.
LEMMA FirstEdit ==
  ASSUME TypeOK, MaxEdits <= 1, [Next]_vars, edits > 0 => want.tmpl = FirstRevision
  PROVE  /\ edits' # edits => want.tmpl = FirstRevision
         /\ edits' > 0 => want'.tmpl = FirstRevision
<1>1. CASE EditSpec
  BY <1>1 DEF EditSpec, TypeOK
<1>2. CASE ~EditSpec
  <2>1. UNCHANGED <<want, edits>>
    BY <1>2
    DEF Next, Pass, CreateSet, SyncStatus, Upgrade, Restart, Discover, vars, pdVars, passVars
  <2>2. QED
    BY <2>1
<1>3. QED
  BY <1>1, <1>2

\* A step of a user who waits.
PatientNext == Next /\ (edits' # edits => AtRest)

\* A running PD is upgraded from the top down, for any number of replicas and any
\* templates, whatever the passes miss, and whatever fails, crashes and restarts: no
\* member is replaced before the ones above it have the template asked for.  The cluster
\* came up from the template it has, and the user waits with each edit for the roll of
\* the one before.
\* pd_upgrader.go: gracefulUpgrade, setUpgradePartition.
THEOREM TopDown ==
  ASSUME FirstRevision \notin BadRevisions
  PROVE  PatientSpec => []RollsTopDown
<1> DEFINE Rolling == \E b \in Revisions \ BadRevisions : RollInv(b)
<1>1. Deployed => Rolling
  BY RollInit, MemberOrdinals
<1>2. Rolling /\ [PatientNext]_vars => Rolling'
  <2> SUFFICES ASSUME NEW b \in Revisions \ BadRevisions, RollInv(b), [PatientNext]_vars
               PROVE  \E c \in Revisions \ BadRevisions : RollInv(c)'
    OBVIOUS
  <2>1. [Next]_vars /\ (edits' # edits => AtRest)
    BY DEF PatientNext, vars, pdVars, passVars
  <2>2. PICK c \in Revisions \ BadRevisions : RollInv(c) /\ (edits' # edits => want.tmpl = c)
    BY <2>1, NextRoll
  <2>3. RollInv(c)'
    BY <2>1, <2>2, RollStep
  <2>4. QED
    BY <2>3
<1>3. Rolling => RollsTopDown
  BY DEF RollInv
<1>4. QED
  BY <1>1, <1>2, <1>3, PTL DEF PatientSpec, PatientNext

\* A user who edits once need not wait: not even for a member that has crashed.
THEOREM TopDownOnce ==
  ASSUME FirstRevision \notin BadRevisions, MaxEdits <= 1
  PROVE  RollSpec => []RollsTopDown
<1> DEFINE Once == RollInv(FirstRevision) /\ (edits > 0 => want.tmpl = FirstRevision)
<1>1. Deployed => Once
  BY RollInit, MemberOrdinals DEF Deployed
<1>2. Once /\ [Next]_vars => Once'
  <2> SUFFICES ASSUME Once, [Next]_vars PROVE Once'
    OBVIOUS
  <2>1. /\ edits' # edits => want.tmpl = FirstRevision
        /\ edits' > 0 => want'.tmpl = FirstRevision
    BY FirstEdit DEF RollInv
  <2>2. RollInv(FirstRevision)'
    BY <2>1, RollStep, MemberOrdinals
  <2>3. QED
    BY <2>1, <2>2
<1>3. Once => RollsTopDown
  BY DEF RollInv
<1>4. QED
  BY <1>1, <1>2, <1>3, PTL DEF RollSpec

-----------------------------------------------------------------------------
(* One member is down at most, when nothing crashes.                           *)

\* Every pod is of the new template.
Rolled(b) ==
  /\ sts.spec.tmpl # b
  /\ \A i \in Ordinals : i < Replicas => Exists(i) /\ pods[i].rev = sts.spec.tmpl

\* The members the roll has not come to serve: nothing crashes.
OthersServe(b) ==
  /\ \A i \in Ordinals : Exists(i) /\ pods[i].rev = b => Up(i)
  /\ Rolled(b) \/ \A i \in Ordinals :
       i < Replicas /\ (sts.spec.tmpl = b \/ i < sts.spec.partition)
         => Exists(i) /\ pods[i].rev = b

\* The set has a new current revision, and the manager takes it for one at rest, only
\* after the roll.
RestIsSeen(b) ==
  /\ sts.status.currentRev # b => Rolled(b)
  /\ pc = "upgrade" /\ status.phase = "Normal" /\ pass.old.spec.tmpl # b
       => pass.old.status.currentRev # b

\* A member that was healthy when the pass asked still is, or is the one at the
\* partition; so the request in flight does not lower the partition past two members
\* that are down, and of those above the partition at most one is down until the one
\* at the partition is replaced.
HealthHolds ==
  pc = "upgrade" => \A i \in pass.health : Up(i) \/ i = sts.spec.partition
LowersOnce(b) ==
  Writing /\ sts.spec.tmpl # b
    => \/ Rolled(b)
       \/ req.spec.partition = sts.spec.partition
       \/ /\ req.spec.partition < sts.spec.partition
          /\ \A j \in Ordinals : req.spec.partition < j /\ j < Replicas
               => Up(j) \/ j = sts.spec.partition
OneDown(b) ==
  \A i, j, k \in Ordinals :
    (/\ i = sts.spec.partition /\ Exists(i) /\ pods[i].rev = b /\ sts.spec.tmpl # b
     /\ i < j /\ j < Replicas /\ ~Up(j) /\ i < k /\ k < Replicas /\ ~Up(k)) => j = k

\* What is proved of every step besides RollInv.
Serving(b) == OthersServe(b) /\ RestIsSeen(b) /\ HealthHolds /\ LowersOnce(b) /\ OneDown(b)

LEMMA ServingInit ==
  ASSUME NEW b \in Revisions, b = FirstRevision, Deployed, RollInv(b)
  PROVE  Serving(b)
<1>1. /\ sts.spec.tmpl = b /\ sts.status.currentRev = b /\ pc = "idle" /\ ~Writing
      /\ pods = [i \in Ordinals |-> IF i < Replicas THEN [rev |-> b, st |-> "up"] ELSE NoPod]
  BY DEF Deployed, NewSet, Writing, NoRequest
<1>2. \A i \in Ordinals : /\ i < Replicas => Exists(i) /\ pods[i].rev = b
                          /\ Exists(i) => Up(i)
  BY <1>1 DEF Exists, Up, NoPod
<1>3. OthersServe(b)
  BY <1>2 DEF OthersServe
<1>4. QED
  BY <1>1, <1>3 DEF Serving, RestIsSeen, HealthHolds, LowersOnce, OneDown

\* The rolling update replaces the pod at the partition.
LEMMA ReplacedAt ==
  ASSUME NEW b \in Revisions, RollInv(b), NEW i \in Ordinals, DeleteForUpdate(i)
  PROVE  /\ sts.spec.tmpl # b /\ pods[i].rev = b /\ Exists(i)
         /\ i = sts.spec.partition /\ i < Replicas
<1>1. /\ Exists(i) /\ pods[i].rev # sts.spec.tmpl
      /\ i >= sts.spec.partition /\ i < Replicas
  BY DEF DeleteForUpdate, RollInv, PodsFollow
<1>2. pods[i].rev = b
  BY <1>1 DEF RollInv, PodsFollow
<1>3. ~(sts.spec.partition < i)
  BY <1>1 DEF RollInv, RollsTopDown, Copies, Running
<1>4. i = sts.spec.partition
  <2>1. sts.spec.partition \in Nat /\ i \in Nat
    BY Kinds, MemberOrdinals DEF RollInv, Config
  <2>2. QED
    BY <1>1, <1>3, <2>1
<1>5. QED
  BY <1>1, <1>2, <1>4

\* Nothing of it changes with the cache, the edits or the faults.
LEMMA ServingFrame ==
  ASSUME NEW b \in Revisions, Serving(b), UNCHANGED <<sts, pods, req, pc, pass, status>>
  PROVE  Serving(b)'
<1>1. OthersServe(b)' /\ RestIsSeen(b)'
  BY DEF Serving, OthersServe, RestIsSeen, Rolled, Exists, Up
<1>2. HealthHolds' /\ LowersOnce(b)' /\ OneDown(b)'
  BY DEF Serving, HealthHolds, LowersOnce, OneDown, Rolled, Exists, Up, Writing
<1>3. QED
  BY <1>1, <1>2 DEF Serving

LEMMA ServingSync ==
  ASSUME NEW b \in Revisions, RollInv(b), Serving(b), SyncStatus
  PROVE  Serving(b)'
<1>1. /\ UNCHANGED <<sts, pods, req>> /\ ~Writing /\ ~Writing'
      /\ pass'.old = cache /\ pass'.health \subseteq UpMembers
      /\ status'.phase = "Normal" => ~MemberSetIsUpgrading(cache)
  BY DEF SyncStatus, Writing, Healthy
<1>2. OthersServe(b)' /\ OneDown(b)' /\ (Rolled(b)' = Rolled(b))
  <2>1. OthersServe(b)' /\ (Rolled(b)' = Rolled(b))
    BY <1>1 DEF Serving, OthersServe, Rolled, Exists, Up
  <2>2. OneDown(b)'
    BY <1>1 DEF Serving, OneDown, Exists, Up
  <2>3. QED
    BY <2>1, <2>2
<1>3. HealthHolds'
  BY <1>1 DEF HealthHolds, UpMembers, Up
<1>4. ASSUME status'.phase = "Normal", cache.spec.tmpl # b
      PROVE  cache.status.currentRev # b
  <2>1. cache.status # NoStatus
    BY MemberOrdinals DEF RollInv, Copies, Running, NoStatus
  <2>2. cache.status.currentRev = cache.status.updateRev /\ cache.observed
    BY <1>1, <1>4, <2>1, Kinds
    DEF RollInv, Copies, Running, MemberSetIsUpgrading, StatefulSetIsUpgrading, SetObject
  <2>3. QED
    BY <1>4, <2>2 DEF RollInv, Copies, Running
<1>5. RestIsSeen(b)'
  BY <1>1, <1>2, <1>4 DEF Serving, RestIsSeen
<1>6. QED
  BY <1>1, <1>2, <1>3, <1>5 DEF Serving, LowersOnce

LEMMA ServingUpgrade ==
  ASSUME NEW b \in Revisions, b \notin BadRevisions, RollInv(b), Serving(b), Upgrade
  PROVE  Serving(b)'
<1> USE DEF RollInv, Serving
<1>1. UNCHANGED <<sts, pods>> /\ pc = "upgrade" /\ pc' = "idle" /\ ~Writing
  BY DEF Upgrade, setVars, SubmitUpdate, Asked
<1>2. OthersServe(b)' /\ OneDown(b)' /\ (Rolled(b)' = Rolled(b)) /\ RestIsSeen(b)' /\ HealthHolds'
  BY <1>1 DEF OthersServe, OneDown, Rolled, Exists, Up, RestIsSeen, HealthHolds
<1>3. CASE UNCHANGED setVars
  BY <1>1, <1>2, <1>3 DEF setVars, Writing, LowersOnce
<1>4. ASSUME NEW new \in Updates, SubmitUpdate(new)
      PROVE  LowersOnce(b)'
  <2> SUFFICES ASSUME sts.spec.tmpl # b
               PROVE  \/ Rolled(b)
                      \/ new.partition = sts.spec.partition
                      \/ /\ new.partition < sts.spec.partition
                         /\ \A j \in Ordinals : new.partition < j /\ j < Replicas
                              => Up(j) \/ j = sts.spec.partition
    BY <1>1, <1>2, <1>4 DEF SubmitUpdate, LowersOnce, Up
  <2>1. new.tmpl = sts.spec.tmpl /\ new.tmpl # b
    BY <1>1, <1>4, UpgradeAsks DEF Asked
  <2>2. CASE new.partition = Replicas /\ pass.old.status.updateRev = b
    BY <1>1, <2>2 DEF NothingMissed, HeldBack
  <2>3. CASE pass.old.spec.tmpl # b /\ status.phase = "Normal"
    BY <1>1, <2>3 DEF RestIsSeen, Copies, Behind
  <2>4. CASE \A j \in Ordinals : j < Replicas => Exists(j) /\ pods[j].rev = new.tmpl
    BY <2>1, <2>4 DEF Rolled
  <2>5. CASE /\ new.partition \in Ordinals /\ Exists(new.partition)
             /\ new.partition < Replicas /\ pods[new.partition].rev # new.tmpl
             /\ \A j \in Ordinals : new.partition < j /\ j < Replicas => j \in pass.health
    <3>1. ~(sts.spec.partition < new.partition)
      BY <2>1, <2>5 DEF RollsTopDown, Copies, Running
    <3>2. sts.spec.partition \in Nat /\ new.partition \in Nat
      <4>1. sts.spec.partition \in 0 .. MaxReplicas
        BY Kinds DEF Config
      <4>2. sts.spec.partition \in Nat
        BY <4>1
      <4>3. QED
        BY <2>5, <4>2, MemberOrdinals
    <3>3. QED
      BY <1>1, <2>5, <3>1, <3>2 DEF HealthHolds
  <2>6. QED
    BY <1>1, <2>1, <2>2, <2>3, <2>4, <2>5, UpgradeAsks
<1>5. QED
  BY <1>2, <1>3, <1>4 DEF Upgrade

LEMMA ServingUpdate ==
  ASSUME NEW b \in Revisions, RollInv(b), Serving(b), UpdateStatefulSet, UNCHANGED pdVars
  PROVE  Serving(b)'
<1> USE DEF RollInv, Serving
<1>1. /\ Writing /\ UNCHANGED <<pods, pc, pass, status>> /\ pc # "upgrade"
      /\ Writing' => req'.spec = req.spec
  BY UpdateStep DEF pdVars, passVars, Asked
<1>2. CASE UNCHANGED sts
  <2>1. OthersServe(b)' /\ RestIsSeen(b)' /\ HealthHolds'
    BY <1>1, <1>2 DEF OthersServe, RestIsSeen, HealthHolds, Rolled, Exists, Up
  <2>2. LowersOnce(b)' /\ OneDown(b)'
    BY <1>1, <1>2 DEF LowersOnce, OneDown, Rolled, Exists, Up
  <2>3. QED
    BY <2>1, <2>2
<1>3. CASE ~Writing' /\ sts' = Stored(req.spec, req.applied)
  <2>1. sts'.spec = req.spec /\ sts'.status = sts.status
    BY <1>3, StoredSet DEF TypeOK, ControlTypeOK
  <2>2. sts.spec.tmpl \in {b, req.spec.tmpl}
    BY <1>1 DEF Asked
  <2>3. Rolled(b) => Rolled(b)'
    BY <1>1, <2>1, <2>2 DEF Rolled, Exists
  <2>4. sts.spec.partition \in Nat /\ req.spec.partition \in Nat
    BY Kinds DEF Config
  <2>5. OthersServe(b)'
    <3>1. \A i \in Ordinals : Exists(i)' /\ pods'[i].rev = b => Up(i)'
      BY <1>1 DEF OthersServe, Exists, Up
    <3>2. ASSUME ~Rolled(b), NEW i \in Ordinals, i < Replicas,
                 req.spec.tmpl = b \/ i < req.spec.partition
          PROVE  Exists(i) /\ pods[i].rev = b
      <4>1. sts.spec.tmpl = b \/ i < sts.spec.partition
        BY <1>1, <2>2, <2>4, <3>2, MemberOrdinals DEF LowersOnce
      <4>2. QED
        BY <3>2, <4>1 DEF OthersServe
    <3>3. QED
      BY <1>1, <2>1, <2>3, <3>1, <3>2 DEF OthersServe, Exists
  <2>6. OneDown(b)'
    <3> SUFFICES ASSUME NEW i \in Ordinals, NEW j \in Ordinals, NEW k \in Ordinals,
                        i = req.spec.partition, Exists(i), pods[i].rev = b, req.spec.tmpl # b,
                        i < j, j < Replicas, ~Up(j), i < k, k < Replicas, ~Up(k)
                 PROVE  j = k
      BY <1>1, <2>1 DEF OneDown, Exists, Up
    <3>1. req.spec.partition < Replicas
      BY MemberOrdinals
    <3>2. sts.spec.tmpl # b
      BY <1>1, <3>1 DEF Lowers, Copies, Behind, Running
    <3>3. ~Rolled(b)
      BY <3>1, <3>2 DEF Rolled
    <3>4. CASE req.spec.partition = sts.spec.partition
      BY <3>2, <3>4 DEF OneDown
    <3>5. CASE \A m \in Ordinals : req.spec.partition < m /\ m < Replicas
                 => Up(m) \/ m = sts.spec.partition
      BY <3>5
    <3>6. QED
      BY <1>1, <3>2, <3>3, <3>4, <3>5 DEF LowersOnce
  <2>7. QED
    BY <1>1, <1>3, <2>1, <2>3, <2>5, <2>6 DEF RestIsSeen, HealthHolds, LowersOnce
<1>4. QED
  BY <1>2, <1>3, UpdateStep

\* A step of one pod; the members do not crash.
LEMMA ServingPod ==
  ASSUME NEW b \in Revisions, MaxCrashes = 0, RollInv(b), Serving(b), NEW i \in Ordinals,
         BringUp(i) \/ MemberCrash(i) \/ DeleteForUpdate(i) \/ DeleteCondemned(i),
         UNCHANGED <<req, pdVars>>
  PROVE  Serving(b)'
<1> USE DEF RollInv, Serving
<1>0. UNCHANGED <<sts, req, pc, pass, status>>
  BY DEF BringUp, CreatePod, StartPod, MemberUp, MemberCrash, DeleteForUpdate, DeleteCondemned,
         pdVars, passVars
<1>1. \A j \in Ordinals : j # i => pods'[j] = pods[j]
  BY Kinds
  DEF BringUp, CreatePod, StartPod, MemberUp, MemberCrash, DeleteForUpdate, DeleteCondemned
<1>2. sts.spec.replicas = Replicas /\ sts.spec.partition \in Nat /\ Ordinals \subseteq Nat
  BY Kinds, MemberOrdinals DEF Copies, Running, Config
\* A pod that is created is above the partition, or at it.
<1>3. CASE CreatePod(i)
  <2>1. pods'[i].rev = RevisionFor(i) /\ pods'[i].st = "starting" /\ ~Exists(i) /\ i < Replicas
    BY <1>2, <1>3, Kinds DEF CreatePod
  <2>2. ~Rolled(b) /\ sts.spec.tmpl # b /\ ~(i < sts.spec.partition)
    BY <2>1 DEF OthersServe, Rolled
  <2>3. pods'[i].rev = sts.spec.tmpl
    BY <2>1, <2>2 DEF RevisionFor
  <2>4. OthersServe(b)'
    <3>1. \A j \in Ordinals : Exists(j)' /\ pods'[j].rev = b => Up(j)'
      BY <1>1, <2>2, <2>3 DEF OthersServe, Exists, Up
    <3>2. \A j \in Ordinals : j < Replicas /\ (sts.spec.tmpl = b \/ j < sts.spec.partition)
            => Exists(j)' /\ pods'[j].rev = b
      BY <1>1, <2>1, <2>2 DEF OthersServe, Exists
    <3>3. QED
      BY <1>0, <3>1, <3>2 DEF OthersServe
  <2>5. RestIsSeen(b)'
    BY <1>0, <2>2 DEF RestIsSeen
  <2>6. ~Up(i) /\ ~Up(i)' /\ \A j \in Ordinals : Up(j)' = Up(j)
    BY <1>1, <2>1 DEF Up, Exists
  <2>7. HealthHolds' /\ LowersOnce(b)'
    BY <1>0, <2>2, <2>6 DEF HealthHolds, LowersOnce, TypeOK, Writing
  <2>8. OneDown(b)'
    BY <1>0, <1>1, <2>2, <2>3, <2>6 DEF OneDown, Exists
  <2>9. QED
    BY <2>4, <2>5, <2>7, <2>8
\* The one that is replaced is the one at the partition.
<1>4. CASE DeleteForUpdate(i)
  <2>1. /\ sts.spec.tmpl # b /\ pods[i].rev = b /\ Exists(i)
        /\ i = sts.spec.partition /\ i < Replicas
    BY <1>4, ReplacedAt
  <2>2. pods'[i] = NoPod /\ ~Exists(i)' /\ ~Up(i)'
    BY <1>4, Kinds DEF DeleteForUpdate, NoPod, Exists, Up
  <2>3. ~Rolled(b)
    BY <2>1 DEF Rolled
  <2>4. OthersServe(b)'
    <3>1. \A j \in Ordinals : Exists(j)' /\ pods'[j].rev = b => Up(j)'
      BY <1>1, <2>2 DEF OthersServe, Exists, Up
    <3>2. \A j \in Ordinals : j < Replicas /\ (sts.spec.tmpl = b \/ j < sts.spec.partition)
            => Exists(j)' /\ pods'[j].rev = b
      BY <1>1, <1>2, <2>1, <2>3 DEF OthersServe, Exists
    <3>3. QED
      BY <1>0, <3>1, <3>2 DEF OthersServe
  <2>5. RestIsSeen(b)'
    BY <1>0, <2>3 DEF RestIsSeen
  <2>6. HealthHolds' /\ LowersOnce(b)'
    BY <1>0, <1>1, <2>1, <2>3 DEF HealthHolds, LowersOnce, Up, TypeOK, Writing
  <2>7. OneDown(b)'
    BY <1>0, <2>1, <2>2 DEF OneDown
  <2>8. QED
    BY <2>4, <2>5, <2>6, <2>7
<1>5. CASE DeleteCondemned(i)
  BY <1>2, <1>5, MemberOrdinals DEF DeleteCondemned, PodsFollow
<1>6. CASE StartPod(i) \/ MemberUp(i)
  <2>1. /\ pods'[i].rev = pods[i].rev /\ Exists(i) /\ pods'[i].st # "absent" /\ ~Up(i)
    BY <1>6, Kinds DEF StartPod, MemberUp, Exists, Up
  <2>2. \A j \in Ordinals : /\ pods'[j].rev = pods[j].rev /\ (Exists(j)' <=> Exists(j))
                            /\ Up(j) => Up(j)'
    BY <1>1, <2>1 DEF Exists, Up
  <2>3. Rolled(b)' <=> Rolled(b)
    BY <1>0, <2>2 DEF Rolled
  <2>4. OthersServe(b)'
    BY <1>0, <2>2, <2>3 DEF OthersServe
  <2>5. RestIsSeen(b)' /\ HealthHolds' /\ LowersOnce(b)'
    BY <1>0, <2>2, <2>3 DEF RestIsSeen, HealthHolds, LowersOnce, TypeOK, Writing
  <2>6. OneDown(b)'
    BY <1>0, <2>2 DEF OneDown
  <2>7. QED
    BY <2>4, <2>5, <2>6
<1>7. CASE MemberCrash(i)
  BY <1>7 DEF MemberCrash, TypeOK, ControlTypeOK, StsTypeOK
<1>8. QED
  BY <1>3, <1>4, <1>5, <1>6, <1>7 DEF BringUp

LEMMA ServingStep ==
  ASSUME NEW b \in Revisions, b \notin BadRevisions, MaxCrashes = 0
  PROVE  RollInv(b) /\ Serving(b) /\ [Next]_vars => Serving(b)'
<1> SUFFICES ASSUME RollInv(b), Serving(b), [Next]_vars PROVE Serving(b)'
  OBVIOUS
<1>1. CASE CreateSet
  BY <1>1 DEF CreateSet, RollInv, Copies, Running
<1>2. CASE SyncStatus
  BY <1>2, ServingSync
<1>3. CASE Upgrade
  BY <1>3, ServingUpgrade
<1>4. CASE UpdateStatefulSet /\ UNCHANGED pdVars
  BY <1>4, ServingUpdate
<1>5. CASE Environment /\ UNCHANGED <<req, pdVars>>
  <2>1. CASE ObserveStatus
    <3>1. UNCHANGED <<pods, req, pc, pass, status>> /\ sts'.spec = sts.spec
      BY <1>5, <2>1, ObservedStatus DEF pdVars, passVars
    <3>2. sts'.status.currentRev # b => Rolled(b)
      BY <2>1, ObservedStatus DEF Serving, RestIsSeen, Rolled, Ready, Exists
    <3>3. Rolled(b)' = Rolled(b)
      BY <3>1 DEF Rolled, Exists
    <3>4. OthersServe(b)' /\ RestIsSeen(b)'
      BY <3>1, <3>2, <3>3 DEF Serving, OthersServe, RestIsSeen, Exists, Up
    <3>5. HealthHolds' /\ LowersOnce(b)' /\ OneDown(b)'
      BY <3>1, <3>3 DEF Serving, HealthHolds, LowersOnce, OneDown, Exists, Up, Writing
    <3>6. QED
      BY <3>4, <3>5 DEF Serving
  <2>2. CASE DeliverSet
    BY <1>5, <2>2, ServingFrame DEF DeliverSet, pdVars, passVars
  <2>3. CASE \E i \in Ordinals :
               BringUp(i) \/ MemberCrash(i) \/ DeleteForUpdate(i) \/ DeleteCondemned(i)
    BY <1>5, <2>3, ServingPod
  <2>4. QED
    BY <1>5, <2>1, <2>2, <2>3 DEF Environment, RollPods, ScaleIn
<1>6. CASE Restart
  <2>1. pc' = "idle" /\ ~Writing' /\ UNCHANGED <<sts, pods>>
    BY <1>6 DEF Restart, Writing, NoRequest
  <2>2. OthersServe(b)' /\ RestIsSeen(b)'
    BY <2>1 DEF Serving, OthersServe, RestIsSeen, Rolled, Exists, Up
  <2>3. HealthHolds' /\ LowersOnce(b)' /\ OneDown(b)'
    BY <2>1 DEF Serving, HealthHolds, LowersOnce, OneDown, Exists, Up
  <2>4. QED
    BY <2>2, <2>3 DEF Serving
<1>7. CASE EditSpec \/ (\E i \in Ordinals : Discover(i)) \/ UNCHANGED vars
  BY <1>7, ServingFrame DEF EditSpec, Discover, vars, setVars, pdVars, passVars
<1>8. QED
  BY <1>1, <1>2, <1>3, <1>4, <1>5, <1>6, <1>7 DEF Next, Pass

\* So when the pod at the partition is replaced, at most one other is down.
LEMMA AtMostOneDown ==
  ASSUME NEW b \in Revisions, RollInv(b), Serving(b), NEW i \in Ordinals, DeleteForUpdate(i)
  PROVE  Cardinality({j \in Ordinals : j < sts.spec.replicas /\ ~Up(j)}) <= 1
<1> DEFINE Down == {j \in Ordinals : j < sts.spec.replicas /\ ~Up(j)}
<1> USE DEF RollInv, Serving
<1>1. /\ sts.spec.tmpl # b /\ pods[i].rev = b /\ Exists(i)
      /\ i = sts.spec.partition /\ i < Replicas /\ sts.spec.replicas = Replicas
  BY ReplacedAt DEF Copies, Running
<1>2. ~Rolled(b)
  BY <1>1 DEF Rolled
<1>3. \A j \in Down : i < j
  <2>1. \A j \in Ordinals : j < i => Up(j)
    BY <1>1, <1>2, MemberOrdinals DEF OthersServe
  <2>2. Up(i)
    BY <1>1 DEF OthersServe
  <2>3. QED
    BY <1>1, <2>1, <2>2, MemberOrdinals
<1>4. \A j, k \in Down : j = k
  BY <1>1, <1>3 DEF OneDown
<1>5. CASE Down = {}
  BY <1>5, FS_EmptySet
<1>6. ASSUME NEW j \in Down
      PROVE  Cardinality(Down) <= 1
  <2>1. Down = {j}
    BY <1>4
  <2>2. Cardinality({j}) = 1
    BY FS_Singleton
  <2> HIDE DEF Down
  <2>3. Cardinality(Down) = 1
    BY <2>1, <2>2
  <2>4. QED
    BY <2>3
<1>7. QED
  BY <1>5, <1>6

\* The next roll begins with all members serving.
LEMMA NextServing ==
  ASSUME NEW b \in Revisions, RollInv(b), Serving(b), AtRest
  PROVE  Serving(want.tmpl)
<1>1. /\ \A i \in Ordinals : i < Replicas => Up(i) /\ Exists(i) /\ pods[i].rev = want.tmpl
      /\ \A i \in Ordinals : Exists(i) => i < Replicas
  BY DEF AtRest, RollInv, PodsFollow, Up, Exists
<1>2. OthersServe(want.tmpl)
  BY <1>1 DEF OthersServe
<1>3. RestIsSeen(want.tmpl) /\ LowersOnce(want.tmpl) /\ OneDown(want.tmpl)
  BY DEF AtRest, Shows, RestIsSeen, LowersOnce, OneDown
<1>4. HealthHolds
  BY DEF Serving
<1>5. QED
  BY <1>2, <1>3, <1>4 DEF Serving

\* What holds all the time while the user waits.
Rolling == \E b \in Revisions \ BadRevisions : RollInv(b) /\ Serving(b)

LEMMA PatientRolls ==
  ASSUME FirstRevision \notin BadRevisions, MaxCrashes = 0
  PROVE  PatientSpec => []Rolling
<1>1. Deployed => Rolling
  BY RollInit, ServingInit, MemberOrdinals DEF Rolling
<1>2. Rolling /\ [PatientNext]_vars => Rolling'
  <2> SUFFICES ASSUME NEW b \in Revisions \ BadRevisions, RollInv(b), Serving(b),
                      [PatientNext]_vars
               PROVE  \E c \in Revisions \ BadRevisions : RollInv(c)' /\ Serving(c)'
    BY DEF Rolling
  <2>1. [Next]_vars /\ (edits' # edits => AtRest)
    BY DEF PatientNext, vars, pdVars, passVars
  <2>2. PICK c \in Revisions \ BadRevisions :
          RollInv(c) /\ Serving(c) /\ (edits' # edits => want.tmpl = c)
    BY <2>1, NextRoll, NextServing
  <2>3. RollInv(c)' /\ Serving(c)'
    BY <2>1, <2>2, RollStep, ServingStep
  <2>4. QED
    BY <2>3
<1>3. QED
  BY <1>1, <1>2, PTL DEF PatientSpec, PatientNext

\* A user who edits once is one who waits.
THEOREM OneEditIsPatient ==
  ASSUME FirstRevision \notin BadRevisions, MaxEdits <= 1, MaxCrashes = 0
  PROVE  RollSpec => PatientSpec
<1> DEFINE b == FirstRevision
           Once == RollInv(b) /\ Serving(b) /\ (edits > 0 => want.tmpl = b)
<1>0. b \in Revisions \ BadRevisions
  BY MemberOrdinals
<1> HIDE DEF b
<1>1. Deployed => Once
  BY <1>0, RollInit, ServingInit DEF Deployed, b
<1>2. Once /\ [Next]_vars => Once' /\ (edits' # edits => want.tmpl = b)
  <2> SUFFICES ASSUME Once, [Next]_vars
               PROVE  Once' /\ (edits' # edits => want.tmpl = b)
    OBVIOUS
  <2>1. /\ edits' # edits => want.tmpl = b
        /\ edits' > 0 => want'.tmpl = b
    BY FirstEdit DEF RollInv, b
  <2>2. RollInv(b)' /\ Serving(b)'
    BY <1>0, <2>1, RollStep, ServingStep
  <2>3. QED
    BY <2>1, <2>2
<1>3. Once /\ want.tmpl = b => AtRest
  <2> SUFFICES ASSUME Once, want.tmpl = b PROVE AtRest
    OBVIOUS
  <2> USE DEF RollInv, Serving
  <2>1. Shows(sts, b) /\ Shows(cache, b)
    BY DEF Asked, Copies, Running, Behind, Shows
  <2>2. pc = "upgrade" => Shows(pass.old, b) /\ pass.new.tmpl = b
    BY <2>1 DEF Asked, Copies, Running, Behind, Shows
  <2>3. Writing => req.spec.tmpl = b
    BY DEF Asked
  <2>4. \A i \in Ordinals : i < Replicas => Up(i) /\ pods[i].rev = b
    BY <2>1 DEF OthersServe, Rolled, Shows
  <2>5. QED
    BY <2>1, <2>2, <2>3, <2>4 DEF AtRest
<1>4. Once /\ [Next]_vars => [PatientNext]_vars
  BY <1>2, <1>3 DEF PatientNext
<1>5. QED
  BY <1>1, <1>2, <1>4, PTL DEF RollSpec, PatientSpec, PatientNext

\* Kubernetes replaces a serving PD member only while at most one other is down: the
\* partition is lowered past members that the pass saw healthy.  For any number of
\* replicas and of edits that wait for the roll before, whatever fails and restarts, while
\* no member crashes on its own.  pd_upgrader.go: gracefulUpgrade, upgradePDPod.
THEOREM DisruptionIsBounded ==
  ASSUME FirstRevision \notin BadRevisions, MaxCrashes = 0
  PROVE  PatientSpec => DisruptionBound
<1> DEFINE Bound == \A i \in Ordinals : Up(i) /\ ~Exists(i)'
                      => Cardinality({j \in Ordinals : j < sts.spec.replicas /\ ~Up(j)}) <= 1
<1>1. Rolling /\ [Next]_vars => [Bound]_vars
  <2> SUFFICES ASSUME NEW b \in Revisions, RollInv(b), Serving(b), Next,
                      NEW i \in Ordinals, Up(i), ~Exists(i)'
               PROVE  Cardinality({j \in Ordinals : j < sts.spec.replicas /\ ~Up(j)}) <= 1
    BY DEF Rolling
  <2>1. pods' # pods /\ Exists(i)
    BY DEF Up, Exists
  <2>2. CASE Environment
    <3>1. PICK k \in Ordinals :
            BringUp(k) \/ MemberCrash(k) \/ DeleteForUpdate(k) \/ DeleteCondemned(k)
      BY <2>1, <2>2 DEF Environment, RollPods, ScaleIn, ObserveStatus, DeliverSet
    <3>2. CASE DeleteForUpdate(k)
      BY <3>2, AtMostOneDown
    <3>3. CASE DeleteCondemned(k)
      BY <3>3, MemberOrdinals DEF DeleteCondemned, RollInv, PodsFollow, Copies, Running
    <3>4. CASE BringUp(k) \/ MemberCrash(k)
      <4>1. pods \in [Ordinals -> [rev : Revisions \cup {0}, st : PodStates]]
        BY Kinds DEF RollInv
      <4>2. /\ pods'[k].st # "absent"
            /\ i # k => pods'[i] = pods[i]
        BY <3>4, <4>1 DEF BringUp, CreatePod, StartPod, MemberUp, MemberCrash
      <4>3. QED
        BY <2>1, <4>2 DEF Exists
    <3>5. QED
      BY <3>1, <3>2, <3>3, <3>4
  <2>3. CASE ~Environment
    <3>1. UpdateStatefulSet => UNCHANGED pods
      BY UpdateStep DEF RollInv
    <3>2. QED
      BY <2>1, <2>3, <3>1
      DEF Next, Pass, CreateSet, CreateStatefulSet, SyncStatus, Upgrade, SubmitUpdate, Restart,
          EditSpec, Discover, setVars
  <2>4. QED
    BY <2>2, <2>3
<1>2. QED
  BY <1>1, PatientRolls, PTL DEF PatientSpec, DisruptionBound

-----------------------------------------------------------------------------
(* The roll implements the abstract one.                                       *)

LEMMA RefinedInit ==
  ASSUME Deployed
  PROVE  Abstract!Init
<1>1. /\ sts.spec.tmpl = FirstRevision
      /\ pods = [i \in Ordinals |-> IF i < Replicas THEN [rev |-> FirstRevision, st |-> "up"]
                                    ELSE NoPod]
  BY DEF Deployed, NewSet
<1>2. \A i \in Members : i \in Ordinals /\ Exists(i) /\ Up(i) /\ pods[i].rev = FirstRevision
  BY <1>1, MemberOrdinals DEF Members, Exists, Up
<1>3. /\ [i \in Members |-> IF Exists(i) THEN pods[i].rev ELSE 0]
           = [i \in Members |-> sts.spec.tmpl]
      /\ {i \in Members : Up(i)} = Members
  BY <1>1, <1>2
<1>4. QED
  BY <1>1, <1>3, MemberOrdinals DEF Abstract!Init

\* A step that leaves the template and the pods alone does nothing.
LEMMA RefinedFrame ==
  ASSUME sts'.spec.tmpl = sts.spec.tmpl, UNCHANGED pods
  PROVE  UNCHANGED Abstract!vars
  BY DEF Abstract!vars, Exists, Up

\* A template is stored when all members have the one before.
LEMMA RefinedUpdate ==
  ASSUME NEW b \in Revisions, RollInv(b), Serving(b), UpdateStatefulSet
  PROVE  Abstract!Ask \/ UNCHANGED Abstract!vars
<1> USE DEF RollInv, Serving
<1>1. /\ UNCHANGED pods /\ Writing
      /\ \/ UNCHANGED sts
         \/ sts' = Stored(req.spec, req.applied)
  BY UpdateStep
<1>2. CASE sts'.spec.tmpl = sts.spec.tmpl
  BY <1>1, <1>2, RefinedFrame
<1>3. CASE sts'.spec.tmpl # sts.spec.tmpl
  <2>1. sts'.spec.tmpl = req.spec.tmpl
    BY <1>1, <1>3, StoredSet DEF TypeOK, ControlTypeOK
  <2>2. sts.spec.tmpl = b /\ sts'.spec.tmpl \in Revisions
    BY <1>1, <1>3, <2>1, Kinds DEF Asked
  <2>3. \A i \in Members : Exists(i) /\ pods[i].rev = b
    BY <2>2, MemberOrdinals DEF Members, OthersServe, Rolled
  <2>4. \A i \in Members : Abstract!Renewed(i)
    BY <2>2, <2>3 DEF Abstract!Renewed
  <2>5. QED
    BY <1>1, <2>2, <2>4 DEF Abstract!Ask, Exists, Up
<1>4. QED
  BY <1>2, <1>3

\* The steps of one pod.
LEMMA RefinedPod ==
  ASSUME MaxCrashes = 0, NEW b \in Revisions, RollInv(b), Serving(b), NEW i \in Ordinals,
         BringUp(i) \/ MemberCrash(i) \/ DeleteForUpdate(i) \/ DeleteCondemned(i)
  PROVE  Abstract!Next \/ UNCHANGED Abstract!vars
<1> USE DEF RollInv, Serving
<1>1. UNCHANGED sts /\ pods \in [Ordinals -> [rev : Revisions \cup {0}, st : PodStates]]
      /\ sts.spec.replicas = Replicas
  BY Kinds DEF BringUp, CreatePod, StartPod, MemberUp, MemberCrash, DeleteForUpdate,
               DeleteCondemned, Copies, Running
<1>2. /\ \A j \in Members : j \in Ordinals
      /\ Exists(i) => i \in Members /\ pods[i].rev # 0
      /\ i < Replicas => i \in Members
  <2>1. \A r \in Revisions : r # 0
    BY MemberOrdinals
  <2>2. sts.spec.tmpl \in Revisions
    BY Kinds DEF Asked
  <2>3. \A j \in Ordinals : j < Replicas <=> j \in Members
    BY MemberOrdinals DEF Ordinals, Members
  <2>4. QED
    BY <2>1, <2>2, <2>3, MemberOrdinals DEF PodsFollow, Members
<1>3. CASE CreatePod(i)
  <2>1. /\ pods' = [pods EXCEPT ![i] = [rev |-> RevisionFor(i), st |-> "starting"]]
        /\ ~Exists(i) /\ i < Replicas
    BY <1>1, <1>3 DEF CreatePod
  <2>2. RevisionFor(i) = sts.spec.tmpl
    BY <2>1 DEF OthersServe, Rolled, RevisionFor
  <2>3. Abstract!BringBack(i)
    BY <1>1, <1>2, <2>1, <2>2 DEF Abstract!BringBack, Exists, Up
  <2>4. QED
    BY <1>2, <2>1, <2>3 DEF Abstract!Next
<1>4. CASE DeleteForUpdate(i)
  <2>1. pods' = [pods EXCEPT ![i] = NoPod]
    BY <1>4 DEF DeleteForUpdate
  <2>2. /\ Exists(i) /\ pods[i].rev # 0 /\ pods[i].rev # sts.spec.tmpl /\ i \in Members
        /\ \A j \in Members : j > i => Ready(j) /\ pods[j].rev = sts.spec.tmpl
    BY <1>1, <1>2, <1>4, MemberOrdinals DEF DeleteForUpdate, Members
  <2>3. \A j \in Members : j > i => Abstract!Renewed(j)
    BY <2>2 DEF Abstract!Renewed, Ready, Exists
  <2>4. Up(i)
    BY <1>4, ReplacedAt DEF OthersServe
  <2>5. (Members \ {i}) \ {j \in Members : Up(j)}
          = {j \in Ordinals : j < sts.spec.replicas /\ ~Up(j)}
    BY <1>1, <2>4, MemberOrdinals DEF Members, Ordinals
  <2>6. (Members \ {i}) \ {j \in Members : Up(j)}
          \in {down \in SUBSET Members : Cardinality(down) <= 1}
    BY <1>4, <2>5, AtMostOneDown
  <2>7. /\ [j \in Members |-> IF Exists(j) THEN pods[j].rev ELSE 0]'
             = [[j \in Members |-> IF Exists(j) THEN pods[j].rev ELSE 0] EXCEPT ![i] = 0]
        /\ {j \in Members : Up(j)}' = {j \in Members : Up(j)} \ {i}
    BY <1>1, <1>2, <2>1 DEF Exists, Up, NoPod
  <2>8. Abstract!TakeDown(i)
    <3>1. /\ [j \in Members |-> IF Exists(j) THEN pods[j].rev ELSE 0][i] # 0
          /\ ~Abstract!Renewed(i)
      BY <2>2 DEF Abstract!Renewed
    <3>2. {} = {} \ {i} /\ UNCHANGED sts.spec.tmpl
      BY <1>1
    <3>3. QED
      BY <2>3, <2>6, <2>7, <3>1, <3>2 DEF Abstract!TakeDown
  <2>9. QED
    BY <2>2, <2>8 DEF Abstract!Next
<1>5. CASE StartPod(i)
  <2>1. /\ Exists(i) /\ ~Up(i)
        /\ \E st \in {"running", "pullFailed"} : pods' = [pods EXCEPT ![i].st = st]
    BY <1>5 DEF StartPod, Exists, Up
  <2>2. \A j \in Ordinals : Exists(j)' = Exists(j) /\ pods'[j].rev = pods[j].rev /\ Up(j)' = Up(j)
    BY <1>1, <2>1 DEF Exists, Up
  <2>3. QED
    BY <1>1, <1>2, <2>2 DEF Abstract!vars
<1>6. CASE MemberUp(i)
  <2>1. Exists(i) /\ pods' = [pods EXCEPT ![i].st = "up"]
    BY <1>6 DEF MemberUp, Exists
  <2>2. \A j \in Ordinals : /\ Exists(j)' = Exists(j) /\ pods'[j].rev = pods[j].rev
                            /\ Up(j)' <=> (Up(j) \/ j = i)
    BY <1>1, <2>1 DEF Exists, Up
  <2>3. Abstract!Serve(i)
    BY <1>1, <1>2, <2>1, <2>2 DEF Abstract!Serve
  <2>4. QED
    BY <1>2, <2>1, <2>3 DEF Abstract!Next
<1>7. CASE DeleteCondemned(i)
  BY <1>1, <1>7, MemberOrdinals DEF DeleteCondemned, PodsFollow
<1>8. CASE MemberCrash(i)
  BY <1>8 DEF MemberCrash, TypeOK, ControlTypeOK, StsTypeOK
<1>9. QED
  BY <1>3, <1>4, <1>5, <1>6, <1>7, <1>8 DEF BringUp

\* Every step of a roll is an abstract one, or stutters.
LEMMA RefinedStep ==
  ASSUME MaxCrashes = 0
  PROVE  Rolling /\ [Next]_vars => [Abstract!Next]_(Abstract!vars)
<1> SUFFICES ASSUME NEW b \in Revisions, RollInv(b), Serving(b), [Next]_vars
             PROVE  Abstract!Next \/ UNCHANGED Abstract!vars
  BY DEF Rolling
<1>1. CASE UpdateStatefulSet
  BY <1>1, RefinedUpdate DEF Abstract!Next
<1>2. CASE Environment
  <2>1. CASE ObserveStatus
    <3>1. sts'.spec = sts.spec /\ UNCHANGED pods
      BY <2>1, ObservedStatus
    <3>2. QED
      BY <3>1, RefinedFrame
  <2>2. CASE DeliverSet
    BY <2>2, RefinedFrame DEF DeliverSet
  <2>3. CASE \E i \in Ordinals :
               BringUp(i) \/ MemberCrash(i) \/ DeleteForUpdate(i) \/ DeleteCondemned(i)
    BY <2>3, RefinedPod
  <2>4. QED
    BY <1>2, <2>1, <2>2, <2>3 DEF Environment, RollPods, ScaleIn
<1>3. CASE CreateSet
  BY <1>3 DEF CreateSet, RollInv, Copies, Running
<1>4. CASE \/ SyncStatus \/ Upgrade \/ Restart \/ EditSpec \/ UNCHANGED vars
          \/ \E i \in Ordinals : Discover(i)
  <2>1. UNCHANGED <<sts, pods>>
    BY <1>4 DEF SyncStatus, Upgrade, SubmitUpdate, Restart, EditSpec, Discover, vars, setVars
  <2>2. QED
    BY <2>1, RefinedFrame
<1>5. QED
  BY <1>1, <1>2, <1>3, <1>4 DEF Next, Pass

\* The roll of PD implements the abstract one: whatever the passes and the updates miss,
\* repeat or lose, every member is replaced once for each template asked for, from the
\* highest ordinal down, and only while at most one other is down.  For any number of
\* replicas and of edits that wait for the roll before, while no member crashes on its own.
\* pd_member_manager.go and pd_upgrader.go.
THEOREM RollRefines ==
  ASSUME FirstRevision \notin BadRevisions, MaxCrashes = 0
  PROVE  PatientSpec => ImplementsRollout
<1>1. [PatientNext]_vars => [Next]_vars
  BY DEF PatientNext
<1>2. QED
  BY <1>1, PatientRolls, RefinedInit, RefinedStep, PTL
  DEF PatientSpec, PatientNext, ImplementsRollout, Abstract!Spec
=============================================================================
