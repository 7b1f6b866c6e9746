------------------------- MODULE StoreMemberProofs -------------------------
(***************************************************************************)
(* About StoreMember, for any number of stores, leaders, templates,        *)
(* attempts, failed requests and restarts: type correctness, that a store  *)
(* that leads is given its time before it is exposed to the rolling        *)
(* update, and that the roll implements the abstract Rollout; each for one *)
(* edit, and for any number that wait for the roll before to be over.      *)
(***************************************************************************)
EXTENDS StoreMember, TLAPS, FiniteSetTheorems, WellFoundedInduction

USE StatefulSetAssumption, StatefulSetControlAssumption, StoreAssumption

-----------------------------------------------------------------------------
(* What the steps of Kubernetes and of the control do to the types of the set, *)
(* of its copies and of the pods                                               *)

\* A set built for replicas and a template is a configuration.
LEMMA NewSetType ==
  ASSUME NEW r \in 0 .. MaxReplicas, NEW t \in Revisions \cup {0}
  PROVE  NewSet(r, t) \in Config
  BY DEF NewSet, Config

LEMMA NoSetType == NoConfig \in Config /\ NoSet \in SetObject /\ NoRequest.spec \in Config
  BY DEF NoConfig, NoSet, NoStatus, NoRequest, Config, Status, SetObject

\* A write leaves an object of the API server's type.
LEMMA StoredType ==
  ASSUME sts \in SetObject, NEW spec \in Config, NEW applied \in Config
  PROVE  Stored(spec, applied) \in SetObject
  BY DEF Stored, SetObject

\* No more pods are ready than there are ordinals.
LEMMA ReadyCount ==
  ASSUME NEW S \in SUBSET Ordinals
  PROVE  Cardinality(S) \in 0 .. MaxReplicas
<1>1. IsFiniteSet(Ordinals) /\ Cardinality(Ordinals) = MaxReplicas
  BY FS_Interval DEF Ordinals
<1>2. IsFiniteSet(S) /\ Cardinality(S) <= MaxReplicas
  BY <1>1, FS_Subset
<1>3. QED
  BY <1>2, FS_CardinalityType

\* So the controller computes a status.
LEMMA ComputedStatusType ==
  ASSUME StsTypeOK
  PROVE  ComputedStatus \in Status
<1>1. Cardinality({i \in Ordinals : i < sts.spec.replicas /\ Ready(i)}) \in 0 .. MaxReplicas
  BY ReadyCount
<1>2. sts.spec \in Config /\ sts.status \in Status
  BY DEF StsTypeOK, SetObject
<1>3. QED
  BY <1>1, <1>2 DEF ComputedStatus, Config, Status

\* What a step of Kubernetes does to the types.
LEMMA EnvironmentType ==
  ASSUME StsTypeOK, Environment
  PROVE  StsTypeOK'
<1> USE DEF StsTypeOK
<1>1. CASE ObserveStatus
  <2>1. ComputedStatus \in Status
    BY ComputedStatusType
  <2>2. sts' \in SetObject
    BY <1>1, <2>1 DEF ObserveStatus, SetObject
  <2>3. QED
    BY <1>1, <2>2 DEF ObserveStatus, AllStale
<1>2. ASSUME NEW i \in Ordinals, CreatePod(i) PROVE StsTypeOK'
  <2>1. RevisionFor(i) \in Revisions \cup {0}
    BY DEF RevisionFor, SetObject, Status, Config
  <2>2. QED
    BY <1>2, <2>1 DEF CreatePod, PodStates
<1>3. ASSUME NEW i \in Ordinals, DeleteForUpdate(i) \/ DeleteCondemned(i) PROVE StsTypeOK'
  BY <1>3 DEF DeleteForUpdate, DeleteCondemned, NoPod, PodStates
<1>4. ASSUME NEW i \in Ordinals, StartPod(i) \/ MemberUp(i) PROVE StsTypeOK'
  <2>1. \E st \in PodStates : pods' = [pods EXCEPT ![i].st = st]
    BY <1>4 DEF StartPod, MemberUp, PodStates
  <2>2. UNCHANGED <<sts, cache, ver, budget>>
    BY <1>4 DEF StartPod, MemberUp
  <2>3. QED
    BY <2>1, <2>2
<1>5. ASSUME NEW i \in Ordinals, MemberCrash(i) PROVE StsTypeOK'
  BY <1>5 DEF MemberCrash, PodStates
<1>6. CASE DeliverSet
  BY <1>6 DEF DeliverSet
<1>7. QED
  BY <1>1, <1>2, <1>3, <1>4, <1>5, <1>6 DEF Environment, RollPods, ScaleIn, BringUp

\* What a step of an update in flight does to the types.
LEMMA UpdateType ==
  ASSUME ControlTypeOK, UpdateStatefulSet
  PROVE  ControlTypeOK'
<1> USE DEF ControlTypeOK, StsTypeOK
<1>1. NoRequest \in [tries : 0 .. MaxTries, spec : Config, applied : Config]
  BY NoSetType DEF NoRequest
<1>2. Stored(req.spec, req.applied) \in SetObject
  BY StoredType
<1>3. AllStale \in [cache : BOOLEAN, req : BOOLEAN, alias : BOOLEAN]
  BY DEF AllStale
<1>4. CASE UpdateAccepted
  BY <1>1, <1>2, <1>3, <1>4 DEF UpdateAccepted
<1>5. CASE UpdateConflict
  <2>1. cache.applied \in Config
    BY DEF SetObject
  <2>2. req' \in [tries : 0 .. MaxTries, spec : Config, applied : Config]
    <3>1. CASE req.tries > 1
      <4>1. req' = [req EXCEPT !.tries = @ - 1, !.applied = cache.applied]
        BY <1>5, <3>1 DEF UpdateConflict
      <4>2. req.tries - 1 \in 0 .. MaxTries
        BY <3>1
      <4>3. QED BY <2>1, <4>1, <4>2
    <3>2. CASE ~(req.tries > 1)
      BY <1>1, <1>5, <3>2 DEF UpdateConflict
    <3>3. QED BY <3>1, <3>2
  <2>3. ver' \in [cache : BOOLEAN, req : BOOLEAN, alias : BOOLEAN]
    BY <1>5 DEF UpdateConflict
  <2>4. QED
    BY <1>5, <2>2, <2>3 DEF UpdateConflict
<1>6. CASE UpdateFailed
  <2>1. /\ req' = NoRequest
        /\ budget' \in [crash : 0 .. MaxCrashes, fail : 0 .. MaxFailures,
                        restart : 0 .. MaxRestarts]
        /\ UNCHANGED <<cache, pods>>
    BY <1>6 DEF UpdateFailed
  <2>2. \/ UNCHANGED <<sts, ver>>
        \/ sts' = Stored(req.spec, req.applied) /\ ver' = AllStale
    BY <1>6 DEF UpdateFailed
  <2>3. /\ sts' \in SetObject
        /\ ver' \in [cache : BOOLEAN, req : BOOLEAN, alias : BOOLEAN]
    BY <1>2, <1>3, <2>2
  <2>4. QED
    BY <1>1, <2>1, <2>3
<1>7. QED
  BY <1>4, <1>5, <1>6 DEF UpdateStatefulSet

\* What submitting an update does to the types.
LEMMA SubmitType ==
  ASSUME ControlTypeOK, NEW new \in Config, SubmitUpdate(new)
  PROVE  ControlTypeOK'
<1>1. [cache EXCEPT !.spec.replicas = new.replicas, !.applied = new] \in SetObject
  BY DEF ControlTypeOK, StsTypeOK, SetObject, Config
<1>2. QED
  BY <1>1 DEF ControlTypeOK, StsTypeOK, SubmitUpdate

\* What creating the set does to the types.
LEMMA CreateType ==
  ASSUME ControlTypeOK, NEW new \in Config, CreateStatefulSet(new)
  PROVE  ControlTypeOK'
<1>1. Stored(new, new) \in SetObject
  BY StoredType DEF ControlTypeOK, StsTypeOK
<1>2. CASE UNCHANGED setVars
  BY <1>2 DEF setVars, ControlTypeOK, StsTypeOK
<1>3. CASE sts' = Stored(new, new) /\ ver' = AllStale /\ UNCHANGED <<cache, pods, budget, req>>
  BY <1>1, <1>3 DEF ControlTypeOK, StsTypeOK, AllStale
<1>4. CASE /\ budget.fail > 0
           /\ budget' = [budget EXCEPT !.fail = @ - 1]
           /\ UNCHANGED <<sts, cache, ver, pods, req>>
  BY <1>4 DEF ControlTypeOK, StsTypeOK
<1>5. QED
  BY <1>2, <1>3, <1>4 DEF CreateStatefulSet

-----------------------------------------------------------------------------
(* Type correctness *)

Eviction == [Ordinals -> {"none", "begun", "expired"}]
PassType == [new : Config, old : SetObject, stores : SUBSET Ordinals, down : SUBSET Ordinals]

\* The walk comes to an ordinal of the set, or keeps the partition.
LEMMA WalkType ==
  ASSUME TypeOK
  PROVE  WalkResult.partition \subseteq 0 .. MaxReplicas /\ WalkResult.evict \in Eviction
<1> DEFINE i == CHOOSE i \in Stop : TRUE
<1>1. /\ pass.old.spec.partition \in 0 .. MaxReplicas /\ evict \in Eviction
      /\ pass.stores \subseteq Ordinals
  BY DEF TypeOK, SetObject, Config, Eviction
<1>2. Ended \in Eviction
  BY <1>1 DEF Ended, Eviction
<1>3. Stop # {} => i \in Ordinals
  BY <1>1 DEF Stop, Pending
<1>4. i \in Ordinals => i \in 0 .. MaxReplicas
  BY DEF Ordinals
<1>5. [Ended EXCEPT ![i] = "begun"] \in Eviction
  BY <1>2 DEF Eviction
<1>6. CASE Stop = {}
  BY <1>1, <1>2, <1>6 DEF WalkResult, Walk
<1>7. CASE Stop # {} /\ (~Exists(i) \/ pods[i].rev = pass.old.status.updateRev)
  BY <1>2, <1>7 DEF WalkResult, Walk
<1>8. CASE Stop # {} /\ Exists(i) /\ pods[i].rev # pass.old.status.updateRev
  <2>1. WalkResult = CASE ReadyToUpgrade(i) -> Walk({i}, Ended)
           [] ~ReadyToUpgrade(i) /\ evict[i] = "none" ->
                Walk({pass.old.spec.partition}, [Ended EXCEPT ![i] = "begun"])
           [] ~ReadyToUpgrade(i) /\ evict[i] # "none" -> Walk({}, Ended)
    BY <1>8 DEF WalkResult
  <2>2. CASE ReadyToUpgrade(i)
    BY <1>2, <1>3, <1>4, <1>8, <2>1, <2>2 DEF Walk
  <2>3. CASE ~ReadyToUpgrade(i) /\ evict[i] = "none"
    BY <1>1, <1>5, <2>1, <2>3 DEF Walk
  <2>4. CASE ~ReadyToUpgrade(i) /\ evict[i] # "none"
    BY <1>2, <2>1, <2>4 DEF Walk
  <2>5. QED
    BY <2>2, <2>3, <2>4
<1>9. QED
  BY <1>6, <1>7, <1>8

\* Whatever the upgrader and the scaler decide, what is written is a configuration.
LEMMA UpdatesType ==
  ASSUME TypeOK, NEW u \in AfterUpgrade
  PROVE  /\ u.new \in Config /\ Scaled(u.new) \in Config /\ u.evict \in Eviction
<1>1. /\ pass.new \in Config /\ pass.old.spec \in Config /\ evict \in Eviction
  BY DEF TypeOK, SetObject, Eviction
<1>2. u.new \in Config /\ u.evict \in Eviction
  <2>1. CASE ~NeedUpgrade
    BY <1>1, <2>1 DEF AfterUpgrade, Upgraded
  <2>2. CASE NeedUpgrade /\ Gated
    BY <1>1, <2>2 DEF AfterUpgrade, Upgraded, Config
  <2>3. CASE NeedUpgrade /\ ~Gated /\ ~TemplateEqual(pass.new, pass.old)
    BY <1>1, <2>3 DEF AfterUpgrade, Upgraded
  <2>4. CASE NeedUpgrade /\ ~Gated /\ TemplateEqual(pass.new, pass.old)
    <3>1. PICK p \in WalkResult.partition :
            u = Upgraded([pass.new EXCEPT !.partition = p], WalkResult.evict)
      BY <2>4 DEF AfterUpgrade
    <3>2. p \in 0 .. MaxReplicas
      BY WalkType
    <3>3. QED
      BY <1>1, <3>1, <3>2, WalkType DEF Upgraded, Config
  <2>5. QED
    BY <2>1, <2>2, <2>3, <2>4
<1>3. Scaled(u.new) \in Config
  <2>1. /\ pass.old.spec.replicas \in 0 .. MaxReplicas
        /\ ScalesOut => pass.old.spec.replicas + 1 \in 0 .. MaxReplicas
    BY <1>1 DEF ScalesOut, Config
  <2>2. QED
    BY <1>2, <2>1 DEF Scaled, Config
<1>4. QED
  BY <1>2, <1>3

LEMMA InitType == Init => TypeOK
<1> SUFFICES ASSUME Init PROVE TypeOK
  OBVIOUS
<1>n. NoPass \in PassType
  BY NoSetType DEF NoPass, PassType
<1>1. ASSUME NEW allowed \in 0 .. MaxEdits, StoreInit(allowed), ControlTypeOK,
             pdState \in PDStates, joined \in SUBSET Ordinals
      PROVE  TypeOK
  BY <1>1, <1>n DEF StoreInit, TypeOK, NotEvicting, PassType
<1>2. CASE Created
  <2>1. StsTypeOK
    BY <1>2, NoSetType
    DEF Created, ControlInit, StsInit, StsTypeOK, FullBudget, NoPod, PodStates
  <2>2. ControlTypeOK
    BY <1>2, <2>1, NoSetType DEF Created, ControlInit, ControlTypeOK, NoRequest
  <2>3. QED
    BY <1>1, <1>2, <2>2 DEF Created, PDStates
<1>3. CASE Deployed
  <2> DEFINE config == NewSet(Replicas, FirstRevision)
  <2>1. config \in Config
    BY NewSetType
  <2>2. sts \in SetObject
    BY <1>3, <2>1 DEF Deployed, SetObject, Status
  <2>3. pods \in [Ordinals -> [rev : Revisions \cup {0}, st : PodStates]]
    BY <1>3 DEF Deployed, NoPod, PodStates
  <2>4. StsTypeOK
    BY <1>3, <2>2, <2>3 DEF Deployed, StsTypeOK, FullBudget
  <2>5. ControlTypeOK
    BY <1>3, <2>4, NoSetType DEF Deployed, ControlTypeOK, NoRequest
  <2>6. QED
    BY <1>1, <1>3, <2>5 DEF Deployed
<1>4. QED
  BY <1>2, <1>3 DEF Init

\* Every step keeps the types.
LEMMA StepType == TypeOK /\ [Next]_vars => TypeOK'
<1> SUFFICES ASSUME TypeOK, [Next]_vars PROVE TypeOK'
  OBVIOUS
<1>0. ControlTypeOK /\ StsTypeOK
  BY DEF TypeOK, ControlTypeOK
<1>n. NoPass \in PassType
  BY NoSetType DEF NoPass, PassType
<1>1. CASE CreateSet
  <2>1. NewSet(want.replicas, want.tmpl) \in Config
    BY NewSetType DEF TypeOK
  <2>2. ControlTypeOK'
    BY <1>0, <1>1, <2>1, CreateType DEF CreateSet
  <2>3. QED
    BY <1>1, <2>2 DEF CreateSet, storeVars, userVars, passVars, TypeOK
<1>2. CASE SyncStatus
  <2>1. budget' \in [crash : 0 .. MaxCrashes, fail : 0 .. MaxFailures,
                     restart : 0 .. MaxRestarts]
    BY <1>0, <1>2 DEF SyncStatus, StsTypeOK
  <2>2. ver' \in [cache : BOOLEAN, req : BOOLEAN, alias : BOOLEAN]
    BY <1>0, <1>2 DEF SyncStatus, StsTypeOK
  <2>3. ControlTypeOK'
    BY <1>0, <1>2, <2>1, <2>2 DEF SyncStatus, ControlTypeOK, StsTypeOK
  <2>4. pass' \in PassType /\ pc' \in {"idle", "upgrade"}
    <3>1. NewSet(want.replicas, want.tmpl) \in Config
      BY NewSetType DEF TypeOK
    <3>2. cache \in SetObject /\ joined \in SUBSET Ordinals
      BY <1>0 DEF StsTypeOK, TypeOK
    <3>3. pass \in PassType /\ pc \in {"idle", "upgrade"}
      BY DEF TypeOK, PassType
    <3>4. CASE UNCHANGED <<pc, pass>>
      BY <3>3, <3>4
    <3>5. ASSUME NEW down \in SUBSET (joined \ UpStores), pc' = "upgrade",
                 pass' = [new |-> NewSet(want.replicas, want.tmpl), old |-> cache,
                          stores |-> joined, down |-> down]
          PROVE  pass' \in PassType /\ pc' \in {"idle", "upgrade"}
      BY <3>1, <3>2, <3>5 DEF PassType
    <3>6. QED
      BY <1>2, <3>4, <3>5 DEF SyncStatus
  <2>5. phase' \in {"Normal", "Upgrade"}
    BY <1>2 DEF SyncStatus
  <2>6. UNCHANGED <<want, edits, pdState, joined, evict>>
    BY <1>2 DEF SyncStatus, userVars
  <2>7. QED
    BY <2>3, <2>4, <2>5, <2>6 DEF TypeOK, PassType
<1>3. CASE Upgrade
  <2>1. /\ pc' = "idle" /\ pass' = NoPass /\ UNCHANGED <<want, edits, pdState, joined>>
        /\ phase' \in {"Normal", "Upgrade"}
    BY <1>3 DEF Upgrade, userVars, PhaseAfterUpgrade, TypeOK
  <2>2. evict \in Eviction
    BY DEF TypeOK, Eviction
  <2>3. ControlTypeOK' /\ evict' \in Eviction
    <3>1. CASE UNCHANGED setVars /\ evict' = WalkResult.evict
      BY <1>0, <3>1, WalkType DEF setVars, ControlTypeOK, StsTypeOK
    <3>2. ASSUME NEW u \in AfterUpgrade, evict' = u.evict,
                 UNCHANGED setVars \/ SubmitUpdate(Scaled(u.new))
          PROVE  ControlTypeOK' /\ evict' \in Eviction
      <4>1. Scaled(u.new) \in Config /\ evict' \in Eviction
        BY <3>2, UpdatesType
      <4>2. CASE UNCHANGED setVars
        BY <1>0, <4>1, <4>2 DEF setVars, ControlTypeOK, StsTypeOK
      <4>3. CASE SubmitUpdate(Scaled(u.new))
        BY <1>0, <4>1, <4>3, SubmitType
      <4>4. QED
        BY <3>2, <4>2, <4>3
    <3>3. CASE RequestFails
      BY <1>0, <2>2, <3>3, WalkType DEF RequestFails, ControlTypeOK, StsTypeOK
    <3>4. QED
      BY <1>3, <3>1, <3>2, <3>3 DEF Upgrade
  <2>4. QED
    BY <1>n, <2>1, <2>3 DEF TypeOK, PassType, Eviction
<1>4. CASE UpdateStatefulSet /\ UNCHANGED storeVars
  BY <1>0, <1>4, UpdateType DEF storeVars, userVars, passVars, TypeOK
<1>5. CASE Kubernetes(Environment)
  <2>1. StsTypeOK' /\ UNCHANGED req
    BY <1>0, <1>5, EnvironmentType DEF Kubernetes
  <2>2. joined' \in SUBSET Ordinals /\ evict' \in Eviction
    BY <1>5 DEF Kubernetes, TypeOK, Eviction
  <2>3. UNCHANGED <<want, edits, pdState, pc, pass, phase>>
    BY <1>5 DEF Kubernetes, userVars, passVars
  <2>4. QED
    BY <1>0, <2>1, <2>2, <2>3 DEF TypeOK, ControlTypeOK, Eviction
<1>6. CASE PDChanges
  <2>1. ControlTypeOK'
    BY <1>0, <1>6 DEF PDChanges, setVars, ControlTypeOK, StsTypeOK
  <2>2. QED
    BY <1>6, <2>1 DEF PDChanges, userVars, passVars, TypeOK
<1>7. ASSUME NEW i \in Ordinals, TimePasses(i)
      PROVE  TypeOK'
  <2>1. ControlTypeOK'
    BY <1>0, <1>7 DEF TimePasses, setVars, ControlTypeOK, StsTypeOK
  <2>2. QED
    BY <1>7, <2>1 DEF TimePasses, userVars, passVars, TypeOK
<1>8. CASE Restart
  <2>1. budget' \in [crash : 0 .. MaxCrashes, fail : 0 .. MaxFailures,
                     restart : 0 .. MaxRestarts]
    BY <1>0, <1>8 DEF Restart, StsTypeOK
  <2>2. ver' \in [cache : BOOLEAN, req : BOOLEAN, alias : BOOLEAN]
    BY <1>0, <1>8 DEF Restart, StsTypeOK
  <2>3. NoRequest \in [tries : 0 .. MaxTries, spec : Config, applied : Config]
    BY NoSetType DEF NoRequest
  <2>4. ControlTypeOK'
    BY <1>0, <1>8, <2>1, <2>2, <2>3 DEF Restart, ControlTypeOK, StsTypeOK
  <2>5. QED
    BY <1>8, <1>n, <2>4 DEF Restart, userVars, TypeOK, PassType
<1>9. CASE EditSpec
  <2>1. want' \in [replicas : 0 .. MaxReplicas, tmpl : Revisions]
    BY <1>9 DEF EditSpec
  <2>2. edits' \in 0 .. MaxEdits
    BY <1>9 DEF EditSpec, TypeOK
  <2>3. ControlTypeOK'
    BY <1>0, <1>9 DEF EditSpec, setVars, ControlTypeOK, StsTypeOK
  <2>4. QED
    BY <1>9, <2>1, <2>2, <2>3 DEF EditSpec, passVars, TypeOK
<1>10. CASE UNCHANGED vars
  BY <1>0, <1>10
  DEF vars, setVars, storeVars, userVars, passVars, TypeOK, ControlTypeOK, StsTypeOK
<1>11. QED
  BY <1>1, <1>2, <1>3, <1>4, <1>5, <1>6, <1>7, <1>8, <1>9, <1>10 DEF Next, Pass

\* The manager, the API server, the pods and their annotations are always of their
\* types: every partition the walk comes to and every scale out is in range.
\* store_member_manager.go, store_upgrader.go, store_scaler.go.
THEOREM TypeCorrect == Spec => []TypeOK
  BY InitType, StepType, PTL DEF Spec

-----------------------------------------------------------------------------
(* The inductive invariant behind EvictsFirst.  A cluster that is created, or  *)
(* one that only scales, has its first template everywhere: nothing is exposed.*)

F == FirstRevision

OneTemplate ==
  /\ edits = 0 /\ want.tmpl = F
  /\ sts.exists => sts.spec.tmpl = F
  /\ sts.status.currentRev \in {0, F}
  /\ cache.exists => cache.spec.tmpl = F
  /\ pc = "upgrade" => pass.new.tmpl = F /\ pass.old.spec.tmpl = F
  /\ Writing => req.spec.tmpl = F
  /\ \A i \in Ordinals : Exists(i) => pods[i].rev = F

(* The roll of a running cluster from a template b to another.  Each copy of   *)
(* the set, of its status and of what was asked for is of one of the two, and  *)
(* none is ahead of the object it was copied from.                             *)

\* A copy is behind an object: each of its revisions is b or the object's.
Behind(b, copy, object) ==
  /\ copy.spec.tmpl \in {b, object.spec.tmpl}
  /\ copy.status.updateRev \in {b, object.status.updateRev}
  /\ copy.status.currentRev \in {b, object.status.currentRev}

\* The templates asked for; as long as PD has not come to rest, the set keeps its own.
Asked(b) ==
  /\ want.replicas = Replicas
  /\ sts.spec.tmpl \in {b, want.tmpl}
  /\ pc = "upgrade" => /\ ~Writing /\ pdState # "unavailable"
                       /\ pass.new.partition = Replicas /\ pass.new.replicas = Replicas
                       /\ pass.new.tmpl \in {b, want.tmpl}
                       /\ sts.spec.tmpl \in {b, pass.new.tmpl}
  /\ Writing => req.spec.tmpl \in {b, want.tmpl} /\ sts.spec.tmpl \in {b, req.spec.tmpl}
  /\ pdState # "normal" => sts.spec.tmpl = b /\ (Writing => req.spec.tmpl = b)

\* A running set: its replicas never change, and none of its revisions is from
\* elsewhere than its template.
Running(b, object) ==
  /\ object.exists
  /\ object.spec.partition <= Replicas
  /\ object.spec.replicas = Replicas /\ object.status.replicas = Replicas
  /\ object.status.updateRev \in {b, object.spec.tmpl}
  /\ object.status.currentRev \in {b, object.spec.tmpl}
  /\ object.observed => object.status.updateRev = object.spec.tmpl

Copies(b) ==
  /\ Running(b, sts) /\ Running(b, cache) /\ Behind(b, cache, sts)
  /\ pc = "upgrade" => Running(b, pass.old) /\ Behind(b, pass.old, cache)
  /\ Writing => req.spec.replicas = Replicas /\ req.spec.partition <= Replicas

\* The stores: PD knows them all, and they are of one of the two templates.
Stores(b) ==
  \A i \in Ordinals :
    /\ i < Replicas => i \in joined /\ (pc = "upgrade" => i \in pass.stores)
    /\ Exists(i) => i < Replicas /\ pods[i].rev \in {b, sts.spec.tmpl}

\* No store has been replaced yet.
HeldBack(b) ==
  /\ sts.spec.partition = Replicas /\ sts.status.currentRev = b
  /\ cache.spec.tmpl # b => cache.spec.partition = Replicas
  /\ \A i \in Ordinals : Exists(i) => pods[i].rev = b

\* As long as a copy in use misses the new template, or the update revision that
\* comes with it, none is upgraded.
NothingMissed(b) ==
  /\ sts.spec.tmpl # b /\ cache.status.updateRev = b => HeldBack(b)
  /\ sts.spec.tmpl # b /\ pc = "upgrade" /\ pass.old.status.updateRev = b => HeldBack(b)
  /\ pc = "upgrade" /\ pass.old.spec.tmpl # b /\ pass.old.status.updateRev = b
       => pass.old.spec.partition = Replicas

\* All above a partition are of a template.
Above(partition, tmpl) ==
  \A j \in Ordinals : partition < j /\ j < Replicas => Exists(j) /\ pods[j].rev = tmpl

\* The partition of a template is lowered only when the stores above it are upgraded,
\* and raised only past such.
MovesTo(b, partition, tmpl) ==
  /\ partition < Replicas => cache.status.updateRev = tmpl /\ Above(partition, tmpl)
  /\ sts.spec.tmpl # b
       => \A k \in Ordinals : sts.spec.partition <= k /\ k < partition /\ k < Replicas
                                => Exists(k) /\ pods[k].rev = tmpl
Moves(b) == Writing /\ req.spec.tmpl # b => MovesTo(b, req.spec.partition, req.spec.tmpl)

\* So the roll goes from the top down, and the stores below the partition are there.
TopDown(b) ==
  /\ \A j \in Ordinals : sts.spec.partition < j /\ Exists(j) => pods[j].rev = sts.spec.tmpl
  /\ \A i \in Ordinals :
       i < Replicas /\ (sts.spec.tmpl = b \/ i < sts.spec.partition) => Exists(i)

\* The set has a new current revision, and the manager takes it for one at rest, only
\* after the roll.
RestIsSeen(b) ==
  /\ sts.status.currentRev # b
       => sts.spec.tmpl # b /\ \A i \in Ordinals :
            i < Replicas => Exists(i) /\ pods[i].rev = sts.spec.tmpl
  /\ pc = "upgrade" /\ phase = "Normal" /\ pass.old.spec.tmpl # b
       => pass.old.status.currentRev # b

\* The stores with leaders that a partition exposes have had their time.
Given(b, partition) ==
  \A i \in Leading : partition <= i /\ Exists(i) /\ pods[i].rev = b => evict[i] = "expired"

\* That is so of the set, of every copy of it, and of what is about to be written.
Evicted(b) ==
  /\ sts.spec.tmpl # b => Given(b, sts.spec.partition)
  /\ cache.spec.tmpl # b => Given(b, cache.spec.partition)
  /\ pc = "upgrade" /\ pass.old.spec.tmpl # b => Given(b, pass.old.spec.partition)
  /\ Writing /\ req.spec.tmpl # b => Given(b, req.spec.partition)

Roll(b) ==
  /\ Asked(b) /\ Copies(b) /\ Stores(b) /\ NothingMissed(b) /\ Moves(b) /\ TopDown(b)
  /\ RestIsSeen(b) /\ Evicted(b)

\* The inductive invariant, while there is one edit at most.
Safe == TypeOK /\ (OneTemplate \/ (Roll(F) /\ (edits > 0 => want.tmpl = F)))

LEMMA Kinds ==
  ASSUME TypeOK
  PROVE  /\ sts \in SetObject /\ cache \in SetObject /\ pass.old \in SetObject
         /\ pass.new \in Config /\ req.spec \in Config /\ req.tries \in Nat
         /\ sts.spec \in Config /\ cache.spec \in Config /\ pass.old.spec \in Config
         /\ sts.status \in Status /\ cache.status \in Status /\ pass.old.status \in Status
         /\ pods \in [Ordinals -> [rev : Revisions \cup {0}, st : PodStates]]
         /\ want.tmpl \in Revisions /\ evict \in Eviction
  BY DEF TypeOK, ControlTypeOK, StsTypeOK, SetObject, Eviction

\* The ordinals of the set, of which there is at least one.
LEMMA MemberOrdinals ==
  /\ Replicas \in Nat /\ Replicas > 0 /\ F \in Revisions /\ F # 0
  /\ 0 \in Ordinals /\ Ordinals \subseteq Nat
  /\ \A i \in Leading : i \in Ordinals /\ i < Replicas
  /\ \A r \in Revisions : r # 0
  BY DEF Ordinals, F

LEMMA CreatedOnce ==
  ASSUME Created
  PROVE  OneTemplate
  BY DEF Created, ControlInit, StsInit, StoreInit, OneTemplate, NoSet, NoStatus, NoRequest,
         NoPod, Writing, Exists, F

LEMMA DeployedRolls ==
  ASSUME Deployed
  PROVE  Roll(F) /\ want.tmpl = F
<1> DEFINE config == NewSet(Replicas, F)
<1>1. config \in Config /\ config.replicas = Replicas /\ config.partition = Replicas
      /\ config.tmpl = F
  BY MemberOrdinals, NewSetType DEF NewSet, Config
<1>2. /\ sts = [exists |-> TRUE, spec |-> config, applied |-> config, observed |-> TRUE,
                status |-> [currentRev |-> F, updateRev |-> F, replicas |-> Replicas,
                            ready |-> Replicas]]
      /\ cache = sts /\ pc = "idle" /\ req = NoRequest
      /\ pods = [i \in Ordinals |-> IF i < Replicas THEN [rev |-> F, st |-> "up"] ELSE NoPod]
      /\ want = [replicas |-> Replicas, tmpl |-> F]
      /\ joined = {i \in Ordinals : i < Replicas}
  BY DEF Deployed, StoreInit, F
<1>3. ~Writing /\ sts.spec = config /\ sts.status.updateRev = F /\ sts.status.currentRev = F
  BY <1>2 DEF Writing, NoRequest
<1>4. \A i \in Ordinals : /\ i < Replicas <=> Exists(i)
                          /\ Exists(i) => pods[i].rev = F
  BY <1>2 DEF Exists, NoPod
<1>5. Asked(F) /\ Copies(F)
  BY <1>1, <1>2, <1>3, MemberOrdinals DEF Asked, Copies, Running, Behind
<1>6. Stores(F) /\ NothingMissed(F) /\ Moves(F)
  BY <1>1, <1>2, <1>3, <1>4 DEF Stores, NothingMissed, Moves
<1>7. TopDown(F) /\ RestIsSeen(F) /\ Evicted(F)
  BY <1>1, <1>2, <1>3, <1>4 DEF TopDown, RestIsSeen, Evicted
<1>8. QED
  BY <1>2, <1>5, <1>6, <1>7 DEF Roll

LEMMA SafeInit == Init => Safe
<1>1. Init => TypeOK
  BY InitType
<1>2. QED
  BY <1>1, CreatedOnce, DeployedRolls DEF Init, Safe

-----------------------------------------------------------------------------
(* The steps of a cluster of one template *)

\* A step of an update in flight: it is stored, or tried again, or given up.
LEMMA UpdateStep ==
  ASSUME TypeOK, UpdateStatefulSet
  PROVE  /\ Writing /\ UNCHANGED <<cache, pods>>
         /\ Writing' => req'.spec = req.spec
         /\ \/ UNCHANGED sts
            \/ ~Writing' /\ sts' = Stored(req.spec, req.applied)
<1>0. req \in [tries : 0 .. MaxTries, spec : Config, applied : Config]
  BY DEF TypeOK, ControlTypeOK
<1>1. CASE UpdateAccepted
  BY <1>1 DEF UpdateAccepted, Writing, NoRequest
<1>2. CASE UpdateConflict
  <2>1. CASE req.tries > 1
    BY <1>0, <1>2, <2>1 DEF UpdateConflict, Writing
  <2>2. CASE ~(req.tries > 1)
    BY <1>2, <2>2 DEF UpdateConflict, Writing, NoRequest
  <2>3. QED
    BY <2>1, <2>2
<1>3. CASE UpdateFailed
  BY <1>3 DEF UpdateFailed, Writing, NoRequest
<1>4. QED
  BY <1>1, <1>2, <1>3 DEF UpdateStatefulSet

LEMMA StoredSet ==
  ASSUME TypeOK, NEW spec \in Config, NEW applied \in Config
  PROVE  /\ Stored(spec, applied).exists /\ Stored(spec, applied).spec = spec
         /\ Stored(spec, applied).status = sts.status
         /\ Stored(spec, applied).observed => spec = sts.spec /\ sts.observed
  BY Kinds DEF Stored, SetObject

\* A step of one pod changes nothing but that pod (and the budget).
PodStep(i) == BringUp(i) \/ MemberCrash(i) \/ DeleteForUpdate(i) \/ DeleteCondemned(i)

LEMMA OnePod ==
  ASSUME TypeOK, NEW i \in Ordinals, PodStep(i)
  PROVE  /\ UNCHANGED <<sts, cache, ver>>
         /\ \A j \in Ordinals : j # i => pods'[j] = pods[j]
         /\ \/ /\ CreatePod(i) /\ ~Exists(i) /\ Exists(i)' /\ pods'[i].rev = RevisionFor(i)
               /\ sts.exists /\ i < sts.spec.replicas
            \/ /\ DeleteForUpdate(i) \/ DeleteCondemned(i)
               /\ Exists(i) /\ ~Exists(i)'
            \/ Exists(i) /\ Exists(i)' /\ pods'[i].rev = pods[i].rev
<1> USE Kinds DEF Exists, Up
<1>1. CASE CreatePod(i)
  BY <1>1 DEF CreatePod
<1>2. CASE DeleteForUpdate(i) \/ DeleteCondemned(i)
  BY <1>2 DEF DeleteForUpdate, DeleteCondemned, NoPod
<1>3. CASE StartPod(i) \/ MemberUp(i)
  BY <1>3 DEF StartPod, MemberUp
<1>4. CASE MemberCrash(i)
  BY <1>4 DEF MemberCrash
<1>5. QED
  BY <1>1, <1>2, <1>3, <1>4 DEF PodStep, BringUp

LEMMA EnvironmentSteps ==
  Environment => ObserveStatus \/ DeliverSet \/ \E i \in Ordinals : PodStep(i)
  BY DEF Environment, RollPods, ScaleIn, PodStep

\* What the upgrader makes of a spec is of the template asked for, or of the old one.
LEMMA UpgradedTemplate ==
  ASSUME TypeOK, NEW u \in AfterUpgrade
  PROVE  Scaled(u.new).tmpl \in {pass.new.tmpl, pass.old.spec.tmpl}
<1>1. u.new.tmpl \in {pass.new.tmpl, pass.old.spec.tmpl}
  <2>1. CASE ~NeedUpgrade
    BY <2>1 DEF AfterUpgrade, Upgraded
  <2>2. CASE NeedUpgrade /\ Gated
    BY <2>2, Kinds DEF AfterUpgrade, Upgraded, Config
  <2>3. CASE NeedUpgrade /\ ~Gated
    BY <2>3, Kinds DEF AfterUpgrade, Upgraded, Config
  <2>4. QED
    BY <2>1, <2>2, <2>3
<1>2. QED
  BY <1>1, UpdatesType DEF Scaled, Config

\* What submitting an update does to the copy in the cache.
LEMMA Submitted ==
  ASSUME TypeOK, NEW new \in Config, SubmitUpdate(new)
  PROVE  /\ req'.spec = new /\ UNCHANGED <<sts, pods>>
         /\ cache'.exists = cache.exists /\ cache'.status = cache.status
         /\ cache'.spec.tmpl = cache.spec.tmpl /\ cache'.spec.partition = cache.spec.partition
         /\ cache'.spec.replicas \in {cache.spec.replicas, new.replicas}
         /\ cache'.observed = cache.observed
  BY Kinds DEF SubmitUpdate, SetObject, Config

LEMMA OneTemplateStep ==
  ASSUME TypeOK, OneTemplate, [Next]_vars
  PROVE  OneTemplate'
<1> USE DEF OneTemplate, Exists
<1>0. F \in Revisions /\ F # 0
  BY MemberOrdinals
<1>1. CASE CreateSet
  <2>1. NewSet(want.replicas, want.tmpl) \in Config /\ NewSet(want.replicas, want.tmpl).tmpl = F
    BY NewSetType DEF NewSet, TypeOK
  <2>2. /\ UNCHANGED <<cache, pods, req, want, edits, pc, pass>>
        /\ UNCHANGED sts \/ sts' = Stored(NewSet(want.replicas, want.tmpl),
                                          NewSet(want.replicas, want.tmpl))
    BY <1>1 DEF CreateSet, CreateStatefulSet, setVars, storeVars, userVars, passVars
  <2>3. sts'.status = sts.status /\ (sts'.exists => sts'.spec.tmpl = F)
    BY <2>1, <2>2, StoredSet
  <2>4. QED
    BY <2>2, <2>3 DEF Writing
<1>2. CASE SyncStatus
  <2>1. /\ UNCHANGED <<sts, cache, pods, req, want, edits>> /\ cache.exists
        /\ \/ UNCHANGED <<pc, pass>>
           \/ pass'.new = NewSet(want.replicas, want.tmpl) /\ pass'.old = cache
    BY <1>2 DEF SyncStatus, userVars
  <2>2. QED
    BY <2>1 DEF Writing, NewSet
<1>3. CASE Upgrade
  <2>1. UNCHANGED <<sts, pods, want, edits>> /\ pc = "upgrade" /\ pc' = "idle"
    BY <1>3 DEF Upgrade, userVars, setVars, SubmitUpdate, RequestFails
  <2>2. CASE UNCHANGED <<cache, req>>
    BY <2>1, <2>2 DEF Writing
  <2>3. ASSUME NEW u \in AfterUpgrade, SubmitUpdate(Scaled(u.new))
        PROVE  OneTemplate'
    <3>1. Scaled(u.new) \in Config /\ Scaled(u.new).tmpl = F
      BY <2>1, UpdatesType, UpgradedTemplate
    <3>2. /\ req'.spec.tmpl = F
          /\ cache'.exists = cache.exists /\ cache'.spec.tmpl = cache.spec.tmpl
      BY <2>3, <3>1, Submitted
    <3>3. QED
      BY <2>1, <3>2
  <2>4. QED
    BY <1>3, <2>2, <2>3 DEF Upgrade, setVars, RequestFails
<1>4. CASE UpdateStatefulSet /\ UNCHANGED storeVars
  <2>1. /\ Writing /\ UNCHANGED <<cache, pods, want, edits, pc, pass>>
        /\ Writing' => req'.spec = req.spec
        /\ \/ UNCHANGED sts
           \/ ~Writing' /\ sts' = Stored(req.spec, req.applied)
    BY <1>4, UpdateStep DEF storeVars, userVars, passVars
  <2>2. /\ Stored(req.spec, req.applied).spec = req.spec
        /\ Stored(req.spec, req.applied).status = sts.status
    BY StoredSet DEF TypeOK, ControlTypeOK
  <2>3. QED
    BY <2>1, <2>2
<1>5. CASE Kubernetes(Environment)
  <2>1. UNCHANGED <<req, want, edits, pc, pass>> /\ Environment
    BY <1>5 DEF Kubernetes, userVars, passVars
  <2>2. CASE ObserveStatus
    <3>1. UNCHANGED <<cache, pods>> /\ sts.exists /\ sts'.spec = sts.spec
          /\ sts'.status = ComputedStatus
      BY <2>2, Kinds DEF ObserveStatus, SetObject
    <3>2. sts'.status.currentRev \in {sts.status.currentRev, sts.spec.tmpl}
      BY <3>1 DEF ComputedStatus
    <3>3. QED
      BY <2>1, <3>1, <3>2 DEF Writing
  <2>3. CASE DeliverSet
    BY <2>1, <2>3 DEF DeliverSet, Writing
  <2>4. ASSUME NEW i \in Ordinals, PodStep(i)
        PROVE  OneTemplate'
    <3>1. UNCHANGED <<sts, cache>> /\ \A j \in Ordinals : j # i => pods'[j] = pods[j]
      BY <2>4, OnePod
    <3>2. Exists(i)' => pods'[i].rev = F
      <4>1. sts.exists => RevisionFor(i) = F
        BY <1>0 DEF RevisionFor
      <4>2. QED
        BY <2>4, <4>1, OnePod
    <3>3. QED
      BY <2>1, <3>1, <3>2 DEF Writing
  <2>5. QED
    BY <2>1, <2>2, <2>3, <2>4, EnvironmentSteps
<1>6. CASE PDChanges \/ \E i \in Ordinals : TimePasses(i)
  BY <1>6 DEF PDChanges, TimePasses, setVars, userVars, passVars, Writing
<1>7. CASE Restart
  BY <1>7 DEF Restart, userVars, NoRequest, Writing
<1>8. CASE EditSpec
  BY <1>8 DEF EditSpec
<1>9. CASE UNCHANGED vars
  BY <1>9 DEF vars, setVars, storeVars, userVars, passVars, Writing
<1>10. QED
  BY <1>1, <1>2, <1>3, <1>4, <1>5, <1>6, <1>7, <1>8, <1>9 DEF Next, Pass

-----------------------------------------------------------------------------
(* The walk *)

\* A set of naturals has a least element, and one that is bounded a greatest.
LEMMA Least ==
  ASSUME NEW S \in SUBSET Nat, S # {}
  PROVE  \E x \in S : \A y \in S : x <= y
<1> DEFINE R == {ss \in Nat \X Nat : ss[1] < ss[2]}
<1>1. IsWellFoundedOn(R, Nat)
  BY NatLessThanWellFounded DEF OpToRel
<1> HIDE DEF R
<1>2. PICK x \in S : \A y \in S : ~ (<<y, x>> \in R)
  BY <1>1, WFMin
<1>3. \A m, n \in Nat : m < n => <<m, n>> \in R
  BY DEF R
<1>4. ASSUME NEW y \in S
      PROVE  x <= y
  <2>1. x \in Nat /\ y \in Nat
    OBVIOUS
  <2>2. ~(y < x)
    BY <1>2, <1>3, <2>1
  <2>3. QED
    BY <2>1, <2>2
<1>5. QED
  BY <1>4

LEMMA Greatest ==
  ASSUME NEW n \in Nat, NEW S \in SUBSET (0 .. n), S # {}
  PROVE  \E x \in S : \A y \in S : y <= x
<1> DEFINE T == {n - x : x \in S}
<1>1. \A x \in S : x \in Nat /\ n - x \in Nat
  OBVIOUS
<1>2. T \in SUBSET Nat /\ T # {}
  BY <1>1
<1>3. PICK t \in T : \A u \in T : t <= u
  BY <1>2, Least
<1>4. PICK x \in S : t = n - x
  BY <1>3
<1>5. ASSUME NEW y \in S
      PROVE  y <= x
  <2>1. n - x <= n - y
    BY <1>3, <1>4
  <2>2. QED
    BY <1>1, <2>1
<1>6. QED
  BY <1>5

\* The walk stops unless it has passed every store.
LEMMA Stops ==
  ASSUME TypeOK
  PROVE  /\ Pending \subseteq Ordinals
         /\ Pending # {} => Stop # {}
         /\ \A i, j \in Stop : i = j
<1>1. pass.stores \subseteq Ordinals /\ Ordinals \subseteq 0 .. MaxReplicas
  BY DEF TypeOK, Ordinals
<1>2. Pending \subseteq Ordinals
  BY <1>1 DEF Pending
<1>3. Pending # {} => Stop # {}
  <2>1. Pending \in SUBSET (0 .. MaxReplicas)
    BY <1>1, <1>2
  <2>2. Pending # {} => \E i \in Pending : \A j \in Pending : j <= i
    BY <2>1, Greatest
  <2>3. QED
    BY <2>2 DEF Stop
<1>4. \A i, j \in Stop : i = j
  <2>1. \A i, j \in Stop : i <= j /\ j <= i /\ i \in Nat /\ j \in Nat
    BY <1>2, MemberOrdinals DEF Stop
  <2>2. QED
    BY <2>1
<1>5. QED
  BY <1>2, <1>3, <1>4

\* A store has its time taken away only when the walk passes it: it is upgraded.
LEMMA EvictionKept ==
  ASSUME TypeOK, pass.old.status.replicas = Replicas, NEW k \in Ordinals, evict[k] = "expired"
  PROVE  WalkResult.evict[k] = "expired" \/ pods[k].rev = pass.old.status.updateRev
<1> DEFINE i == CHOOSE i \in Stop : TRUE
<1> SUFFICES ASSUME pods[k].rev # pass.old.status.updateRev
             PROVE  WalkResult.evict[k] = "expired"
  OBVIOUS
<1>1. Ended[k] = "expired"
  <2>1. CASE k \in Pending
    <3>1. PICK j \in Stop : TRUE
      BY <2>1, Stops
    <3>2. k <= j /\ k \in Nat /\ j \in Nat
      BY <2>1, <3>1, Stops, MemberOrdinals DEF Stop
    <3>3. ~(j < k)
      BY <3>2
    <3>4. QED
      BY <3>1, <3>3 DEF Ended
  <2>2. CASE k \notin Pending
    <3>1. ~(k \in pass.stores /\ k < pass.old.status.replicas)
      BY <2>2 DEF Pending
    <3>2. QED
      BY <3>1 DEF Ended
  <2>3. QED
    BY <2>1, <2>2
<1>2. WalkResult.evict \in {Ended, [Ended EXCEPT ![i] = "begun"]}
      /\ (WalkResult.evict # Ended => evict[i] = "none")
  <2>1. CASE Stop = {} \/ ~Exists(i) \/ pods[i].rev = pass.old.status.updateRev
    BY <2>1 DEF WalkResult, Walk
  <2>2. CASE Stop # {} /\ Exists(i) /\ pods[i].rev # pass.old.status.updateRev
    <3>1. WalkResult = CASE ReadyToUpgrade(i) -> Walk({i}, Ended)
             [] ~ReadyToUpgrade(i) /\ evict[i] = "none" ->
                  Walk({pass.old.spec.partition}, [Ended EXCEPT ![i] = "begun"])
             [] ~ReadyToUpgrade(i) /\ evict[i] # "none" -> Walk({}, Ended)
      BY <2>2 DEF WalkResult
    <3>2. QED
      BY <3>1 DEF Walk
  <2>3. QED
    BY <2>1, <2>2
<1>3. CASE WalkResult.evict = Ended
  BY <1>1, <1>3
<1>4. CASE WalkResult.evict = [Ended EXCEPT ![i] = "begun"] /\ evict[i] = "none"
  <2>1. i # k
    BY <1>4
  <2>2. QED
    BY <1>1, <1>4, <2>1 DEF Ended
<1>5. QED
  BY <1>2, <1>3, <1>4

\* What the walk comes to.
LEMMA WalkOf ==
  ASSUME TypeOK, NEW p \in WalkResult.partition
  PROVE  \/ Pending = {} /\ p = pass.old.spec.partition
         \/ \E i \in Stop :
              /\ Exists(i) /\ pods[i].rev # pass.old.status.updateRev
              /\ \/ p = i /\ ReadyToUpgrade(i)
                 \/ p = pass.old.spec.partition /\ i \in Leading /\ evict[i] # "expired"
<1> DEFINE i == CHOOSE i \in Stop : TRUE
<1>1. CASE Stop = {}
  BY <1>1, Stops DEF WalkResult, Walk
<1>2. CASE Stop # {} /\ (~Exists(i) \/ pods[i].rev = pass.old.status.updateRev)
  BY <1>2 DEF WalkResult, Walk
<1>3. CASE Stop # {} /\ Exists(i) /\ pods[i].rev # pass.old.status.updateRev
  <2>1. WalkResult = CASE ReadyToUpgrade(i) -> Walk({i}, Ended)
           [] ~ReadyToUpgrade(i) /\ evict[i] = "none" ->
                Walk({pass.old.spec.partition}, [Ended EXCEPT ![i] = "begun"])
           [] ~ReadyToUpgrade(i) /\ evict[i] # "none" -> Walk({}, Ended)
    BY <1>3 DEF WalkResult
  <2>2. i \in Stop
    BY <1>3
  <2>3. CASE ReadyToUpgrade(i)
    BY <1>3, <2>1, <2>2, <2>3 DEF Walk
  <2>4. CASE ~ReadyToUpgrade(i)
    BY <1>3, <2>1, <2>2, <2>4 DEF Walk, ReadyToUpgrade
  <2>5. QED
    BY <2>3, <2>4
<1>4. QED
  BY <1>1, <1>2, <1>3

-----------------------------------------------------------------------------
(* The steps of a roll *)

\* In a pass: the templates of what it has read, and what the upgrader cannot tell
\* apart under an update revision it has not seen yet.
LEMMA PassOf ==
  ASSUME NEW b \in Revisions, TypeOK, Roll(b), pc = "upgrade"
  PROVE  /\ pass.old.spec.tmpl \in {b, sts.spec.tmpl} /\ sts.spec.tmpl \in {b, pass.new.tmpl}
         /\ pass.old.spec.replicas = Replicas /\ pass.old.status.replicas = Replicas
         /\ pass.old.status.updateRev \in {b, pass.old.spec.tmpl}
         /\ cache.status.updateRev \in {b, cache.spec.tmpl}
         /\ cache.spec.tmpl \in {b, sts.spec.tmpl}
         /\ \A i \in Ordinals : i < Replicas => i \in pass.stores
         /\ sts.spec.tmpl # b /\ pass.old.status.updateRev = b => HeldBack(b)
  BY DEF Roll, Asked, Copies, Running, Behind, Stores, NothingMissed

\* The stores that the walk has passed are upgraded.
LEMMA Passed ==
  ASSUME NEW b \in Revisions, TypeOK, Roll(b), pc = "upgrade",
         NEW j \in Ordinals, j < Replicas, j \notin Pending
  PROVE  Exists(j) /\ pods[j].rev = pass.old.status.updateRev
<1>1. j \in pass.stores /\ j < pass.old.status.replicas
  BY PassOf
<1>2. pods[j].rev = pass.old.status.updateRev /\ PhaseRunning(j)
  BY <1>1 DEF Pending
<1>3. QED
  BY <1>2 DEF PhaseRunning, Ready, Exists

\* A partition the walk comes to, for the template the set already has.
LEMMA WalkMoves ==
  ASSUME NEW b \in Revisions, TypeOK, Roll(b), pc = "upgrade", NEW p \in WalkResult.partition,
         pass.new.tmpl # b, pass.old.spec.tmpl = pass.new.tmpl
  PROVE  /\ p <= Replicas /\ MovesTo(b, p, pass.new.tmpl)
         /\ \A k \in Leading : p <= k /\ Exists(k) /\ pods[k].rev = b
              => evict[k] = "expired" /\ pods[k].rev # pass.old.status.updateRev
<1> DEFINE T == pass.new.tmpl
<1>1. sts.spec.tmpl = T /\ T # b /\ pass.old.status.updateRev \in {b, T}
  BY PassOf
<1>2. Given(b, sts.spec.partition) /\ Given(b, pass.old.spec.partition)
      /\ pass.old.spec.partition <= Replicas
  BY <1>1 DEF Roll, Evicted, Copies, Running
<1>3. /\ p \in 0 .. MaxReplicas /\ sts.spec.partition \in Nat
      /\ pass.old.spec.partition \in Nat /\ Replicas \in Nat
  BY WalkType, Kinds, MemberOrdinals DEF Config
<1>4. CASE pass.old.status.updateRev = b
  <2>1. HeldBack(b) /\ pass.old.spec.partition = Replicas
    BY <1>1, <1>4, PassOf DEF Roll, NothingMissed
  <2>2. p = Replicas
    <3>1. \A i \in Stop : ~(Exists(i) /\ pods[i].rev # pass.old.status.updateRev)
      BY <1>4, <2>1, Stops DEF HeldBack, Stop
    <3>2. QED
      BY <2>1, <3>1, WalkOf
  <2>3. \A k \in Leading : ~(p <= k)
    BY <2>2, MemberOrdinals
  <2>4. \A k \in Ordinals : ~(sts.spec.partition <= k /\ k < p /\ k < Replicas)
    BY <2>1, MemberOrdinals DEF HeldBack
  <2>5. QED
    BY <1>3, <2>2, <2>3, <2>4 DEF MovesTo
<1>5. CASE pass.old.status.updateRev = T
  <2>1. cache.status.updateRev = T
    BY <1>1, <1>5 DEF Roll, Copies, Behind
  <2>2. \A j \in Ordinals : j < Replicas /\ j \notin Pending => Exists(j) /\ pods[j].rev = T
    BY <1>5, Passed
  <2>3. CASE Pending = {} /\ p = pass.old.spec.partition
    BY <1>1, <1>2, <2>1, <2>2, <2>3, MemberOrdinals DEF MovesTo, Above
  <2>4. ASSUME NEW i \in Stop, Exists(i), pods[i].rev # T,
               \/ p = i /\ ReadyToUpgrade(i)
               \/ p = pass.old.spec.partition /\ i \in Leading /\ evict[i] # "expired"
        PROVE  /\ p <= Replicas /\ MovesTo(b, p, T)
               /\ \A k \in Leading : p <= k /\ Exists(k) /\ pods[k].rev = b
                    => evict[k] = "expired" /\ pods[k].rev # T
    <3>1. i \in Ordinals /\ i \in Nat /\ i < Replicas /\ pods[i].rev = b
      BY <1>1, <2>4, Stops, MemberOrdinals DEF Stop, Roll, Stores
    <3>2. ASSUME NEW j \in Ordinals, i < j, j < Replicas
          PROVE  Exists(j) /\ pods[j].rev = T
      <4>1. j \notin Pending
        BY <3>1, <3>2, MemberOrdinals DEF Stop
      <4>2. QED
        BY <2>2, <3>2, <4>1
    <3>3. CASE p = i /\ ReadyToUpgrade(i)
      <4>1. ~(sts.spec.partition < i)
        BY <1>1, <2>4, <3>1 DEF Roll, TopDown
      <4>2. MovesTo(b, p, T)
        <5>1. p = i
          BY <3>3
        <5>2. Above(p, T)
          BY <3>2, <5>1 DEF Above
        <5>3. \A k \in Ordinals : ~(sts.spec.partition <= k /\ k < p)
          BY <1>3, <3>1, <4>1, <5>1, MemberOrdinals
        <5>4. QED
          BY <2>1, <5>2, <5>3 DEF MovesTo
      <4>3. ASSUME NEW k \in Leading, p <= k, Exists(k), pods[k].rev = b
            PROVE  evict[k] = "expired"
        <5>1. k \in Ordinals /\ k \in Nat /\ k < Replicas /\ pods[k].rev # T
          BY <1>1, <4>3, MemberOrdinals
        <5>2. ~(i < k)
          BY <3>2, <5>1
        <5>3. k = i
          BY <3>1, <3>3, <4>3, <5>1, <5>2
        <5>4. QED
          BY <3>3, <4>3, <5>3 DEF ReadyToUpgrade
      <4>4. QED
        BY <1>1, <3>1, <3>3, <4>2, <4>3
    <3>4. CASE p = pass.old.spec.partition /\ i \in Leading /\ evict[i] # "expired"
      <4>1. i < pass.old.spec.partition /\ i < sts.spec.partition
        BY <1>2, <1>3, <2>4, <3>1, <3>4 DEF Given
      <4>2. MovesTo(b, p, T)
        BY <1>3, <2>1, <3>1, <3>2, <3>4, <4>1, MemberOrdinals DEF MovesTo, Above
      <4>3. QED
        BY <1>1, <1>2, <3>4, <4>2 DEF Given
    <3>5. QED
      BY <2>4, <3>3, <3>4
  <2>5. QED
    BY <1>5, <2>3, <2>4, WalkOf
<1>6. QED
  BY <1>1, <1>4, <1>5

\* What a pass asks for: of a new template it exposes only upgraded stores, and one
\* that leads only after its time.
LEMMA UpgradeAsks ==
  ASSUME NEW b \in Revisions, TypeOK, Roll(b), pc = "upgrade", NEW u \in AfterUpgrade
  PROVE  LET new == Scaled(u.new)
         IN /\ new \in Config /\ new.replicas = Replicas /\ new.partition <= Replicas
            /\ new.tmpl \in {b, pass.new.tmpl} /\ sts.spec.tmpl \in {b, new.tmpl}
            /\ pdState # "normal" => new.tmpl = b
            /\ new.tmpl # b
                 => /\ MovesTo(b, new.partition, new.tmpl)
                    /\ \A k \in Leading : new.partition <= k /\ Exists(k) /\ pods[k].rev = b
                         => evict[k] = "expired" /\ pods[k].rev # pass.old.status.updateRev
<1> DEFINE new == Scaled(u.new)
           Given2 == \A k \in Leading : new.partition <= k /\ Exists(k) /\ pods[k].rev = b
                       => evict[k] = "expired" /\ pods[k].rev # pass.old.status.updateRev
<1>1. /\ pass.new.partition = Replicas /\ pass.new.replicas = Replicas
      /\ pass.old.spec.replicas = Replicas /\ pdState # "unavailable"
      /\ pdState # "normal" => sts.spec.tmpl = b
      /\ sts.spec.tmpl # b => sts.spec.partition \in Nat
  BY Kinds DEF Roll, Asked, Copies, Running, Config
<1>2. ~ScalesOut
  BY <1>1, MemberOrdinals DEF ScalesOut
<1>3. new \in Config /\ new.replicas = Replicas
      /\ new.partition = u.new.partition /\ new.tmpl = u.new.tmpl
  BY <1>1, <1>2, UpdatesType DEF Scaled, Config
\* A partition of all replicas exposes no store.
<1>4. ASSUME new.partition = Replicas
      PROVE  new.partition <= Replicas /\ Given2
  BY <1>4, MemberOrdinals
<1>5. CASE ~NeedUpgrade
  <2>1. u.new = pass.new /\ phase = "Normal" /\ pass.old.spec.tmpl = pass.new.tmpl
    BY <1>5 DEF AfterUpgrade, Upgraded, NeedUpgrade, TemplateEqual, TypeOK
  <2>2. new.tmpl = pass.new.tmpl /\ new.partition = Replicas
    BY <1>1, <1>3, <2>1
  <2>3. new.tmpl # b => MovesTo(b, new.partition, new.tmpl)
    <3> SUFFICES ASSUME new.tmpl # b, sts.spec.tmpl # b
                 PROVE  \A k \in Ordinals : k < Replicas => Exists(k) /\ pods[k].rev = new.tmpl
      BY <2>2, MemberOrdinals DEF MovesTo
    <3>1. pass.old.status.currentRev # b
      BY <2>1, <2>2 DEF Roll, RestIsSeen
    <3>2. sts.status.currentRev # b
      BY <3>1 DEF Roll, Copies, Behind
    <3>3. sts.spec.tmpl = new.tmpl
      BY <2>2, PassOf
    <3>4. QED
      BY <3>2, <3>3 DEF Roll, RestIsSeen
  <2>4. pdState # "normal" => new.tmpl = b
    BY <1>1, <2>1, <2>2, PassOf
  <2>5. QED
    BY <1>3, <1>4, <2>2, <2>3, <2>4, PassOf
<1>6. CASE NeedUpgrade /\ Gated
  <2>1. u.new = [pass.new EXCEPT !.tmpl = pass.old.spec.tmpl] /\ sts.spec.tmpl = b
    BY <1>1, <1>6 DEF AfterUpgrade, Upgraded, Gated
  <2>2. new.tmpl = b /\ new.partition = Replicas
    BY <1>1, <1>3, <2>1, PassOf, Kinds DEF Config
  <2>3. QED
    BY <1>3, <1>4, <2>1, <2>2
<1>7. CASE NeedUpgrade /\ ~Gated
  <2>1. pdState = "normal"
    BY <1>1, <1>7 DEF Gated, TypeOK, PDStates
  <2>2. CASE ~TemplateEqual(pass.new, pass.old)
    <3>1. u.new = pass.new /\ pass.old.spec.tmpl # pass.new.tmpl
      BY <1>7, <2>2 DEF AfterUpgrade, Upgraded, TemplateEqual
    <3>2. new.tmpl = pass.new.tmpl /\ new.partition = Replicas
      BY <1>1, <1>3, <3>1
    <3>3. MovesTo(b, new.partition, new.tmpl)
      <4>1. sts.spec.tmpl # b => sts.spec.partition = Replicas
        BY <3>1, PassOf DEF HeldBack
      <4>2. ~(Replicas < Replicas) /\ \A k \in Ordinals : ~(Replicas <= k /\ k < Replicas)
        BY MemberOrdinals
      <4> HIDE DEF new
      <4>3. QED
        BY <3>2, <4>1, <4>2 DEF MovesTo
    <3>4. QED
      BY <1>3, <1>4, <2>1, <3>2, <3>3, PassOf
  <2>3. CASE TemplateEqual(pass.new, pass.old)
    <3>1. PICK p \in WalkResult.partition : u.new = [pass.new EXCEPT !.partition = p]
      BY <1>7, <2>3 DEF AfterUpgrade, Upgraded
    <3>2. new.tmpl = pass.new.tmpl /\ new.partition = p /\ pass.old.spec.tmpl = pass.new.tmpl
      BY <1>3, <2>3, <3>1, Kinds DEF TemplateEqual, Config
    <3>3. new.partition <= Replicas
      <4>1. pass.old.spec.partition <= Replicas
        BY DEF Roll, Copies, Running
      <4>2. p \in Nat /\ (p = pass.old.spec.partition \/ p < Replicas)
        <5>1. \A i \in Stop : i \in Nat /\ i < Replicas
          BY PassOf, Stops, MemberOrdinals DEF Stop, Pending
        <5>2. p = pass.old.spec.partition \/ p \in Stop
          BY WalkOf
        <5>3. p \in 0 .. MaxReplicas
          BY WalkType
        <5>4. QED
          BY <5>1, <5>2, <5>3
      <4>3. QED
        BY <3>2, <4>1, <4>2, MemberOrdinals
    <3>4. QED
      BY <1>3, <2>1, <3>2, <3>3, PassOf, WalkMoves
  <2>4. QED
    BY <2>2, <2>3
<1>8. QED
  BY <1>5, <1>6, <1>7

LEMMA SyncRolls ==
  ASSUME NEW b \in Revisions, TypeOK, Roll(b), SyncStatus
  PROVE  Roll(b)'
<1> USE DEF Roll
<1>1. /\ UNCHANGED <<sts, cache, pods, req, want, edits, pdState, joined, evict>>
      /\ ~Writing /\ ~Writing' /\ pc = "idle" /\ pdState # "unavailable"
      /\ phase' = IF MemberSetIsUpgrading(cache) /\ pdState # "upgrading"
                  THEN "Upgrade" ELSE "Normal"
  BY DEF SyncStatus, Writing, userVars
<1>2. \/ pc' = "idle"
      \/ /\ pass'.new = NewSet(want.replicas, want.tmpl) /\ pass'.old = cache
         /\ pass'.stores = joined
  BY <1>1 DEF SyncStatus
<1>3. CASE pc' = "idle"
  <2>1. Asked(b)' /\ Copies(b)' /\ Stores(b)'
    BY <1>1, <1>3 DEF Asked, Copies, Running, Behind, Stores, Exists
  <2>2. NothingMissed(b)' /\ Moves(b)'
    BY <1>1, <1>3 DEF NothingMissed, HeldBack, Moves, Exists
  <2>3. TopDown(b)' /\ RestIsSeen(b)' /\ Evicted(b)'
    BY <1>1, <1>3 DEF TopDown, RestIsSeen, Evicted, Given, Exists
  <2>4. QED
    BY <2>1, <2>2, <2>3
<1>4. CASE /\ pass'.new = NewSet(want.replicas, want.tmpl) /\ pass'.old = cache
           /\ pass'.stores = joined
  <2>1. /\ pass'.new.partition = Replicas /\ pass'.new.replicas = Replicas
        /\ pass'.new.tmpl = want.tmpl
    BY <1>1, <1>4 DEF NewSet, Asked
  <2>2. Asked(b)' /\ Copies(b)' /\ Stores(b)'
    BY <1>1, <1>4, <2>1 DEF Asked, Copies, Running, Behind, Stores, Exists
  <2>3. NothingMissed(b)' /\ Moves(b)'
    <3>1. cache.spec.tmpl # b => sts.spec.tmpl # b
      BY DEF Copies, Behind
    <3>2. QED
      BY <1>1, <1>4, <3>1 DEF NothingMissed, HeldBack, Moves, Exists
  <2>4. TopDown(b)' /\ Evicted(b)'
    BY <1>1, <1>4 DEF TopDown, Evicted, Given, Exists
  <2>5. ASSUME phase' = "Normal", cache.spec.tmpl # b
        PROVE  cache.status.currentRev # b
    <3>1. pdState = "normal"
      BY <2>5 DEF Asked, Copies, Behind
    <3>2. ~StatefulSetIsUpgrading(cache)
      BY <1>1, <2>5, <3>1 DEF MemberSetIsUpgrading
    <3>3. cache.status # NoStatus
      BY MemberOrdinals DEF Copies, Running, NoStatus
    <3>4. cache.spec.replicas = cache.status.replicas
      BY DEF Copies, Running
    <3>5. cache.status.currentRev = cache.status.updateRev /\ cache.observed
      <4>1. cache.observed \in BOOLEAN
        BY Kinds DEF SetObject
      <4>2. QED
        BY <3>2, <3>3, <3>4, <4>1 DEF StatefulSetIsUpgrading
    <3>6. QED
      BY <2>5, <3>5 DEF Copies, Running
  <2>6. RestIsSeen(b)'
    BY <1>1, <1>4, <2>5 DEF RestIsSeen, Exists
  <2>7. QED
    BY <2>2, <2>3, <2>4, <2>6
<1>5. QED
  BY <1>2, <1>3, <1>4

\* A pass ends: nothing is asked for, or what the upgrader decided; of the annotations,
\* those of the upgraded stores are taken away.
LEMMA UpgradeRolls ==
  ASSUME NEW b \in Revisions, TypeOK, Roll(b), Upgrade
  PROVE  Roll(b)'
<1> USE DEF Roll
<1>1. /\ UNCHANGED <<sts, pods, want, edits, pdState, joined>> /\ pc = "upgrade" /\ pc' = "idle"
      /\ ~Writing
  BY DEF Upgrade, userVars, setVars, SubmitUpdate, RequestFails, Asked
<1>2. \A k \in Leading : evict[k] = "expired"
        => evict'[k] = "expired" \/ pods[k].rev = pass.old.status.updateRev
  <2>1. evict' = evict \/ evict' = WalkResult.evict
    <3>1. \A u \in AfterUpgrade : u.evict = evict \/ u.evict = WalkResult.evict
      BY DEF AfterUpgrade, Upgraded
    <3>2. QED
      BY <3>1 DEF Upgrade, RequestFails
  <2>2. pass.old.status.replicas = Replicas
    BY <1>1, PassOf
  <2>3. QED
    BY <2>1, <2>2, EvictionKept, MemberOrdinals
<1>3. sts.spec.tmpl # b => Given(b, sts.spec.partition)'
  <2> SUFFICES ASSUME sts.spec.tmpl # b, NEW k \in Leading, sts.spec.partition <= k,
                      Exists(k), pods[k].rev = b
               PROVE  evict'[k] = "expired"
    BY <1>1 DEF Given, Exists
  <2>1. evict[k] = "expired"
    BY DEF Evicted, Given
  <2>2. pass.old.status.updateRev # b
    BY <1>1, PassOf, MemberOrdinals DEF HeldBack
  <2>3. QED
    BY <1>2, <2>1, <2>2
<1>4. cache.spec.tmpl # b
        => \A k \in Leading : cache.spec.partition <= k /\ Exists(k) /\ pods[k].rev = b
             => evict'[k] = "expired"
  <2> SUFFICES ASSUME cache.spec.tmpl # b, NEW k \in Leading, cache.spec.partition <= k,
                      Exists(k), pods[k].rev = b
               PROVE  evict'[k] = "expired"
    OBVIOUS
  <2>1. evict[k] = "expired"
    BY DEF Evicted, Given
  <2>2. pass.old.status.updateRev # b
    <3>1. sts.spec.tmpl # b /\ k < Replicas /\ k \in Nat /\ Replicas \in Nat
      BY <1>1, PassOf, MemberOrdinals
    <3>2. ~(cache.spec.partition = Replicas)
      BY <3>1
    <3>3. QED
      BY <1>1, <3>1, <3>2, PassOf DEF HeldBack
  <2>3. QED
    BY <1>2, <2>1, <2>2
<1>5. TopDown(b)' /\ RestIsSeen(b)' /\ Stores(b)'
  BY <1>1 DEF TopDown, RestIsSeen, Stores, Exists
<1>6. CASE UNCHANGED <<cache, req>>
  <2>1. ~Writing'
    BY <1>1, <1>6 DEF Writing
  <2>2. Asked(b)' /\ Copies(b)'
    BY <1>1, <1>6, <2>1 DEF Asked, Copies, Running, Behind
  <2>3. NothingMissed(b)' /\ Moves(b)'
    BY <1>1, <1>6, <2>1 DEF NothingMissed, HeldBack, Moves, Exists
  <2>4. Evicted(b)'
    BY <1>1, <1>3, <1>4, <1>6, <2>1 DEF Evicted, Given, Exists
  <2>5. QED
    BY <1>5, <2>2, <2>3, <2>4
<1>7. ASSUME NEW u \in AfterUpgrade, SubmitUpdate(Scaled(u.new))
      PROVE  Roll(b)'
  <2> DEFINE new == Scaled(u.new)
  <2>1. /\ new \in Config /\ new.replicas = Replicas /\ new.partition <= Replicas
        /\ new.tmpl \in {b, pass.new.tmpl} /\ sts.spec.tmpl \in {b, new.tmpl}
        /\ pdState # "normal" => new.tmpl = b
        /\ new.tmpl # b
             => /\ MovesTo(b, new.partition, new.tmpl)
                /\ \A k \in Leading : new.partition <= k /\ Exists(k) /\ pods[k].rev = b
                     => evict[k] = "expired" /\ pods[k].rev # pass.old.status.updateRev
    BY <1>1, UpgradeAsks
  <2> HIDE DEF new
  <2>2. /\ req'.spec = new
        /\ cache'.exists = cache.exists /\ cache'.status = cache.status
        /\ cache'.spec.tmpl = cache.spec.tmpl /\ cache'.spec.partition = cache.spec.partition
        /\ cache'.spec.replicas \in {cache.spec.replicas, Replicas}
        /\ cache'.observed = cache.observed
    BY <1>7, <2>1, Submitted DEF new
  <2>3. Asked(b)'
    BY <1>1, <2>1, <2>2 DEF Asked
  <2>4. Copies(b)'
    BY <1>1, <2>1, <2>2 DEF Copies, Running, Behind
  <2>5. NothingMissed(b)'
    BY <1>1, <2>2 DEF NothingMissed, HeldBack, Exists
  <2>6. Moves(b)'
    BY <1>1, <2>1, <2>2 DEF Moves, MovesTo, Above, Exists
  <2>7. new.tmpl # b
          => \A k \in Leading : new.partition <= k /\ Exists(k) /\ pods[k].rev = b
               => evict'[k] = "expired"
    BY <1>2, <2>1
  <2>8. Evicted(b)'
    BY <1>1, <1>3, <1>4, <2>2, <2>7 DEF Evicted, Given, Exists
  <2>9. QED
    BY <1>5, <2>3, <2>4, <2>5, <2>6, <2>8
<1>8. QED
  BY <1>6, <1>7 DEF Upgrade, setVars, RequestFails

LEMMA UpdateRolls ==
  ASSUME NEW b \in Revisions, TypeOK, Roll(b), UpdateStatefulSet, UNCHANGED storeVars
  PROVE  Roll(b)'
<1> USE DEF Roll
<1>1. /\ Writing /\ pc # "upgrade"
      /\ Writing' => req'.spec = req.spec
      /\ UNCHANGED <<cache, pods, want, edits, pdState, joined, evict, pc, pass, phase>>
  BY UpdateStep DEF storeVars, userVars, passVars, Asked
<1>2. CASE UNCHANGED sts
  <2>1. Asked(b)' /\ Copies(b)' /\ Stores(b)' /\ TopDown(b)' /\ RestIsSeen(b)'
    BY <1>1, <1>2 DEF Asked, Copies, Running, Behind, Stores, TopDown, RestIsSeen, Exists
  <2>2. NothingMissed(b)' /\ Moves(b)' /\ Evicted(b)'
    BY <1>1, <1>2 DEF NothingMissed, HeldBack, Moves, MovesTo, Above, Evicted, Given, Exists
  <2>3. QED
    BY <2>1, <2>2
<1>3. CASE ~Writing' /\ sts' = Stored(req.spec, req.applied)
  <2>1. /\ sts'.exists /\ sts'.spec = req.spec /\ sts'.status = sts.status
        /\ sts'.observed => req.spec = sts.spec /\ sts.observed
    BY <1>3, StoredSet DEF TypeOK, ControlTypeOK
  <2>2. /\ req.spec.tmpl \in {b, want.tmpl} /\ sts.spec.tmpl \in {b, req.spec.tmpl}
        /\ req.spec.replicas = Replicas /\ req.spec.partition <= Replicas
        /\ pdState # "normal" => req.spec.tmpl = b
    BY <1>1 DEF Asked, Copies
  <2>n. sts.spec.partition \in Nat /\ req.spec.partition \in Nat /\ Replicas \in Nat
    BY Kinds, MemberOrdinals DEF Config
  <2>3. Asked(b)'
    BY <1>1, <1>3, <2>1, <2>2 DEF Asked
  <2>4. Copies(b)'
    BY <1>1, <1>3, <2>1, <2>2 DEF Copies, Running, Behind
  <2>5. Stores(b)'
    BY <1>1, <2>1, <2>2 DEF Stores, Exists
  <2>6. NothingMissed(b)'
    <3>1. ASSUME req.spec.tmpl # b, cache.status.updateRev = b
          PROVE  HeldBack(b)'
      <4>1. req.spec.partition = Replicas
        BY <1>1, <2>2, <2>n, <3>1 DEF Moves, MovesTo
      <4>2. CASE sts.spec.tmpl = b
        BY <1>1, <2>1, <4>1, <4>2 DEF Copies, Running, Behind, Stores, HeldBack, Exists
      <4>3. CASE sts.spec.tmpl # b
        BY <1>1, <2>1, <3>1, <4>1, <4>3 DEF NothingMissed, HeldBack, Exists
      <4>4. QED
        BY <4>2, <4>3
    <3>2. QED
      BY <1>1, <2>1, <3>1 DEF NothingMissed
  <2>7. TopDown(b)'
    <3>1. ASSUME NEW j \in Ordinals, req.spec.partition < j, Exists(j)
          PROVE  pods[j].rev = req.spec.tmpl
      <4>1. CASE req.spec.tmpl = b
        BY <2>2, <3>1, <4>1 DEF Stores
      <4>2. CASE req.spec.tmpl # b
        <5>1. j < Replicas /\ j \in Nat
          BY <3>1, MemberOrdinals DEF Stores
        <5>2. req.spec.partition < Replicas
          BY <2>n, <3>1, <5>1
        <5>3. QED
          BY <1>1, <3>1, <4>2, <5>1, <5>2 DEF Moves, MovesTo, Above
      <4>3. QED
        BY <4>1, <4>2
    <3>2. ASSUME NEW i \in Ordinals, i < Replicas, req.spec.tmpl = b \/ i < req.spec.partition
          PROVE  Exists(i)
      <4>1. CASE sts.spec.tmpl = b \/ i < sts.spec.partition
        BY <3>2, <4>1 DEF TopDown
      <4>2. CASE sts.spec.tmpl # b /\ ~(i < sts.spec.partition)
        <5>1. sts.spec.partition <= i /\ i < req.spec.partition /\ req.spec.tmpl # b
          BY <2>2, <2>n, <3>2, <4>2, MemberOrdinals
        <5>2. QED
          BY <1>1, <3>2, <4>2, <5>1 DEF Moves, MovesTo
      <4>3. QED
        BY <4>1, <4>2
    <3>3. QED
      BY <1>1, <2>1, <3>1, <3>2 DEF TopDown, Exists
  <2>8. RestIsSeen(b)'
    BY <1>1, <2>1, <2>2 DEF RestIsSeen, Exists
  <2>9. Evicted(b)' /\ Moves(b)'
    BY <1>1, <1>3, <2>1 DEF Evicted, Given, Exists, Moves
  <2>10. QED
    BY <2>3, <2>4, <2>5, <2>6, <2>7, <2>8, <2>9
<1>4. QED
  BY <1>2, <1>3, UpdateStep

\* What Kubernetes does to the annotations and to what PD knows.
LEMMA Around ==
  ASSUME TypeOK, NEW step, Kubernetes(step)
  PROVE  /\ step /\ UNCHANGED <<req, want, edits, pdState, pc, pass, phase>>
         /\ \A i \in Ordinals : /\ i \in joined => i \in joined'
                                /\ Exists(i)' => evict'[i] = evict[i]
  BY DEF Kubernetes, userVars, passVars, Exists

LEMMA ObserveRolls ==
  ASSUME NEW b \in Revisions, TypeOK, Roll(b), Kubernetes(ObserveStatus)
  PROVE  Roll(b)'
<1> USE DEF Roll
<1>0. ObserveStatus /\ UNCHANGED <<req, want, edits, pdState, pc, pass, phase>>
  BY Around
<1>1. /\ UNCHANGED <<cache, pods>> /\ sts'.exists /\ sts'.spec = sts.spec
      /\ sts'.status = ComputedStatus
  BY <1>0, Kinds DEF ObserveStatus, SetObject, Copies, Running
<1>2. sts.spec.replicas = Replicas /\ sts.status.currentRev # 0
  <2>1. sts.status.currentRev \in {b, sts.spec.tmpl} /\ sts.spec.tmpl \in {b, want.tmpl}
    BY DEF Copies, Running, Asked
  <2>2. QED
    BY <2>1, Kinds, MemberOrdinals DEF Copies, Running
<1>3. /\ sts'.status.updateRev = sts.spec.tmpl /\ sts'.status.replicas = Replicas
      /\ \/ sts'.status.currentRev = sts.status.currentRev
         \/ /\ sts'.status.currentRev = sts.spec.tmpl
            /\ \A i \in Ordinals : i < Replicas => Exists(i) /\ pods[i].rev = sts.spec.tmpl
  BY <1>1, <1>2 DEF ComputedStatus, Ready, Exists
<1>4. Asked(b)' /\ TopDown(b)'
  BY <1>0, <1>1 DEF Asked, TopDown, Exists, Writing
<1>5. Stores(b)'
  BY <1>0, <1>1, Around DEF Stores, Exists
<1>6. Copies(b)'
  BY <1>0, <1>1, <1>3 DEF Copies, Running, Behind, Writing
<1>7. NothingMissed(b)'
  <2>1. ASSUME sts.spec.tmpl # b, HeldBack(b)
        PROVE  HeldBack(b)'
    <3>1. sts'.status.currentRev = sts.status.currentRev
      BY <1>3, <2>1, MemberOrdinals DEF HeldBack
    <3>2. QED
      BY <1>1, <2>1, <3>1 DEF HeldBack, Exists
  <2>2. QED
    BY <1>0, <1>1, <2>1 DEF NothingMissed
<1>8. Moves(b)'
  BY <1>0, <1>1 DEF Moves, MovesTo, Above, Writing, Exists
<1>9. RestIsSeen(b)'
  BY <1>0, <1>1, <1>3 DEF RestIsSeen, Exists
<1>10. Evicted(b)'
  <2>1. \A i \in Leading : Exists(i) => evict'[i] = evict[i]
    BY <1>1, Around, MemberOrdinals DEF Exists
  <2>2. QED
    BY <1>0, <1>1, <2>1 DEF Evicted, Given, Writing, Exists
<1>11. QED
  BY <1>4, <1>5, <1>6, <1>7, <1>8, <1>9, <1>10

\* The cache gets the set, and the pass and the request stay or are given up.
LEMMA DeliverRolls ==
  ASSUME NEW b \in Revisions, TypeOK, Roll(b), cache' = sts,
         UNCHANGED <<sts, pods, want, edits, pdState>>,
         pc' = "idle" \/ UNCHANGED <<pc, pass, phase>>,
         ~Writing' \/ UNCHANGED req,
         \A i \in Ordinals : /\ i \in joined => i \in joined'
                             /\ Exists(i)' => evict'[i] = evict[i]
  PROVE  Roll(b)'
<1> USE DEF Roll
<1>1. Behind(b, cache, sts) /\ Running(b, sts)
  BY DEF Copies
<1>2. Writing' => Writing /\ UNCHANGED req
  BY DEF Writing
<1>3. pc' = "upgrade" => UNCHANGED <<pc, pass, phase>>
  OBVIOUS
<1>4. Asked(b)' /\ Stores(b)' /\ TopDown(b)'
  <2>1. Asked(b)'
    BY <1>2, <1>3 DEF Asked
  <2>2. Stores(b)' /\ TopDown(b)'
    BY <1>3 DEF Stores, TopDown, Exists
  <2>3. QED
    BY <2>1, <2>2
<1>5. Copies(b)'
  <2>1. Running(b, sts)' /\ Running(b, cache)' /\ Behind(b, cache, sts)'
    BY <1>1 DEF Running, Behind
  <2>2. pc' = "upgrade" => Running(b, pass.old)' /\ Behind(b, pass.old, cache)'
    BY <1>1, <1>3 DEF Copies, Running, Behind
  <2>3. QED
    BY <1>2, <2>1, <2>2 DEF Copies
<1>6. NothingMissed(b)'
  <2>1. sts.spec.tmpl # b /\ sts.status.updateRev = b => HeldBack(b)
    BY <1>1 DEF NothingMissed, Behind
  <2>2. HeldBack(b) => HeldBack(b)'
    BY DEF HeldBack, Exists
  <2>3. QED
    BY <1>3, <2>1, <2>2 DEF NothingMissed
<1>7. Moves(b)'
  <2>1. Writing' => Writing /\ req' = req
    BY <1>2
  <2>2. \A t \in {req.spec.tmpl} : t # b /\ cache.status.updateRev = t => sts.status.updateRev = t
    BY <1>1 DEF Behind
  <2>3. QED
    BY <2>1, <2>2 DEF Moves, MovesTo, Above, Exists
<1>8. RestIsSeen(b)'
  BY <1>3 DEF RestIsSeen, Exists
<1>9. Evicted(b)'
  <2>1. \A i \in Leading : Exists(i) => evict'[i] = evict[i]
    BY MemberOrdinals DEF Exists
  <2>2. QED
    BY <1>2, <1>3, <2>1 DEF Evicted, Given, Exists
<1>10. QED
  BY <1>4, <1>5, <1>6, <1>7, <1>8, <1>9

\* In a roll only stores of the new template are created.
LEMMA CreatedAt ==
  ASSUME NEW b \in Revisions, TypeOK, Roll(b), NEW i \in Ordinals, CreatePod(i)
  PROVE  /\ i < Replicas /\ sts.spec.tmpl # b /\ ~(i < sts.spec.partition)
         /\ RevisionFor(i) = sts.spec.tmpl
<1>1. i < Replicas /\ ~Exists(i)
  BY DEF CreatePod, Roll, Copies, Running
<1>2. sts.spec.tmpl # b /\ ~(i < sts.spec.partition)
  BY <1>1 DEF Roll, TopDown
<1>3. QED
  BY <1>1, <1>2 DEF RevisionFor

\* And one of the old template is deleted, below upgraded ones, to be replaced.
LEMMA DeletedAt ==
  ASSUME NEW b \in Revisions, TypeOK, Roll(b), NEW i \in Ordinals,
         DeleteForUpdate(i) \/ DeleteCondemned(i)
  PROVE  /\ DeleteForUpdate(i)
         /\ Exists(i) /\ i < Replicas /\ sts.spec.partition <= i
         /\ sts.spec.tmpl # b /\ pods[i].rev = b
         /\ \A j \in Ordinals : i < j /\ j < Replicas => Ready(j) /\ pods[j].rev = sts.spec.tmpl
<1>n. sts.spec.replicas = Replicas /\ sts.spec.partition \in Nat /\ i \in Nat /\ Replicas \in Nat
  BY Kinds, MemberOrdinals DEF Roll, Copies, Running, Config
<1>1. Exists(i)
  BY DEF DeleteForUpdate, DeleteCondemned
<1>2. i < Replicas /\ pods[i].rev \in {b, sts.spec.tmpl}
  BY <1>1 DEF Roll, Stores
<1>3. DeleteForUpdate(i)
  BY <1>n, <1>2 DEF DeleteCondemned
<1>4. sts.spec.partition <= i /\ pods[i].rev # sts.spec.tmpl
  BY <1>n, <1>3 DEF DeleteForUpdate
<1>5. \A j \in Ordinals : i < j /\ j < Replicas => j \in (i + 1) .. (sts.spec.replicas - 1)
  BY <1>n, MemberOrdinals
<1>6. \A j \in Ordinals : i < j /\ j < Replicas => Ready(j) /\ pods[j].rev = sts.spec.tmpl
  BY <1>3, <1>5 DEF DeleteForUpdate
<1>7. QED
  BY <1>1, <1>2, <1>3, <1>4, <1>6

\* A step of one pod: only upgraded stores are created, and the one that is deleted
\* is exposed.
LEMMA PodRolls ==
  ASSUME NEW b \in Revisions, TypeOK, Roll(b), NEW i \in Ordinals, Kubernetes(PodStep(i))
  PROVE  Roll(b)'
<1> USE DEF Roll
<1>0. PodStep(i) /\ UNCHANGED <<req, want, edits, pdState, pc, pass, phase>>
  BY Around
<1>1. UNCHANGED <<sts, cache>> /\ \A j \in Ordinals : j # i => pods'[j] = pods[j]
  BY <1>0, OnePod
<1>2. \A k \in Leading : Exists(k)' => evict'[k] = evict[k]
  BY Around, MemberOrdinals
<1>3. Asked(b)' /\ Copies(b)'
  BY <1>0, <1>1 DEF Asked, Copies, Running, Behind, Writing
<1>n. sts.spec.replicas = Replicas /\ sts.spec.partition \in Nat /\ i \in Nat /\ Replicas \in Nat
  BY Kinds, MemberOrdinals DEF Copies, Running, Config
\* What is left to say when the templates of the stores that run stay.
<1>4. ASSUME \A j \in Ordinals : /\ Exists(j) => Exists(j)' /\ pods'[j].rev = pods[j].rev
                                 /\ Exists(j)' /\ ~Exists(j)
                                      => /\ j < Replicas /\ pods'[j].rev = sts.spec.tmpl
                                         /\ sts.spec.tmpl # b /\ ~HeldBack(b)
      PROVE  Roll(b)'
  <2>1. Stores(b)'
    BY <1>0, <1>1, <1>4, Around DEF Stores
  <2>2. NothingMissed(b)'
    <3>1. HeldBack(b) => HeldBack(b)'
      BY <1>1, <1>4 DEF HeldBack
    <3>2. QED
      BY <1>0, <1>1, <3>1 DEF NothingMissed
  <2>3. Moves(b)'
    BY <1>0, <1>1, <1>4 DEF Moves, MovesTo, Above, Writing
  <2>4. TopDown(b)'
    BY <1>1, <1>4 DEF TopDown
  <2>5. RestIsSeen(b)'
    BY <1>0, <1>1, <1>4 DEF RestIsSeen
  <2>6. Evicted(b)'
    <3>1. \A k \in Leading : Exists(k)' /\ pods'[k].rev = b
            => Exists(k) /\ pods[k].rev = b /\ evict'[k] = evict[k]
      BY <1>2, <1>4, MemberOrdinals
    <3>2. QED
      BY <1>0, <1>1, <3>1 DEF Evicted, Given, Writing
  <2>7. QED
    BY <1>3, <2>1, <2>2, <2>3, <2>4, <2>5, <2>6
<1>5. CASE /\ CreatePod(i) /\ ~Exists(i) /\ Exists(i)' /\ pods'[i].rev = RevisionFor(i)
           /\ sts.exists /\ i < sts.spec.replicas
  <2>1. i < Replicas /\ sts.spec.tmpl # b /\ ~(i < sts.spec.partition)
        /\ RevisionFor(i) = sts.spec.tmpl
    BY <1>5, CreatedAt
  <2>2. ~HeldBack(b)
    BY <1>n, <2>1 DEF HeldBack
  <2>3. \A j \in Ordinals : /\ Exists(j) => Exists(j)' /\ pods'[j].rev = pods[j].rev
                            /\ Exists(j)' /\ ~Exists(j)
                                 => /\ j < Replicas /\ pods'[j].rev = sts.spec.tmpl
                                    /\ sts.spec.tmpl # b /\ ~HeldBack(b)
    BY <1>1, <1>5, <2>1, <2>2 DEF Exists
  <2>4. QED
    BY <1>4, <2>3
<1>6. CASE /\ DeleteForUpdate(i) \/ DeleteCondemned(i)
           /\ Exists(i) /\ ~Exists(i)'
  <2>1. /\ i < Replicas /\ sts.spec.partition <= i
        /\ sts.spec.tmpl # b /\ pods[i].rev = b
    BY <1>6, DeletedAt
  <2>2. ~HeldBack(b) /\ sts.status.currentRev = b
    BY <1>6, <1>n, <2>1 DEF HeldBack, RestIsSeen
  <2>3. Stores(b)'
    BY <1>0, <1>1, <1>6, Around DEF Stores, Exists
  <2>4. NothingMissed(b)'
    BY <1>0, <1>1, <2>2 DEF NothingMissed
  <2>5. Moves(b)'
    <3> SUFFICES ASSUME Writing, req.spec.tmpl # b
                 PROVE  MovesTo(b, req.spec.partition, req.spec.tmpl)'
      BY <1>0 DEF Moves, Writing
    <3>1. MovesTo(b, req.spec.partition, req.spec.tmpl) /\ pods[i].rev # req.spec.tmpl
      BY <2>1 DEF Moves
    <3>2. QED
      BY <1>0, <1>1, <3>1 DEF MovesTo, Above, Exists
  <2>6. TopDown(b)'
    BY <1>1, <1>6, <1>n, <2>1 DEF TopDown, Exists
  <2>7. RestIsSeen(b)'
    BY <1>0, <1>1, <2>2 DEF RestIsSeen
  <2>8. Evicted(b)'
    <3>1. \A k \in Leading : Exists(k)' /\ pods'[k].rev = b
            => Exists(k) /\ pods[k].rev = b /\ evict'[k] = evict[k]
      BY <1>1, <1>2, <1>6, MemberOrdinals DEF Exists
    <3>2. QED
      BY <1>0, <1>1, <3>1 DEF Evicted, Given, Writing
  <2>9. QED
    BY <1>3, <2>3, <2>4, <2>5, <2>6, <2>7, <2>8
<1>7. CASE Exists(i) /\ Exists(i)' /\ pods'[i].rev = pods[i].rev
  <2>1. \A j \in Ordinals : /\ Exists(j) => Exists(j)' /\ pods'[j].rev = pods[j].rev
                            /\ ~(Exists(j)' /\ ~Exists(j))
    BY <1>1, <1>7 DEF Exists
  <2>2. QED
    BY <1>4, <2>1
<1>8. QED
  BY <1>0, <1>5, <1>6, <1>7, OnePod

\* PD comes to rest, an eviction has its time: nothing of the set changes.
LEMMA OtherRolls ==
  ASSUME NEW b \in Revisions, TypeOK, Roll(b),
         UNCHANGED <<setVars, want, edits, joined, pc, pass, phase>>,
         \/ UNCHANGED pdState
         \/ pc = "idle" /\ ~Writing /\ pdState # "normal",
         \A i \in Ordinals : evict[i] = "expired" => evict'[i] = "expired"
  PROVE  Roll(b)'
<1> USE DEF Roll, setVars
<1>1. Asked(b)' /\ Copies(b)' /\ Stores(b)'
  <2>1. Asked(b)'
    BY DEF Asked, Writing
  <2>2. QED
    BY <2>1 DEF Copies, Running, Behind, Stores, Exists, Writing
<1>2. NothingMissed(b)' /\ Moves(b)' /\ TopDown(b)' /\ RestIsSeen(b)'
  BY DEF NothingMissed, HeldBack, Moves, MovesTo, Above, TopDown, RestIsSeen, Exists, Writing
<1>3. Evicted(b)'
  BY MemberOrdinals DEF Evicted, Given, Exists, Writing
<1>4. QED
  BY <1>1, <1>2, <1>3

\* An edit that keeps the replicas begins a roll, when none has begun from b.
LEMMA EditRolls ==
  ASSUME NEW b \in Revisions, TypeOK, Roll(b), EditSpec, want.tmpl = b,
         want'.replicas = Replicas
  PROVE  Roll(b)'
<1> USE DEF Roll
<1>1. UNCHANGED <<sts, cache, pods, req, pdState, joined, evict, pc, pass, phase>>
  BY DEF EditSpec, setVars, passVars
<1>2. sts.spec.tmpl = b
  BY DEF Asked
<1>3. Asked(b)'
  BY <1>1, <1>2 DEF Asked, Writing
<1>4. Copies(b)' /\ Stores(b)'
  BY <1>1 DEF Copies, Running, Behind, Stores, Exists, Writing
<1>5. NothingMissed(b)' /\ Moves(b)' /\ TopDown(b)' /\ RestIsSeen(b)'
  BY <1>1
  DEF NothingMissed, HeldBack, Moves, MovesTo, Above, TopDown, RestIsSeen, Exists, Writing
<1>6. Evicted(b)'
  BY <1>1 DEF Evicted, Given, Exists, Writing
<1>7. QED
  BY <1>3, <1>4, <1>5, <1>6

\* One that asks for another number of stores, and is the last, does not.
LEMMA EditScales ==
  ASSUME TypeOK, Roll(F), EditSpec, want.tmpl = F, want'.tmpl = F, edits' = 0
  PROVE  OneTemplate'
<1> USE DEF Roll
<1>1. UNCHANGED <<sts, cache, pods, req, pc, pass>>
  BY DEF EditSpec, setVars, passVars
<1>2. sts.spec.tmpl = F
  BY DEF Asked
<1>3. sts.status.currentRev = F /\ cache.spec.tmpl = F
  BY <1>2 DEF Copies, Running, Behind
<1>4. pc = "upgrade" => pass.new.tmpl = F /\ pass.old.spec.tmpl = F
  BY <1>2, <1>3 DEF Asked, Copies, Behind
<1>5. Writing => req.spec.tmpl = F
  BY DEF Asked
<1>6. \A i \in Ordinals : Exists(i) => pods[i].rev = F
  BY <1>2 DEF Stores
<1>7. QED
  BY <1>1, <1>2, <1>3, <1>4, <1>5, <1>6 DEF OneTemplate, Writing, Exists

\* The one edit: another number of stores, or another template.
LEMMA EditSafe ==
  ASSUME MaxEdits <= 1, \A a \in Asks : a.tmpl = F \/ a.replicas = Replicas,
         TypeOK, Roll(F), edits > 0 => want.tmpl = F, EditSpec
  PROVE  (OneTemplate \/ (Roll(F) /\ (edits > 0 => want.tmpl = F)))'
<1>1. want.tmpl = F /\ edits' = 0 /\ want' \in Asks
  BY DEF EditSpec, TypeOK
<1>2. CASE want'.tmpl = F
  BY <1>1, <1>2, EditScales
<1>3. CASE want'.replicas = Replicas
  BY <1>1, <1>3, EditRolls, MemberOrdinals
<1>4. QED
  BY <1>1, <1>2, <1>3

\* Nobody else edits the spec.
LEMMA OnlyEdits ==
  ASSUME [Next]_vars, ~EditSpec
  PROVE  UNCHANGED <<want, edits>>
  BY DEF Next, Pass, CreateSet, SyncStatus, Upgrade, PDChanges, TimePasses, Restart,
         Kubernetes, vars, storeVars, userVars

\* A roll goes on whatever happens, as long as nothing else is asked for.
LEMMA RollStep ==
  ASSUME NEW b \in Revisions, TypeOK, Roll(b), [Next]_vars, ~EditSpec
  PROVE  Roll(b)'
<1>1. CASE CreateSet
  BY <1>1 DEF CreateSet, Roll, Copies, Running
<1>2. CASE SyncStatus
  BY <1>2, SyncRolls
<1>3. CASE Upgrade
  BY <1>3, UpgradeRolls
<1>4. CASE UpdateStatefulSet /\ UNCHANGED storeVars
  BY <1>4, UpdateRolls
<1>5. CASE Kubernetes(Environment)
  <2>1. CASE ObserveStatus
    BY <1>5, <2>1, ObserveRolls DEF Kubernetes
  <2>2. CASE DeliverSet
    <3>1. /\ UNCHANGED <<req, want, edits, pdState, pc, pass, phase>>
          /\ \A i \in Ordinals : /\ i \in joined => i \in joined'
                                 /\ Exists(i)' => evict'[i] = evict[i]
      BY <1>5, Around
    <3>2. QED
      BY <2>2, <3>1, DeliverRolls DEF DeliverSet
  <2>3. ASSUME NEW i \in Ordinals, PodStep(i)
        PROVE  Roll(b)'
    BY <1>5, <2>3, PodRolls DEF Kubernetes
  <2>4. QED
    BY <1>5, <2>1, <2>2, <2>3, EnvironmentSteps DEF Kubernetes
<1>6. CASE PDChanges
  BY <1>6, OtherRolls DEF PDChanges, userVars, passVars
<1>7. ASSUME NEW i \in Ordinals, TimePasses(i)
      PROVE  Roll(b)'
  <2>1. \A j \in Ordinals : evict[j] = "expired" => evict'[j] = "expired"
    BY <1>7, Kinds DEF TimePasses, Eviction
  <2>2. QED
    BY <1>7, <2>1, OtherRolls DEF TimePasses, userVars, passVars
<1>8. CASE Restart
  <2>1. /\ cache' = sts /\ pc' = "idle" /\ ~Writing'
        /\ UNCHANGED <<sts, pods, want, edits, pdState, joined, evict>>
    BY <1>8 DEF Restart, userVars, Writing, NoRequest
  <2>2. QED
    BY <2>1, DeliverRolls
<1>9. CASE UNCHANGED vars
  BY <1>9, OtherRolls DEF vars, storeVars, userVars, passVars
<1>10. QED
  BY <1>1, <1>2, <1>3, <1>4, <1>5, <1>6, <1>7, <1>8, <1>9 DEF Next, Pass

\* Every step keeps the invariant.
LEMMA SafeStep ==
  ASSUME MaxEdits <= 1, \A a \in Asks : a.tmpl = F \/ a.replicas = Replicas
  PROVE  Safe /\ [Next]_vars => Safe'
<1> SUFFICES ASSUME Safe, [Next]_vars PROVE Safe'
  OBVIOUS
<1> USE DEF Safe
<1>1. TypeOK'
  BY StepType
<1>2. CASE OneTemplate
  BY <1>1, <1>2, OneTemplateStep
<1>3. CASE Roll(F) /\ (edits > 0 => want.tmpl = F)
  <2>1. CASE EditSpec
    BY <1>1, <1>3, <2>1, EditSafe
  <2>2. CASE ~EditSpec
    <3>1. Roll(F)'
      BY <1>3, <2>2, RollStep, MemberOrdinals
    <3>2. QED
      BY <1>1, <1>3, <2>2, <3>1, OnlyEdits
  <2>3. QED
    BY <2>1, <2>2
<1>4. QED
  BY <1>2, <1>3

\* Only a write that is stored exposes a store that serves, and it changes no
\* annotation.
LEMMA ExposedByWrite ==
  ASSUME TypeOK, TypeOK', OneTemplate' \/ \E b \in Revisions : Roll(b)', [Next]_vars,
         NEW i \in Leading, Up(i), ~Exposed(i), Exposed(i)'
  PROVE  evict[i] = "expired"
<1>0. TypeOK /\ i \in Ordinals /\ Exists(i)
  BY MemberOrdinals DEF Up, Exists
<1>1. UNCHANGED evict
  <2>1. CASE UpdateStatefulSet /\ UNCHANGED storeVars
    BY <2>1 DEF storeVars
  <2>2. CASE CreateSet \/ SyncStatus \/ PDChanges \/ EditSpec \/ Restart \/ UNCHANGED vars
    BY <2>2
    DEF CreateSet, SyncStatus, PDChanges, EditSpec, Restart, vars, storeVars, userVars, passVars
  <2>3. ASSUME UNCHANGED <<sts, pods>>
        PROVE  FALSE
    BY <2>3 DEF Exposed, Exists
  <2>4. ~Upgrade /\ ~\E j \in Ordinals : TimePasses(j)
    BY <2>3 DEF Upgrade, RequestFails, SubmitUpdate, setVars, TimePasses
  <2>5. CASE Kubernetes(Environment)
    <3>1. CASE ObserveStatus
      <4>1. UNCHANGED pods /\ sts'.exists = sts.exists /\ sts'.spec = sts.spec
        BY <1>0, <3>1, Kinds DEF ObserveStatus, SetObject
      <4>2. QED
        BY <4>1 DEF Exposed, Exists
    <3>2. CASE DeliverSet
      BY <2>3, <3>2 DEF DeliverSet
    <3>3. ASSUME NEW j \in Ordinals, PodStep(j)
          PROVE  FALSE
      <4>1. /\ UNCHANGED sts
            /\ Exists(i)' => pods'[i].rev = pods[i].rev
        BY <1>0, <3>3, OnePod
      <4>2. QED
        BY <1>0, <4>1 DEF Exposed
    <3>4. QED
      BY <2>5, <3>1, <3>2, <3>3, EnvironmentSteps DEF Kubernetes
  <2>6. QED
    BY <2>1, <2>2, <2>4, <2>5 DEF Next, Pass
<1>2. ~OneTemplate'
  BY <1>0 DEF OneTemplate, Exposed
<1>3. PICK b \in Revisions : Roll(b)'
  BY <1>2
<1>4. sts'.spec.tmpl # b /\ pods'[i].rev = b /\ Exists(i)' /\ sts'.spec.partition <= i
  <2>1. /\ sts'.spec.partition \in Nat /\ sts'.spec.replicas \in Nat /\ i \in Nat
    <3>1. sts'.spec \in Config
      BY DEF TypeOK, ControlTypeOK, StsTypeOK, SetObject
    <3>2. QED
      BY <1>0, <3>1, MemberOrdinals DEF Config
  <2>2. Exists(i)' /\ pods'[i].rev # sts'.spec.tmpl /\ sts'.spec.partition <= i
    BY <2>1 DEF Exposed
  <2>3. QED
    BY <1>0, <1>3, <2>2 DEF Roll, Stores
<1>5. evict'[i] = "expired"
  BY <1>3, <1>4 DEF Roll, Evicted, Given
<1>6. QED
  BY <1>1, <1>5

\* A store that serves and leads is exposed to the rolling update only when its
\* eviction has had its time, for any number of stores and whatever crashes, fails,
\* conflicts and restarts in between, PD's own upgrade included.
\* store_upgrader.go: Upgrade, upgradeStorePod, readyToUpgrade.
THEOREM LeadersAreEvictedFirst ==
  ASSUME MaxEdits <= 1, \A a \in Asks : a.tmpl = FirstRevision \/ a.replicas = Replicas
  PROVE  Spec => EvictsFirst
<1>0. \A a \in Asks : a.tmpl = F \/ a.replicas = Replicas
  BY DEF F
<1>1. Safe /\ [Next]_vars => Safe'
  BY <1>0, SafeStep
<1>2. Safe /\ Safe' /\ [Next]_vars
        => [\A i \in Leading : Up(i) /\ ~Exposed(i) /\ Exposed(i)' => evict[i] = "expired"]_vars
  BY ExposedByWrite, MemberOrdinals DEF Safe
<1>3. QED
  BY <1>1, <1>2, SafeInit, PTL DEF Spec, EvictsFirst

-----------------------------------------------------------------------------
(* The roll implements the abstract one.  Two more things are known of every     *)
(* state: that no more annotations are set than the walk has asked for, and that *)
(* no store of the old template is lost before its turn.                         *)

Unevicted == \A i \in Ordinals : evict[i] = "none"

\* A set of the first template, that has no fewer stores than at first.
Plain(object) ==
  /\ object.status.updateRev \in {0, F}
  /\ object.status.updateRev = 0 => object.status.replicas = 0
  /\ object.exists => object.spec.replicas >= Replicas

\* In a cluster of one template no store has to hand over, and none is deleted.
Quiet ==
  /\ Unevicted
  /\ Plain(sts) /\ Plain(cache)
  /\ cache.exists => sts.exists
  /\ cache.exists \/ want.replicas = Replicas
  /\ pc = "upgrade" => Plain(pass.old) /\ pass.old.exists
  /\ Writing => req.spec.replicas >= Replicas

\* In a roll the stores of the old template run, and those below such a one too.
FirstRun(b) ==
  \A i \in Ordinals : Exists(i) /\ pods[i].rev = b
    => Ready(i) /\ \A j \in Ordinals : j < i => Exists(j) /\ pods[j].rev = b

\* The annotations are those of stores that are there and lead.
Annotated == \A i \in Ordinals : evict[i] # "none" => i \in Leading /\ Exists(i)

\* None is set before the update revision of the new template is seen, or of a store
\* that is upgraded.
NotAhead(b) ==
  /\ cache.status.updateRev = b => Unevicted
  /\ pc = "upgrade" /\ pass.old.status.updateRev = b => Unevicted
  /\ \A i \in Ordinals : evict[i] # "none" => pods[i].rev = b

RollFine(b) == Roll(b) /\ FirstRun(b) /\ Annotated /\ NotAhead(b)

\* The inductive invariant, and the one while there is one edit at most.
Fine == TypeOK /\ ((OneTemplate /\ Quiet) \/ \E b \in Revisions : RollFine(b))
FineOnce ==
  TypeOK /\ ((OneTemplate /\ Quiet) \/ (RollFine(F) /\ (edits > 0 => want.tmpl = F)))

\* What the walk does to one annotation.
LEMMA WalkEvicts ==
  ASSUME TypeOK, NEW k \in Ordinals
  PROVE  \/ WalkResult.evict[k] \in {evict[k], "none"}
         \/ /\ WalkResult.evict[k] = "begun" /\ evict[k] = "none" /\ k \in Leading
            /\ k \in Pending /\ Exists(k) /\ pods[k].rev # pass.old.status.updateRev
<1> DEFINE i == CHOOSE i \in Stop : TRUE
<1>1. Ended[k] \in {evict[k], "none"}
  BY DEF Ended
<1>2. CASE Stop = {} \/ ~Exists(i) \/ pods[i].rev = pass.old.status.updateRev
  BY <1>1, <1>2 DEF WalkResult, Walk
<1>3. CASE Stop # {} /\ Exists(i) /\ pods[i].rev # pass.old.status.updateRev
  <2>1. WalkResult = CASE ReadyToUpgrade(i) -> Walk({i}, Ended)
           [] ~ReadyToUpgrade(i) /\ evict[i] = "none" ->
                Walk({pass.old.spec.partition}, [Ended EXCEPT ![i] = "begun"])
           [] ~ReadyToUpgrade(i) /\ evict[i] # "none" -> Walk({}, Ended)
    BY <1>3 DEF WalkResult
  <2>2. CASE ReadyToUpgrade(i) \/ evict[i] # "none"
    BY <1>1, <2>1, <2>2 DEF Walk
  <2>3. CASE ~ReadyToUpgrade(i) /\ evict[i] = "none"
    <3>1. WalkResult.evict = [Ended EXCEPT ![i] = "begun"]
      BY <2>1, <2>3 DEF Walk
    <3>2. CASE k # i
      BY <1>1, <3>1, <3>2 DEF Ended
    <3>3. CASE k = i
      <4>1. WalkResult.evict[k] = "begun"
        BY <3>1, <3>3 DEF Ended
      <4>2. k \in Stop /\ k \in Leading
        BY <1>3, <2>3, <3>3 DEF ReadyToUpgrade
      <4>3. QED
        BY <1>3, <2>3, <3>3, <4>1, <4>2 DEF Stop
    <3>4. QED
      BY <3>2, <3>3
  <2>4. QED
    BY <2>2, <2>3
<1>4. QED
  BY <1>2, <1>3

\* And so a pass: it takes annotations away, and begins the eviction of one store that
\* is still to be upgraded.
LEMMA UpgradeEvicts ==
  ASSUME TypeOK, Upgrade, NEW k \in Ordinals
  PROVE  \/ evict'[k] \in {evict[k], "none"}
         \/ /\ evict'[k] = "begun" /\ evict[k] = "none" /\ k \in Leading
            /\ k \in Pending /\ Exists(k) /\ pods[k].rev # pass.old.status.updateRev
<1>1. \A u \in AfterUpgrade : u.evict = evict \/ u.evict = WalkResult.evict
  BY DEF AfterUpgrade, Upgraded
<1>2. evict' = evict \/ evict' = WalkResult.evict
  BY <1>1 DEF Upgrade, RequestFails
<1>3. QED
  BY <1>2, WalkEvicts

LEMMA DeployedFine ==
  ASSUME Deployed
  PROVE  RollFine(F) /\ want.tmpl = F
<1>1. /\ pods = [i \in Ordinals |-> IF i < Replicas THEN [rev |-> F, st |-> "up"] ELSE NoPod]
      /\ evict = NotEvicting
  BY DEF Deployed, StoreInit, F
<1>2. \A i \in Ordinals : /\ Exists(i) <=> i < Replicas
                          /\ i < Replicas => Ready(i) /\ pods[i].rev = F
  BY <1>1 DEF Exists, Ready, NoPod
<1>3. \A i, j \in Ordinals : i < Replicas /\ j < i => j < Replicas
  BY MemberOrdinals
<1>4. FirstRun(F)
  BY <1>2, <1>3 DEF FirstRun
<1>5. Annotated /\ NotAhead(F)
  BY <1>1 DEF Annotated, NotAhead, Unevicted, NotEvicting
<1>6. Roll(F) /\ want.tmpl = F
  BY DeployedRolls
<1>7. QED
  BY <1>4, <1>5, <1>6 DEF RollFine

LEMMA FineInit == Init => FineOnce
<1>1. Init => TypeOK
  BY InitType
<1>2. ASSUME Created
      PROVE  OneTemplate /\ Quiet
  <2>1. OneTemplate
    BY <1>2, CreatedOnce
  <2>2. Quiet
    BY <1>2
    DEF Created, ControlInit, StsInit, StoreInit, Quiet, Plain, Unevicted, NotEvicting, NoSet,
        NoStatus, NoRequest, Writing
  <2>3. QED
    BY <2>1, <2>2
<1>3. QED
  BY <1>1, <1>2, DeployedFine DEF Init, FineOnce

\* The number of stores asked for never falls below the number there is.
LEMMA ScaledGrows ==
  ASSUME TypeOK, NEW u \in AfterUpgrade, pass.old.spec.replicas >= Replicas
  PROVE  Scaled(u.new).replicas >= Replicas
<1>1. pass.old.spec.replicas \in Nat /\ Replicas \in Nat /\ u.new \in Config
  BY Kinds, MemberOrdinals, UpdatesType DEF Config
<1>2. Scaled(u.new).replicas \in {pass.old.spec.replicas, pass.old.spec.replicas + 1}
  BY <1>1 DEF Scaled, Config
<1>3. QED
  BY <1>1, <1>2

LEMMA QuietStep ==
  ASSUME TypeOK, OneTemplate, Quiet, [Next]_vars
  PROVE  Quiet'
<1> USE DEF Quiet
<1>1. CASE CreateSet
  <2>1. /\ UNCHANGED <<cache, req, want, evict, pc, pass>> /\ ~cache.exists
        /\ UNCHANGED sts \/ sts' = Stored(NewSet(want.replicas, want.tmpl),
                                          NewSet(want.replicas, want.tmpl))
    BY <1>1 DEF CreateSet, CreateStatefulSet, setVars, storeVars, userVars, passVars
  <2>2. /\ NewSet(want.replicas, want.tmpl) \in Config
        /\ NewSet(want.replicas, want.tmpl).replicas = Replicas
    BY <2>1, NewSetType DEF NewSet, TypeOK
  <2>3. sts'.status = sts.status /\ (sts'.exists => sts' = sts \/ sts'.spec.replicas = Replicas)
    BY <2>1, <2>2, StoredSet
  <2>4. Plain(sts)'
    BY <2>3, MemberOrdinals DEF Plain
  <2>5. QED
    BY <2>1, <2>4 DEF Unevicted, Plain, Writing
<1>2. CASE SyncStatus
  <2>1. /\ UNCHANGED <<sts, cache, req, want, evict>> /\ cache.exists /\ pc = "idle"
        /\ pc' = "idle" \/ pass'.old = cache
    BY <1>2 DEF SyncStatus, userVars
  <2>2. QED
    BY <2>1 DEF Unevicted, Plain, Writing
<1>3. CASE Upgrade
  <2>1. UNCHANGED <<sts, want>> /\ pc = "upgrade" /\ pc' = "idle"
    BY <1>3 DEF Upgrade, userVars, setVars, SubmitUpdate, RequestFails
  <2>2. Unevicted'
    <3> SUFFICES ASSUME NEW k \in Ordinals, evict'[k] \notin {evict[k], "none"}
                 PROVE  FALSE
      BY DEF Unevicted
    <3>1. k \in Pending /\ Exists(k) /\ pods[k].rev # pass.old.status.updateRev
      BY <1>3, UpgradeEvicts
    <3>2. pods[k].rev = F /\ k < pass.old.status.replicas
      BY <3>1 DEF OneTemplate, Pending
    <3>3. pass.old.status.updateRev # 0
      BY <2>1, <3>2, MemberOrdinals DEF Plain
    <3>4. QED
      BY <2>1, <3>1, <3>2, <3>3 DEF Plain
  <2>3. CASE UNCHANGED <<cache, req>>
    BY <2>1, <2>2, <2>3 DEF Plain, Writing
  <2>4. ASSUME NEW u \in AfterUpgrade, SubmitUpdate(Scaled(u.new))
        PROVE  Quiet'
    <3>1. Scaled(u.new) \in Config /\ Scaled(u.new).replicas >= Replicas
      BY <2>1, UpdatesType, ScaledGrows DEF Plain
    <3>2. /\ req'.spec = Scaled(u.new) /\ cache'.exists = cache.exists
          /\ cache'.status = cache.status
          /\ cache'.spec.replicas \in {cache.spec.replicas, Scaled(u.new).replicas}
      BY <2>4, <3>1, Submitted
    <3>3. Plain(cache)'
      BY <3>1, <3>2 DEF Plain
    <3>4. QED
      BY <2>1, <2>2, <3>1, <3>2, <3>3 DEF Plain, Writing
  <2>5. QED
    BY <1>3, <2>3, <2>4 DEF Upgrade, setVars, RequestFails
<1>4. CASE UpdateStatefulSet /\ UNCHANGED storeVars
  <2>1. /\ Writing /\ UNCHANGED <<cache, want, evict, pc, pass>>
        /\ Writing' => req'.spec = req.spec
        /\ \/ UNCHANGED sts
           \/ sts' = Stored(req.spec, req.applied)
    BY <1>4, UpdateStep DEF storeVars, userVars, passVars
  <2>2. /\ Stored(req.spec, req.applied).exists
        /\ Stored(req.spec, req.applied).spec = req.spec
        /\ Stored(req.spec, req.applied).status = sts.status
    BY StoredSet DEF TypeOK, ControlTypeOK
  <2>3. Plain(sts)' /\ (sts.exists => sts'.exists)
    BY <2>1, <2>2 DEF Plain
  <2>4. QED
    BY <2>1, <2>3 DEF Unevicted, Plain
<1>5. CASE Kubernetes(Environment)
  <2>1. /\ UNCHANGED <<req, want, pc, pass>> /\ Environment
        /\ \A i \in Ordinals : evict'[i] \in {evict[i], "none"}
    BY <1>5 DEF Kubernetes, userVars, passVars
  <2>2. Unevicted'
    BY <2>1 DEF Unevicted
  <2>3. CASE ObserveStatus
    <3>1. UNCHANGED cache /\ sts.exists /\ sts'.exists /\ sts'.spec = sts.spec
          /\ sts'.status = ComputedStatus
      BY <2>3, Kinds DEF ObserveStatus, SetObject
    <3>2. sts'.status.updateRev = F
      BY <3>1 DEF ComputedStatus, OneTemplate
    <3>3. QED
      BY <2>1, <2>2, <3>1, <3>2, MemberOrdinals DEF Plain, Writing
  <2>4. CASE DeliverSet
    BY <2>1, <2>2, <2>4 DEF DeliverSet, Plain, Writing
  <2>5. ASSUME NEW i \in Ordinals, PodStep(i)
        PROVE  Quiet'
    <3>1. UNCHANGED <<sts, cache>>
      BY <2>5, OnePod
    <3>2. QED
      BY <2>1, <2>2, <3>1 DEF Plain, Writing
  <2>6. QED
    BY <2>1, <2>3, <2>4, <2>5, EnvironmentSteps
<1>6. CASE PDChanges \/ \E i \in Ordinals : TimePasses(i)
  <2>1. ~\E i \in Ordinals : TimePasses(i)
    BY DEF TimePasses, Unevicted
  <2>2. QED
    BY <1>6, <2>1 DEF PDChanges, setVars, userVars, passVars, Plain, Unevicted, Writing
<1>7. CASE Restart
  BY <1>7 DEF Restart, userVars, NoRequest, Writing, Plain, Unevicted
<1>8. CASE EditSpec
  BY <1>8 DEF EditSpec, OneTemplate
<1>9. CASE UNCHANGED vars
  BY <1>9 DEF vars, setVars, storeVars, userVars, passVars, Plain, Unevicted, Writing
<1>10. QED
  BY <1>1, <1>2, <1>3, <1>4, <1>5, <1>6, <1>7, <1>8, <1>9 DEF Next, Pass

\* Only Kubernetes touches the pods.
LEMMA OnlyKubernetes ==
  ASSUME TypeOK, [Next]_vars, ~Kubernetes(Environment)
  PROVE  UNCHANGED pods
  BY UpdateStep
  DEF Next, Pass, CreateSet, CreateStatefulSet, SyncStatus, Upgrade, SubmitUpdate, RequestFails,
      PDChanges, TimePasses, Restart, EditSpec, vars, setVars

\* And, of the rest, only the walk and time the annotations.
LEMMA OnlyWalk ==
  ASSUME [Next]_vars, ~Kubernetes(Environment), ~Upgrade,
         ~\E i \in Ordinals : TimePasses(i)
  PROVE  UNCHANGED evict
  BY DEF Next, Pass, CreateSet, SyncStatus, PDChanges, Restart, EditSpec, vars, storeVars

LEMMA FirstRunStep ==
  ASSUME NEW b \in Revisions, MaxCrashes = 0, TypeOK, Roll(b), FirstRun(b), [Next]_vars
  PROVE  FirstRun(b)'
<1>1. CASE UNCHANGED pods
  BY <1>1 DEF FirstRun, Exists, Ready
<1>2. ASSUME NEW i \in Ordinals, PodStep(i)
      PROVE  FirstRun(b)'
  <2>1. /\ pods \in [Ordinals -> [rev : Revisions \cup {0}, st : PodStates]]
        /\ \A j \in Ordinals : j # i => pods'[j] = pods[j]
    BY <1>2, OnePod, Kinds
  <2>2. CASE CreatePod(i)
    <3>1. ~Exists(i) /\ pods'[i].rev # b
      BY <2>1, <2>2, CreatedAt DEF CreatePod
    <3>2. QED
      BY <2>1, <3>1 DEF FirstRun, Exists, Ready
  <2>3. CASE DeleteForUpdate(i) \/ DeleteCondemned(i)
    <3>1. /\ ~Exists(i)'
          /\ \A j \in Ordinals : i < j /\ Exists(j) => pods[j].rev # b
      <4>1. ~Exists(i)'
        BY <2>1, <2>3 DEF DeleteForUpdate, DeleteCondemned, Exists, NoPod
      <4>2. \A j \in Ordinals : Exists(j) => j < Replicas
        BY DEF Roll, Stores
      <4>3. QED
        BY <2>3, <4>1, <4>2, DeletedAt
    <3>2. \A j \in Ordinals : Exists(j)' /\ pods'[j].rev = b
            => Exists(j) /\ pods[j].rev = b /\ j # i /\ ~(i < j) /\ pods'[j] = pods[j]
      BY <2>1, <3>1 DEF Exists
    <3>3. QED
      BY <2>1, <3>2 DEF FirstRun, Exists, Ready
  <2>4. CASE StartPod(i) \/ MemberUp(i)
    <3>1. /\ Exists(i) /\ Exists(i)' /\ pods'[i].rev = pods[i].rev
          /\ MemberUp(i) => Ready(i)'
          /\ StartPod(i) => ~Ready(i)
      BY <2>1, <2>4 DEF StartPod, MemberUp, Exists, Ready
    <3>2. \A j \in Ordinals : /\ Exists(j)' <=> Exists(j)
                              /\ pods'[j].rev = pods[j].rev
                              /\ Ready(j) => Ready(j)'
      BY <2>1, <2>4, <3>1 DEF Exists, Ready
    <3>3. QED
      BY <3>2 DEF FirstRun
  <2>5. CASE MemberCrash(i)
    BY <2>5 DEF MemberCrash, TypeOK, ControlTypeOK, StsTypeOK
  <2>6. QED
    BY <1>2, <2>2, <2>3, <2>4, <2>5 DEF PodStep, BringUp
<1>3. CASE Kubernetes(Environment)
  <2>1. ObserveStatus \/ DeliverSet => UNCHANGED pods
    BY DEF ObserveStatus, DeliverSet
  <2>2. QED
    BY <1>1, <1>2, <1>3, <2>1, EnvironmentSteps DEF Kubernetes
<1>4. CASE ~Kubernetes(Environment)
  BY <1>1, <1>4, OnlyKubernetes
<1>5. QED
  BY <1>3, <1>4

LEMMA AnnotatedStep ==
  ASSUME TypeOK, Annotated, [Next]_vars
  PROVE  Annotated'
<1> USE DEF Annotated
<1>1. CASE Kubernetes(Environment)
  BY <1>1 DEF Kubernetes, Exists
<1>2. CASE ~Kubernetes(Environment)
  <2>1. UNCHANGED pods
    BY <1>2, OnlyKubernetes
  <2>2. CASE Upgrade
    <3>1. \A k \in Ordinals : evict'[k] # "none" => k \in Leading /\ Exists(k)
      BY <2>2, UpgradeEvicts
    <3>2. QED
      BY <2>1, <3>1 DEF Exists
  <2>3. ASSUME NEW i \in Ordinals, TimePasses(i)
        PROVE  Annotated'
    BY <2>1, <2>3, Kinds DEF TimePasses, Eviction, Exists
  <2>4. CASE UNCHANGED evict
    BY <2>1, <2>4 DEF Exists
  <2>5. QED
    BY <1>2, <2>2, <2>3, <2>4, OnlyWalk
<1>3. QED
  BY <1>1, <1>2

\* As long as a pass has the old update revision, none of the stores it finds is upgraded.
LEMMA PendingOld ==
  ASSUME NEW b \in Revisions, TypeOK, Roll(b), pc = "upgrade", NEW k \in Ordinals, Exists(k),
         pass.old.status.updateRev = b \/ pods[k].rev # pass.old.status.updateRev
  PROVE  pods[k].rev = b
<1>1. pods[k].rev \in {b, sts.spec.tmpl}
  BY DEF Roll, Stores
<1>2. CASE pass.old.status.updateRev = b
  BY <1>1, <1>2, PassOf DEF Roll, HeldBack
<1>3. CASE pass.old.status.updateRev # b
  BY <1>1, <1>3, PassOf
<1>4. QED
  BY <1>2, <1>3

LEMMA NotAheadStep ==
  ASSUME NEW b \in Revisions, TypeOK, Roll(b), Annotated, NotAhead(b), [Next]_vars
  PROVE  NotAhead(b)'
<1> USE DEF NotAhead
<1>1. sts.status.updateRev = b => cache.status.updateRev = b
  BY DEF Roll, Copies, Behind
<1>2. CASE Kubernetes(Environment)
  <2>1. /\ UNCHANGED <<pc, pass>> /\ Environment
        /\ \A i \in Ordinals : /\ evict'[i] \in {evict[i], "none"}
                               /\ evict'[i] # "none" => Exists(i)'
    BY <1>2 DEF Kubernetes, passVars, Exists
  <2>2. Unevicted => Unevicted'
    BY <2>1 DEF Unevicted
  <2>3. UNCHANGED cache \/ cache' = sts
    BY <2>1, EnvironmentSteps, OnePod DEF ObserveStatus, DeliverSet
  <2>4. \A i \in Ordinals : Exists(i) /\ Exists(i)' => pods'[i].rev = pods[i].rev
    <3>1. CASE ObserveStatus \/ DeliverSet
      BY <3>1 DEF ObserveStatus, DeliverSet
    <3>2. ASSUME NEW j \in Ordinals, PodStep(j)
          PROVE  \A i \in Ordinals : Exists(i) /\ Exists(i)' => pods'[i].rev = pods[i].rev
      BY <3>2, OnePod
    <3>3. QED
      BY <2>1, <3>1, <3>2, EnvironmentSteps
  <2>5. \A i \in Ordinals : evict'[i] # "none" => pods'[i].rev = b
    BY <2>1, <2>4 DEF Annotated
  <2>6. QED
    BY <1>1, <2>1, <2>2, <2>3, <2>5
<1>3. CASE Upgrade
  <2>1. pc = "upgrade" /\ pc' = "idle" /\ cache'.status = cache.status /\ UNCHANGED pods
    <3>1. \A u \in AfterUpgrade :
            SubmitUpdate(Scaled(u.new)) => cache'.status = cache.status /\ UNCHANGED pods
      BY UpdatesType, Submitted
    <3>2. QED
      BY <1>3, <3>1 DEF Upgrade, setVars, RequestFails
  <2>2. ASSUME cache.status.updateRev = b, NEW k \in Ordinals
        PROVE  evict'[k] = "none"
    <3>1. pass.old.status.updateRev = b /\ evict[k] = "none"
      BY <2>1, <2>2 DEF Roll, Copies, Behind, Unevicted
    <3>2. Exists(k) => pods[k].rev = b
      BY <2>1, <3>1, PendingOld
    <3>3. QED
      BY <1>3, <3>1, <3>2, UpgradeEvicts
  <2>3. ASSUME NEW k \in Ordinals, evict'[k] # "none"
        PROVE  pods[k].rev = b
    <3>1. CASE evict[k] # "none"
      BY <3>1
    <3>2. CASE evict[k] = "none"
      <4>1. Exists(k) /\ pods[k].rev # pass.old.status.updateRev
        BY <1>3, <2>3, <3>2, UpgradeEvicts
      <4>2. QED
        BY <2>1, <4>1, PendingOld
    <3>3. QED
      BY <3>1, <3>2
  <2>4. QED
    BY <2>1, <2>2, <2>3 DEF Unevicted
<1>4. ASSUME NEW i \in Ordinals, TimePasses(i)
      PROVE  NotAhead(b)'
  <2>1. ~Unevicted /\ UNCHANGED <<cache, pods, pc, pass>>
    BY <1>4 DEF TimePasses, Unevicted, setVars, passVars
  <2>2. \A k \in Ordinals : evict'[k] # "none" => evict[k] # "none"
    BY <1>4, Kinds DEF TimePasses, Eviction
  <2>3. QED
    BY <2>1, <2>2
<1>5. CASE SyncStatus
  <2>1. /\ UNCHANGED <<cache, pods, evict>> /\ pc = "idle"
        /\ pc' = "idle" \/ pass'.old = cache
    BY <1>5 DEF SyncStatus
  <2>2. QED
    BY <2>1 DEF Unevicted
<1>6. CASE Restart
  BY <1>1, <1>6 DEF Restart, Unevicted
<1>7. CASE UNCHANGED <<cache, pods, evict, pc, pass>>
  BY <1>7 DEF Unevicted
<1>8. CASE CreateSet \/ PDChanges \/ EditSpec \/ UNCHANGED vars
  BY <1>7, <1>8
  DEF CreateSet, CreateStatefulSet, PDChanges, EditSpec, vars, setVars, storeVars, passVars
<1>9. CASE UpdateStatefulSet /\ UNCHANGED storeVars
  BY <1>7, <1>9, UpdateStep DEF storeVars, passVars
<1>10. QED
  BY <1>2, <1>3, <1>4, <1>5, <1>6, <1>8, <1>9 DEF Next, Pass

\* A step keeps what is known of a roll, an edit if it keeps the templates known.
LEMMA RollFineStep ==
  ASSUME NEW b \in Revisions, MaxCrashes = 0, TypeOK, RollFine(b), [Next]_vars,
         EditSpec => Roll(b)'
  PROVE  RollFine(b)'
  BY RollStep, FirstRunStep, AnnotatedStep, NotAheadStep DEF RollFine

\* When the one edit comes, the cluster still is as it was deployed.
LEMMA EditQuiet ==
  ASSUME TypeOK, RollFine(F), EditSpec, want.tmpl = F
  PROVE  Quiet'
<1> USE DEF RollFine
<1>1. UNCHANGED <<sts, cache, req, evict, pc, pass>>
  BY DEF EditSpec, setVars, passVars
<1>2. sts.spec.tmpl = F
  BY DEF Roll, Asked
<1>3. /\ cache.spec.tmpl = F /\ cache.status.updateRev = F /\ sts.status.updateRev = F
      /\ cache.exists /\ sts.exists
      /\ cache.spec.replicas = Replicas /\ sts.spec.replicas = Replicas
      /\ Writing => req.spec.replicas = Replicas
  BY <1>2 DEF Roll, Copies, Running, Behind
<1>4. pc = "upgrade" => /\ pass.old.status.updateRev = F /\ pass.old.exists
                        /\ pass.old.spec.replicas = Replicas
  BY <1>3 DEF Roll, Copies, Running, Behind
<1>5. Unevicted
  BY <1>3 DEF NotAhead
<1>6. QED
  BY <1>1, <1>3, <1>4, <1>5, MemberOrdinals DEF Quiet, Plain, Unevicted, Writing

LEMMA FineStep ==
  ASSUME MaxEdits <= 1, MaxCrashes = 0, \A a \in Asks : a.tmpl = F \/ a.replicas = Replicas
  PROVE  FineOnce /\ [Next]_vars => FineOnce'
<1> SUFFICES ASSUME FineOnce, [Next]_vars PROVE FineOnce'
  OBVIOUS
<1> USE DEF FineOnce
<1>1. TypeOK /\ TypeOK'
  BY StepType
<1>2. CASE OneTemplate /\ Quiet
  BY <1>1, <1>2, OneTemplateStep, QuietStep
<1>3. CASE RollFine(F) /\ (edits > 0 => want.tmpl = F)
  <2>1. CASE EditSpec
    <3>1. want.tmpl = F /\ edits' = 0 /\ want' \in Asks
      BY <1>1, <1>3, <2>1 DEF EditSpec, TypeOK
    <3>2. CASE want'.tmpl = F
      <4>1. OneTemplate'
        BY <1>1, <1>3, <2>1, <3>1, <3>2, EditScales DEF RollFine
      <4>2. Quiet'
        BY <1>1, <1>3, <2>1, <3>1, EditQuiet
      <4>3. QED
        BY <1>1, <4>1, <4>2
    <3>3. CASE want'.replicas = Replicas
      <4>1. Roll(F)'
        BY <1>1, <1>3, <2>1, <3>1, <3>3, EditRolls, MemberOrdinals DEF RollFine
      <4>2. QED
        BY <1>1, <1>3, <3>1, <4>1, RollFineStep, MemberOrdinals
    <3>4. QED
      BY <3>1, <3>2, <3>3
  <2>2. CASE ~EditSpec
    <3>1. RollFine(F)'
      BY <1>1, <1>3, <2>2, RollFineStep, MemberOrdinals
    <3>2. QED
      BY <1>1, <1>3, <2>2, <3>1, OnlyEdits
  <2>3. QED
    BY <2>1, <2>2
<1>4. QED
  BY <1>2, <1>3

LEMMA FineOnceFine == FineOnce => Fine
  BY MemberOrdinals DEF FineOnce, Fine

\* The states of the set, mapped to the abstract ones.
LEMMA RefinedInit == Init => Abstract!Init
<1>0. \A i \in Members : i \in Ordinals /\ i < Replicas
  BY MemberOrdinals DEF Members, Ordinals
<1>1. ASSUME StoreInit(0) \/ StoreInit(MaxEdits)
      PROVE  {i \in Members : evict[i] = "expired"} = {}
  BY <1>0, <1>1 DEF StoreInit, NotEvicting
<1>2. ASSUME Created
      PROVE  Abstract!Init
  <2>1. /\ ~sts.exists /\ pods = [i \in Ordinals |-> NoPod]
        /\ {i \in Members : evict[i] = "expired"} = {}
    BY <1>1, <1>2 DEF Created, ControlInit, StsInit, NoSet
  <2>2. \A i \in Members : ~Exists(i) /\ ~Ready(i)
    BY <1>0, <2>1 DEF Exists, Ready, NoPod
  <2>3. /\ [i \in Members |-> IF Exists(i) THEN pods[i].rev ELSE 0] = [i \in Members |-> 0]
        /\ {i \in Members : Ready(i)} = {}
    BY <2>2
  <2>4. QED
    BY <2>1, <2>3 DEF Abstract!Init
<1>3. ASSUME Deployed
      PROVE  Abstract!Init
  <2>1. /\ sts.exists /\ sts.spec.tmpl = FirstRevision
        /\ pods = [i \in Ordinals |-> IF i < Replicas THEN [rev |-> FirstRevision, st |-> "up"]
                                      ELSE NoPod]
        /\ {i \in Members : evict[i] = "expired"} = {}
    BY <1>1, <1>3 DEF Deployed, NewSet
  <2>2. \A i \in Members : Exists(i) /\ Ready(i) /\ pods[i].rev = FirstRevision
    BY <1>0, <2>1 DEF Exists, Ready
  <2>3. /\ [i \in Members |-> IF Exists(i) THEN pods[i].rev ELSE 0]
             = [i \in Members |-> FirstRevision]
        /\ {i \in Members : Ready(i)} = Members
    BY <2>2
  <2>4. QED
    BY <2>1, <2>3 DEF Abstract!Init
<1>4. QED
  BY <1>2, <1>3 DEF Init

\* The template of the set.
Template == IF sts.exists THEN sts.spec.tmpl ELSE FirstRevision

\* A step that leaves the template and the pods alone, and changes no annotation to or
\* from "expired", does nothing.
LEMMA RefinedFrame ==
  ASSUME Template' = Template, UNCHANGED pods,
         \A i \in Members : evict'[i] = "expired" <=> evict[i] = "expired"
  PROVE  UNCHANGED Abstract!vars
  BY DEF Abstract!vars, Template, Exists, Ready

\* A pod takes its annotation along, and no other.
LEMMA RefinedEviction ==
  ASSUME TypeOK, Annotated, NEW i \in Ordinals, Kubernetes(PodStep(i))
  PROVE  /\ UNCHANGED sts
         /\ \A j \in Ordinals : j # i => pods'[j] = pods[j] /\ evict'[j] = evict[j]
         /\ Exists(i)' => evict'[i] = evict[i]
         /\ ~Exists(i)' => evict'[i] = "none"
<1>1. UNCHANGED sts /\ \A j \in Ordinals : j # i => pods'[j] = pods[j]
  BY OnePod DEF Kubernetes
<1>2. \A j \in Ordinals : evict'[j] = IF Exists(j)' THEN evict[j] ELSE "none"
  BY DEF Kubernetes, Exists
<1>3. QED
  BY <1>1, <1>2 DEF Annotated, Exists

\* What both kinds of cluster have in common.
LEMMA FinePods ==
  ASSUME Fine
  PROVE  /\ TypeOK /\ Annotated
         /\ \A i \in Ordinals : Exists(i) => pods[i].rev # 0
<1>1. TypeOK /\ Annotated
  BY DEF Fine, RollFine, Quiet, Unevicted, Annotated
<1>2. CASE OneTemplate
  BY <1>1, <1>2, MemberOrdinals DEF OneTemplate
<1>3. ASSUME NEW b \in Revisions, Roll(b)
      PROVE  \A i \in Ordinals : Exists(i) => pods[i].rev # 0
  <2>1. want.tmpl \in Revisions
    BY <1>1, Kinds
  <2>2. sts.spec.tmpl \in {b, want.tmpl}
    BY <1>3 DEF Roll, Asked
  <2>3. QED
    BY <1>1, <1>3, <2>1, <2>2, MemberOrdinals DEF Roll, Stores
<1>4. QED
  BY <1>1, <1>2, <1>3 DEF Fine, RollFine

\* A store is created of the template of the set, or starts, or serves.
LEMMA RefinedBringUp ==
  ASSUME TypeOK, Annotated, NEW i \in Ordinals, Kubernetes(PodStep(i)), BringUp(i),
         Exists(i) => pods[i].rev # 0,
         CreatePod(i) => RevisionFor(i) = Template
  PROVE  Abstract!Next \/ UNCHANGED Abstract!vars
<1>1. /\ UNCHANGED sts /\ Template' = Template
      /\ pods \in [Ordinals -> [rev : Revisions \cup {0}, st : PodStates]]
      /\ \A j \in Ordinals : j # i => pods'[j] = pods[j]
  BY RefinedEviction, Kinds DEF Template
<1>2. /\ \A j \in Members : j \in Ordinals
      /\ \A j \in Ordinals : j \in Members <=> j < Replicas
  BY MemberOrdinals DEF Members, Ordinals
<1>3. /\ Exists(i)'
      /\ \A j \in Ordinals : evict'[j] = evict[j]
  <2>1. Exists(i)'
    BY <1>1 DEF BringUp, CreatePod, StartPod, MemberUp, Exists
  <2>2. QED
    BY <2>1, RefinedEviction
<1>4. {j \in Members : evict[j] = "expired"}' = {j \in Members : evict[j] = "expired"}
  BY <1>2, <1>3
<1>5. CASE CreatePod(i)
  <2>1. /\ pods' = [pods EXCEPT ![i] = [rev |-> Template, st |-> "starting"]]
        /\ ~Exists(i)
    BY <1>5 DEF CreatePod
  <2>2. \A j \in Ordinals : /\ Ready(j)' = Ready(j)
                            /\ j # i => Exists(j)' = Exists(j) /\ pods'[j].rev = pods[j].rev
    BY <1>1, <2>1 DEF Exists, Ready
  <2>3. {j \in Members : Ready(j)}' = {j \in Members : Ready(j)}
    BY <1>2, <2>2
  <2>4. CASE i \in Members
    <3>1. [j \in Members |-> IF Exists(j) THEN pods[j].rev ELSE 0]'
            = [[j \in Members |-> IF Exists(j) THEN pods[j].rev ELSE 0] EXCEPT ![i] = Template]
      BY <1>1, <1>2, <1>3, <2>1, <2>2, <2>4
    <3>2. Abstract!BringBack(i)
      BY <1>1, <1>4, <2>1, <2>3, <2>4, <3>1 DEF Abstract!BringBack, Template
    <3>3. QED
      BY <2>4, <3>2 DEF Abstract!Next
  <2>5. CASE i \notin Members
    <3>1. [j \in Members |-> IF Exists(j) THEN pods[j].rev ELSE 0]'
            = [j \in Members |-> IF Exists(j) THEN pods[j].rev ELSE 0]
      BY <1>2, <2>2, <2>5
    <3>2. QED
      BY <1>1, <1>4, <2>3, <3>1 DEF Abstract!vars, Template
  <2>6. QED
    BY <2>4, <2>5
<1>6. CASE StartPod(i) \/ MemberUp(i)
  <2>1. /\ Exists(i) /\ pods'[i].rev = pods[i].rev
        /\ Ready(i) => Ready(i)'
    BY <1>1, <1>6 DEF StartPod, MemberUp, Exists, Ready
  <2>2. \A j \in Ordinals : /\ Exists(j)' = Exists(j) /\ pods'[j].rev = pods[j].rev
                            /\ j # i => Ready(j)' = Ready(j)
    BY <1>1, <1>3, <2>1 DEF Exists, Ready
  <2>3. [j \in Members |-> IF Exists(j) THEN pods[j].rev ELSE 0]'
          = [j \in Members |-> IF Exists(j) THEN pods[j].rev ELSE 0]
    BY <1>2, <2>2
  <2>4. CASE i \in Members /\ ~Ready(i) /\ Ready(i)'
    <3>1. {j \in Members : Ready(j)}' = {j \in Members : Ready(j)} \cup {i}
      BY <1>2, <2>2, <2>4
    <3>2. [j \in Members |-> IF Exists(j) THEN pods[j].rev ELSE 0][i] # 0
      BY <2>1, <2>4
    <3>3. Abstract!Serve(i)
      BY <1>1, <1>4, <2>3, <3>1, <3>2 DEF Abstract!Serve, Template
    <3>4. QED
      BY <2>4, <3>3 DEF Abstract!Next
  <2>5. CASE i \notin Members \/ (Ready(i) <=> Ready(i)')
    <3>1. {j \in Members : Ready(j)}' = {j \in Members : Ready(j)}
      BY <1>2, <2>2, <2>5
    <3>2. QED
      BY <1>1, <1>4, <2>3, <3>1 DEF Abstract!vars, Template
  <2>6. QED
    BY <2>1, <2>4, <2>5
<1>7. QED
  BY <1>5, <1>6 DEF BringUp

\* A store is taken down for the new template below upgraded ones that run, and above
\* others that run; and one that leads has had its time.
LEMMA RefinedDelete ==
  ASSUME NEW b \in Revisions, TypeOK, Roll(b), FirstRun(b), Annotated, NEW i \in Ordinals,
         Kubernetes(PodStep(i)),
         DeleteForUpdate(i), \A j \in Ordinals : Exists(j) => pods[j].rev # 0
  PROVE  Abstract!TakeDown(i) /\ i \in Members
<1>1. /\ UNCHANGED sts /\ Template' = Template /\ Template = sts.spec.tmpl
      /\ pods' = [pods EXCEPT ![i] = NoPod]
      /\ pods \in [Ordinals -> [rev : Revisions \cup {0}, st : PodStates]]
  BY RefinedEviction, Kinds DEF Template, DeleteForUpdate
<1>2. /\ \A j \in Members : j \in Ordinals
      /\ \A j \in Ordinals : j \in Members <=> j < Replicas
  BY MemberOrdinals DEF Members, Ordinals
<1>3. /\ Exists(i) /\ i \in Members /\ sts.spec.partition <= i
      /\ sts.spec.tmpl # b /\ pods[i].rev = b
      /\ \A j \in Ordinals : i < j /\ j < Replicas => Ready(j) /\ pods[j].rev = sts.spec.tmpl
  BY <1>2, DeletedAt
<1>4. /\ \A j \in Ordinals : j # i => Exists(j)' = Exists(j) /\ Ready(j)' = Ready(j)
                                      /\ pods'[j].rev = pods[j].rev
      /\ ~Exists(i)' /\ ~Ready(i)'
  BY <1>1 DEF Exists, Ready, NoPod
<1>5. /\ evict'[i] # "expired"
      /\ \A j \in Ordinals : j # i => evict'[j] = evict[j]
  BY <1>4, RefinedEviction
<1>6. \A j \in Members : j # i => Ready(j)
  <2> SUFFICES ASSUME NEW j \in Members, j # i PROVE Ready(j)
    OBVIOUS
  <2>1. j \in Ordinals /\ j \in Nat /\ i \in Nat /\ j < Replicas
    BY <1>2, MemberOrdinals
  <2>2. CASE i < j
    BY <1>3, <2>1, <2>2
  <2>3. CASE j < i
    BY <1>3, <2>1, <2>3 DEF FirstRun
  <2>4. QED
    BY <2>1, <2>2, <2>3
<1>7. (Members \ {i}) \ {j \in Members : Ready(j)} \in {{}}
  BY <1>6
<1>8. i \in Leading => evict[i] = "expired"
  BY <1>3 DEF Roll, Evicted, Given
<1>9. \A j \in Members : j > i => Abstract!Renewed(j)
  <2> SUFFICES ASSUME NEW j \in Members, j > i PROVE Abstract!Renewed(j)
    OBVIOUS
  <2>1. Ready(j) /\ pods[j].rev = sts.spec.tmpl
    BY <1>2, <1>3, MemberOrdinals
  <2>2. Exists(j)
    BY <2>1 DEF Ready, Exists
  <2>3. QED
    BY <1>1, <2>1, <2>2 DEF Abstract!Renewed, Template
<1>10. /\ [j \in Members |-> IF Exists(j) THEN pods[j].rev ELSE 0][i] # 0
       /\ ~Abstract!Renewed(i)
  BY <1>1, <1>3 DEF Abstract!Renewed, Template
<1>11. /\ [j \in Members |-> IF Exists(j) THEN pods[j].rev ELSE 0]'
            = [[j \in Members |-> IF Exists(j) THEN pods[j].rev ELSE 0] EXCEPT ![i] = 0]
       /\ {j \in Members : Ready(j)}' = {j \in Members : Ready(j)} \ {i}
       /\ {j \in Members : evict[j] = "expired"}'
            = {j \in Members : evict[j] = "expired"} \ {i}
  <2>1. [j \in Members |-> IF Exists(j) THEN pods[j].rev ELSE 0]'
          = [[j \in Members |-> IF Exists(j) THEN pods[j].rev ELSE 0] EXCEPT ![i] = 0]
    BY <1>2, <1>3, <1>4
  <2>2. {j \in Members : Ready(j)}' = {j \in Members : Ready(j)} \ {i}
    BY <1>2, <1>4
  <2>3. {j \in Members : evict[j] = "expired"}' = {j \in Members : evict[j] = "expired"} \ {i}
    BY <1>2, <1>5
  <2>4. QED
    BY <2>1, <2>2, <2>3
<1>12. i \in Leading => i \in {j \in Members : evict[j] = "expired"}
  BY <1>3, <1>8
<1>13. QED
  BY <1>1, <1>3, <1>7, <1>9, <1>10, <1>11, <1>12 DEF Abstract!TakeDown, Template

\* The steps of one pod.
LEMMA RefinedPod ==
  ASSUME MaxCrashes = 0, Fine, NEW i \in Ordinals, Kubernetes(PodStep(i))
  PROVE  Abstract!Next \/ UNCHANGED Abstract!vars
<1>1. PodStep(i)
  BY DEF Kubernetes
<1>2. TypeOK /\ Annotated /\ \A j \in Ordinals : Exists(j) => pods[j].rev # 0
  BY FinePods
<1>3. CASE BringUp(i)
  <2>1. CreatePod(i) => RevisionFor(i) = Template
    <3>1. CASE OneTemplate
      BY <3>1, MemberOrdinals DEF OneTemplate, CreatePod, RevisionFor, Template
    <3>2. ASSUME NEW b \in Revisions, Roll(b), CreatePod(i)
          PROVE  RevisionFor(i) = Template
      BY <1>2, <3>2, CreatedAt DEF CreatePod, Template
    <3>3. QED
      BY <3>1, <3>2 DEF Fine, RollFine
  <2>2. QED
    BY <1>2, <1>3, <2>1, RefinedBringUp
<1>4. CASE MemberCrash(i)
  BY <1>2, <1>4 DEF MemberCrash, TypeOK, ControlTypeOK, StsTypeOK
<1>5. CASE DeleteForUpdate(i) \/ DeleteCondemned(i)
  <2>1. ASSUME NEW b \in Revisions, Roll(b), FirstRun(b)
        PROVE  Abstract!Next
    <3>1. DeleteForUpdate(i)
      BY <1>2, <1>5, <2>1, DeletedAt
    <3>2. QED
      BY <1>2, <2>1, <3>1, RefinedDelete DEF Abstract!Next
  <2>2. CASE OneTemplate /\ Quiet
    <3>1. DeleteCondemned(i) /\ sts.spec.replicas >= Replicas
      BY <1>5, <2>2 DEF OneTemplate, Quiet, Plain, DeleteForUpdate, DeleteCondemned
    <3>2. i \notin Members
      <4>1. sts.spec.replicas \in Nat /\ i >= sts.spec.replicas
        BY <1>2, <3>1, Kinds DEF DeleteCondemned, Config
      <4>2. QED
        BY <3>1, <4>1, MemberOrdinals DEF Members
    <3>3. \A j \in Members : j \in Ordinals /\ j # i
      BY <3>2, MemberOrdinals DEF Members, Ordinals
    <3>4. /\ UNCHANGED sts
          /\ \A j \in Members : /\ Exists(j)' = Exists(j) /\ Ready(j)' = Ready(j)
                                /\ pods'[j].rev = pods[j].rev /\ evict'[j] = evict[j]
      BY <1>2, <3>3, RefinedEviction DEF Exists, Ready
    <3>5. /\ [j \in Members |-> IF Exists(j) THEN pods[j].rev ELSE 0]'
               = [j \in Members |-> IF Exists(j) THEN pods[j].rev ELSE 0]
          /\ {j \in Members : Ready(j)}' = {j \in Members : Ready(j)}
          /\ {j \in Members : evict[j] = "expired"}' = {j \in Members : evict[j] = "expired"}
      BY <3>4
    <3>6. QED
      BY <3>4, <3>5 DEF Abstract!vars
  <2>3. QED
    BY <2>1, <2>2 DEF Fine, RollFine
<1>6. QED
  BY <1>1, <1>3, <1>4, <1>5 DEF PodStep

\* A template is stored when all stores are of the one before.
LEMMA RefinedUpdate ==
  ASSUME Fine, UpdateStatefulSet, UNCHANGED storeVars
  PROVE  Abstract!Ask \/ UNCHANGED Abstract!vars
<1>1. TypeOK
  BY DEF Fine
<1>2. /\ UNCHANGED <<pods, evict>> /\ Writing
      /\ \/ UNCHANGED sts
         \/ sts'.exists /\ sts'.spec = req.spec
  BY <1>1, UpdateStep, StoredSet DEF storeVars, TypeOK, ControlTypeOK
<1>3. CASE Template' = Template
  BY <1>2, <1>3, RefinedFrame
<1>4. CASE Template' # Template
  <2>1. sts'.exists /\ sts'.spec.tmpl = req.spec.tmpl
    BY <1>2, <1>4 DEF Template
  <2>2. PICK b \in Revisions : Roll(b)
    <3>1. ~OneTemplate
      BY <1>2, <1>4, <2>1 DEF OneTemplate, Template, F
    <3>2. QED
      BY <3>1 DEF Fine, RollFine
  <2>3. /\ sts.exists /\ sts.spec.tmpl = b /\ Template = b
        /\ req.spec.tmpl \in Revisions
    BY <1>1, <1>2, <1>4, <2>1, <2>2, Kinds, MemberOrdinals
    DEF Roll, Asked, Copies, Running, Template
  <2>4. \A i \in Members : Exists(i) /\ pods[i].rev = b
    <3>1. \A i \in Members : i \in Ordinals /\ i < Replicas
      BY MemberOrdinals DEF Members, Ordinals
    <3>2. QED
      BY <2>2, <2>3, <3>1 DEF Roll, TopDown, Stores
  <2>5. \A i \in Members : Abstract!Renewed(i)
    BY <2>3, <2>4 DEF Abstract!Renewed, Template
  <2>6. Template' \in Revisions
    BY <2>1, <2>3 DEF Template
  <2>7. QED
    BY <1>2, <2>5, <2>6 DEF Abstract!Ask, Template, Exists, Ready
<1>5. QED
  BY <1>3, <1>4

\* No pass takes the annotation away of a store that had its time: those it passes are
\* upgraded, and have none.
LEMMA RefinedUpgrade ==
  ASSUME Fine, Upgrade
  PROVE  UNCHANGED Abstract!vars
<1>1. TypeOK /\ UNCHANGED <<sts, pods>> /\ pc = "upgrade"
  BY DEF Fine, Upgrade, setVars, SubmitUpdate, RequestFails
<1>2. \A k \in Ordinals : evict'[k] = "expired" => evict[k] = "expired"
  BY <1>1, UpgradeEvicts
<1>3. ASSUME NEW k \in Ordinals, evict[k] = "expired"
      PROVE  evict'[k] = "expired"
  <2>1. PICK b \in Revisions : RollFine(b)
    BY <1>3 DEF Fine, Quiet, Unevicted
  <2>2. /\ pass.old.status.updateRev # b
        /\ pods[k].rev = b
    BY <1>1, <1>3, <2>1 DEF RollFine, NotAhead, Unevicted
  <2>3. WalkResult.evict[k] = "expired"
    BY <1>1, <1>3, <2>1, <2>2, PassOf, EvictionKept DEF RollFine
  <2>4. \A u \in AfterUpgrade : u.evict = evict \/ u.evict = WalkResult.evict
    BY DEF AfterUpgrade, Upgraded
  <2>5. evict' = evict \/ evict' = WalkResult.evict
    BY <2>4 DEF Upgrade, RequestFails
  <2>6. QED
    BY <1>3, <2>3, <2>5
<1>4. \A i \in Members : i \in Ordinals
  BY MemberOrdinals DEF Members, Ordinals
<1>5. QED
  BY <1>1, <1>2, <1>3, <1>4, RefinedFrame DEF Template

\* The time of an eviction is over.
LEMMA RefinedTime ==
  ASSUME Fine, NEW i \in Ordinals, TimePasses(i)
  PROVE  i \in Leading /\ Abstract!HandOver(i)
<1>1. TypeOK /\ Annotated
  BY FinePods
<1>2. i \in Leading /\ i \in Members
  BY <1>1, MemberOrdinals DEF Annotated, TimePasses, Members
<1>3. /\ UNCHANGED <<sts, pods>> /\ evict' = [evict EXCEPT ![i] = "expired"]
      /\ evict \in Eviction
  BY <1>1, Kinds DEF TimePasses, setVars
<1>4. \A j \in Members : j \in Ordinals
  BY MemberOrdinals DEF Members, Ordinals
<1>5. {j \in Members : evict[j] = "expired"}' = {j \in Members : evict[j] = "expired"} \cup {i}
  BY <1>2, <1>3, <1>4 DEF Eviction
<1>6. QED
  BY <1>2, <1>3, <1>5 DEF Abstract!HandOver, Exists, Ready

\* Every step is an abstract one, or stutters.
LEMMA RefinedStep ==
  ASSUME MaxCrashes = 0
  PROVE  Fine /\ [Next]_vars => [Abstract!Next]_(Abstract!vars)
<1> SUFFICES ASSUME Fine, [Next]_vars
             PROVE  Abstract!Next \/ UNCHANGED Abstract!vars
  OBVIOUS
<1>0. TypeOK /\ Annotated
  BY FinePods
<1>1. CASE CreateSet
  <2>1. OneTemplate
    BY <1>1 DEF Fine, RollFine, CreateSet, Roll, Copies, Running
  <2>2. NewSet(want.replicas, want.tmpl) \in Config
    BY <1>0, NewSetType DEF TypeOK
  <2>3. /\ UNCHANGED <<pods, evict>>
        /\ UNCHANGED sts \/ sts' = Stored(NewSet(want.replicas, want.tmpl),
                                          NewSet(want.replicas, want.tmpl))
    BY <1>1 DEF CreateSet, CreateStatefulSet, setVars, storeVars
  <2>4. Template' = Template
    BY <1>0, <2>1, <2>2, <2>3, StoredSet DEF OneTemplate, Template, NewSet, F
  <2>5. QED
    BY <2>3, <2>4, RefinedFrame
<1>2. CASE Upgrade
  BY <1>2, RefinedUpgrade
<1>3. CASE UpdateStatefulSet /\ UNCHANGED storeVars
  BY <1>3, RefinedUpdate DEF Abstract!Next
<1>4. CASE Kubernetes(Environment)
  <2>1. CASE ObserveStatus \/ DeliverSet
    <3>1. UNCHANGED pods /\ Template' = Template
      BY <1>0, <2>1, Kinds DEF ObserveStatus, DeliverSet, SetObject, Template
    <3>2. \A i \in Members : evict'[i] = evict[i]
      <4>1. \A i \in Members : i \in Ordinals
        BY MemberOrdinals DEF Members, Ordinals
      <4>2. QED
        BY <1>0, <1>4, <3>1, <4>1 DEF Kubernetes, Annotated, Exists
    <3>3. QED
      BY <3>1, <3>2, RefinedFrame
  <2>2. ASSUME NEW i \in Ordinals, PodStep(i)
        PROVE  Abstract!Next \/ UNCHANGED Abstract!vars
    <3>1. Kubernetes(PodStep(i))
      BY <1>4, <2>2 DEF Kubernetes
    <3>2. QED
      BY <3>1, RefinedPod
  <2>3. QED
    BY <1>4, <2>1, <2>2, EnvironmentSteps DEF Kubernetes
<1>5. ASSUME NEW i \in Ordinals, TimePasses(i)
      PROVE  Abstract!Next
  BY <1>5, RefinedTime DEF Abstract!Next
<1>6. CASE SyncStatus \/ PDChanges \/ Restart \/ EditSpec \/ UNCHANGED vars
  <2>1. UNCHANGED <<sts, pods, evict>>
    BY <1>6
    DEF SyncStatus, PDChanges, Restart, EditSpec, vars, setVars, storeVars, userVars
  <2>2. QED
    BY <2>1, RefinedFrame DEF Template
<1>7. QED
  BY <1>1, <1>2, <1>3, <1>4, <1>5, <1>6 DEF Next, Pass

\* The roll of the stores implements the abstract one: whatever conflicts, fails and
\* restarts, and whatever PD does meanwhile, each store is replaced once for a new
\* template, from the highest ordinal down, while all others run, and one that leads only
\* when its eviction has had its time; and no store is lost while others are added.  For
\* any number of stores, while no store crashes on its own.
\* store_member_manager.go, store_upgrader.go and store_scaler.go.
THEOREM RollRefines ==
  ASSUME MaxEdits <= 1, MaxCrashes = 0,
         \A a \in Asks : a.tmpl = FirstRevision \/ a.replicas = Replicas
  PROVE  Spec => ImplementsRollout
<1>0. \A a \in Asks : a.tmpl = F \/ a.replicas = Replicas
  BY DEF F
<1>1. FineOnce /\ [Next]_vars => FineOnce'
  BY <1>0, FineStep
<1>2. QED
  BY <1>1, FineInit, FineOnceFine, RefinedInit, RefinedStep, PTL
  DEF Spec, ImplementsRollout, Abstract!Spec

-----------------------------------------------------------------------------
(* The next roll *)

\* Once a roll is over and seen, the template it brought is the one the next leaves.
LEMMA NextRoll ==
  ASSUME NEW b \in Revisions, TypeOK, Roll(b), AtRest
  PROVE  want.tmpl \in Revisions /\ Roll(want.tmpl)
<1> DEFINE n == want.tmpl
<1> USE DEF Roll
<1>0. n \in Revisions
  BY Kinds
<1>1. /\ sts.spec.tmpl = n /\ sts.status.currentRev = n /\ sts.status.updateRev = n
      /\ cache.spec.tmpl = n /\ cache.status.currentRev = n /\ cache.status.updateRev = n
      /\ pc = "upgrade" => /\ pass.old.spec.tmpl = n /\ pass.old.status.currentRev = n
                           /\ pass.old.status.updateRev = n /\ pass.new.tmpl = n
      /\ Writing => req.spec.tmpl = n
  BY DEF AtRest, Shows
<1>2. \A i \in Ordinals : /\ i < Replicas => Exists(i) /\ pods[i].rev = n
                          /\ Exists(i) => i < Replicas
  BY DEF AtRest, Ready, Exists, Stores
<1>3. Asked(n)
  BY <1>1 DEF Asked
<1>4. Copies(n) /\ Stores(n)
  BY <1>1, <1>2 DEF Copies, Running, Behind, Stores
<1>5. NothingMissed(n) /\ Moves(n) /\ RestIsSeen(n) /\ Evicted(n)
  BY <1>1 DEF NothingMissed, Moves, RestIsSeen, Evicted
<1>6. TopDown(n)
  BY <1>1, <1>2 DEF TopDown
<1>7. QED
  BY <1>0, <1>3, <1>4, <1>5, <1>6

\* And no eviction is left over for it.
LEMMA NextRollFine ==
  ASSUME NEW b \in Revisions, TypeOK, RollFine(b), AtRest
  PROVE  want.tmpl \in Revisions /\ RollFine(want.tmpl)
<1> DEFINE n == want.tmpl
<1> USE DEF RollFine
<1>1. n \in Revisions /\ Roll(n)
  BY NextRoll
<1>2. \A i \in Ordinals : /\ i < Replicas => Ready(i) /\ Exists(i) /\ pods[i].rev = n
                          /\ Exists(i) => i < Replicas
  BY DEF AtRest, Ready, Exists, Roll, Stores
<1>3. FirstRun(n)
  <2>1. \A i, j \in Ordinals : i < Replicas /\ j < i => j < Replicas
    BY MemberOrdinals
  <2>2. QED
    BY <1>2, <2>1 DEF FirstRun
<1>4. Unevicted
  <2>1. CASE n = b
    BY <2>1 DEF AtRest, Shows, NotAhead
  <2>2. CASE n # b
    BY <1>2, <2>2 DEF NotAhead, Annotated, Unevicted
  <2>3. QED
    BY <2>1, <2>2
<1>5. NotAhead(n)
  BY <1>4 DEF NotAhead, Unevicted
<1>6. QED
  BY <1>1, <1>3, <1>5

\* An edit that waits keeps the replicas and begins the next roll.
LEMMA PatientEdit ==
  ASSUME \A a \in Asks : a.replicas = Replicas, TypeOK, NEW b \in Revisions, Roll(b),
         EditSpec, edits' # edits => AtRest
  PROVE  AtRest /\ \E r \in Revisions : r = want.tmpl /\ Roll(r)'
<1>1. AtRest /\ want' \in Asks /\ want'.replicas = Replicas
  BY DEF EditSpec, TypeOK
<1>2. PICK r \in Revisions : r = want.tmpl
  BY Kinds
<1>3. Roll(r)
  BY <1>1, <1>2, NextRoll
<1>4. Roll(r)'
  BY <1>1, <1>2, <1>3, EditRolls
<1>5. QED
  BY <1>1, <1>2, <1>4

PatientNext == Next /\ (edits' # edits => AtRest)
PatientSafe == TypeOK /\ \E b \in Revisions : Roll(b)
PatientFine == TypeOK /\ \E b \in Revisions : RollFine(b)

LEMMA PatientSafeStep ==
  ASSUME \A a \in Asks : a.replicas = Replicas
  PROVE  PatientSafe /\ [PatientNext]_vars => PatientSafe'
<1> SUFFICES ASSUME PatientSafe, [PatientNext]_vars
             PROVE  \E b \in Revisions : Roll(b)'
  BY StepType DEF PatientSafe, PatientNext
<1>0. TypeOK /\ [Next]_vars
  BY DEF PatientSafe, PatientNext
<1>1. PICK b \in Revisions : Roll(b)
  BY DEF PatientSafe
<1>2. CASE EditSpec
  <2>1. edits' # edits => AtRest
    BY <1>2 DEF PatientNext, vars, storeVars, userVars
  <2>2. QED
    BY <1>0, <1>1, <1>2, <2>1, PatientEdit
<1>3. CASE ~EditSpec
  BY <1>0, <1>1, <1>3, RollStep
<1>4. QED
  BY <1>2, <1>3

LEMMA PatientFineStep ==
  ASSUME MaxCrashes = 0, \A a \in Asks : a.replicas = Replicas
  PROVE  PatientFine /\ [PatientNext]_vars => PatientFine'
<1> SUFFICES ASSUME PatientFine, [PatientNext]_vars
             PROVE  \E b \in Revisions : RollFine(b)'
  BY StepType DEF PatientFine, PatientNext
<1>0. TypeOK /\ [Next]_vars
  BY DEF PatientFine, PatientNext
<1>1. PICK b \in Revisions : RollFine(b)
  BY DEF PatientFine
<1>2. CASE EditSpec
  <2>1. edits' # edits => AtRest
    BY <1>2 DEF PatientNext, vars, storeVars, userVars
  <2>2. AtRest /\ \E r \in Revisions : r = want.tmpl /\ Roll(r)'
    BY <1>0, <1>1, <1>2, <2>1, PatientEdit DEF RollFine
  <2>3. PICK r \in Revisions : r = want.tmpl /\ Roll(r)'
    BY <2>2
  <2>4. RollFine(r)
    BY <1>0, <1>1, <2>2, <2>3, NextRollFine
  <2>5. QED
    BY <1>0, <2>3, <2>4, RollFineStep
<1>3. CASE ~EditSpec
  BY <1>0, <1>1, <1>3, RollFineStep
<1>4. QED
  BY <1>2, <1>3

\* So it is for any number of rolls, as long as each template is asked for when the roll
\* before is over: no eviction is skipped for one that another roll began.
\* store_upgrader.go: Upgrade, upgradeStorePod, readyToUpgrade, endEvictLeader.
THEOREM PatientLeadersAreEvictedFirst ==
  ASSUME \A a \in Asks : a.replicas = Replicas
  PROVE  PatientSpec => EvictsFirst
<1>1. Deployed => PatientSafe
  BY InitType, DeployedRolls, MemberOrdinals DEF Init, PatientSafe
<1>2. PatientSafe /\ [PatientNext]_vars => PatientSafe'
  BY PatientSafeStep
<1>3. PatientSafe /\ PatientSafe' /\ [PatientNext]_vars
        => [\A i \in Leading : Up(i) /\ ~Exposed(i) /\ Exposed(i)' => evict[i] = "expired"]_vars
  BY ExposedByWrite DEF PatientSafe, PatientNext
<1>4. QED
  BY <1>1, <1>2, <1>3, PTL DEF PatientSpec, PatientNext, EvictsFirst

\* And all of them implement the abstract rollout.
THEOREM PatientRollRefines ==
  ASSUME MaxCrashes = 0, \A a \in Asks : a.replicas = Replicas
  PROVE  PatientSpec => ImplementsRollout
<1>1. Deployed => PatientFine /\ Abstract!Init
  BY InitType, DeployedFine, RefinedInit, MemberOrdinals DEF Init, PatientFine
<1>2. PatientFine /\ [PatientNext]_vars => PatientFine'
  BY PatientFineStep
<1>3. PatientFine /\ [PatientNext]_vars => [Abstract!Next]_(Abstract!vars)
  BY RefinedStep DEF PatientFine, Fine, PatientNext
<1>4. QED
  BY <1>1, <1>2, <1>3, PTL DEF PatientSpec, PatientNext, ImplementsRollout, Abstract!Spec
=============================================================================
