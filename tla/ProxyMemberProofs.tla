------------------------- MODULE ProxyMemberProofs -------------------------
(***************************************************************************)
(* Type correctness of ProxyMember and the gate in front of the proxies,   *)
(* for any number of proxies, templates, edits, attempts and faults.       *)
(***************************************************************************)
EXTENDS ProxyMember, TLAPS, FiniteSetTheorems

USE StatefulSetAssumption, StatefulSetControlAssumption, ProxyAssumption

-----------------------------------------------------------------------------
(* What the steps of Kubernetes and of the control do to the types of the set, *)
(* of its copies and of the pods                                               *)

\* A set built for replicas and a template is a configuration.
LEMMA NewSetType ==
  ASSUME NEW r \in 0 .. MaxReplicas, NEW t \in Revisions \cup {0}
  PROVE  NewSet(r, t) \in Config
  BY DEF NewSet, Config

LEMMA NoSetType == NoConfig \in Config /\ NoSet \in SetObject /\ NoRequest.spec \in Config
  BY DEF NoConfig, NoSet, NoStatus, NoRequest, Config, Status, SetObject

\* A write leaves an object of the API server's type.
LEMMA StoredType ==
  ASSUME sts \in SetObject, NEW spec \in Config, NEW applied \in Config
  PROVE  Stored(spec, applied) \in SetObject
  BY DEF Stored, SetObject

\* No more pods are ready than there are ordinals.
LEMMA ReadyCount ==
  ASSUME NEW S \in SUBSET Ordinals
  PROVE  Cardinality(S) \in 0 .. MaxReplicas
<1>1. IsFiniteSet(Ordinals) /\ Cardinality(Ordinals) = MaxReplicas
  BY FS_Interval DEF Ordinals
<1>2. IsFiniteSet(S) /\ Cardinality(S) <= MaxReplicas
  BY <1>1, FS_Subset
<1>3. QED
  BY <1>2, FS_CardinalityType

\* So the controller computes a status.
LEMMA ComputedStatusType ==
  ASSUME StsTypeOK
  PROVE  ComputedStatus \in Status
<1>1. Cardinality({i \in Ordinals : i < sts.spec.replicas /\ Ready(i)}) \in 0 .. MaxReplicas
  BY ReadyCount
<1>2. sts.spec \in Config /\ sts.status \in Status
  BY DEF StsTypeOK, SetObject
<1>3. QED
  BY <1>1, <1>2 DEF ComputedStatus, Config, Status

\* What a step of Kubernetes does to the types.
LEMMA EnvironmentType ==
  ASSUME StsTypeOK, Environment
  PROVE  StsTypeOK'
<1> USE DEF StsTypeOK
<1>1. CASE ObserveStatus
  <2>1. ComputedStatus \in Status
    BY ComputedStatusType
  <2>2. sts' \in SetObject
    BY <1>1, <2>1 DEF ObserveStatus, SetObject
  <2>3. QED
    BY <1>1, <2>2 DEF ObserveStatus, AllStale
<1>2. ASSUME NEW i \in Ordinals, CreatePod(i) PROVE StsTypeOK'
  <2>1. RevisionFor(i) \in Revisions \cup {0}
    BY DEF RevisionFor, SetObject, Status, Config
  <2>2. QED
    BY <1>2, <2>1 DEF CreatePod, PodStates
<1>3. ASSUME NEW i \in Ordinals, DeleteForUpdate(i) \/ DeleteCondemned(i) PROVE StsTypeOK'
  BY <1>3 DEF DeleteForUpdate, DeleteCondemned, NoPod, PodStates
<1>4. ASSUME NEW i \in Ordinals, StartPod(i) \/ MemberUp(i) PROVE StsTypeOK'
  <2>1. \E st \in PodStates : pods' = [pods EXCEPT ![i].st = st]
    BY <1>4 DEF StartPod, MemberUp, PodStates
  <2>2. UNCHANGED <<sts, cache, ver, budget>>
    BY <1>4 DEF StartPod, MemberUp
  <2>3. QED
    BY <2>1, <2>2
<1>5. ASSUME NEW i \in Ordinals, MemberCrash(i) PROVE StsTypeOK'
  BY <1>5 DEF MemberCrash, PodStates
<1>6. CASE DeliverSet
  BY <1>6 DEF DeliverSet
<1>7. QED
  BY <1>1, <1>2, <1>3, <1>4, <1>5, <1>6 DEF Environment, RollPods, ScaleIn, BringUp

\* What a step of an update in flight does to the types.
LEMMA UpdateType ==
  ASSUME ControlTypeOK, UpdateStatefulSet
  PROVE  ControlTypeOK'
<1> USE DEF ControlTypeOK, StsTypeOK
<1>1. NoRequest \in [tries : 0 .. MaxTries, spec : Config, applied : Config]
  BY NoSetType DEF NoRequest
<1>2. Stored(req.spec, req.applied) \in SetObject
  BY StoredType
<1>3. AllStale \in [cache : BOOLEAN, req : BOOLEAN, alias : BOOLEAN]
  BY DEF AllStale
<1>4. CASE UpdateAccepted
  BY <1>1, <1>2, <1>3, <1>4 DEF UpdateAccepted
<1>5. CASE UpdateConflict
  <2>1. cache.applied \in Config
    BY DEF SetObject
  <2>2. req' \in [tries : 0 .. MaxTries, spec : Config, applied : Config]
    <3>1. CASE req.tries > 1
      <4>1. req' = [req EXCEPT !.tries = @ - 1, !.applied = cache.applied]
        BY <1>5, <3>1 DEF UpdateConflict
      <4>2. req.tries - 1 \in 0 .. MaxTries
        BY <3>1
      <4>3. QED BY <2>1, <4>1, <4>2
    <3>2. CASE ~(req.tries > 1)
      BY <1>1, <1>5, <3>2 DEF UpdateConflict
    <3>3. QED BY <3>1, <3>2
  <2>3. ver' \in [cache : BOOLEAN, req : BOOLEAN, alias : BOOLEAN]
    BY <1>5 DEF UpdateConflict
  <2>4. QED
    BY <1>5, <2>2, <2>3 DEF UpdateConflict
<1>6. CASE UpdateFailed
  <2>1. /\ req' = NoRequest
        /\ budget' \in [crash : 0 .. MaxCrashes, fail : 0 .. MaxFailures,
                        restart : 0 .. MaxRestarts]
        /\ UNCHANGED <<cache, pods>>
    BY <1>6 DEF UpdateFailed
  <2>2. \/ UNCHANGED <<sts, ver>>
        \/ sts' = Stored(req.spec, req.applied) /\ ver' = AllStale
    BY <1>6 DEF UpdateFailed
  <2>3. /\ sts' \in SetObject
        /\ ver' \in [cache : BOOLEAN, req : BOOLEAN, alias : BOOLEAN]
    BY <1>2, <1>3, <2>2
  <2>4. QED
    BY <1>1, <2>1, <2>3
<1>7. QED
  BY <1>4, <1>5, <1>6 DEF UpdateStatefulSet

\* What submitting an update does to the types.
LEMMA SubmitType ==
  ASSUME ControlTypeOK, NEW new \in Config, SubmitUpdate(new)
  PROVE  ControlTypeOK'
<1>1. [cache EXCEPT !.spec.replicas = new.replicas, !.applied = new] \in SetObject
  BY DEF ControlTypeOK, StsTypeOK, SetObject, Config
<1>2. QED
  BY <1>1 DEF ControlTypeOK, StsTypeOK, SubmitUpdate

\* What creating the set does to the types.
LEMMA CreateType ==
  ASSUME ControlTypeOK, NEW new \in Config, CreateStatefulSet(new)
  PROVE  ControlTypeOK'
<1>1. Stored(new, new) \in SetObject
  BY StoredType DEF ControlTypeOK, StsTypeOK
<1>2. CASE UNCHANGED setVars
  BY <1>2 DEF setVars, ControlTypeOK, StsTypeOK
<1>3. CASE sts' = Stored(new, new) /\ ver' = AllStale /\ UNCHANGED <<cache, pods, budget, req>>
  BY <1>1, <1>3 DEF ControlTypeOK, StsTypeOK, AllStale
<1>4. CASE /\ budget.fail > 0
           /\ budget' = [budget EXCEPT !.fail = @ - 1]
           /\ UNCHANGED <<sts, cache, ver, pods, req>>
  BY <1>4 DEF ControlTypeOK, StsTypeOK
<1>5. QED
  BY <1>2, <1>3, <1>4 DEF CreateStatefulSet

-----------------------------------------------------------------------------
(* Type correctness *)

\* Whatever the upgrader decides, what is written is a configuration.
LEMMA UpdatesType ==
  ASSUME TypeOK
  PROVE  Updates \subseteq Config
<1>1. pass.new \in Config /\ pass.old.spec \in Config /\ pass.old.status \in Status
  BY DEF TypeOK, SetObject
<1>2. Pending \subseteq 0 .. MaxReplicas
  BY <1>1 DEF Pending, Status
<1>3. RollPartitions \subseteq 0 .. MaxReplicas
  BY <1>1, <1>2 DEF RollPartitions, Config
<1>4. \A p \in 0 .. MaxReplicas : [pass.new EXCEPT !.partition = p] \in Config
  BY <1>1 DEF Config
<1>5. [pass.new EXCEPT !.tmpl = pass.old.spec.tmpl] \in Config
  BY <1>1 DEF Config
<1>6. CASE ~NeedUpgrade
  BY <1>1, <1>6 DEF Updates, Upgraded
<1>7. CASE NeedUpgrade /\ others = "upgrading"
  BY <1>5, <1>7 DEF Updates, Upgraded
<1>8. CASE NeedUpgrade /\ others # "upgrading"
  <2>1. Upgraded = IF TemplateEqual(pass.new, pass.old)
                   THEN {[pass.new EXCEPT !.partition = p] : p \in RollPartitions}
                   ELSE {pass.new}
    BY <1>8 DEF Upgraded
  <2>2. QED
    BY <1>1, <1>3, <1>4, <2>1 DEF Updates
<1>9. QED
  BY <1>6, <1>7, <1>8

LEMMA InitType == Init => TypeOK
<1> SUFFICES ASSUME Init PROVE TypeOK
  OBVIOUS
<1>1. StsTypeOK
  BY NoSetType DEF Init, ControlInit, StsInit, StsTypeOK, FullBudget, NoPod, PodStates
<1>2. ControlTypeOK
  BY <1>1, NoSetType DEF Init, ControlInit, ControlTypeOK, NoRequest
<1>3. QED
  BY <1>2, NoSetType DEF Init, TypeOK, NoPass

\* Every step keeps the types.
LEMMA StepType == TypeOK /\ [Next]_vars => TypeOK'
<1> SUFFICES ASSUME TypeOK, [Next]_vars PROVE TypeOK'
  OBVIOUS
<1>0. ControlTypeOK /\ StsTypeOK
  BY DEF TypeOK, ControlTypeOK
<1>n. NoPass \in [new : Config, old : SetObject]
  BY NoSetType DEF NoPass
<1>1. CASE CreateSet
  <2>1. NewSet(want.replicas, want.tmpl) \in Config
    BY NewSetType DEF TypeOK
  <2>2. ControlTypeOK'
    BY <1>0, <1>1, <2>1, CreateType DEF CreateSet
  <2>3. QED
    BY <1>1, <2>2 DEF CreateSet, proxyVars, TypeOK
<1>2. CASE SyncStatus
  <2>1. pass' \in [new : Config, old : SetObject]
    <3>1. NewSet(want.replicas, want.tmpl) \in Config /\ cache \in SetObject
      BY <1>0, NewSetType DEF TypeOK, StsTypeOK
    <3>2. QED BY <1>2, <3>1 DEF SyncStatus
  <2>2. ver' \in [cache : BOOLEAN, req : BOOLEAN, alias : BOOLEAN]
    BY <1>0, <1>2 DEF SyncStatus, StsTypeOK
  <2>3. ControlTypeOK'
    BY <1>0, <1>2, <2>2 DEF SyncStatus, ControlTypeOK, StsTypeOK
  <2>4. QED
    BY <1>2, <2>1, <2>3 DEF SyncStatus, TypeOK
<1>3. CASE Upgrade
  <2>1. CASE UNCHANGED setVars
    BY <1>0, <1>3, <1>n, <2>1 DEF Upgrade, setVars, TypeOK, ControlTypeOK, StsTypeOK
  <2>2. ASSUME NEW new \in Updates, SubmitUpdate(new) PROVE TypeOK'
    <3>1. ControlTypeOK'
      BY <1>0, <2>2, UpdatesType, SubmitType
    <3>2. QED
      BY <1>3, <1>n, <3>1 DEF Upgrade, TypeOK
  <2>3. QED
    BY <1>3, <2>1, <2>2 DEF Upgrade
<1>4. CASE UpdateStatefulSet /\ UNCHANGED proxyVars
  BY <1>0, <1>4, UpdateType DEF proxyVars, TypeOK
<1>5. CASE Environment /\ UNCHANGED <<req, proxyVars>>
  BY <1>0, <1>5, EnvironmentType DEF proxyVars, TypeOK, ControlTypeOK
<1>6. CASE OthersChange
  BY <1>0, <1>6 DEF OthersChange, setVars, TypeOK, ControlTypeOK, StsTypeOK
<1>7. CASE Restart
  <2>1. /\ budget' \in [crash : 0 .. MaxCrashes, fail : 0 .. MaxFailures,
                        restart : 0 .. MaxRestarts]
        /\ ver' \in [cache : BOOLEAN, req : BOOLEAN, alias : BOOLEAN]
    <3>1. budget' \in [crash : 0 .. MaxCrashes, fail : 0 .. MaxFailures,
                       restart : 0 .. MaxRestarts]
      BY <1>0, <1>7 DEF Restart, StsTypeOK
    <3>2. ver' \in [cache : BOOLEAN, req : BOOLEAN, alias : BOOLEAN]
      BY <1>0, <1>7 DEF Restart, StsTypeOK
    <3>3. QED BY <3>1, <3>2
  <2>2. NoRequest \in [tries : 0 .. MaxTries, spec : Config, applied : Config]
    BY NoSetType DEF NoRequest
  <2>3. ControlTypeOK'
    BY <1>0, <1>7, <2>1, <2>2 DEF Restart, ControlTypeOK, StsTypeOK
  <2>4. QED
    BY <1>7, <1>n, <2>3 DEF Restart, TypeOK
<1>8. CASE EditSpec
  <2>1. ControlTypeOK'
    BY <1>0, <1>8 DEF EditSpec, setVars, ControlTypeOK, StsTypeOK
  <2>2. want' \in [replicas : 0 .. MaxReplicas, tmpl : Revisions]
    <3>1. ReplicaEdits \subseteq 0 .. MaxReplicas
      OBVIOUS
    <3>2. QED BY <1>8, <3>1 DEF EditSpec
  <2>3. QED
    BY <1>8, <2>1, <2>2 DEF EditSpec, TypeOK
<1>9. CASE UNCHANGED vars
  BY <1>0, <1>9 DEF vars, setVars, proxyVars, TypeOK, ControlTypeOK, StsTypeOK
<1>10. QED
  BY <1>1, <1>2, <1>3, <1>4, <1>5, <1>6, <1>7, <1>8, <1>9 DEF Next, Pass

\* The manager, the API server and the pods are always of their types: every
\* partition the proxies' upgrader computes is one of the set's.
\* proxy_member_manager.go and proxy_upgrader.go.
THEOREM TypeCorrect == Spec => []TypeOK
  BY InitType, StepType, PTL DEF Spec

-----------------------------------------------------------------------------
(* The gate *)

\* What a resourceVersion vouches for: a copy that has the set's has its template,
\* although the passes write the annotation and the replicas of the cached one.
\* So a first attempt that was decided behind the gate and can be accepted does not
\* change the template.
TemplatesAgree ==
  /\ cache.exists => sts.exists
  /\ ver.cache => cache.exists = sts.exists /\ cache.spec.tmpl = sts.spec.tmpl
  /\ pc = "upgrade" => sts.exists
  /\ pc = "upgrade" /\ ver.req => pass.old.spec.tmpl = sts.spec.tmpl
  /\ others = "upgrading" /\ Writing /\ req.tries = MaxTries /\ ver.req
       => req.spec.tmpl = sts.spec.tmpl
  /\ pc = "upgrade" => ~Writing

LEMMA AgreeInit == Init => TemplatesAgree
  BY DEF Init, ControlInit, StsInit, NoSet, NoRequest, Writing, TemplatesAgree

\* A write keeps a set that exists and gives it the spec.
LEMMA StoredFields ==
  ASSUME sts \in SetObject, NEW spec \in Config, NEW applied \in Config
  PROVE  Stored(spec, applied).exists /\ Stored(spec, applied).spec = spec
  BY DEF Stored, SetObject

\* What the gate leaves of a pass: the template its set had.
LEMMA GatedTemplate ==
  ASSUME TypeOK, others = "upgrading", NEW new \in Updates
  PROVE  new.tmpl = pass.old.spec.tmpl
<1>1. pass.new \in Config /\ pass.old.spec \in Config
  BY DEF TypeOK, SetObject
<1>2. CASE NeedUpgrade
  BY <1>1, <1>2 DEF Updates, Upgraded, Config
<1>3. CASE ~NeedUpgrade
  BY <1>1, <1>3 DEF Updates, Upgraded, NeedUpgrade, TemplateEqual
<1>4. QED
  BY <1>2, <1>3

LEMMA AgreeStep == TypeOK /\ TemplatesAgree /\ [Next]_vars => TemplatesAgree'
<1> SUFFICES ASSUME TypeOK, TemplatesAgree, [Next]_vars PROVE TemplatesAgree'
  OBVIOUS
<1> USE DEF TemplatesAgree, Writing
<1>0. /\ sts \in SetObject /\ cache \in SetObject
      /\ sts.spec \in Config /\ cache.spec \in Config
      /\ ver \in [cache : BOOLEAN, req : BOOLEAN, alias : BOOLEAN]
      /\ req \in [tries : 0 .. MaxTries, spec : Config, applied : Config]
  BY DEF TypeOK, ControlTypeOK, StsTypeOK, SetObject
<1>s. AllStale.cache = FALSE /\ AllStale.req = FALSE
  BY <1>0 DEF AllStale
<1>n. NoRequest.tries = 0
  BY DEF NoRequest
<1>1. CASE CreateSet
  <2>1. NewSet(want.replicas, want.tmpl) \in Config
    BY NewSetType DEF TypeOK
  <2>2. UNCHANGED <<cache, req, others, pc, pass>> /\ ~Writing /\ pc = "idle"
    BY <1>1 DEF CreateSet, CreateStatefulSet, setVars, proxyVars
  <2>3. \/ UNCHANGED <<sts, ver>>
        \/ ver' = AllStale /\ sts' = Stored(NewSet(want.replicas, want.tmpl),
                                            NewSet(want.replicas, want.tmpl))
    BY <1>1 DEF CreateSet, CreateStatefulSet, setVars
  <2>4. QED
    BY <1>0, <1>s, <2>1, <2>2, <2>3, StoredFields
<1>2. CASE SyncStatus
  <2>1. /\ cache.exists /\ ~Writing
        /\ pass'.old = cache /\ pc' = "upgrade" /\ UNCHANGED <<sts, cache, req, others>>
        /\ ver'.req = ver.cache /\ ver'.cache = ver.cache
    BY <1>0, <1>2 DEF SyncStatus
  <2>2. QED
    BY <1>0, <2>1
<1>3. CASE Upgrade
  <2>1. CASE UNCHANGED setVars
    BY <1>3, <2>1 DEF Upgrade, setVars
  <2>2. ASSUME NEW new \in Updates, SubmitUpdate(new) PROVE TemplatesAgree'
    <3>1. /\ cache'.exists = cache.exists /\ cache'.spec.tmpl = cache.spec.tmpl
          /\ req'.spec = new
          /\ UNCHANGED <<sts, ver>>
      BY <1>0, <2>2 DEF SubmitUpdate, SetObject, Config
    <3>2. pc = "upgrade" /\ pc' = "idle" /\ UNCHANGED others
      BY <1>3 DEF Upgrade
    <3>3. QED
      BY <3>1, <3>2, GatedTemplate
  <2>3. QED
    BY <1>3, <2>1, <2>2 DEF Upgrade
<1>4. CASE UpdateStatefulSet /\ UNCHANGED proxyVars
  <2>1. UNCHANGED <<cache, others, pc, pass>> /\ Writing
    BY <1>4 DEF UpdateStatefulSet, UpdateAccepted, UpdateConflict, UpdateFailed, proxyVars
  <2>2. /\ req'.tries # MaxTries
        /\ ver'.cache = ver.cache \/ ver' = AllStale
    <3>1. CASE UpdateConflict /\ req.tries > 1
      <4>1. /\ req' = [req EXCEPT !.tries = @ - 1, !.applied = cache.applied]
            /\ ver' = [ver EXCEPT !.req = ver.cache]
        BY <3>1 DEF UpdateConflict
      <4>2. req'.tries = req.tries - 1
        BY <1>0, <4>1
      <4>3. ver'.cache = ver.cache
        BY <1>0, <4>1
      <4>4. QED
        BY <1>0, <4>2, <4>3
    <3>2. CASE req' = NoRequest /\ ver' \in {ver, AllStale}
      BY <1>n, <3>2
    <3>3. QED
      BY <1>4, <3>1, <3>2 DEF UpdateStatefulSet, UpdateAccepted, UpdateConflict, UpdateFailed
  <2>3. UNCHANGED sts
        \/ (ver' = AllStale /\ sts' = Stored(req.spec, req.applied))
    BY <1>4 DEF UpdateStatefulSet, UpdateAccepted, UpdateConflict, UpdateFailed
  <2>4. UNCHANGED <<sts>> /\ ver' # AllStale => ver'.cache = ver.cache
    BY <2>2
  <2>5. QED
    BY <1>0, <1>s, <2>1, <2>2, <2>3, StoredFields
<1>5. CASE Environment /\ UNCHANGED <<req, proxyVars>>
  <2>1. /\ sts'.exists = sts.exists /\ sts'.spec = sts.spec
        /\ \/ UNCHANGED <<cache, ver>>
           \/ UNCHANGED cache /\ ver' = AllStale
           \/ cache' = sts /\ UNCHANGED sts /\ ver'.req = ver.req
    BY <1>0, <1>5
    DEF Environment, ObserveStatus, RollPods, ScaleIn, BringUp, DeliverSet, CreatePod,
        DeleteForUpdate, DeleteCondemned, StartPod, MemberUp, MemberCrash, SetObject
  <2>2. QED
    BY <1>0, <1>5, <1>s, <2>1 DEF proxyVars
<1>6. CASE OthersChange
  BY <1>6 DEF OthersChange, setVars
<1>7. CASE Restart
  BY <1>n, <1>7 DEF Restart
<1>8. CASE EditSpec
  BY <1>8 DEF EditSpec, setVars
<1>9. CASE UNCHANGED vars
  BY <1>9 DEF vars, setVars, proxyVars
<1>10. QED
  BY <1>1, <1>2, <1>3, <1>4, <1>5, <1>6, <1>7, <1>8, <1>9 DEF Next, Pass

\* While PD or the store upgrades, no first attempt gives the proxies' set another
\* template, whatever was edited, conflicted, failed or restarted before.
\* proxy_upgrader.go: the gate at the beginning of Upgrade.
THEOREM GateHolds == Spec => HoldsTemplate
<1> DEFINE Held == sts.exists /\ others = "upgrading" /\ sts'.spec.tmpl # sts.spec.tmpl
                     => Writing /\ req.tries < MaxTries
<1>1. TypeOK /\ TemplatesAgree /\ [Next]_vars => [Held]_vars
  <2> SUFFICES ASSUME TypeOK, TemplatesAgree, Next PROVE Held
    OBVIOUS
  <2>0. /\ sts \in SetObject /\ sts.spec \in Config
        /\ req \in [tries : 0 .. MaxTries, spec : Config, applied : Config]
    BY DEF TypeOK, ControlTypeOK, StsTypeOK, SetObject
  <2>1. CASE UpdateStatefulSet /\ UNCHANGED proxyVars
    <3>1. Writing /\ (UNCHANGED sts \/ (ver.req /\ sts' = Stored(req.spec, req.applied)))
      BY <2>1 DEF UpdateStatefulSet, UpdateAccepted, UpdateConflict, UpdateFailed
    <3>2. QED
      BY <2>0, <3>1, StoredFields DEF TemplatesAgree, Writing
  <2>2. CASE Environment
    BY <2>0, <2>2
    DEF Environment, ObserveStatus, RollPods, ScaleIn, BringUp, DeliverSet, CreatePod,
        DeleteForUpdate, DeleteCondemned, StartPod, MemberUp, MemberCrash, SetObject
  <2>3. CASE CreateSet /\ sts.exists
    BY <2>3 DEF CreateSet, CreateStatefulSet, setVars
  <2>4. CASE SyncStatus \/ Upgrade \/ OthersChange \/ Restart \/ EditSpec
    BY <2>4 DEF SyncStatus, Upgrade, SubmitUpdate, OthersChange, Restart, EditSpec, setVars
  <2>5. QED
    BY <2>1, <2>2, <2>3, <2>4 DEF Next, Pass
<1>2. Spec => [](TypeOK /\ TemplatesAgree)
  BY InitType, StepType, AgreeInit, AgreeStep, PTL DEF Spec
<1>3. QED
  BY <1>1, <1>2, PTL DEF Spec, HoldsTemplate
=============================================================================
