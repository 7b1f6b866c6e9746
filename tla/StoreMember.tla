---------------------------- MODULE StoreMember ----------------------------
(***************************************************************************)
(* The store member manager, upgrader and scaler: pkg/manager/member/      *)
(* store_member_manager.go, store_upgrader.go, store_scaler.go, scaler.go. *)
(* Stores are upgraded from the highest ordinal down; one that leads cells *)
(* is given time to hand them over first, by an annotation on its pod that *)
(* says since when.  Stores scale out one at a time, never in.  (The       *)
(* claims ScaleOut would delete first are those ScaleIn marked, and no     *)
(* code calls it.)  They wait for PD: `pdState' is what a pass finds.      *)
(*                                                                         *)
(* BeginEvictLeader and EndEvictLeader (pkg/controller/pd_control.go) do   *)
(* nothing yet, so which stores lead does not depend on them: `Leading'.   *)
(***************************************************************************)
EXTENDS StatefulSetControl

CONSTANTS
  Replicas,         \* spec.store.replicas when the cluster is created
  Asks,             \* the replicas and template the user can ask for later
  FirstRevision,    \* the template the cluster is created with
  MaxEdits,         \* bound on the user's edits of spec.store
  Leading           \* the stores that have leaders, of those created first

ASSUME StoreAssumption ==
  /\ Replicas \in 1 .. MaxReplicas
  /\ Asks \subseteq [replicas : 1 .. MaxReplicas, tmpl : Revisions]
  /\ FirstRevision \in Revisions
  /\ MaxEdits \in Nat
  /\ Leading \subseteq 0 .. (Replicas - 1)

VARIABLES
  want,      \* cc.Spec.Store: the replicas and the template asked for
  edits,     \* edits still allowed
  pdState,   \* PD: not available, upgrading, or at rest
  joined,    \* the stores PD knows
  evict,     \* the annotation EvictLeaderBeginTime of each pod
  pc,        \* where the pass is
  pass,      \* its newSet, its oldSet, the stores PD listed and those down
  phase      \* cc.Status.Store.Phase

userVars == <<want, edits>>
passVars == <<pc, pass, phase>>
storeVars == <<userVars, pdState, joined, evict, passVars>>
vars == <<setVars, storeVars>>

NoPass == [new |-> NoConfig, old |-> NoSet, stores |-> {}, down |-> {}]
PDStates == {"unavailable", "upgrading", "normal"}
NotEvicting == [i \in Ordinals |-> "none"]
UpStores == {i \in Ordinals : Up(i)}

StoreInit(allowed) ==
  /\ want = [replicas |-> Replicas, tmpl |-> FirstRevision]
  /\ edits = allowed
  /\ evict = NotEvicting
  /\ pc = "idle" /\ pass = NoPass
  /\ phase = "Normal"

\* A cluster that is created and not edited.
Created ==
  /\ ControlInit /\ StoreInit(0)
  /\ pdState = "unavailable"
  /\ joined = {}

\* A cluster that was created, came up and is at rest.
Deployed ==
  LET config == NewSet(Replicas, FirstRevision)
  IN /\ sts = [exists |-> TRUE, spec |-> config, applied |-> config,
               observed |-> TRUE,
               status |-> [currentRev |-> FirstRevision,
                           updateRev |-> FirstRevision, replicas |-> Replicas,
                           ready |-> Replicas]]
     /\ cache = sts
     /\ ver = [cache |-> TRUE, req |-> FALSE, alias |-> FALSE]
     /\ pods = [i \in Ordinals |-> IF i < Replicas
                  THEN [rev |-> FirstRevision, st |-> "up"] ELSE NoPod]
     /\ budget = FullBudget
     /\ req = NoRequest
     /\ StoreInit(MaxEdits)
     /\ pdState \in PDStates
     /\ joined = {i \in Ordinals : i < Replicas}

Init == Created \/ Deployed

-----------------------------------------------------------------------------
(* Status *)

\* No StatefulSet in the cache: create it, once PD is available.
CreateSet ==
  /\ pc = "idle" /\ ~Writing /\ ~cache.exists
  /\ pdState # "unavailable"
  /\ CreateStatefulSet(NewSet(want.replicas, want.tmpl))
  /\ UNCHANGED storeVars

\* syncCellClusterStatus: the phase, then the stores PD lists.  PD goes by
\* heartbeats: a store that does not run is Up or Down to it.  Without the
\* list the pass ends.
SyncStatus ==
  /\ pc = "idle" /\ ~Writing /\ cache.exists
  /\ pdState # "unavailable"
  /\ phase' = IF MemberSetIsUpgrading(cache) /\ pdState # "upgrading"
              THEN "Upgrade" ELSE "Normal"
  /\ \/ /\ pc' = "upgrade"
        /\ ver' = [ver EXCEPT !.req = ver.cache, !.alias = TRUE]
        /\ \E down \in SUBSET (joined \ UpStores) :
             pass' = [new |-> NewSet(want.replicas, want.tmpl), old |-> cache,
                      stores |-> joined, down |-> down]
        /\ UNCHANGED budget
     \/ /\ budget.fail > 0 /\ budget' = [budget EXCEPT !.fail = @ - 1]
        /\ UNCHANGED <<ver, pc, pass>>
  /\ UNCHANGED <<sts, cache, pods, req, userVars, pdState, joined, evict>>

-----------------------------------------------------------------------------
(* Upgrade *)

NeedUpgradeOfTemplate == ~TemplateEqual(pass.new, pass.old)
NeedUpgrade == ~TemplateEqual(pass.new, pass.old) \/ phase = "Upgrade"
Gated == pdState = "upgrading"
PhaseAfterUpgrade == IF NeedUpgrade /\ ~Gated THEN "Upgrade" ELSE phase

\* The walk from the highest ordinal down passes ordinals without a store, and
\* upgraded pods that run and whose store PD has not found down.  `Stop' is the
\* first one it does not pass.
Pending ==
  {i \in pass.stores :
     /\ i < pass.old.status.replicas
     /\ ~ /\ pods[i].rev = pass.old.status.updateRev /\ PhaseRunning(i)
          /\ i \notin pass.down}
Stop == {i \in Pending : \A j \in Pending : j <= i}

\* On the way the eviction of the passed ones is ended.
EndedWithStop ==
  [i \in Ordinals |->
     IF i \in pass.stores /\ i < pass.old.status.replicas /\ \A j \in Stop : j <= i
     THEN "none" ELSE evict[i]]
Ended ==
  [i \in Ordinals |->
     IF i \in pass.stores /\ i < pass.old.status.replicas /\ \A j \in Stop : j < i
     THEN "none" ELSE evict[i]]

\* readyToUpgrade: no leaders, or three minutes have gone by.
ReadyUnlessAsked(i) == i \notin Leading \/ evict[i] # "none"
ReadyToUpgrade(i) == i \notin Leading \/ evict[i] = "expired"

\* What the walk comes to: a partition, or none when it ends in an error.
Walk(partition, eviction) == [partition |-> partition, evict |-> eviction]
WalkResult ==
  LET i == CHOOSE i \in Stop : TRUE
  IN CASE Stop = {} ->
            Walk({pass.old.spec.partition}, Ended)
       [] Stop # {} /\ (~Exists(i) \/ pods[i].rev = pass.old.status.updateRev) ->
            Walk({}, Ended)
       [] Stop # {} /\ Exists(i) /\ pods[i].rev # pass.old.status.updateRev ->
            CASE ReadyToUpgrade(i) -> Walk({i}, Ended)
              [] ~ReadyToUpgrade(i) /\ evict[i] = "none" ->
                   Walk({pass.old.spec.partition}, [Ended EXCEPT ![i] = "begun"])
              [] ~ReadyToUpgrade(i) /\ evict[i] # "none" -> Walk({}, Ended)

\* What Upgrade makes of newSet and of the pods.  While PD upgrades it puts the
\* pod spec back that the old template's own annotation describes.
Upgraded(new, eviction) == [new |-> new, evict |-> eviction]
AfterUpgrade ==
  CASE ~NeedUpgrade -> {Upgraded(pass.new, evict)}
    [] NeedUpgrade /\ Gated ->
         {Upgraded([pass.new EXCEPT !.tmpl = pass.old.spec.tmpl], evict)}
    [] OTHER ->
         IF ~TemplateEqual(pass.new, pass.old) THEN {Upgraded(pass.new, evict)}
         ELSE {Upgraded([pass.new EXCEPT !.partition = p], WalkResult.evict) :
                 p \in WalkResult.partition}

-----------------------------------------------------------------------------
(* Scaling *)

\* One more store, unless the stores are upgrading; never one less.
ScalesOut == /\ pass.new.replicas > pass.old.spec.replicas
             /\ PhaseAfterUpgrade # "Upgrade"
ScaledAtOnce(new) == [new EXCEPT !.replicas = pass.old.spec.replicas + 1]
Scaled(new) ==
  [new EXCEPT !.replicas = IF ScalesOut THEN pass.old.spec.replicas + 1
                           ELSE pass.old.spec.replicas]

-----------------------------------------------------------------------------
(* The pass, after the status *)

\* A request of the walk can fail, and the pass ends there: to PD, or the update
\* of a pod, whose annotation has been set in the cached pod by then.
RequestFails ==
  /\ budget.fail > 0 /\ budget' = [budget EXCEPT !.fail = @ - 1]
  /\ NeedUpgrade /\ ~Gated /\ TemplateEqual(pass.new, pass.old)
  /\ evict' \in {evict, WalkResult.evict}
  /\ UNCHANGED <<sts, cache, ver, pods, req>>

Upgrade ==
  /\ pc = "upgrade"
  /\ pc' = "idle" /\ pass' = NoPass
  /\ phase' = PhaseAfterUpgrade
  /\ \/ /\ AfterUpgrade = {}
        /\ evict' = WalkResult.evict
        /\ UNCHANGED setVars
     \/ \E u \in AfterUpgrade :
          /\ evict' = u.evict
          /\ IF StatefulSetEqual(Scaled(u.new), pass.old) THEN UNCHANGED setVars
             ELSE SubmitUpdate(Scaled(u.new))
     \/ RequestFails
  /\ UNCHANGED <<userVars, pdState, joined>>

Pass == CreateSet \/ SyncStatus \/ Upgrade

-----------------------------------------------------------------------------
(* Around the pass *)

\* PD, between two passes.  Once at rest it stays so (a bound: it begins no
\* upgrade in the middle of the stores').
PDChanges ==
  /\ pc = "idle" /\ ~Writing
  /\ pdState # "normal"
  /\ pdState' \in PDStates \ {pdState}
  /\ UNCHANGED <<setVars, userVars, joined, evict, passVars>>

\* EvictLeaderTimeout has passed since the eviction of a store began.
TimePasses(i) ==
  /\ evict[i] = "begun"
  /\ evict' = [evict EXCEPT ![i] = "expired"]
  /\ UNCHANGED <<setVars, userVars, pdState, joined, passVars>>

Restart ==
  /\ budget.restart > 0
  /\ budget' = [budget EXCEPT !.restart = @ - 1]
  /\ pc' = "idle" /\ pass' = NoPass /\ req' = NoRequest
  /\ cache' = sts
  /\ ver' = [ver EXCEPT !.cache = TRUE, !.alias = FALSE]
  /\ UNCHANGED <<sts, pods, userVars, pdState, joined, evict, phase>>

EditSpec ==
  /\ edits > 0 /\ edits' = edits - 1
  /\ want' \in Asks
  /\ want' # want
  /\ UNCHANGED <<setVars, pdState, joined, evict, passVars>>

\* A store that comes up joins its PD; a deleted pod takes its annotation along.
Kubernetes(step) ==
  /\ step
  /\ joined' = joined \cup {i \in Ordinals : pods'[i].st = "up"}
  /\ evict' = [i \in Ordinals |-> IF pods'[i].st = "absent" THEN "none" ELSE evict[i]]
  /\ UNCHANGED <<req, userVars, pdState, passVars>>

Next ==
  \/ Pass
  \/ UpdateStatefulSet /\ UNCHANGED storeVars
  \/ Kubernetes(Environment)
  \/ PDChanges
  \/ \E i \in Ordinals : TimePasses(i)
  \/ Restart
  \/ EditSpec

\* As for PD: passes recur, requests end, events arrive, Kubernetes works; and
\* time passes.
Fairness ==
  /\ WF_vars(Pass)
  /\ WF_vars((UpdateAccepted \/ UpdateConflict) /\ UNCHANGED storeVars)
  /\ WF_vars(Kubernetes(DeliverSet))
  /\ WF_vars(Kubernetes(ObserveStatus))
  /\ WF_vars(Kubernetes(RollPods))
  /\ \A i \in Ordinals : WF_vars(Kubernetes(BringUp(i))) /\ WF_vars(TimePasses(i))

Spec == Init /\ [][Next]_vars
FairSpec == Spec /\ Fairness

\* The user edits the template again when the roll before is over, and the operator
\* has seen so.
Shows(set, tmpl) ==
  set.spec.tmpl = tmpl /\ set.status.currentRev = tmpl /\ set.status.updateRev = tmpl
AtRest ==
  /\ Shows(sts, want.tmpl) /\ Shows(cache, want.tmpl)
  /\ pc = "upgrade" => Shows(pass.old, want.tmpl) /\ pass.new.tmpl = want.tmpl
  /\ Writing => req.spec.tmpl = want.tmpl
  /\ \A i \in Ordinals : i < Replicas => Ready(i) /\ pods[i].rev = want.tmpl
PatientSpec == Deployed /\ [][Next /\ (edits' # edits => AtRest)]_vars

-----------------------------------------------------------------------------
(* Properties *)

\* Type correctness of the manager's, the API server's and the pods' state.
TypeOK ==
  /\ ControlTypeOK
  /\ want \in [replicas : 0 .. MaxReplicas, tmpl : Revisions]
  /\ edits \in 0 .. MaxEdits
  /\ pdState \in PDStates
  /\ joined \in SUBSET Ordinals
  /\ evict \in [Ordinals -> {"none", "begun", "expired"}]
  /\ pc \in {"idle", "upgrade"}
  /\ pass \in [new : Config, old : SetObject, stores : SUBSET Ordinals,
               down : SUBSET Ordinals]
  /\ phase \in {"Normal", "Upgrade"}

\* A store that serves and has leaders is exposed to the rolling update only
\* when its eviction has had its time, through every conflict, failure, restart
\* and PD upgrade in between.  (Said of the stores created first, with an edit
\* that changes the template or adds stores: the walk passes a store that has
\* not joined yet, and the partition of a new template is the replicas asked
\* for, which may be fewer than there are.)
Exposed(i) ==
  /\ sts.exists /\ i \in sts.spec.partition .. (sts.spec.replicas - 1)
  /\ Exists(i) /\ pods[i].rev # sts.spec.tmpl
EvictsFirst ==
  [][\A i \in Leading :
       Up(i) /\ ~Exposed(i) /\ Exposed(i)' => evict[i] = "expired"]_vars

\* The roll of the stores created first implements the abstract one: a store that has
\* leaders is taken down only when its eviction had its time, and all others run.
Members == 0 .. (Replicas - 1)
Abstract == INSTANCE Rollout WITH
  Templates <- Revisions, Leaders <- Leading, Tolerated <- {{}},
  asked <- IF sts.exists THEN sts.spec.tmpl ELSE FirstRevision,
  template <- [i \in Members |-> IF Exists(i) THEN pods[i].rev ELSE 0],
  serving <- {i \in Members : Ready(i)},
  handed <- {i \in Members : evict[i] = "expired"}
ImplementsRollout == Abstract!Spec

\* The stores serve from the template and in the number asked for.
Converged ==
  /\ sts.exists /\ sts.spec.tmpl = want.tmpl /\ sts.spec.replicas = want.replicas
  /\ \A i \in Ordinals : i < want.replicas => Up(i) /\ pods[i].rev = want.tmpl

\* When no request fails, then once PD is at rest the stores come to be what was
\* asked for, and stay so.  (A failed write can lose an edit, as in PDMember.)
Converges ==
  [](budget.fail = MaxFailures) /\ <>[](pdState = "normal") => <>[]Converged
============================================================================
