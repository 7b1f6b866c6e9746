---------------------------- MODULE ProxyMember ----------------------------
(***************************************************************************)
(* The proxy member manager and upgrader: pkg/manager/member/              *)
(* proxy_member_manager.go and proxy_upgrader.go.  Proxies scale in both   *)
(* directions, and they wait for PD and the store: `others' is what a pass *)
(* finds of those two, and it does not change during the pass, which       *)
(* decided it earlier.                                                     *)
(***************************************************************************)
EXTENDS StatefulSetControl

CONSTANTS
  Replicas,         \* spec.proxy.replicas when the cluster is created
  ReplicaEdits,     \* the values the user can give it later
  FirstRevision,    \* the template the cluster is created with
  MaxEdits          \* bound on the user's edits of spec.proxy

ASSUME ProxyAssumption ==
  /\ Replicas \in 1 .. MaxReplicas
  /\ ReplicaEdits \subseteq 1 .. MaxReplicas
  /\ FirstRevision \in Revisions
  /\ MaxEdits \in Nat

VARIABLES
  want,     \* cc.Spec.Proxy: the replicas and the template asked for
  edits,    \* edits still allowed
  others,   \* PD and the store: no store up, one of them upgrading, or at rest
  pc,       \* where the pass is
  pass,     \* its newSet and its oldSet
  phase     \* cc.Status.Proxy.Phase

proxyVars == <<want, edits, others, pc, pass, phase>>
vars == <<setVars, proxyVars>>

NoPass == [new |-> NoConfig, old |-> NoSet]

Init ==
  /\ ControlInit
  /\ want = [replicas |-> Replicas, tmpl |-> FirstRevision]
  /\ edits = MaxEdits
  /\ others = "unavailable"
  /\ pc = "idle" /\ pass = NoPass
  /\ phase = "Normal"

-----------------------------------------------------------------------------
(* The pass *)

\* Sync goes no further than this without an available store.
CreateSet ==
  /\ pc = "idle" /\ ~Writing /\ ~cache.exists
  /\ others # "unavailable"
  /\ CreateStatefulSet(NewSet(want.replicas, want.tmpl))
  /\ UNCHANGED proxyVars

\* syncCellClusterStatus: only one component upgrades at a time.
SyncStatus ==
  /\ pc = "idle" /\ ~Writing /\ cache.exists
  /\ others # "unavailable"
  /\ pc' = "upgrade"
  /\ ver' = [ver EXCEPT !.req = ver.cache, !.alias = TRUE]
  /\ phase' = IF MemberSetIsUpgrading(cache) /\ others # "upgrading"
              THEN "Upgrade" ELSE "Normal"
  /\ pass' = [new |-> NewSet(want.replicas, want.tmpl), old |-> cache]
  /\ UNCHANGED <<sts, cache, pods, budget, req, want, edits, others>>

\* status.proxy.members, which the upgrader expects to hold the upgraded pods
\* that are healthy.  Nothing in the manager writes it.
HealthyMembers == {}

\* The pods the upgrade still has to see upgraded and healthy.
Pending ==
  {i \in 0 .. (pass.old.status.replicas - 1) :
     ~ /\ Exists(i)
       /\ pods[i].rev = pass.old.status.updateRev
       /\ i \in HealthyMembers}

\* The walk from the highest ordinal down stops at the first pending pod and
\* lowers the partition to it if it is of another revision.  No partition: the
\* pod is missing, or upgraded and "not ready", and the pass ends there.
RollPartitions ==
  IF Pending = {} THEN {pass.old.spec.partition}
  ELSE {i \in Pending : /\ \A j \in Pending : j <= i
                        /\ Exists(i) /\ pods[i].rev # pass.old.status.updateRev}

NeedUpgrade == ~TemplateEqual(pass.new, pass.old) \/ phase = "Upgrade"

\* What Upgrade makes of newSet; while PD or the store upgrades it puts the
\* pod spec back that the old template's own annotation describes.
UpgradedUngated ==
  IF ~NeedUpgrade \/ ~TemplateEqual(pass.new, pass.old) THEN {pass.new}
  ELSE {[pass.new EXCEPT !.partition = p] : p \in RollPartitions}
Upgraded ==
  CASE ~NeedUpgrade -> {pass.new}
    [] NeedUpgrade /\ others = "upgrading" ->
         {[pass.new EXCEPT !.tmpl = pass.old.spec.tmpl]}
    [] OTHER -> IF TemplateEqual(pass.new, pass.old)
                THEN {[pass.new EXCEPT !.partition = p] : p \in RollPartitions}
                ELSE {pass.new}

\* What the pass then writes, if anything: replicas included.
UpdatesOneMore ==
  {[new EXCEPT !.replicas = pass.old.spec.replicas + 1] : new \in Upgraded}
Updates == {new \in Upgraded : ~StatefulSetEqual(new, pass.old)}

Upgrade ==
  /\ pc = "upgrade"
  /\ pc' = "idle" /\ pass' = NoPass
  /\ phase' = IF NeedUpgrade /\ others # "upgrading" THEN "Upgrade" ELSE phase
  /\ \/ Updates = {} /\ UNCHANGED setVars
     \/ \E new \in Updates : SubmitUpdate(new)
  /\ UNCHANGED <<want, edits, others>>

Pass == CreateSet \/ SyncStatus \/ Upgrade

\* PD and the store, between two passes.
OthersChange ==
  /\ pc = "idle" /\ ~Writing
  /\ others' \in {"unavailable", "upgrading", "normal"} \ {others}
  /\ UNCHANGED <<setVars, want, edits, pc, pass, phase>>

Restart ==
  /\ budget.restart > 0
  /\ budget' = [budget EXCEPT !.restart = @ - 1]
  /\ pc' = "idle" /\ pass' = NoPass /\ req' = NoRequest
  /\ cache' = sts
  /\ ver' = [ver EXCEPT !.cache = TRUE, !.alias = FALSE]
  /\ UNCHANGED <<sts, pods, want, edits, others, phase>>

EditSpec ==
  /\ edits > 0 /\ edits' = edits - 1
  /\ want' \in [replicas : ReplicaEdits, tmpl : Revisions]
  /\ want' # want
  /\ UNCHANGED <<setVars, others, pc, pass, phase>>

Next ==
  \/ Pass
  \/ UpdateStatefulSet /\ UNCHANGED proxyVars
  \/ Environment /\ UNCHANGED <<req, proxyVars>>
  \/ OthersChange
  \/ Restart
  \/ EditSpec

\* As for PD: passes recur, requests end, events arrive, Kubernetes works.
Fairness ==
  /\ WF_vars(Pass)
  /\ WF_vars((UpdateAccepted \/ UpdateConflict) /\ UNCHANGED proxyVars)
  /\ WF_vars(DeliverSet /\ UNCHANGED <<req, proxyVars>>)
  /\ WF_vars(ObserveStatus /\ UNCHANGED <<req, proxyVars>>)
  /\ WF_vars(RollPods /\ UNCHANGED <<req, proxyVars>>)
  /\ WF_vars(ScaleIn /\ UNCHANGED <<req, proxyVars>>)
  /\ \A i \in Ordinals : WF_vars(BringUp(i) /\ UNCHANGED <<req, proxyVars>>)

Spec == Init /\ [][Next]_vars
FairSpec == Spec /\ Fairness

-----------------------------------------------------------------------------
(* Properties *)

\* Type correctness of the manager's, the API server's and the pods' state.
TypeOK ==
  /\ ControlTypeOK
  /\ want \in [replicas : 0 .. MaxReplicas, tmpl : Revisions]
  /\ edits \in 0 .. MaxEdits
  /\ others \in {"unavailable", "upgrading", "normal"}
  /\ pc \in {"idle", "upgrade"}
  /\ pass \in [new : Config, old : SetObject]
  /\ phase \in {"Normal", "Upgrade"}

\* The proxies wait while PD or the store upgrades: their set gets another
\* template only from a retry, which overwrites with the template of an older
\* copy what the pass had not seen.  A pass that wins at once changes none.
HoldsTemplate ==
  [][sts.exists /\ others = "upgrading" /\ sts'.spec.tmpl # sts.spec.tmpl
       => Writing /\ req.tries < MaxTries]_vars

\* The proxies serve in the number and from the template asked for.
Converged ==
  /\ sts.exists /\ sts.spec.tmpl = want.tmpl /\ sts.spec.replicas = want.replicas
  /\ \A i \in Ordinals :
       IF i < want.replicas THEN Up(i) /\ pods[i].rev = want.tmpl ELSE ~Exists(i)

\* Whatever the passes conflict with, with PD and the store at rest the proxies
\* come to be what was asked for, and stay so.
Converges == <>[](others = "normal") => <>[]Converged
============================================================================
