------------------------------ MODULE PDMember ------------------------------
(***************************************************************************)
(* The PD member manager and upgrader: pkg/manager/member/                 *)
(* pd_member_manager.go and pd_upgrader.go.  A pass of the manager reads   *)
(* the cached StatefulSet and asks PD for its members' health (SyncStatus), *)
(* then reads the pods, lets the upgrader choose the partition and submits *)
(* an update (Upgrade); the update itself is StatefulSetControl's.  The    *)
(* environment moves between any two of these steps.  A PD process starts  *)
(* when the discovery service answers its pod (see Discovery).             *)
(***************************************************************************)
EXTENDS StatefulSetControl

CONSTANTS
  Replicas,         \* spec.pd.replicas when the cluster is created
  ReplicaEdits,     \* the values the user can give it later
  FirstRevision,    \* the template the cluster is created with
  MaxEdits          \* bound on the user's edits of spec.pd

ASSUME PDAssumption ==
  /\ Replicas \in 1 .. MaxReplicas
  /\ ReplicaEdits \subseteq 1 .. MaxReplicas
  /\ FirstRevision \in Revisions
  /\ MaxEdits \in Nat

VARIABLES
  want,     \* cc.Spec.PD: the replicas and the template asked for
  edits,    \* edits still allowed
  pc,       \* where the pass is
  pass,     \* its newSet, its oldSet and the health PD reported
  status,   \* cc.Status.PD: the phase and whether the last sync succeeded
  asked,    \* the pods that have asked discovery for the initial cluster
  known     \* whether spec.pdPeerURL, the initial cluster, is written

passVars == <<want, edits, pc, pass, status>>
startVars == <<asked, known>>
pdVars == <<passVars, startVars>>
vars == <<setVars, pdVars>>

Phases == {"Normal", "Upgrade"}
NoPass == [new |-> NoConfig, old |-> NoSet, health |-> {}]

Init ==
  /\ ControlInit
  /\ want = [replicas |-> Replicas, tmpl |-> FirstRevision]
  /\ edits = MaxEdits
  /\ pc = "idle"
  /\ pass = NoPass
  /\ status = [phase |-> "Normal", synced |-> FALSE]
  /\ asked = {} /\ known = FALSE

\* A cluster that was created, came up and is at rest: the state an upgrade
\* starts from.
Deployed ==
  LET config == NewSet(Replicas, FirstRevision)
  IN /\ sts = [exists |-> TRUE, spec |-> config, applied |-> config,
               observed |-> TRUE,
               status |-> [currentRev |-> FirstRevision,
                           updateRev |-> FirstRevision, replicas |-> Replicas,
                           ready |-> Replicas]]
     /\ cache = sts
     /\ ver = [cache |-> TRUE, req |-> FALSE, alias |-> FALSE]
     /\ pods = [i \in Ordinals |-> IF i < Replicas
                  THEN [rev |-> FirstRevision, st |-> "up"] ELSE NoPod]
     /\ budget = FullBudget
     /\ req = NoRequest
     /\ want = [replicas |-> Replicas, tmpl |-> FirstRevision]
     /\ edits = MaxEdits
     /\ pc = "idle"
     /\ pass = NoPass
     /\ status = [phase |-> "Normal", synced |-> TRUE]
     /\ asked = 0 .. (Replicas - 1) /\ known = TRUE

-----------------------------------------------------------------------------
(* PD itself: an etcd cluster of the members that are up. *)

UpMembers == {i \in Ordinals : Up(i)}
HasQuorum == 2 * Cardinality(UpMembers) > Replicas

\* Each member's health is a quorum read through it.
Healthy == IF HasQuorum THEN UpMembers ELSE {}

\* The start script asks discovery until it is answered.  Discover answers once as
\* many pods as spec.pd.replicas have asked, and writes the initial cluster then.
\* (Losses and restarts of discovery only make the pods ask again: see Discovery.)
Discover(i) ==
  /\ pods[i].st = "running" /\ ~known
  /\ asked' = asked \cup {i}
  /\ known' = (Cardinality(asked') = want.replicas)
  /\ UNCHANGED <<setVars, passVars>>

\* Until then no PD process starts.
StartsAnswered == known \/ UpMembers' \subseteq UpMembers

-----------------------------------------------------------------------------
(* The pass *)

\* No StatefulSet in the cache: create it and requeue.
CreateSet ==
  /\ pc = "idle" /\ ~Writing /\ ~cache.exists
  /\ CreateStatefulSet(NewSet(want.replicas, want.tmpl))
  /\ UNCHANGED pdVars

\* syncCellClusterStatus.  Its error is only logged: the pass goes on.
SyncStatus ==
  /\ pc = "idle" /\ ~Writing /\ cache.exists
  /\ pc' = "upgrade"
  /\ ver' = [ver EXCEPT !.req = ver.cache, !.alias = TRUE]
  /\ \E synced \in BOOLEAN :
       /\ IF synced THEN UpMembers # {} /\ UNCHANGED budget
          ELSE \/ UpMembers = {} /\ UNCHANGED budget
               \/ budget.fail > 0 /\ budget' = [budget EXCEPT !.fail = @ - 1]
       /\ status' = [phase |-> IF MemberSetIsUpgrading(cache)
                               THEN "Upgrade" ELSE "Normal",
                     synced |-> synced]
       /\ pass' = [new |-> NewSet(want.replicas, want.tmpl), old |-> cache,
                   health |-> IF synced THEN Healthy ELSE {}]
  /\ UNCHANGED <<sts, cache, pods, req, want, edits, startVars>>

FailedPods(revision) ==
  {i \in Ordinals : pods[i].st = "pullFailed" /\ pods[i].rev = revision}

\* needForceUpgrade: most pods of the current revision cannot pull their image.
NeedForceUpgrade ==
  Cardinality(FailedPods(pass.old.status.currentRev))
    >= pass.old.status.replicas \div 2 + 1

\* The pods the graceful upgrade still has to see upgraded and healthy.
PendingRevisionOnly ==
  {i \in 0 .. (pass.old.status.replicas - 1) :
     ~(Exists(i) /\ pods[i].rev = pass.old.status.updateRev)}
Pending ==
  {i \in 0 .. (pass.old.status.replicas - 1) :
     ~ /\ Exists(i)
       /\ pods[i].rev = pass.old.status.updateRev
       /\ i \in pass.health}

\* The walk from the highest ordinal down stops at the first pending pod and
\* lowers the partition to it if it is of another revision; a missing pod or
\* an unhealthy upgraded one ends the pass with an error, without a partition.
GracefulPartitionsBelow ==
  IF Pending = {} THEN {pass.old.spec.partition}
  ELSE {i - 1 : i \in {i \in Pending : \A j \in Pending : j <= i}}
GracefulPartitionsUpwards ==
  IF Pending = {} THEN {pass.old.spec.partition}
  ELSE {i \in Pending : /\ \A j \in Pending : j >= i
                        /\ Exists(i) /\ pods[i].rev # pass.old.status.updateRev}
GracefulPartitions ==
  IF Pending = {} THEN {pass.old.spec.partition}
  ELSE {i \in Pending : /\ \A j \in Pending : j <= i
                        /\ Exists(i) /\ pods[i].rev # pass.old.status.updateRev}

NeedUpgradeByTemplate == ~TemplateEqual(pass.new, pass.old)
NeedUpgrade == ~TemplateEqual(pass.new, pass.old) \/ status.phase = "Upgrade"

UpgradePartitionsSyncedFirst ==
  CASE ~NeedUpgrade                                         -> {pass.new.partition}
    [] NeedUpgrade /\ ~status.synced                        -> {}
    [] NeedUpgrade /\ status.synced /\ NeedForceUpgrade     -> {0}
    [] OTHER -> IF TemplateEqual(pass.new, pass.old)
                THEN GracefulPartitions ELSE {pass.new.partition}
\* The partition Upgrade gives newSet; none when it returns an error.
UpgradePartitions ==
  CASE ~NeedUpgrade                                          -> {pass.new.partition}
    [] NeedUpgrade /\ NeedForceUpgrade                       -> {0}
    [] NeedUpgrade /\ ~NeedForceUpgrade /\ ~status.synced    -> {}
    [] OTHER -> IF TemplateEqual(pass.new, pass.old)
                THEN GracefulPartitions ELSE {pass.new.partition}

\* Both upgrades enter the Upgrade phase, a graceful one only after a sync.
PhaseAfterUpgrade ==
  IF NeedUpgrade /\ (NeedForceUpgrade \/ status.synced)
  THEN "Upgrade" ELSE status.phase

\* What the pass then writes, if anything.  PD does not scale: when the
\* replicas differ the pass ends there, its template change included.
UpdatesWithScaling ==
  {new \in {[pass.new EXCEPT !.partition = p] : p \in UpgradePartitions} :
     ~StatefulSetEqual(new, pass.old)}
Updates ==
  {new \in {[pass.new EXCEPT !.partition = p] : p \in UpgradePartitions} :
     new.replicas = pass.old.spec.replicas /\ ~StatefulSetEqual(new, pass.old)}

Upgrade ==
  /\ pc = "upgrade"
  /\ pc' = "idle" /\ pass' = NoPass
  /\ status' = [status EXCEPT !.phase = PhaseAfterUpgrade]
  /\ \/ Updates = {} /\ UNCHANGED setVars
     \/ \E new \in Updates : SubmitUpdate(new)
  /\ UNCHANGED <<want, edits, startVars>>

Pass == CreateSet \/ SyncStatus \/ Upgrade

\* The operator process restarts: its pass and its in-flight request are
\* gone and its cache is listed again.
Restart ==
  /\ budget.restart > 0
  /\ budget' = [budget EXCEPT !.restart = @ - 1]
  /\ pc' = "idle" /\ pass' = NoPass /\ req' = NoRequest
  /\ cache' = sts
  /\ ver' = [ver EXCEPT !.cache = TRUE, !.alias = FALSE]
  /\ UNCHANGED <<sts, pods, want, edits, status, startVars>>

\* The user changes spec.pd.
EditSpec ==
  /\ edits > 0 /\ edits' = edits - 1
  /\ want' \in [replicas : ReplicaEdits, tmpl : Revisions]
  /\ want' # want
  /\ UNCHANGED <<setVars, pc, pass, status, startVars>>

Next ==
  \/ Pass
  \/ UpdateStatefulSet /\ UNCHANGED pdVars
  \/ Environment /\ StartsAnswered /\ UNCHANGED <<req, pdVars>>
  \/ \E i \in Ordinals : Discover(i)
  \/ Restart
  \/ EditSpec

\* The work queue runs the pass again and again (the informers resync every
\* 30 s), requests end, events arrive, and Kubernetes does its part.  Nobody
\* has to edit, to restart, to crash or to fail.
Fairness ==
  /\ WF_vars(Pass)
  /\ WF_vars((UpdateAccepted \/ UpdateConflict) /\ UNCHANGED pdVars)
  /\ WF_vars(DeliverSet /\ UNCHANGED <<req, pdVars>>)
  /\ WF_vars(ObserveStatus /\ UNCHANGED <<req, pdVars>>)
  /\ WF_vars(RollPods /\ UNCHANGED <<req, pdVars>>)
  /\ \A i \in Ordinals :
       /\ WF_vars(BringUp(i) /\ StartsAnswered /\ UNCHANGED <<req, pdVars>>)
       /\ WF_vars(Discover(i))

Spec == Init /\ [][Next]_vars
FairSpec == Spec /\ Fairness
RollSpec == Deployed /\ [][Next]_vars

\* The user edits the template again when the roll before is over, and the operator
\* has seen so.
Shows(set, tmpl) ==
  set.spec.tmpl = tmpl /\ set.status.currentRev = tmpl /\ set.status.updateRev = tmpl
AtRest ==
  /\ Shows(sts, want.tmpl) /\ Shows(cache, want.tmpl)
  /\ pc = "upgrade" => Shows(pass.old, want.tmpl) /\ pass.new.tmpl = want.tmpl
  /\ Writing => req.spec.tmpl = want.tmpl
  /\ \A i \in Ordinals : i < Replicas => Up(i) /\ pods[i].rev = want.tmpl
PatientSpec == Deployed /\ [][Next /\ (edits' # edits => AtRest)]_vars
FairPatientSpec == PatientSpec /\ Fairness

-----------------------------------------------------------------------------
(* Properties *)

\* Type correctness of the manager's, the API server's and the pods' state.
TypeOK ==
  /\ ControlTypeOK
  /\ want \in [replicas : 0 .. MaxReplicas, tmpl : Revisions]
  /\ edits \in 0 .. MaxEdits
  /\ pc \in {"idle", "upgrade"}
  /\ pass \in [new : Config, old : SetObject, health : SUBSET Ordinals]
  /\ status \in [phase : Phases, synced : BOOLEAN]
  /\ asked \in SUBSET Ordinals /\ known \in BOOLEAN

\* The graceful upgrade goes from the highest ordinal down: every pod above
\* the partition has the template the set asks for, or is being recreated.
\* Lowering the partition past a pod that is not upgraded lets Kubernetes
\* replace it without the manager's health check.
RollsTopDown ==
  \A j \in Ordinals :
    sts.spec.partition < j /\ j < sts.spec.replicas /\ Exists(j)
      => pods[j].rev = sts.spec.tmpl

\* Kubernetes replaces a serving member only while at most one other is down:
\* the manager does not lower the partition past a member it saw unhealthy.
\* (One can be down: its health may have been read before it was replaced.)
DisruptionBound ==
  [][\A i \in Ordinals : Up(i) /\ ~Exists(i)'
       => Cardinality({j \in Ordinals : j < sts.spec.replicas /\ ~Up(j)}) <= 1]_vars

\* The number of PD replicas never changes once the set is created.
NeverScales ==
  [][sts.exists => sts'.spec.replicas = sts.spec.replicas]_vars

\* Why: whatever the cache, the pass and the request in flight have missed of
\* the set, they have its replicas.
ReplicasFixed ==
  /\ cache.exists => sts.exists /\ cache.spec.replicas = sts.spec.replicas
  /\ pc = "upgrade" => sts.exists /\ pass.old.spec.replicas = sts.spec.replicas
  /\ Writing => sts.exists /\ req.spec.replicas = sts.spec.replicas

\* The roll implements the abstract one: every member is replaced once, in order, and
\* one other may be down, as for DisruptionBound.
Members == 0 .. (Replicas - 1)
Abstract == INSTANCE Rollout WITH
  Templates <- Revisions, Leaders <- {},
  Tolerated <- {down \in SUBSET Members : Cardinality(down) <= 1},
  asked <- sts.spec.tmpl,
  template <- [i \in Members |-> IF Exists(i) THEN pods[i].rev ELSE 0],
  serving <- {i \in Members : Up(i)},
  handed <- {}
ImplementsRollout == Abstract!Spec

\* Every member serves from the template the user asked for.
Converged ==
  /\ sts.exists /\ sts.spec.tmpl = want.tmpl
  /\ \A i \in Ordinals : i < sts.spec.replicas => Up(i) /\ pods[i].rev = want.tmpl

\* Once the user stops editing, the set comes to match what was asked for, and
\* stays so: the manager's passes, whatever they conflict with, finish the roll.
Converges == <>[]Converged

\* The same from a template whose image cannot be pulled, before PD ever started:
\* asking for a good one is enough to recover, through the forced upgrade, whatever
\* conflicts, restarts and crashes.  (Not when a request fails, which can leave its
\* annotation in the cache, nor when the replicas are edited, which PD refuses.)
Recovers ==
  <>[](/\ want.tmpl \notin BadRevisions
       /\ want.replicas = sts.spec.replicas
       /\ budget.fail = MaxFailures) => <>[]Converged
=============================================================================
