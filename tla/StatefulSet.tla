---------------------------- MODULE StatefulSet ----------------------------
(***************************************************************************)
(* The Kubernetes side of one member StatefulSet: the API object, the      *)
(* operator's informer cache of it, the StatefulSet controller and the     *)
(* pods it runs.  None of this code is in the repository; it is modelled   *)
(* from how pkg/manager/member and pkg/controller use it.                  *)
(*                                                                         *)
(* Data abstraction.  A pod template is its revision number: two templates *)
(* are equal exactly when their revisions are, and the controller-revision *)
(* hash of a pod is the revision it was created from.  A resourceVersion   *)
(* is never a number: `ver' says whether a copy is still the API object.   *)
(***************************************************************************)
EXTENDS Naturals, FiniteSets

CONSTANTS
  MaxReplicas,    \* bound on the ordinals of the set's pods
  Revisions,      \* the pod templates the user can ask for
  BadRevisions,   \* the templates whose image cannot be pulled
  MaxCrashes,     \* bound on member processes that die on their own
  MaxFailures,    \* bound on requests that fail for other reasons than a conflict
  MaxRestarts     \* bound on restarts of the operator

ASSUME StatefulSetAssumption ==
  /\ MaxReplicas \in Nat \ {0}
  /\ Revisions \subseteq Nat \ {0}
  /\ BadRevisions \subseteq Revisions
  /\ MaxCrashes \in Nat
  /\ MaxFailures \in Nat
  /\ MaxRestarts \in Nat

VARIABLES
  sts,      \* the StatefulSet in the API server
  cache,    \* the operator's informer copy of it
  ver,      \* which copies carry the API object's resourceVersion
  pods,     \* the pods, by ordinal
  budget    \* crashes, failures and restarts still allowed

Ordinals == 0 .. (MaxReplicas - 1)

\* The part of a StatefulSetSpec that statefulSetEqual compares.
Config == [replicas : 0 .. MaxReplicas, partition : 0 .. MaxReplicas,
           tmpl : Revisions \cup {0}]

\* Revision 0 is the empty string of a status nobody has written yet.
Status == [currentRev : Revisions \cup {0}, updateRev : Revisions \cup {0},
           replicas : 0 .. MaxReplicas, ready : 0 .. MaxReplicas]

NoConfig == [replicas |-> 0, partition |-> 0, tmpl |-> 0]
NoStatus == [currentRev |-> 0, updateRev |-> 0, replicas |-> 0, ready |-> 0]

\* `applied' is the last-applied-config annotation, `observed' says that
\* status.observedGeneration has caught up with metadata.generation.
SetObject == [exists : BOOLEAN, spec : Config, applied : Config,
              observed : BOOLEAN, status : Status]
NoSet == [exists |-> FALSE, spec |-> NoConfig, applied |-> NoConfig,
          observed |-> FALSE, status |-> NoStatus]

PodStates == {"absent", "starting", "pullFailed", "running", "up", "restarting"}
NoPod == [rev |-> 0, st |-> "absent"]
FullBudget == [crash |-> MaxCrashes, fail |-> MaxFailures, restart |-> MaxRestarts]

-----------------------------------------------------------------------------

Exists(i) == pods[i].st # "absent"
\* Ready for the StatefulSet controller: the containers run (no readiness
\* probe is configured); the member may not have joined its cluster yet.
Ready(i) == pods[i].st \in {"running", "up"}
Up(i) == pods[i].st = "up"
\* status.phase is Running, also while a container that ran is restarted.
PhaseRunning(i) == Ready(i) \/ pods[i].st = "restarting"

\* A write of the spec and of the annotation: a changed spec has a new
\* generation, and every other copy is now of an older resourceVersion.
Stored(spec, applied) ==
  [sts EXCEPT !.exists = TRUE, !.spec = spec, !.applied = applied,
              !.observed = (spec = sts.spec) /\ sts.observed]
AllStale == [ver EXCEPT !.cache = FALSE, !.req = FALSE]

StsInit ==
  /\ sts = NoSet
  /\ cache = NoSet
  /\ ver = [cache |-> TRUE, req |-> FALSE, alias |-> FALSE]
  /\ pods = [i \in Ordinals |-> NoPod]
  /\ budget = FullBudget

\* The revision the controller gives a pod it creates.
RevisionFor(i) ==
  IF i < sts.spec.partition /\ sts.status.currentRev # 0
  THEN sts.status.currentRev ELSE sts.spec.tmpl

CreatePod(i) ==
  /\ sts.exists /\ i < sts.spec.replicas /\ ~Exists(i)
  /\ pods' = [pods EXCEPT ![i] = [rev |-> RevisionFor(i), st |-> "starting"]]
  /\ UNCHANGED <<sts, cache, ver, budget>>

\* The rolling update: from the highest ordinal down to the partition, the
\* first pod of another revision is deleted, and the controller waits for
\* each pod above it to be ready.
DeleteForUpdate(i) ==
  /\ sts.exists /\ i \in sts.spec.partition .. (sts.spec.replicas - 1)
  /\ Exists(i) /\ pods[i].rev # sts.spec.tmpl
  /\ \A j \in (i + 1) .. (sts.spec.replicas - 1) :
       Ready(j) /\ pods[j].rev = sts.spec.tmpl
  /\ pods' = [pods EXCEPT ![i] = NoPod]
  /\ UNCHANGED <<sts, cache, ver, budget>>

\* A pod beyond spec.replicas is deleted.
DeleteCondemned(i) ==
  /\ sts.exists /\ i >= sts.spec.replicas /\ Exists(i)
  /\ pods' = [pods EXCEPT ![i] = NoPod]
  /\ UNCHANGED <<sts, cache, ver, budget>>

\* The status the controller computes; the roll is complete when every pod
\* is ready and of the update revision.
ComputedStatus ==
  LET rolled == \A i \in Ordinals : i < sts.spec.replicas =>
                  Ready(i) /\ pods[i].rev = sts.spec.tmpl
  IN [currentRev |-> IF rolled \/ sts.status.currentRev = 0
                     THEN sts.spec.tmpl ELSE sts.status.currentRev,
      updateRev |-> sts.spec.tmpl,
      replicas |-> sts.spec.replicas,
      ready |-> Cardinality({i \in Ordinals : i < sts.spec.replicas /\ Ready(i)})]

\* Every sync of the controller ends in a write of the status.  The sets are
\* ParallelPodManagement: the sync has created what was missing and deleted
\* what is beyond spec.replicas, and the pod its roll has just deleted counts.
ObserveStatus ==
  /\ sts.exists
  /\ \A i \in Ordinals : Exists(i) => i < sts.spec.replicas
  /\ ~sts.observed \/ sts.status # ComputedStatus
  /\ sts' = [sts EXCEPT !.observed = TRUE, !.status = ComputedStatus]
  /\ ver' = AllStale
  /\ UNCHANGED <<cache, pods, budget>>

\* The kubelet: containers start, or their image cannot be pulled.
StartPod(i) ==
  /\ pods[i].st \in {"starting", "restarting"}
  /\ pods' = [pods EXCEPT ![i].st = IF pods[i].rev \in BadRevisions
                                    THEN "pullFailed" ELSE "running"]
  /\ UNCHANGED <<sts, cache, ver, budget>>

\* The member process joins its cluster and serves.  A store or a proxy finds the
\* bootstrapped PD it asks for; when the first PD process starts, PDMember says.
MemberUp(i) ==
  /\ pods[i].st = "running"
  /\ pods' = [pods EXCEPT ![i].st = "up"]
  /\ UNCHANGED <<sts, cache, ver, budget>>

\* The member process dies and its container is restarted.
MemberCrash(i) ==
  /\ Up(i) /\ budget.crash > 0
  /\ pods' = [pods EXCEPT ![i].st = "restarting"]
  /\ budget' = [budget EXCEPT !.crash = @ - 1]
  /\ UNCHANGED <<sts, cache, ver>>

\* A watch event brings the API object into the informer cache.  The object
\* the cache held is no longer shared with a pass that still points to it.
DeliverSet ==
  /\ ~ver.cache
  /\ cache' = sts
  /\ ver' = [ver EXCEPT !.cache = TRUE, !.alias = FALSE]
  /\ UNCHANGED <<sts, pods, budget>>

RollPods == \E i \in Ordinals : DeleteForUpdate(i)
ScaleIn == \E i \in Ordinals : DeleteCondemned(i)
BringUp(i) == CreatePod(i) \/ StartPod(i) \/ MemberUp(i)
Environment ==
  \/ ObserveStatus \/ RollPods \/ ScaleIn \/ DeliverSet
  \/ \E i \in Ordinals : BringUp(i) \/ MemberCrash(i)

StsTypeOK ==
  /\ sts \in SetObject
  /\ cache \in SetObject
  /\ ver \in [cache : BOOLEAN, req : BOOLEAN, alias : BOOLEAN]
  /\ pods \in [Ordinals -> [rev : Revisions \cup {0}, st : PodStates]]
  /\ budget \in [crash : 0 .. MaxCrashes, fail : 0 .. MaxFailures,
                restart : 0 .. MaxRestarts]
============================================================================
