---------------------------- MODULE HAScheduler ----------------------------
(***************************************************************************)
(* The scheduler extender: pkg/scheduler/scheduler.go and                  *)
(* pkg/scheduler/predicates/ha.go, for the pods of one component (PD or    *)
(* the store) of one cluster.  kube-scheduler asks it to filter the nodes  *)
(* for a pod; it serves one call at a time.  A call first takes the        *)
(* scheduling lock, an annotation on the pod's claim, which it may take    *)
(* over from a pod whose claim is bound; then it counts pods on nodes.     *)
(*                                                                         *)
(* The operator's meta manager writes the annotations of the same claims   *)
(* (UpdateMetaInfo, pkg/controller/pvc_control.go).                        *)
(*                                                                         *)
(* Claims are local volumes bound at the first consumer                    *)
(* (manifests/local-volume-provisioner.yaml): a bound claim pins its pod   *)
(* to a node, and it is bound before the pod is.                           *)
(***************************************************************************)
EXTENDS Naturals, FiniteSets

CONSTANTS
  Pods,         \* the pods of the component, numbered as their claims are listed
  Nodes,        \* the nodes, each with a volume for every pod
  NoNode,
  MaxFaults,    \* bound on failed requests, lost answers and restarts
  MaxMoves,     \* bound on pods deleted and on placements given up
  MaxSyncs,     \* bound on the operator's updates of claims
  MetaTries     \* how often the operator tries one (retry.DefaultBackoff: 4)

ASSUME HAAssumption ==
  /\ IsFiniteSet(Pods) /\ Pods \subseteq Nat
  /\ IsFiniteSet(Nodes) /\ NoNode \notin Nodes
  /\ MaxFaults \in Nat /\ MaxMoves \in Nat /\ MaxSyncs \in Nat
  /\ MetaTries \in Nat \ {0}

VARIABLES
  claim,     \* the node each pod's claim is bound to
  locked,    \* the pods whose claim has the annotation AnnPVCPodScheduling
  node,      \* spec.nodeName of each pod
  chosen,    \* the node kube-scheduler has chosen and not yet bound the pod to
  call,      \* the call served: its pod, its step, the holder it found
  meta,      \* the operator's update: its claim, and whether its copy has
             \* the annotation AnnPVCPodScheduling
  stale,     \* the claims of which extender and operator hold an old version
  budget,    \* faults, moves and updates still allowed
  overwritten \* history: a retry of the operator has changed the lock

vars == <<claim, locked, node, chosen, call, meta, stale, budget, overwritten>>

Placement == [Pods -> Nodes \cup {NoNode}]
NoCall == [step |-> "idle", pod |-> {}, holder |-> {}]
NoMeta == [pod |-> {}, marked |-> FALSE, tries |-> MetaTries]
Bound(p) == claim[p] # NoNode

Init ==
  /\ claim = [p \in Pods |-> NoNode]
  /\ locked = {}
  /\ node = [p \in Pods |-> NoNode]
  /\ chosen = [p \in Pods |-> NoNode]
  /\ call = NoCall
  /\ meta = NoMeta
  /\ stale = [extender |-> {}, operator |-> {}]
  /\ budget = [faults |-> MaxFaults, moves |-> MaxMoves, syncs |-> MaxSyncs]
  /\ overwritten = FALSE

\* A write of a claim outdates the copies of it that the two work with.
Written(c) ==
  stale' = [extender |-> stale.extender \cup ({c} \cap (call.pod \cup call.holder)),
            operator |-> stale.operator \cup ({c} \cap meta.pod)]

Fault == budget.faults > 0 /\ budget' = [budget EXCEPT !.faults = @ - 1]
Move == budget.moves > 0 /\ budget' = [budget EXCEPT !.moves = @ - 1]

-----------------------------------------------------------------------------
(* realAcquireLock *)

\* The claims are listed, and the first of them that has the annotation counts.
\* Its pod keeps the lock while its claim is not bound: "waiting for Pod
\* scheduling".
HolderWaitsForNobody(p, h) == TRUE
MayTakeOver(p, h) == h = p \/ Bound(h)

Acquire(p) ==
  /\ call = NoCall /\ node[p] = NoNode /\ chosen[p] = NoNode
  /\ stale' = [stale EXCEPT !.extender = {}]
  /\ \/ /\ locked = {}
        /\ call' = [step |-> "take", pod |-> {p}, holder |-> {}]
     \/ \E h \in locked :
          /\ \A q \in locked : h <= q
          /\ \/ /\ MayTakeOver(p, h)
                /\ call' = [step |-> IF h = p THEN "count" ELSE "release",
                            pod |-> {p}, holder |-> {h}]
             \/ ~MayTakeOver(p, h) /\ UNCHANGED call
  /\ UNCHANGED <<claim, locked, node, chosen, meta, budget, overwritten>>

\* The update of one claim's annotation, which is refused when the claim was
\* written since.  An error ends the call; the update may have been applied.
UpdateClaim(c, newLocked, nextCall) ==
  LET Apply == c \notin stale.extender /\ locked' = newLocked /\ Written(c)
  IN \/ Apply /\ call' = nextCall /\ UNCHANGED budget
     \/ c \in stale.extender /\ call' = NoCall /\ UNCHANGED <<locked, stale, budget>>
     \/ Fault /\ call' = NoCall /\ (Apply \/ UNCHANGED <<locked, stale>>)

\* The annotation is deleted from the holder's claim ...
Release ==
  /\ call.step = "release"
  /\ \E h \in call.holder :
       UpdateClaim(h, locked \ {h}, [call EXCEPT !.step = "take"])
  /\ UNCHANGED <<claim, node, chosen, meta, overwritten>>

\* ... and set on the pod's own (setCurrentPodScheduling).
Take ==
  /\ call.step = "take"
  /\ \E p \in call.pod :
       UpdateClaim(p, locked \cup {p}, [call EXCEPT !.step = "count"])
  /\ UNCHANGED <<claim, node, chosen, meta, overwritten>>

-----------------------------------------------------------------------------
(* Filter *)

\* What kube-scheduler's own predicates leave: the node of the bound volume.
Candidates(p) == IF Bound(p) THEN {claim[p]} ELSE Nodes

\* MaxPodCountPerNode is 1, so the nodes with the least pods are those that
\* have none; a single node is returned unseen when the claim is bound to it.
EmptyNodes(p) == {n \in Candidates(p) : \A q \in Pods : node[q] # n}
AlwaysCounted(p) == EmptyNodes(p)
Filtered(p) ==
  IF Cardinality(Candidates(p)) = 1 /\ Bound(p) THEN Candidates(p)
  ELSE EmptyNodes(p)

\* The answer, from which kube-scheduler chooses; none, when no node is left
\* or when the answer is lost.
Answer ==
  /\ call.step = "count"
  /\ \E p \in call.pod :
       \/ \E n \in Filtered(p) :
            chosen' = [chosen EXCEPT ![p] = n] /\ UNCHANGED budget
       \/ Filtered(p) = {} /\ UNCHANGED <<chosen, budget>>
       \/ Fault /\ UNCHANGED chosen
  /\ call' = NoCall
  /\ UNCHANGED <<claim, locked, node, meta, stale, overwritten>>

\* The extender restarts; its call is gone.
Restart ==
  /\ call # NoCall /\ Fault
  /\ call' = NoCall
  /\ UNCHANGED <<claim, locked, node, chosen, meta, stale, overwritten>>

-----------------------------------------------------------------------------
(* The operator's UpdateMetaInfo *)

\* A claim is read from the informer's cache, which may be old by the time of
\* the update, to get the ids and the name of its pod.
MetaRead(p) ==
  /\ meta = NoMeta /\ budget.syncs > 0
  /\ meta' = [NoMeta EXCEPT !.pod = {p}, !.marked = p \in locked]
  /\ stale' = [stale EXCEPT !.operator = {}]
  /\ budget' = [budget EXCEPT !.syncs = @ - 1]
  /\ UNCHANGED <<claim, locked, node, chosen, call, overwritten>>

\* The update carries all the annotations of the copy.  On a conflict the claim
\* is read again, from a cache that may still be old, and given the annotations
\* of the first copy.
LastTryTooLate == meta.tries = 0
LastTry == meta.tries = 1
Retried == meta.tries < MetaTries
MetaWrite ==
  /\ \E p \in meta.pod :
       \/ /\ p \notin stale.operator
          /\ locked' = IF meta.marked THEN locked \cup {p} ELSE locked \ {p}
          /\ meta' = NoMeta
          /\ Written(p)
          /\ overwritten' = (overwritten \/ (Retried /\ locked' # locked))
       \/ /\ p \in stale.operator
          /\ meta' = IF LastTry THEN NoMeta
                     ELSE [meta EXCEPT !.tries = @ - 1]
          /\ stale' \in {stale, [stale EXCEPT !.operator = @ \ {p}]}
          /\ UNCHANGED <<locked, overwritten>>
  /\ UNCHANGED <<claim, node, chosen, call, budget>>

-----------------------------------------------------------------------------
(* kube-scheduler, the volume binder and the StatefulSet controller *)

\* The volumes of a chosen pod are bound first: its claim is written.
BindClaim(p) ==
  /\ chosen[p] # NoNode /\ ~Bound(p)
  /\ claim' = [claim EXCEPT ![p] = chosen[p]]
  /\ Written(p)
  /\ UNCHANGED <<locked, node, chosen, call, meta, budget, overwritten>>

BindPod(p) ==
  /\ chosen[p] # NoNode /\ Bound(p)
  /\ node' = [node EXCEPT ![p] = chosen[p]]
  /\ chosen' = [chosen EXCEPT ![p] = NoNode]
  /\ UNCHANGED <<claim, locked, call, meta, stale, budget, overwritten>>

\* The placement is given up and the pod is queued again.
Forget(p) ==
  /\ chosen[p] # NoNode /\ Move
  /\ chosen' = [chosen EXCEPT ![p] = NoNode]
  /\ UNCHANGED <<claim, locked, node, call, meta, stale, overwritten>>

\* The pod is deleted and created again, with the same claim.
Recreate(p) ==
  /\ node[p] # NoNode /\ Move
  /\ node' = [node EXCEPT ![p] = NoNode]
  /\ UNCHANGED <<claim, locked, chosen, call, meta, stale, overwritten>>

Next ==
  \/ \E p \in Pods : \/ Acquire(p) \/ BindClaim(p) \/ BindPod(p)
                     \/ Forget(p) \/ Recreate(p) \/ MetaRead(p)
  \/ Release \/ Take \/ Answer \/ Restart \/ MetaWrite

\* kube-scheduler comes back to every pod that has no node, although the
\* extender may be busy with another one then; calls and bindings end.
Fairness ==
  /\ \A p \in Pods :
       SF_vars(Acquire(p)) /\ WF_vars(BindClaim(p)) /\ WF_vars(BindPod(p))
  /\ WF_vars(Release \/ Take \/ Answer)

Spec == Init /\ [][Next]_vars
FairSpec == Spec /\ Fairness

-----------------------------------------------------------------------------
(* Properties *)

\* Type correctness of the claims, the pods and the call.
TypeOK ==
  /\ claim \in Placement /\ node \in Placement /\ chosen \in Placement
  /\ locked \in SUBSET Pods
  /\ call \in [step : {"idle", "release", "take", "count"},
               pod : SUBSET Pods, holder : SUBSET Pods]
  /\ meta \in [pod : SUBSET Pods, marked : BOOLEAN, tries : 1 .. MetaTries]
  /\ stale \in [extender : SUBSET Pods, operator : SUBSET Pods]
  /\ budget \in [faults : 0 .. MaxFaults, moves : 0 .. MaxMoves,
                 syncs : 0 .. MaxSyncs]
  /\ overwritten \in BOOLEAN

\* One pod at most has the annotation.
OneHolder == \A p, q \in locked : p = q

\* What the lock is for: a pod that was given nodes and has no bound claim yet
\* holds it, so no two such pods are placed at a time ("waiting for Pod
\* scheduling", ha.go:186).
Exclusive ==
  \A p \in Pods : chosen[p] # NoNode /\ ~Bound(p) => locked = {p}

\* Only a retried update of the operator breaks the lock (pvc_control.go:152):
\* until one has changed an annotation, the lock has one holder at most and
\* excludes, although it is passed on by two updates, either of which may
\* conflict, fail after it was applied or never be sent, and although the
\* operator writes all annotations of the same claims.
LockKept == ~overwritten => OneHolder /\ Exclusive

\* With as many nodes as pods every pod gets a node in the end, also one whose
\* claim is bound to a node that another pod has taken.
AllPlaced == <>[](\A p \in Pods : node[p] # NoNode)
============================================================================
