------------------------- MODULE StatefulSetControl -------------------------
(***************************************************************************)
(* What every member manager does with its StatefulSet: the comparisons of *)
(* pkg/manager/member/utils.go and the create and update calls of          *)
(* pkg/controller/stateful_set_control.go.                                 *)
(*                                                                         *)
(* A pass works on `oldSet', the object the lister returned.  The lister   *)
(* returns a pointer into the informer cache, and the managers copy the    *)
(* struct but not what it points to: writing the copy's annotations and    *)
(* replicas writes the cached object (ver.alias: oldSet still is that      *)
(* object).  An UpdateStatefulSet call is in flight while req.tries > 0.   *)
(***************************************************************************)
EXTENDS StatefulSet

CONSTANT MaxTries    \* attempts of RetryOnConflict before it gives up

ASSUME StatefulSetControlAssumption == MaxTries \in Nat \ {0}

VARIABLE req

setVars == <<sts, cache, ver, pods, budget, req>>

NoRequest == [tries |-> 0, spec |-> NoConfig, applied |-> NoConfig]
Writing == req.tries > 0

ControlInit == StsInit /\ req = NoRequest

-----------------------------------------------------------------------------
(* utils.go *)

\* The template's own annotation always describes the template it is on.
TemplateEqual(new, old) == new.tmpl = old.spec.tmpl

StatefulSetEqual(new, old) == old.applied = new

\* ObservedGeneration is nil until the controller writes its first status.
StatefulSetIsUpgrading(set) ==
  /\ set.status # NoStatus
  /\ \/ set.status.currentRev # set.status.updateRev
     \/ ~set.observed /\ set.spec.replicas = set.status.replicas

\* The three managers' IsUpgrading: some pod is not of the update revision.
MemberSetIsUpgrading(set) ==
  \/ StatefulSetIsUpgrading(set)
  \/ \E i \in Ordinals : Exists(i) /\ pods[i].rev # set.status.updateRev

\* The spec a manager builds from the CellCluster: the partition holds every
\* pod back until an upgrader lowers it.
NewSet(replicas, tmpl) ==
  [replicas |-> replicas, partition |-> replicas, tmpl |-> tmpl]

-----------------------------------------------------------------------------
(* stateful_set_control.go *)

\* CreateStatefulSet; `ok' is false when the request fails.  An object the
\* cache does not show yet is an AlreadyExists error.
CreateStatefulSet(new) ==
  \/ /\ ~sts.exists
     /\ sts' = Stored(new, new)
     /\ ver' = AllStale
     /\ UNCHANGED <<cache, pods, budget, req>>
  \/ sts.exists /\ UNCHANGED setVars
  \/ /\ budget.fail > 0
     /\ budget' = [budget EXCEPT !.fail = @ - 1]
     /\ UNCHANGED <<sts, cache, ver, pods, req>>

\* set := *oldSet, its template, replicas and strategy assigned, and
\* SetLastAppliedConfigAnnotation(&set): the cached object gets the new
\* replicas and annotation too while oldSet is the cached object.
SubmitUpdate(new) ==
  /\ cache' = IF ver.alias
              THEN [cache EXCEPT !.spec.replicas = new.replicas, !.applied = new]
              ELSE cache
  /\ req' = [tries |-> MaxTries, spec |-> new, applied |-> new]
  /\ UNCHANGED <<sts, ver, pods, budget>>

\* The API server accepts the update of an object of the current version.
UpdateAccepted ==
  /\ Writing /\ ver.req
  /\ sts' = Stored(req.spec, req.applied)
  /\ ver' = AllStale
  /\ req' = NoRequest
  /\ UNCHANGED <<cache, pods, budget>>

\* A conflict: the object is read again from the lister and only its spec is
\* replaced, so the annotation is the one the lister's copy carries.
UpdateConflict ==
  /\ Writing /\ ~ver.req
  /\ IF req.tries > 1
     THEN /\ req' = [req EXCEPT !.tries = @ - 1, !.applied = cache.applied]
          /\ ver' = [ver EXCEPT !.req = ver.cache]
     ELSE req' = NoRequest /\ UNCHANGED ver
  /\ UNCHANGED <<sts, cache, pods, budget>>

\* Any other error ends the call: the request never arrived, or it was
\* applied and only its answer was lost.
UpdateFailed ==
  /\ Writing /\ budget.fail > 0
  /\ budget' = [budget EXCEPT !.fail = @ - 1]
  /\ req' = NoRequest
  /\ \/ UNCHANGED <<sts, ver>>
     \/ ver.req /\ sts' = Stored(req.spec, req.applied) /\ ver' = AllStale
  /\ UNCHANGED <<cache, pods>>

UpdateStatefulSet == UpdateAccepted \/ UpdateConflict \/ UpdateFailed

ControlTypeOK ==
  /\ StsTypeOK
  /\ req \in [tries : 0 .. MaxTries, spec : Config, applied : Config]
=============================================================================
