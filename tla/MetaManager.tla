---------------------------- MODULE MetaManager ----------------------------
(***************************************************************************)
(* Pods, the claims they mount and the volumes bound to them: the reclaim  *)
(* policy manager, the orphan pods cleaner and the meta manager, which one *)
(* pass runs in this order, with the controls they write through.  The     *)
(* meta manager copies what PD knows of a pod (the cluster's id, the       *)
(* member's id) to the pod's labels, from there to its claim and from      *)
(* there to its volume.  It sets the labels on the object of the shared    *)
(* cache before it submits it.                                             *)
(***************************************************************************)
EXTENDS Naturals

CONSTANTS
  PDs, Stores, Proxies,   \* the pods' names, by component
  MaxFaults,              \* bounds: edits, deletions, restarts, writes by others, PD
                          \* not answering,
  MaxFailures,            \* requests that fail otherwise than by a conflict,
  MaxTries                \* and the attempts of RetryOnConflict

ASSUME MetaAssumption ==
  /\ PDs \cup Stores \cup Proxies # {}
  /\ MaxFaults \in Nat /\ MaxFailures \in Nat /\ MaxTries \in Nat \ {0}

VARIABLES
  stored,    \* the objects in the API server
  cache,     \* the informers' copies
  current,   \* whether a copy has the stored object's version
  member,    \* the last id PD gave a member of the pod's name
  joined,    \* whether PD lists that member
  policy,    \* spec.pvReclaimPolicy
  pass,      \* where the pass is, the pods it has still to see, the pod it holds
  req,       \* the update in flight
  budget

vars == <<stored, cache, current, member, joined, policy, pass, req, budget>>

Pods == PDs \cup Stores \cup Proxies
Kinds == {"pod", "claim", "volume"}
HasVolume(p) == p \notin Proxies
Policies == {"Delete", "Retain"}

\* An object is there, with what the passes read in its spec, and its labels.
Ids == 0 .. MaxFaults + 1
Labels == [cluster : BOOLEAN, id : Ids]
Unlabelled == [cluster |-> FALSE, id |-> 0]
Object == [spec : {"none", "pod", "unbound", "bound"} \cup Policies, labels : Labels]
New(spec) == [spec |-> spec, labels |-> Unlabelled]
Nothing == New("none")
Exists(object) == object.spec # "none"

NoRequest == [tries |-> 0, labels |-> Unlabelled, current |-> FALSE]
Writing == req.tries > 0

\* A change of an object makes every copy of it an old one.
Changed(p, kinds) ==
  current' = [current EXCEPT ![p] = [k \in Kinds |-> @[k] /\ k \notin kinds]]
Outdated(p, kinds) ==
  /\ Changed(p, kinds)
  /\ req' = [req EXCEPT !.current = @ /\ ~(pass.on = p /\ pass.at \in kinds)]

Spend(what) == budget[what] > 0 /\ budget' = [budget EXCEPT ![what] = @ - 1]

StartOf(stage) == [at |-> stage, todo |-> Pods, on |-> CHOOSE p \in Pods : TRUE,
                   labels |-> Unlabelled]

Init ==
  /\ stored = [p \in Pods |-> [k \in Kinds |-> Nothing]] /\ cache = stored
  /\ current = [p \in Pods |-> [k \in Kinds |-> TRUE]]
  /\ member = [p \in Pods |-> 0] /\ joined = [p \in Pods |-> FALSE]
  /\ policy = "Retain"
  /\ pass = StartOf("reclaim") /\ req = NoRequest
  /\ budget = [faults |-> MaxFaults, failures |-> MaxFailures]

\* Done with a pod, in a stage; the next stage, or the next pass.
NextStageMeta == [reclaim |-> "orphans", orphans |-> "meta", pod |-> "reclaim"]
NextStage == [reclaim |-> "orphans", orphans |-> "pod", pod |-> "reclaim"]
Seen(stage, p) ==
  IF pass.todo = {p} THEN StartOf(NextStage[stage])
  ELSE [StartOf(stage) EXCEPT !.todo = pass.todo \ {p}]
EndPass == pass' = StartOf("reclaim")

-----------------------------------------------------------------------------
(* The reclaim policy manager and the orphan pods cleaner *)

\* The policy a volume has.
PolicyRightOnce(volume) == volume.spec = "Retain"
PolicyRight(volume) == volume.spec = policy

\* The patch names the volume and not its version.
ReclaimPolicy(p) ==
  LET volume == cache[p]["volume"] IN
  /\ pass.at = "reclaim" /\ p \in pass.todo
  /\ IF cache[p]["claim"].spec # "bound" \/ PolicyRight(volume)
     THEN pass' = Seen("reclaim", p) /\ UNCHANGED <<stored, current, budget>>
     ELSE \/ /\ Exists(volume) /\ Exists(stored[p]["volume"])
             /\ stored' = [stored EXCEPT ![p]["volume"].spec = policy]
             /\ Changed(p, {"volume"})
             /\ pass' = Seen("reclaim", p) /\ UNCHANGED budget
          \/ /\ ~Exists(volume) \/ ~Exists(stored[p]["volume"]) \* not found: the error
             /\ EndPass /\ UNCHANGED <<stored, current, budget>>
          \/ EndPass /\ Spend("failures") /\ UNCHANGED <<stored, current>>
  /\ UNCHANGED <<cache, member, joined, policy, req>>

\* A pod is an orphan when the cache of the claims has not its claim.
Orphan(p) == HasVolume(p) /\ Exists(cache[p]["pod"]) /\ ~Exists(cache[p]["claim"])

Clean(p) ==
  /\ pass.at = "orphans" /\ p \in pass.todo
  /\ IF ~Orphan(p)
     THEN pass' = Seen("orphans", p) /\ UNCHANGED <<stored, current, budget>>
     ELSE \/ /\ Exists(stored[p]["pod"])
             /\ stored' = [stored EXCEPT ![p]["pod"] = Nothing] /\ Changed(p, {"pod"})
             /\ pass' = Seen("orphans", p) /\ UNCHANGED budget
          \/ ~Exists(stored[p]["pod"]) /\ EndPass /\ UNCHANGED <<stored, current, budget>>
          \/ EndPass /\ Spend("failures") /\ UNCHANGED <<stored, current>>
  /\ UNCHANGED <<cache, member, joined, policy, req>>

-----------------------------------------------------------------------------
(* The meta manager *)

\* setIfNotEmpty, of both labels.
SetIfNotEmpty(labels, new) ==
  [cluster |-> labels.cluster \/ new.cluster, id |-> IF new.id = 0 THEN labels.id ELSE new.id]

\* What PD says of a pod.  A store is never found: the address it registers under
\* is not its pod's bare name.
ListedLast(p) == IF p \in PDs THEN member[p] ELSE 0
Listed(p) == IF p \in PDs /\ joined[p] THEN member[p] ELSE 0
PodLabelsOnce(p) ==
  LET labels == cache[p]["pod"].labels IN
  IF labels.cluster THEN labels ELSE [cluster |-> TRUE, id |-> Listed(p)]
PodLabels(p) ==
  LET labels == cache[p]["pod"].labels IN
  [cluster |-> TRUE, id |-> IF labels.id = 0 THEN Listed(p) ELSE labels.id]

\* Where the pass goes from an object: from the pod it holds to the claim, from a
\* bound claim to the volume.
Onwards(p, k, labels) ==
  CASE k = "pod" /\ HasVolume(p) -> [pass EXCEPT !.at = "claim", !.on = p, !.labels = labels]
    [] k = "claim" /\ cache[p]["claim"].spec = "bound" -> [pass EXCEPT !.at = "volume"]
    [] OTHER -> Seen("pod", p)

\* Labels a cached object, unless it has the labels, and submits it.
Label(p, k, labels, same) ==
  IF same THEN pass' = Onwards(p, k, cache[p][k].labels) /\ UNCHANGED <<cache, req>>
  ELSE /\ cache' = [cache EXCEPT ![p][k].labels = labels]
       /\ req' = [tries |-> MaxTries, labels |-> labels, current |-> current[p][k]]
       /\ pass' = [pass EXCEPT !.at = k, !.on = p]

\* PD is asked for the cluster's id, a PD's member and a store's id that the pod
\* lacks; when one of them is not answered nothing is labelled.
Asks(p, labels) == ~labels.cluster \/ (HasVolume(p) /\ labels.id = 0)
NoAnswerLabelled(p) == cache' = [cache EXCEPT ![p]["pod"].labels.cluster = TRUE]
NoAnswer(p) == UNCHANGED cache

UpdatePod(p) ==
  /\ pass.at = "pod" /\ ~Writing /\ p \in pass.todo
  /\ \/ /\ Exists(cache[p]["pod"])
        /\ Label(p, "pod", PodLabels(p), cache[p]["pod"].labels = PodLabels(p))
        /\ UNCHANGED budget
     \/ /\ ~Exists(cache[p]["pod"])
        /\ pass' = Seen("pod", p) /\ UNCHANGED <<cache, req, budget>>
     \/ /\ Exists(cache[p]["pod"]) /\ Asks(p, cache[p]["pod"].labels)
        /\ NoAnswer(p) /\ EndPass /\ Spend("faults") /\ UNCHANGED req
  /\ UNCHANGED <<stored, current, member, joined, policy>>

UpdateClaim ==
  LET p == pass.on  labels == cache[p]["claim"].labels IN
  /\ pass.at = "claim" /\ ~Writing
  /\ IF Exists(cache[p]["claim"])
     THEN Label(p, "claim", SetIfNotEmpty(labels, pass.labels), labels = pass.labels)
     ELSE EndPass /\ UNCHANGED <<cache, req>>
  /\ UNCHANGED <<stored, current, member, joined, policy, budget>>

UpdateVolume ==
  LET p == pass.on
      labels == cache[p]["volume"].labels
      ofClaim == cache[p]["claim"].labels
  IN
  /\ pass.at = "volume" /\ ~Writing
  /\ IF Exists(cache[p]["volume"])
     THEN Label(p, "volume", SetIfNotEmpty(labels, ofClaim),
                ~Exists(cache[p]["claim"]) \/ labels = ofClaim)
     ELSE EndPass /\ UNCHANGED <<cache, req>>
  /\ UNCHANGED <<stored, current, member, joined, policy, budget>>

-----------------------------------------------------------------------------
(* The update in flight *)

\* An update that changes nothing makes no new version.
Accepted ==
  LET p == pass.on  k == pass.at IN
  /\ Writing /\ Exists(stored[p][k]) /\ req.current
  /\ stored' = [stored EXCEPT ![p][k].labels = req.labels]
  /\ IF stored[p][k].labels = req.labels THEN UNCHANGED current ELSE Changed(p, {k})
  /\ req' = NoRequest /\ pass' = Onwards(p, k, req.labels)
  /\ UNCHANGED <<cache, member, joined, policy, budget>>

\* The next attempt submits a copy of what the lister now has, with the labels of
\* this one.
Retried(p, k) ==
  /\ req' = [req EXCEPT !.tries = @ - 1, !.current = current[p][k]]
  /\ UNCHANGED cache

Conflict ==
  /\ Writing /\ Exists(stored[pass.on][pass.at]) /\ ~req.current
  /\ IF req.tries > 1 THEN Retried(pass.on, pass.at) /\ UNCHANGED pass
     ELSE req' = NoRequest /\ EndPass /\ UNCHANGED cache
  /\ UNCHANGED <<stored, current, member, joined, policy, budget>>

NotFound ==
  /\ Writing /\ ~Exists(stored[pass.on][pass.at])
  /\ req' = NoRequest /\ EndPass
  /\ UNCHANGED <<stored, cache, current, member, joined, policy, budget>>

\* The request fails, before or after it is carried out.
Failed ==
  LET p == pass.on  k == pass.at IN
  /\ Writing /\ Spend("failures")
  /\ \/ UNCHANGED <<stored, current>>
     \/ /\ Exists(stored[p][k]) /\ req.current
        /\ stored' = [stored EXCEPT ![p][k].labels = req.labels] /\ Changed(p, {k})
  /\ req' = NoRequest /\ EndPass
  /\ UNCHANGED <<cache, member, joined, policy>>

-----------------------------------------------------------------------------
(* Around the passes *)

\* The watches of the three kinds run independently.
Deliver(p, k) ==
  /\ ~current[p][k]
  /\ cache' = [cache EXCEPT ![p][k] = stored[p][k]]
  /\ current' = [current EXCEPT ![p][k] = TRUE]
  /\ UNCHANGED <<stored, member, joined, policy, pass, req, budget>>

\* The operator starts again.  Its workers do not wait for the caches to be filled.
Restart ==
  /\ Spend("faults")
  /\ cache' = [p \in Pods |-> [k \in Kinds |-> Nothing]]
  /\ current' = [p \in Pods |-> [k \in Kinds |-> ~Exists(stored[p][k])]]
  /\ pass' = StartOf("reclaim") /\ req' = NoRequest
  /\ UNCHANGED <<stored, member, joined, policy>>

\* The StatefulSet controller makes the claim a pod lacks, and the pod.
CreatePod(p) ==
  LET makes == {"pod"} \cup
        IF HasVolume(p) /\ ~Exists(stored[p]["claim"]) THEN {"claim"} ELSE {}
  IN
  /\ ~Exists(stored[p]["pod"])
  /\ stored' = [stored EXCEPT ![p] = [k \in Kinds |->
       IF k \notin makes THEN @[k] ELSE New(IF k = "pod" THEN "pod" ELSE "unbound")]]
  /\ Outdated(p, makes)
  /\ UNCHANGED <<cache, member, joined, policy, pass, budget>>

\* A volume is provisioned, with the policy of the storage class.
Bind(p) ==
  /\ stored[p]["claim"].spec = "unbound"
  /\ stored' = [stored EXCEPT ![p]["claim"].spec = "bound", ![p]["volume"] = New("Delete")]
  /\ Outdated(p, {"claim", "volume"})
  /\ UNCHANGED <<cache, member, joined, policy, pass, budget>>

\* A PD starts on a claim without data: it joins as a new member.
Join(p) ==
  /\ p \in PDs /\ ~joined[p] /\ Exists(stored[p]["pod"]) /\ Exists(stored[p]["claim"])
  /\ member' = [member EXCEPT ![p] = @ + 1] /\ joined' = [joined EXCEPT ![p] = TRUE]
  /\ UNCHANGED <<stored, cache, current, policy, pass, req, budget>>

\* Somebody deletes the pod (a rolling update, an eviction), or replaces a member:
\* removes it from PD and deletes the claim, whose volume is then out of the
\* passes' sight.
DeletePod(p) ==
  /\ Exists(stored[p]["pod"]) /\ Spend("faults")
  /\ stored' = [stored EXCEPT ![p]["pod"] = Nothing] /\ Outdated(p, {"pod"})
  /\ UNCHANGED <<cache, member, joined, policy, pass>>

DeleteClaim(p) ==
  /\ Exists(stored[p]["claim"]) /\ Spend("faults")
  /\ stored' = [stored EXCEPT ![p]["claim"] = Nothing, ![p]["volume"] = Nothing]
  /\ Outdated(p, {"claim", "volume"})
  /\ joined' = [joined EXCEPT ![p] = FALSE]
  /\ UNCHANGED <<cache, member, policy, pass>>

\* Somebody writes the object's status.
Touch(p, k) ==
  /\ Exists(stored[p][k]) /\ Spend("faults")
  /\ Outdated(p, {k})
  /\ UNCHANGED <<stored, cache, member, joined, policy, pass>>

EditPolicy ==
  /\ Spend("faults")
  /\ \E new \in Policies \ {policy} : policy' = new
  /\ UNCHANGED <<stored, cache, current, member, joined, pass, req>>

Meta == (\E p \in Pods : UpdatePod(p)) \/ UpdateClaim \/ UpdateVolume
Answered == Accepted \/ Conflict \/ NotFound

Next ==
  \/ \E p \in Pods :
       \/ ReclaimPolicy(p) \/ Clean(p)
       \/ CreatePod(p) \/ Bind(p) \/ Join(p) \/ DeletePod(p) \/ DeleteClaim(p)
       \/ \E k \in Kinds : Deliver(p, k) \/ Touch(p, k)
  \/ Meta \/ Answered \/ Failed \/ Restart \/ EditPolicy

\* Passes recur and go on, requests end, events arrive, and Kubernetes and PD do
\* their part.
Fairness ==
  /\ WF_vars(\E p \in Pods : ReclaimPolicy(p) \/ Clean(p)) /\ WF_vars(Meta)
  /\ WF_vars(Answered)
  /\ \A p \in Pods :
       /\ WF_vars(CreatePod(p)) /\ WF_vars(Bind(p)) /\ WF_vars(Join(p))
       /\ \A k \in Kinds : WF_vars(Deliver(p, k))

Spec == Init /\ [][Next]_vars
FairSpec == Spec /\ Fairness

-----------------------------------------------------------------------------
(* Properties *)

\* Type correctness of the objects, the copies, the pass and the request.
TypeOK ==
  /\ stored \in [Pods -> [Kinds -> Object]] /\ cache \in [Pods -> [Kinds -> Object]]
  /\ current \in [Pods -> [Kinds -> BOOLEAN]]
  /\ member \in [Pods -> Ids] /\ joined \in [Pods -> BOOLEAN]
  /\ policy \in Policies
  /\ pass \in [at : {"reclaim", "orphans"} \cup Kinds, todo : SUBSET Pods, on : Pods,
               labels : Labels]
  /\ req \in [tries : 0 .. MaxTries, labels : Labels, current : BOOLEAN]
  /\ budget \in [faults : 0 .. MaxFaults, failures : 0 .. MaxFailures]

\* A copy that will not be replaced, of an object nobody is writing, has labels the
\* API server does not: the passes skip the object and no event corrects it.
Stuck(p, k) ==
  /\ current[p][k] /\ cache[p][k].labels # stored[p][k].labels
  /\ ~(Writing /\ pass.on = p /\ pass.at = k)

\* Labels set in the shared cache before the update (pod_control.go:161,
\* pvc_control.go:141, pv_control.go:129) outlive an update that is not carried
\* out only if a request failed by other than a conflict or a missing object:
\* conflicts, restarts and deletions leave a cache that tells what is stored.
CacheTells ==
  budget.failures = MaxFailures => \A p \in Pods, k \in Kinds : ~Stuck(p, k)

\* A pod that has an id although the member of its claim has another one, or is yet
\* to join.
Misled(p) ==
  /\ Exists(stored[p]["claim"])
  /\ stored[p]["pod"].labels.id \notin {0} \cup (IF joined[p] THEN {member[p]} ELSE {})

Labelled(p) ==
  LET labels(k) == stored[p][k].labels IN
  /\ \A k \in Kinds : k = "pod" \/ HasVolume(p) => Exists(stored[p][k]) /\ labels(k).cluster
  /\ p \in PDs => labels("pod").id = member[p] \/ Misled(p)
  /\ HasVolume(p) => labels("claim").id = labels("pod").id /\ labels("volume").id = labels("pod").id

\* Through restarts, deletions and pods cleaned because a claim was not in the
\* cache yet, every pod comes back, and it, its claim and its volume come to carry
\* the same ids (meta_manager.go:57), a PD that of its member unless it was misled,
\* and unless the cache of one of them got stuck on a failed update.
MetaSettles ==
  <>[](\A p \in Pods : Labelled(p) \/ \E k \in Kinds : Stuck(p, k))

\* Only a retry misleads a pod (pod_control.go:180; no later pass corrects it): a
\* first attempt never gives a pod the id of a former member, whatever was deleted
\* or replaced between the reading of PD, of the cache and the update.
MisledByRetry ==
  [][\A p \in PDs : Misled(p)' => Misled(p) \/ (Writing /\ req.tries < MaxTries)]_vars

\* The policy the user asks for reaches every volume (reclaim_policy_manager.go:41),
\* whatever requests fail.
PoliciesSettle ==
  <>[](\A p \in Pods : HasVolume(p) => stored[p]["volume"].spec = policy)
=============================================================================
