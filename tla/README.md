# A TLA+ model of elasticell-operator

elasticell-operator runs [elasticell](../src/README.md) clusters on Kubernetes. A user writes a
`CellCluster` object; the operator creates and updates one StatefulSet each for PD (the placement
driver, an etcd cluster), for the store and for the proxy, and everything it knows of them comes
back through informer caches and PD's HTTP API. This directory models that program in TLA+: the
modules are translated from the Go code under `src/`, checked by TLC on small instances and, where
that is within reach, proved by TLAPS for every instance.

`PROJECT.json` is the index: components, runs, the source lines behind each definition, hazards,
findings, theorems.

## 1. The system

| component | state it keeps | operations | interacts with |
|---|---|---|---|
| **StatefulSet update path** (`stateful_set_control.go`, `member/utils.go`) | none of its own; the *last-applied-config* annotation of each set | compare, create, update with `RetryOnConflict` | API server, informer cache (shared pointers) |
| **PD member manager, upgrader** (`pd_member_manager.go`, `pd_upgrader.go`) | `status.pd`: phase, synced, members | create, sync status, forced and graceful upgrade, update | the above; PD's health API |
| **store member manager, upgrader, scaler** | `status.store`: phase, synced, stores, tombstones; pod and claim annotations | create, sync, evict leaders, upgrade, scale out | the above; `status.pd` |
| **proxy member manager, upgrader** | `status.proxy`: phase | create, sync, upgrade, scale | the above; `status.pd`, `status.store` |
| **CellCluster pass** (`cell_cluster_control.go`, `cellcluster_control.go`) | the pass's copy of the CellCluster | reclaim policy, orphan pods, PD, store, proxy, meta, in this order; one status write with retry | all managers; the discovery service writes the same object |
| **controller and work queue** (`cell_cluster_controller.go`) | the queue | enqueue on events, one pass per key at a time, rate-limited requeue | informers |
| **discovery service** (`discovery.go`) | the PD pods that asked, in memory; `spec.pdPeerURL/RPC` in the CellCluster | `Discover`, `GetStoreConfig`, `GetProxyConfig` | start scripts of the pods (`until wget ...`) |
| **scheduler extender** (`predicates/ha.go`) | a PVC annotation used as a lock per component | acquire the lock, filter the nodes | kube-scheduler |
| **meta, reclaim-policy manager, orphan-pod cleaner** | labels and annotations of pods, claims and volumes | copy ids from PD to pods, from pods to claims and volumes; delete pods without a claim | PD, API server |
| **services** (`service_control.go` and the managers) | the *last-applied-config* annotation of each service | build, compare, create, update with a retry that never resolves a conflict | API server, informer cache (shared pointers) |

What makes this program hard is never one handler. It is that every pass decides from *copies*: an
informer cache that lags behind, a status Kubernetes wrote for an older generation, a health answer
read before the pods were, an object another writer is changing. The copies are reconciled by
resourceVersion checks and blind retries. On top of that the pods come and go on their own, the
operator restarts, requests fail after they were applied, and the user edits the spec in the middle
of an upgrade. For each component this is what has to be right:

* *update path*: a stored spec and its annotation describe each other; an update that fails is
  repeated; a retry does not undo somebody else's write.
* *PD*: an upgrade goes from the highest ordinal down, one member at a time, each one healthy before
  the next; PD keeps its quorum; the number of members never changes; the roll completes; a bad image
  can be left again.
* *store, proxy*: only one component upgrades at a time; scaling waits for upgrades; both complete.
* *discovery*: PD bootstraps exactly once, with every process in the same initial cluster.
* *scheduler*: two pods of a component never share a node; the lock is never lost for good.
* *pass and queue*: no event is lost, a failed pass is run again, a status write never reverts a spec.

## 2. Modules

| module | models | |
|---|---|---|
| `StatefulSet` | Kubernetes around one set: the API object, the informer cache, the StatefulSet controller, the kubelet, the member processes. External: modelled from how `src/` uses it. | extended by the next |
| `StatefulSetControl` | `utils.go` and `stateful_set_control.go`: comparisons, create, update, conflict retry, the shared cached object | extended by the members |
| `PDMember` | `pd_member_manager.go`, `pd_upgrader.go` | `MCPDMember`, `PDMemberProofs` |
| `Rollout` | abstract: what the upgrade of a set of members promises | refined by `PDMember` and `StoreMember` |
| `ProxyMember` | `proxy_member_manager.go`, `proxy_upgrader.go` | `MCProxyMember`, `ProxyMemberProofs` |
| `StoreMember` | `store_member_manager.go`, `store_upgrader.go`, `store_scaler.go` | `MCStoreMember`, `StoreMemberProofs` |
| `Bootstrap` | abstract: what discovery promises | refined by `Discovery` |
| `Discovery` | `discovery.go` and the start scripts' retries | `MCDiscovery`, `DiscoveryProofs` |
| `HAScheduler` | `predicates/ha.go`, `scheduler.go`; beside it `UpdateMetaInfo` of `pvc_control.go` | `MCHAScheduler`, `HAProofs` |

| `CellClusterPass` | `cell_cluster_control.go`, `cellcluster_control.go`: the three managers composed, the status write, the other writers of the object | `MCCellClusterPass`, `CellClusterProofs` |
| `Passes` | abstract: what the work queue promises those who write passes | refined by `WorkQueue` |
| `WorkQueue` | `cell_cluster_controller.go`, `main.go`, and client-go's work queue (vendored) | `MCWorkQueue`, `WorkQueueProofs` |
| `Services` | the services' part of the PD and store managers, `service_control.go` | `MCServices` |
| `MetaManager` | `meta_manager.go`, `reclaim_policy_manager.go`, `orphan_pods_cleaner.go`, the pod, claim and volume controls | `MCMetaManager`, `MetaProofs` |

How they fit together: `WorkQueue` shows that passes recur and run one at a time per cluster, which
is what the other modules take as fairness of their pass. `CellClusterPass` composes PD, store and
proxy at the level of their phases; what happens inside a manager's step is in `PDMember`, `StoreMember`
and `ProxyMember`, where the other two components are an environment (`others`, PD's state). `Services`
and `MetaManager` are the parts of a pass that share nothing with the StatefulSets but the order.
### How the state corresponds to the code

**A set and its copies.** `sts` is the object in the API server, `cache` the informer's copy, `req`
the object in flight while `UpdateStatefulSet` runs, `pass.old` the object a pass got from the
lister. ResourceVersions are never counted: `ver.cache` and `ver.req` say whether the cache and the
request still carry the current one, which is all an optimistic update asks. Every write of `sts`, by
the operator or by Kubernetes (`ObserveStatus`), clears both.

**The shared object.** The lister returns a pointer into the cache. `set := *oldSet` copies the
struct, but the annotations map and `*set.Spec.Replicas` stay shared, so `SetLastAppliedConfigAnnotation`
and the assignment of the replicas write the cached object. `ver.alias` says that the pass's object still is the
cached one (a delivery replaces the object in the cache; it does not change it), and `SubmitUpdate`
writes `cache` exactly then. The template and the strategy are assigned to the copy and do not leak.

**Comparisons.** A template is a revision number; a set's spec is its replicas, its partition and
its template, which is what `statefulSetEqual` looks at; `applied` is the annotation. The annotation
the template itself carries always describes that template (it is part of the spec that is stored,
retries included), so `TemplateEqual` compares templates. The comment "TODO FIXME equal is false every
time" (`pd_member_manager.go:198`) does not hold in the steady state: the annotation is encoded before
the template's own annotation is added, and decoded into the same types, so a set nobody changed does
compare equal.

**The pass.** A pass of a manager is three or more steps, split where it talks to somebody else:
`SyncStatus` reads the set from the cache, the pods for the phase and (PD) the health; `Upgrade` reads
the pods again, lets the upgrader choose the partition and submits the update; `UpdateAccepted`,
`UpdateConflict` and `UpdateFailed` are the attempts of the update. Kubernetes, deliveries, the user and
restarts move in between. The phase and health that the pass computes are used by the same pass;
between passes they are kept in the CellCluster's status, and every pass computes them anew.

**PD starts.** A member that was never started waits in its start script until discovery answers
(`scripts/_start_pd.sh.tpl:69`). `PDMember` has that in two variables, where `Discovery` has the calls: `asked`, the pods
that have asked, and `known`, whether the initial cluster is written. `Discover(i)` writes it when as many pods as
`spec.pd.replicas` have asked, and `StartsAnswered` lets no member come up before. So there is no health and no graceful
upgrade before the bootstrap: the way out of an image that cannot be pulled is the forced one.

**The upgraders.** Both walk from `status.replicas - 1` down, past the pods that have the update
revision and are healthy, to the first one that is not: `Pending` is the set of those the walk cannot
pass, and the partition is its maximum if that pod has another revision. A missing pod or an unhealthy
upgraded one ends the pass with an error and no write.

**The stores.** `joined` are the stores PD knows, `evict` the annotation on each pod: absent, set less
than three minutes ago, or longer. A pass keeps what PD listed at its beginning (`pass.stores`,
`pass.down`) and walks over the pods later: `Stop` is the ordinal the walk ends at, `WalkResult` the partition and
the annotations it leaves. The requests that evict leaders are stubs that return nil
(`pd_control.go:354`), so which stores lead is a constant: only the wait of three minutes is real.

**The abstract rollout.** `Rollout` knows the template asked for, that of each member (0 while its pod is gone),
which members serve, and which have handed over what they lead. `Ask` is the write of a new template to the set, `HandOver` the end
of an eviction's three minutes, `TakeDown`, `BringBack` and `Serve` what Kubernetes does to a pod; a pass, the cache, the partition, the
phases and the revisions are not in it. `TakeDown` has the promise: from the highest ordinal down, each member once per
template, none that leads before it has handed over, and only while the others serve, but for those `Tolerated`: one in PD
(`DisruptionBound`), none of the stores. What has been handed over is never taken back while the pod lives: `endEvictLeader`
never finds an annotation to delete, as the only stores it comes to are upgraded, and their old pods took the annotation along.

**Discovery.** One call is at most two steps, because its only interleaving point is between the get
and the update of the CellCluster; the mutex (`NotBusy`) keeps other calls out. `args[c]` is what the
process in pod `c` was started with.

**The scheduler.** The extender's mutex makes calls exclusive: `call` is the one it serves. A call lists
the claims (`Acquire`), deletes the annotation of the holder (`Release`), sets its own (`Take`), and
counts pods and answers (`Answer`); every update may conflict, fail, or fail after it was applied.
`locked` is the set of annotated claims, and since the first one listed counts as the holder's, pods are numbered in the
order of the list. The operator's meta manager is the other writer of those
annotations (`MetaRead`, `MetaWrite`); `stale` says of which claims each of the two holds an old copy.
`overwritten` is a history variable: a retry of `MetaWrite` has changed an annotation (`pvc_control.go:152`).
kube-scheduler and the volume binder are external: the volumes are local and bound at the first consumer
(`manifests/local-volume-provisioner.yaml`), so a claim is bound before its pod and pins it.

**The CellCluster pass.** `cc` is the object, `ccCache` the informer's copy, `pass` the copy the pass works
on, with the status it began from; `current` says which copies have the stored resourceVersion. `stage`
is the manager whose turn it is. `SyncMember(c)` is one manager: it is blocked (`Blocked`), creates its
set, or syncs status, upgrades and updates (`SyncSet`), and then the next one follows or, on an error, the
status write. `WriteStatus` is the comparison with the status the pass began from and each attempt
of the write. `SyncSet` is one step for what `PDMember` and the others split; that the sets are written
only if the cached one is the stored one, and that what is read of the set is the cached one, is kept.

**The work queue.** `queue`, `dirty` and `processing` are client-go's; `waiting` are the keys whose
retry waits for its rate limit. `seen` is a history variable: what the last pass of a key
began from. `View` is what a pass would find now, and so the news of `Passes` is `seen # View`. A restart
forgets everything but the API server. `Tombstone` is the nil dereference in `deleteStatefulSet`: the
operator dies and starts again.

**Services.** `applied` is the annotation, with the address or without it, since that is what decides
whether two annotations are equal. The client service gets its annotation after the address was
copied into the spec and the headless one's annotation is set on the object that is not submitted (`Changed`),
so that either is updated in every pass once it was updated; `Conflict` sends the same object again, because the
condition in `service_control.go:84` is inverted, and `Panic` is its other branch.

**Pods, claims and volumes.** `stored` and `cache` hold the three objects of each pod, `current` says which copies
are up to date. `Label` sets the labels in the cached object and submits it (the lister returns
a pointer here too); `Retried` is the conflict retry with a copy of what the lister has by then, and the
labels of this pass. The reclaim policy is a patch and needs no version. `member` is the id PD gave, a
new one for every claim without data. `Misled` is a pod whose id is not that of its claim's member.

## 3. Abstractions and bounds

* `MaxReplicas` bounds the ordinals: 3 members are the least for which a minority, a majority and a
  roll with a pod above and a pod below exist; where only copies matter (`proxy_gate`) 2.
* `Revisions`: two templates tell old from new; `BadRevisions` are those whose image cannot be pulled.
* `MaxEdits`, `MaxCrashes`, `MaxFailures`, `MaxRestarts` bound what the user and the faults may do; a
  single one of each already interleaves with every step of a pass.
* `MaxTries` bounds the attempts of `RetryOnConflict`: 2 in the runs where the library's default is 4
  (`DefaultBackoff`). What matters is that there is a first try, a retry and a last one, and with 2 the
  retry is the last one.
* Pod informers are taken to be current when a step reads them; a lagging pod cache would add copies of
  pods as there are copies of the set. The watch of the sets does lag.
* The StatefulSet controller is the one of parallel pod management the managers ask for: pods are
  created and deleted in any order, a rolling update goes down to the partition and waits for the pods
  above, and the status is written at the end of a sync.
* `MetaTries` is 4 in both runs of the scheduler, as in `DefaultBackoff`. `ha` has two pods and two nodes, and two faults, two moves
  and two updates, so that one of each can go wrong while the other is undone; with a third pod, or a third of any of them, it
  takes more states than a run may. `ha_lock` has three pods and three nodes. That the lock is kept is proved for any number of all of these.
* The stores' edits (`Asks`) are a new template or one more store, of two (`MaxReplicas = 3`): a store
  above the one that rolls, and room for one to add. PD may be unavailable or upgrading at first and
  then comes to rest.
* Two edits, in `pd_roll`, are the least with a roll that finds what another left behind. They are
  of a user who waits (`PatientSpec`): each comes when the set, its copies, a request in flight and all pods show the template asked for
  before (`AtRest`). Without that the properties do not hold (see the limits). The stores' `PatientSpec` is for the proofs: with
  `SPECIFICATION PatientSpec`, `MaxReplicas = 2`, `MaxEdits = 2`, no failures and `Asks <- [replicas : {2}, tmpl : {1, 2}]` (as a
  definition of `MCStoreMember`) the run `store` has some 330,000 states and finds `EvictsFirst` and `ImplementsRollout` to hold as well.
* `CellClusterPass`: one member per component; a copy of a StatefulSet that shows
  the stored values counts as the stored version; `status.updateRevision` is taken to follow the
  template at once; the failures of the reclaim policy manager, the orphan cleaner and the services are
  the fault in `Begin`; the meta manager adds nothing to the status. Two pairs of components are edited
  at a time, so that each gate has somebody to hold back; PD's member can crash.
* `WorkQueue`: one StatefulSet stands for the three of a cluster; three versions are enough to create
  a cluster, its set and change one of them, or to delete and create again under another uid.
* `Services`: the headless services of PD and of the stores are one; three changes, three faults and
  three attempts let both be changed, and one changed back, while each is updated.
* `MetaManager`: one PD pod with its claim and volume, one fault, one failed request. A second pod multiplies the
  states past what a run may take; what is lost with it is that an error at one pod ends the pass for
  the pods after it, which a later pass makes up for. The proofs are for any number of pods.
* Not modelled of these components: timestamps, `status.*.members` beyond health, events, logging, the
  text of configurations.

## 4. Runs

| run | configuration | expected | properties | what it shows |
|---|---|---|---|---|
| `pd_roll` | `PDRoll.cfg` | pass | `TypeOK`, `RollsTopDown`, `DisruptionBound`, `Converges`, `ImplementsRollout` | Two template edits of a running three-member PD, the second when the first roll is over, with conflicts and a restart of the operator: each roll goes from the top down, disrupts one member at a time but for the one whose health was read too early, implements the abstract rollout, and completes. |
| `pd_faults` | `PDFaults.cfg` | pass | `ReplicasFixed`, `NeverScales`, `Recovers` | From creation on, with an image that cannot be pulled, through an edit, a crash, a failed request and a restart: no copy of the set the operator holds has other replicas, PD is never scaled, and it comes to run the template asked for in the end, from the bad image too. |
| `proxy_gate` | `ProxyGate.cfg` | pass | `TypeOK`, `HoldsTemplate` | While PD or the store upgrades, a template edit reaches the proxies' set only through a conflict retry with an older copy. |
| `proxy_upgrade` | `ProxyUpgrade.cfg` | violation | `Converges` | A proxy upgrade stops after its first pod: the member status it waits for is never written. |
| `store` | `Store.cfg` | pass | `TypeOK`, `EvictsFirst`, `Converges`, `ImplementsRollout` | Two stores, created or running, get another template or a third store while PD comes to rest, with a failed request and a restart: no store that leads cells is exposed to the rolling update before its eviction had its time, each is replaced once and while the other runs, and without failures the stores become what was asked for. |
| `queue` | `WorkQueue.cfg` | pass | `TypeOK`, `OneWorkerPerKey`, `NoEventLost`, `ImplementsPasses`, `CatchesUp`, `PassesRecur` | A CellCluster and its set are created, changed and deleted by anybody while two workers pass, fail and retry and the operator restarts or dies of a tombstone: no event is lost, no two workers have one key, the last state of the objects is seen, and passes recur. |
| `cluster` | `CellCluster.cfg` | pass | `TypeOK`, `SpecKept`, `OneRollAtATime`, `Converges`, `StatusSettles` | A cluster comes up, or gets new templates for several components at once, while the discovery service writes the same object, a member crashes or a request fails: specs are never undone, the components roll one at a time, all come to what was asked for, and the status says so. |
| `services` | `Services.cfg` | pass | `TypeOK`, `ServicesConverge` | The services get another type and another operator version, with conflicts that are never resolved within a pass, a nil that kills the operator and a cache written before the API server: each comes to have the spec asked for. |
| `meta` | `Meta.cfg` | pass | `TypeOK`, `CacheTells`, `MetaSettles`, `PoliciesSettle`, `MisledByRetry` | A PD pod, its claim and its volume through a deletion, a replaced member, a restart, another writer, a PD that does not answer or a failed request: the ids reach all three, the policy reaches the volume, a label set in the shared cache is lost only to a failed request, and only a retry gives a pod a former member's id. |
| `discovery` | `Discovery.cfg` | pass | `TypeOK`, `Agreement`, `ClaimSound`, `BootstrapsOnce`, `Bootstraps` | Three PD pods and a store bootstrap with lost answers, restarts and concurrent writes of the CellCluster: one initial cluster, the same for every process; all the pods if the replicas are left alone; and only replicas other than the number of pods keep a process waiting for ever. |
| `ha` | `HA.cfg` | pass | `TypeOK`, `LockKept`, `AllPlaced` | With two faults, two deleted pods or lost placements and two updates of claims, tried four times as in the code: until a retried update of the operator has changed an annotation the scheduling lock has one holder and pods are placed one at a time up to the binding of the claim; and every pod gets a node. |
| `ha_lock` | `HALock.cfg` | violation | `Exclusive` | An update of a claim that the operator retries after a conflict deletes the scheduling lock that the extender has set in between, or puts it back: two pods without a bound claim are then placed at a time. |

Deadlock is checked in every run but three. In `ha` and `ha_lock` nothing is left to do once all pods have their nodes;
in `queue` an operator without CellClusters, which nobody can create any more once the versions are used
up, really waits for ever.

### Fairness

In `WorkQueue` the workers, the ends of passes, the delays of retries, the watches and the resync are weakly
fair (`main.go:46`: every 30 s), and an operator gets the lease in the end; `PassesRecur` and `CatchesUp` are
shown from that, and the other modules' fairness of the pass rests on `PassesRecur`. `Pass` is weakly fair: the informers are resynced every 30 s (`cmd/controller-manager/main.go:46`), each
resync enqueues the CellCluster, and a failed pass is requeued. The attempts of an update are fair, as
the retry loop is bounded and requests return; deliveries are fair, as a watch reconnects. Kubernetes is fair:
status writes, rolling updates, pod creation and start, for each pod; and so is `Discover` of `PDMember`, for a start script asks
until it is answered. Nothing obliges the user to edit,
a request to fail, a process to crash or the operator to restart. In `Discovery` a call is *strongly*
fair: the start script asks again every few seconds, and whether the mutex is free when it does is on and off. For
the same reason `Acquire` is strongly fair for each pod in `HAScheduler`: kube-scheduler keeps a pod
without a node in its queue and comes back to it. Calls end, and kube-scheduler binds what it has chosen.
In `CellClusterPass`, `Services` and `MetaManager` the steps of the pass, the answers to its
requests, the deliveries and (for each object) Kubernetes are weakly fair; edits, failures, crashes,
restarts and the writes of others are not.

### What the violations show

Each one contradicts a sentence of the repository, quoted under `findings` in `PROJECT.json`.

1. `proxy_upgrade`: `status.proxy.members` is never written, so the upgrade of the proxies stops after
   the first pod.
2. `ha_lock`: the operator reads a claim, the extender sets the scheduling lock on it, the operator's update conflicts, and the
   retry sends the annotations that were read first, without the lock. The pod has its node by then and its claim is not bound:
   another pod takes the lock and is placed at the same time, where one node may be chosen for both.

### Limits of the properties that pass

* `RollsTopDown`, `DisruptionBound` and `ImplementsRollout` of PD are for any number of edits that each wait for the roll before
  (`PatientSpec`). With a second edit before the first roll is observed (`FairSpec` in `PDRoll.cfg`) the
  first does not hold: the cached `status.updateRevision` is that of
  the first edit, whose pods look upgraded, and the partition is lowered past them. An edit that is undone is enough.
* `DisruptionBound` allows one other member to be down, because `pdUpgrader` takes the
  health from the beginning of the pass and reads each pod's revision later (`pd_upgrader.go:87`): a member that was
  healthy when asked and was replaced since counts as upgraded and healthy, the next one is taken
  down, and with three members PD is then without its quorum. Members that crash on their own come on top.
* `OneRollAtATime` is for one edit. With two, an edit undone while its member is replaced leaves a set
  whose current and update revisions are equal again, so that it looks at rest before the member is back.
* `Recovers` is for one edit, and for a cluster no request of which fails. When an edit is undone while the update for it
  conflicts, the set keeps what was withdrawn: the retry puts the pass's spec on the lister's newer object and
  leaves that object's annotation (`stateful_set_control.go:89`), which already says what is wanted again, so that every later pass
  finds the set equal (`utils.go`) and sends nothing. TLC shows it with `MaxEdits = 2` and
  `BadRevisions = {}` in `PDFaults.cfg` (two members and no fault but the crash are enough). No document or comment of the repository promises what is broken there, and it has no run.
* `HoldsTemplate` excepts retries: a gated pass that decided from an older copy puts that copy's
  template back over a newer one when it is retried.
* The proxies are scaled in `proxy_gate`; that a template reaches all of them is what `proxy_upgrade` refutes.
* `ImplementsRollout` is checked and proved without members that crash on their own (`MaxCrashes = 0`). The walk of a store's
  upgrade, like that of PD's, looks at no pod below the first it has to upgrade, so that one is taken down although another has
  crashed below it.
* `EvictsFirst` and `Converges` of the stores are for one edit, of the template or of the replicas, or for edits of
  the template that wait for the roll before (`PatientSpec`), and for a PD that comes to rest. Beyond that they do not hold; TLC shows each of these ways out when its
  bound is lifted: an edit of both at once lets the walk pass a new store PD does not know yet and lower the partition
  below it (`store_upgrader.go:77`); replicas lowered together with the template give a partition below
  stores that exist (`store_member_manager.go:397`); a PD upgrade that begins in the middle of the
  stores' resets the partition, and a pass retried over that lowers it again before the store that Kubernetes
  put back has been evicted; and with two edits a retried pass writes its replicas over a larger
  number, although `README.md:37` says "Store can only scale out but scale in".
  `Converges` also supposes that no request fails: the annotation is written into the cached object before
  the request is sent (`pd_member_manager.go:204`), and a request that fails looks applied to every later pass,
  until another write of the set is delivered or the operator restarts.
* `LockKept` ends with the first retry of the operator that changes an annotation. What the lock is for, `Exclusive`, does not
  hold with the program's retries: that is `ha_lock`. `Exclusive` also ends where the code's lock ends, at the
  binding of the claim, and so does not give one pod per node: the pods are counted by `spec.nodeName`, which is set after that
  (`ha.go:185`), and with fewer nodes than pods the last pod is refused.
* One pod per node is the constant of the code; the comment above `Filter` (`ha.go:69`) speaks of
  `(replicas+1)/2`.
* `Bootstraps` is conditional. An edit of `spec.pd.replicas` during the bootstrap can make `len(peers) == replicas`
  impossible (the `TODO` in `discovery.go:168`), and then PD waits for ever. It can also fix an initial cluster that is not the
  whole set: with the replicas lowered to two for a while, two pods register and are written, and the third process is
  started with an initial cluster it is not in. What holds in any case is that all are started with the same.
* `SpecKept` is about the objects, not the passes: a pass that began before an edit still creates or
  updates sets for the older spec; the next one corrects it (`Converges`).
* `ServicesConverge` is checked without a rollback of the operator. With one (`Rollback = TRUE` in
  `Services.cfg`) TLC refutes it: the headless services' annotation still is that of the creation, so the older operator finds the
  newer spec equal (`pd_member_manager.go:147`, `store_member_manager.go:129`).
* `MetaSettles` and `CacheTells` except the cache that a failed request leaves behind: its labels say
  what was never stored, and the object is skipped until a watch event or a restart. That ids once written are
  never erased does not hold: a retry of an older pass can put the labels of that pass back. The next pass repairs
  an id that was erased, but not one that is wrong: `pod_control.go:180` asks PD only for a pod without an id. So a pod created
  for a replaced member can keep the former member's id for ever, and hand it to its claim and volume. `MetaSettles`
  excepts that pod (`Misled`); the run contains the case (a pod the orphan cleaner deleted, whose member is replaced, during a
  retry), and `MisledByRetry` says that there is no other way to it. The orphan cleaner deletes pods whose claims are not cached yet, for `Run` waits only for two of the caches
  (`cell_cluster_controller.go:198`); they come back.
* `Listed` states that a store's id is never found: `pod_control.go:147` compares the host of the store's address with
  the pod's bare name, and the stores register under a longer name
  (`charts/cell-cluster/templates/scripts/_start_store.sh.tpl:28`), although `cell_cluster_control.go:143` promises the id.
* `Discovery`: the resourceVersion that `clusterInfo` stores is compared with nothing
  (`discovery.go:173`); peers of a deleted cluster of the same name can be counted for the new one. The model
  has one CellCluster, and restarts empty the memory.
* One operator runs at a time. A leader that lost its lease exits, and a write of it that is still on its way
  (`main.go:131`) is refused like any write of an older version; the models have no second operator.

Every property of a passing run has a mutant in `PROJECT.json`: a change of a translated definition, of
the kind a programmer could make, under which TLC refutes the property with the same configuration.

## 5. Proofs

`tlapm` checks every theorem from the definitions, with the SMT, Zenon and PTL backends only.

**`DiscoveryProofs`**, for any finite non-empty set of PD pods, any other clients, edits and numbers of
faults (`DiscoveryAssumption`). `TypeCorrect` first. `Agreement` is not inductive: it does not
exclude a call in flight that overwrites peers already given out. `ClaimSound` is what is missing: a call
that can still succeed (`call.fresh`) found no peers, and there are none since, because whoever wrote
them made it stale; and it writes a non-empty set, as its own pod is registered. The conjunction of the
three is inductive. `Refinement` follows from it: each action maps to `Choose`, `Start`, `ChooseAndStart`,
`Stop` or a stutter of `Bootstrap` under `cluster <- cc.peers`, `started <- args`; "the peers are
written once" is exactly that `UpdateCC` maps to a `Choose`.

**`PDMemberProofs`**, for any number of replicas, templates, retries and faults (the assumptions of
`StatefulSet`, `StatefulSetControl` and `PDMember`). `TypeCorrect` is proved action by action; the
hard part is that the partition the upgrader computes is an ordinal. `ReplicasNeverChange`
(`NeverScales`) needs more than the guard that compares two replicas: the compared object is a copy, the
update goes out later and may be retried over an object nobody compared. `ReplicasFixed` carries it: the
cache, the pass's set and the request in flight agree with the stored set on the replicas at any time,
however old they are and although `SubmitUpdate` writes the cached object, because no step ever changes
the stored ones; with `TypeOK` this is inductive, and the action property follows.

`TopDown` (`RollsTopDown`) and `DisruptionIsBounded` (`DisruptionBound`) are about `PatientSpec`, the run of a cluster at
rest with any number of edits, each when the roll before is over. Their hypotheses are the limits above, and a first template whose image can be
pulled, as at rest it has been. `TopDownOnce` has no `AtRest` but one edit (`MaxEdits <= 1`), and `OneEditIsPatient` says that without crashes such a
run is a patient one. `RollsTopDown` alone is far from inductive, for the upgrader goes by a cached set,
and by the update revision in the status of that cached set. `RollInv(b)` says how far these may lag in a roll from template `b`. Every template
and revision, in the set, the cache, the pass, the request and the pods, is `b` or the new one, and none is
ahead of the object it was copied from (`Asked`, `Copies`, `PodsFollow`). As long as a copy in use shows the
old update revision, under which the upgrader cannot tell the upgraded pods, nothing has been replaced, and a copy
that has the new template has the partition that holds all back (`NothingMissed`). A request that lowers the
partition was made when all above it had been upgraded (`Lowers`), and as no upgraded pod is ever replaced again, that
is still so when the last retry is stored. The forced upgrade, which would skip the check, needs failed
pods of the current revision (`NeverForced`). For the bound, `Serving` adds: the members not yet replaced serve
(`OthersServe`, the one place where a crash would matter), a member that the pass found healthy can only have gone
down at the stored partition (`HealthHolds`), and so, of those above the partition in flight and of those above the
stored one, at most one is down (`LowersOnce`, `OneDown`). When the next edit comes, `AtRest` makes the template of
the roll that is over the `b` of the next one (`NextRoll`): the invariant is that there is such a `b`.

`RollRefines` (`ImplementsRollout`) is the refinement of `Rollout` under the same hypotheses, step by step. A write that is stored is an `Ask`
or a stutter: when it changes the template, all members have that of the set (`Ask` needs it, the code does not check it). A pod that is deleted is a
`TakeDown`: the members above it are renewed, for Kubernetes waits for them, those below have not been replaced, and of all of them
at most one is down, as for `DisruptionBound`. One that is created is a `BringBack` with the set's template: `RevisionFor`
would give one below the partition the old template, but none is missing there.

**`HAProofs`**, for any pods, nodes, faults and any number of tries (`HAAssumption`). `TypeCorrect`, and
`LockHolds` (`LockKept`). `OneHolder` and `Exclusive` are not
inductive, because a call acts on what it listed some steps before: `CallInv` adds that in `release` the
holder is still the one found and its claim is bound, in `take` there is no holder, and in `count` the
pod of the call is the holder; `CopyInv` that the operator's first copy, unless it is old and thus refused,
shows the annotation as it is, so that a first try leaves the lock alone. A retry goes by the same copy with a newer version, and
`CopyInv` says nothing of it: a retry either changes no annotation or sets `overwritten`, which is never reset
(`OverwrittenStays`). From `CallInv` and `Exclusive`
follows `NobodyPlaced`: while the lock changes hands no pod is being placed.

**`StoreMemberProofs`**, for any number of stores, any of them with leaders, and any faults. `TypeCorrect` first. Then
`LeadersAreEvictedFirst` (`EvictsFirst`), from both initial states, for one edit (`MaxEdits <= 1`) that changes the
template or the replicas but not both, the limits above. `Safe` is a disjunction. A cluster that
is created or scaled has one template everywhere (`OneTemplate`), and nothing is exposed. In a roll from template `b` (`Roll(b)`) the templates and
revisions lag as they do for PD (`Asked`, `Copies`, `Stores`, `NothingMissed`). New are three things. The manager does
not only lower the partition: while it waits for an eviction it writes that of its old set again, which can
be higher than the stored one; so `Moves` says both of what a write lowers and of what it raises, and `TopDown` that
the stores below the partition are there. When the roll ends and the manager takes the set for one at rest
it writes the full partition (`RestIsSeen`: only after the roll). And the eviction: every copy of a partition that can
still be written, the stored, the cached, the pass's and the request's, exposes only stores that have had their time
(`Evicted`). The time must then not be taken away again: `EvictionKept` shows that the walk ends evictions only of stores it
passes, which are upgraded, and that it stops at the highest that is not: a finite set of ordinals has a
greatest element, `Greatest`, by the well-foundedness of the naturals. `PatientLeadersAreEvictedFirst` is the same for any number of
edits under `PatientSpec`, with members that crash: the invariant is that there is a `b`, and `NextRoll` that at rest the template
asked for is one.

`RollRefines` and `PatientRollRefines` (`ImplementsRollout`) are the refinement of `Rollout`, for one edit from both initial states and for
any number of patient ones. `Roll(b)` does not say that the stores serve, nor that nothing was handed over too early; `RollFine(b)`
adds it. `FirstRun`: a store of the old template runs, and so do all below it (the one place where a crash would matter), so that
what Kubernetes takes down it takes down alone. `Annotated`: annotations are on stores that exist and lead. `NotAhead`: none is set
before the update revision of the new template is seen, or of a store that is upgraded, so that no eviction is left when the next
roll begins and no pass ever takes one back (`RefinedUpgrade`). A cluster of one template (`Quiet`) evicts nothing, and
deletes no store of those created first, because what is stored never has fewer (`ScaledGrows`).

**`ProxyMemberProofs`**, for any number of proxies, templates, edits, attempts and faults. `TypeCorrect`, and
`GateHolds` (`HoldsTemplate`): the gate is in the pass and the write comes later, so what has to be known is
what a resourceVersion vouches for. `TemplatesAgree` says it: a cache, a pass or a first attempt that has the
set's version has the set's template, although passes write annotations and replicas into the cached
object without changing its version. Retries are outside it, as they are outside the property.

**`CellClusterProofs`**, for any sets of edits and of members that crash, faults and attempts. `TypeCorrect` is
proved action by action, `SyncMemberType` being the manager's step. `SpecIsKept` (`SpecKept`) rests on
`CopiesAreTrue`: while its version is the stored one, the cache is the object, and the pass has its spec and its
initial members. A retry takes both from the lister's object and its version with them, which is what keeps
that true. `OneRoll`
(`OneRollAtATime`) is for one edit of any of the components (`MaxEdits <= 1`). The gates compare what
passes have read at different times: phases found on cached sets, in a pass over a cached CellCluster. `RollsForward`
orders all these copies: each set's template is behind that of any cached or running pass, and a cached set
behind its set. `SetsFollow` says that a set is only opened for a new template that the cache already shows, so an open
set never looks at rest in the copy the next manager reads (`ExposedIsSeen`). `Cleared` puts the two together along
the pass: when it has come to a component and found none before it upgrading, none before it is open. Nothing
but the one pass opens a set (`OthersExpose`), so that is still so when it opens the next.

**`WorkQueueProofs`**, for any CellClusters and workers and any number of changes and restarts. `Types`;
`PassesRunAlone` by the correspondence of `worker`, `processing` and the queue: a queued key is dirty and not
processed, no key is queued twice, and two workers have different keys. `EventsAreKept` (`NoEventLost`)
needs what the handler of the sets relies on: it resolves the owner through the cache of the CellClusters, and a set
whose owner is not cached is not in any view either. `QueueKeepsPromise` is the refinement of `Passes`: every step
learns, begins, ends, restarts, or leaves news, due and running alone.

**`MetaProofs`**, for any pods, faults, failures and attempts. `TypeCorrect` needs that PD gives no more ids than
claims were made (`MembersCounted`). `CacheIsTrue` (`CacheTells`) is not inductive: between the write of the cached
object and the answer the two differ. `Tells` excepts exactly the object that a request that can still be
accepted is for; once another writer makes that request's copy an old one, the cached object is old as well, so the
event that must come replaces it. `OnlyRetriesMislead` (`MisledByRetry`) needs to know what a first attempt carries. The pass asks PD
at one moment and the update is stored at another, and in between the pod, the claim and the member may be
replaced. `Backed` says when an id can still be given to a pod: it is the id the pod has, or that of the member its claim has; or
the claim is gone, for then the new claim comes with a new pod, whose creation makes the copy an old one. `Justified` says so of
every copy that has the stored version and of a first attempt that can succeed; with the invariant of `CacheIsTrue` it is inductive. A
retry takes its version from another copy than its labels, and so is outside it.

Only model-checked: all liveness (fairness and ENABLED are out of the prover's reach), and the types of the services, whose
other property is liveness. Every other invariant and action property that a passing run checks is a theorem.

## 6. Not modelled

* The rest of `pkg/apis`, the generated client, `pkg/util`, `pkg/label` and `pkg/version`: data types,
  generated code, names and flags. They keep no state; where a value of a module stands for one of them, `map` says so.
* Leader election, the informers and the API server's storage: client-go and Kubernetes, modelled from
  how `src/` uses them (deliveries that may lag, watches that may break, resourceVersions).
* The start scripts in `charts/` beyond their retries, and the elasticell processes.
* Events, logs, metrics and the texts of configurations: no other part reads them.
* Code that nothing calls: the deferred deletion of PD claims, scaling in and the labels of stores (both commented out of the pass), `UpdatePVC`,
  `DeletePVC`, `DeleteService`, `EvictLeader` beyond its stub.

## 7. Plan

What would come next, the most important first.

1. `StoreMember`, continued: PD upgrades that begin at any time, crashes of stores (with one the run `store` holds too, at
   five times the states), and tombstones, store labels and scaling in once their calls are no longer commented out.
2. `Rollout` with members that crash, tolerated below the one that is taken down, and the members of `CellClusterPass` as
   instances of it.
3. Proofs: `OneRollAtATime` for any number of edits that wait for the roll before to be observed; what the roll of PD
   promises while members crash; `TypeOK` of `Services`.
4. A second pod in `meta`, so that an error at one pod ends the pass for the next.
