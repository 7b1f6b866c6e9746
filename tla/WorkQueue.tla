----------------------------- MODULE WorkQueue -----------------------------
(***************************************************************************)
(* The controller of CellClusters: informer events, the rate-limited work  *)
(* queue and its workers (cell_cluster_controller.go, main.go, and the     *)
(* work queue of client-go it is built on).                                *)
(*                                                                         *)
(* An object is known by its resourceVersion and the uid that tells whose  *)
(* it is: a CellCluster's own, a StatefulSet's controller's.  One          *)
(* StatefulSet stands for the three a cluster has.                         *)
(***************************************************************************)
EXTENDS Naturals, Sequences

CONSTANTS
  Keys,          \* the CellClusters, by namespace and name
  Workers,       \* the workers of one operator
  MaxVersion,    \* bound on the changes of the objects
  MaxRestarts    \* bound on the restarts of the operator

Idle == "idle"   \* a worker without a key

ASSUME QueueAssumption ==
  /\ MaxVersion \in Nat
  /\ MaxRestarts \in Nat
  /\ Idle \notin Keys

VARIABLES
  rv,           \* the resourceVersion of the API server
  cc, set,      \* its CellClusters and StatefulSets
  ccCache, setCache,  \* the informers' copies
  started,      \* the workers run
  queue, dirty, processing,  \* the work queue
  waiting,      \* the keys whose retry waits for its delay
  worker,       \* what each worker works on
  seen,         \* what the last pass of each key began from
  restarts      \* restarts still allowed

apiVars == <<rv, cc, set>>
cacheVars == <<ccCache, setCache>>
queueVars == <<queue, dirty, processing>>
vars == <<apiVars, cacheVars, started, queueVars, waiting, worker, seen, restarts>>

Object == [rv : Nat, uid : Nat]
Absent == [rv |-> 0, uid |-> 0]
Exists(object) == object.rv # 0
NoObjects == [k \in Keys |-> Absent]
NothingSeen == [k \in Keys |-> [cc |-> Absent, set |-> Absent]]

Init ==
  /\ rv = 0 /\ cc = NoObjects /\ set = NoObjects
  /\ ccCache = NoObjects /\ setCache = NoObjects
  /\ started = FALSE
  /\ queue = <<>> /\ dirty = {} /\ processing = {} /\ waiting = {}
  /\ worker = [w \in Workers |-> Idle]
  /\ seen = NothingSeen
  /\ restarts = MaxRestarts

-----------------------------------------------------------------------------
(* The queue *)

\* Add: a key being processed is only marked, and queued by Done.
AddObject(k) ==
  /\ dirty' = dirty \cup {k}
  /\ queue' = IF k \in dirty \cup processing THEN queue ELSE Append(queue, ccCache[k])
  /\ UNCHANGED processing
AddProcessed(k) ==
  /\ dirty' = dirty \cup {k}
  /\ queue' = IF k \in dirty THEN queue ELSE Append(queue, k)
  /\ UNCHANGED processing
Add(k) ==
  /\ dirty' = dirty \cup {k}
  /\ queue' = IF k \in dirty \cup processing THEN queue ELSE Append(queue, k)
  /\ UNCHANGED processing

\* resolveCellClusterFromSet: a set counts when the cluster of that name is
\* cached and has the uid of the set's controller.
Owned(k, object) == /\ Exists(ccCache[k]) /\ Exists(object)
                    /\ object.uid = ccCache[k].uid

\* What a pass of k that began now would find.
View(k) == [cc |-> ccCache[k],
            set |-> IF Owned(k, setCache[k]) THEN setCache[k] ELSE Absent]

\* A worker takes the first key; sync reads the listers.
Get(w) ==
  /\ started /\ worker[w] = Idle /\ queue # <<>>
  /\ LET k == Head(queue)
     IN /\ worker' = [worker EXCEPT ![w] = k]
        /\ processing' = processing \cup {k}
        /\ dirty' = dirty \ {k}
        /\ seen' = [seen EXCEPT ![k] = View(k)]
  /\ queue' = Tail(queue)
  /\ UNCHANGED <<apiVars, cacheVars, started, waiting, restarts>>

\* Done: what came in for the key while it was processed is queued now.
DoneForgets(k) ==
  /\ processing' = processing \ {k} /\ dirty' = dirty \ {k}
  /\ UNCHANGED queue
DoneLeaves(k) ==
  /\ processing' = processing \ {k}
  /\ UNCHANGED <<queue, dirty>>
Done(k) ==
  /\ processing' = processing \ {k}
  /\ queue' = IF k \in dirty THEN Append(queue, k) ELSE queue
  /\ UNCHANGED dirty

\* The pass ends; a cluster that has been deleted is no error.
Finish(w, ok) ==
  /\ worker[w] # Idle
  /\ Exists(seen[worker[w]].cc) \/ ok
  /\ worker' = [worker EXCEPT ![w] = Idle]
  /\ waiting' = IF ok THEN waiting ELSE waiting \cup {worker[w]}
  /\ Done(worker[w])
  /\ UNCHANGED <<apiVars, cacheVars, started, seen, restarts>>

\* The delay of a retry is over.
Fire(k) ==
  /\ k \in waiting
  /\ waiting' = waiting \ {k}
  /\ Add(k)
  /\ UNCHANGED <<apiVars, cacheVars, started, worker, seen, restarts>>

-----------------------------------------------------------------------------
(* Events *)

\* A CellCluster was added, updated or deleted.
DeliverCC(k) ==
  /\ ccCache[k] # cc[k]
  /\ ccCache' = [ccCache EXCEPT ![k] = cc[k]]
  /\ Add(k)
  /\ UNCHANGED <<apiVars, setCache, started, waiting, worker, seen, restarts>>

\* Every 30 s each cached CellCluster is handed to the update handler again.  (So
\* is each StatefulSet, whose handler drops what has the same resourceVersion.)
ResyncChanged(k) ==
  /\ Exists(ccCache[k]) /\ ccCache[k].rv # seen[k].cc.rv
  /\ Add(k)
  /\ UNCHANGED <<apiVars, cacheVars, started, waiting, worker, seen, restarts>>
Resync(k) ==
  /\ Exists(ccCache[k])
  /\ Add(k)
  /\ UNCHANGED <<apiVars, cacheVars, started, waiting, worker, seen, restarts>>

\* A StatefulSet was added or updated, or deleted: then its last state says whose
\* it was.
LastAdded(k) == set[k]
Last(k) == IF Exists(set[k]) THEN set[k] ELSE setCache[k]
DeliverSet(k) ==
  /\ setCache[k] # set[k]
  /\ setCache' = [setCache EXCEPT ![k] = set[k]]
  /\ IF Owned(k, Last(k)) THEN Add(k) ELSE UNCHANGED queueVars
  /\ UNCHANGED <<apiVars, ccCache, started, waiting, worker, seen, restarts>>

-----------------------------------------------------------------------------
(* The process *)

\* The operator leads and the two informers Run waits for have listed.
Start ==
  /\ ~started
  /\ \A k \in Keys : /\ Exists(cc[k]) => Exists(ccCache[k])
                     /\ Exists(set[k]) => Exists(setCache[k])
  /\ started' = TRUE
  /\ UNCHANGED <<apiVars, cacheVars, queueVars, waiting, worker, seen, restarts>>

\* The next process knows nothing yet.
Terminate ==
  /\ ccCache' = NoObjects /\ setCache' = NoObjects
  /\ started' = FALSE
  /\ queue' = <<>> /\ dirty' = {} /\ processing' = {} /\ waiting' = {}
  /\ worker' = [w \in Workers |-> Idle]
  /\ seen' = NothingSeen
  /\ restarts' = restarts - 1
  /\ UNCHANGED apiVars

\* The lease is lost, or the pod.
Restart == restarts > 0 /\ Terminate

\* The watch broke and missed the deletion of a set.  The next list notices, and
\* deleteStatefulSet gets a tombstone: its set is nil, and it asks for the name.
Tombstone(k) ==
  /\ restarts > 0
  /\ Exists(setCache[k]) /\ ~Exists(set[k])
  /\ Terminate

-----------------------------------------------------------------------------
(* Users, Kubernetes and the writes of the passes *)

CreateCC(k) ==
  /\ ~Exists(cc[k]) /\ rv < MaxVersion
  /\ rv' = rv + 1
  /\ cc' = [cc EXCEPT ![k] = [rv |-> rv', uid |-> rv']]
  /\ UNCHANGED <<set, cacheVars, started, queueVars, waiting, worker, seen, restarts>>

\* An edit, or the write of a status.
UpdateCC(k) ==
  /\ Exists(cc[k]) /\ rv < MaxVersion
  /\ rv' = rv + 1
  /\ cc' = [cc EXCEPT ![k].rv = rv']
  /\ UNCHANGED <<set, cacheVars, started, queueVars, waiting, worker, seen, restarts>>

DeleteCC(k) ==
  /\ Exists(cc[k])
  /\ cc' = [cc EXCEPT ![k] = Absent]
  /\ UNCHANGED <<rv, set, cacheVars, started, queueVars, waiting, worker, seen, restarts>>

\* A pass creates the set of the cluster it began from.
CreateSet(w) ==
  /\ worker[w] # Idle
  /\ LET k == worker[w]
     IN /\ Exists(seen[k].cc) /\ ~Exists(setCache[k]) /\ ~Exists(set[k])
        /\ rv < MaxVersion
        /\ rv' = rv + 1
        /\ set' = [set EXCEPT ![k] = [rv |-> rv', uid |-> seen[k].cc.uid]]
  /\ UNCHANGED <<cc, cacheVars, started, queueVars, waiting, worker, seen, restarts>>

\* A pass updates it, or Kubernetes its status.
UpdateSet(k) ==
  /\ Exists(set[k]) /\ rv < MaxVersion
  /\ rv' = rv + 1
  /\ set' = [set EXCEPT ![k].rv = rv']
  /\ UNCHANGED <<cc, cacheVars, started, queueVars, waiting, worker, seen, restarts>>

\* Somebody deletes it, or the garbage collector when its cluster is gone.
DeleteSet(k) ==
  /\ Exists(set[k])
  /\ set' = [set EXCEPT ![k] = Absent]
  /\ UNCHANGED <<rv, cc, cacheVars, started, queueVars, waiting, worker, seen, restarts>>

Next ==
  \/ \E w \in Workers : Get(w) \/ Finish(w, TRUE) \/ Finish(w, FALSE) \/ CreateSet(w)
  \/ \E k \in Keys :
       \/ Fire(k) \/ DeliverCC(k) \/ Resync(k) \/ DeliverSet(k) \/ Tombstone(k)
       \/ CreateCC(k) \/ UpdateCC(k) \/ DeleteCC(k) \/ UpdateSet(k) \/ DeleteSet(k)
  \/ Start \/ Restart

\* Workers work, passes end, delays pass, watches deliver, informers resync, and
\* an operator gets the lease.  Nobody has to change anything.
Fairness ==
  /\ \A w \in Workers : WF_vars(Get(w)) /\ WF_vars(Finish(w, TRUE) \/ Finish(w, FALSE))
  /\ \A k \in Keys : /\ WF_vars(Fire(k)) /\ WF_vars(DeliverCC(k))
                     /\ WF_vars(DeliverSet(k)) /\ WF_vars(Resync(k))
  /\ WF_vars(Start)

Spec == Init /\ [][Next]_vars
FairSpec == Spec /\ Fairness

-----------------------------------------------------------------------------
(* Properties *)

\* Type correctness of the API server's objects, the caches and the queue.
TypeOK ==
  /\ rv \in Nat
  /\ cc \in [Keys -> Object] /\ set \in [Keys -> Object]
  /\ ccCache \in [Keys -> Object] /\ setCache \in [Keys -> Object]
  /\ started \in BOOLEAN
  /\ queue \in Seq(Keys)
  /\ dirty \in SUBSET Keys /\ processing \in SUBSET Keys /\ waiting \in SUBSET Keys
  /\ worker \in [Workers -> Keys \cup {Idle}]
  /\ seen \in [Keys -> [cc : Object, set : Object]]
  /\ restarts \in Nat

\* Two workers never pass the same CellCluster, whatever events, failures and
\* retries come while one does ("never invoked concurrently with the same key").
OneWorkerPerKey ==
  \A v, w \in Workers : v # w /\ worker[v] # Idle => worker[v] # worker[w]

\* When the caches show a pass something its predecessor did not see, the pass is
\* due: the handlers and Done lose no event, although sets are resolved through
\* the cache of another informer and a key being processed is not queued.
NoEventLost == \A k \in Keys : seen[k] # View(k) => k \in dirty

\* The queue implements what the passes are promised.
Promise == INSTANCE Passes WITH
  news <- {k \in Keys : seen[k] # View(k)},
  due <- dirty \cup waiting,
  running <- processing
ImplementsPasses == Promise!Spec

\* Once nothing changes any more, a pass began from every CellCluster as it is,
\* and from its set.  No resync is needed for that, and none would do it for a set.
Current(k) ==
  /\ Exists(cc[k]) => seen[k].cc = cc[k]
  /\ Exists(cc[k]) /\ Exists(set[k]) /\ set[k].uid = cc[k].uid => seen[k].set = set[k]
CatchesUp == \A k \in Keys : <>[]Current(k)

\* While a CellCluster exists its passes go on forever: what a pass could not do
\* yet (a pod that is not ready, a store that has not joined) is looked at again.
PassesRecur == \A k \in Keys : <>[]Exists(cc[k]) => []<>(k \in processing)
=============================================================================
