-------------------------- MODULE WorkQueueProofs --------------------------
(***************************************************************************)
(* The work queue, for any number of clusters, workers, changes and        *)
(* restarts: one pass of a cluster at a time, no event lost, and the       *)
(* promise of Passes kept.                                                 *)
(***************************************************************************)
EXTENDS WorkQueue, TLAPS

USE QueueAssumption

-----------------------------------------------------------------------------
(* Types *)

LEMMA NoObjectType ==
  /\ Absent \in Object /\ NoObjects \in [Keys -> Object]
  /\ NothingSeen \in [Keys -> [cc : Object, set : Object]]
  BY DEF Absent, Object, NoObjects, NothingSeen

LEMMA ChangedType ==
  ASSUME NEW o \in Object, NEW n \in Nat
  PROVE  [o EXCEPT !.rv = n] \in Object /\ [rv |-> n, uid |-> n] \in Object
  BY DEF Object

LEMMA EmptyQueue ==
  /\ <<>> \in Seq(Keys)
  /\ [w \in Workers |-> Idle] \in [Workers -> Keys \cup {Idle}]
  OBVIOUS

LEMMA ViewType ==
  ASSUME TypeOK, NEW k \in Keys
  PROVE  View(k) \in [cc : Object, set : Object]
  BY NoObjectType DEF TypeOK, View

LEMMA AddType ==
  ASSUME TypeOK, NEW k \in Keys, Add(k)
  PROVE  queue' \in Seq(Keys) /\ dirty' \subseteq Keys /\ processing' \subseteq Keys
  BY DEF TypeOK, Add

LEMMA TerminateType ==
  ASSUME TypeOK, restarts > 0, Terminate
  PROVE  TypeOK'
<1>1. restarts - 1 \in Nat
  BY DEF TypeOK
<1>2. QED
  BY <1>1, NoObjectType, EmptyQueue DEF TypeOK, Terminate, apiVars

LEMMA TypeInit == Init => TypeOK
<1>1. SUFFICES ASSUME Init PROVE TypeOK
  OBVIOUS
<1>2. /\ queue \in Seq(Keys) /\ worker \in [Workers -> Keys \cup {Idle}]
      /\ cc \in [Keys -> Object] /\ set \in [Keys -> Object]
      /\ ccCache \in [Keys -> Object] /\ setCache \in [Keys -> Object]
      /\ seen \in [Keys -> [cc : Object, set : Object]]
  BY <1>1, NoObjectType, EmptyQueue DEF Init
<1>3. QED
  BY <1>1, <1>2 DEF Init, TypeOK

LEMMA TypeStep == TypeOK /\ [Next]_vars => TypeOK'
<1> SUFFICES ASSUME TypeOK, [Next]_vars PROVE TypeOK'
  OBVIOUS
<1> USE DEF apiVars, cacheVars, queueVars
<1>1. ASSUME NEW w \in Workers, Get(w) PROVE TypeOK'
  <2>1. /\ Head(queue) \in Keys /\ Tail(queue) \in Seq(Keys)
    BY <1>1 DEF Get, TypeOK
  <2>2. View(Head(queue)) \in [cc : Object, set : Object]
    BY <2>1, ViewType
  <2>3. QED
    BY <1>1, <2>1, <2>2 DEF Get, TypeOK
<1>2. ASSUME NEW w \in Workers, NEW ok \in BOOLEAN, Finish(w, ok) PROVE TypeOK'
  BY <1>2 DEF Finish, Done, TypeOK
<1>3. ASSUME NEW w \in Workers, CreateSet(w) PROVE TypeOK'
  <2>1. worker[w] \in Keys /\ seen[worker[w]].cc.uid \in Nat /\ rv + 1 \in Nat
    BY <1>3 DEF CreateSet, TypeOK, Object
  <2>2. set' \in [Keys -> Object] /\ rv' \in Nat
    BY <1>3, <2>1 DEF CreateSet, TypeOK, Object
  <2>3. QED
    BY <1>3, <2>2 DEF CreateSet, TypeOK
<1>4. ASSUME NEW k \in Keys, Fire(k) \/ Resync(k) PROVE TypeOK'
  BY <1>4, AddType DEF Fire, Resync, TypeOK
<1>5. ASSUME NEW k \in Keys, DeliverCC(k) PROVE TypeOK'
  BY <1>5, AddType DEF DeliverCC, TypeOK
<1>6. ASSUME NEW k \in Keys, DeliverSet(k) PROVE TypeOK'
  BY <1>6, AddType DEF DeliverSet, TypeOK
<1>7. ASSUME NEW k \in Keys, CreateCC(k) \/ UpdateCC(k) \/ DeleteCC(k) PROVE TypeOK'
  <2>1. cc[k] \in Object /\ rv + 1 \in Nat
    BY DEF TypeOK
  <2>2. /\ [cc[k] EXCEPT !.rv = rv + 1] \in Object
        /\ [rv |-> rv + 1, uid |-> rv + 1] \in Object
    BY <2>1, ChangedType
  <2>3. \E o \in Object : cc' = [cc EXCEPT ![k] = o]
    <3>1. CASE CreateCC(k)
      BY <2>2, <3>1 DEF CreateCC
    <3>2. CASE UpdateCC(k)
      <4>1. cc' = [cc EXCEPT ![k] = [cc[k] EXCEPT !.rv = rv + 1]]
        BY <3>2 DEF UpdateCC
      <4>2. QED
        BY <2>2, <4>1
    <3>3. CASE DeleteCC(k)
      BY <3>3, NoObjectType DEF DeleteCC
    <3>4. QED
      BY <1>7, <3>1, <3>2, <3>3
  <2>4. cc' \in [Keys -> Object] /\ rv' \in Nat
    BY <1>7, <2>1, <2>3 DEF CreateCC, UpdateCC, DeleteCC, TypeOK
  <2>5. QED
    BY <1>7, <2>4 DEF CreateCC, UpdateCC, DeleteCC, TypeOK
<1>8. ASSUME NEW k \in Keys, UpdateSet(k) \/ DeleteSet(k) PROVE TypeOK'
  <2>1. set[k] \in Object /\ rv + 1 \in Nat
    BY DEF TypeOK
  <2>2. [set[k] EXCEPT !.rv = rv + 1] \in Object
    BY <2>1, ChangedType
  <2>3. \E o \in Object : set' = [set EXCEPT ![k] = o]
    <3>1. CASE UpdateSet(k)
      <4>1. set' = [set EXCEPT ![k] = [set[k] EXCEPT !.rv = rv + 1]]
        BY <3>1 DEF UpdateSet
      <4>2. QED
        BY <2>2, <4>1
    <3>2. CASE DeleteSet(k)
      BY <3>2, NoObjectType DEF DeleteSet
    <3>3. QED
      BY <1>8, <3>1, <3>2
  <2>4. set' \in [Keys -> Object] /\ rv' \in Nat
    BY <1>8, <2>1, <2>3 DEF UpdateSet, DeleteSet, TypeOK
  <2>5. QED
    BY <1>8, <2>4 DEF UpdateSet, DeleteSet, TypeOK
<1>9. CASE Start
  BY <1>9 DEF Start, TypeOK
<1>10. CASE Restart \/ \E k \in Keys : Tombstone(k)
  BY <1>10, TerminateType DEF Restart, Tombstone
<1>11. CASE UNCHANGED vars
  BY <1>11 DEF vars, TypeOK
<1>12. QED
  BY <1>1, <1>2, <1>3, <1>4, <1>5, <1>6, <1>7, <1>8, <1>9, <1>10, <1>11 DEF Next

\* The API server's objects, the caches and the queue keep their types.
THEOREM Types == Spec => []TypeOK
<1>1. QED
  BY TypeInit, TypeStep, PTL DEF Spec

-----------------------------------------------------------------------------
(* One worker per key *)

\* A key that is processed has exactly one worker.
Assigned ==
  /\ OneWorkerPerKey
  /\ \A w \in Workers : worker[w] # Idle => worker[w] \in processing
  /\ \A k \in processing : \E w \in Workers : worker[w] = k

\* The queue holds each key that is dirty and not processed, once.
Queued ==
  /\ \A i, j \in 1 .. Len(queue) : queue[i] = queue[j] => i = j
  /\ \A i \in 1 .. Len(queue) : queue[i] \in dirty \ processing
  /\ \A k \in dirty \ processing : \E i \in 1 .. Len(queue) : queue[i] = k

\* A queue that held a set of keys holds another key once it is appended.
LEMMA AppendHolds ==
  ASSUME NEW S, NEW q \in Seq(S), NEW k \in S,
         \A i, j \in 1 .. Len(q) : q[i] = q[j] => i = j,
         \A i \in 1 .. Len(q) : q[i] # k
  PROVE  /\ Len(Append(q, k)) = Len(q) + 1
         /\ \A i, j \in 1 .. Len(Append(q, k)) :
              Append(q, k)[i] = Append(q, k)[j] => i = j
         /\ \A i \in 1 .. Len(q) : Append(q, k)[i] = q[i]
         /\ Append(q, k)[Len(q) + 1] = k
  OBVIOUS

LEMMA AddQueues ==
  ASSUME TypeOK, Queued, NEW k \in Keys, Add(k)
  PROVE  Queued'
<1>1. CASE k \in dirty \cup processing
  BY <1>1 DEF Add, Queued
<1>2. CASE k \notin dirty \cup processing
  <2> DEFINE q == Append(queue, k)
  <2>1. queue' = q /\ dirty' = dirty \cup {k} /\ processing' = processing
    BY <1>2 DEF Add
  <2>2. /\ Len(q) = Len(queue) + 1
        /\ \A i, j \in 1 .. Len(q) : q[i] = q[j] => i = j
        /\ \A i \in 1 .. Len(queue) : q[i] = queue[i]
        /\ q[Len(queue) + 1] = k
    BY <1>2, AppendHolds DEF Queued, TypeOK
  <2>3. Len(queue) \in Nat
    BY DEF TypeOK
  <2> HIDE DEF q
  <2>4. \A i \in 1 .. Len(q) : i \in 1 .. Len(queue) \/ i = Len(queue) + 1
    BY <2>2, <2>3
  <2>5. \A i \in 1 .. Len(q) : q[i] \in (dirty \cup {k}) \ processing
    BY <1>2, <2>2, <2>4 DEF Queued
  <2>6. \A m \in (dirty \cup {k}) \ processing : \E i \in 1 .. Len(q) : q[i] = m
    BY <2>2, <2>3 DEF Queued
  <2>7. QED
    BY <2>1, <2>2, <2>5, <2>6 DEF Queued
<1>3. QED
  BY <1>1, <1>2

\* Taking the head leaves the others.
LEMMA TailHolds ==
  ASSUME NEW S, NEW q \in Seq(S), q # <<>>
  PROVE  /\ Len(q) \in Nat \ {0} /\ Len(Tail(q)) = Len(q) - 1
         /\ Head(q) = q[1]
         /\ \A i \in 1 .. Len(Tail(q)) : Tail(q)[i] = q[i + 1]
  OBVIOUS

LEMMA GetQueues ==
  ASSUME TypeOK, Queued, Assigned, NEW w \in Workers, Get(w)
  PROVE  Queued' /\ Assigned'
<1> DEFINE k == Head(queue)
           q == Tail(queue)
<1>1. /\ worker' = [worker EXCEPT ![w] = k] /\ processing' = processing \cup {k}
      /\ dirty' = dirty \ {k} /\ queue' = q /\ worker[w] = Idle
  BY DEF Get
<1>2. /\ Len(queue) \in Nat \ {0} /\ Len(q) = Len(queue) - 1
      /\ k = queue[1] /\ \A i \in 1 .. Len(q) : q[i] = queue[i + 1]
  BY TailHolds DEF Get, TypeOK
<1> HIDE DEF k, q
<1>3. k \in dirty \ processing /\ k \in Keys
  BY <1>2 DEF Queued, TypeOK
<1>4. Queued'
  <2>1. \A i, j \in 1 .. Len(q) : q[i] = q[j] => i = j
    <3> SUFFICES ASSUME NEW i \in 1 .. Len(q), NEW j \in 1 .. Len(q), q[i] = q[j]
                 PROVE  i = j
      OBVIOUS
    <3>1. i + 1 \in 1 .. Len(queue) /\ j + 1 \in 1 .. Len(queue)
      BY <1>2
    <3>2. i + 1 = j + 1
      BY <1>2, <3>1 DEF Queued
    <3>3. QED
      BY <3>2
  <2>2. ASSUME NEW i \in 1 .. Len(q)
        PROVE  q[i] \in (dirty \ {k}) \ (processing \cup {k})
    <3>1. i + 1 \in 1 .. Len(queue) /\ 1 \in 1 .. Len(queue) /\ i + 1 # 1
      BY <1>2
    <3>2. queue[i + 1] \in dirty \ processing /\ queue[i + 1] # k
      BY <1>2, <3>1 DEF Queued
    <3>3. QED
      BY <1>2, <3>2
  <2>3. ASSUME NEW m \in (dirty \ {k}) \ (processing \cup {k})
        PROVE  \E i \in 1 .. Len(q) : q[i] = m
    <3>1. PICK j \in 1 .. Len(queue) : queue[j] = m
      BY DEF Queued
    <3>2. j # 1
      BY <1>2, <3>1
    <3>3. j - 1 \in 1 .. Len(q) /\ (j - 1) + 1 = j
      BY <1>2, <3>2
    <3>4. QED
      BY <1>2, <3>1, <3>3
  <2>4. QED
    BY <1>1, <2>1, <2>2, <2>3 DEF Queued
<1>5. Assigned'
  <2>1. worker'[w] = k /\ \A v \in Workers : v # w => worker'[v] = worker[v]
    BY <1>1 DEF TypeOK
  <2>2. \A v \in Workers : v # w => worker[v] # k
    BY <1>3 DEF Assigned
  <2>3. OneWorkerPerKey'
    BY <2>1, <2>2 DEF Assigned, OneWorkerPerKey
  <2>4. \A v \in Workers : worker'[v] # Idle => worker'[v] \in processing'
    BY <1>1, <2>1 DEF Assigned
  <2>5. \A m \in processing' : \E v \in Workers : worker'[v] = m
    <3> SUFFICES ASSUME NEW m \in processing' PROVE \E v \in Workers : worker'[v] = m
      OBVIOUS
    <3>1. CASE m = k
      BY <2>1, <3>1
    <3>2. CASE m # k
      <4>1. PICK v \in Workers : worker[v] = m
        BY <1>1, <3>2 DEF Assigned
      <4>2. m # Idle
        BY <1>1, <1>3, <3>2 DEF TypeOK
      <4>3. QED
        BY <1>1, <2>1, <4>1, <4>2
    <3>3. QED
      BY <3>1, <3>2
  <2>6. QED
    BY <2>3, <2>4, <2>5 DEF Assigned
<1>6. QED
  BY <1>4, <1>5

LEMMA FinishQueues ==
  ASSUME TypeOK, Queued, Assigned,
         NEW w \in Workers, NEW ok \in BOOLEAN, Finish(w, ok)
  PROVE  Queued' /\ Assigned'
<1> DEFINE k == worker[w]
<1>1. /\ worker' = [worker EXCEPT ![w] = Idle] /\ processing' = processing \ {k}
      /\ queue' = (IF k \in dirty THEN Append(queue, k) ELSE queue)
      /\ dirty' = dirty /\ k # Idle
  BY DEF Finish, Done
<1> HIDE DEF k
<1>2. k \in processing /\ k \in Keys
  BY <1>1 DEF Assigned, TypeOK, k
<1>3. Assigned'
  <2>1. worker'[w] = Idle /\ \A v \in Workers : v # w => worker'[v] = worker[v]
    BY <1>1 DEF TypeOK
  <2>2. \A v \in Workers : v # w => worker[v] # k
    BY <1>1 DEF Assigned, OneWorkerPerKey, k
  <2>3. \A m \in processing \ {k} : \E v \in Workers : v # w /\ worker[v] = m
    BY DEF Assigned, k
  <2>4. QED
    BY <1>1, <2>1, <2>2, <2>3 DEF Assigned, OneWorkerPerKey
<1>4. CASE k \notin dirty
  <2>1. queue' = queue /\ dirty' \ processing' = dirty \ processing
    BY <1>1, <1>4
  <2>2. Queued'
    BY <2>1 DEF Queued
  <2>3. QED
    BY <1>3, <2>2
<1>5. CASE k \in dirty
  <2> DEFINE q == Append(queue, k)
  <2>1. \A i \in 1 .. Len(queue) : queue[i] # k
    BY <1>2 DEF Queued
  <2>2. /\ Len(q) = Len(queue) + 1 /\ Len(queue) \in Nat
        /\ \A i, j \in 1 .. Len(q) : q[i] = q[j] => i = j
        /\ \A i \in 1 .. Len(queue) : q[i] = queue[i]
        /\ q[Len(queue) + 1] = k
    BY <1>2, <2>1, AppendHolds DEF Queued, TypeOK
  <2>3. queue' = q
    BY <1>1, <1>5
  <2> HIDE DEF q
  <2>4. \A i \in 1 .. Len(q) : i \in 1 .. Len(queue) \/ i = Len(queue) + 1
    BY <2>2
  <2>5. \A i \in 1 .. Len(q) : q[i] \in dirty \ (processing \ {k})
    BY <1>5, <2>2, <2>4 DEF Queued
  <2>6. \A m \in dirty \ (processing \ {k}) : \E i \in 1 .. Len(q) : q[i] = m
    BY <2>2 DEF Queued
  <2>7. Queued'
    BY <1>1, <2>2, <2>3, <2>5, <2>6 DEF Queued
  <2>8. QED
    BY <1>3, <2>7
<1>6. QED
  BY <1>4, <1>5

LEMMA TerminateQueues ==
  ASSUME Terminate
  PROVE  Queued' /\ Assigned'
<1>1. /\ queue' = <<>> /\ dirty' = {} /\ processing' = {}
      /\ \A w \in Workers : worker'[w] = Idle
  BY DEF Terminate
<1>2. QED
  BY <1>1 DEF Queued, Assigned, OneWorkerPerKey
-----------------------------------------------------------------------------
(* The queue's invariant *)

LEMMA QueueInit == Init => Queued /\ Assigned
  BY DEF Init, Queued, Assigned, OneWorkerPerKey

LEMMA QueueStep == TypeOK /\ Queued /\ Assigned /\ [Next]_vars => Queued' /\ Assigned'
<1> SUFFICES ASSUME TypeOK, Queued, Assigned, [Next]_vars PROVE Queued' /\ Assigned'
  OBVIOUS
<1> USE DEF queueVars
<1>1. ASSUME NEW w \in Workers, Get(w) PROVE Queued' /\ Assigned'
  BY <1>1, GetQueues
<1>2. ASSUME NEW w \in Workers, NEW ok \in BOOLEAN, Finish(w, ok) PROVE Queued' /\ Assigned'
  BY <1>2, FinishQueues
<1>3. ASSUME NEW k \in Keys, Add(k), UNCHANGED worker PROVE Queued' /\ Assigned'
  <2>1. Assigned'
    BY <1>3 DEF Add, Assigned, OneWorkerPerKey
  <2>2. QED
    BY <1>3, <2>1, AddQueues
<1>4. ASSUME UNCHANGED queueVars, UNCHANGED worker PROVE Queued' /\ Assigned'
  BY <1>4 DEF Queued, Assigned, OneWorkerPerKey
<1>5. CASE Restart \/ \E k \in Keys : Tombstone(k)
  BY <1>5, TerminateQueues DEF Restart, Tombstone
<1>6. ASSUME NEW k \in Keys, Fire(k) \/ DeliverCC(k) \/ Resync(k) \/ DeliverSet(k)
      PROVE  Queued' /\ Assigned'
  BY <1>3, <1>4, <1>6 DEF Fire, DeliverCC, Resync, DeliverSet
<1>7. ASSUME NEW w \in Workers, CreateSet(w) PROVE Queued' /\ Assigned'
  BY <1>4, <1>7 DEF CreateSet
<1>8. ASSUME NEW k \in Keys,
             CreateCC(k) \/ UpdateCC(k) \/ DeleteCC(k) \/ UpdateSet(k) \/ DeleteSet(k)
      PROVE  Queued' /\ Assigned'
  BY <1>4, <1>8 DEF CreateCC, UpdateCC, DeleteCC, UpdateSet, DeleteSet
<1>9. CASE Start \/ UNCHANGED vars
  BY <1>4, <1>9 DEF Start, vars
<1>10. QED
  BY <1>1, <1>2, <1>5, <1>6, <1>7, <1>8, <1>9 DEF Next

\* No two workers pass the same CellCluster at a time.
THEOREM PassesRunAlone == Spec => []OneWorkerPerKey
<1>1. Assigned => OneWorkerPerKey
  BY DEF Assigned
<1>2. QED
  BY <1>1, TypeInit, TypeStep, QueueInit, QueueStep, PTL DEF Spec

-----------------------------------------------------------------------------
(* No event is lost *)

\* A set that is cached and one that is stored under its name have the same
\* owner: a pass creates a set only when none is cached.
SameOwner ==
  \A k \in Keys : Exists(set[k]) /\ Exists(setCache[k]) => set[k].uid = setCache[k].uid

LEMMA OwnerStep == TypeOK /\ SameOwner /\ [Next]_vars => SameOwner'
<1> SUFFICES ASSUME TypeOK, SameOwner, [Next]_vars PROVE SameOwner'
  OBVIOUS
<1> USE DEF apiVars, cacheVars, Exists
<1>1. ASSUME UNCHANGED <<set, setCache>> PROVE SameOwner'
  BY <1>1 DEF SameOwner
<1>2. ASSUME NEW w \in Workers, CreateSet(w) PROVE SameOwner'
  BY <1>2 DEF CreateSet, SameOwner, TypeOK
<1>3. ASSUME NEW k \in Keys, DeliverSet(k) PROVE SameOwner'
  BY <1>3 DEF DeliverSet, SameOwner, TypeOK
<1>4. ASSUME NEW k \in Keys, UpdateSet(k) PROVE SameOwner'
  <2>1. set'[k].uid = set[k].uid /\ \A j \in Keys : j # k => set'[j] = set[j]
    BY <1>4 DEF UpdateSet, TypeOK, Object
  <2>2. QED
    BY <1>4, <2>1 DEF UpdateSet, SameOwner
<1>5. ASSUME NEW k \in Keys, DeleteSet(k) PROVE SameOwner'
  BY <1>5 DEF DeleteSet, SameOwner, TypeOK, Absent
<1>6. CASE Restart \/ \E k \in Keys : Tombstone(k)
  BY <1>6 DEF Restart, Tombstone, Terminate, SameOwner, NoObjects, Absent
<1>7. ASSUME NEW w \in Workers, NEW ok \in BOOLEAN, Get(w) \/ Finish(w, ok) PROVE SameOwner'
  BY <1>1, <1>7 DEF Get, Finish, Done
<1>8. ASSUME NEW k \in Keys, Fire(k) \/ DeliverCC(k) \/ Resync(k) PROVE SameOwner'
  BY <1>1, <1>8 DEF Fire, DeliverCC, Resync
<1>9. ASSUME NEW k \in Keys, CreateCC(k) \/ UpdateCC(k) \/ DeleteCC(k) PROVE SameOwner'
  BY <1>1, <1>9 DEF CreateCC, UpdateCC, DeleteCC
<1>10. CASE Start \/ UNCHANGED vars
  BY <1>1, <1>10 DEF Start, vars
<1>11. QED
  BY <1>2, <1>3, <1>4, <1>5, <1>6, <1>7, <1>8, <1>9, <1>10 DEF Next

\* A set whose event does not count is not in the view of any pass, before or after.
LEMMA IgnoredSet ==
  ASSUME TypeOK, SameOwner, NEW k \in Keys, DeliverSet(k),
         ~Owned(k, Last(k))
  PROVE  \A j \in Keys : View(j)' = View(j)
<1>1. /\ setCache' = [setCache EXCEPT ![k] = set[k]] /\ ccCache' = ccCache
      /\ set' = set
  BY DEF DeliverSet, apiVars
<1>2. ~Owned(k, set[k]) /\ ~Owned(k, setCache[k])
  BY DEF Owned, SameOwner, Exists, Last
<1>3. setCache'[k] = set[k] /\ \A j \in Keys : j # k => setCache'[j] = setCache[j]
  BY <1>1 DEF TypeOK
<1>4. \A j \in Keys : Owned(j, setCache[j])' = Owned(j, setCache'[j])
  BY <1>1 DEF Owned, Exists
<1>5. QED
  BY <1>1, <1>2, <1>3, <1>4 DEF View

\* An event changes the view of its own key only.
LEMMA OwnView ==
  ASSUME TypeOK, NEW k \in Keys, DeliverCC(k) \/ DeliverSet(k)
  PROVE  \A j \in Keys : j # k => View(j)' = View(j)
<1>1. \A j \in Keys : j # k => ccCache'[j] = ccCache[j] /\ setCache'[j] = setCache[j]
  BY DEF DeliverCC, DeliverSet, TypeOK
<1>2. QED
  BY <1>1 DEF View, Owned, Exists

\* What the last pass did not see, and what a fresh process has seen.
News == {k \in Keys : seen[k] # View(k)}

LEMMA NothingNew ==
  ASSUME ccCache = NoObjects, setCache = NoObjects, seen = NothingSeen
  PROVE  News = {}
  BY DEF News, View, NothingSeen, NoObjects, Owned, Exists, Absent

LEMMA EventStep ==
  TypeOK /\ Queued /\ SameOwner /\ NoEventLost /\ [Next]_vars => NoEventLost'
<1> SUFFICES ASSUME TypeOK, Queued, SameOwner, NoEventLost, [Next]_vars PROVE NoEventLost'
  OBVIOUS
<1> USE DEF apiVars, cacheVars, queueVars
<1>1. ASSUME UNCHANGED <<ccCache, setCache, seen>>, dirty \subseteq dirty' PROVE NoEventLost'
  BY <1>1 DEF NoEventLost, View, Owned, Exists
<1>2. ASSUME NEW w \in Workers, Get(w) PROVE NoEventLost'
  <2>1. Head(queue) \in Keys
    BY <1>2 DEF Get, TypeOK
  <2>2. \A j \in Keys : View(j)' = View(j)
    BY <1>2 DEF Get, View, Owned, Exists
  <2>3. /\ seen'[Head(queue)] = View(Head(queue))
        /\ \A j \in Keys : j # Head(queue) => seen'[j] = seen[j] /\ (j \in dirty => j \in dirty')
    BY <1>2, <2>1 DEF Get, TypeOK
  <2>4. QED
    BY <2>2, <2>3 DEF NoEventLost
<1>3. ASSUME NEW k \in Keys, DeliverCC(k) \/ DeliverSet(k), Add(k) PROVE NoEventLost'
  <2>1. dirty' = dirty \cup {k} /\ seen' = seen
    BY <1>3 DEF Add, DeliverCC, DeliverSet
  <2>2. QED
    BY <1>3, <2>1, OwnView DEF NoEventLost
<1>4. ASSUME NEW k \in Keys, DeliverCC(k) PROVE NoEventLost'
  BY <1>3, <1>4 DEF DeliverCC
<1>5. ASSUME NEW k \in Keys, DeliverSet(k) PROVE NoEventLost'
  <2>1. CASE Owned(k, Last(k))
    BY <1>3, <1>5, <2>1 DEF DeliverSet
  <2>2. CASE ~Owned(k, Last(k))
    <3>1. dirty' = dirty /\ seen' = seen
      BY <1>5, <2>2 DEF DeliverSet
    <3>2. QED
      BY <1>5, <2>2, <3>1, IgnoredSet DEF NoEventLost
  <2>3. QED
    BY <2>1, <2>2
<1>6. CASE Restart \/ \E k \in Keys : Tombstone(k)
  <2>1. News' = {}
    BY <1>6, NothingNew DEF Restart, Tombstone, Terminate, News, View, Owned,
       NoObjects, NothingSeen, Exists, Absent
  <2>2. QED
    BY <2>1 DEF News, NoEventLost
<1>7. ASSUME NEW w \in Workers, NEW ok \in BOOLEAN, Finish(w, ok) PROVE NoEventLost'
  BY <1>1, <1>7 DEF Finish, Done
<1>8. ASSUME NEW k \in Keys, Fire(k) \/ Resync(k) PROVE NoEventLost'
  BY <1>1, <1>8 DEF Fire, Resync, Add
<1>9. ASSUME NEW w \in Workers, CreateSet(w) PROVE NoEventLost'
  BY <1>1, <1>9 DEF CreateSet
<1>10. ASSUME NEW k \in Keys,
              CreateCC(k) \/ UpdateCC(k) \/ DeleteCC(k) \/ UpdateSet(k) \/ DeleteSet(k)
       PROVE  NoEventLost'
  BY <1>1, <1>10 DEF CreateCC, UpdateCC, DeleteCC, UpdateSet, DeleteSet
<1>11. CASE Start \/ UNCHANGED vars
  BY <1>1, <1>11 DEF Start, vars
<1>12. QED
  BY <1>2, <1>4, <1>5, <1>6, <1>7, <1>8, <1>9, <1>10, <1>11 DEF Next

LEMMA EventInit == Init => SameOwner /\ NoEventLost
<1> SUFFICES ASSUME Init PROVE SameOwner /\ NoEventLost
  OBVIOUS
<1>1. SameOwner
  BY DEF Init, SameOwner, NoObjects, Exists, Absent
<1>2. News = {}
  BY NothingNew DEF Init
<1>3. QED
  BY <1>1, <1>2 DEF News, NoEventLost

\* What the caches show beyond what the last pass saw is always due.
THEOREM EventsAreKept == Spec => []NoEventLost
<1>1. QED
  BY TypeInit, TypeStep, QueueInit, QueueStep, EventInit, OwnerStep, EventStep, PTL DEF Spec

-----------------------------------------------------------------------------
(* The promise *)

LEMMA PromiseInit == Init => Promise!Init
<1> SUFFICES ASSUME Init PROVE Promise!Init
  OBVIOUS
<1>1. News = {}
  BY NothingNew DEF Init
<1>2. QED
  BY <1>1 DEF Init, Promise!Init, News

LEMMA PromiseStep ==
  TypeOK /\ Queued /\ SameOwner /\ Assigned /\ [Next]_vars => [Promise!Next]_(Promise!vars)
<1> SUFFICES ASSUME TypeOK, Queued, SameOwner, Assigned, [Next]_vars
             PROVE  Promise!Next \/ UNCHANGED Promise!vars
  OBVIOUS
<1> DEFINE Due == dirty \cup waiting
<1> USE DEF apiVars, cacheVars, queueVars
<1>1. ASSUME UNCHANGED <<ccCache, setCache, seen, processing>>, Due' = Due
      PROVE  UNCHANGED Promise!vars
  BY <1>1 DEF Promise!vars, View, Owned, Exists
<1>2. ASSUME NEW k \in Keys, Add(k), waiting' = waiting, seen' = seen,
             \A j \in Keys : j # k => View(j)' = View(j)
      PROVE  Promise!Learn(k)
  <2>1. Due' = Due \cup {k} /\ processing' = processing
    BY <1>2 DEF Add
  <2>2. News' \in {News \cup {k}, News \ {k}}
    BY <1>2 DEF News
  <2>3. QED
    BY <2>1, <2>2 DEF Promise!Learn, News
<1>3. ASSUME NEW w \in Workers, Get(w) PROVE Promise!Next
  <2>1. PICK k \in Keys : k = Head(queue) /\ k = queue[1] /\ 1 \in 1 .. Len(queue)
    BY <1>3, TailHolds DEF Get, TypeOK
  <2>2. /\ dirty' = dirty \ {k} /\ processing' = processing \cup {k}
        /\ waiting' = waiting /\ seen' = [seen EXCEPT ![k] = View(k)]
        /\ UNCHANGED <<ccCache, setCache>>
    BY <1>3, <2>1 DEF Get
  <2>3. k \in dirty \ processing
    BY <2>1 DEF Queued
  <2>4. \A j \in Keys : View(j)' = View(j)
    BY <2>2 DEF View, Owned, Exists
  <2>5. News' = News \ {k}
    BY <2>1, <2>2, <2>4 DEF News, TypeOK
  <2>6. Due' \in {Due, Due \ {k}}
    BY <2>2, <2>3
  <2>7. Promise!Begin(k)
    BY <2>2, <2>3, <2>5, <2>6 DEF Promise!Begin, News
  <2>8. QED
    BY <2>7 DEF Promise!Next
<1>4. ASSUME NEW w \in Workers, NEW ok \in BOOLEAN, Finish(w, ok) PROVE Promise!Next
  <2> DEFINE k == worker[w]
  <2>1. k \in processing /\ k \in Keys
    BY <1>4 DEF Finish, Done, Assigned, TypeOK
  <2>2. /\ processing' = processing \ {k} /\ dirty' = dirty
        /\ waiting' = (IF ok THEN waiting ELSE waiting \cup {k})
        /\ UNCHANGED <<ccCache, setCache, seen>>
    BY <1>4 DEF Finish, Done
  <2> HIDE DEF k
  <2>3. News' = News
    BY <2>2 DEF News, View, Owned, Exists
  <2>4. Due' = IF ok THEN Due ELSE Due \cup {k}
    BY <2>2
  <2>5. Promise!End(k, ok)
    BY <2>1, <2>2, <2>3, <2>4 DEF Promise!End, News
  <2>6. ok = TRUE \/ ok = FALSE
    OBVIOUS
  <2>7. QED
    BY <2>1, <2>5, <2>6 DEF Promise!Next
<1>5. ASSUME NEW k \in Keys, Fire(k) PROVE UNCHANGED Promise!vars
  <2>1. Due' = Due
    BY <1>5 DEF Fire, Add
  <2>2. QED
    BY <1>1, <1>5, <2>1 DEF Fire, Add
<1>6. ASSUME NEW k \in Keys, Resync(k) PROVE Promise!Next
  <2>1. \A j \in Keys : View(j)' = View(j)
    BY <1>6 DEF Resync, View, Owned, Exists
  <2>2. Promise!Learn(k)
    BY <1>2, <1>6, <2>1 DEF Resync
  <2>3. QED
    BY <2>2 DEF Promise!Next
<1>7. ASSUME NEW k \in Keys, DeliverCC(k) \/ DeliverSet(k), Add(k) PROVE Promise!Next
  <2>1. Promise!Learn(k)
    BY <1>2, <1>7, OwnView DEF DeliverCC, DeliverSet
  <2>2. QED
    BY <2>1 DEF Promise!Next
<1>8. ASSUME NEW k \in Keys, DeliverCC(k) PROVE Promise!Next
  BY <1>7, <1>8 DEF DeliverCC
<1>9. ASSUME NEW k \in Keys, DeliverSet(k) PROVE Promise!Next \/ UNCHANGED Promise!vars
  <2>1. CASE Owned(k, Last(k))
    BY <1>7, <1>9, <2>1 DEF DeliverSet
  <2>2. CASE ~Owned(k, Last(k))
    <3>1. UNCHANGED <<dirty, processing, waiting, seen>>
      BY <1>9, <2>2 DEF DeliverSet
    <3>2. News' = News
      BY <1>9, <2>2, <3>1, IgnoredSet DEF News
    <3>3. QED
      BY <3>1, <3>2 DEF News, Promise!vars
  <2>3. QED
    BY <2>1, <2>2
<1>10. CASE Restart \/ \E k \in Keys : Tombstone(k)
  <2>1. /\ ccCache' = NoObjects /\ setCache' = NoObjects /\ seen' = NothingSeen
        /\ dirty' = {} /\ processing' = {} /\ waiting' = {}
    BY <1>10 DEF Restart, Tombstone, Terminate
  <2>2. News' = {}
    BY <2>1 DEF News, View, Owned, NoObjects, NothingSeen, Exists, Absent
  <2>3. Promise!Restart
    BY <2>1, <2>2 DEF Promise!Restart, News
  <2>4. QED
    BY <2>3 DEF Promise!Next
<1>11. ASSUME NEW w \in Workers, CreateSet(w) PROVE UNCHANGED Promise!vars
  BY <1>1, <1>11 DEF CreateSet
<1>12. ASSUME NEW k \in Keys,
              CreateCC(k) \/ UpdateCC(k) \/ DeleteCC(k) \/ UpdateSet(k) \/ DeleteSet(k)
       PROVE  UNCHANGED Promise!vars
  BY <1>1, <1>12 DEF CreateCC, UpdateCC, DeleteCC, UpdateSet, DeleteSet
<1>13. CASE Start \/ UNCHANGED vars
  BY <1>1, <1>13 DEF Start, vars
<1>14. QED
  BY <1>3, <1>4, <1>5, <1>6, <1>8, <1>9, <1>10, <1>11, <1>12, <1>13 DEF Next

\* The work queue implements the abstract passes.
THEOREM QueueKeepsPromise == Spec => ImplementsPasses
<1>1. QED
  BY TypeInit, TypeStep, QueueInit, QueueStep, EventInit, OwnerStep,
     PromiseInit, PromiseStep, PTL DEF Spec, ImplementsPasses, Promise!Spec
=============================================================================
