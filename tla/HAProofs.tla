------------------------------ MODULE HAProofs ------------------------------
(***************************************************************************)
(* Proofs about HAScheduler for every number of pods, nodes, faults, moves *)
(* and updates, and for every number of tries of an update: its types, and *)
(* the scheduling lock until a retried update of the operator changes it.  *)
(***************************************************************************)
EXTENDS HAScheduler, TLAPS

LEMMA TypeInit == Init => TypeOK
<1> SUFFICES ASSUME Init PROVE TypeOK
    OBVIOUS
<1>1. overwritten \in BOOLEAN
      BY DEF Init
<1>2. meta \in [pod : SUBSET Pods, marked : BOOLEAN, tries : 1 .. MetaTries]
      BY HAAssumption DEF Init, NoMeta
<1>3. QED
      BY <1>1, <1>2, HAAssumption DEF Init, TypeOK, Placement, NoCall

\* What an update of a claim may change, whatever becomes of it.
LEMMA UpdateTypes ==
  ASSUME TypeOK, NEW c \in Pods, NEW newLocked \in SUBSET Pods,
         NEW step \in {"take", "count"},
         UpdateClaim(c, newLocked, [call EXCEPT !.step = step])
  PROVE  /\ locked' \in SUBSET Pods
         /\ stale' \in [extender : SUBSET Pods, operator : SUBSET Pods]
         /\ call' \in [step : {"idle", "release", "take", "count"},
                       pod : SUBSET Pods, holder : SUBSET Pods]
         /\ budget' \in [faults : 0 .. MaxFaults, moves : 0 .. MaxMoves,
                         syncs : 0 .. MaxSyncs]
<1> USE HAAssumption DEF TypeOK, UpdateClaim
<1>1. locked' \in SUBSET Pods
      OBVIOUS
<1>2. stale' \in [extender : SUBSET Pods, operator : SUBSET Pods]
      BY DEF Written
<1>3. /\ [call EXCEPT !.step = step] \in
            [step : {"idle", "release", "take", "count"},
             pod : SUBSET Pods, holder : SUBSET Pods]
      /\ NoCall \in [step : {"idle", "release", "take", "count"},
                     pod : SUBSET Pods, holder : SUBSET Pods]
      BY DEF NoCall
<1>4. call' \in {NoCall, [call EXCEPT !.step = step]}
      OBVIOUS
<1>5. budget' \in [faults : 0 .. MaxFaults, moves : 0 .. MaxMoves,
                  syncs : 0 .. MaxSyncs]
      BY DEF Fault
<1>6. QED BY <1>1, <1>2, <1>3, <1>4, <1>5

LEMMA TypeStep == TypeOK /\ [Next]_vars => TypeOK'
<1> SUFFICES ASSUME TypeOK, [Next]_vars PROVE TypeOK'
    OBVIOUS
<1> USE HAAssumption DEF TypeOK, Placement, NoCall, NoMeta, Written, Fault, Move
<1>1. ASSUME NEW p \in Pods, Acquire(p) PROVE TypeOK'
      BY <1>1 DEF Acquire
<1>2. CASE Release
      BY <1>2, UpdateTypes DEF Release
<1>3. CASE Take
      BY <1>3, UpdateTypes DEF Take
<1>4. CASE Answer
  <2>1. \A p \in call.pod : Filtered(p) \subseteq Nodes \cup {NoNode}
        BY DEF Filtered, EmptyNodes, Candidates
  <2>2. QED BY <1>4, <2>1 DEF Answer
<1>5. CASE Restart
      BY <1>5 DEF Restart
<1>6. ASSUME NEW p \in Pods, BindClaim(p) PROVE TypeOK'
      BY <1>6 DEF BindClaim
<1>7. ASSUME NEW p \in Pods, BindPod(p) PROVE TypeOK'
      BY <1>7 DEF BindPod
<1>8. ASSUME NEW p \in Pods, Forget(p) PROVE TypeOK'
      BY <1>8 DEF Forget
<1>9. ASSUME NEW p \in Pods, Recreate(p) PROVE TypeOK'
      BY <1>9 DEF Recreate
<1>10. ASSUME NEW p \in Pods, MetaRead(p) PROVE TypeOK'
  <2>1. (p \in locked) \in BOOLEAN
        OBVIOUS
  <2>2. meta' = [pod |-> {p}, marked |-> p \in locked, tries |-> MetaTries]
        BY <1>10 DEF MetaRead
  <2>3. meta' \in [pod : SUBSET Pods, marked : BOOLEAN, tries : 1 .. MetaTries]
        BY <2>1, <2>2
  <2>4. QED BY <1>10, <2>3 DEF MetaRead
<1>11. CASE MetaWrite
  <2>1. NoMeta \in [pod : SUBSET Pods, marked : BOOLEAN, tries : 1 .. MetaTries]
        OBVIOUS
  <2>2. meta' \in [pod : SUBSET Pods, marked : BOOLEAN, tries : 1 .. MetaTries]
    <3>1. meta.tries # 1 => [meta EXCEPT !.tries = @ - 1] \in
                [pod : SUBSET Pods, marked : BOOLEAN, tries : 1 .. MetaTries]
      <4>1. meta.tries \in 1 .. MetaTries
            OBVIOUS
      <4>2. meta.tries # 1 => meta.tries - 1 \in 1 .. MetaTries
            BY <4>1
      <4>3. QED BY <4>2, Zenon
    <3>2. meta' = NoMeta \/ (meta.tries # 1 /\ meta' = [meta EXCEPT !.tries = @ - 1])
          BY <1>11 DEF MetaWrite, LastTry
    <3>3. QED BY <2>1, <3>1, <3>2
  <2>3. /\ locked' \in SUBSET Pods
        /\ stale' \in [extender : SUBSET Pods, operator : SUBSET Pods]
        BY <1>11 DEF MetaWrite
  <2>4. QED BY <1>11, <2>2, <2>3 DEF MetaWrite
<1>12. CASE UNCHANGED vars
       BY <1>12 DEF vars
<1>13. QED
       BY <1>1, <1>2, <1>3, <1>4, <1>5, <1>6, <1>7, <1>8, <1>9, <1>10, <1>11,
          <1>12 DEF Next

\* Claims, pods, calls and updates keep their types, whatever is lost or
\* refused and however often the operator tries.
THEOREM TypeCorrect == Spec => []TypeOK
  BY TypeInit, TypeStep, PTL DEF Spec

-----------------------------------------------------------------------------
(* The lock.  A first copy of a claim that is not old shows the annotation   *)
(* as it is; the steps of a call know who holds the lock.                    *)

CopyInv ==
  ~Retried =>
    \A p \in meta.pod : p \notin stale.operator => (meta.marked <=> p \in locked)

CallInv ==
  /\ \A p, q \in call.pod : p = q
  /\ call.step = "release" => locked = call.holder /\ \A h \in locked : Bound(h)
  /\ call.step = "take" => locked = {}
  /\ call.step = "count" => locked = call.pod

Kept == OneHolder /\ Exclusive /\ CopyInv /\ CallInv

LockInv == TypeOK /\ (~overwritten => Kept)

LEMMA LockInit == Init => LockInv
  BY TypeInit DEF Init, LockInv, Kept, OneHolder, Exclusive, CopyInv, CallInv,
     NoCall, NoMeta

\* No pod is being placed while the lock changes hands.
LEMMA NobodyPlaced ==
  ASSUME Kept, call.step \in {"release", "take"}, NEW p \in Pods,
         chosen[p] # NoNode
  PROVE  Bound(p)
  BY DEF Kept, Exclusive, CallInv, OneHolder

\* What one step does to a lock that no retry has changed, before and after it.
LEMMA KeptStep ==
  ASSUME TypeOK, Kept, Next, ~overwritten'
  PROVE  Kept'
<1> SUFFICES OneHolder' /\ Exclusive' /\ CopyInv' /\ CallInv'
    BY DEF Kept
<1> USE HAAssumption DEF Kept, OneHolder, Exclusive, CopyInv, CallInv, Bound, Retried
<1>1. ASSUME NEW p \in Pods, Acquire(p)
      PROVE  OneHolder' /\ Exclusive' /\ CopyInv' /\ CallInv'
  <2>1. OneHolder' /\ Exclusive' /\ CopyInv'
        BY <1>1 DEF Acquire, TypeOK
  <2>2. CallInv'
    <3>1. CASE /\ locked = {}
               /\ call' = [step |-> "take", pod |-> {p}, holder |-> {}]
          BY <1>1, <3>1 DEF Acquire
    <3>2. ASSUME NEW h \in locked, MayTakeOver(p, h),
                 call' = [step |-> IF h = p THEN "count" ELSE "release",
                          pod |-> {p}, holder |-> {h}]
          PROVE  CallInv'
      <4>1. locked' = {h} /\ UNCHANGED claim
            BY <1>1 DEF Acquire
      <4>2. CASE h = p
            BY <3>2, <4>1, <4>2
      <4>3. CASE h # p
            BY <3>2, <4>1, <4>3 DEF MayTakeOver
      <4>4. QED BY <4>2, <4>3
    <3>3. CASE UNCHANGED call
          BY <1>1, <3>3 DEF Acquire
    <3>4. QED BY <1>1, <3>1, <3>2, <3>3 DEF Acquire
  <2>3. QED BY <2>1, <2>2
<1>2. CASE Release
  <2>1. PICK h \in call.holder :
          UpdateClaim(h, locked \ {h}, [call EXCEPT !.step = "take"])
        BY <1>2 DEF Release
  <2>2. locked = {h} /\ UNCHANGED <<claim, chosen, meta>>
        BY <1>2, <2>1 DEF Release
  <2>3. \/ locked' = {} /\ Written(h) /\ call' \in {NoCall, [call EXCEPT !.step = "take"]}
        \/ UNCHANGED <<locked, stale>> /\ call' = NoCall
        BY <2>1, <2>2 DEF UpdateClaim
  <2>4. OneHolder' /\ Exclusive'
        BY <1>2, <2>2, <2>3, NobodyPlaced DEF Release
  <2>5. CopyInv'
        BY <2>2, <2>3 DEF Written, TypeOK
  <2>6. CallInv'
        BY <2>3 DEF TypeOK, NoCall
  <2>7. QED BY <2>4, <2>5, <2>6
<1>3. CASE Take
  <2>1. PICK p \in call.pod :
          UpdateClaim(p, locked \cup {p}, [call EXCEPT !.step = "count"])
        BY <1>3 DEF Take
  <2>2. locked = {} /\ call.pod = {p} /\ UNCHANGED <<claim, chosen, meta>>
        BY <1>3, <2>1 DEF Take
  <2>3. \/ locked' = {p} /\ Written(p) /\ call' \in {NoCall, [call EXCEPT !.step = "count"]}
        \/ UNCHANGED <<locked, stale>> /\ call' = NoCall
        BY <2>1, <2>2 DEF UpdateClaim
  <2>4. OneHolder' /\ Exclusive'
        BY <1>3, <2>2, <2>3, NobodyPlaced DEF Take
  <2>5. CopyInv'
        BY <2>2, <2>3 DEF Written, TypeOK
  <2>6. CallInv'
    <3>1. [call EXCEPT !.step = "count"] =
            [step |-> "count", pod |-> {p}, holder |-> call.holder]
          BY <2>2 DEF TypeOK
    <3>2. CASE locked' = {p} /\ call' = [call EXCEPT !.step = "count"]
          BY <3>1, <3>2
    <3>3. CASE call' = NoCall
          BY <3>3 DEF NoCall
    <3>4. QED BY <2>3, <3>2, <3>3
  <2>7. QED BY <2>4, <2>5, <2>6
<1>4. CASE Answer
  <2>1. PICK p \in call.pod : \/ \E n \in Filtered(p) : chosen' = [chosen EXCEPT ![p] = n]
                              \/ UNCHANGED chosen
        BY <1>4 DEF Answer
  <2>2. locked = {p} /\ UNCHANGED <<claim, locked, meta, stale>> /\ call' = NoCall
        BY <1>4, <2>1 DEF Answer
  <2>3. Exclusive'
        BY <2>1, <2>2 DEF TypeOK, Placement
  <2>4. QED BY <2>2, <2>3 DEF NoCall
<1>5. CASE Restart
      BY <1>5 DEF Restart, NoCall
<1>6. ASSUME NEW p \in Pods, BindClaim(p)
      PROVE  OneHolder' /\ Exclusive' /\ CopyInv' /\ CallInv'
  <2>1. \A q \in Pods : Bound(q) => Bound(q)'
        BY <1>6 DEF BindClaim, TypeOK, Placement
  <2>2. QED BY <1>6, <2>1 DEF BindClaim, Written, TypeOK
<1>7. ASSUME NEW p \in Pods, BindPod(p) \/ Forget(p)
      PROVE  OneHolder' /\ Exclusive' /\ CopyInv' /\ CallInv'
  <2>1. /\ UNCHANGED <<claim, locked, call, meta, stale>>
        /\ chosen' = [chosen EXCEPT ![p] = NoNode]
        BY <1>7 DEF BindPod, Forget
  <2>2. \A q \in Pods : chosen'[q] # NoNode => chosen[q] # NoNode
        BY <2>1 DEF TypeOK, Placement
  <2>3. Exclusive'
        BY <2>1, <2>2
  <2>4. QED BY <2>1, <2>3
<1>8. ASSUME NEW p \in Pods, Recreate(p)
      PROVE  OneHolder' /\ Exclusive' /\ CopyInv' /\ CallInv'
      BY <1>8 DEF Recreate
<1>9. ASSUME NEW p \in Pods, MetaRead(p)
      PROVE  OneHolder' /\ Exclusive' /\ CopyInv' /\ CallInv'
  <2>1. meta'.pod = {p} /\ (meta'.marked <=> p \in locked)
        BY <1>9 DEF MetaRead, NoMeta
  <2>2. QED BY <1>9, <2>1 DEF MetaRead
<1>10. CASE MetaWrite
  <2>1. PICK p \in meta.pod :
          \/ /\ p \notin stale.operator
             /\ locked' = IF meta.marked THEN locked \cup {p} ELSE locked \ {p}
             /\ meta' = NoMeta
             /\ overwritten' = (overwritten \/ (Retried /\ locked' # locked))
          \/ /\ p \in stale.operator
             /\ meta' = IF LastTry THEN NoMeta
                        ELSE [meta EXCEPT !.tries = @ - 1]
             /\ UNCHANGED locked
        BY <1>10 DEF MetaWrite
  <2>2. UNCHANGED locked
    <3>1. CASE p \in stale.operator
          BY <2>1, <3>1
    <3>2. CASE p \notin stale.operator /\ Retried
          BY <2>1, <3>2
    <3>3. CASE p \notin stale.operator /\ ~Retried
      <4>1. locked' = IF meta.marked THEN locked \cup {p} ELSE locked \ {p}
            BY <2>1, <3>3
      <4>2. meta.marked <=> p \in locked
            BY <3>3
      <4>3. CASE p \in locked
            BY <4>1, <4>2, <4>3
      <4>4. CASE p \notin locked
            BY <4>1, <4>2, <4>4
      <4>5. QED BY <4>3, <4>4
    <3>4. QED BY <3>1, <3>2, <3>3
  <2>3. UNCHANGED <<claim, chosen, call>>
        BY <1>10 DEF MetaWrite
  <2>4. OneHolder' /\ Exclusive' /\ CallInv'
        BY <2>2, <2>3
  <2>5. CopyInv'
    <3>1. CASE meta' = NoMeta
          BY <3>1 DEF NoMeta
    <3>2. CASE meta' = [meta EXCEPT !.tries = @ - 1]
          BY <3>2 DEF TypeOK
    <3>3. QED BY <2>1, <3>1, <3>2
  <2>6. QED BY <2>4, <2>5
<1>11. QED
       BY <1>1, <1>2, <1>3, <1>4, <1>5, <1>6, <1>7, <1>8, <1>9, <1>10 DEF Next

\* A retry that has changed the lock is never forgotten.
LEMMA OverwrittenStays == [Next]_vars /\ overwritten => overwritten'
  BY DEF Next, vars, Acquire, Release, Take, Answer, Restart, MetaRead, MetaWrite,
     BindClaim, BindPod, Forget, Recreate

LEMMA LockStep == LockInv /\ [Next]_vars => LockInv'
<1> SUFFICES ASSUME LockInv, [Next]_vars PROVE ~overwritten' => Kept'
    BY TypeStep DEF LockInv
<1>1. ~overwritten' => Kept
      BY OverwrittenStays DEF LockInv
<1>2. CASE Next
      BY <1>1, <1>2, KeptStep DEF LockInv
<1>3. CASE UNCHANGED vars
  <2>1. UNCHANGED <<claim, locked, chosen, call, meta, stale>>
        BY <1>3 DEF vars
  <2>2. Kept => Kept'
        BY <2>1 DEF Kept, OneHolder, Exclusive, CopyInv, CallInv, Bound, Retried
  <2>3. QED BY <1>1, <2>2
<1>4. QED BY <1>2, <1>3

\* Until a retried update of the operator changes an annotation the lock has one
\* holder at most and every pod that is being placed holds it, across failed
\* updates, restarts and the operator's first tries, which write the same claims.
THEOREM LockHolds == Spec => []LockKept
<1>1. LockInv => LockKept
      BY DEF LockInv, Kept, LockKept
<1>2. QED
      BY LockInit, LockStep, <1>1, PTL DEF Spec
=============================================================================
