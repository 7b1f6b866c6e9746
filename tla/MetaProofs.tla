----------------------------- MODULE MetaProofs -----------------------------
(***************************************************************************)
(* The managers of the pods' metadata, for any pods, faults, failures and  *)
(* numbers of attempts: the types, and that the cache the labels are set   *)
(* in before they are submitted tells what is stored, until a request      *)
(* fails otherwise than by a conflict; and that only a retry gives a pod   *)
(* the id of a former member.                                              *)
(***************************************************************************)
EXTENDS MetaManager, TLAPS

USE MetaAssumption

Cells == [Pods -> [Kinds -> Object]]
Flags == [Pods -> [Kinds -> BOOLEAN]]
PassType == [at : {"reclaim", "orphans"} \cup Kinds, todo : SUBSET Pods, on : Pods,
             labels : Labels]
ReqType == [tries : 0 .. MaxTries, labels : Labels, current : BOOLEAN]
Budget == [faults : 0 .. MaxFaults, failures : 0 .. MaxFailures]

LEMMA TypeParts ==
  TypeOK <=> /\ stored \in Cells /\ cache \in Cells /\ current \in Flags
             /\ member \in [Pods -> Ids] /\ joined \in [Pods -> BOOLEAN]
             /\ policy \in Policies
             /\ pass \in PassType /\ req \in ReqType /\ budget \in Budget
  BY DEF TypeOK, Cells, Flags, PassType, ReqType, Budget

-----------------------------------------------------------------------------
(* The invariant *)

\* A request that can be accepted is for an object that is there.
CanSucceed == Writing /\ req.current
Targeted == (Writing => pass.at \in Kinds) /\ (CanSucceed => Exists(stored[pass.on][pass.at]))

\* A current copy shows the object, but for the labels that are being submitted for
\* it by a request that can be accepted.
Target(p, k) == CanSucceed /\ pass.on = p /\ pass.at = k
Tells(p, k) ==
  /\ ~Exists(stored[p][k]) => stored[p][k] = Nothing
  /\ current[p][k] => cache[p][k].spec = stored[p][k].spec
  /\ current[p][k] /\ budget.failures = MaxFailures =>
       \/ cache[p][k].labels = stored[p][k].labels
       \/ Target(p, k) /\ cache[p][k].labels = req.labels
Honest == Targeted /\ \A p \in Pods, k \in Kinds : Tells(p, k)

\* PD gives a new id only for a claim without data: at first, and after each deletion.
MembersCounted ==
  \A p \in Pods : member[p] + budget.faults <= MaxFaults + (IF joined[p] THEN 1 ELSE 0)

-----------------------------------------------------------------------------
(* Types of the operators *)

LEMMA Constants ==
  /\ Unlabelled \in Labels /\ Nothing \in Object /\ NoRequest \in ReqType
  /\ \A spec \in {"none", "pod", "unbound", "bound"} \cup Policies : New(spec) \in Object
  /\ NoRequest.tries = 0
<1>1. 0 \in Ids /\ 0 \in 0 .. MaxTries
  BY DEF Ids
<1>2. Unlabelled \in Labels
  BY <1>1 DEF Unlabelled, Labels
<1>3. QED
  BY <1>1, <1>2 DEF Nothing, New, Object, NoRequest, ReqType

LEMMA StartType ==
  ASSUME NEW stage \in {"reclaim", "orphans", "pod"}
  PROVE  StartOf(stage) \in PassType /\ StartOf(stage).at = stage
<1>1. (CHOOSE p \in Pods : TRUE) \in Pods
  BY DEF Pods
<1>2. QED
  BY <1>1, Constants DEF StartOf, PassType, Kinds

LEMMA SeenType ==
  ASSUME pass \in PassType, NEW stage \in {"reclaim", "orphans", "pod"}, NEW p \in Pods
  PROVE  Seen(stage, p) \in PassType
<1>1. NextStage[stage] \in {"reclaim", "orphans", "pod"}
  BY DEF NextStage
<1>2. pass.todo \ {p} \in SUBSET Pods
  BY DEF PassType
<1>3. [StartOf(stage) EXCEPT !.todo = pass.todo \ {p}] \in PassType
  BY <1>2, StartType DEF PassType
<1>4. QED
  BY <1>1, <1>3, StartType DEF Seen

LEMMA OnwardsType ==
  ASSUME pass \in PassType, NEW p \in Pods, NEW k \in Kinds, NEW labels \in Labels
  PROVE  Onwards(p, k, labels) \in PassType
<1>1. CASE k = "pod" /\ HasVolume(p)
  BY <1>1 DEF Onwards, PassType, Kinds
<1>2. CASE ~(k = "pod" /\ HasVolume(p)) /\ k = "claim" /\ cache[p]["claim"].spec = "bound"
  BY <1>2 DEF Onwards, PassType, Kinds
<1>3. CASE ~(k = "pod" /\ HasVolume(p)) /\ ~(k = "claim" /\ cache[p]["claim"].spec = "bound")
  <2>1. Onwards(p, k, labels) = Seen("pod", p)
    BY <1>3 DEF Onwards
  <2>2. QED
    BY <2>1, SeenType
<1>4. QED
  BY <1>1, <1>2, <1>3

LEMMA Spending ==
  ASSUME budget \in Budget, NEW what \in {"faults", "failures"}, Spend(what)
  PROVE  /\ budget' \in Budget
         /\ budget'[what] < budget[what]
         /\ what = "faults" => budget'.failures = budget.failures
         /\ what = "failures" => budget'.faults = budget.faults
                                 /\ budget'.failures # MaxFailures
<1>1. CASE what = "faults"
  BY <1>1 DEF Spend, Budget
<1>2. CASE what = "failures"
  BY <1>2 DEF Spend, Budget
<1>3. QED
  BY <1>1, <1>2

LEMMA ObjectChanges ==
  ASSUME NEW o \in Object
  PROVE  /\ \A labels \in Labels : [o EXCEPT !.labels = labels] \in Object
         /\ \A spec \in {"bound"} \cup Policies : [o EXCEPT !.spec = spec] \in Object
  BY DEF Object

LEMMA ChangedType ==
  ASSUME current \in Flags, NEW p \in Pods, NEW kinds, Changed(p, kinds)
  PROVE  /\ current' \in Flags
         /\ \A q \in Pods, j \in Kinds :
              current'[q][j] <=> current[q][j] /\ ~(q = p /\ j \in kinds)
<1>1. [k \in Kinds |-> current[p][k] /\ k \notin kinds] \in [Kinds -> BOOLEAN]
  OBVIOUS
<1>2. QED
  BY <1>1 DEF Changed, Flags

LEMMA OutdatedType ==
  ASSUME req \in ReqType, NEW p \in Pods, NEW kinds, Outdated(p, kinds)
  PROVE  /\ req' \in ReqType
         /\ req'.tries = req.tries /\ req'.labels = req.labels
         /\ req'.current <=> req.current /\ ~(pass.on = p /\ pass.at \in kinds)
<1>1. req' = [req EXCEPT !.current = req.current /\ ~(pass.on = p /\ pass.at \in kinds)]
  BY DEF Outdated
<1>2. QED
  BY <1>1 DEF ReqType

LEMMA TypeInit == Init => TypeOK /\ MembersCounted
<1> SUFFICES ASSUME Init PROVE TypeOK /\ MembersCounted
  OBVIOUS
<1>1. stored \in Cells /\ cache \in Cells /\ current \in Flags
  BY Constants DEF Init, Cells, Flags
<1>2. /\ member \in [Pods -> Ids] /\ joined \in [Pods -> BOOLEAN] /\ policy \in Policies
      /\ budget \in Budget
  BY DEF Init, Ids, Policies, Budget
<1>3. pass \in PassType /\ req \in ReqType
  BY Constants, StartType DEF Init
<1>4. MembersCounted
  BY DEF Init, MembersCounted
<1>5. QED
  BY <1>1, <1>2, <1>3, <1>4, TypeParts

-----------------------------------------------------------------------------
(* What a kind of step does to the invariant *)

FailuresKept == budget'.failures = MaxFailures => budget.failures = MaxFailures

LEMMA HonestInit == Init => Honest
  BY Constants DEF Init, Honest, Targeted, CanSucceed, Writing, Tells, Nothing, New, Exists

\* Nothing of what the invariant is about changes.
LEMMA NothingTouched ==
  ASSUME Honest, UNCHANGED <<stored, cache, current, req, pass>>, FailuresKept
  PROVE  Honest'
  BY DEF Honest, Targeted, CanSucceed, Writing, Tells, Target, Exists, FailuresKept

\* The pass goes on without a request.
LEMMA NoRequestMade ==
  ASSUME Honest, ~Writing, UNCHANGED <<stored, cache, current, req>>, FailuresKept
  PROVE  Honest'
  BY DEF Honest, Targeted, CanSucceed, Writing, Tells, Target, FailuresKept, Exists

\* Somebody writes objects: their copies are old ones, a request for them included.
LEMMA Written ==
  ASSUME TypeOK, Honest, NEW p \in Pods, NEW kinds,
         Changed(p, kinds),
         (~Writing /\ UNCHANGED req) \/ (Outdated(p, kinds) /\ UNCHANGED pass),
         \A q \in Pods, j \in Kinds : ~(q = p /\ j \in kinds) => stored'[q][j] = stored[q][j],
         \A j \in Kinds \cap kinds : ~Exists(stored'[p][j]) => stored'[p][j] = Nothing,
         UNCHANGED cache, FailuresKept
  PROVE  Honest'
<1>1. /\ \A q \in Pods, j \in Kinds :
           current'[q][j] <=> current[q][j] /\ ~(q = p /\ j \in kinds)
      /\ pass.on \in Pods
  BY ChangedType, TypeParts DEF PassType
<1>2. CASE ~Writing /\ UNCHANGED req
  BY <1>1, <1>2
     DEF Honest, Targeted, CanSucceed, Writing, Tells, Target, Exists, FailuresKept
<1>3. CASE Outdated(p, kinds) /\ UNCHANGED pass
  <2>1. /\ req'.tries = req.tries /\ req'.labels = req.labels
        /\ req'.current <=> req.current /\ ~(pass.on = p /\ pass.at \in kinds)
    BY <1>3, OutdatedType, TypeParts
  <2>2. Targeted'
    BY <1>1, <1>3, <2>1 DEF Honest, Targeted, CanSucceed, Writing, Exists
  <2>3. ASSUME NEW q \in Pods, NEW j \in Kinds PROVE Tells(q, j)'
    <3>1. CASE q = p /\ j \in kinds
      BY <1>1, <3>1 DEF Tells, Exists
    <3>2. CASE ~(q = p /\ j \in kinds)
      <4>1. Target(q, j) => Target(q, j)'
        BY <1>3, <2>1, <3>2 DEF Target, CanSucceed, Writing
      <4>2. QED
        BY <1>1, <2>1, <3>2, <4>1 DEF Honest, Tells, Exists, FailuresKept
    <3>3. QED
      BY <3>1, <3>2
  <2>4. QED
    BY <2>2, <2>3 DEF Honest
<1>4. QED
  BY <1>2, <1>3

\* Labels are set in the cache and submitted.
LEMMA LabelSets ==
  ASSUME TypeOK, Honest, ~Writing, NEW p \in Pods, NEW k \in Kinds, NEW labels \in Labels,
         NEW same \in BOOLEAN, Label(p, k, labels, same), Exists(cache[p][k]),
         UNCHANGED <<stored, current, budget>>
  PROVE  cache' \in Cells /\ req' \in ReqType /\ pass' \in PassType /\ Honest'
<1> USE TypeParts
<1>1. cache[p][k] \in Object /\ current[p][k] \in BOOLEAN
  BY DEF Cells, Flags
<1>2. CASE same
  <2>1. pass' \in PassType /\ UNCHANGED <<cache, req>>
    <3>1. cache[p][k].labels \in Labels
      BY <1>1 DEF Object
    <3>2. QED
      BY <1>2, <3>1, OnwardsType DEF Label
  <2>2. QED
    BY <2>1, NoRequestMade DEF FailuresKept
<1>3. CASE ~same
  <2>1. PICK o \in Object : o = [cache[p][k] EXCEPT !.labels = labels]
    BY <1>1 DEF Object
  <2>2. cache' = [cache EXCEPT ![p] = [cache[p] EXCEPT ![k] = o]]
    BY <1>3, <2>1 DEF Label, Cells
  <2>3. /\ cache' \in Cells
        /\ \A q \in Pods, j \in Kinds :
             cache'[q][j] = IF q = p /\ j = k THEN o ELSE cache[q][j]
    <3>1. cache \in Cells
      OBVIOUS
    <3>2. QED
      BY <2>2, <3>1 DEF Cells
  <2>4. /\ req' = [tries |-> MaxTries, labels |-> labels, current |-> current[p][k]]
        /\ pass' = [pass EXCEPT !.at = k, !.on = p]
    BY <1>3 DEF Label
  <2>5. req' \in ReqType /\ req'.labels = labels /\ req'.current = current[p][k]
        /\ Writing'
    BY <1>1, <2>4 DEF ReqType, Writing
  <2>6. pass' \in PassType /\ pass'.at = k /\ pass'.on = p
    BY <2>4 DEF PassType
  <2>7. cache'[p][k].labels = labels /\ cache'[p][k].spec = cache[p][k].spec
    BY <1>1, <2>1, <2>3 DEF Object
  <2>8. Targeted'
    BY <2>5, <2>6 DEF Targeted, CanSucceed, Honest, Tells, Exists
  <2>9. ASSUME NEW q \in Pods, NEW j \in Kinds PROVE Tells(q, j)'
    <3>1. CASE q = p /\ j = k
      BY <2>5, <2>6, <2>7, <3>1 DEF Honest, Tells, Target, CanSucceed, Exists
    <3>2. CASE ~(q = p /\ j = k)
      BY <2>3, <3>2 DEF Honest, Tells, Target, CanSucceed, Exists
    <3>3. QED
      BY <3>1, <3>2
  <2>10. QED
    BY <2>3, <2>5, <2>6, <2>8, <2>9 DEF Honest
<1>4. QED
  BY <1>2, <1>3

-----------------------------------------------------------------------------
(* Every step *)

Inv == TypeOK /\ MembersCounted /\ Honest

LEMMA Step == Inv /\ [Next]_vars => Inv'
<1> SUFFICES ASSUME Inv, [Next]_vars PROVE Inv'
  OBVIOUS
<1> DEFINE Parts ==
      /\ stored \in Cells /\ cache \in Cells /\ current \in Flags
      /\ member \in [Pods -> Ids] /\ joined \in [Pods -> BOOLEAN]
      /\ policy \in Policies
      /\ pass \in PassType /\ req \in ReqType /\ budget \in Budget
<1>p. Parts /\ TypeOK /\ MembersCounted /\ Honest
  BY TypeParts DEF Inv
<1>w. /\ ~Writing => ~CanSucceed /\ \A p \in Pods, k \in Kinds : ~Target(p, k)
      /\ pass.at \in {"reclaim", "orphans"} => ~Writing
      /\ pass.on \in Pods
  BY <1>p DEF CanSucceed, Target, Honest, Targeted, Kinds, PassType
<1>m. ASSUME UNCHANGED <<member, joined>>, budget' \in Budget, budget'.faults <= budget.faults
      PROVE  MembersCounted'
  BY <1>p, <1>m DEF MembersCounted, Budget, Ids
<1>k. UNCHANGED budget \/ Spend("faults") \/ Spend("failures")
      => FailuresKept /\ budget' \in Budget /\ budget'.faults <= budget.faults
  BY <1>p, Spending DEF FailuresKept, Budget
<1> HIDE DEF Parts
<1> SUFFICES Parts' /\ MembersCounted' /\ Honest'
  BY DEF Inv, Parts, TypeOK, Cells, Flags, PassType, ReqType, Budget
<1> USE DEF Parts
<1>e. EndPass => pass' \in PassType
  BY StartType DEF EndPass
<1>1. ASSUME NEW p \in Pods, ReclaimPolicy(p)
      PROVE  Parts' /\ MembersCounted' /\ Honest'
  <2>1. pass' \in PassType
    BY <1>1, <1>p, <1>e, SeenType DEF ReclaimPolicy
  <2>2. ~Writing /\ (UNCHANGED budget \/ Spend("failures"))
    BY <1>1, <1>w DEF ReclaimPolicy
  <2>3. CASE UNCHANGED <<stored, current>>
    BY <1>1, <1>p, <1>k, <1>m, <2>1, <2>2, <2>3, NoRequestMade DEF ReclaimPolicy
  <2>4. CASE /\ Exists(stored[p]["volume"])
             /\ stored' = [stored EXCEPT ![p]["volume"].spec = policy]
             /\ Changed(p, {"volume"})
    <3>1. PICK o \in Object : o = [stored[p]["volume"] EXCEPT !.spec = policy]
      <4>1. stored[p]["volume"] \in Object
        BY <1>p DEF Cells, Kinds
      <4>2. QED
        BY <1>p, <4>1, ObjectChanges
    <3>2. stored' = [stored EXCEPT ![p] = [stored[p] EXCEPT !["volume"] = o]]
      BY <1>p, <2>4, <3>1 DEF Cells, Kinds
    <3>3. stored' \in Cells
      BY <1>p, <3>2 DEF Cells
    <3>4. \A q \in Pods, j \in Kinds : ~(q = p /\ j \in {"volume"}) => stored'[q][j] = stored[q][j]
      BY <1>p, <3>2 DEF Cells
    <3>5. Exists(stored'[p]["volume"])
      BY <1>p, <3>1, <3>2 DEF Cells, Exists, Policies, Object, Kinds
    <3>6. Honest'
      BY <1>1, <1>p, <1>k, <2>2, <2>4, <3>4, <3>5, Written DEF ReclaimPolicy
    <3>7. QED
      BY <1>1, <1>p, <1>k, <1>m, <2>1, <2>2, <2>4, <3>3, <3>6, ChangedType DEF ReclaimPolicy
  <2>5. QED
    BY <1>1, <2>3, <2>4 DEF ReclaimPolicy
<1>2. ASSUME NEW p \in Pods, Clean(p)
      PROVE  Parts' /\ MembersCounted' /\ Honest'
  <2>1. pass' \in PassType
    BY <1>2, <1>p, <1>e, SeenType DEF Clean
  <2>2. ~Writing /\ (UNCHANGED budget \/ Spend("failures"))
    BY <1>2, <1>w DEF Clean
  <2>3. CASE UNCHANGED <<stored, current>>
    BY <1>2, <1>p, <1>k, <1>m, <2>1, <2>2, <2>3, NoRequestMade DEF Clean
  <2>4. CASE stored' = [stored EXCEPT ![p]["pod"] = Nothing] /\ Changed(p, {"pod"})
    <3>1. stored' \in Cells /\ stored'[p]["pod"] = Nothing
      BY <1>p, <2>4, Constants DEF Cells, Kinds
    <3>2. \A q \in Pods, j \in Kinds : ~(q = p /\ j \in {"pod"}) => stored'[q][j] = stored[q][j]
      BY <1>p, <2>4 DEF Cells
    <3>3. Honest'
      BY <1>2, <1>p, <1>k, <2>2, <2>4, <3>1, <3>2, Written DEF Clean
    <3>4. QED
      BY <1>2, <1>p, <1>k, <1>m, <2>1, <2>2, <2>4, <3>1, <3>3, ChangedType DEF Clean
  <2>5. QED
    BY <1>2, <2>3, <2>4 DEF Clean
<1>3. ASSUME NEW p \in Pods, UpdatePod(p)
      PROVE  Parts' /\ MembersCounted' /\ Honest'
  <2>1. ~Writing /\ UNCHANGED <<stored, current, member, joined, policy>>
    BY <1>3 DEF UpdatePod
  <2>2. CASE /\ Exists(cache[p]["pod"])
             /\ Label(p, "pod", PodLabels(p), cache[p]["pod"].labels = PodLabels(p))
             /\ UNCHANGED budget
    <3>1. PodLabels(p) \in Labels
      BY <1>p DEF PodLabels, Listed, Labels, Cells, Object, Kinds, Ids
    <3>2. cache' \in Cells /\ req' \in ReqType /\ pass' \in PassType /\ Honest'
      BY <1>p, <2>1, <2>2, <3>1, LabelSets DEF Kinds
    <3>3. QED
      BY <1>p, <1>m, <1>k, <2>1, <2>2, <3>2
  <2>3. CASE pass' = Seen("pod", p) /\ UNCHANGED <<cache, req, budget>>
    BY <1>p, <1>m, <1>k, <2>1, <2>3, SeenType, NoRequestMade
  <2>4. CASE NoAnswer(p) /\ EndPass /\ Spend("faults") /\ UNCHANGED req
    BY <1>p, <1>m, <1>k, <1>e, <2>1, <2>4, NoRequestMade DEF NoAnswer
  <2>5. QED
    BY <1>3, <2>2, <2>3, <2>4 DEF UpdatePod
<1>4. CASE UpdateClaim \/ UpdateVolume
  <2>1. /\ ~Writing /\ UNCHANGED <<stored, current, member, joined, policy, budget>>
    BY <1>4 DEF UpdateClaim, UpdateVolume
  <2>2. CASE EndPass /\ UNCHANGED <<cache, req>>
    BY <1>p, <1>m, <1>k, <1>e, <2>1, <2>2, NoRequestMade
  <2>3. CASE \E k \in {"claim", "volume"}, labels \in Labels, same \in BOOLEAN :
               Exists(cache[pass.on][k]) /\ Label(pass.on, k, labels, same)
    <3>1. cache' \in Cells /\ req' \in ReqType /\ pass' \in PassType /\ Honest'
      BY <1>p, <1>w, <2>1, <2>3, LabelSets DEF Kinds
    <3>2. QED
      BY <1>p, <1>m, <1>k, <2>1, <3>1
  <2>4. \A old \in Labels, new \in Labels : SetIfNotEmpty(old, new) \in Labels
    BY DEF SetIfNotEmpty, Labels
  <2>5. /\ pass.labels \in Labels
        /\ \A k \in Kinds : cache[pass.on][k].labels \in Labels
    BY <1>p, <1>w DEF PassType, Cells, Object
  <2>6. ASSUME UpdateClaim, Exists(cache[pass.on]["claim"])
        PROVE  Label(pass.on, "claim",
                     SetIfNotEmpty(cache[pass.on]["claim"].labels, pass.labels),
                     cache[pass.on]["claim"].labels = pass.labels)
    BY <2>6 DEF UpdateClaim
  <2>7. ASSUME UpdateVolume, Exists(cache[pass.on]["volume"])
        PROVE  Label(pass.on, "volume",
                     SetIfNotEmpty(cache[pass.on]["volume"].labels, cache[pass.on]["claim"].labels),
                     ~Exists(cache[pass.on]["claim"])
                       \/ cache[pass.on]["volume"].labels = cache[pass.on]["claim"].labels)
    BY <2>7 DEF UpdateVolume
  <2>8. QED
    <3>1. ASSUME UpdateClaim, Exists(cache[pass.on]["claim"]) PROVE Parts' /\ MembersCounted' /\ Honest'
      BY <2>3, <2>4, <2>5, <2>6, <3>1 DEF Kinds
    <3>2. ASSUME UpdateVolume, Exists(cache[pass.on]["volume"]) PROVE Parts' /\ MembersCounted' /\ Honest'
      BY <2>3, <2>4, <2>5, <2>7, <3>2 DEF Kinds
    <3>3. QED
      BY <1>4, <2>2, <3>1, <3>2 DEF UpdateClaim, UpdateVolume
<1>5. CASE Accepted
  <2>1. /\ Writing /\ req.current /\ req' = NoRequest
        /\ pass' = Onwards(pass.on, pass.at, req.labels)
        /\ stored' = [stored EXCEPT ![pass.on][pass.at].labels = req.labels]
        /\ UNCHANGED <<cache, member, joined, policy, budget>>
    BY <1>5 DEF Accepted
  <2>2. pass.at \in Kinds /\ req.labels \in Labels /\ Exists(stored[pass.on][pass.at])
    BY <1>p, <1>5, <2>1 DEF Accepted, Honest, Targeted, ReqType
  <2>3. PICK o \in Object : o = [stored[pass.on][pass.at] EXCEPT !.labels = req.labels]
    <3>1. stored[pass.on][pass.at] \in Object
      BY <1>p, <1>w, <2>2 DEF Cells
    <3>2. QED
      BY <2>2, <3>1, ObjectChanges
  <2>4. stored' = [stored EXCEPT ![pass.on] = [stored[pass.on] EXCEPT ![pass.at] = o]]
    BY <1>p, <1>w, <2>1, <2>2, <2>3 DEF Cells
  <2>5. /\ stored' \in Cells
        /\ \A q \in Pods, j \in Kinds :
             stored'[q][j] = IF q = pass.on /\ j = pass.at THEN o ELSE stored[q][j]
    BY <1>p, <1>w, <2>2, <2>4 DEF Cells
  <2>6. o.spec = stored[pass.on][pass.at].spec /\ o.labels = req.labels
    BY <1>p, <1>w, <2>2, <2>3 DEF Cells, Object
  <2>7. pass' \in PassType /\ req' \in ReqType /\ ~Writing' /\ ~CanSucceed'
    BY <1>p, <1>w, <2>1, <2>2, OnwardsType, Constants DEF Writing, CanSucceed
  <2>8. /\ current' \in Flags
        /\ \A q \in Pods, j \in Kinds :
             current'[q][j] => current[q][j]
                               /\ (q = pass.on /\ j = pass.at => stored[q][j].labels = req.labels)
    <3>1. CASE stored[pass.on][pass.at].labels = req.labels
      BY <1>5, <1>p, <3>1 DEF Accepted
    <3>2. CASE stored[pass.on][pass.at].labels # req.labels
      <4>1. Changed(pass.on, {pass.at})
        BY <1>5, <3>2 DEF Accepted
      <4>2. QED
        BY <1>p, <1>w, <4>1, ChangedType
    <3>3. QED
      BY <3>1, <3>2
  <2>9. ASSUME NEW q \in Pods, NEW j \in Kinds PROVE Tells(q, j)'
    <3>1. CASE q = pass.on /\ j = pass.at
      BY <1>p, <2>1, <2>2, <2>5, <2>6, <2>8, <3>1 DEF Honest, Tells, Target, Exists
    <3>2. CASE ~(q = pass.on /\ j = pass.at)
      BY <1>p, <2>1, <2>5, <2>8, <3>2 DEF Honest, Tells, Target, Exists
    <3>3. QED
      BY <3>1, <3>2
  <2>10. QED
    BY <1>p, <1>m, <1>k, <2>1, <2>5, <2>7, <2>8, <2>9 DEF Honest, Targeted
<1>6. CASE Conflict \/ NotFound
  <2>1. Writing /\ ~req.current /\ pass.at \in Kinds
    BY <1>p, <1>6 DEF Conflict, NotFound, Honest, Targeted, CanSucceed
  <2>2. ~CanSucceed /\ \A q \in Pods, j \in Kinds : ~Target(q, j)
    BY <2>1 DEF CanSucceed, Target
  <2>3. UNCHANGED <<stored, cache, current, member, joined, policy, budget>>
    BY <1>6 DEF Conflict, NotFound, Retried
  <2>4. /\ req' \in ReqType /\ pass' \in PassType
        /\ Targeted'
    <3>1. CASE req' = NoRequest /\ EndPass
      BY <1>e, <3>1, Constants DEF Targeted, CanSucceed, Writing
    <3>2. CASE Conflict /\ req.tries > 1 /\ Retried(pass.on, pass.at) /\ UNCHANGED pass
      <4>1. /\ current[pass.on][pass.at] \in BOOLEAN
            /\ req' = [req EXCEPT !.tries = @ - 1, !.current = current[pass.on][pass.at]]
        BY <1>p, <1>w, <2>1, <3>2 DEF Retried, Flags
      <4>2. req' \in ReqType
        <5>1. req.tries - 1 \in 0 .. MaxTries
          BY <1>p, <3>2 DEF ReqType
        <5>2. QED
          BY <1>p, <4>1, <5>1 DEF ReqType
      <4>3. Exists(stored[pass.on][pass.at])
        BY <3>2 DEF Conflict
      <4>4. QED
        BY <1>p, <2>1, <2>3, <3>2, <4>2, <4>3 DEF Targeted, Exists
    <3>3. QED
      BY <1>6, <3>1, <3>2 DEF Conflict, NotFound
  <2>5. ASSUME NEW q \in Pods, NEW j \in Kinds PROVE Tells(q, j)'
    BY <1>p, <2>2, <2>3 DEF Honest, Tells, Exists
  <2>6. QED
    BY <1>p, <1>m, <1>k, <2>3, <2>4, <2>5 DEF Honest
<1>7. CASE Failed
  <2>1. /\ Writing /\ Spend("failures") /\ req' = NoRequest /\ EndPass
        /\ UNCHANGED <<cache, member, joined, policy>>
    BY <1>7 DEF Failed
  <2>2. pass.at \in Kinds /\ req.labels \in Labels
    BY <1>p, <2>1 DEF Honest, Targeted, ReqType
  <2>3. budget'.failures # MaxFailures
    BY <1>p, <2>1, Spending
  <2>4. /\ stored' \in Cells /\ current' \in Flags
        /\ \A q \in Pods, j \in Kinds : Tells(q, j)'
    <3>1. CASE UNCHANGED <<stored, current>>
      BY <1>p, <2>1, <2>3, <3>1 DEF Honest, Tells, Exists
    <3>2. CASE /\ Exists(stored[pass.on][pass.at])
               /\ stored' = [stored EXCEPT ![pass.on][pass.at].labels = req.labels]
               /\ Changed(pass.on, {pass.at})
      <4>1. PICK o \in Object : o = [stored[pass.on][pass.at] EXCEPT !.labels = req.labels]
        <5>1. stored[pass.on][pass.at] \in Object
          BY <1>p, <1>w, <2>2 DEF Cells
        <5>2. QED
          BY <2>2, <5>1, ObjectChanges
      <4>2. stored' = [stored EXCEPT ![pass.on] = [stored[pass.on] EXCEPT ![pass.at] = o]]
        BY <1>p, <1>w, <2>2, <3>2, <4>1 DEF Cells
      <4>3. /\ stored' \in Cells
            /\ \A q \in Pods, j \in Kinds :
                 stored'[q][j] = IF q = pass.on /\ j = pass.at THEN o ELSE stored[q][j]
        BY <1>p, <1>w, <2>2, <4>2 DEF Cells
      <4>4. /\ current' \in Flags
            /\ \A q \in Pods, j \in Kinds :
                 current'[q][j] => current[q][j] /\ ~(q = pass.on /\ j = pass.at)
        BY <1>p, <1>w, <3>2, ChangedType
      <4>5. Exists(o)
        BY <1>p, <1>w, <2>2, <3>2, <4>1 DEF Cells, Object, Exists
      <4>6. ASSUME NEW q \in Pods, NEW j \in Kinds PROVE Tells(q, j)'
        BY <1>p, <2>1, <2>3, <4>3, <4>4, <4>5 DEF Honest, Tells, Exists
      <4>7. QED
        BY <4>3, <4>4, <4>6
    <3>3. QED
      BY <1>7, <3>1, <3>2 DEF Failed
  <2>5. Targeted' /\ req' \in ReqType /\ pass' \in PassType
    BY <1>e, <2>1, Constants DEF Targeted, CanSucceed, Writing
  <2>6. QED
    BY <1>p, <1>m, <1>k, <2>1, <2>4, <2>5 DEF Honest
<1>8. ASSUME NEW p \in Pods, NEW k \in Kinds, Deliver(p, k)
      PROVE  Parts' /\ MembersCounted' /\ Honest'
  <2>1. UNCHANGED <<stored, member, joined, policy, pass, req, budget>>
    BY <1>8 DEF Deliver
  <2>2. /\ cache' \in Cells /\ current' \in Flags
        /\ cache'[p][k] = stored[p][k]
        /\ \A q \in Pods, j \in Kinds :
             ~(q = p /\ j = k) => cache'[q][j] = cache[q][j] /\ current'[q][j] = current[q][j]
    BY <1>8, <1>p DEF Deliver, Cells, Flags
  <2>3. Targeted'
    BY <1>p, <2>1 DEF Honest, Targeted, CanSucceed, Writing, Exists
  <2>4. ASSUME NEW q \in Pods, NEW j \in Kinds PROVE Tells(q, j)'
    BY <1>p, <2>1, <2>2 DEF Honest, Tells, Target, CanSucceed, Writing, Exists
  <2>5. QED
    BY <1>p, <1>m, <1>k, <2>1, <2>2, <2>3, <2>4 DEF Honest
<1>9. CASE Restart
  <2>1. Spend("faults") /\ UNCHANGED <<stored, member, joined, policy>>
    BY <1>9 DEF Restart
  <2>2. /\ cache' = [p \in Pods |-> [k \in Kinds |-> Nothing]] /\ cache' \in Cells
        /\ current' = [p \in Pods |-> [k \in Kinds |-> ~Exists(stored[p][k])]] /\ current' \in Flags
    BY <1>9, Constants DEF Restart, Cells, Flags
  <2>3. pass' \in PassType /\ req' \in ReqType /\ Targeted'
    BY <1>9, StartType, Constants DEF Restart, Targeted, CanSucceed, Writing
  <2>4. ASSUME NEW q \in Pods, NEW j \in Kinds PROVE Tells(q, j)'
    BY <1>p, <2>1, <2>2 DEF Honest, Tells, Exists
  <2>5. QED
    BY <1>p, <1>m, <1>k, <2>1, <2>2, <2>3, <2>4 DEF Honest
\* The actions of others.
<1>10. ASSUME NEW p \in Pods, CreatePod(p)
       PROVE  Parts' /\ MembersCounted' /\ Honest'
  <2>1. PICK makes : Outdated(p, makes)
          /\ stored' = [stored EXCEPT ![p] = [k \in Kinds |->
               IF k \notin makes THEN @[k] ELSE New(IF k = "pod" THEN "pod" ELSE "unbound")]]
    BY <1>10 DEF CreatePod
  <2>2. New("pod") \in Object /\ New("unbound") \in Object /\ Exists(New("pod"))
        /\ Exists(New("unbound"))
    BY Constants DEF Exists, New
  <2>3. /\ stored' \in Cells
        /\ \A q \in Pods, j \in Kinds : ~(q = p /\ j \in makes) => stored'[q][j] = stored[q][j]
        /\ \A j \in Kinds \cap makes : Exists(stored'[p][j])
    <3>1. [k \in Kinds |-> IF k \notin makes THEN stored[p][k]
                           ELSE New(IF k = "pod" THEN "pod" ELSE "unbound")]
            \in [Kinds -> Object]
      BY <1>p, <2>2 DEF Cells
    <3>2. QED
      BY <1>p, <2>1, <2>2, <3>1 DEF Cells
  <2>4. UNCHANGED <<cache, member, joined, policy, pass, budget>>
    BY <1>10 DEF CreatePod
  <2>5. Honest'
    BY <1>p, <1>k, <2>1, <2>3, <2>4, Written DEF Outdated
  <2>6. QED
    BY <1>p, <1>m, <1>k, <2>1, <2>3, <2>4, <2>5, ChangedType, OutdatedType DEF Outdated
<1>11. ASSUME NEW p \in Pods, Bind(p) \/ DeleteClaim(p)
       PROVE  Parts' /\ MembersCounted' /\ Honest'
  <2>1. Outdated(p, {"claim", "volume"}) /\ UNCHANGED <<cache, member, policy, pass>>
    BY <1>11 DEF Bind, DeleteClaim
  <2>2. /\ stored' \in Cells
        /\ \A q \in Pods, j \in Kinds :
             ~(q = p /\ j \in {"claim", "volume"}) => stored'[q][j] = stored[q][j]
        /\ \A j \in {"claim", "volume"} : ~Exists(stored'[p][j]) => stored'[p][j] = Nothing
    <3>1. CASE Bind(p)
      <4>1. PICK o \in Object : o = [stored[p]["claim"] EXCEPT !.spec = "bound"]
        <5>1. stored[p]["claim"] \in Object
          BY <1>p DEF Cells, Kinds
        <5>2. QED
          BY <5>1, ObjectChanges
      <4>2. stored' = [stored EXCEPT ![p] = [stored[p] EXCEPT !["claim"] = o, !["volume"] = New("Delete")]]
        BY <1>p, <3>1, <4>1 DEF Bind, Cells, Kinds
      <4>3. New("Delete") \in Object /\ Exists(New("Delete")) /\ Exists(o)
        BY <1>p, <4>1, Constants DEF New, Exists, Policies, Cells, Object, Kinds
      <4>4. QED
        BY <1>p, <4>2, <4>3 DEF Cells, Kinds
    <3>2. CASE DeleteClaim(p)
      <4>1. stored' = [stored EXCEPT ![p] = [stored[p] EXCEPT !["claim"] = Nothing, !["volume"] = Nothing]]
        BY <1>p, <3>2 DEF DeleteClaim, Cells, Kinds
      <4>2. QED
        BY <1>p, <4>1, Constants DEF Cells, Kinds
    <3>3. QED
      BY <1>11, <3>1, <3>2
  <2>3. UNCHANGED budget \/ Spend("faults")
    BY <1>11 DEF Bind, DeleteClaim
  <2>4. Honest'
    BY <1>p, <1>k, <2>1, <2>2, <2>3, Written DEF Outdated
  <2>5. joined' \in [Pods -> BOOLEAN] /\ MembersCounted'
    <3>1. CASE Bind(p)
      BY <1>p, <1>m, <1>k, <3>1 DEF Bind
    <3>2. CASE DeleteClaim(p)
      <4>1. budget'.faults < budget.faults
        BY <1>p, <3>2, Spending DEF DeleteClaim
      <4>2. joined' = [joined EXCEPT ![p] = FALSE] /\ member' = member
        BY <3>2 DEF DeleteClaim
      <4>3. budget' \in Budget
        BY <1>k, <2>3
      <4>4. QED
        BY <1>p, <4>1, <4>2, <4>3 DEF MembersCounted, Budget, Ids
    <3>3. QED
      BY <1>11, <3>1, <3>2
  <2>6. QED
    BY <1>p, <1>k, <2>1, <2>2, <2>3, <2>4, <2>5, ChangedType, OutdatedType DEF Outdated
<1>12. ASSUME NEW p \in Pods, Join(p)
       PROVE  Parts' /\ MembersCounted' /\ Honest'
  <2>1. /\ ~joined[p] /\ member' = [member EXCEPT ![p] = @ + 1]
        /\ joined' = [joined EXCEPT ![p] = TRUE]
        /\ UNCHANGED <<stored, cache, current, policy, pass, req, budget>>
    BY <1>12 DEF Join
  <2>2. Honest'
    BY <1>p, <1>k, <2>1, NothingTouched
  <2>3. member[p] + 1 \in Ids
    BY <1>p, <2>1 DEF MembersCounted, Budget, Ids
  <2>4. MembersCounted'
    BY <1>p, <2>1 DEF MembersCounted, Budget, Ids
  <2>5. QED
    BY <1>p, <2>1, <2>2, <2>3, <2>4
<1>13. ASSUME NEW p \in Pods, NEW k \in Kinds,
              (DeletePod(p) /\ k = "pod") \/ Touch(p, k)
       PROVE  Parts' /\ MembersCounted' /\ Honest'
  <2>1. /\ Outdated(p, {k}) /\ Spend("faults")
        /\ UNCHANGED <<cache, member, joined, policy, pass>>
    BY <1>13 DEF DeletePod, Touch
  <2>2. /\ stored' \in Cells
        /\ \A q \in Pods, j \in Kinds : ~(q = p /\ j \in {k}) => stored'[q][j] = stored[q][j]
        /\ ~Exists(stored'[p][k]) => stored'[p][k] = Nothing
    BY <1>p, <1>13, Constants DEF DeletePod, Touch, Cells
  <2>3. Honest'
    BY <1>p, <1>k, <2>1, <2>2, Written DEF Outdated
  <2>4. QED
    BY <1>p, <1>m, <1>k, <2>1, <2>2, <2>3, ChangedType, OutdatedType DEF Outdated
<1>14. CASE EditPolicy
  <2>1. UNCHANGED <<stored, cache, current, member, joined, pass, req>> /\ Spend("faults")
        /\ policy' \in Policies
    BY <1>14 DEF EditPolicy
  <2>2. QED
    BY <1>p, <1>m, <1>k, <2>1, NothingTouched
<1>15. CASE UNCHANGED vars
  BY <1>p, <1>m, <1>k, <1>15, NothingTouched DEF vars
<1>16. QED
  BY <1>1, <1>2, <1>3, <1>4, <1>5, <1>6, <1>7, <1>8, <1>9, <1>10, <1>11, <1>12, <1>13, <1>14, <1>15
     DEF Next, Meta, Answered, Kinds

LEMMA Invariance == Spec => []Inv
<1>1. Init => Inv
  BY TypeInit, HonestInit DEF Inv
<1>2. QED
  BY <1>1, Step, PTL DEF Spec

\* The objects, the copies, the pass and the request keep their types; PD never has
\* more ids than claims were made.
THEOREM TypeCorrect == Spec => []TypeOK
  BY Invariance, PTL DEF Inv

\* As long as no request fails otherwise than by a conflict or a missing object, a
\* label set in the shared cache is either submitted by the request in flight or
\* what the API server has: for any number of pods, faults and attempts.
THEOREM CacheIsTrue == Spec => []CacheTells
<1>1. Inv => CacheTells
  <2> SUFFICES ASSUME Inv, budget.failures = MaxFailures, NEW p \in Pods, NEW k \in Kinds,
                      Stuck(p, k)
               PROVE  FALSE
    BY DEF CacheTells
  <2>1. Tells(p, k)
    BY DEF Inv, Honest
  <2>2. QED
    BY <2>1 DEF Stuck, Tells, Target, CanSucceed
<1>2. QED
  BY <1>1, Invariance, PTL

-----------------------------------------------------------------------------
(* The ids of members *)

\* What makes it right to give a pod an id: it is the id of the member its claim has,
\* or the pod has it; or the claim is gone, and comes back only with another pod.
Backed(p, id) ==
  \/ id = 0 \/ id = stored[p]["pod"].labels.id
  \/ ~Exists(stored[p]["claim"])
  \/ joined[p] /\ member[p] = id

\* The copies from which a first attempt is made, and a first attempt.
FirstAttempt == CanSucceed /\ pass.at = "pod" /\ req.tries = MaxTries
CopiesBacked == \A p \in Pods : current[p]["pod"] => Backed(p, cache[p]["pod"].labels.id)
AttemptBacked == FirstAttempt => Backed(pass.on, req.labels.id)
Justified == CopiesBacked /\ AttemptBacked

NotMisled == \A p \in Pods : Misled(p)' => Misled(p) \/ (Writing /\ req.tries < MaxTries)

\* A pod that keeps its labels and its member, of which no other copy becomes current.
Kept(p) ==
  /\ stored'[p]["pod"].labels = stored[p]["pod"].labels
  /\ Exists(stored'[p]["claim"]) =>
       Exists(stored[p]["claim"]) /\ joined'[p] = joined[p] /\ member'[p] = member[p]
  /\ current'[p]["pod"] =>
       \/ current[p]["pod"] /\ cache'[p]["pod"].labels = cache[p]["pod"].labels
       \/ cache'[p]["pod"].labels.id \in {0, stored[p]["pod"].labels.id}

\* A pod that is created, or deleted.
Renewed(p) == stored'[p]["pod"].labels.id = 0 /\ ~current'[p]["pod"]

AttemptKept ==
  FirstAttempt' => /\ FirstAttempt /\ Kept(pass.on)
                   /\ pass'.on = pass.on /\ req'.labels = req.labels

LEMMA OthersJustified ==
  ASSUME Inv, Justified, \A p \in Pods : Kept(p) \/ Renewed(p), AttemptKept
  PROVE  Justified' /\ NotMisled
<1>1. ASSUME NEW p \in Pods, Kept(p), NEW id, Backed(p, id)
      PROVE  Backed(p, id)'
  BY <1>1 DEF Kept, Backed
<1>2. ASSUME NEW p \in Pods, current'[p]["pod"] PROVE Backed(p, cache[p]["pod"].labels.id)'
  <2>1. Kept(p)
    BY <1>2 DEF Renewed
  <2>2. CASE current[p]["pod"] /\ cache'[p]["pod"].labels = cache[p]["pod"].labels
    BY <1>1, <2>1, <2>2 DEF Justified, CopiesBacked, Backed
  <2>3. CASE cache'[p]["pod"].labels.id \in {0, stored[p]["pod"].labels.id}
    BY <2>1, <2>3 DEF Backed, Kept
  <2>4. QED
    BY <1>2, <2>1, <2>2, <2>3 DEF Kept
<1>3. AttemptBacked'
  <2> SUFFICES ASSUME FirstAttempt' PROVE Backed(pass.on, req.labels.id)'
    BY DEF AttemptBacked
  <2>1. pass.on \in Pods
    BY TypeParts DEF Inv, PassType
  <2>2. Backed(pass.on, req.labels.id) /\ Kept(pass.on)
    BY DEF Justified, AttemptBacked, AttemptKept
  <2>3. pass'.on = pass.on /\ req'.labels = req.labels
    BY DEF AttemptKept
  <2>4. QED
    BY <2>1, <2>2, <2>3 DEF Backed, Kept
<1>4. NotMisled
  BY DEF NotMisled, Misled, Kept, Renewed
<1>5. QED
  BY <1>2, <1>3, <1>4 DEF Justified, CopiesBacked

\* The answer to an update: its labels are stored, or nothing is.
LEMMA AnswersJustified ==
  ASSUME Inv, Justified, Accepted \/ Failed
  PROVE  Justified' /\ NotMisled
<1> DEFINE p == pass.on
<1>1. p \in Pods /\ Writing /\ pass.at \in Kinds /\ req.labels \in Labels
      /\ stored \in Cells /\ current \in Flags /\ req.tries \in 0 .. MaxTries
  BY TypeParts DEF Inv, PassType, ReqType, Honest, Targeted, Accepted, Failed
<1>2. UNCHANGED <<cache, member, joined>> /\ req' = NoRequest
  BY DEF Accepted, Failed
<1>3. ~FirstAttempt' /\ AttemptKept
  BY <1>2, Constants DEF FirstAttempt, CanSucceed, Writing, AttemptKept
<1>4. CASE UNCHANGED <<stored, current>>
  BY <1>2, <1>3, <1>4, OthersJustified DEF Kept
<1>5. CASE /\ req.current
           /\ stored' = [stored EXCEPT ![p][pass.at].labels = req.labels]
           /\ Changed(p, {pass.at})
  <2>1. PICK o \in Object : o = [stored[p][pass.at] EXCEPT !.labels = req.labels]
    <3>1. stored[p][pass.at] \in Object
      BY <1>1 DEF Cells
    <3>2. QED
      BY <1>1, <3>1, ObjectChanges
  <2>2. stored' = [stored EXCEPT ![p] = [stored[p] EXCEPT ![pass.at] = o]]
    BY <1>1, <1>5, <2>1 DEF Cells
  <2>3. \A q \in Pods, j \in Kinds :
          stored'[q][j] = IF q = p /\ j = pass.at THEN o ELSE stored[q][j]
    BY <1>1, <2>2 DEF Cells
  <2>4. o.spec = stored[p][pass.at].spec /\ o.labels = req.labels
    <3>1. stored[p][pass.at] \in Object
      BY <1>1 DEF Cells
    <3>2. QED
      BY <1>1, <2>1, <3>1 DEF Object
  <2>5. \A q \in Pods : current'[q]["pod"] => current[q]["pod"]
    BY <1>1, <1>5, ChangedType DEF Kinds
  <2>6. \A q \in Pods : Exists(stored'[q]["claim"]) <=> Exists(stored[q]["claim"])
    BY <2>3, <2>4 DEF Exists, Kinds
  <2>7. \A q \in Pods : ~(q = p /\ pass.at = "pod") => Kept(q)
    BY <1>2, <2>3, <2>5, <2>6 DEF Kept, Kinds
  <2>8. CASE pass.at # "pod"
    BY <1>3, <2>7, <2>8, OthersJustified
  <2>9. CASE pass.at = "pod"
    <3>1. ~current'[p]["pod"]
      BY <1>1, <1>5, <2>9, ChangedType DEF Kinds
    <3>2. ASSUME NEW q \in Pods, current'[q]["pod"] PROVE Backed(q, cache[q]["pod"].labels.id)'
      <4>1. q # p
        BY <3>1, <3>2
      <4>2. Backed(q, cache[q]["pod"].labels.id)
        BY <2>5, <3>2 DEF Justified, CopiesBacked
      <4>3. stored'[q]["pod"] = stored[q]["pod"]
        BY <2>3, <4>1 DEF Kinds
      <4>4. QED
        BY <1>2, <2>6, <4>2, <4>3 DEF Backed
    <3>3. ASSUME NEW q \in Pods, Misled(q)', ~Misled(q), ~(req.tries < MaxTries) PROVE FALSE
      <4>1. q = p
        BY <2>7, <3>3 DEF Kept, Misled
      <4>2. stored'[p]["pod"].labels.id = req.labels.id
        BY <1>1, <2>3, <2>4, <2>9
      <4>3. FirstAttempt
        BY <1>1, <1>5, <2>9, <3>3 DEF FirstAttempt, CanSucceed
      <4>4. Backed(p, req.labels.id)
        BY <4>3 DEF Justified, AttemptBacked
      <4>5. QED
        BY <1>2, <2>6, <3>3, <4>1, <4>2, <4>4 DEF Backed, Misled
    <3>4. Justified'
      BY <1>3, <3>2 DEF Justified, CopiesBacked, AttemptBacked
    <3>5. QED
      BY <1>1, <3>3, <3>4 DEF NotMisled
  <2>10. QED
    BY <2>8, <2>9
<1>6. CASE /\ req.current /\ UNCHANGED current /\ stored[p][pass.at].labels = req.labels
           /\ stored' = [stored EXCEPT ![p][pass.at].labels = req.labels]
  <2>1. stored' = stored
    <3>1. stored[p][pass.at] \in Object
      BY <1>1 DEF Cells
    <3>2. [stored[p][pass.at] EXCEPT !.labels = req.labels] = stored[p][pass.at]
      BY <1>6, <3>1 DEF Object
    <3>3. [stored[p] EXCEPT ![pass.at] = stored[p][pass.at]] = stored[p]
      BY <1>1 DEF Cells
    <3>4. [stored EXCEPT ![p] = stored[p]] = stored
      BY <1>1 DEF Cells
    <3>5. QED
      BY <1>6, <3>2, <3>3, <3>4
  <2>2. QED
    BY <1>4, <1>6, <2>1
<1>7. QED
  BY <1>4, <1>5, <1>6 DEF Accepted, Failed

\* A pod is labelled with the ids PD gave for it, or nothing is submitted for it.
LEMMA UpdatesJustified ==
  ASSUME Inv, Justified, NEW p \in Pods, UpdatePod(p)
  PROVE  Justified' /\ NotMisled
<1>1. ~Writing /\ UNCHANGED <<stored, current, member, joined>> /\ cache \in Cells
      /\ pass \in PassType
  BY TypeParts DEF Inv, UpdatePod
<1>2. CASE UNCHANGED <<cache, req>>
  BY <1>1, <1>2, OthersJustified DEF Kept, AttemptKept, FirstAttempt, CanSucceed, Writing
<1>3. CASE /\ cache' = [cache EXCEPT ![p]["pod"].labels = PodLabels(p)]
           /\ req' = [tries |-> MaxTries, labels |-> PodLabels(p), current |-> current[p]["pod"]]
           /\ pass' = [pass EXCEPT !.at = "pod", !.on = p]
  <2>1. PICK id : id = PodLabels(p).id
    OBVIOUS
  <2>2. current[p]["pod"] => Backed(p, id)
    <3>1. current[p]["pod"] => Backed(p, cache[p]["pod"].labels.id)
      BY DEF Justified, CopiesBacked
    <3>2. id = IF cache[p]["pod"].labels.id = 0 THEN Listed(p) ELSE cache[p]["pod"].labels.id
      BY <2>1 DEF PodLabels
    <3>3. Backed(p, Listed(p))
      BY DEF Backed, Listed
    <3>4. QED
      BY <3>1, <3>2, <3>3
  <2>3. \A q \in Pods : cache'[q]["pod"].labels.id =
                          IF q = p THEN id ELSE cache[q]["pod"].labels.id
    <3>1. cache[p]["pod"] \in Object
      BY <1>1 DEF Cells, Kinds
    <3>2. QED
      BY <1>1, <1>3, <2>1, <3>1 DEF Cells, Kinds, Object
  <2>4. ASSUME NEW q \in Pods, current'[q]["pod"] PROVE Backed(q, cache[q]["pod"].labels.id)'
    <3>1. CASE q = p
      BY <1>1, <2>2, <2>3, <2>4, <3>1 DEF Backed
    <3>2. CASE q # p
      BY <1>1, <2>3, <2>4, <3>2 DEF Justified, CopiesBacked, Backed
    <3>3. QED
      BY <3>1, <3>2
  <2>5. AttemptBacked'
    <3>1. pass'.on = p /\ req'.labels.id = id /\ (CanSucceed' => current[p]["pod"])
      BY <1>1, <1>3, <2>1 DEF PassType, CanSucceed
    <3>2. QED
      BY <1>1, <2>2, <3>1 DEF AttemptBacked, FirstAttempt, Backed
  <2>6. NotMisled
    BY <1>1 DEF NotMisled, Misled
  <2>7. QED
    BY <2>4, <2>5, <2>6 DEF Justified, CopiesBacked
<1>4. QED
  BY <1>2, <1>3 DEF UpdatePod, Label, NoAnswer

LEMMA JustifiedStep == Inv /\ Justified /\ [Next]_vars => Justified' /\ NotMisled
<1> SUFFICES ASSUME Inv, Justified, [Next]_vars PROVE Justified' /\ NotMisled
  OBVIOUS
<1>p. /\ stored \in Cells /\ cache \in Cells /\ current \in Flags /\ pass \in PassType
      /\ req \in ReqType
  BY TypeParts DEF Inv
<1>w. pass.on \in Pods /\ (pass.at \in {"reclaim", "orphans"} => ~Writing)
  BY <1>p DEF Inv, Honest, Targeted, Kinds, PassType
<1>n. ~Writing /\ UNCHANGED req => AttemptKept
  BY DEF AttemptKept, FirstAttempt, CanSucceed, Writing
<1>o. ASSUME NEW p \in Pods, NEW kinds, Outdated(p, kinds), UNCHANGED pass
      PROVE  /\ \A q \in Pods : current'[q]["pod"] => current[q]["pod"]
             /\ "pod" \in kinds => ~current'[p]["pod"]
             /\ FirstAttempt' => /\ FirstAttempt /\ req'.labels = req.labels
                                 /\ "pod" \in kinds => pass.on # p
  <2>1. \A q \in Pods, j \in Kinds :
          current'[q][j] <=> current[q][j] /\ ~(q = p /\ j \in kinds)
    BY <1>p, <1>o, ChangedType DEF Outdated
  <2>2. /\ req'.tries = req.tries /\ req'.labels = req.labels
        /\ req'.current <=> req.current /\ ~(pass.on = p /\ pass.at \in kinds)
    BY <1>p, <1>o, OutdatedType
  <2>3. QED
    BY <1>o, <2>1, <2>2 DEF FirstAttempt, CanSucceed, Writing, Kinds
<1>1. ASSUME NEW p \in Pods, ReclaimPolicy(p) PROVE Justified' /\ NotMisled
  <2>1. /\ ~Writing /\ UNCHANGED <<cache, member, joined, req>>
        /\ \/ UNCHANGED <<stored, current>>
           \/ stored' = [stored EXCEPT ![p]["volume"].spec = policy] /\ Changed(p, {"volume"})
    BY <1>1, <1>w DEF ReclaimPolicy
  <2>2. \A q \in Pods : /\ stored'[q]["pod"] = stored[q]["pod"]
                        /\ stored'[q]["claim"] = stored[q]["claim"]
    BY <1>p, <2>1 DEF Cells, Kinds
  <2>3. \A q \in Pods : current'[q]["pod"] => current[q]["pod"]
    BY <1>p, <2>1, ChangedType DEF Kinds
  <2>4. QED
    BY <1>n, <2>1, <2>2, <2>3, OthersJustified DEF Kept
<1>2. ASSUME NEW p \in Pods, Clean(p) PROVE Justified' /\ NotMisled
  <2>1. /\ ~Writing /\ UNCHANGED <<cache, member, joined, req>>
        /\ \/ UNCHANGED <<stored, current>>
           \/ stored' = [stored EXCEPT ![p]["pod"] = Nothing] /\ Changed(p, {"pod"})
    BY <1>2, <1>w DEF Clean
  <2>2. \A q \in Pods : Kept(q) \/ Renewed(q)
    <3>1. CASE UNCHANGED <<stored, current>>
      BY <2>1, <3>1 DEF Kept
    <3>2. CASE stored' = [stored EXCEPT ![p]["pod"] = Nothing] /\ Changed(p, {"pod"})
      <4>1. /\ stored'[p]["pod"] = Nothing
            /\ \A q \in Pods : q # p => stored'[q] = stored[q]
        BY <1>p, <3>2 DEF Cells, Kinds
      <4>2. \A q \in Pods : current'[q]["pod"] <=> current[q]["pod"] /\ q # p
        BY <1>p, <3>2, ChangedType DEF Kinds
      <4>3. QED
        BY <2>1, <4>1, <4>2 DEF Kept, Renewed, Nothing, New, Unlabelled
    <3>3. QED
      BY <2>1, <3>1, <3>2
  <2>3. QED
    BY <1>n, <2>1, <2>2, OthersJustified
<1>3. ASSUME NEW p \in Pods, UpdatePod(p) PROVE Justified' /\ NotMisled
  BY <1>3, UpdatesJustified
<1>4. CASE UpdateClaim \/ UpdateVolume
  <2>1. ~Writing /\ UNCHANGED <<stored, current, member, joined>>
    BY <1>4 DEF UpdateClaim, UpdateVolume
  <2>2. CASE UNCHANGED <<cache, req>>
    BY <1>n, <2>1, <2>2, OthersJustified DEF Kept
  <2>3. CASE \E k \in {"claim", "volume"} : \E labels :
               /\ cache' = [cache EXCEPT ![pass.on][k].labels = labels]
               /\ pass' = [pass EXCEPT !.at = k, !.on = pass.on]
    <3>1. \A q \in Pods : cache'[q]["pod"] = cache[q]["pod"]
      BY <1>p, <2>3 DEF Cells, Kinds
    <3>2. pass'.at # "pod"
      BY <1>p, <2>3 DEF PassType
    <3>3. QED
      BY <2>1, <3>1, <3>2, OthersJustified DEF Kept, AttemptKept, FirstAttempt
  <2>4. QED
    BY <1>4, <2>2, <2>3 DEF UpdateClaim, UpdateVolume, Label
<1>5. CASE Accepted \/ Failed
  BY <1>5, AnswersJustified
<1>6. CASE Conflict \/ NotFound
  <2>1. UNCHANGED <<stored, cache, current, member, joined>>
    BY <1>6 DEF Conflict, NotFound, Retried
  <2>2. ~FirstAttempt'
    <3>1. CASE req' = NoRequest
      BY <3>1, Constants DEF FirstAttempt, CanSucceed, Writing
    <3>2. CASE req' = [req EXCEPT !.tries = @ - 1, !.current = current[pass.on][pass.at]]
      <4>1. req'.tries = req.tries - 1 /\ req.tries \in 0 .. MaxTries
        BY <1>p, <3>2 DEF ReqType
      <4>2. QED
        BY <4>1 DEF FirstAttempt
    <3>3. QED
      BY <1>6, <3>1, <3>2 DEF Conflict, NotFound, Retried
  <2>3. QED
    BY <2>1, <2>2, OthersJustified DEF Kept, AttemptKept
<1>7. ASSUME NEW p \in Pods, NEW k \in Kinds, Deliver(p, k) PROVE Justified' /\ NotMisled
  <2>1. UNCHANGED <<stored, member, joined, pass, req>>
    BY <1>7 DEF Deliver
  <2>2. /\ cache'[p][k] = stored[p][k]
        /\ \A q \in Pods, j \in Kinds :
             ~(q = p /\ j = k) => cache'[q][j] = cache[q][j] /\ current'[q][j] = current[q][j]
    BY <1>7, <1>p DEF Deliver, Cells, Flags
  <2>3. \A q \in Pods : Kept(q)
    BY <2>1, <2>2 DEF Kept, Kinds
  <2>4. AttemptKept
    BY <1>w, <2>1, <2>3 DEF AttemptKept, FirstAttempt, CanSucceed, Writing
  <2>5. QED
    BY <2>3, <2>4, OthersJustified
<1>8. CASE Restart
  <2>1. /\ UNCHANGED <<stored, member, joined>> /\ req' = NoRequest
        /\ cache' = [p \in Pods |-> [k \in Kinds |-> Nothing]]
    BY <1>8 DEF Restart
  <2>2. \A q \in Pods : cache'[q]["pod"].labels.id = 0
    BY <2>1 DEF Kinds, Nothing, New, Unlabelled
  <2>3. AttemptKept
    BY <2>1, Constants DEF AttemptKept, FirstAttempt, CanSucceed, Writing
  <2>4. QED
    BY <2>1, <2>2, <2>3, OthersJustified DEF Kept
<1>9. ASSUME NEW p \in Pods, CreatePod(p) PROVE Justified' /\ NotMisled
  <2>1. PICK makes : /\ Outdated(p, makes) /\ "pod" \in makes
                     /\ stored' = [stored EXCEPT ![p] = [k \in Kinds |->
                          IF k \notin makes THEN @[k] ELSE New(IF k = "pod" THEN "pod" ELSE "unbound")]]
    BY <1>9 DEF CreatePod
  <2>2. UNCHANGED <<cache, member, joined, pass>>
    BY <1>9 DEF CreatePod
  <2>3. /\ stored'[p]["pod"] = New("pod")
        /\ \A q \in Pods : q # p => stored'[q] = stored[q]
    BY <1>p, <2>1 DEF Cells, Kinds
  <2>4. Renewed(p) /\ \A q \in Pods : q # p => Kept(q)
    BY <1>o, <2>1, <2>2, <2>3 DEF Renewed, Kept, New, Unlabelled
  <2>5. AttemptKept
    BY <1>o, <1>w, <2>1, <2>2, <2>4 DEF AttemptKept
  <2>6. QED
    BY <2>4, <2>5, OthersJustified
<1>10. ASSUME NEW p \in Pods, Bind(p) \/ DeleteClaim(p) PROVE Justified' /\ NotMisled
  <2>1. Outdated(p, {"claim", "volume"}) /\ UNCHANGED <<cache, member, pass>>
    BY <1>10 DEF Bind, DeleteClaim
  <2>2. \A q \in Pods : stored'[q]["pod"] = stored[q]["pod"]
    <3>1. CASE Bind(p)
      BY <1>p, <3>1 DEF Bind, Cells, Kinds
    <3>2. CASE DeleteClaim(p)
      BY <1>p, <3>2 DEF DeleteClaim, Cells, Kinds
    <3>3. QED
      BY <1>10, <3>1, <3>2
  <2>3. \A q \in Pods : Exists(stored'[q]["claim"]) =>
                          Exists(stored[q]["claim"]) /\ joined'[q] = joined[q]
    <3>1. CASE Bind(p)
      BY <1>p, <3>1 DEF Bind, Exists, Cells, Kinds
    <3>2. CASE DeleteClaim(p)
      <4>1. /\ stored'[p]["claim"] = Nothing
            /\ \A q \in Pods : q # p => stored'[q] = stored[q]
        BY <1>p, <3>2 DEF DeleteClaim, Cells, Kinds
      <4>2. \A q \in Pods : q # p => joined'[q] = joined[q]
        BY <3>2, TypeParts DEF DeleteClaim, Inv
      <4>3. QED
        BY <4>1, <4>2 DEF Exists, Nothing, New
    <3>3. QED
      BY <1>10, <3>1, <3>2
  <2>4. \A q \in Pods : Kept(q)
    BY <1>o, <2>1, <2>2, <2>3 DEF Kept
  <2>5. AttemptKept
    BY <1>o, <1>w, <2>1, <2>4 DEF AttemptKept
  <2>6. QED
    BY <2>4, <2>5, OthersJustified
<1>11. ASSUME NEW p \in Pods, Join(p) PROVE Justified' /\ NotMisled
  <2>1. /\ ~joined[p] /\ Exists(stored[p]["claim"])
        /\ member' = [member EXCEPT ![p] = @ + 1] /\ joined' = [joined EXCEPT ![p] = TRUE]
        /\ UNCHANGED <<stored, cache, current, pass, req>>
    BY <1>11 DEF Join
  <2>2. \A q \in Pods : q # p => joined'[q] = joined[q] /\ member'[q] = member[q]
    BY <2>1, TypeParts DEF Inv
  <2>3. \A q \in Pods : \A id : Backed(q, id) =>
          \/ id = 0 \/ id = stored'[q]["pod"].labels.id \/ ~Exists(stored'[q]["claim"])
          \/ joined'[q] /\ member'[q] = id
    BY <2>1, <2>2 DEF Backed
  <2>4. CopiesBacked'
    BY <2>1, <2>3 DEF Justified, CopiesBacked, Backed
  <2>5. AttemptBacked'
    BY <1>w, <2>1, <2>3
       DEF Justified, AttemptBacked, FirstAttempt, CanSucceed, Writing, Backed
  <2>6. NotMisled
    BY <2>1, <2>2 DEF NotMisled, Misled
  <2>7. QED
    BY <2>4, <2>5, <2>6 DEF Justified
<1>12. ASSUME NEW p \in Pods, DeletePod(p) PROVE Justified' /\ NotMisled
  <2>1. /\ Outdated(p, {"pod"}) /\ UNCHANGED <<cache, member, joined, pass>>
        /\ stored' = [stored EXCEPT ![p]["pod"] = Nothing]
    BY <1>12 DEF DeletePod
  <2>2. /\ stored'[p]["pod"] = Nothing
        /\ \A q \in Pods : q # p => stored'[q] = stored[q]
    BY <1>p, <2>1 DEF Cells, Kinds
  <2>3. Renewed(p) /\ \A q \in Pods : q # p => Kept(q)
    BY <1>o, <2>1, <2>2 DEF Renewed, Kept, Nothing, New, Unlabelled
  <2>4. AttemptKept
    BY <1>o, <1>w, <2>1, <2>3 DEF AttemptKept
  <2>5. QED
    BY <2>3, <2>4, OthersJustified
<1>13. ASSUME NEW p \in Pods, NEW k \in Kinds, Touch(p, k) PROVE Justified' /\ NotMisled
  <2>1. Outdated(p, {k}) /\ UNCHANGED <<stored, cache, member, joined, pass>>
    BY <1>13 DEF Touch
  <2>2. \A q \in Pods : Kept(q)
    BY <1>o, <2>1 DEF Kept
  <2>3. QED
    BY <1>o, <1>w, <2>1, <2>2, OthersJustified DEF AttemptKept
<1>14. CASE EditPolicy \/ UNCHANGED vars
  <2>1. UNCHANGED <<stored, cache, current, member, joined, pass, req>>
    BY <1>14 DEF EditPolicy, vars
  <2>2. \A q \in Pods : Kept(q)
    BY <2>1 DEF Kept
  <2>3. AttemptKept
    BY <1>w, <2>1, <2>2 DEF AttemptKept, FirstAttempt, CanSucceed, Writing
  <2>4. QED
    BY <2>2, <2>3, OthersJustified
<1>15. QED
  BY <1>1, <1>2, <1>3, <1>4, <1>5, <1>6, <1>7, <1>8, <1>9, <1>10, <1>11, <1>12, <1>13, <1>14
     DEF Next, Meta, Answered

\* Only a retry gives a pod the id of a former member, for any pods, faults and
\* attempts: a first attempt carries what PD said of the member the pod's claim has,
\* or the claim is gone by then, and comes back only with a new pod.
THEOREM OnlyRetriesMislead == Spec => MisledByRetry
<1>1. Init => Justified
  BY Constants DEF Init, Justified, CopiesBacked, AttemptBacked, FirstAttempt, CanSucceed,
     Writing, Backed, Nothing, New, Unlabelled, Kinds
<1>2. Spec => []Justified
  BY <1>1, Invariance, JustifiedStep, PTL DEF Spec
<1>3. NotMisled => \A p \in PDs : Misled(p)' => Misled(p) \/ (Writing /\ req.tries < MaxTries)
  BY DEF NotMisled, Pods
<1>4. Inv /\ Justified /\ [Next]_vars
      => [\A p \in PDs : Misled(p)' => Misled(p) \/ (Writing /\ req.tries < MaxTries)]_vars
  BY <1>3, JustifiedStep
<1>5. QED
  BY <1>2, <1>4, Invariance, PTL DEF Spec, MisledByRetry
=============================================================================
