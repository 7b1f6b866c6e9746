------------------------- MODULE CellClusterProofs -------------------------
(***************************************************************************)
(* The pass over a CellCluster and its status write, for any edits, faults *)
(* and numbers of attempts: the types, and that what the user and the      *)
(* discovery service wrote is never undone.  And that the components roll  *)
(* one at a time, as long as the user edits the templates once.            *)
(***************************************************************************)
EXTENDS CellClusterPass, TLAPS

USE PassAssumption

Entry == [upgrading : BOOLEAN, up : BOOLEAN, ready : BOOLEAN]
Wants == [Components -> Templates]
Sets == [Components -> SetObject \cup {NoSet}]
PassType == [want : Wants, peers : BOOLEAN, status : Status, began : Status,
             tries : 0 .. MaxTries]
Stages == {"idle", "status"} \cup Components
Budget == [edits : 0 .. MaxEdits, faults : 0 .. MaxFaults]
PodType == [tmpl : {0} \cup Templates, up : BOOLEAN]
Pods == [Components -> PodType]
Flags == [cache : BOOLEAN, pass : BOOLEAN]

-----------------------------------------------------------------------------
(* Types *)

LEMMA TypeParts ==
  TypeOK <=> /\ cc \in CellCluster /\ ccCache \in CellCluster /\ current \in Flags
             /\ set \in Sets /\ setCache \in Sets
             /\ pod \in Pods /\ joined \in BOOLEAN
             /\ stage \in Stages /\ pass \in PassType /\ budget \in Budget
  BY DEF TypeOK, Flags, Sets, PodType, Pods, Stages, PassType, Wants, Budget

LEMMA Entries == Status = [Components -> Entry]
  BY DEF Status, Entry

LEMMA Constants ==
  /\ Unknown \in Entry /\ \A c \in Components : AtRest(c) \in Entry
  /\ NoPass \in PassType
  /\ NoPod \in PodType
<1>1. Unknown \in Entry /\ \A c \in Components : AtRest(c) \in Entry
  BY DEF Unknown, AtRest, Entry
<1>2. [c \in Components |-> 1] \in Wants /\ [c \in Components |-> Unknown] \in Status
  BY <1>1, Entries DEF Wants, Templates
<1>3. 0 \in 0 .. MaxTries
  OBVIOUS
<1>4. QED
  BY <1>1, <1>2, <1>3 DEF NoPass, PassType, NoPod, PodType

LEMMA Spending ==
  ASSUME budget \in Budget, NEW what \in {"edits", "faults"}, Spend(what)
  PROVE  budget' \in Budget
<1>1. CASE what = "edits"
  BY <1>1 DEF Spend, Budget
<1>2. CASE what = "faults"
  BY <1>2 DEF Spend, Budget
<1>3. QED
  BY <1>1, <1>2

LEMMA TypeInit == Init => TypeOK
<1> SUFFICES ASSUME Init PROVE TypeOK
  OBVIOUS
<1>1. [c \in Components |-> 1] \in Wants
  BY DEF Wants, Templates
<1>2. /\ [c \in Components |-> Unknown] \in Status
      /\ [c \in Components |-> AtRest(c)] \in Status
  BY Constants, Entries
<1>3. CASE Created
  <2>1. cc \in CellCluster
    BY <1>1, <1>2, <1>3 DEF Created, CellCluster, Wants
  <2>2. set \in Sets /\ pod \in Pods /\ joined \in BOOLEAN
    BY <1>3, Constants DEF Created, Sets, Pods
  <2>3. budget \in Budget
    BY <1>3 DEF Created, Budget
  <2>4. QED
    BY <1>3, <2>1, <2>2, <2>3, Constants, TypeParts DEF Created, PassInit, Flags, Stages
<1>4. CASE Deployed
  <2>1. cc \in CellCluster
    BY <1>1, <1>2, <1>4 DEF Deployed, CellCluster, Wants
  <2>2. set \in Sets /\ pod \in Pods /\ joined \in BOOLEAN
    <3>1. [tmpl |-> 1, open |-> FALSE, was |-> 1, ready |-> TRUE] \in SetObject
      BY DEF SetObject, Templates
    <3>2. [tmpl |-> 1, up |-> TRUE] \in PodType
      BY DEF PodType, Templates
    <3>3. QED
      BY <1>4, <3>1, <3>2 DEF Deployed, Sets, Pods
  <2>3. budget \in Budget
    BY <1>4 DEF Deployed, Budget
  <2>4. QED
    BY <1>4, <2>1, <2>2, <2>3, Constants, TypeParts DEF Deployed, PassInit, Flags, Stages
<1>5. QED
  BY <1>3, <1>4 DEF Init

\* What a manager asks a set for.
Asked == [tmpl : Templates, open : BOOLEAN]

LEMMA AskedType ==
  ASSUME TypeOK, NEW c \in Components, Exists(setCache[c]),
         NEW synced \in BOOLEAN, NEW up \in BOOLEAN
  PROVE  Upgraded(c, synced, up) \subseteq Asked
<1>1. setCache[c] \in SetObject
  BY DEF TypeOK, Exists, NoSet
<1>2. setCache[c].tmpl \in Templates /\ setCache[c].open \in BOOLEAN
  BY <1>1 DEF SetObject
<1>3. pass.want[c] \in Templates
  BY DEF TypeOK
<1>4. Walk(c, up) \subseteq BOOLEAN
  <2>1. CASE c = "store" /\ ~joined
    BY <1>2, <2>1 DEF Walk
  <2>2. CASE ~(c = "store" /\ ~joined) /\ ~Exists(pod[c])
    BY <2>2 DEF Walk
  <2>3. CASE ~(c = "store" /\ ~joined) /\ Exists(pod[c])
    BY <1>2, <2>3 DEF Walk
  <2>4. QED
    BY <2>1, <2>2, <2>3
<1>5. Ask(c) \in Asked /\ [Ask(c) EXCEPT !.tmpl = setCache[c].tmpl] \in Asked
  BY <1>2, <1>3 DEF Ask, Asked
<1>6. \A o \in BOOLEAN : [Ask(c) EXCEPT !.open = o] \in Asked
  BY <1>3 DEF Ask, Asked
<1>7. {[Ask(c) EXCEPT !.open = o] : o \in Walk(c, up)} \subseteq Asked
  BY <1>4, <1>6
<1>8. CASE ~NeedUpgrade(c)
  BY <1>5, <1>8 DEF Upgraded
<1>9. CASE NeedUpgrade(c) /\ Gated(c)
  BY <1>5, <1>9 DEF Upgraded
<1>10. CASE NeedUpgrade(c) /\ ~Gated(c) /\ ~synced
  BY <1>10 DEF Upgraded
<1>11. CASE NeedUpgrade(c) /\ ~Gated(c) /\ synced
  <2>1. Upgraded(c, synced, up) = IF pass.want[c] # setCache[c].tmpl THEN {Ask(c)}
                                  ELSE {[Ask(c) EXCEPT !.open = o] : o \in Walk(c, up)}
    BY <1>11 DEF Upgraded
  <2>2. QED
    BY <1>5, <1>7, <2>1
<1>12. QED
  BY <1>8, <1>9, <1>10, <1>11

LEMMA Afterwards == ASSUME NEW c \in Components PROVE After(c) \in Stages
  BY DEF After, Components, Stages

LEMMA StoresType ==
  ASSUME TypeOK, NEW c \in Components, Exists(setCache[c]), NEW new \in Asked,
         Stores(c, new)
  PROVE  set' \in Sets /\ stage' \in Stages /\ UNCHANGED <<cc, ccCache, current, podVars>>
<1>1. CASE set' = [set EXCEPT ![c].tmpl = new.tmpl, ![c].open = new.open]
           /\ setCache[c] = set[c]
  <2>1. set[c] \in SetObject /\ set \in Sets
    BY <1>1, TypeParts DEF Sets, Exists, NoSet
  <2>2. [set[c] EXCEPT !.tmpl = new.tmpl, !.open = new.open] \in SetObject
    BY <2>1 DEF SetObject, Asked
  <2>3. set' = [set EXCEPT ![c] = [set[c] EXCEPT !.tmpl = new.tmpl, !.open = new.open]]
    BY <1>1, <2>1 DEF Sets
  <2>4. QED
    BY <2>1, <2>2, <2>3, Afterwards DEF Stores, Goto, Sets, Stages
<1>2. CASE set' = set
  BY <1>2, Afterwards, TypeParts DEF Stores, Goto, Stages
<1>3. QED
  BY <1>1, <1>2 DEF Stores

\* A manager's step changes only these, and of the pass only its status.
LEMMA SyncMemberType ==
  ASSUME TypeOK, NEW c \in Components, SyncMember(c)
  PROVE  /\ set' \in Sets /\ stage' \in Stages /\ pass' \in PassType /\ budget' \in Budget
         /\ pass'.want = pass.want /\ pass'.peers = pass.peers
         /\ UNCHANGED <<cc, ccCache, current, podVars, setCache>>
<1>1. CASE Blocked(c) /\ Goto("status") /\ UNCHANGED <<set, pass, budget>>
  BY <1>1, TypeParts DEF Goto, Stages, SyncMember
<1>2. CASE CreateSet(c)
  <2>1. pass' \in PassType /\ pass'.want = pass.want /\ pass'.peers = pass.peers
    <3>1. PICK r \in BOOLEAN : pass' = [pass EXCEPT !.status[c].ready = r]
      <4>1. pass.status[c].ready \in BOOLEAN
        BY DEF TypeOK, Status
      <4>2. QED
        BY <1>2, <4>1 DEF CreateSet
    <3>2. pass.status \in [Components -> Entry] /\ pass \in PassType
      BY TypeParts, Entries DEF PassType
    <3>3. [pass.status EXCEPT ![c].ready = r] \in [Components -> Entry]
      BY <3>2 DEF Entry
    <3>4. QED
      BY <3>1, <3>2, <3>3, Entries DEF PassType
  <2>2. set' \in Sets
    <3>1. pass.want[c] \in Templates /\ set \in Sets
      BY TypeParts DEF TypeOK
    <3>2. [tmpl |-> pass.want[c], open |-> FALSE, was |-> pass.want[c], ready |-> FALSE]
            \in SetObject
      BY <3>1 DEF SetObject
    <3>3. QED
      BY <1>2, <3>1, <3>2 DEF CreateSet, Sets
  <2>3. stage' \in Stages /\ UNCHANGED <<cc, ccCache, current, podVars>>
    BY <1>2, Afterwards DEF CreateSet, Goto, Stages
  <2>4. QED
    BY <1>2, <2>1, <2>2, <2>3, TypeParts DEF CreateSet, SyncMember
<1>3. CASE Exists(setCache[c]) /\ SyncSet(c)
  <2>1. PICK synced \in BOOLEAN, up \in SeenUp(c) \cup {pass.status[c].up} :
          LET seen == Seen(c, up)
              new == Upgraded(c, synced, up)
          IN /\ IF synced THEN UNCHANGED budget /\ up \in SeenUp(c) /\ (Answers \/ c = "proxy")
                ELSE /\ c # "proxy" /\ up = pass.status[c].up
                     /\ IF Answers THEN Spend("faults") ELSE UNCHANGED budget
             /\ pass' = [pass EXCEPT !.status =
                           [seen EXCEPT ![c].upgrading =
                              @ \/ (NeedUpgrade(c) /\ ~Gated(c) /\ synced)]]
             /\ IF new = {} \/ (c = "store" /\ ~synced) THEN UNCHANGED set /\ Goto("status")
                ELSE \E n \in new : Stores(c, n)
    BY <1>3 DEF SyncSet
  <2>2. up \in BOOLEAN
    <3>1. pass.status[c].up \in BOOLEAN /\ pod["store"].up \in BOOLEAN
      BY DEF TypeOK, Status, Components
    <3>2. SeenUp(c) \subseteq BOOLEAN
      BY <3>1 DEF SeenUp, Components
    <3>3. QED
      BY <3>1, <3>2
  <2>3. pass' \in PassType /\ pass'.want = pass.want /\ pass'.peers = pass.peers
    <3>1. pass.status \in [Components -> Entry] /\ pass \in PassType
      BY TypeParts, Entries DEF PassType
    <3>2. setCache[c].ready \in BOOLEAN
      <4>1. setCache[c] \in SetObject
        BY <1>3 DEF TypeOK, Exists, NoSet
      <4>2. QED
        BY <4>1 DEF SetObject
    <3>3. Seen(c, up) \in [Components -> Entry]
      <4>1. (IsUpgrading(c) /\ ~Gated(c)) \in BOOLEAN
        OBVIOUS
      <4>2. QED
        BY <2>2, <3>1, <3>2, <4>1 DEF Seen, Entry
    <3>4. \A b \in BOOLEAN : [Seen(c, up) EXCEPT ![c].upgrading = b] \in [Components -> Entry]
      BY <3>3 DEF Entry
    <3>5. PICK b \in BOOLEAN : pass' = [pass EXCEPT !.status = [Seen(c, up) EXCEPT ![c].upgrading = b]]
      <4>1. Seen(c, up)[c].upgrading \in BOOLEAN
        BY <3>3 DEF Entry
      <4>2. DEFINE b == Seen(c, up)[c].upgrading \/ (NeedUpgrade(c) /\ ~Gated(c) /\ synced)
      <4>3. b \in BOOLEAN
        OBVIOUS
      <4>4. QED
        BY <2>1, <4>3
    <3>6. QED
      BY <3>1, <3>4, <3>5, Entries DEF PassType
  <2>4. budget' \in Budget
    BY <2>1, Spending, TypeParts
  <2>5. set' \in Sets /\ stage' \in Stages /\ UNCHANGED <<cc, ccCache, current, podVars>>
    <3>1. CASE UNCHANGED set /\ Goto("status")
      BY <3>1, TypeParts DEF Goto, Stages
    <3>2. CASE \E n \in Upgraded(c, synced, up) : Stores(c, n)
      BY <1>3, <2>2, <3>2, AskedType, StoresType
    <3>3. QED
      BY <2>1, <3>1, <3>2
  <2>6. QED
    BY <2>3, <2>4, <2>5 DEF SyncMember
<1>4. QED
  BY <1>1, <1>2, <1>3 DEF SyncMember

(***************************************************************************)
(* Type correctness                                                        *)
(***************************************************************************)

\* Every step keeps the types.
LEMMA TypeStep == TypeOK /\ [Next]_vars => TypeOK'
<1> SUFFICES ASSUME TypeOK, [Next]_vars PROVE TypeOK'
  OBVIOUS
<1> DEFINE Parts ==
      /\ cc \in CellCluster /\ ccCache \in CellCluster /\ current \in Flags
      /\ set \in Sets /\ setCache \in Sets
      /\ pod \in Pods /\ joined \in BOOLEAN
      /\ stage \in Stages /\ pass \in PassType /\ budget \in Budget
<1>p. Parts
  BY TypeParts
<1>e. \A f \in Flags, b \in BOOLEAN : [f EXCEPT !.cache = b] \in Flags /\ [f EXCEPT !.pass = b] \in Flags
  BY DEF Flags
<1>f. current.cache \in BOOLEAN /\ [cache |-> TRUE, pass |-> FALSE] \in Flags
      /\ [cache |-> FALSE, pass |-> FALSE] \in Flags
  BY <1>p DEF Flags
<1> SUFFICES Parts'
  BY DEF TypeOK, Flags, Sets, PodType, Pods, Stages, PassType, Wants, Budget
<1>1. CASE Begin
  <2>1. MaxTries \in 0 .. MaxTries
    OBVIOUS
  <2>2. pass' \in PassType
    BY <1>1, <1>p, <2>1 DEF Begin, PassType, CellCluster, Wants
  <2>3. current' \in Flags /\ stage' \in Stages
    BY <1>1, <1>p, <1>e, <1>f DEF Begin, Stages, Components
  <2>4. budget' \in Budget
    BY <1>1, <1>p, Spending DEF Begin
  <2>5. QED
    BY <1>1, <1>p, <2>2, <2>3, <2>4 DEF Begin, setVars, podVars
<1>2. CASE WriteStatus
  <2>1. pass' \in PassType /\ stage' \in Stages
    <3>1. CASE End
      BY <3>1, Constants DEF End, Stages
    <3>2. CASE Retries /\ pass' = Reread /\ stage' = stage
      <4>1. pass.tries - 1 \in 0 .. MaxTries
        BY <1>p, <3>2 DEF Retries, PassType
      <4>2. QED
        BY <1>p, <3>2, <4>1 DEF Reread, PassType, CellCluster, Wants
    <3>3. QED
      BY <1>2, <3>1, <3>2 DEF WriteStatus
  <2>2. cc' \in CellCluster /\ current' \in Flags
    <3>1. [want |-> pass.want, peers |-> pass.peers, status |-> pass.status] \in CellCluster
      BY <1>p DEF PassType, CellCluster, Wants
    <3>2. CASE StoredStatus
      BY <1>f, <3>1, <3>2 DEF StoredStatus, Stored
    <3>3. CASE NothingStored
      BY <1>p, <1>e, <3>3 DEF NothingStored
    <3>4. CASE cc' = cc /\ current' \in {current, [current EXCEPT !.pass = current.cache]}
      BY <1>p, <1>e, <1>f, <3>4
    <3>5. QED
      BY <1>2, <3>2, <3>3, <3>4 DEF WriteStatus
  <2>3. budget' \in Budget
    BY <1>2, <1>p, Spending DEF WriteStatus
  <2>4. QED
    BY <1>2, <1>p, <2>1, <2>2, <2>3 DEF WriteStatus, setVars, podVars
<1>3. ASSUME NEW c \in Components, SyncMember(c)
      PROVE  Parts'
  BY <1>3, <1>p, SyncMemberType DEF podVars
<1>4. CASE DeliverCC
  BY <1>4, <1>p, <1>e DEF DeliverCC, setVars, podVars, passVars
<1>5. ASSUME NEW c \in Components, DeliverSet(c)
      PROVE  Parts'
  <2>1. setCache' \in Sets
    BY <1>5, <1>p DEF DeliverSet, Sets
  <2>2. QED
    BY <1>5, <1>p, <2>1 DEF DeliverSet, ccVars, podVars, passVars
<1>6. ASSUME NEW c \in Components, CreatePod(c)
      PROVE  Parts'
  <2>1. set[c] \in SetObject
    BY <1>6, <1>p DEF CreatePod, Exists, NoSet, Sets
  <2>2. [tmpl |-> IF set[c].open THEN set[c].tmpl ELSE set[c].was, up |-> FALSE] \in PodType
    BY <2>1 DEF SetObject, PodType
  <2>3. pod' \in Pods
    BY <1>6, <1>p, <2>2 DEF CreatePod, Pods
  <2>4. QED
    BY <1>6, <1>p, <2>3 DEF CreatePod, Kubernetes, ccVars, passVars
<1>7. ASSUME NEW c \in Components, ComeUp(c)
      PROVE  Parts'
  <2>1. pod' \in Pods
    <3>1. [pod[c] EXCEPT !.up = TRUE] \in PodType
      <4>1. pod[c] \in PodType
        BY <1>p DEF Pods
      <4>2. \A q \in PodType : [q EXCEPT !.up = TRUE] \in PodType
        BY DEF PodType
      <4>3. QED
        BY <4>1, <4>2
    <3>2. pod' = [pod EXCEPT ![c] = [pod[c] EXCEPT !.up = TRUE]]
      BY <1>7, <1>p DEF ComeUp, Pods
    <3>3. QED
      BY <1>p, <3>1, <3>2 DEF Pods
  <2>2. joined' \in BOOLEAN
    BY <1>7, <1>p DEF ComeUp
  <2>3. QED
    BY <1>7, <1>p, <2>1, <2>2 DEF ComeUp, Kubernetes, ccVars, passVars
<1>8. ASSUME NEW c \in Components, Replace(c)
      PROVE  Parts'
  <2>1. pod' \in Pods
    BY <1>8, <1>p, Constants DEF Replace, Pods
  <2>2. QED
    BY <1>8, <1>p, <2>1 DEF Replace, Kubernetes, ccVars, passVars
<1>9. ASSUME NEW c \in Components, Observe(c)
      PROVE  Parts'
  <2>1. set[c] \in SetObject /\ pod[c] \in PodType
    BY <1>9, <1>p DEF Observe, Exists, NoSet, Sets, Pods
  <2>2. ObservedWas(c) \in Templates /\ pod[c].up \in BOOLEAN
    BY <2>1 DEF ObservedWas, SetObject, PodType
  <2>3. [set[c] EXCEPT !.was = ObservedWas(c), !.ready = pod[c].up] \in SetObject
    BY <2>1, <2>2 DEF SetObject
  <2>4. set' = [set EXCEPT ![c] = [set[c] EXCEPT !.was = ObservedWas(c), !.ready = pod[c].up]]
    BY <1>9, <1>p DEF Observe, Sets
  <2>5. QED
    BY <1>9, <1>p, <2>3, <2>4 DEF Observe, Kubernetes, ccVars, podVars, passVars, Sets
<1>10. ASSUME NEW c \in Components, Crash(c)
       PROVE  Parts'
  <2>1. pod' \in Pods /\ budget' \in Budget
    <3>1. [pod[c] EXCEPT !.up = FALSE] \in PodType
      <4>1. pod[c] \in PodType
        BY <1>p DEF Pods
      <4>2. \A q \in PodType : [q EXCEPT !.up = FALSE] \in PodType
        BY DEF PodType
      <4>3. QED
        BY <4>1, <4>2
    <3>2. pod' = [pod EXCEPT ![c] = [pod[c] EXCEPT !.up = FALSE]]
      BY <1>10, <1>p DEF Crash, Pods
    <3>3. QED
      BY <1>10, <1>p, <3>1, <3>2, Spending DEF Crash, Pods
  <2>2. QED
    BY <1>10, <1>p, <2>1 DEF Crash, Kubernetes, ccVars, passVars
<1>11. CASE EditSpec
  <2>1. PICK S \in Edits :
          Stored([cc EXCEPT !.want = [c \in Components |-> IF c \in S THEN 3 - @[c] ELSE @[c]]])
    BY <1>11 DEF EditSpec
  <2>2. cc.want \in Wants /\ \A t \in Templates : 3 - t \in Templates
    BY <1>p DEF CellCluster, Wants, Templates
  <2>3. [c \in Components |-> IF c \in S THEN 3 - cc.want[c] ELSE cc.want[c]] \in Wants
    BY <2>2 DEF Wants
  <2>4. cc' \in CellCluster /\ current' \in Flags
    BY <1>p, <1>f, <2>1, <2>3 DEF Stored, CellCluster, Wants
  <2>5. budget' \in Budget
    BY <1>11, <1>p, Spending DEF EditSpec
  <2>6. QED
    BY <1>11, <1>p, <2>4, <2>5 DEF EditSpec, setVars, podVars, passVars
<1>12. CASE StorePeers
  <2>1. cc' \in CellCluster /\ current' \in Flags
    BY <1>12, <1>p, <1>f DEF StorePeers, Stored, CellCluster
  <2>2. QED
    BY <1>12, <1>p, <2>1 DEF StorePeers, setVars, podVars, passVars
<1>13. CASE Restart
  <2>1. budget' \in Budget
    BY <1>13, <1>p, Spending DEF Restart
  <2>2. QED
    BY <1>13, <1>p, <1>f, <2>1, Constants DEF Restart, End, podVars, Stages
<1>14. CASE UNCHANGED vars
  BY <1>14, <1>p DEF vars, ccVars, setVars, podVars, passVars
<1>15. QED
  BY <1>1, <1>2, <1>3, <1>4, <1>5, <1>6, <1>7, <1>8, <1>9, <1>10, <1>11, <1>12, <1>13, <1>14
     DEF Next

\* The objects, their copies, the pods and the pass keep their types, whatever the
\* edits, the faults and the retries of UpdateCellCluster are.
THEOREM TypeCorrect == Spec => []TypeOK
<1>1. TypeOK /\ [Next]_vars => TypeOK'
  BY TypeStep
<1>2. QED
  BY TypeInit, <1>1, PTL DEF Spec

-----------------------------------------------------------------------------
(* What the user and the discovery service wrote *)

\* The resourceVersion of a copy vouches for what the copy says of the spec and
\* of the initial members: the pass itself changes neither before it writes.
CopiesAreTrue ==
  /\ current.cache => ccCache = cc
  /\ current.pass => pass.want = cc.want /\ pass.peers = cc.peers

LEMMA CopiesInit == Init => CopiesAreTrue
  BY DEF Init, Created, Deployed, PassInit, CopiesAreTrue

LEMMA CopiesStep == TypeOK /\ CopiesAreTrue /\ [Next]_vars => CopiesAreTrue'
<1> SUFFICES ASSUME TypeOK, CopiesAreTrue, [Next]_vars PROVE CopiesAreTrue'
  OBVIOUS
<1> USE DEF CopiesAreTrue
<1>t. current \in Flags /\ pass \in PassType
  BY TypeParts
<1>f. \A b \in BOOLEAN : /\ [current EXCEPT !.cache = b].cache = b
                         /\ [current EXCEPT !.cache = b].pass = current.pass
                         /\ [current EXCEPT !.pass = b].pass = b
                         /\ [current EXCEPT !.pass = b].cache = current.cache
  BY <1>t DEF Flags
<1>b. current.cache \in BOOLEAN
  BY <1>t DEF Flags
<1>1. CASE Begin
  BY <1>1, <1>f, <1>b DEF Begin
<1>2. CASE WriteStatus
  <2>1. CASE StoredStatus
    BY <2>1 DEF StoredStatus, Stored
  <2>2. CASE NothingStored /\ ccCache' = ccCache
    BY <2>2, <1>f DEF NothingStored
  <2>3. CASE Retries /\ pass' = Reread /\ current' = [current EXCEPT !.pass = current.cache]
             /\ UNCHANGED <<cc, ccCache>>
    <3>1. pass'.want = ccCache.want /\ pass'.peers = ccCache.peers
      BY <1>t, <2>3 DEF Reread, PassType
    <3>2. QED
      BY <1>f, <1>b, <2>3, <3>1
  <2>4. CASE ~current.pass /\ UNCHANGED <<cc, ccCache, current>>
    BY <2>4
  <2>5. QED
    BY <1>2, <2>1, <2>2, <2>3, <2>4 DEF WriteStatus, StoredStatus, Stored
<1>3. ASSUME NEW c \in Components, SyncMember(c)
      PROVE  CopiesAreTrue'
  BY <1>3, SyncMemberType
<1>4. CASE DeliverCC
  BY <1>4, <1>f DEF DeliverCC, passVars
<1>5. ASSUME NEW c \in Components,
             DeliverSet(c) \/ CreatePod(c) \/ ComeUp(c) \/ Replace(c) \/ Observe(c) \/ Crash(c)
      PROVE  CopiesAreTrue'
  BY <1>5 DEF DeliverSet, CreatePod, ComeUp, Replace, Observe, Crash, Kubernetes, ccVars,
              passVars
<1>6. CASE EditSpec \/ StorePeers \/ Restart
  BY <1>6 DEF EditSpec, StorePeers, Restart, Stored
<1>7. CASE UNCHANGED vars
  BY <1>7 DEF vars, ccVars, passVars
<1>8. QED
  BY <1>1, <1>2, <1>3, <1>4, <1>5, <1>6, <1>7 DEF Next

\* No status write of a pass takes back a user's edit or the initial PD members
\* that discovery stored: only an edit changes the templates asked for, and the
\* members stay once they are there.
THEOREM SpecIsKept == Spec => SpecKept
<1> DEFINE Kept == /\ cc'.want # cc.want => budget'.edits < budget.edits
                   /\ cc.peers => cc'.peers
<1>1. TypeOK /\ CopiesAreTrue /\ [Next]_vars => [Kept]_vars
  <2> SUFFICES ASSUME TypeOK, CopiesAreTrue, Next PROVE Kept
    OBVIOUS
  <2>t. cc \in CellCluster /\ budget \in Budget
    BY TypeParts
  <2>1. CASE UNCHANGED cc
    BY <2>1
  <2>2. CASE WriteStatus
    <3>1. CASE current.pass /\ StoredStatus
      BY <3>1 DEF StoredStatus, Stored, CopiesAreTrue
    <3>2. QED
      BY <2>1, <2>2, <3>1 DEF WriteStatus, NothingStored
  <2>3. CASE EditSpec
    <3>1. cc'.peers = cc.peers
      BY <2>3, <2>t DEF EditSpec, Stored, CellCluster
    <3>2. budget'.edits < budget.edits
      <4>1. budget.edits \in Nat
        BY <2>t DEF Budget
      <4>2. budget'.edits = budget.edits - 1
        BY <2>3, <2>t DEF EditSpec, Spend, Budget
      <4>3. QED
        BY <4>1, <4>2
    <3>3. QED
      BY <3>1, <3>2
  <2>4. CASE StorePeers
    BY <2>4, <2>t DEF StorePeers, Stored, CellCluster
  <2>5. CASE \E c \in Components : SyncMember(c)
    BY <2>1, <2>5, SyncMemberType
  <2>6. QED
    BY <2>1, <2>2, <2>3, <2>4, <2>5
       DEF Next, Begin, DeliverSet, DeliverCC, CreatePod, ComeUp, Replace, Observe, Crash,
           Restart, Kubernetes, ccVars
<1>2. Spec => [](TypeOK /\ CopiesAreTrue)
  BY TypeInit, TypeStep, CopiesInit, CopiesStep, PTL DEF Spec
<1>3. QED
  BY <1>1, <1>2, PTL DEF Spec, SpecKept
-----------------------------------------------------------------------------
(* One component at a time.  The phases that the managers go by were found on *)
(* cached sets, in a pass that began from a cached CellCluster: what has to be *)
(* known is that a set that is open never looks at rest in any cached copy.   *)

\* The templates asked for only go forward, and whatever is older than the
\* CellCluster (its copies, the pass, the sets, their copies) is behind it in that
\* order.  A set still to be created is created from the first template.
RollsForward ==
  /\ budget.edits > 0 => \A c \in Components : cc.want[c] = 1 /\ Exists(set[c])
  /\ \A c \in Components :
       /\ setCache[c].tmpl <= set[c].tmpl /\ setCache[c].was <= set[c].was
       /\ set[c].tmpl <= ccCache.want[c] /\ ccCache.want[c] <= cc.want[c]
       /\ stage # "idle" => set[c].tmpl <= pass.want[c] /\ pass.want[c] <= ccCache.want[c]
       /\ Exists(set[c]) \/ cc.want[c] = 1

\* The roll of a set: its member and its current revision are behind its template,
\* the revision is the new one only with the member, and the set is opened only for
\* a new template that the cache has.
SetsFollow ==
  \A c \in Components :
    /\ set[c].was <= set[c].tmpl /\ pod[c].tmpl <= set[c].tmpl
    /\ set[c].was = 2 => pod[c].tmpl = 2
    /\ set[c].open => set[c].tmpl = 2 /\ setCache[c].tmpl = 2

\* When the pass comes to a component and finds no earlier one upgrading, none of
\* the earlier ones is open for replacement.
Cleared ==
  stage \in Components /\ ~Gated(stage) => \A d \in Before(stage) : ~Exposed(d)

RollInv == TypeOK /\ CopiesAreTrue /\ RollsForward /\ SetsFollow

\* Templates and revisions are numbers that can be compared.
LEMMA Numbers ==
  ASSUME TypeOK, NEW c \in Components
  PROVE  /\ set[c].tmpl \in 0 .. 2 /\ set[c].was \in 0 .. 2
         /\ setCache[c].tmpl \in 0 .. 2 /\ setCache[c].was \in 0 .. 2
         /\ Exists(set[c]) => set[c] \in SetObject
         /\ Exists(setCache[c]) => setCache[c] \in SetObject
         /\ ~Exists(set[c]) => set[c] = NoSet
         /\ ~Exists(setCache[c]) => setCache[c] = NoSet
         /\ set[c].open \in BOOLEAN /\ setCache[c].open \in BOOLEAN
         /\ pod[c].tmpl \in 0 .. 2
         /\ cc.want[c] \in 1 .. 2 /\ ccCache.want[c] \in 1 .. 2 /\ pass.want[c] \in 1 .. 2
<1>1. \A object \in SetObject \cup {NoSet} :
        /\ object.tmpl \in 0 .. 2 /\ object.was \in 0 .. 2 /\ object.open \in BOOLEAN
        /\ Exists(object) => object \in SetObject
        /\ ~Exists(object) => object = NoSet
  <2>1. ASSUME NEW object \in SetObject
        PROVE  object.tmpl \in 1 .. 2 /\ object.was \in 1 .. 2 /\ object.open \in BOOLEAN
    BY DEF SetObject, Templates
  <2>2. NoSet.tmpl = 0 /\ NoSet.was = 0 /\ NoSet.open = FALSE
    BY DEF NoSet
  <2>3. ASSUME NEW object \in SetObject \cup {NoSet}
        PROVE  /\ object.tmpl \in 0 .. 2 /\ object.was \in 0 .. 2 /\ object.open \in BOOLEAN
               /\ Exists(object) => object \in SetObject
               /\ ~Exists(object) => object = NoSet
    <3>1. CASE object \in SetObject
      <4>1. object.tmpl \in 1 .. 2 /\ object.was \in 1 .. 2 /\ object.open \in BOOLEAN
        BY <2>1, <3>1
      <4>2. Exists(object) /\ object.tmpl \in 0 .. 2 /\ object.was \in 0 .. 2
        BY <4>1 DEF Exists
      <4>3. QED
        BY <3>1, <4>1, <4>2
    <3>2. CASE object = NoSet
      <4>1. object.tmpl = 0 /\ object.was = 0 /\ 0 \in 0 .. 2
        BY <2>2, <3>2
      <4>2. object.open \in BOOLEAN
        BY <3>2 DEF NoSet
      <4>3. QED
        BY <3>2, <4>1, <4>2 DEF Exists
    <3>3. QED
      BY <3>1, <3>2
  <2>4. QED
    BY <2>3
<1>2. set[c] \in SetObject \cup {NoSet} /\ setCache[c] \in SetObject \cup {NoSet}
  BY DEF TypeOK
<1>3. pod[c].tmpl \in 0 .. 2
  BY DEF TypeOK, Templates
<1>4. cc.want[c] \in 1 .. 2 /\ ccCache.want[c] \in 1 .. 2 /\ pass.want[c] \in 1 .. 2
  BY DEF TypeOK, CellCluster, Templates
<1>5. QED
  BY <1>1, <1>2, <1>3, <1>4

\* An open set looks like one that is upgrading in every copy of it.
LEMMA ExposedIsSeen ==
  ASSUME TypeOK, RollsForward, SetsFollow, NEW c \in Components, Exposed(c)
  PROVE  IsUpgrading(c)
<1>1. set[c].tmpl = 2 /\ setCache[c].tmpl = 2 /\ pod[c].tmpl # 2
  BY DEF SetsFollow, Exposed
<1>2. set[c].was # 2 /\ setCache[c].was <= set[c].was /\ set[c].was <= 2
  BY <1>1 DEF SetsFollow, RollsForward
<1>3. setCache[c].was # 2
  BY <1>2, Numbers
<1>4. QED
  BY <1>1, <1>3 DEF IsUpgrading

\* What an upgrader asks for: it opens a set only when the set has the template
\* asked for, the gate is open and PD answered.
LEMMA Opening ==
  ASSUME NEW c \in Components, NEW synced \in BOOLEAN, NEW up \in BOOLEAN,
         NEW new \in Upgraded(c, synced, up)
  PROVE  /\ new.tmpl \in {pass.want[c], setCache[c].tmpl}
         /\ new.open => /\ NeedUpgrade(c) /\ ~Gated(c) /\ synced
                        /\ new.tmpl = setCache[c].tmpl
                        /\ \/ setCache[c].open
                           \/ Exists(pod[c]) /\ pod[c].tmpl # setCache[c].tmpl
<1>1. /\ Ask(c).tmpl = pass.want[c] /\ Ask(c).open = FALSE
      /\ [Ask(c) EXCEPT !.tmpl = setCache[c].tmpl].tmpl = setCache[c].tmpl
      /\ [Ask(c) EXCEPT !.tmpl = setCache[c].tmpl].open = FALSE
  BY DEF Ask
<1>2. CASE ~NeedUpgrade(c)
  BY <1>1, <1>2 DEF Upgraded
<1>3. CASE NeedUpgrade(c) /\ Gated(c)
  BY <1>1, <1>3 DEF Upgraded
<1>4. CASE NeedUpgrade(c) /\ ~Gated(c) /\ ~synced
  BY <1>4 DEF Upgraded
<1>5. CASE NeedUpgrade(c) /\ ~Gated(c) /\ synced
  <2>1. Upgraded(c, synced, up) = IF pass.want[c] # setCache[c].tmpl THEN {Ask(c)}
                                  ELSE {[Ask(c) EXCEPT !.open = o] : o \in Walk(c, up)}
    BY <1>5 DEF Upgraded
  <2>2. CASE pass.want[c] # setCache[c].tmpl
    BY <1>1, <2>1, <2>2
  <2>3. CASE pass.want[c] = setCache[c].tmpl
    <3>1. PICK o \in Walk(c, up) : new = [Ask(c) EXCEPT !.open = o]
      BY <2>1, <2>3
    <3>2. new.tmpl = pass.want[c] /\ new.open = o
      BY <3>1 DEF Ask
    <3>3. o => \/ setCache[c].open
               \/ Exists(pod[c]) /\ pod[c].tmpl # setCache[c].tmpl
      BY <3>1 DEF Walk
    <3>4. QED
      BY <1>5, <2>3, <3>2, <3>3
  <2>4. QED
    BY <2>2, <2>3
<1>6. QED
  BY <1>2, <1>3, <1>4, <1>5

\* What a manager's step comes to: it creates the set from the template asked for,
\* or writes a set that the cache showed as it is, or leaves it; and the next
\* manager is told that this one upgrades if its copy of the set says so.
LEMMA ManagerStep ==
  ASSUME TypeOK, NEW c \in Components, SyncMember(c)
  PROVE  /\ \/ set' = set
            \/ /\ ~Exists(set[c])
               /\ set' = [set EXCEPT ![c] = [tmpl |-> pass.want[c], open |-> FALSE,
                                             was |-> pass.want[c], ready |-> FALSE]]
            \/ /\ setCache[c] = set[c] /\ Exists(set[c])
               /\ \E new \in Asked :
                    /\ set' = [set EXCEPT ![c].tmpl = new.tmpl, ![c].open = new.open]
                    /\ new.tmpl \in {pass.want[c], setCache[c].tmpl}
                    /\ new.open => /\ ~Gated(c) /\ pass'.status[c].upgrading
                                   /\ new.tmpl = setCache[c].tmpl
                                   /\ \/ setCache[c].open
                                      \/ Exists(pod[c]) /\ pod[c].tmpl # setCache[c].tmpl
         /\ stage' \in {"status", After(c)}
         /\ \A d \in Components \ {c} : pass'.status[d] = pass.status[d]
         /\ stage' # "status" /\ Exists(setCache[c]) /\ IsUpgrading(c) /\ ~Gated(c)
              => pass'.status[c].upgrading
<1>p. pass \in PassType /\ pass.status \in [Components -> Entry]
  BY TypeParts, Entries DEF PassType
<1>1. CASE Blocked(c) /\ Goto("status") /\ UNCHANGED <<set, pass, budget>>
  BY <1>1 DEF Goto
<1>2. CASE ~Exists(setCache[c]) /\ CreateSet(c)
  <2>1. pass' = [pass EXCEPT !.status[c].ready = IF Exists(set[c]) THEN @ ELSE FALSE]
    BY <1>2 DEF CreateSet
  <2>2. \A d \in Components \ {c} : pass'.status[d] = pass.status[d]
    BY <1>p, <2>1 DEF PassType
  <2>3. stage' \in {"status", After(c)}
    BY <1>2 DEF CreateSet, Goto
  <2>4. QED
    BY <1>2, <2>2, <2>3 DEF CreateSet
<1>3. CASE Exists(setCache[c]) /\ SyncSet(c)
  <2>1. PICK synced \in BOOLEAN, up \in SeenUp(c) \cup {pass.status[c].up} :
          /\ pass' = [pass EXCEPT !.status =
                        [Seen(c, up) EXCEPT ![c].upgrading =
                           @ \/ (NeedUpgrade(c) /\ ~Gated(c) /\ synced)]]
          /\ IF Upgraded(c, synced, up) = {} \/ (c = "store" /\ ~synced)
             THEN UNCHANGED set /\ Goto("status")
             ELSE \E n \in Upgraded(c, synced, up) : Stores(c, n)
    BY <1>3 DEF SyncSet
  <2>2. up \in BOOLEAN
    <3>1. pass.status[c].up \in BOOLEAN /\ pod["store"].up \in BOOLEAN
      BY DEF TypeOK, Status, Components
    <3>2. SeenUp(c) \subseteq BOOLEAN
      BY <3>1 DEF SeenUp, Components
    <3>3. QED
      BY <3>1, <3>2
  <2>3. /\ pass'.status = [Seen(c, up) EXCEPT ![c].upgrading =
                             @ \/ (NeedUpgrade(c) /\ ~Gated(c) /\ synced)]
        /\ Seen(c, up) = [pass.status EXCEPT ![c] =
                            [upgrading |-> IsUpgrading(c) /\ ~Gated(c),
                             up |-> up, ready |-> setCache[c].ready]]
    BY <1>p, <2>1 DEF PassType, Seen
  <2>4. \A d \in Components \ {c} : pass'.status[d] = pass.status[d]
    BY <1>p, <2>3
  <2>5. pass'.status[c].upgrading <=> \/ IsUpgrading(c) /\ ~Gated(c)
                                      \/ NeedUpgrade(c) /\ ~Gated(c) /\ synced
    <3> DEFINE own == [upgrading |-> IsUpgrading(c) /\ ~Gated(c),
                       up |-> up, ready |-> setCache[c].ready]
    <3>1. Seen(c, up)[c] = own /\ own.upgrading = (IsUpgrading(c) /\ ~Gated(c))
      BY <1>p, <2>3
    <3>2. pass'.status[c] = [own EXCEPT !.upgrading =
                               own.upgrading \/ (NeedUpgrade(c) /\ ~Gated(c) /\ synced)]
      BY <1>p, <2>3, <3>1
    <3>3. pass'.status[c].upgrading = (own.upgrading \/ (NeedUpgrade(c) /\ ~Gated(c) /\ synced))
      BY <3>2
    <3>4. QED
      BY <3>1, <3>3
  <2>6. CASE UNCHANGED set /\ Goto("status")
    BY <2>4, <2>6 DEF Goto
  <2>7. ASSUME NEW n \in Upgraded(c, synced, up), Stores(c, n)
        PROVE  /\ \/ set' = set
                  \/ /\ setCache[c] = set[c] /\ Exists(set[c])
                     /\ set' = [set EXCEPT ![c].tmpl = n.tmpl, ![c].open = n.open]
               /\ stage' \in {"status", After(c)}
    BY <1>3, <2>7 DEF Stores, Goto
  <2>8. \A n \in Upgraded(c, synced, up) :
          /\ n \in Asked /\ n.tmpl \in {pass.want[c], setCache[c].tmpl}
          /\ n.open => /\ NeedUpgrade(c) /\ ~Gated(c) /\ synced
                       /\ n.tmpl = setCache[c].tmpl
                       /\ \/ setCache[c].open
                          \/ Exists(pod[c]) /\ pod[c].tmpl # setCache[c].tmpl
    BY <1>3, <2>2, AskedType, Opening
  <2>9. QED
    BY <2>1, <2>4, <2>5, <2>6, <2>7, <2>8
<1>4. QED
  BY <1>1, <1>2, <1>3 DEF SyncMember

LEMMA RollInit == Init => RollsForward /\ SetsFollow /\ Cleared
<1> SUFFICES ASSUME Init PROVE RollsForward /\ SetsFollow /\ Cleared
  OBVIOUS
<1>1. stage = "idle" /\ "idle" \notin Components
  BY DEF Init, Created, Deployed, PassInit, Components
<1>2. CASE Created
  BY <1>1, <1>2
  DEF Created, PassInit, RollsForward, SetsFollow, Cleared, NoSet, NoPod, Exists
<1>3. CASE Deployed
  BY <1>1, <1>3
  DEF Deployed, PassInit, RollsForward, SetsFollow, Cleared, Exists
<1>4. QED
  BY <1>2, <1>3 DEF Init

\* What one set that a manager created or wrote keeps of the order.
LEMMA ManagerRolls ==
  ASSUME RollInv, NEW c \in Components, SyncMember(c)
  PROVE  RollsForward' /\ SetsFollow'
<1> USE DEF RollInv
<1>0. /\ stage = c /\ stage # "idle"
      /\ pass'.want = pass.want
      /\ UNCHANGED <<cc, ccCache, current, pod, joined, setCache>>
  BY SyncMemberType DEF SyncMember, Components, podVars
<1>b. budget'.edits = budget.edits
  <2>1. budget \in Budget
    BY TypeParts
  <2>2. Spend("faults") => budget'.edits = budget.edits
    BY <2>1 DEF Spend, Budget
  <2>3. QED
    BY <2>2 DEF SyncMember, CreateSet, SyncSet
<1>n. \A d \in Components :
        /\ set[d].tmpl \in 0 .. 2 /\ set[d].was \in 0 .. 2
        /\ setCache[d].tmpl \in 0 .. 2 /\ setCache[d].was \in 0 .. 2
        /\ pod[d].tmpl \in 0 .. 2
        /\ cc.want[d] \in 1 .. 2 /\ ccCache.want[d] \in 1 .. 2 /\ pass.want[d] \in 1 .. 2
  BY Numbers
<1>s. set \in Sets
  BY TypeParts
<1>w. \A d \in Components : set[d].tmpl <= pass.want[d] /\ pass.want[d] <= ccCache.want[d]
  BY <1>0 DEF RollsForward
<1>1. CASE set' = set
  BY <1>0, <1>b, <1>w, <1>1 DEF RollsForward, SetsFollow, Exists
<1>2. CASE /\ ~Exists(set[c])
           /\ set' = [set EXCEPT ![c] = [tmpl |-> pass.want[c], open |-> FALSE,
                                         was |-> pass.want[c], ready |-> FALSE]]
  <2>1. cc.want[c] = 1 /\ set[c].tmpl = 0 /\ set[c].was = 0
    BY <1>2, Numbers DEF RollsForward, Exists, NoSet
  <2>2. pass.want[c] = 1
    BY <1>n, <1>w, <2>1 DEF RollsForward
  <2>3. /\ set'[c].tmpl = 1 /\ set'[c].was = 1 /\ set'[c].open = FALSE
        /\ \A d \in Components : d # c => set'[d] = set[d]
    BY <1>s, <1>2, <2>2 DEF Sets
  <2>4. RollsForward'
    BY <1>0, <1>b, <1>n, <1>w, <2>1, <2>2, <2>3 DEF RollsForward, Exists
  <2>5. SetsFollow'
    BY <1>0, <1>n, <2>1, <2>3 DEF SetsFollow
  <2>6. QED
    BY <2>4, <2>5
<1>3. ASSUME setCache[c] = set[c], Exists(set[c]), NEW new \in Asked,
             set' = [set EXCEPT ![c].tmpl = new.tmpl, ![c].open = new.open],
             new.tmpl \in {pass.want[c], setCache[c].tmpl},
             new.open => /\ new.tmpl = setCache[c].tmpl
                         /\ \/ setCache[c].open
                            \/ Exists(pod[c]) /\ pod[c].tmpl # setCache[c].tmpl
      PROVE  RollsForward' /\ SetsFollow'
  <2>1. set[c] \in SetObject /\ new.tmpl \in 1 .. 2
    BY <1>3, Numbers DEF Asked, Templates
  <2>2. /\ set'[c].tmpl = new.tmpl /\ set'[c].open = new.open /\ set'[c].was = set[c].was
        /\ \A d \in Components : d # c => set'[d] = set[d]
    BY <1>s, <1>3, <2>1 DEF Sets, SetObject
  <2>3. set[c].tmpl <= new.tmpl /\ new.tmpl <= pass.want[c]
    BY <1>n, <1>w, <1>3
  <2>4. RollsForward'
    <3>1. Exists(set'[c])
      BY <2>1, <2>2 DEF Exists
    <3>2. budget'.edits > 0 => \A d \in Components : cc'.want[d] = 1 /\ Exists(set'[d])
      BY <1>0, <1>b, <2>2, <3>1 DEF RollsForward
    <3>3. setCache'[c].tmpl <= set'[c].tmpl /\ setCache'[c].was <= set'[c].was
      BY <1>0, <1>n, <1>3, <2>1, <2>2, <2>3
    <3>4. /\ set'[c].tmpl <= ccCache'.want[c] /\ ccCache'.want[c] <= cc'.want[c]
          /\ stage' # "idle" => set'[c].tmpl <= pass'.want[c] /\ pass'.want[c] <= ccCache'.want[c]
      BY <1>0, <1>n, <1>w, <2>1, <2>2, <2>3 DEF RollsForward
    <3>5. ASSUME NEW d \in Components, d # c
          PROVE  /\ setCache'[d].tmpl <= set'[d].tmpl /\ setCache'[d].was <= set'[d].was
                 /\ set'[d].tmpl <= ccCache'.want[d] /\ ccCache'.want[d] <= cc'.want[d]
                 /\ stage' # "idle"
                      => set'[d].tmpl <= pass'.want[d] /\ pass'.want[d] <= ccCache'.want[d]
                 /\ Exists(set'[d]) \/ cc'.want[d] = 1
      BY <1>0, <1>w, <2>2, <3>5 DEF RollsForward
    <3>6. QED
      BY <3>1, <3>2, <3>3, <3>4, <3>5 DEF RollsForward
  <2>5. new.open => new.tmpl = 2 /\ setCache[c].tmpl = 2
    BY <1>n, <1>3 DEF SetsFollow, Exists
  <2>6. SetsFollow'
    BY <1>0, <1>n, <2>1, <2>2, <2>3, <2>5 DEF SetsFollow
  <2>7. QED
    BY <2>4, <2>6
<1>4. QED
  BY <1>1, <1>2, <1>3, ManagerStep

\* Every step keeps the order, as long as the user edits once.
LEMMA RollStep ==
  ASSUME MaxEdits <= 1
  PROVE  RollInv /\ [Next]_vars => RollsForward' /\ SetsFollow'
<1> SUFFICES ASSUME RollInv, [Next]_vars PROVE RollsForward' /\ SetsFollow'
  OBVIOUS
<1> USE DEF RollInv
<1>t. /\ set \in Sets /\ setCache \in Sets /\ pod \in Pods /\ pass \in PassType
      /\ budget \in Budget
  BY TypeParts
<1>n. \A c \in Components :
        /\ set[c].tmpl \in 0 .. 2 /\ set[c].was \in 0 .. 2
        /\ setCache[c].tmpl \in 0 .. 2 /\ setCache[c].was \in 0 .. 2
        /\ pod[c].tmpl \in 0 .. 2
        /\ cc.want[c] \in 1 .. 2 /\ ccCache.want[c] \in 1 .. 2 /\ pass.want[c] \in 1 .. 2
  BY Numbers
<1>b. Spend("faults") => budget'.edits = budget.edits
  BY <1>t DEF Spend, Budget
<1>1. CASE Begin
  <2>1. /\ UNCHANGED <<cc, ccCache, set, setCache, pod>> /\ budget'.edits = budget.edits
        /\ pass'.want = ccCache.want
    BY <1>1, <1>b DEF Begin, setVars, podVars
  <2>2. QED
    BY <1>n, <2>1 DEF RollsForward, SetsFollow, Exists
<1>2. CASE WriteStatus
  <2>1. UNCHANGED <<ccCache, set, setCache, pod>> /\ stage = "status" /\ budget'.edits = budget.edits
    BY <1>2, <1>b DEF WriteStatus, setVars, podVars
  <2>2. cc'.want = cc.want
    BY <1>2 DEF WriteStatus, StoredStatus, Stored, NothingStored, CopiesAreTrue
  <2>3. stage' # "idle" => pass'.want = ccCache.want
    <3>1. Reread.want = ccCache.want
      BY <1>t DEF Reread, PassType
    <3>2. QED
      BY <1>2, <3>1 DEF WriteStatus, End
  <2>4. QED
    BY <1>n, <2>1, <2>2, <2>3 DEF RollsForward, SetsFollow, Exists
<1>3. ASSUME NEW c \in Components, SyncMember(c)
      PROVE  RollsForward' /\ SetsFollow'
  BY <1>3, ManagerRolls
<1>4. CASE DeliverCC
  BY <1>4, <1>n DEF DeliverCC, setVars, podVars, passVars, RollsForward, SetsFollow, Exists
<1>5. ASSUME NEW c \in Components, DeliverSet(c)
      PROVE  RollsForward' /\ SetsFollow'
  <2>1. \A d \in Components : setCache'[d] \in {setCache[d], set[d]}
    BY <1>5, <1>t DEF DeliverSet, Sets
  <2>2. UNCHANGED <<cc, ccCache, set, pod, stage, pass, budget>>
    BY <1>5 DEF DeliverSet, ccVars, podVars, passVars
  <2>3. RollsForward'
    BY <1>n, <2>1, <2>2 DEF RollsForward, Exists
  <2>4. SetsFollow'
    BY <1>n, <2>1, <2>2 DEF SetsFollow
  <2>5. QED
    BY <2>3, <2>4
<1>6. ASSUME NEW c \in Components, CreatePod(c) \/ ComeUp(c) \/ Replace(c) \/ Crash(c)
      PROVE  RollsForward' /\ SetsFollow'
  <2>1. UNCHANGED <<cc, ccCache, set, setCache, stage, pass>> /\ budget'.edits = budget.edits
    BY <1>6, <1>b DEF CreatePod, ComeUp, Replace, Crash, Kubernetes, ccVars, passVars
  <2>2. RollsForward'
    BY <2>1 DEF RollsForward, Exists
  <2>3. \A d \in Components : d # c => pod'[d] = pod[d]
    BY <1>6, <1>t DEF CreatePod, ComeUp, Replace, Crash, Pods
  <2>4. \/ pod'[c].tmpl = pod[c].tmpl
        \/ pod[c].tmpl = 0 /\ pod'[c].tmpl \in {set[c].tmpl, set[c].was}
        \/ set[c].open /\ pod[c].tmpl # set[c].tmpl /\ pod'[c].tmpl = 0
    BY <1>6, <1>t DEF CreatePod, ComeUp, Replace, Crash, Pods, PodType, Exists, NoPod
  <2>5. SetsFollow'
    BY <1>n, <2>1, <2>3, <2>4 DEF SetsFollow
  <2>6. QED
    BY <2>2, <2>5
<1>7. ASSUME NEW c \in Components, Observe(c)
      PROVE  RollsForward' /\ SetsFollow'
  <2>1. UNCHANGED <<cc, ccCache, pod, setCache, stage, pass, budget>>
    BY <1>7 DEF Observe, Kubernetes, ccVars, podVars, passVars
  <2>2. set[c] \in SetObject
    BY <1>7, Numbers DEF Observe
  <2>3. /\ set'[c].tmpl = set[c].tmpl /\ set'[c].open = set[c].open
        /\ set'[c].was = ObservedWas(c)
        /\ \A d \in Components : d # c => set'[d] = set[d]
    BY <1>7, <1>t, <2>2 DEF Observe, Sets, SetObject
  <2>4. \/ ObservedWas(c) = set[c].was
        \/ ObservedWas(c) = set[c].tmpl /\ pod[c].tmpl = set[c].tmpl
    BY DEF ObservedWas
  <2>5. RollsForward'
    BY <1>n, <2>1, <2>3, <2>4 DEF RollsForward, SetsFollow, Exists
  <2>6. SetsFollow'
    BY <1>n, <2>1, <2>3, <2>4 DEF SetsFollow
  <2>7. QED
    BY <2>5, <2>6
<1>8. CASE EditSpec
  <2>1. budget.edits > 0 /\ budget'.edits = budget.edits - 1
    BY <1>8, <1>t DEF EditSpec, Spend, Budget
  <2>2. ~(budget'.edits > 0)
    BY <1>t, <2>1 DEF Budget
  <2>3. \A c \in Components : cc.want[c] = 1 /\ Exists(set[c])
    BY <2>1 DEF RollsForward
  <2>4. \A c \in Components : cc'.want[c] \in 1 .. 2
    <3>1. PICK S \in Edits :
            cc' = [cc EXCEPT !.want = [c \in Components |-> IF c \in S THEN 3 - @[c] ELSE @[c]]]
      BY <1>8 DEF EditSpec, Stored
    <3>2. cc'.want = [c \in Components |-> IF c \in S THEN 3 - cc.want[c] ELSE cc.want[c]]
      BY <3>1 DEF TypeOK, CellCluster
    <3>3. QED
      BY <2>3, <3>2
  <2>5. UNCHANGED <<ccCache, set, setCache, pod, stage, pass>>
    BY <1>8 DEF EditSpec, setVars, podVars, passVars
  <2>6. QED
    BY <1>n, <2>2, <2>3, <2>4, <2>5 DEF RollsForward, SetsFollow, Exists
<1>9. CASE StorePeers
  <2>1. cc'.want = cc.want
    BY <1>9 DEF StorePeers, Stored, TypeOK, CellCluster
  <2>2. QED
    BY <1>9, <2>1 DEF StorePeers, setVars, podVars, passVars, RollsForward, SetsFollow, Exists
<1>10. CASE Restart
  <2>1. /\ UNCHANGED <<cc, set, pod>> /\ budget'.edits = budget.edits
        /\ ccCache' = cc /\ setCache' = set /\ stage' = "idle"
    BY <1>10, <1>b DEF Restart, End, podVars
  <2>2. QED
    BY <1>n, <2>1 DEF RollsForward, SetsFollow, Exists
<1>11. CASE UNCHANGED vars
  BY <1>11 DEF vars, ccVars, setVars, podVars, passVars, RollsForward, SetsFollow, Exists
<1>12. QED
  BY <1>1, <1>2, <1>3, <1>4, <1>5, <1>6, <1>7, <1>8, <1>9, <1>10, <1>11 DEF Next

\* Only a manager's step exposes a component, and only of its own.
LEMMA OthersExpose ==
  ASSUME TypeOK, NEW c \in Components, ~Exposed(c), Next,
         ~\E d \in Components : SyncMember(d)
  PROVE  ~Exposed(c)'
<1>t. set \in Sets /\ pod \in Pods
  BY TypeParts
<1>1. ASSUME NEW d \in Components, CreatePod(d) \/ ComeUp(d) \/ Replace(d) \/ Crash(d)
      PROVE  ~Exposed(c)'
  <2>1. UNCHANGED set /\ \A e \in Components : e # d => pod'[e] = pod[e]
    BY <1>1, <1>t DEF CreatePod, ComeUp, Replace, Crash, Pods
  <2>2. \/ pod'[d].tmpl = pod[d].tmpl
        \/ set[d].open => pod'[d].tmpl = set[d].tmpl
        \/ set[d].open /\ pod[d].tmpl # set[d].tmpl
    BY <1>1, <1>t DEF CreatePod, ComeUp, Replace, Crash, Pods, PodType
  <2>3. QED
    BY <2>1, <2>2 DEF Exposed
<1>2. ASSUME NEW d \in Components, Observe(d)
      PROVE  ~Exposed(c)'
  <2>1. set[d] \in SetObject
    BY <1>2, Numbers DEF Observe
  <2>2. /\ set'[d].tmpl = set[d].tmpl /\ set'[d].open = set[d].open /\ UNCHANGED pod
        /\ \A e \in Components : e # d => set'[e] = set[e]
    BY <1>2, <1>t, <2>1 DEF Observe, Sets, SetObject, podVars
  <2>3. QED
    BY <2>2 DEF Exposed
<1>3. CASE UNCHANGED <<set, pod>>
  BY <1>3 DEF Exposed
<1>4. QED
  BY <1>1, <1>2, <1>3
     DEF Next, Begin, WriteStatus, DeliverSet, DeliverCC, EditSpec, StorePeers, Restart,
         setVars, podVars

\* The managers before c come to the one after it with c itself.
LEMMA Order ==
  ASSUME NEW c \in Components, After(c) \in Components
  PROVE  Before(After(c)) = Before(c) \cup {c} /\ c \notin Before(c)
                            /\ Before(c) \subseteq Components
  BY DEF After, Before, Components

\* A manager writes no set but its own.
LEMMA OwnSet ==
  ASSUME TypeOK, NEW c \in Components, SyncMember(c), NEW e \in Components, e # c
  PROVE  set'[e] = set[e]
<1>1. set \in Sets
  BY TypeParts
<1>2. CASE set' = set
  BY <1>2
<1>3. CASE set' = [set EXCEPT ![c] = [tmpl |-> pass.want[c], open |-> FALSE,
                                      was |-> pass.want[c], ready |-> FALSE]]
  BY <1>1, <1>3 DEF Sets
<1>4. ASSUME NEW new \in Asked,
             set' = [set EXCEPT ![c].tmpl = new.tmpl, ![c].open = new.open]
      PROVE  set'[e] = set[e]
  BY <1>1, <1>4 DEF Sets
<1>5. QED
  BY <1>2, <1>3, <1>4, ManagerStep

\* A manager hands over an order that is clear if it found it so.
LEMMA ManagerClears ==
  ASSUME RollInv, Cleared, NEW c \in Components, SyncMember(c),
         stage' \in Components, ~Gated(stage)', NEW d \in Before(stage')
  PROVE  ~Exposed(d)'
<1> USE DEF RollInv
<1>0. stage = c /\ UNCHANGED <<pod, setCache>> /\ set \in Sets
  BY SyncMemberType, TypeParts DEF SyncMember, podVars
<1>1. stage' = After(c) /\ After(c) \in Components
  BY ManagerStep DEF Components
<1>2. Before(stage') = Before(c) \cup {c} /\ c \notin Before(c) /\ Before(c) \subseteq Components
  BY <1>1, Order
<1>3. \A e \in Before(c) \cup {c} : ~pass'.status[e].upgrading
  BY <1>2 DEF Gated
<1>4. \A e \in Components \ {c} : pass'.status[e] = pass.status[e]
  BY ManagerStep
<1>5. ~Gated(c)
  BY <1>2, <1>3, <1>4 DEF Gated
<1>6. stage' # "status"
  BY <1>1 DEF Components
<1>7. ~Exposed(c)
  <2>1. CASE Exists(setCache[c])
    BY <1>3, <1>5, <1>6, <2>1, ManagerStep, ExposedIsSeen
  <2>2. CASE ~Exists(setCache[c])
    BY <2>2 DEF Exists, SetsFollow, Exposed
  <2>3. QED
    BY <2>1, <2>2
<1>8. \A e \in Before(c) : ~Exposed(e)
  BY <1>0, <1>5 DEF Cleared
<1>9. \A e \in Components : e # c => set'[e] = set[e]
  BY OwnSet
<1>10. CASE d = c
  <2>1. CASE set' = set
    BY <1>0, <1>7, <1>10, <2>1 DEF Exposed
  <2>2. CASE set' = [set EXCEPT ![c] = [tmpl |-> pass.want[c], open |-> FALSE,
                                        was |-> pass.want[c], ready |-> FALSE]]
    BY <1>0, <1>10, <2>2 DEF Exposed, Sets
  <2>3. ASSUME Exists(set[c]), NEW new \in Asked,
               set' = [set EXCEPT ![c].tmpl = new.tmpl, ![c].open = new.open],
               new.open => pass'.status[c].upgrading
        PROVE  ~Exposed(d)'
    <3>1. ~new.open /\ set[c] \in SetObject
      BY <1>3, <2>3, Numbers
    <3>2. set'[c].open = new.open
      BY <1>0, <2>3, <3>1 DEF Sets, SetObject
    <3>3. QED
      BY <1>10, <3>1, <3>2 DEF Exposed
  <2>4. QED
    BY <2>1, <2>2, <2>3, ManagerStep
<1>11. CASE d \in Before(c)
  BY <1>0, <1>2, <1>8, <1>9, <1>11 DEF Exposed
<1>12. QED
  BY <1>2, <1>10, <1>11

LEMMA ClearedStep == RollInv /\ Cleared /\ [Next]_vars => Cleared'
<1> SUFFICES ASSUME RollInv, Cleared, [Next]_vars,
                    stage' \in Components, ~Gated(stage)', NEW d \in Before(stage')
             PROVE  ~Exposed(d)'
  BY DEF Cleared
<1>1. CASE \E c \in Components : SyncMember(c)
  BY <1>1, ManagerClears
<1>2. CASE Begin
  BY <1>2 DEF Begin, Before, Components
<1>3. CASE UNCHANGED vars
  BY <1>3 DEF vars, setVars, podVars, passVars, Cleared, Gated, Exposed
<1>4. CASE UNCHANGED passVars /\ Next /\ ~\E c \in Components : SyncMember(c)
  <2>1. d \in Before(stage) /\ stage \in Components /\ ~Gated(stage)
    BY <1>4 DEF passVars, Gated
  <2>2. d \in Components
    BY <2>1 DEF Before, Components
  <2>3. QED
    BY <1>4, <2>1, <2>2, OthersExpose DEF Cleared, RollInv
<1>5. CASE WriteStatus \/ Restart
  <2>1. stage' \in {"idle", "status"}
    BY <1>5 DEF WriteStatus, Restart, End
  <2>2. QED
    BY <2>1 DEF Components
<1>6. QED
  BY <1>1, <1>2, <1>3, <1>4, <1>5
     DEF Next, DeliverSet, DeliverCC, EditSpec, StorePeers, CreatePod, ComeUp, Replace,
         Observe, Crash, Kubernetes

\* No store is opened for replacement while a PD member still is, and no proxy while
\* one of the two is, whatever the passes have read, and whatever fails, crashes and
\* restarts in between; the user edits the templates once (of any components).
THEOREM OneRoll == ASSUME MaxEdits <= 1 PROVE Spec => OneRollAtATime
<1> DEFINE One == \A c \in Components : Exposed(c)' /\ ~Exposed(c)
                    => \A d \in Before(c) : ~Exposed(d)
<1>1. RollInv /\ Cleared /\ [Next]_vars => [One]_vars
  <2> SUFFICES ASSUME RollInv, Cleared, Next,
                      NEW c \in Components, Exposed(c)', ~Exposed(c), NEW d \in Before(c)
               PROVE  ~Exposed(d)
    OBVIOUS
  <2> USE DEF RollInv
  <2>1. PICK e \in Components : SyncMember(e)
    BY OthersExpose
  <2>2. stage = e /\ UNCHANGED pod /\ set \in Sets
    BY <2>1, SyncMemberType, TypeParts DEF SyncMember, podVars
  <2>3. \A f \in Components : f # e => set'[f] = set[f]
    BY <2>1, OwnSet
  <2>4. c = e
    BY <2>2, <2>3 DEF Exposed
  <2>5. ~Gated(c)
    <3>1. set'[c].open /\ set' # set
      BY <2>2 DEF Exposed
    <3>2. CASE set' = [set EXCEPT ![c] = [tmpl |-> pass.want[c], open |-> FALSE,
                                          was |-> pass.want[c], ready |-> FALSE]]
      BY <2>2, <3>1, <3>2 DEF Sets
    <3>3. ASSUME Exists(set[c]), NEW new \in Asked,
                 set' = [set EXCEPT ![c].tmpl = new.tmpl, ![c].open = new.open],
                 new.open => ~Gated(c)
          PROVE  ~Gated(c)
      <4>1. set[c] \in SetObject
        BY <3>3, Numbers
      <4>2. set'[c].open = new.open
        BY <2>2, <3>3, <4>1 DEF Sets, SetObject
      <4>3. QED
        BY <3>1, <3>3, <4>2
    <3>4. QED
      BY <2>1, <2>4, <3>1, <3>2, <3>3, ManagerStep
  <2>6. QED
    BY <2>2, <2>4, <2>5 DEF Cleared
<1>2. RollInv /\ Cleared /\ [Next]_vars => RollInv' /\ Cleared'
  BY TypeStep, CopiesStep, RollStep, ClearedStep DEF RollInv
<1>3. Init => RollInv /\ Cleared
  BY TypeInit, CopiesInit, RollInit DEF RollInv
<1>4. Spec => [](RollInv /\ Cleared)
  BY <1>2, <1>3, PTL DEF Spec
<1>5. QED
  BY <1>1, <1>4, PTL DEF Spec, OneRollAtATime
=============================================================================
