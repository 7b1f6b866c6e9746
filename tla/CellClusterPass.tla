-------------------------- MODULE CellClusterPass --------------------------
(***************************************************************************)
(* A pass over a whole CellCluster: cell_cluster_control.go runs the       *)
(* managers in order, each building on the status the earlier ones left,   *)
(* and writes the status with cellcluster_control.go at the end, while the *)
(* user and the discovery service write the same object.                   *)
(*                                                                         *)
(* Each component has one member.  Within a manager's step nothing moves:  *)
(* what happens there is in PDMember, StoreMember and ProxyMember, as are  *)
(* forced upgrades, scaling and the eviction of leaders.  Passes recur     *)
(* without end (WorkQueue).                                                *)
(***************************************************************************)
EXTENDS Naturals

CONSTANTS
  Edits,       \* the components whose templates the user changes at a time
  Crashing,    \* bounds: the components whose member can crash,
  MaxEdits,    \* the user's edits,
  MaxFaults,   \* requests that fail, members that crash and restarts of the operator,
  MaxTries     \* and the attempts of RetryOnConflict

Components == {"pd", "store", "proxy"}

ASSUME PassAssumption ==
  /\ Edits \subseteq SUBSET Components /\ Crashing \subseteq Components
  /\ MaxEdits \in Nat /\ MaxFaults \in Nat /\ MaxTries \in Nat \ {0}

VARIABLES
  cc, ccCache,     \* the CellCluster and the informer's copy
  current,         \* which copies have the stored object's resourceVersion
  set, setCache,   \* the StatefulSets and the informer's copies
  pod,             \* the member of each component
  joined,          \* PD knows the store
  stage, pass,     \* where the pass is, and the object it works on
  budget

ccVars == <<cc, ccCache, current>>
setVars == <<set, setCache>>
podVars == <<pod, joined>>
passVars == <<stage, pass>>
vars == <<ccVars, setVars, podVars, passVars, budget>>

Before(c) == CASE c = "pd" -> {} [] c = "store" -> {"pd"} [] c = "proxy" -> {"pd", "store"}
After(c) == CASE c = "pd" -> "store" [] c = "store" -> "proxy" [] c = "proxy" -> "status"
Templates == {1, 2}

\* What cc.Status keeps of a component: its phase, whether a member is known to
\* be up, and whether its set counts one ready.
Status == [Components -> [upgrading : BOOLEAN, up : BOOLEAN, ready : BOOLEAN]]
Unknown == [upgrading |-> FALSE, up |-> FALSE, ready |-> FALSE]
AtRest(c) == [upgrading |-> FALSE, up |-> c # "proxy", ready |-> TRUE]

CellCluster == [want : [Components -> Templates], peers : BOOLEAN, status : Status]

\* The template, whether the partition lets the member be replaced, the template
\* of the current revision and the count of ready replicas.
SetObject == [tmpl : Templates, open : BOOLEAN, was : Templates, ready : BOOLEAN]
NoSet == [tmpl |-> 0, open |-> FALSE, was |-> 0, ready |-> FALSE]
NoPod == [tmpl |-> 0, up |-> FALSE]
Exists(object) == object.tmpl # 0

NoPass == [want |-> [c \in Components |-> 1], peers |-> FALSE,
           status |-> [c \in Components |-> Unknown],
           began |-> [c \in Components |-> Unknown], tries |-> 0]

PassInit ==
  /\ ccCache = cc
  /\ current = [cache |-> TRUE, pass |-> FALSE]
  /\ setCache = set
  /\ stage = "idle" /\ pass = NoPass

\* A cluster that was just created.
Created ==
  /\ cc = [want |-> [c \in Components |-> 1], peers |-> FALSE,
           status |-> [c \in Components |-> Unknown]]
  /\ set = [c \in Components |-> NoSet]
  /\ pod = [c \in Components |-> NoPod] /\ joined = FALSE
  /\ budget = [edits |-> 0, faults |-> MaxFaults]
  /\ PassInit

\* A cluster that came up and is at rest.
Deployed ==
  /\ cc = [want |-> [c \in Components |-> 1], peers |-> TRUE,
           status |-> [c \in Components |-> AtRest(c)]]
  /\ set = [c \in Components |-> [tmpl |-> 1, open |-> FALSE, was |-> 1, ready |-> TRUE]]
  /\ pod = [c \in Components |-> [tmpl |-> 1, up |-> TRUE]] /\ joined = TRUE
  /\ budget = [edits |-> MaxEdits, faults |-> MaxFaults]
  /\ PassInit

Init == Created \/ Deployed

Spend(what) == budget[what] > 0 /\ budget' = [budget EXCEPT ![what] = @ - 1]

-----------------------------------------------------------------------------
(* The pass begins *)

\* sync takes a copy of the cached object.  When the reclaim policy manager or the
\* orphan cleaner fails, the member managers are not called.
Begin ==
  /\ stage = "idle"
  /\ \/ stage' = "pd" /\ UNCHANGED budget
     \/ stage' = "status" /\ Spend("faults")
  /\ pass' = [want |-> ccCache.want, peers |-> ccCache.peers,
              status |-> ccCache.status, began |-> ccCache.status, tries |-> MaxTries]
  /\ current' = [current EXCEPT !.pass = current.cache]
  /\ UNCHANGED <<cc, ccCache, setVars, podVars>>

\* An error ends the managers' work, not the pass: the status is still written.
\* (The meta manager comes last, and adds nothing to the status.)
Goto(next) == stage' = next /\ UNCHANGED <<cc, ccCache, current, podVars>>

-----------------------------------------------------------------------------
(* A member manager *)

\* Sync's first question: PDIsAvailable, StoreIsAvailable.
IsAvailable(c) == pass.status[c].up /\ pass.status[c].ready
Blocked(c) == \/ c = "store" /\ ~IsAvailable("pd")
              \/ c = "proxy" /\ ~IsAvailable("store")

\* The managers' IsUpgrading.
IsUpgrading(c) == \/ setCache[c].was # setCache[c].tmpl
                  \/ Exists(pod[c]) /\ pod[c].tmpl # setCache[c].tmpl
GatedByNone(c) == FALSE
Gated(c) == \E d \in Before(c) : pass.status[d].upgrading

\* PD answers through its member.  A store that does not run can be Up to it.
\* Nothing writes the proxies' members.
Answers == pod["pd"].up
SeenUp(c) ==
  CASE c = "pd" -> {TRUE}
    [] c = "store" -> IF ~joined THEN {FALSE} ELSE {TRUE, pod["store"].up}
    [] c = "proxy" -> {FALSE}

\* syncCellClusterStatus: without an answer, what was known of the members stays.
Seen(c, up) ==
  [pass.status EXCEPT ![c] = [upgrading |-> IsUpgrading(c) /\ ~Gated(c),
                              up |-> up, ready |-> setCache[c].ready]]

\* What Upgrade makes of the set asked for, none if it returns an error.  A walk
\* stops at a member that is missing, or upgraded and not up; it lowers the
\* partition to one that is not upgraded.  (It passes a store that has not joined.)
Ask(c) == [tmpl |-> pass.want[c], open |-> FALSE]
Walk(c, up) ==
  CASE c = "store" /\ ~joined -> {setCache[c].open}
    [] ~(c = "store" /\ ~joined) /\ ~Exists(pod[c]) -> {}
    [] ~(c = "store" /\ ~joined) /\ Exists(pod[c]) ->
         CASE pod[c].tmpl # setCache[c].tmpl -> {TRUE}
           [] pod[c].tmpl = setCache[c].tmpl /\ up -> {setCache[c].open}
           [] OTHER -> {}
NeedUpgradeByTemplate(c) == pass.want[c] # setCache[c].tmpl
NeedUpgrade(c) ==
  \/ pass.want[c] # setCache[c].tmpl
  \/ IsUpgrading(c) /\ ~Gated(c)
Upgraded(c, synced, up) ==
  CASE ~NeedUpgrade(c) -> {Ask(c)}
    [] NeedUpgrade(c) /\ Gated(c) -> {[Ask(c) EXCEPT !.tmpl = setCache[c].tmpl]}
    [] NeedUpgrade(c) /\ ~Gated(c) /\ ~synced -> {}
    [] OTHER -> IF pass.want[c] # setCache[c].tmpl THEN {Ask(c)}
                ELSE {[Ask(c) EXCEPT !.open = o] : o \in Walk(c, up)}

\* UpdateStatefulSet, by the version of the cached object.  (A conflict is tried
\* again with the same cached object, if no event comes in.)
Stores(c, new) ==
  IF new.tmpl = setCache[c].tmpl /\ new.open = setCache[c].open
  THEN UNCHANGED set /\ Goto(After(c))
  ELSE IF setCache[c] = set[c]
  THEN set' = [set EXCEPT ![c].tmpl = new.tmpl, ![c].open = new.open] /\ Goto(After(c))
  ELSE UNCHANGED set /\ Goto("status")

\* No StatefulSet in the cache.  PD's creation ends the pass, to wait for it.
CreateSet(c) ==
  /\ pass' = [pass EXCEPT !.status[c].ready = IF Exists(set[c]) THEN @ ELSE FALSE]
  /\ IF Exists(set[c]) THEN UNCHANGED set /\ Goto("status")
     ELSE /\ set' = [set EXCEPT ![c] = [tmpl |-> pass.want[c], open |-> FALSE,
                                        was |-> pass.want[c], ready |-> FALSE]]
          /\ Goto(IF c = "pd" THEN "status" ELSE After(c))
  /\ UNCHANGED budget

\* The set is there.  PD's failed sync is only logged, the store's ends the pass;
\* a request to PD can fail although it is up.
SyncSet(c) ==
  \E synced \in BOOLEAN, up \in SeenUp(c) \cup {pass.status[c].up} :
    LET seen == Seen(c, up)
        new == Upgraded(c, synced, up)
    IN /\ IF synced THEN UNCHANGED budget /\ up \in SeenUp(c) /\ (Answers \/ c = "proxy")
          ELSE /\ c # "proxy" /\ up = pass.status[c].up
               /\ IF Answers THEN Spend("faults") ELSE UNCHANGED budget
       /\ pass' = [pass EXCEPT !.status =
                     [seen EXCEPT ![c].upgrading =
                        @ \/ (NeedUpgrade(c) /\ ~Gated(c) /\ synced)]]
       /\ IF new = {} \/ (c = "store" /\ ~synced) THEN UNCHANGED set /\ Goto("status")
          ELSE \E n \in new : Stores(c, n)

SyncMember(c) ==
  /\ stage = c
  /\ \/ Blocked(c) /\ Goto("status") /\ UNCHANGED <<set, pass, budget>>
     \/ ~Blocked(c) /\ ~Exists(setCache[c]) /\ CreateSet(c)
     \/ ~Blocked(c) /\ Exists(setCache[c]) /\ SyncSet(c)
  /\ UNCHANGED setCache

-----------------------------------------------------------------------------
(* The status *)

\* The pass is over.  It leaves nothing but what it stored.
End == stage' = "idle" /\ pass' = NoPass
Stored(object) == cc' = object /\ current' = [cache |-> FALSE, pass |-> FALSE]
StoredStatus == Stored([want |-> pass.want, peers |-> pass.peers, status |-> pass.status])
NothingStored == UNCHANGED cc /\ current' = [current EXCEPT !.pass = FALSE]

\* UpdateCellCluster compares with a deep copy of the status it began from.
UnchangedAliased == TRUE
StatusUnchanged == pass.status = pass.began

\* After a conflict: the lister's object, with the status of this pass.
RereadVersionOnly == [pass EXCEPT !.tries = @ - 1]
Reread == [pass EXCEPT !.want = ccCache.want, !.peers = ccCache.peers, !.tries = @ - 1]
RetriesAnyway == pass.tries >= 0
Retries == pass.tries > 1

WriteStatus ==
  /\ stage = "status"
  /\ \/ StatusUnchanged /\ NothingStored /\ End /\ UNCHANGED budget
     \/ ~StatusUnchanged /\ current.pass /\ StoredStatus /\ End /\ UNCHANGED budget
     \/ /\ ~StatusUnchanged /\ ~current.pass
        /\ IF Retries
           THEN /\ pass' = Reread /\ current' = [current EXCEPT !.pass = current.cache]
                /\ UNCHANGED stage
           ELSE End /\ UNCHANGED current
        /\ UNCHANGED <<cc, budget>>
     \* Another error: the request did not arrive, or only its answer did not.
     \/ /\ ~StatusUnchanged /\ Spend("faults") /\ End
        /\ NothingStored \/ (current.pass /\ StoredStatus)
  /\ UNCHANGED <<ccCache, setVars, podVars>>

\* The operator starts anew, with the objects as they are.
Restart ==
  /\ Spend("faults")
  /\ End
  /\ ccCache' = cc /\ current' = [cache |-> TRUE, pass |-> FALSE]
  /\ setCache' = set
  /\ UNCHANGED <<cc, set, podVars>>

-----------------------------------------------------------------------------
(* Around the pass *)

DeliverCC ==
  /\ ~current.cache
  /\ ccCache' = cc /\ current' = [current EXCEPT !.cache = TRUE]
  /\ UNCHANGED <<cc, setVars, podVars, passVars, budget>>

DeliverSet(c) ==
  /\ setCache[c] # set[c]
  /\ setCache' = [setCache EXCEPT ![c] = set[c]]
  /\ UNCHANGED <<ccVars, set, podVars, passVars, budget>>

\* The user asks for other templates of some components.
EditSpec ==
  /\ Spend("edits")
  /\ \E S \in Edits :
       Stored([cc EXCEPT !.want = [c \in Components |-> IF c \in S THEN 3 - @[c] ELSE @[c]]])
  /\ UNCHANGED <<ccCache, setVars, podVars, passVars>>

\* The discovery service stores the initial PD members (Discovery).
StorePeers ==
  /\ Exists(pod["pd"]) /\ ~cc.peers
  /\ Stored([cc EXCEPT !.peers = TRUE])
  /\ UNCHANGED <<ccCache, setVars, podVars, passVars, budget>>

Kubernetes == UNCHANGED <<ccVars, setCache, passVars>>

\* A missing member is created from the template its ordinal is to have.
CreatePod(c) ==
  /\ Exists(set[c]) /\ ~Exists(pod[c])
  /\ pod' = [pod EXCEPT ![c] = [tmpl |-> IF set[c].open THEN set[c].tmpl ELSE set[c].was,
                                up |-> FALSE]]
  /\ UNCHANGED <<set, joined, budget>> /\ Kubernetes

\* PD's member starts once discovery knows it, and a store joins a PD that is up.
ComeUp(c) ==
  /\ Exists(pod[c]) /\ ~pod[c].up
  /\ c = "pd" => cc.peers
  /\ c = "store" => pod["pd"].up
  /\ pod' = [pod EXCEPT ![c].up = TRUE]
  /\ joined' = (joined \/ c = "store")
  /\ UNCHANGED <<set, budget>> /\ Kubernetes

Replace(c) ==
  /\ set[c].open /\ Exists(pod[c]) /\ pod[c].tmpl # set[c].tmpl
  /\ pod' = [pod EXCEPT ![c] = NoPod]
  /\ UNCHANGED <<set, joined, budget>> /\ Kubernetes

\* The StatefulSet controller's status.
ObservedWas(c) == IF pod[c].up /\ pod[c].tmpl = set[c].tmpl THEN set[c].tmpl ELSE set[c].was
Observe(c) ==
  /\ Exists(set[c])
  /\ set[c].was # ObservedWas(c) \/ set[c].ready # pod[c].up
  /\ set' = [set EXCEPT ![c].was = ObservedWas(c), ![c].ready = pod[c].up]
  /\ UNCHANGED <<podVars, budget>> /\ Kubernetes

Crash(c) ==
  /\ c \in Crashing /\ pod[c].up /\ Spend("faults")
  /\ pod' = [pod EXCEPT ![c].up = FALSE]
  /\ UNCHANGED <<set, joined>> /\ Kubernetes

Next ==
  \/ Begin \/ WriteStatus
  \/ \E c \in Components :
       \/ SyncMember(c) \/ DeliverSet(c)
       \/ CreatePod(c) \/ ComeUp(c) \/ Replace(c) \/ Observe(c) \/ Crash(c)
  \/ DeliverCC \/ EditSpec \/ StorePeers \/ Restart

\* Passes recur and go on, events arrive, discovery and Kubernetes work.
Fairness ==
  /\ WF_vars(Begin \/ WriteStatus)
  /\ WF_vars(\E c \in Components : SyncMember(c))
  /\ WF_vars(DeliverCC) /\ WF_vars(StorePeers)
  /\ \A c \in Components :
       /\ WF_vars(DeliverSet(c)) /\ WF_vars(Observe(c))
       /\ WF_vars(CreatePod(c)) /\ WF_vars(ComeUp(c)) /\ WF_vars(Replace(c))

Spec == Init /\ [][Next]_vars
FairSpec == Spec /\ Fairness

-----------------------------------------------------------------------------
(* Properties *)

\* Type correctness of the objects, their copies, the pods and the pass.
TypeOK ==
  /\ cc \in CellCluster /\ ccCache \in CellCluster
  /\ current \in [cache : BOOLEAN, pass : BOOLEAN]
  /\ set \in [Components -> SetObject \cup {NoSet}]
  /\ setCache \in [Components -> SetObject \cup {NoSet}]
  /\ pod \in [Components -> [tmpl : {0} \cup Templates, up : BOOLEAN]]
  /\ joined \in BOOLEAN
  /\ stage \in {"idle", "status"} \cup Components
  /\ pass \in [want : [Components -> Templates], peers : BOOLEAN, status : Status,
               began : Status, tries : 0 .. MaxTries]
  /\ budget \in [edits : 0 .. MaxEdits, faults : 0 .. MaxFaults]

\* The status is written with the whole object, by passes that began before the
\* user or the discovery service wrote it: their writes are never undone.
SpecKept ==
  [][/\ cc'.want # cc.want => budget'.edits < budget.edits
     /\ cc.peers => cc'.peers]_vars

\* No store is opened for replacement while a PD member is, no proxy while one of
\* the two is: although the passes see old sets and old specs, and the operator
\* restarts in between.  (The user edits once: when an edit is undone while its
\* members are replaced, a set can look at rest before they are back.)
Exposed(c) == set[c].open /\ pod[c].tmpl # set[c].tmpl
OneRollAtATime ==
  [][\A c \in Components : Exposed(c)' /\ ~Exposed(c)
       => \A d \in Before(c) : ~Exposed(d)]_vars

\* Every component comes to serve from the template asked for, in whatever order
\* the edits came and whatever the passes waited for, and stays so.
Converged(c) == /\ set[c].tmpl = cc.want[c]
                /\ pod[c].up /\ pod[c].tmpl = cc.want[c]
Converges == <>[](\A c \in Components : Converged(c))

\* The stored status comes to say so: no pass leaves an older status over a newer
\* one for good, although it is compared with the cached one.
StatusSettles == <>[](\A c \in Components : cc.status[c] = AtRest(c))
=============================================================================
