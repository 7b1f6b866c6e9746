-------------------------- MODULE DiscoveryProofs --------------------------
(***************************************************************************)
(* Type correctness of Discovery, Agreement, and that the service          *)
(* implements the abstract bootstrap, for any pods, replicas edits, number *)
(* of foreign writes and of losses.  Agreement is not inductive: that the  *)
(* answered set is still the stored one needs that the call about to write *)
(* saw none (ClaimSound).                                                  *)
(***************************************************************************)
EXTENDS Discovery, TLAPS, FiniteSetTheorems

\* The inductive invariant.
Inv == TypeOK /\ Agreement /\ ClaimSound

\* The steps, one name for each disjunct of Next that leaves a trace.
LEMMA NextCases ==
  ASSUME Next
  PROVE  \/ \E p \in Pods : Known(p) \/ TooFew(p) \/ Claim(p) \/ UpdateCC(p)
         \/ \E c \in Others : GetConfig(c)
         \/ UpdateFails \/ OtherWrite \/ Restart
         \/ \E c \in Clients : ProcessRestart(c)
  BY DEF Next, Discover

-----------------------------------------------------------------------------

\* The cluster the StatefulSet is created for has at least one replica.
LEMMA PodsCardinality == Cardinality(Pods) \in Nat \ {0}
  BY DiscoveryAssumption, FS_CardinalityType, FS_EmptySet

\* A reply only ever gives a waiting process the result.
LEMMA ReplyTypes ==
  ASSUME TypeOK, NEW c \in Clients, NEW result \in SUBSET Pods, Reply(c, result)
  PROVE  /\ args' \in [Clients -> SUBSET Pods]
         /\ losses' \in 0 .. MaxLosses
         /\ \A d \in Clients : args'[d] \in {args[d], result}
         /\ \A d \in Clients : d # c => args'[d] = args[d]
  BY DiscoveryAssumption DEF TypeOK, Reply

LEMMA InitInv == Init => Inv
  BY PodsCardinality, DiscoveryAssumption
  DEF Init, Inv, TypeOK, Agreement, ClaimSound, Idle, NotBusy, Clients

\* Every step keeps the three of them.
LEMMA StepInv == Inv /\ [Next]_vars => Inv'
<1> SUFFICES ASSUME Inv, [Next]_vars PROVE Inv'
  OBVIOUS
<1> USE DiscoveryAssumption DEF Inv, Clients
<1>1. ASSUME NEW p \in Pods, Known(p) PROVE Inv'
  <2>1. cc.peers \in SUBSET Pods /\ Reply(p, cc.peers)
    BY <1>1 DEF Known, TypeOK
  <2>2. /\ args' \in [Clients -> SUBSET Pods]
        /\ losses' \in 0 .. MaxLosses
        /\ \A d \in Clients : args'[d] \in {args[d], cc.peers}
    BY <2>1, ReplyTypes
  <2>3. UNCHANGED <<cc, call, writes>> /\ peers' = peers \cup {p} /\ call.pod = {}
    BY <1>1 DEF Known, Register, NotBusy
  <2>4. TypeOK'
    BY <2>2, <2>3 DEF TypeOK
  <2>5. Agreement'
    BY <2>2, <2>3 DEF Agreement
  <2>6. ClaimSound'
    BY <2>3 DEF ClaimSound
  <2>7. QED BY <2>4, <2>5, <2>6
<1>2. ASSUME NEW p \in Pods, TooFew(p) PROVE Inv'
  BY <1>2 DEF TooFew, Register, NotBusy, TypeOK, Agreement, ClaimSound
<1>3. ASSUME NEW p \in Pods, Claim(p) PROVE Inv'
  BY <1>3 DEF Claim, Register, NotBusy, TypeOK, Agreement, ClaimSound
<1>4. ASSUME NEW p \in Pods, UpdateCC(p) PROVE Inv'
  <2>1. peers \in SUBSET Pods /\ Reply(p, peers)
    BY <1>4 DEF UpdateCC, TypeOK
  <2>2. /\ args' \in [Clients -> SUBSET Pods]
        /\ losses' \in 0 .. MaxLosses
        /\ \A d \in Clients : args'[d] \in {args[d], peers}
    BY <2>1, ReplyTypes
  <2>3. /\ cc' = [cc EXCEPT !.peers = peers] /\ call' = Idle
        /\ UNCHANGED <<peers, writes>>
    BY <1>4 DEF UpdateCC
  <2>4. TypeOK'
    BY <2>1, <2>2, <2>3 DEF TypeOK, Idle
  <2>5. cc.peers = {} /\ cc'.peers = peers
    BY <1>4, <2>3 DEF UpdateCC, ClaimSound, TypeOK
  <2>6. Agreement'
    BY <2>2, <2>5 DEF Agreement
  <2>7. ClaimSound'
    BY <2>3 DEF ClaimSound, Idle
  <2>8. QED BY <2>4, <2>6, <2>7
<1>5. ASSUME NEW c \in Others, GetConfig(c) PROVE Inv'
  <2>1. cc.peers \in SUBSET Pods /\ Reply(c, cc.peers)
    BY <1>5 DEF GetConfig, TypeOK
  <2>2. /\ args' \in [Clients -> SUBSET Pods]
        /\ losses' \in 0 .. MaxLosses
        /\ \A d \in Clients : args'[d] \in {args[d], cc.peers}
    BY <2>1, ReplyTypes
  <2>3. UNCHANGED <<cc, peers, call, writes>>
    BY <1>5 DEF GetConfig
  <2>4. QED
    BY <2>2, <2>3 DEF TypeOK, Agreement, ClaimSound
<1>6. CASE UpdateFails
  BY <1>6 DEF UpdateFails, Idle, TypeOK, Agreement, ClaimSound
<1>7. CASE OtherWrite
  <2>1. /\ cc' \in [replicas : Nat \ {0}, peers : {cc.peers}]
        /\ cc.peers \in SUBSET Pods
    BY <1>7 DEF OtherWrite, TypeOK
  <2>2. /\ call' = [call EXCEPT !.fresh = FALSE]
        /\ writes > 0 /\ writes' = writes - 1
        /\ UNCHANGED <<peers, args, losses>>
    BY <1>7 DEF OtherWrite
  <2>3. cc' \in [replicas : Nat \ {0}, peers : SUBSET Pods] /\ cc'.peers = cc.peers
    BY <2>1
  <2>4. TypeOK'
    <3>1. call' \in [pod : SUBSET Pods, fresh : BOOLEAN]
      BY <2>2 DEF TypeOK
    <3>2. writes' \in 0 .. MaxWrites
      BY <2>2 DEF TypeOK
    <3>3. QED BY <2>2, <2>3, <3>1, <3>2 DEF TypeOK
  <2>5. Agreement'
    BY <2>2, <2>3 DEF Agreement
  <2>6. ClaimSound'
    BY <2>2 DEF TypeOK, ClaimSound
  <2>7. QED BY <2>4, <2>5, <2>6
<1>8. CASE Restart
  BY <1>8 DEF Restart, Idle, TypeOK, Agreement, ClaimSound
<1>9. ASSUME NEW c \in Clients, ProcessRestart(c) PROVE Inv'
  BY <1>9 DEF ProcessRestart, TypeOK, Agreement, ClaimSound
<1>10. CASE UNCHANGED vars
  BY <1>10 DEF vars, TypeOK, Agreement, ClaimSound
<1>11. QED
  BY <1>1, <1>2, <1>3, <1>4, <1>5, <1>6, <1>7, <1>8, <1>9, <1>10, NextCases

\* The CellCluster, the service and the processes are always of their types.
\* discovery.go: cellDiscovery, clusterInfo.
THEOREM TypeCorrect == Spec => []TypeOK
<1>1. Inv => TypeOK
  BY DEF Inv
<1>2. QED
  BY InitInv, StepInv, <1>1, PTL DEF Spec

\* No two processes are ever started with different PD clusters.
\* discovery.go: Discover's check of PdPeerURL and the update's version check.
THEOREM AgreementHolds == Spec => []Agreement
<1>1. Inv => Agreement
  BY DEF Inv
<1>2. QED
  BY InitInv, StepInv, <1>1, PTL DEF Spec

\* A call that is about to store the initial cluster decided on what is still
\* there.  discovery.go: the get and the update of one call.
THEOREM ClaimsAreSound == Spec => []ClaimSound
<1>1. Inv => ClaimSound
  BY DEF Inv
<1>2. QED
  BY InitInv, StepInv, <1>1, PTL DEF Spec

-----------------------------------------------------------------------------

\* The initial state is the abstract one.
LEMMA InitRefines == Init => Abstract!Init
  BY DEF Init, Abstract!Init

\* A reply of the stored cluster is an abstract start, or nothing.
LEMMA ReplyRefines ==
  ASSUME TypeOK, NEW c \in Clients, Reply(c, cc.peers), cc.peers # {},
         cc'.peers = cc.peers
  PROVE  Abstract!Start(c) \/ UNCHANGED <<cc.peers, args>>
  BY DEF Reply, Abstract!Start

\* Every step is an abstract one, or stutters.
LEMMA StepRefines ==
  Inv /\ [Next]_vars => [Abstract!Next]_<<cc.peers, args>>
<1> SUFFICES ASSUME Inv, [Next]_vars
             PROVE  Abstract!Next \/ UNCHANGED <<cc.peers, args>>
  OBVIOUS
<1> USE DEF Inv, Clients
<1>1. ASSUME NEW p \in Pods, Known(p) PROVE Abstract!Next \/ UNCHANGED <<cc.peers, args>>
  BY <1>1, ReplyRefines DEF Known, Abstract!Next
<1>2. ASSUME NEW p \in Pods, TooFew(p) \/ Claim(p) PROVE UNCHANGED <<cc.peers, args>>
  BY <1>2 DEF TooFew, Claim
<1>3. ASSUME NEW p \in Pods, UpdateCC(p) PROVE Abstract!Next
  <2>1. cc.peers = {} /\ cc'.peers = peers /\ peers \in (SUBSET Pods) \ {{}}
    BY <1>3 DEF UpdateCC, ClaimSound, TypeOK
  <2>2. args[p] = {}
    BY <2>1 DEF Agreement
  <2>3. CASE args' = [args EXCEPT ![p] = peers]
    BY <2>1, <2>2, <2>3 DEF Abstract!Next, Abstract!ChooseAndStart
  <2>4. CASE UNCHANGED args
    BY <2>1, <2>4 DEF Abstract!Next, Abstract!Choose
  <2>5. QED
    BY <1>3, <2>3, <2>4 DEF UpdateCC, Reply
<1>4. ASSUME NEW c \in Others, GetConfig(c) PROVE Abstract!Next \/ UNCHANGED <<cc.peers, args>>
  BY <1>4, ReplyRefines DEF GetConfig, Abstract!Next
<1>5. CASE UpdateFails \/ Restart
  BY <1>5 DEF UpdateFails, Restart
<1>6. CASE OtherWrite
  BY <1>6 DEF OtherWrite, TypeOK
<1>7. ASSUME NEW c \in Clients, ProcessRestart(c) PROVE Abstract!Next
  BY <1>7 DEF ProcessRestart, Abstract!Next, Abstract!Stop
<1>8. CASE UNCHANGED vars
  BY <1>8 DEF vars
<1>9. QED
  BY <1>1, <1>2, <1>3, <1>4, <1>5, <1>6, <1>7, <1>8, NextCases

\* The service chooses at most one initial cluster, and starts every process
\* with that one: it implements Bootstrap.
\* discovery.go: Discover, GetStoreConfig, GetProxyConfig.
THEOREM Refinement == Spec => BootstrapsOnce
<1>1. Spec => []Inv
  BY InitInv, StepInv, PTL DEF Spec
<1>2. QED
  BY <1>1, InitRefines, StepRefines, PTL DEF Spec, BootstrapsOnce, Abstract!Spec
============================================================================
