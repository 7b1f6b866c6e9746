----------------------------- MODULE Discovery -----------------------------
(***************************************************************************)
(* pkg/discovery/discovery.go.  A PD pod asks the service, again and again, *)
(* for the initial cluster to start with (_start_pd.sh.tpl); a store or a  *)
(* proxy asks for the PD addresses.  The service remembers the pods that   *)
(* asked, and once they are as many as spec.pd.replicas it writes them     *)
(* into the CellCluster.  A lock serves one request at a time, but the     *)
(* operator and the user write the CellCluster too, between its get and    *)
(* its update, and the service, a pod or an answer can be lost.            *)
(*                                                                         *)
(* PdPeerURL and PdPeerRPC are written together: both are the set of the   *)
(* pods they name, the empty string is {}.                                 *)
(***************************************************************************)
EXTENDS Naturals, FiniteSets

CONSTANTS
  Pods,           \* the pods of the PD StatefulSet
  Others,         \* the store and proxy pods
  ReplicaEdits,   \* values the user can give spec.pd.replicas
  MaxWrites,      \* bound on the writes of the operator and of the user
  MaxLosses       \* bound on lost answers and on restarts

ASSUME DiscoveryAssumption ==
  /\ IsFiniteSet(Pods) /\ Pods # {}
  /\ Pods \cap Others = {}
  /\ ReplicaEdits \subseteq Nat \ {0}
  /\ MaxWrites \in Nat
  /\ MaxLosses \in Nat

VARIABLES
  cc,       \* the CellCluster: spec.pd.replicas and the peers written to it
  peers,    \* currentCluster.peers: the pods that asked since the service started
  call,     \* the pod whose call is about to update, and whether cc is still
            \* the object that call read
  args,     \* what each process was started with, {} while it waits
  writes,   \* writes still allowed
  losses    \* losses still allowed

vars == <<cc, peers, call, args, writes, losses>>

Clients == Pods \cup Others
Idle == [pod |-> {}, fresh |-> FALSE]
NotBusy == call.pod = {}

Init ==
  /\ cc = [replicas |-> Cardinality(Pods), peers |-> {}]
  /\ peers = {}
  /\ call = Idle
  /\ args = [c \in Clients |-> {}]
  /\ writes = MaxWrites
  /\ losses = MaxLosses

\* The answer starts a process that still waits for one, or it is lost: wget
\* gives up after 3 s, and its call is served all the same.
Reply(c, result) ==
  \/ args[c] = {} /\ args' = [args EXCEPT ![c] = result] /\ UNCHANGED losses
  \/ args[c] # {} /\ UNCHANGED <<args, losses>>
  \/ losses > 0 /\ losses' = losses - 1 /\ UNCHANGED args

-----------------------------------------------------------------------------
(* Discover *)

\* The pod is registered, whatever the answer; under its name, not under that
\* of the service, which all the pods share.
RegisterService(p) == NotBusy /\ peers' = peers \cup {Pods}
Register(p) == NotBusy /\ peers' = peers \cup {p}

\* The initial cluster is known.
Known(p) ==
  /\ Register(p) /\ cc.peers # {}
  /\ Reply(p, cc.peers)
  /\ UNCHANGED <<cc, call, writes>>

\* "please wait until all pd pod startup"
TooFew(p) ==
  /\ Register(p) /\ cc.peers = {}
  /\ Cardinality(peers') # cc.replicas
  /\ UNCHANGED <<cc, call, args, writes, losses>>

\* As many as asked for: this call writes them.
ClaimAnyway(p) ==
  /\ Register(p)
  /\ Cardinality(peers') = cc.replicas
  /\ call' = [pod |-> {p}, fresh |-> TRUE]
  /\ UNCHANGED <<cc, args, writes, losses>>
ClaimBeyond(p) ==
  /\ Register(p) /\ cc.peers = {}
  /\ Cardinality(peers') > cc.replicas
  /\ call' = [pod |-> {p}, fresh |-> TRUE]
  /\ UNCHANGED <<cc, args, writes, losses>>
Claim(p) ==
  /\ Register(p) /\ cc.peers = {}
  /\ Cardinality(peers') = cc.replicas
  /\ call' = [pod |-> {p}, fresh |-> TRUE]
  /\ UNCHANGED <<cc, args, writes, losses>>

\* The update succeeds on the object that was read.  The pod gets the answer,
\* or an error although the update was applied.
UpdateCC(p) ==
  /\ call.pod = {p} /\ call.fresh
  /\ cc' = [cc EXCEPT !.peers = peers]
  /\ call' = Idle
  /\ Reply(p, peers)
  /\ UNCHANGED <<peers, writes>>

\* A conflict, or any other failure of the update: an error for the pod.
UpdateFails ==
  /\ ~NotBusy
  /\ \/ ~call.fresh /\ UNCHANGED losses
     \/ losses > 0 /\ losses' = losses - 1
  /\ call' = Idle
  /\ UNCHANGED <<cc, peers, args, writes>>

\* GetStoreConfig and GetProxyConfig.
GetConfig(c) ==
  /\ NotBusy /\ cc.peers # {}
  /\ Reply(c, cc.peers)
  /\ UNCHANGED <<cc, peers, call, writes>>

Discover(p) == Known(p) \/ TooFew(p) \/ Claim(p)

-----------------------------------------------------------------------------

\* The operator writes a status, or the user the replicas.
OtherWrite ==
  /\ writes > 0 /\ writes' = writes - 1
  /\ cc' \in {[cc EXCEPT !.replicas = r] : r \in ReplicaEdits \cup {cc.replicas}}
  /\ call' = [call EXCEPT !.fresh = FALSE]
  /\ UNCHANGED <<peers, args, losses>>

\* The service restarts with an empty map; its call is gone.
Restart ==
  /\ losses > 0 /\ losses' = losses - 1
  /\ peers' = {} /\ call' = Idle
  /\ UNCHANGED <<cc, args, writes>>

\* The container of a process restarts, and asks again.
ProcessRestart(c) ==
  /\ losses > 0 /\ losses' = losses - 1
  /\ args[c] # {} /\ args' = [args EXCEPT ![c] = {}]
  /\ UNCHANGED <<cc, peers, call, writes>>

Next ==
  \/ \E p \in Pods : Discover(p) \/ UpdateCC(p)
  \/ UpdateFails
  \/ \E c \in Others : GetConfig(c)
  \/ OtherWrite \/ Restart
  \/ \E c \in Clients : ProcessRestart(c)

\* Every process asks until it is answered, and the lock is not held from one
\* of them for ever; a call ends.  Nobody has to write, to lose or to restart.
Fairness ==
  /\ \A p \in Pods : SF_vars(Discover(p))
  /\ \A c \in Others : SF_vars(GetConfig(c))
  /\ WF_vars(UpdateFails \/ \E p \in Pods : UpdateCC(p))

Spec == Init /\ [][Next]_vars
FairSpec == Spec /\ Fairness

-----------------------------------------------------------------------------
(* Properties *)

\* Type correctness of the CellCluster, the service and the processes.
TypeOK ==
  /\ cc \in [replicas : Nat \ {0}, peers : SUBSET Pods]
  /\ peers \in SUBSET Pods
  /\ call \in [pod : SUBSET Pods, fresh : BOOLEAN]
  /\ args \in [Clients -> SUBSET Pods]
  /\ writes \in 0 .. MaxWrites
  /\ losses \in 0 .. MaxLosses

\* Every process that runs was started with the same initial cluster, the one
\* the CellCluster still names: no restart of the service, lost answer or write
\* between its get and its update makes two PD clusters.
Agreement == \A c \in Clients : args[c] \in {{}, cc.peers}

\* Why: a call that can still succeed writes a non-empty set where there is none.
ClaimSound ==
  call.pod # {} => /\ \E p \in Pods : call.pod = {p}
                   /\ call.pod \subseteq peers
                   /\ call.fresh => cc.peers = {}

\* The service implements the abstract bootstrap.
Abstract == INSTANCE Bootstrap WITH
  Members <- Pods, cluster <- cc.peers, started <- args
BootstrapsOnce == Abstract!Spec

\* Every process is started in the end with the initial cluster the CellCluster
\* names, and that is all the pods if the replicas were never edited; nothing holds
\* the bootstrap up for ever but replicas that are not as many as the pods, which
\* the service compares with == (discovery.go:184).
Bootstraps ==
  /\ <>[](\/ cc.peers # {} /\ \A c \in Clients : args[c] = cc.peers
          \/ cc.peers = {} /\ cc.replicas # Cardinality(Pods))
  /\ [](cc.replicas = Cardinality(Pods)) => <>[](\A c \in Clients : args[c] = Pods)
============================================================================
