----------------------------- MODULE Bootstrap -----------------------------
(***************************************************************************)
(* What the discovery service promises: PD bootstraps at most once.  One   *)
(* initial cluster is chosen, never another, and every process that starts *)
(* starts with that one.                                                   *)
(***************************************************************************)
CONSTANTS Members, Clients

VARIABLES
  cluster,    \* the initial cluster, {} until it is chosen
  started     \* what each process was started with, {} while it waits

Init ==
  /\ cluster = {}
  /\ started = [c \in Clients |-> {}]

Choose ==
  /\ cluster = {}
  /\ cluster' \in (SUBSET Members) \ {{}}
  /\ UNCHANGED started

Start(c) ==
  /\ cluster # {} /\ started[c] = {}
  /\ started' = [started EXCEPT ![c] = cluster]
  /\ UNCHANGED cluster

\* The reply of the call that chose reaches its caller at once.
ChooseAndStart(c) ==
  /\ cluster = {} /\ started[c] = {}
  /\ cluster' \in (SUBSET Members) \ {{}}
  /\ started' = [started EXCEPT ![c] = cluster']

Stop(c) ==
  /\ started[c] # {}
  /\ started' = [started EXCEPT ![c] = {}]
  /\ UNCHANGED cluster

Next == Choose \/ \E c \in Clients : Start(c) \/ ChooseAndStart(c) \/ Stop(c)

Spec == Init /\ [][Next]_<<cluster, started>>
============================================================================
