------------------------------ MODULE Rollout ------------------------------
(***************************************************************************)
(* What the upgrade of a set of members promises its users, whoever drives *)
(* it and however his writes are delayed, repeated or lost: the members go *)
(* to the template asked for one after the other, from the highest ordinal *)
(* down, each of them once and none of them back; one is taken down only   *)
(* while all but a few of the others serve, and one that leads has handed  *)
(* over before.                                                            *)
(***************************************************************************)
EXTENDS Naturals

CONSTANTS
  Members,     \* the ordinals of the set
  Templates,   \* what can be asked for; 0 is no template
  Leaders,     \* the members that have something to hand over
  Tolerated    \* the sets of others that may be down when a member is taken down

VARIABLES
  asked,       \* the template of the set
  template,    \* that of each member, 0 while it is not there
  serving,     \* the members that serve
  handed       \* the leaders that have handed over

vars == <<asked, template, serving, handed>>

Renewed(i) == template[i] = asked

\* A set that is created, or one at rest.
Init ==
  /\ asked \in Templates
  /\ \/ template = [i \in Members |-> 0] /\ serving = {}
     \/ template = [i \in Members |-> asked] /\ serving = Members
  /\ handed = {}

\* A new template is asked for when the one before has come to all.
Ask ==
  /\ \A i \in Members : Renewed(i)
  /\ asked' \in Templates
  /\ UNCHANGED <<template, serving, handed>>

HandOver(i) ==
  /\ handed' = handed \cup {i}
  /\ UNCHANGED <<asked, template, serving>>

TakeDown(i) ==
  /\ template[i] # 0 /\ ~Renewed(i)
  /\ \A j \in Members : j > i => Renewed(j)
  /\ (Members \ {i}) \ serving \in Tolerated
  /\ i \in Leaders => i \in handed
  /\ template' = [template EXCEPT ![i] = 0]
  /\ serving' = serving \ {i} /\ handed' = handed \ {i}
  /\ UNCHANGED asked

BringBack(i) ==
  /\ template[i] = 0
  /\ template' = [template EXCEPT ![i] = asked]
  /\ UNCHANGED <<asked, serving, handed>>

Serve(i) ==
  /\ template[i] # 0
  /\ serving' = serving \cup {i}
  /\ UNCHANGED <<asked, template, handed>>

Next ==
  \/ Ask
  \/ \E i \in Members : TakeDown(i) \/ BringBack(i) \/ Serve(i)
  \/ \E i \in Leaders : HandOver(i)

Spec == Init /\ [][Next]_vars
============================================================================
