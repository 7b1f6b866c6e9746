------------------------------- MODULE Passes -------------------------------
(***************************************************************************)
(* What the work queue promises to those who write passes: a pass of a     *)
(* CellCluster runs alone, one that failed is run again, and what the      *)
(* operator has learnt (`news') is never forgotten before a pass began     *)
(* from it.  Only a restart forgets, and then everything is learnt again.  *)
(***************************************************************************)
CONSTANT Keys       \* the CellClusters, by namespace and name

VARIABLES
  news,     \* the clusters of which something is known that no pass began from
  due,      \* those that will be passed
  running   \* those being passed

vars == <<news, due, running>>

Init == news = {} /\ due = {} /\ running = {}

\* Something is learnt of k, be it that it is again as the last pass found it.
Learn(k) ==
  /\ news' \in {news \cup {k}, news \ {k}}
  /\ due' = due \cup {k}
  /\ UNCHANGED running

\* A retry can remain due while a pass begins for another reason.
Begin(k) ==
  /\ k \in due \ running
  /\ due' \in {due, due \ {k}}
  /\ news' = news \ {k} /\ running' = running \cup {k}

End(k, ok) ==
  /\ k \in running
  /\ running' = running \ {k}
  /\ due' = IF ok THEN due ELSE due \cup {k}
  /\ UNCHANGED news

Restart == news' = {} /\ due' = {} /\ running' = {}

Next ==
  \/ \E k \in Keys : Learn(k) \/ Begin(k) \/ End(k, TRUE) \/ End(k, FALSE)
  \/ Restart

Spec == Init /\ [][Next]_vars
=============================================================================
