\* Two pods and two nodes; the operator's updates are tried as often as
\* retry.DefaultBackoff says.
SPECIFICATION FairSpec
CONSTANTS
  n0 = n0
  n1 = n1
  n2 = n2
  NoNode = NoNode
  Pods = {0, 1}
  Nodes = {n0, n1}
  MaxFaults = 2
  MaxMoves = 2
  MaxSyncs = 2
  MetaTries = 4
INVARIANTS TypeOK LockKept
PROPERTIES AllPlaced
\* When every pod has its node nothing is left to do.
CHECK_DEADLOCK FALSE
