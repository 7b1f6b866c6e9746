\* Three pods and three nodes; the operator's updates are tried as often as
\* retry.DefaultBackoff says.
SPECIFICATION Spec
CONSTANTS
  n0 = n0
  n1 = n1
  n2 = n2
  NoNode = NoNode
  Pods = {0, 1, 2}
  Nodes = {n0, n1, n2}
  MaxFaults = 1
  MaxMoves = 1
  MaxSyncs = 1
  MetaTries = 4
INVARIANTS Exclusive
\* When every pod has its node nothing is left to do.
CHECK_DEADLOCK FALSE
