\* Two CellClusters, two workers, three changes and a restart.
SPECIFICATION FairSpec
CONSTANTS
  Keys = {c1, c2}
  Workers = {w1, w2}
  MaxVersion = 3
  MaxRestarts = 1
INVARIANTS TypeOK OneWorkerPerKey NoEventLost
PROPERTIES ImplementsPasses CatchesUp PassesRecur
\* Without CellClusters nothing has to happen.
CHECK_DEADLOCK FALSE
