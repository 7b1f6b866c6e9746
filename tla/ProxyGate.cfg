\* Two proxies edited while PD or the store may be upgrading, and a restart of
\* the operator.
SPECIFICATION Spec
CONSTANTS
  MaxReplicas = 2
  Replicas = 2
  ReplicaEdits = {1, 2}
  Revisions = {1, 2}
  BadRevisions = {}
  FirstRevision = 1
  MaxEdits = 1
  MaxTries = 2
  MaxCrashes = 0
  MaxFailures = 0
  MaxRestarts = 1
INVARIANTS TypeOK
PROPERTIES HoldsTemplate
