\* A running cluster of three members, two edits of its template, the second when
\* the first has come to all, and one restart of the operator.
SPECIFICATION FairPatientSpec
CONSTANTS
  MaxReplicas = 3
  Replicas = 3
  ReplicaEdits = {3}
  Revisions = {1, 2}
  BadRevisions = {}
  FirstRevision = 1
  MaxEdits = 2
  MaxTries = 2
  MaxCrashes = 0
  MaxFailures = 0
  MaxRestarts = 1
INVARIANTS TypeOK RollsTopDown
PROPERTIES DisruptionBound Converges ImplementsRollout
