\* A cluster of three members from its creation on, with an image that cannot
\* be pulled, one edit, one crash, one failed request and one restart.
SPECIFICATION FairSpec
CONSTANTS
  MaxReplicas = 3
  Replicas = 3
  ReplicaEdits = {2, 3}
  Revisions = {1, 2}
  BadRevisions = {1}
  FirstRevision = 1
  MaxEdits = 1
  MaxTries = 2
  MaxCrashes = 1
  MaxFailures = 1
  MaxRestarts = 1
INVARIANTS ReplicasFixed
PROPERTIES NeverScales Recovers
