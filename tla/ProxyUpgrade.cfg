\* Two proxies, one edit of their template, no fault.
SPECIFICATION FairSpec
CONSTANTS
  MaxReplicas = 2
  Replicas = 2
  ReplicaEdits = {2}
  Revisions = {1, 2}
  BadRevisions = {}
  FirstRevision = 1
  MaxEdits = 1
  MaxTries = 2
  MaxCrashes = 0
  MaxFailures = 0
  MaxRestarts = 0
PROPERTIES Converges
