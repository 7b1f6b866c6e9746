\* Two stores, created or running, one edit that changes their template or adds
\* a third, one failed request and one restart, while PD may be upgrading.
SPECIFICATION FairSpec
CONSTANTS
  MaxReplicas = 3
  Replicas = 2
  Asks <- RollOrScale
  Revisions = {1, 2}
  BadRevisions = {}
  FirstRevision = 1
  MaxEdits = 1
  MaxTries = 2
  MaxCrashes = 0
  MaxFailures = 1
  MaxRestarts = 1
  Leading = {0, 1}
INVARIANTS TypeOK
PROPERTIES EvictsFirst Converges ImplementsRollout
