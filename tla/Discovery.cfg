\* Three PD pods and a store; the user may ask for two PD replicas.
SPECIFICATION FairSpec
CONSTANTS
  pd0 = pd0
  pd1 = pd1
  pd2 = pd2
  store0 = store0
  Pods = {pd0, pd1, pd2}
  Others = {store0}
  ReplicaEdits = {2, 3}
  MaxWrites = 3
  MaxLosses = 3
INVARIANTS TypeOK Agreement ClaimSound
PROPERTIES BootstrapsOnce Bootstraps
