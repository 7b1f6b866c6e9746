\* A cluster that is created, and one whose templates are edited once; one fault.
SPECIFICATION FairSpec
CONSTANTS
  Edits = {{"pd", "store"}, {"store", "proxy"}}
  Crashing = {"pd"}
  MaxEdits = 1
  MaxFaults = 1
  MaxTries = 2
INVARIANT TypeOK
PROPERTIES SpecKept OneRollAtATime Converges StatusSettles
