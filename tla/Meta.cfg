\* One PD, one fault, one failed request, two attempts.
SPECIFICATION FairSpec
CONSTANTS
  PDs = {"pd"}
  Stores = {}
  Proxies = {}
  MaxFaults = 1
  MaxFailures = 1
  MaxTries = 2
INVARIANTS TypeOK CacheTells
PROPERTIES MetaSettles PoliciesSettle MisledByRetry
