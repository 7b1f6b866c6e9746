\* Three changes of what is asked for, three faults, three attempts.
SPECIFICATION FairSpec
CONSTANTS
  Rollback = FALSE
  MaxChanges = 3
  MaxFaults = 3
  MaxTries = 3
INVARIANT TypeOK
PROPERTIES ServicesConverge
