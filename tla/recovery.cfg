SPECIFICATION Spec
CONSTANTS
  MaxWrites = 2
  MaxFaults = 2
INVARIANTS TypeOK RolledBackIsTrue
PROPERTIES RollbackSpec RestoresSafely Ended
