SPECIFICATION Spec
CONSTANTS
  None = None
  Lo <- Low
  Hi = 1
  WordBits = 16
  Jobs <- AllJobs
INVARIANTS
  CoveredOnce
  RefusesOnlyNarrow
  
  Sequenced
CHECK_DEADLOCK FALSE
