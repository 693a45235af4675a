SPECIFICATION Spec
CONSTANTS
  None = None
  Lo <- Low
  Hi = 1
  WordBits = 16
  Jobs <- NullJobs
INVARIANTS
  Reduced
CHECK_DEADLOCK FALSE
