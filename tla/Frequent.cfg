SPECIFICATION FairSpec
CONSTANTS
  None = None
  Ids <- FewIds
  Jobs <- AllJobs
  MinCntr = 2
  MaxThreads <- Powers
  MAX_SZ = 54
  MaxRatio = 6
INVARIANTS
  Accounted
  FrequentListed
  NoneRare
  OutputFits
PROPERTY Terminates
CHECK_DEADLOCK FALSE
