CONSTANTS
  Procs <- TwoProcs
  NumTbl = 2
  NumFld = 4
  Serials = {0, 1, 2}
  NnName <- Nn
  Uses <- SharedUses
  None = None
SPECIFICATION Spec
INVARIANTS PublishedWhole  
PROPERTIES FieldsStay EffectsStand
