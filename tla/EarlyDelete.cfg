CONSTANTS
  F1 = F1
  F2 = F2
  F3 = F3
  F4 = F4
  NumTbl = 2
  NumFld = 4
  TblNames <- TwoTbls
  FldNames <- TwoFlds
  NnName <- TwoFldsNn
  HashTbl <- TblHash
  HashFld <- TwoFldsHash
  FldTypes = {"I1"}
  RowCounts = {1}
  FileLens = {1}
  DictIds = {}
  LenGiven = {FALSE}
  Files <- FourFiles
  CrowdedMoves = FALSE
  LongRenames = FALSE
  InDataDir = FALSE
SPECIFICATION DocSpec
SYMMETRY FileSymmetry
PROPERTY FailureKeepsFields
