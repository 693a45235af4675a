CONSTANTS
  F1 = F1
  F2 = F2
  F3 = F3
  F4 = F4
  NumTbl = 2
  NumFld = 2
  TblNames <- TwoTbls
  FldNames <- OneFld
  NnName <- OneFldNn
  HashTbl <- TblHash
  HashFld <- OneFldHash
  FldTypes = {"I1"}
  RowCounts = {1}
  FileLens = {1}
  DictIds <- AnyIds
  LenGiven = {FALSE}
  Files <- TwoFiles
  CrowdedMoves = FALSE
  LongRenames = FALSE
  InDataDir = FALSE
SPECIFICATION Spec
SYMMETRY FileSymmetry
INVARIANT UniqueTblNames
