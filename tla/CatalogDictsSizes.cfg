CONSTANTS
  F1 = F1
  F2 = F2
  F3 = F3
  F4 = F4
  NumTbl = 2
  NumFld = 3
  TblNames <- TwoTbls
  FldNames <- OneFld
  NnName <- OneFldNn
  HashTbl <- TblHash
  HashFld <- OneFldHash
  FldTypes = {"I1", "I4"}
  RowCounts = {0, 1}
  FileLens = {4}
  DictIds <- SlotIds
  LenGiven = {TRUE, FALSE}
  Files <- ThreeFiles
  CrowdedMoves = FALSE
  LongRenames = FALSE
  InDataDir = FALSE
SPECIFICATION DocSpec
SYMMETRY FileSymmetry
INVARIANTS UniqueTblNames DictsLive DataFits CatalogInv
