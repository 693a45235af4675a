SPECIFICATION Spec
CONSTANTS
  p1 = p1
  p2 = p2
  fldF = fldF
  fldG = fldG
  dirA = dirA
  dirB = dirB
  main = main
  None = None
  Procs = {p1, p2}
  Flds = {fldF, fldG}
  Main = main
  AltDirs = {dirA, dirB}
  NumDDir = 1
  Names = {1, 2, 3, 4}
  Block = 2
  Reserved = 1
  W = 2
  Uses <- DirUses
INVARIANTS
  TypeOK
  FilesWhereRecorded
  RoomSuffices
  RoomMeansMade
  
