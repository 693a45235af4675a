CONSTANTS
  Tbls <- T1T2
  Flds <- FG
  Vals <- Small
  MinBlock = 2
  UnOp <- Not
  BinOp <- And
  Uses <- MaskedUses
  Null = Null
  None = None
SPECIFICATION Spec
VIEW Store
PROPERTY ImplementsRows
