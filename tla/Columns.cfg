CONSTANTS
  Tbls <- T1T2
  Flds <- FG
  Vals <- Small
  MinBlock = 2
  UnOp <- Not
  BinOp <- And
  Uses <- AllUses
  Null = Null
  None = None
SPECIFICATION Spec
VIEW Store
INVARIANTS TypeOK RowsAligned   NeverShort
 
