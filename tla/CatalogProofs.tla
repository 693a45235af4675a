-------------------------- MODULE CatalogProofs -----------------------------
(***************************************************************************)
(* Theorems about the catalog.                                             *)
(*                                                                         *)
(* Whatever is called, no verb deletes a dictionary in use.  Under         *)
(* documented use, with two slots to spare when a field is moved and no    *)
(* overlong new names, every verb keeps the whole catalog consistent.      *)
(***************************************************************************)
EXTENDS CatalogVerbs

USE ZenonT(30)

-----------------------------------------------------------------------------
(* Dictionaries, whatever is called.                                       *)

TblsOK == tbls \in [TblIds -> TblRec]

KeepsDicts ==
  \A t \in TblIds : InUse(flds, t) /\ tbls[t].name # NoName => tbls'[t].name # NoName

\* The verbs on fields do not write the table of tables.
LEMMA FieldVerbsKeepTbls ==
  ASSUME \/ \E t \in TblNames, n \in FldNames, f \in Files, ty \in FldTypes,
               l \in LenGiven : AddFld(t, n, f, ty, l)
         \/ \E t \in TblNames, n \in FldNames : DelFld(t, n)
         \/ \E t \in TblNames, m, n \in FldNames : RenameFld(t, m, n)
         \/ \E t \in TblNames, n \in FldNames, ty \in FldTypes : SToF(t, n, ty)
         \/ \E t \in TblNames, m, n \in FldNames : DupFld(t, m, n)
         \/ \E t, u \in TblNames, n \in FldNames : MvFld(t, n, u)
         \/ \E t, u \in TblNames, m, n \in FldNames : MkNnFld(t, n, u, m)
         \/ \E t \in TblNames, n \in FldNames : DropNnFld(t, n)
         \/ \E t \in TblNames, n \in FldNames, d \in DictIds : SetDict(t, n, d)
         \/ \E t \in TblNames, n \in FldNames, ty \in FldTypes : SetFldType(t, n, ty)
         \/ \E f \in Files, len \in FileLens : PutFile(f, len)
  PROVE  tbls' = tbls
<1>0. /\ \A s : Succeed(s) => tbls' = tbls
      /\ \A s : FailWith(s) => tbls' = tbls
      /\ Fail => tbls' = tbls
  BY DEF Succeed, FailWith, Fail, Leave
<1>1. CASE \E t \in TblNames, n \in FldNames, f \in Files, ty \in FldTypes,
              l \in LenGiven : AddFld(t, n, f, ty, l)
  <2>1. PICK t \in TblNames, n \in FldNames, f \in Files, ty \in FldTypes,
             l \in LenGiven : AddFld(t, n, f, ty, l)
    BY <1>1
  <2> QED BY <2>1, <1>0 DEF AddFld
<1>2. CASE \E t \in TblNames, n \in FldNames : DelFld(t, n)
  BY <1>2, <1>0 DEF DelFld
<1>3. CASE \E t \in TblNames, m, n \in FldNames : RenameFld(t, m, n)
  <2>1. PICK t \in TblNames, m \in FldNames, n \in FldNames : RenameFld(t, m, n)
    BY <1>3
  <2> QED BY <2>1, <1>0 DEF RenameFld
<1>4. CASE \E t \in TblNames, n \in FldNames, ty \in FldTypes : SToF(t, n, ty)
  BY <1>4, <1>0 DEF SToF
<1>5. CASE \E t \in TblNames, m, n \in FldNames : DupFld(t, m, n)
  <2>1. PICK t \in TblNames, m \in FldNames, n \in FldNames : DupFld(t, m, n)
    BY <1>5
  <2>2. \A s, a, k, nn : CopyNn(s, a, k, nn) => tbls' = tbls
    BY SMT, <1>0 DEF CopyNn
  <2>3. \A s, a, i : CopyFld(s, a, i, n) => tbls' = tbls
    BY SMT, <1>0, <2>2 DEF CopyFld
  <2> QED BY <2>1, <2>3, <1>0 DEF DupFld
<1>6. CASE \E t, u \in TblNames, n \in FldNames : MvFld(t, n, u)
  <2>1. PICK t \in TblNames, u \in TblNames, n \in FldNames : MvFld(t, n, u)
    BY <1>6
  <2> QED BY <2>1, <1>0 DEF MvFld
<1>7. CASE \E t, u \in TblNames, m, n \in FldNames : MkNnFld(t, n, u, m)
  <2>1. PICK t \in TblNames, u \in TblNames, m \in FldNames, n \in FldNames : MkNnFld(t, n, u, m)
    BY <1>7
  <2> QED BY <2>1, <1>0 DEF MkNnFld
<1>8. CASE \E t \in TblNames, n \in FldNames : DropNnFld(t, n)
  BY <1>8, <1>0 DEF DropNnFld
<1>9. CASE \E t \in TblNames, n \in FldNames, d \in DictIds : SetDict(t, n, d)
  BY <1>9, <1>0 DEF SetDict
<1>10. CASE \E t \in TblNames, n \in FldNames, ty \in FldTypes : SetFldType(t, n, ty)
  BY <1>10, <1>0 DEF SetFldType
<1>11. CASE \E f \in Files, len \in FileLens : PutFile(f, len)
  BY <1>11 DEF PutFile
<1> QED BY <1>1, <1>2, <1>3, <1>4, <1>5, <1>6, <1>7, <1>8, <1>9, <1>10, <1>11

\* One verb keeps the records of the tables well formed and the dictionaries
\* in use: add_tbl, del_tbl and rename_tbl look for users first.
LEMMA StepKeepsDicts ==
  ASSUME TblsOK, Next
  PROVE  TblsOK' /\ KeepsDicts
<1> USE DEF Succeed, FailWith, Fail, Leave
<1>0. ASSUME tbls' = tbls PROVE TblsOK' /\ KeepsDicts
  BY <1>0 DEF TblsOK, KeepsDicts
<1>1. ASSUME NEW n \in TblNames, NEW nR \in RowCounts, AddTbl(n, nR)
      PROVE  TblsOK' /\ KeepsDicts
  <2> DEFINE t == is_tbl(tbls, n)
             k == IF t # NoId THEN t ELSE get_empty_tbl(tbls, n)
  <2>1. \/ tbls' = tbls
        \/ k # NoId /\ tbls' = [tbls EXCEPT ![k] = [name |-> n, nR |-> nR]]
    BY <1>1 DEF AddTbl
  <2>2. CASE k # NoId /\ tbls' = [tbls EXCEPT ![k] = [name |-> n, nR |-> nR]]
    <3>1. k \in TblIds
      BY <2>2, IsTbl, GetEmptyTbl
    <3>2. [name |-> n, nR |-> nR] \in TblRec /\ n # NoName
      BY RowAssumption, NameAssumption DEF TblRec
    <3> HIDE DEF k
    <3> QED BY <2>2, <3>1, <3>2 DEF TblsOK, KeepsDicts
  <2> QED BY <1>0, <2>1, <2>2
<1>2. ASSUME NEW n \in TblNames, DelTbl(n) PROVE TblsOK' /\ KeepsDicts
  <2> DEFINE t == is_tbl(tbls, n)
  <2>1. \/ tbls' = tbls
        \/ t # NoId /\ ~InUse(flds, t) /\ tbls' = [tbls EXCEPT ![t] = NullTbl]
    BY <1>2 DEF DelTbl
  <2>2. CASE t # NoId /\ ~InUse(flds, t) /\ tbls' = [tbls EXCEPT ![t] = NullTbl]
    <3>1. t \in TblIds /\ NullTbl \in TblRec
      BY <2>2, IsTbl DEF NullTbl, TblRec
    <3> HIDE DEF t
    <3> QED BY <2>2, <3>1 DEF TblsOK, KeepsDicts
  <2> QED BY <1>0, <2>1, <2>2
<1>3. ASSUME NEW m \in TblNames, NEW n \in TblNames, RenameTbl(m, n)
      PROVE  TblsOK' /\ KeepsDicts
  <2> DEFINE t == is_tbl(tbls, m)
             u == is_tbl(tbls, n)
  <2>1. \/ tbls' = tbls
        \/ t # NoId /\ tbls' = [tbls EXCEPT ![t].name = n]
        \/ /\ t # NoId /\ u # NoId /\ ~InUse(flds, u)
           /\ tbls' = [tbls EXCEPT ![u] = NullTbl, ![t].name = n]
    BY <1>3 DEF RenameTbl
  <2>2. /\ t # NoId => t \in TblIds
        /\ u # NoId => u \in TblIds
        /\ NullTbl \in TblRec /\ n # NoName
    BY IsTbl, NameAssumption DEF NullTbl, TblRec
  <2> HIDE DEF t, u
  <2>3. CASE t # NoId /\ tbls' = [tbls EXCEPT ![t].name = n]
    BY <2>2, <2>3 DEF TblsOK, KeepsDicts, TblRec
  <2>4. CASE /\ t # NoId /\ u # NoId /\ ~InUse(flds, u)
             /\ tbls' = [tbls EXCEPT ![u] = NullTbl, ![t].name = n]
    BY <2>2, <2>4 DEF TblsOK, KeepsDicts, TblRec
  <2> QED BY <1>0, <2>1, <2>3, <2>4
<1>4. ASSUME NEW n \in TblNames, NEW nR \in RowCounts, SetNR(n, nR)
      PROVE  TblsOK' /\ KeepsDicts
  <2> DEFINE t == is_tbl(tbls, n)
  <2>1. tbls' = tbls \/ (t # NoId /\ tbls' = [tbls EXCEPT ![t].nR = nR])
    BY <1>4 DEF SetNR
  <2>2. (t # NoId => t \in TblIds) /\ nR \in Nat
    BY IsTbl, RowAssumption
  <2> HIDE DEF t
  <2>3. CASE t # NoId /\ tbls' = [tbls EXCEPT ![t].nR = nR]
    BY <2>2, <2>3 DEF TblsOK, KeepsDicts, TblRec
  <2> QED BY <1>0, <2>1, <2>3
<1> QED BY <1>0, <1>1, <1>2, <1>3, <1>4, FieldVerbsKeepTbls DEF Next

\* For any number of slots, names and files, and however the verbs are
\* called: a table that some field uses as its dictionary is not deleted
\* ("Make sure that nobody else is using this table", del_tbl.c:45).
THEOREM DictsAreSafe == Spec => DictsNeverDeleted
<1>1. Init => TblsOK
  BY SMT DEF Init, TblsOK, NullTbl, TblRec
<1>2. TblsOK /\ [Next]_vars => TblsOK'
  BY StepKeepsDicts DEF vars, TblsOK
<1>3. TblsOK /\ [Next]_vars =>
        [\A t \in TblIds :
           InUse(flds, t) /\ tbls[t].name # NoName => tbls'[t].name # NoName]_vars
  BY StepKeepsDicts DEF KeepsDicts
<1> QED BY <1>1, <1>2, <1>3, PTL DEF Spec, DictsNeverDeleted

-----------------------------------------------------------------------------
(* The theorems.                                                           *)

\* A new document root satisfies the invariant.
LEMMA InitOK == Init => CatalogInv
<1> SUFFICES ASSUME Init PROVE CatalogInv
  OBVIOUS
<1>1. \A i \in FldIds : flds[i] = NullFld
  BY DEF Init
<1>2. /\ flds \in [FldIds -> FldRec] /\ files \in [Files -> Nat \cup {Absent}]
      /\ tbls \in [TblIds -> TblRec] /\ status \in {0, -1}
  BY NullFldType DEF Init, NullTbl, TblRec
<1>3. Blanks(flds) /\ Primaries(flds) /\ Links(flds) /\ UniqueInTbl(flds)
  BY SMT, <1>1 DEF NullFld, Blanks, Primaries, Links, UniqueInTbl, Named
<1>4. /\ SoleOwners(flds) /\ Fits(flds, files, tbls) /\ Housed(flds, tbls)
      /\ LiveDicts(flds, tbls)
  BY SMT, <1>1 DEF NullFld, SoleOwners, Fits, Housed, LiveDicts, Named
<1>5. UniqueNames(tbls)
  BY DEF Init, NullTbl, UniqueNames
<1> QED BY <1>2, <1>3, <1>4, <1>5 DEF CatalogInv, Consistent

\* Under documented use every verb, with every early exit it may take, keeps
\* the catalog consistent, for any number of slots, names, files and rows.
THEOREM CatalogIsConsistent ==
  ASSUME ~CrowdedMoves, ~LongRenames
  PROVE  DocSpec => []CatalogInv
<1>1. CatalogInv /\ [DocNext]_vars => CatalogInv'
  <2> SUFFICES ASSUME CatalogInv, [DocNext]_vars PROVE CatalogInv'
    OBVIOUS
  <2>1. CASE UNCHANGED vars
    BY <2>1 DEF vars, CatalogInv
  <2>2. CASE DocNext
    <3>1. ASSUME NEW t \in TblNames, NEW m \in UserNames, NEW n \in UserNames,
                 NnName[n] = NoName => LongRenames, RenameFld(t, m, n)
          PROVE  CatalogInv'
      BY <3>1, RenameFldOK
    <3>2. ASSUME NEW t \in TblNames, NEW u \in TblNames, NEW n \in UserNames, t # u,
                 CrowdedMoves \/ RoomToMove, MvFld(t, n, u)
          PROVE  CatalogInv'
      BY <3>2, MvFldOK
    <3> QED BY <2>2, <3>1, <3>2, AddTblOK, DelTblOK, RenameTblOK, SetNROK, AddFldOK,
               DelFldOK, SToFOK, DupFldOK, MkNnFldOK, DropNnFldOK, SetDictOK, PutFileOK
            DEF DocNext
  <2> QED BY <2>1, <2>2
<1> QED BY <1>1, InitOK, PTL DEF DocSpec

\* What users may rely on under documented use, property by property.
THEOREM CatalogProperties ==
  ASSUME ~CrowdedMoves, ~LongRenames
  PROVE  DocSpec => [](/\ TypeOK /\ UniqueTblNames /\ UniqueFldNames /\ NnLinks
                       /\ NoStrayFields /\ DictsLive /\ OneOwner /\ DataFits)
<1>1. CatalogInv => /\ TypeOK /\ UniqueTblNames /\ UniqueFldNames /\ NnLinks
                    /\ NoStrayFields /\ DictsLive /\ OneOwner /\ DataFits
  BY DEF CatalogInv, Consistent, TypeOK, UniqueTblNames, UniqueFldNames, NnLinks,
         NoStrayFields, DictsLive, OneOwner, DataFits
<1> QED BY <1>1, CatalogIsConsistent, PTL

\* No field outlives its table: del_tbl hands every field of the table to
\* del_fld, and none is left for the next table in that slot.
THEOREM FieldsLieInTables ==
  ASSUME ~CrowdedMoves, ~LongRenames
  PROVE  DocSpec => []NoStrayFields
<1> QED BY CatalogProperties, PTL

\* A field and its null flags name each other, whatever add_aux_fld,
\* mk_nn_fld, drop_nn_fld, dup_fld, mv_fld and rename_fld have done.
THEOREM FlagsAreLinked ==
  ASSUME ~CrowdedMoves, ~LongRenames
  PROVE  DocSpec => []NnLinks
<1> QED BY CatalogProperties, PTL

\* No two fields of a table have one name, so is_fld finds the only one.
THEOREM FieldNamesUnique ==
  ASSUME ~CrowdedMoves, ~LongRenames
  PROVE  DocSpec => []UniqueFldNames
<1> QED BY CatalogProperties, PTL

\* No two tables have one name, so is_tbl finds the only one.
THEOREM TableNamesUnique ==
  ASSUME ~CrowdedMoves, ~LongRenames
  PROVE  DocSpec => []UniqueTblNames
<1> QED BY CatalogProperties, PTL

\* No two fields own one file, so that del_fld takes no other field's data.
THEOREM FilesHaveOneOwner ==
  ASSUME ~CrowdedMoves, ~LongRenames
  PROVE  DocSpec => []OneOwner
<1> QED BY CatalogProperties, PTL

\* The file of every field has the bytes that its table's nR and its type
\* ask for: what every verb relies on that maps it.
THEOREM FilesFit ==
  ASSUME ~CrowdedMoves, ~LongRenames
  PROVE  DocSpec => []DataFits
<1> QED BY CatalogProperties, PTL

\* A dictionary that a field names is a table that exists.
THEOREM DictsExist ==
  ASSUME ~CrowdedMoves, ~LongRenames
  PROVE  DocSpec => []DictsLive
<1> QED BY CatalogProperties, PTL
=============================================================================
