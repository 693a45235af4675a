----------------------------- MODULE CatalogUse -----------------------------
(***************************************************************************)
(* The catalog under documented use, and what users may rely on.           *)
(*                                                                         *)
(* Catalog!Next lets every verb be called with every argument.  The manual *)
(* (q-base/latex/src/q.tex) states restrictions that most verbs do not     *)
(* check; DocNext keeps the callers, not the code, within them.  The code  *)
(* of the verbs, with all its error exits, is the same in both.            *)
(***************************************************************************)
EXTENDS Catalog

CONSTANTS
  CrowdedMoves, \* TRUE iff mv_fld is called with fewer than two free slots
  LongRenames   \* TRUE iff fields are renamed to names so long that the
                \* name of their null-flag field would not fit

ASSUME UseAssumption == CrowdedMoves \in BOOLEAN /\ LongRenames \in BOOLEAN

\* "Most operations cannot be performed on the nn field of a primary field":
\* users neither pass nor make up names of the form _nn_*.
UserNames == {n \in FldNames : \A m \in FldNames : NnName[m] # n}

Owned(f)     == \E i \in FldIds : flds[i].filename = f
HasFields(n) == \E i \in FldIds : flds[i].tbl_id # NoId /\ flds[i].tbl_id = is_tbl(tbls, n)
HasUsers(n)  == is_tbl(tbls, n) # NoId /\ InUse(flds, is_tbl(tbls, n))
IsDict(d)    == d = NoId \/ d \in {t \in TblIds : tbls[t].name # NoName}
FreeSlots    == {i \in FldIds : flds[i].name = NoName}
RoomToMove   == \E i, j \in FreeSlots : i # j

DocNext ==
  \/ \E n \in TblNames, nR \in RowCounts : AddTbl(n, nR)
  \/ \E n \in TblNames : DelTbl(n)
  \/ \E m, n \in TblNames : ~HasUsers(n) /\ RenameTbl(m, n)
  \/ \E n \in TblNames, nR \in RowCounts : ~HasFields(n) /\ SetNR(n, nR)
  \/ \E t \in TblNames, n \in UserNames, f \in Files, ty \in FldTypes,
        l \in LenGiven : ~Owned(f) /\ AddFld(t, n, f, ty, l)
  \/ \E t \in TblNames, n \in UserNames : DelFld(t, n)
  \/ \E t \in TblNames, m, n \in UserNames :
        (NnName[n] = NoName => LongRenames) /\ RenameFld(t, m, n)
  \/ \E t \in TblNames, n \in UserNames, ty \in FldTypes : SToF(t, n, ty)
  \/ \E t \in TblNames, m, n \in UserNames : DupFld(t, m, n)
  \/ \E t, u \in TblNames, n \in UserNames :
        t # u /\ (CrowdedMoves \/ RoomToMove) /\ MvFld(t, n, u)
  \/ \E t, u \in TblNames, m, n \in UserNames :
        <<t, n>> # <<u, m>> /\ MkNnFld(t, n, u, m)
  \/ \E t \in TblNames, n \in UserNames : DropNnFld(t, n)
  \/ \E t \in TblNames, n \in UserNames, d \in DictIds :
        IsDict(d) /\ SetDict(t, n, d)
  \/ \E f \in Files, len \in FileLens : PutFile(f, len)

DocSpec == Init /\ [][DocNext]_vars

-----------------------------------------------------------------------------
(* What holds of a field table F, a data directory D and a table of tables *)
(* T: the properties below say it of the variables.                        *)

Named(F, i) == F[i].name # NoName

UniqueNames(T) ==
  \A t, u \in TblIds : T[t].name = T[u].name /\ T[t].name # NoName => t = u

UniqueInTbl(F) ==
  \A i, j \in FldIds :
    Named(F, i) /\ F[i].name = F[j].name /\ F[i].tbl_id = F[j].tbl_id => i = j

Links(F) ==
  \A i \in FldIds :
    /\ F[i].nn_fld_id # NoId =>
         LET k == F[i].nn_fld_id
         IN /\ F[k].parent_id = i
            /\ F[k].tbl_id = F[i].tbl_id
            /\ F[k].name = NnName[F[i].name]
            /\ F[k].fldtype = "I1"
            /\ F[i].parent_id = NoId
    /\ F[i].parent_id # NoId => F[F[i].parent_id].nn_fld_id = i

Housed(F, T) ==
  \A i \in FldIds :
    Named(F, i) => F[i].tbl_id # NoId /\ T[F[i].tbl_id].name # NoName

LiveDicts(F, T) ==
  \A i \in FldIds :
    F[i].dict_tbl_id # NoId =>
      F[i].dict_tbl_id \in TblIds /\ T[F[i].dict_tbl_id].name # NoName

SoleOwners(F) ==
  \A i, j \in FldIds :
    Named(F, i) /\ Named(F, j) /\ F[i].filename = F[j].filename => i = j

Fits(F, D, T) ==
  \A i \in FldIds : Named(F, i) =>
    /\ F[i].filename \in Files /\ F[i].fldtype \in FldTypes
    /\ D[F[i].filename] = Width[F[i].fldtype] * T[F[i].tbl_id].nR
    /\ D[F[i].filename] > 0

-----------------------------------------------------------------------------
\* Every slot number, type and file name in the tables is one that exists;
\* the off-by-one of set_meta lets dict_tbl_id be NumTbl as well.
TypeOK ==
  /\ tbls \in [TblIds -> TblRec]
  /\ flds \in [FldIds -> FldRec]
  /\ files \in [Files -> Nat \cup {Absent}]
  /\ status \in {0, -1}

\* "A table has a non-null, unique name" (q.tex:168).  add_tbl and rename_tbl
\* keep it only if the holder of the name is really gone when they store it.
UniqueTblNames == UniqueNames(tbls)

\* "A field has a non-null name that is unique within a table" (q.tex:170),
\* the null-flag fields that add_aux_fld and rename_fld name included.
UniqueFldNames == UniqueInTbl(flds)

\* A field and its null flags point at each other, live in the same table,
\* and the flags are bytes named after the field, without flags of their own.
\* del_fld, del_tbl and drop_nn_fld clear the slot nn_fld_id names unseen.
NnLinks == Links(flds)

\* Deleting a table takes all its fields along, auxiliary ones included
\* ("aux will happen", del_tbl.c:64): no field is left in a table slot that
\* the next add_tbl hands out.
NoStrayFields == Housed(flds, tbls)

\* A dictionary that a field refers to exists: add_tbl, rename_tbl and
\* del_tbl never free the slot under it.
DictsLive == LiveDicts(flds, tbls)

\* A data file belongs to one field ("file_name --- unique", q.tex:221), so
\* that the unlink in del_fld never takes the data of another field.
OneOwner == SoleOwners(flds)

\* The file of every field exists and holds one value for each row of the
\* field's table, whatever verbs have failed half way.
DataFits == Fits(flds, files, tbls)

\* No verb deletes a table that a field uses as its dictionary ("Make sure
\* that nobody else is using this table", del_tbl.c:45), whatever is called.
DictsNeverDeleted ==
  [][\A t \in TblIds :
       InUse(flds, t) /\ tbls[t].name # NoName => tbls'[t].name # NoName]_vars

\* A verb that fails has deleted no field: "the old field is deleted after
\* the operation is performed" (q.tex:166).
FailureKeepsFields ==
  [][status' = -1 => \A i \in FldIds :
       Named(flds, i) => /\ flds'[i].name = flds[i].name
                         /\ flds'[i].tbl_id = flds[i].tbl_id]_vars

-----------------------------------------------------------------------------
(* The inductive invariant.  Beyond the properties it says that a slot     *)
(* without a name is out of use in every other respect, and that a field   *)
(* with a parent is exactly one with a name users do not use.              *)

Blanks(F) ==
  \A i \in FldIds : ~Named(F, i) =>
    /\ F[i].parent_id = NoId /\ F[i].nn_fld_id = NoId
    /\ F[i].dict_tbl_id = NoId /\ F[i].filename = NoName

Primaries(F) ==
  \A i \in FldIds : Named(F, i) /\ F[i].parent_id = NoId => F[i].name \in UserNames

Consistent(F, D, T) ==
  /\ F \in [FldIds -> FldRec]
  /\ D \in [Files -> Nat \cup {Absent}]
  /\ T \in [TblIds -> TblRec]
  /\ Blanks(F) /\ Primaries(F) /\ Links(F) /\ UniqueInTbl(F)
  /\ SoleOwners(F) /\ Fits(F, D, T) /\ Housed(F, T) /\ LiveDicts(F, T)
  /\ UniqueNames(T)

\* Together the properties are inductive: the verbs that are safe, such as
\* mk_nn_fld replacing old null flags, are safe because all of them hold.
CatalogInv == Consistent(flds, files, tbls) /\ status \in {0, -1}
=============================================================================
