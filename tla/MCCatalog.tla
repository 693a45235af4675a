----------------------------- MODULE MCCatalog -----------------------------
(***************************************************************************)
(* Small document roots for TLC.  Two table names and two field names,     *)
(* with the names of their null-flag fields; the aux name of an aux name   *)
(* is too long.  The hashes send f's null flags to slot 0, the slot that   *)
(* add_aux_fld takes for "no slot", and make g and its flags collide.      *)
(***************************************************************************)
EXTENDS CatalogUse, TLC

CONSTANTS F1, F2, F3, F4

TwoFiles   == {F1, F2}
ThreeFiles == {F1, F2, F3}
FourFiles  == {F1, F2, F3, F4}

TwoTbls == {"t", "u"}
OneFld  == {"f", "_nn_f"}
TwoFlds == {"f", "g", "_nn_f", "_nn_g"}

AuxName(S) ==
  [n \in S |-> CASE n = "f" -> "_nn_f" [] n = "g" -> "_nn_g" [] OTHER -> NoName]
OneFldNn  == AuxName(OneFld)
TwoFldsNn == AuxName(TwoFlds)

TblHash == [n \in TwoTbls |-> IF n = "t" THEN 0 ELSE 1]
FldHash(S) ==
  [n \in S |-> CASE n = "f" -> 1 [] n = "_nn_f" -> 0 [] OTHER -> 2]
OneFldHash  == FldHash(OneFld)
TwoFldsHash == FldHash(TwoFlds)

\* The ids users give to set_meta: no table, each slot, and one slot too far.
SlotIds == TblIds \cup {NoId}
AnyIds  == SlotIds \cup {NumTbl}

\* Users take names from sets and compare files only for equality.
FileSymmetry == Permutations(Files)
=============================================================================
