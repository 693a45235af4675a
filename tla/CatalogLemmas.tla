-------------------------- MODULE CatalogLemmas -----------------------------
(***************************************************************************)
(* Which elementary changes of the tables and of the data directory keep   *)
(* the catalog consistent, and what del_fld and del_tbl leave behind.      *)
(***************************************************************************)
EXTENDS CatalogUse, TLAPS

USE ZenonT(30)

-----------------------------------------------------------------------------
(* Changes that keep the tables consistent.  The verbs are made of these.  *)

\* A cleared slot is a field record.
LEMMA NullFldType == NullFld \in FldRec
BY DEF NullFld, FldRec

\* A name users give is the aux name of none, and an aux name is not one of
\* theirs: so a field with a parent does not have a user's name.
LEMMA AuxNotUser ==
  ASSUME NEW F, NEW D, NEW T, Consistent(F, D, T), NEW i \in FldIds
  PROVE  /\ F[i].parent_id # NoId => /\ F[i].parent_id \in FldIds
                                     /\ F[F[i].parent_id].nn_fld_id = i
                                     /\ F[F[i].parent_id].parent_id = NoId
                                     /\ Named(F, F[i].parent_id)
                                     /\ F[i].name \notin UserNames
                                     /\ F[i].nn_fld_id = NoId
         /\ F[i].nn_fld_id # NoId => /\ F[i].nn_fld_id \in FldIds
                                     /\ F[F[i].nn_fld_id].parent_id = i
                                     /\ F[F[i].nn_fld_id].nn_fld_id = NoId
                                     /\ F[i].nn_fld_id # i
                                     /\ Named(F, i) /\ Named(F, F[i].nn_fld_id)
<1>1. F \in [FldIds -> FldRec] /\ Blanks(F) /\ Links(F)
  BY DEF Consistent
<1>2. /\ F[i].name \in FldNames \cup {NoName}
      /\ F[i].parent_id \in FldIds \cup {NoId}
      /\ F[i].nn_fld_id \in FldIds \cup {NoId}
  BY <1>1 DEF FldRec
<1>3. ASSUME F[i].nn_fld_id # NoId
      PROVE  /\ F[i].nn_fld_id \in FldIds
             /\ F[F[i].nn_fld_id].parent_id = i
             /\ F[i].parent_id = NoId
             /\ F[F[i].nn_fld_id].nn_fld_id = NoId
             /\ F[i].nn_fld_id # i
             /\ Named(F, i) /\ Named(F, F[i].nn_fld_id)
  <2>1. F[i].nn_fld_id \in FldIds /\ i # NoId
    BY SMT, <1>2, <1>3, SlotAssumption DEF FldIds, NoId
  <2>2. F[F[i].nn_fld_id].parent_id = i /\ F[i].parent_id = NoId
    BY <1>1, <1>3 DEF Links
  <2>3. F[F[i].nn_fld_id].nn_fld_id = NoId
    BY <1>1, <2>1, <2>2 DEF Links
  <2>4. Named(F, i) /\ Named(F, F[i].nn_fld_id)
    BY <1>1, <1>3, <2>1, <2>2 DEF Blanks
  <2> QED BY <2>1, <2>2, <2>3, <2>4
<1>4. ASSUME F[i].parent_id # NoId
      PROVE  /\ F[i].parent_id \in FldIds
             /\ F[F[i].parent_id].nn_fld_id = i
             /\ F[F[i].parent_id].parent_id = NoId
             /\ Named(F, F[i].parent_id)
             /\ F[i].name \notin UserNames
             /\ F[i].nn_fld_id = NoId
  <2> DEFINE p == F[i].parent_id
  <2>1. p \in FldIds /\ i # NoId
    BY SMT, <1>2, <1>4, SlotAssumption DEF FldIds, NoId
  <2>2. F[p].nn_fld_id = i
    BY <1>1, <1>4 DEF Links
  <2>3. F[p].parent_id = NoId /\ F[i].name = NnName[F[p].name]
    BY <1>1, <2>1, <2>2 DEF Links
  <2>4. Named(F, p)
    BY <1>1, <2>1, <2>2 DEF Blanks
  <2>5. F[p].name \in FldNames
    BY <1>1, <2>1, <2>4 DEF Named, FldRec
  <2>6. F[i].name \notin UserNames
    BY <2>3, <2>5 DEF UserNames
  <2> QED BY <1>3, <1>4, <2>1, <2>2, <2>3, <2>4, <2>6
<1> QED BY <1>3, <1>4

\* Clearing a set of slots that no link leaves, when the files of the other
\* fields stay as they are.
LEMMA ZeroConsistent ==
  ASSUME NEW F, NEW D, NEW T, Consistent(F, D, T),
         NEW S \in SUBSET FldIds,
         \A i \in S : /\ F[i].nn_fld_id \in S \cup {NoId}
                      /\ F[i].parent_id \in S \cup {NoId},
         NEW E \in [Files -> Nat \cup {Absent}],
         \A i \in FldIds \ S : Named(F, i) => E[F[i].filename] = D[F[i].filename]
  PROVE  Consistent(Zero(F, S), E, T)
<1> DEFINE G == Zero(F, S)
<1>0. /\ F \in [FldIds -> FldRec] /\ T \in [TblIds -> TblRec]
      /\ Blanks(F) /\ Primaries(F) /\ Links(F) /\ UniqueInTbl(F)
      /\ SoleOwners(F) /\ Fits(F, D, T) /\ Housed(F, T) /\ LiveDicts(F, T)
      /\ UniqueNames(T)
  BY DEF Consistent
<1>1. G \in [FldIds -> FldRec]
  BY <1>0, NullFldType DEF Zero
<1>2. \A i \in FldIds : G[i] = IF i \in S THEN NullFld ELSE F[i]
  BY DEF Zero
<1>3. /\ NullFld.name = NoName /\ NullFld.parent_id = NoId
      /\ NullFld.nn_fld_id = NoId /\ NullFld.dict_tbl_id = NoId
      /\ NullFld.filename = NoName
  BY DEF NullFld
<1> HIDE DEF G
<1>4. Blanks(G) /\ Primaries(G)
  BY <1>0, <1>2, <1>3 DEF Blanks, Primaries, Named
<1>5. Links(G)
  <2> SUFFICES ASSUME NEW i \in FldIds
               PROVE  /\ G[i].nn_fld_id # NoId =>
                           /\ G[G[i].nn_fld_id].parent_id = i
                           /\ G[G[i].nn_fld_id].tbl_id = G[i].tbl_id
                           /\ G[G[i].nn_fld_id].name = NnName[G[i].name]
                           /\ G[G[i].nn_fld_id].fldtype = "I1"
                           /\ G[i].parent_id = NoId
                      /\ G[i].parent_id # NoId => G[G[i].parent_id].nn_fld_id = i
    BY DEF Links
  <2>1. ASSUME G[i].nn_fld_id # NoId
        PROVE  i \notin S /\ G[i] = F[i] /\ F[i].nn_fld_id \notin S
                 /\ G[F[i].nn_fld_id] = F[F[i].nn_fld_id]
    <3>1. i \notin S /\ G[i] = F[i]
      BY <1>2, <1>3, <2>1
    <3>2. F[i].nn_fld_id \in FldIds /\ F[F[i].nn_fld_id].parent_id = i
      BY SMT, <2>1, <3>1, AuxNotUser
    <3>3. i # NoId
      BY SMT, SlotAssumption DEF FldIds, NoId
    <3> QED BY <1>2, <3>1, <3>2, <3>3
  <2>2. ASSUME G[i].parent_id # NoId
        PROVE  i \notin S /\ G[i] = F[i] /\ F[i].parent_id \notin S
                 /\ G[F[i].parent_id] = F[F[i].parent_id]
    <3>1. i \notin S /\ G[i] = F[i]
      BY <1>2, <1>3, <2>2
    <3>2. F[i].parent_id \in FldIds /\ F[F[i].parent_id].nn_fld_id = i
      BY SMT, <2>2, <3>1, AuxNotUser
    <3>3. i # NoId
      BY SMT, SlotAssumption DEF FldIds, NoId
    <3> QED BY <1>2, <3>1, <3>2, <3>3
  <2> QED BY SMT, <1>0, <2>1, <2>2 DEF Links
<1>6. UniqueInTbl(G) /\ SoleOwners(G)
  BY SMT, <1>0, <1>2, <1>3 DEF UniqueInTbl, SoleOwners, Named
<1>7. Fits(G, E, T) /\ Housed(G, T) /\ LiveDicts(G, T)
  BY SMT, <1>0, <1>2, <1>3 DEF Fits, Housed, LiveDicts, Named
<1> QED BY <1>0, <1>1, <1>4, <1>5, <1>6, <1>7 DEF Consistent, G

\* Filling an unnamed slot with a new field r whose file no field owns.
LEMMA NewConsistent ==
  ASSUME NEW F, NEW D, NEW T, Consistent(F, D, T),
         NEW k \in FldIds, ~Named(F, k),
         NEW r \in FldRec,
         r.name \in UserNames, r.parent_id = NoId, r.nn_fld_id = NoId,
         r.tbl_id \in TblIds, T[r.tbl_id].name # NoName,
         r.dict_tbl_id = NoId \/ (r.dict_tbl_id \in TblIds /\ T[r.dict_tbl_id].name # NoName),
         r.filename \in Files, r.fldtype \in FldTypes,
         D[r.filename] = Width[r.fldtype] * T[r.tbl_id].nR, D[r.filename] > 0,
         \A i \in FldIds : Named(F, i) => F[i].filename # r.filename,
         \A i \in FldIds : ~(F[i].tbl_id = r.tbl_id /\ F[i].name = r.name)
  PROVE  Consistent([F EXCEPT ![k] = r], D, T)
<1> DEFINE G == [F EXCEPT ![k] = r]
<1>0. /\ F \in [FldIds -> FldRec] /\ T \in [TblIds -> TblRec]
      /\ D \in [Files -> Nat \cup {Absent}]
      /\ Blanks(F) /\ Primaries(F) /\ Links(F) /\ UniqueInTbl(F)
      /\ SoleOwners(F) /\ Fits(F, D, T) /\ Housed(F, T) /\ LiveDicts(F, T)
      /\ UniqueNames(T)
  BY DEF Consistent
<1>1. G \in [FldIds -> FldRec]
  BY <1>0
<1>2. \A i \in FldIds : G[i] = IF i = k THEN r ELSE F[i]
  BY <1>0
<1>3. r.name # NoName /\ r.tbl_id # NoId
  BY SMT, NameAssumption, SlotAssumption DEF UserNames, NoId, TblIds
<1> HIDE DEF G
<1>4. Blanks(G) /\ Primaries(G)
  BY <1>0, <1>2, <1>3 DEF Blanks, Primaries, Named
<1>5. Links(G)
  <2>1. \A i \in FldIds : F[i].nn_fld_id # k /\ F[i].parent_id # k
    <3> SUFFICES ASSUME NEW i \in FldIds PROVE F[i].nn_fld_id # k /\ F[i].parent_id # k
      OBVIOUS
    <3>1. k # NoId
      BY SMT, SlotAssumption DEF FldIds, NoId
    <3> QED BY SMT, <3>1, AuxNotUser
  <2>2. \A i \in FldIds : /\ F[i].nn_fld_id # NoId => G[F[i].nn_fld_id] = F[F[i].nn_fld_id]
                          /\ F[i].parent_id # NoId => G[F[i].parent_id] = F[F[i].parent_id]
    BY <1>2, <2>1, AuxNotUser
  <2>3. ASSUME NEW i \in FldIds, i # k, F[i].nn_fld_id # NoId
        PROVE  /\ F[F[i].nn_fld_id].parent_id = i
               /\ F[F[i].nn_fld_id].tbl_id = F[i].tbl_id
               /\ F[F[i].nn_fld_id].name = NnName[F[i].name]
               /\ F[F[i].nn_fld_id].fldtype = "I1"
               /\ F[i].parent_id = NoId
    BY <1>0, <2>3 DEF Links
  <2>4. ASSUME NEW i \in FldIds, i # k, F[i].parent_id # NoId
        PROVE  F[F[i].parent_id].nn_fld_id = i
    BY <1>0, <2>4 DEF Links
  <2> QED BY SMT, <1>2, <2>2, <2>3, <2>4 DEF Links
<1>6. UniqueInTbl(G) /\ SoleOwners(G)
  BY SMT, <1>0, <1>2, <1>3 DEF UniqueInTbl, SoleOwners, Named
<1>7. Fits(G, D, T) /\ Housed(G, T) /\ LiveDicts(G, T)
  BY <1>0, <1>2, <1>3 DEF Fits, Housed, LiveDicts, Named
<1> QED BY <1>0, <1>1, <1>4, <1>5, <1>6, <1>7 DEF Consistent, G

\* Storing a record without a name in an unnamed slot.
LEMMA BlankConsistent ==
  ASSUME NEW F, NEW D, NEW T, Consistent(F, D, T),
         NEW k \in FldIds, ~Named(F, k),
         NEW r \in FldRec,
         r.name = NoName, r.parent_id = NoId, r.nn_fld_id = NoId,
         r.dict_tbl_id = NoId, r.filename = NoName
  PROVE  Consistent([F EXCEPT ![k] = r], D, T)
<1> DEFINE G == [F EXCEPT ![k] = r]
<1>0. /\ F \in [FldIds -> FldRec] /\ T \in [TblIds -> TblRec]
      /\ D \in [Files -> Nat \cup {Absent}]
      /\ Blanks(F) /\ Primaries(F) /\ Links(F) /\ UniqueInTbl(F)
      /\ SoleOwners(F) /\ Fits(F, D, T) /\ Housed(F, T) /\ LiveDicts(F, T)
      /\ UniqueNames(T)
  BY DEF Consistent
<1>1. G \in [FldIds -> FldRec]
  BY <1>0
<1>2. \A i \in FldIds : G[i] = IF i = k THEN r ELSE F[i]
  BY <1>0
<1> HIDE DEF G
<1>4. Blanks(G) /\ Primaries(G)
  BY <1>0, <1>2 DEF Blanks, Primaries, Named
<1>5. Links(G)
  <2>1. \A i \in FldIds : F[i].nn_fld_id # k /\ F[i].parent_id # k
    <3> SUFFICES ASSUME NEW i \in FldIds PROVE F[i].nn_fld_id # k /\ F[i].parent_id # k
      OBVIOUS
    <3>1. k # NoId
      BY SMT, SlotAssumption DEF FldIds, NoId
    <3> QED BY SMT, <3>1, AuxNotUser
  <2>2. \A i \in FldIds : /\ F[i].nn_fld_id # NoId => G[F[i].nn_fld_id] = F[F[i].nn_fld_id]
                          /\ F[i].parent_id # NoId => G[F[i].parent_id] = F[F[i].parent_id]
    BY <1>2, <2>1, AuxNotUser
  <2>3. ASSUME NEW i \in FldIds, i # k, F[i].nn_fld_id # NoId
        PROVE  /\ F[F[i].nn_fld_id].parent_id = i
               /\ F[F[i].nn_fld_id].tbl_id = F[i].tbl_id
               /\ F[F[i].nn_fld_id].name = NnName[F[i].name]
               /\ F[F[i].nn_fld_id].fldtype = "I1"
               /\ F[i].parent_id = NoId
    BY <1>0, <2>3 DEF Links
  <2>4. ASSUME NEW i \in FldIds, i # k, F[i].parent_id # NoId
        PROVE  F[F[i].parent_id].nn_fld_id = i
    BY <1>0, <2>4 DEF Links
  <2> QED BY SMT, <1>2, <2>2, <2>3, <2>4 DEF Links
<1>6. UniqueInTbl(G) /\ SoleOwners(G)
  BY SMT, <1>0, <1>2 DEF UniqueInTbl, SoleOwners, Named
<1>7. Fits(G, D, T) /\ Housed(G, T) /\ LiveDicts(G, T)
  BY <1>0, <1>2 DEF Fits, Housed, LiveDicts, Named
<1> QED BY <1>0, <1>1, <1>4, <1>5, <1>6, <1>7 DEF Consistent, G

\* Giving a file that did not exist a length: no field owned it.
LEMMA FileConsistent ==
  ASSUME NEW F, NEW D, NEW T, Consistent(F, D, T),
         NEW f \in Files, D[f] = Absent, NEW len \in Nat
  PROVE  /\ Consistent(F, [D EXCEPT ![f] = len], T)
         /\ \A i \in FldIds : Named(F, i) => F[i].filename # f
<1>1. D \in [Files -> Nat \cup {Absent}] /\ Fits(F, D, T)
  BY DEF Consistent
<1>2. \A i \in FldIds : Named(F, i) => F[i].filename # f
  BY SMT, <1>1 DEF Fits, Absent
<1>3. [D EXCEPT ![f] = len] \in [Files -> Nat \cup {Absent}]
  BY <1>1
<1>4. Fits(F, [D EXCEPT ![f] = len], T)
  BY <1>1, <1>2 DEF Fits
<1> QED BY <1>2, <1>3, <1>4 DEF Consistent

\* add_aux_fld: the null flags of p, which has none, are put in slot k.
LEMMA AuxConsistent ==
  ASSUME NEW F, NEW D, NEW T, Consistent(F, D, T),
         NEW k \in FldIds, ~Named(F, k),
         NEW p \in FldIds, Named(F, p), F[p].parent_id = NoId, F[p].nn_fld_id = NoId,
         NnName[F[p].name] # NoName,
         NEW f \in Files, D[f] = T[F[p].tbl_id].nR, D[f] > 0,
         \A i \in FldIds : Named(F, i) => F[i].filename # f
  PROVE  Consistent([[F EXCEPT ![k] = NnFld(F[p].tbl_id, p, F[p].name, f)]
                       EXCEPT ![p].nn_fld_id = k], D, T)
<1> DEFINE r == NnFld(F[p].tbl_id, p, F[p].name, f)
           G == [[F EXCEPT ![k] = r] EXCEPT ![p].nn_fld_id = k]
           q == [F[p] EXCEPT !.nn_fld_id = k]
<1>0. /\ F \in [FldIds -> FldRec] /\ T \in [TblIds -> TblRec]
      /\ D \in [Files -> Nat \cup {Absent}]
      /\ Blanks(F) /\ Primaries(F) /\ Links(F) /\ UniqueInTbl(F)
      /\ SoleOwners(F) /\ Fits(F, D, T) /\ Housed(F, T) /\ LiveDicts(F, T)
      /\ UniqueNames(T)
  BY DEF Consistent
<1>1. /\ k # p /\ k # NoId /\ p # NoId
      /\ F[p] \in FldRec /\ F[p].name \in FldNames /\ F[p].tbl_id \in TblIds
  BY SMT, <1>0, SlotAssumption DEF Named, FldIds, NoId, FldRec, Housed
<1>2. NnName[F[p].name] \in FldNames
  BY <1>1, NameAssumption
<1>3. /\ r \in FldRec /\ r.name = NnName[F[p].name] /\ r.tbl_id = F[p].tbl_id
      /\ r.parent_id = p /\ r.nn_fld_id = NoId /\ r.dict_tbl_id = NoId
      /\ r.fldtype = "I1" /\ r.filename = f
  BY <1>1, <1>2, TypeAssumption DEF NnFld, NewFld, NullFld, FldRec
<1>4. /\ q \in FldRec /\ q.name = F[p].name /\ q.tbl_id = F[p].tbl_id
      /\ q.parent_id = NoId /\ q.nn_fld_id = k /\ q.dict_tbl_id = F[p].dict_tbl_id
      /\ q.fldtype = F[p].fldtype /\ q.filename = F[p].filename
  BY <1>1 DEF FldRec
<1>5. G \in [FldIds -> FldRec]
  BY <1>0, <1>1, <1>3, <1>4
<1>6. \A i \in FldIds : G[i] = IF i = k THEN r ELSE IF i = p THEN q ELSE F[i]
  BY <1>0, <1>1
<1> HIDE DEF G, r, q
<1>7. Blanks(G) /\ Primaries(G)
  BY SMT, <1>0, <1>1, <1>3, <1>4, <1>6 DEF Blanks, Primaries, Named
<1>8. \A i \in FldIds : F[i].nn_fld_id # k /\ F[i].parent_id # k /\ F[i].parent_id # p
  <2> SUFFICES ASSUME NEW i \in FldIds
               PROVE F[i].nn_fld_id # k /\ F[i].parent_id # k /\ F[i].parent_id # p
    OBVIOUS
  <2>1. i # NoId
    BY SMT, SlotAssumption DEF FldIds, NoId
  <2> QED BY SMT, <1>1, <2>1, AuxNotUser
<1>9. \A i \in FldIds : F[i].nn_fld_id # p
  BY SMT, <1>0, <1>1, SlotAssumption DEF Links, FldIds, NoId
<1>10. Links(G)
  <2>1. \A i \in FldIds : /\ F[i].nn_fld_id # NoId => G[F[i].nn_fld_id] = F[F[i].nn_fld_id]
                          /\ F[i].parent_id # NoId => G[F[i].parent_id] = F[F[i].parent_id]
    BY <1>6, <1>8, <1>9, AuxNotUser
  <2>2. ASSUME NEW i \in FldIds, i # k, F[i].nn_fld_id # NoId
        PROVE  /\ F[F[i].nn_fld_id].parent_id = i
               /\ F[F[i].nn_fld_id].tbl_id = F[i].tbl_id
               /\ F[F[i].nn_fld_id].name = NnName[F[i].name]
               /\ F[F[i].nn_fld_id].fldtype = "I1"
               /\ F[i].parent_id = NoId
    BY <1>0, <2>2 DEF Links
  <2>3. ASSUME NEW i \in FldIds, i # k, F[i].parent_id # NoId
        PROVE  F[F[i].parent_id].nn_fld_id = i
    BY <1>0, <2>3 DEF Links
  <2>4. G[k] = r /\ G[p] = q
    BY <1>1, <1>6
  <2> QED BY SMT, <1>1, <1>3, <1>4, <1>6, <2>1, <2>2, <2>3, <2>4 DEF Links
<1>11. UniqueInTbl(G)
  <2>1. ASSUME NEW i \in FldIds, F[i].name = NnName[F[p].name], F[i].tbl_id = F[p].tbl_id
        PROVE  FALSE
    <3> DEFINE m == F[i].parent_id
    <3>1. Named(F, i) /\ F[i].name \notin UserNames
      BY <1>1, <1>2, <2>1, NameAssumption DEF Named, UserNames
    <3>2. m # NoId
      BY <1>0, <3>1 DEF Primaries
    <3>3. m \in FldIds /\ F[m].nn_fld_id = i /\ Named(F, m)
      BY <3>2, AuxNotUser
    <3>4. i # NoId
      BY SMT, SlotAssumption DEF FldIds, NoId
    <3>5. F[m].tbl_id = F[i].tbl_id /\ F[i].name = NnName[F[m].name]
      BY SMT, <1>0, <3>3, <3>4 DEF Links
    <3>6. F[m].name \in FldNames
      BY <1>0, <3>3 DEF Named, FldRec
    <3>7. F[m].name = F[p].name
      BY <1>1, <1>2, <2>1, <3>5, <3>6, NameAssumption
    <3>8. m = p
      BY <1>0, <2>1, <3>3, <3>5, <3>7 DEF UniqueInTbl
    <3> QED BY <3>3, <3>4, <3>8
  <2>2. NnName[F[p].name] # F[p].name
    BY <2>1
  <2> QED BY SMT, <1>0, <1>3, <1>4, <1>6, <2>1, <2>2 DEF UniqueInTbl, Named
<1>12. SoleOwners(G)
  BY SMT, <1>0, <1>3, <1>4, <1>6 DEF SoleOwners, Named
<1>13. Fits(G, D, T)
  <2>1. /\ r.fldtype \in FldTypes /\ Width["I1"] = 1
        /\ D[f] = Width["I1"] * T[r.tbl_id].nR
    BY SMT, <1>0, <1>1, <1>3, TypeAssumption DEF Width, TblRec
  <2> QED BY SMT, <1>0, <1>1, <1>3, <1>4, <1>6, <2>1 DEF Fits, Named
<1>14. Housed(G, T) /\ LiveDicts(G, T)
  BY SMT, <1>0, <1>1, <1>3, <1>4, <1>6 DEF Housed, LiveDicts, Named
<1> QED BY <1>0, <1>5, <1>7, <1>10, <1>11, <1>12, <1>13, <1>14 DEF Consistent, G, r

\* drop_nn_fld: the null flags of i, in slot k, are cleared and i forgets them.
LEMMA DropConsistent ==
  ASSUME NEW F, NEW D, NEW T, Consistent(F, D, T),
         NEW i \in FldIds, NEW k \in FldIds, F[i].nn_fld_id = k,
         NEW E \in [Files -> Nat \cup {Absent}],
         \A j \in FldIds \ {k} : Named(F, j) => E[F[j].filename] = D[F[j].filename]
  PROVE  Consistent(Zero([F EXCEPT ![i].nn_fld_id = NoId], {k}), E, T)
<1> DEFINE q == [F[i] EXCEPT !.nn_fld_id = NoId]
           G == Zero([F EXCEPT ![i].nn_fld_id = NoId], {k})
<1>0. /\ F \in [FldIds -> FldRec] /\ T \in [TblIds -> TblRec]
      /\ D \in [Files -> Nat \cup {Absent}]
      /\ Blanks(F) /\ Primaries(F) /\ Links(F) /\ UniqueInTbl(F)
      /\ SoleOwners(F) /\ Fits(F, D, T) /\ Housed(F, T) /\ LiveDicts(F, T)
      /\ UniqueNames(T)
  BY DEF Consistent
<1>1. /\ k # NoId /\ i # NoId
  BY SMT, SlotAssumption DEF FldIds, NoId
<1>2. /\ k # i /\ F[k].parent_id = i /\ F[k].nn_fld_id = NoId
      /\ F[i].parent_id = NoId /\ Named(F, i)
  BY SMT, <1>0, <1>1, AuxNotUser DEF Links
<1>3. /\ q \in FldRec /\ q.name = F[i].name /\ q.tbl_id = F[i].tbl_id
      /\ q.parent_id = NoId /\ q.nn_fld_id = NoId /\ q.dict_tbl_id = F[i].dict_tbl_id
      /\ q.fldtype = F[i].fldtype /\ q.filename = F[i].filename
  BY SMT, <1>0, <1>2 DEF FldRec
<1>4. \A j \in FldIds : G[j] = IF j = k THEN NullFld ELSE IF j = i THEN q ELSE F[j]
  BY <1>0 DEF Zero
<1>5. G \in [FldIds -> FldRec]
  BY <1>0, <1>3, NullFldType DEF Zero
<1>6. /\ NullFld.name = NoName /\ NullFld.parent_id = NoId
      /\ NullFld.nn_fld_id = NoId /\ NullFld.dict_tbl_id = NoId
      /\ NullFld.filename = NoName
  BY DEF NullFld
<1> HIDE DEF G, q
<1>7. Blanks(G) /\ Primaries(G)
  BY SMT, <1>0, <1>2, <1>3, <1>4, <1>6 DEF Blanks, Primaries, Named
<1>8. Links(G)
  <2>1. \A j \in FldIds : j # i => F[j].nn_fld_id # k
    BY SMT, <1>1, <1>2, AuxNotUser
  <2>2. \A j \in FldIds : j # k => F[j].parent_id # i
    BY SMT, <1>1, AuxNotUser
  <2>3. \A j \in FldIds : F[j].nn_fld_id # i /\ F[j].parent_id # k
    BY SMT, <1>1, <1>2, AuxNotUser
  <2>4. ASSUME NEW j \in FldIds, j # i, j # k
        PROVE  /\ F[j].nn_fld_id # NoId => G[F[j].nn_fld_id] = F[F[j].nn_fld_id]
               /\ F[j].parent_id # NoId => G[F[j].parent_id] = F[F[j].parent_id]
    BY <1>4, <2>1, <2>2, <2>3, <2>4, AuxNotUser
  <2>5. ASSUME NEW j \in FldIds, j # k, F[j].nn_fld_id # NoId
        PROVE  /\ F[F[j].nn_fld_id].parent_id = j
               /\ F[F[j].nn_fld_id].tbl_id = F[j].tbl_id
               /\ F[F[j].nn_fld_id].name = NnName[F[j].name]
               /\ F[F[j].nn_fld_id].fldtype = "I1"
               /\ F[j].parent_id = NoId
    BY <1>0, <2>5 DEF Links
  <2>6. ASSUME NEW j \in FldIds, j # k, F[j].parent_id # NoId
        PROVE  F[F[j].parent_id].nn_fld_id = j
    BY <1>0, <2>6 DEF Links
  <2> QED BY SMT, <1>3, <1>4, <1>6, <2>4, <2>5, <2>6 DEF Links
<1>9. UniqueInTbl(G) /\ SoleOwners(G)
  BY SMT, <1>0, <1>3, <1>4, <1>6 DEF UniqueInTbl, SoleOwners, Named
<1>10. Fits(G, E, T)
  BY SMT, <1>0, <1>3, <1>4, <1>6 DEF Fits, Named
<1>11. Housed(G, T) /\ LiveDicts(G, T)
  BY SMT, <1>0, <1>3, <1>4, <1>6 DEF Housed, LiveDicts, Named
<1> QED BY <1>0, <1>5, <1>7, <1>8, <1>9, <1>10, <1>11 DEF Consistent, G

\* rename_fld: a primary field i gets a name that no field of its table has,
\* and its null flags, if any, the name made from it.
Renamed(F, i, new) ==
  [j \in FldIds |-> IF j = i THEN [F[i] EXCEPT !.name = new]
                   ELSE IF j = F[i].nn_fld_id THEN [F[j] EXCEPT !.name = NnName[new]]
                   ELSE F[j]]

\* rename_fld to a name that is free in the table, flags renamed along,
\* keeps the catalog consistent.
LEMMA RenameConsistent ==
  ASSUME NEW F, NEW D, NEW T, Consistent(F, D, T),
         NEW i \in FldIds, Named(F, i), F[i].parent_id = NoId,
         NEW new \in UserNames,
         \A j \in FldIds : ~(F[j].tbl_id = F[i].tbl_id /\ F[j].name = new),
         F[i].nn_fld_id # NoId => NnName[new] # NoName
  PROVE  Consistent(Renamed(F, i, new), D, T)
<1> DEFINE G == Renamed(F, i, new)
           k == F[i].nn_fld_id
           q == [F[i] EXCEPT !.name = new]
           b == [F[k] EXCEPT !.name = NnName[new]]
<1>0. /\ F \in [FldIds -> FldRec] /\ T \in [TblIds -> TblRec]
      /\ D \in [Files -> Nat \cup {Absent}]
      /\ Blanks(F) /\ Primaries(F) /\ Links(F) /\ UniqueInTbl(F)
      /\ SoleOwners(F) /\ Fits(F, D, T) /\ Housed(F, T) /\ LiveDicts(F, T)
      /\ UniqueNames(T)
  BY DEF Consistent
<1>1. /\ new \in FldNames /\ new # NoName /\ i # NoId
      /\ NnName[new] \in FldNames \cup {NoName} /\ NnName[new] \notin UserNames
  BY SMT, NameAssumption, SlotAssumption DEF UserNames, FldIds, NoId
<1>2. k # NoId => /\ k \in FldIds /\ k # i
                  /\ F[k].parent_id = i /\ F[k].nn_fld_id = NoId /\ Named(F, k)
                  /\ F[k].tbl_id = F[i].tbl_id
  BY SMT, <1>0, AuxNotUser DEF Links
<1>3. /\ q.name = new /\ q.tbl_id = F[i].tbl_id
      /\ q.parent_id = NoId /\ q.nn_fld_id = k /\ q.dict_tbl_id = F[i].dict_tbl_id
      /\ q.fldtype = F[i].fldtype /\ q.filename = F[i].filename
  BY SMT, <1>0 DEF FldRec
<1>4. k # NoId =>
      /\ b.name = NnName[new] /\ b.tbl_id = F[i].tbl_id
      /\ b.parent_id = i /\ b.nn_fld_id = NoId /\ b.dict_tbl_id = F[k].dict_tbl_id
      /\ b.fldtype = F[k].fldtype /\ b.filename = F[k].filename
  BY SMT, <1>0, <1>2 DEF FldRec
<1>5. /\ G \in [FldIds -> FldRec]
      /\ \A j \in FldIds : G[j] = IF j = i THEN q ELSE IF j = k THEN b ELSE F[j]
  <2>1. \A j \in FldIds : G[j] = IF j = i THEN q ELSE IF j = k THEN b ELSE F[j]
    BY DEF Renamed
  <2>2. q \in FldRec /\ \A j \in FldIds : [F[j] EXCEPT !.name = NnName[new]] \in FldRec
    BY SMT, <1>0, <1>1 DEF FldRec
  <2>3. \A j \in FldIds : F[j] \in FldRec
    BY <1>0
  <2>4. G = [j \in FldIds |-> G[j]]
    BY DEF Renamed
  <2>5. \A j \in FldIds : G[j] \in FldRec
    BY SMT, <2>1, <2>2, <2>3
  <2> HIDE DEF G
  <2> QED BY <2>1, <2>4, <2>5
<1>6. \A j \in FldIds : j # NoId
  BY SMT, SlotAssumption DEF FldIds, NoId
<1> HIDE DEF q, b, k, G
<1>13. k # NoId => NnName[new] # NoName
  BY DEF k
<1>7. Blanks(G) /\ Primaries(G)
  BY SMT, <1>0, <1>1, <1>2, <1>3, <1>4, <1>5, <1>6, <1>13 DEF Blanks, Primaries, Named
<1>8. Links(G)
  <2>1. \A j \in FldIds : j # i => F[j].nn_fld_id # k \/ k = NoId
    BY SMT, <1>2, <1>6, AuxNotUser
  <2>2. \A j \in FldIds : j # k => F[j].parent_id # i
    BY SMT, <1>6, AuxNotUser DEF k
  <2>3. \A j \in FldIds : F[j].nn_fld_id # i /\ (k # NoId => F[j].parent_id # k)
    BY SMT, <1>0, <1>1, <1>2, <1>6, AuxNotUser
  <2>4. ASSUME NEW j \in FldIds, j # i, j # k
        PROVE  /\ F[j].nn_fld_id # NoId => G[F[j].nn_fld_id] = F[F[j].nn_fld_id]
               /\ F[j].parent_id # NoId => G[F[j].parent_id] = F[F[j].parent_id]
    BY <1>5, <2>1, <2>2, <2>3, <2>4, AuxNotUser
  <2>5. ASSUME NEW j \in FldIds, F[j].nn_fld_id # NoId
        PROVE  /\ F[F[j].nn_fld_id].parent_id = j
               /\ F[F[j].nn_fld_id].tbl_id = F[j].tbl_id
               /\ F[F[j].nn_fld_id].name = NnName[F[j].name]
               /\ F[F[j].nn_fld_id].fldtype = "I1"
               /\ F[j].parent_id = NoId
    BY <1>0, <2>5 DEF Links
  <2>6. ASSUME NEW j \in FldIds, F[j].parent_id # NoId
        PROVE  F[F[j].parent_id].nn_fld_id = j
    BY <1>0, <2>6 DEF Links
  <2>7. G[i] = q /\ (k # NoId => G[k] = b)
    BY <1>2, <1>5
  <2> QED BY SMT, <1>2, <1>3, <1>4, <1>5, <1>6, <2>4, <2>5, <2>6, <2>7 DEF Links
<1>9. UniqueInTbl(G)
  <2>1. ASSUME NEW j \in FldIds, j # k, F[j].name = NnName[new], F[j].tbl_id = F[i].tbl_id,
               k # NoId
        PROVE  FALSE
    <3> DEFINE m == F[j].parent_id
    <3>1. Named(F, j) /\ F[j].name \notin UserNames
      BY <1>1, <1>13, <2>1 DEF Named
    <3>2. m # NoId
      BY <1>0, <3>1 DEF Primaries
    <3>3. m \in FldIds /\ F[m].nn_fld_id = j /\ Named(F, m)
      BY <3>2, AuxNotUser
    <3>4. F[m].tbl_id = F[j].tbl_id /\ F[j].name = NnName[F[m].name]
      BY SMT, <1>0, <1>6, <3>3 DEF Links
    <3>5. F[m].name \in FldNames
      BY <1>0, <3>3 DEF Named, FldRec
    <3>6. F[m].name = new
      BY <1>1, <1>13, <2>1, <3>4, <3>5, NameAssumption
    <3> QED BY <2>1, <3>3, <3>4, <3>6
  <2>2. new # NnName[new]
    BY <1>1
  <2>3. \A j \in FldIds : ~(F[j].tbl_id = F[i].tbl_id /\ F[j].name = new)
    OBVIOUS
  <2> QED BY SMT, <1>0, <1>3, <1>4, <1>5, <1>6, <2>1, <2>2, <2>3 DEF UniqueInTbl, Named
<1>10. SoleOwners(G)
  BY SMT, <1>0, <1>2, <1>3, <1>4, <1>5, <1>6 DEF SoleOwners, Named
<1>11. Fits(G, D, T)
  BY SMT, <1>0, <1>2, <1>3, <1>4, <1>5, <1>6 DEF Fits, Named
<1>12. Housed(G, T) /\ LiveDicts(G, T)
  BY SMT, <1>0, <1>2, <1>3, <1>4, <1>5, <1>6 DEF Housed, LiveDicts, Named
<1> QED BY <1>0, <1>5, <1>7, <1>8, <1>9, <1>10, <1>11, <1>12 DEF Consistent, G

\* set_meta of dict_tbl_id, given no table or an existing one.
LEMMA DictConsistent ==
  ASSUME NEW F, NEW D, NEW T, Consistent(F, D, T),
         NEW i \in FldIds, Named(F, i),
         NEW d \in TblIds \cup {NoId}, d # NoId => T[d].name # NoName
  PROVE  Consistent([F EXCEPT ![i].dict_tbl_id = d], D, T)
<1> DEFINE G == [F EXCEPT ![i].dict_tbl_id = d]
           q == [F[i] EXCEPT !.dict_tbl_id = d]
<1>0. /\ F \in [FldIds -> FldRec] /\ T \in [TblIds -> TblRec]
      /\ D \in [Files -> Nat \cup {Absent}]
      /\ Blanks(F) /\ Primaries(F) /\ Links(F) /\ UniqueInTbl(F)
      /\ SoleOwners(F) /\ Fits(F, D, T) /\ Housed(F, T) /\ LiveDicts(F, T)
      /\ UniqueNames(T)
  BY DEF Consistent
<1>1. /\ q \in FldRec /\ q.name = F[i].name /\ q.tbl_id = F[i].tbl_id
      /\ q.parent_id = F[i].parent_id /\ q.nn_fld_id = F[i].nn_fld_id
      /\ q.dict_tbl_id = d
      /\ q.fldtype = F[i].fldtype /\ q.filename = F[i].filename
  BY SMT, <1>0 DEF FldRec
<1>2. G \in [FldIds -> FldRec]
  BY <1>0, <1>1
<1>3. \A j \in FldIds : G[j] = IF j = i THEN q ELSE F[j]
  BY <1>0
<1> HIDE DEF G, q
<1>4. \A j \in FldIds :
        /\ G[j].name = F[j].name /\ G[j].tbl_id = F[j].tbl_id
        /\ G[j].parent_id = F[j].parent_id /\ G[j].nn_fld_id = F[j].nn_fld_id
        /\ G[j].fldtype = F[j].fldtype /\ G[j].filename = F[j].filename
  BY <1>1, <1>3
<1>5. Blanks(G) /\ Primaries(G)
  BY SMT, <1>0, <1>3, <1>4 DEF Blanks, Primaries, Named
<1>6. Links(G)
  BY SMT, <1>0, <1>4, AuxNotUser DEF Links
<1>7. UniqueInTbl(G) /\ SoleOwners(G) /\ Fits(G, D, T) /\ Housed(G, T)
  BY SMT, <1>0, <1>4 DEF UniqueInTbl, SoleOwners, Fits, Housed, Named
<1>8. LiveDicts(G, T)
  BY <1>0, <1>1, <1>3 DEF LiveDicts
<1> QED BY <1>0, <1>2, <1>5, <1>6, <1>7, <1>8 DEF Consistent, G

\* Changing the table of tables where no field and no dictionary is touched.
LEMMA TblConsistent ==
  ASSUME NEW F, NEW D, NEW T, Consistent(F, D, T),
         NEW U \in [TblIds -> TblRec], UniqueNames(U),
         \A i \in FldIds : Named(F, i) => /\ U[F[i].tbl_id].name # NoName
                                          /\ U[F[i].tbl_id].nR = T[F[i].tbl_id].nR,
         \A i \in FldIds : F[i].dict_tbl_id # NoId => U[F[i].dict_tbl_id].name # NoName
  PROVE  Consistent(F, D, U)
<1>0. /\ F \in [FldIds -> FldRec] /\ T \in [TblIds -> TblRec]
      /\ D \in [Files -> Nat \cup {Absent}]
      /\ Blanks(F) /\ Primaries(F) /\ Links(F) /\ UniqueInTbl(F)
      /\ SoleOwners(F) /\ Fits(F, D, T) /\ Housed(F, T) /\ LiveDicts(F, T)
      /\ UniqueNames(T)
  BY DEF Consistent
<1>1. Housed(F, U) /\ LiveDicts(F, U)
  BY <1>0 DEF Housed, LiveDicts
<1>2. Fits(F, D, U)
  BY <1>0 DEF Fits
<1> QED BY <1>0, <1>1, <1>2 DEF Consistent

-----------------------------------------------------------------------------
(* Deleting fields and tables.                                             *)

\* del_fld of a field that is not an auxiliary one.
LEMMA DelFldConsistent ==
  ASSUME NEW s, NEW T, Consistent(s.flds, s.files, T),
         NEW i \in FldIds, Named(s.flds, i), s.flds[i].parent_id = NoId
  PROVE  /\ Consistent(del_fld(s, i).flds, del_fld(s, i).files, T)
         /\ i \in Doomed(s.flds, i) /\ Doomed(s.flds, i) \in SUBSET FldIds
         /\ \A j \in Doomed(s.flds, i) : Named(s.flds, j)
         /\ \A j \in FldIds : del_fld(s, i).flds[j] =
                                IF j \in Doomed(s.flds, i) THEN NullFld ELSE s.flds[j]
         /\ \A j \in FldIds : j \notin Doomed(s.flds, i) /\ Named(s.flds, j) =>
                                del_fld(s, i).files[s.flds[j].filename]
                                  = s.files[s.flds[j].filename]
         /\ \A f \in Files : \/ del_fld(s, i).files[f] = s.files[f]
                             \/ \E j \in Doomed(s.flds, i) : s.flds[j].filename = f
<1> DEFINE F == s.flds
           S == Doomed(F, i)
           E == Unlink(s.files, {F[j].filename : j \in S})
<1>1. /\ F \in [FldIds -> FldRec] /\ s.files \in [Files -> Nat \cup {Absent}]
      /\ SoleOwners(F) /\ Fits(F, s.files, T) /\ Links(F) /\ Blanks(F)
  BY DEF Consistent
<1>2. F[i].nn_fld_id # NoId =>
        /\ F[i].nn_fld_id \in FldIds /\ F[F[i].nn_fld_id].parent_id = i
        /\ F[F[i].nn_fld_id].nn_fld_id = NoId /\ Named(F, F[i].nn_fld_id)
  BY AuxNotUser
<1>3. S \in SUBSET FldIds /\ i \in S
  BY <1>2 DEF Doomed
<1>4. \A j \in S : Named(F, j)
  BY <1>2 DEF Doomed
<1>5. \A j \in S : F[j].nn_fld_id \in S \cup {NoId} /\ F[j].parent_id \in S \cup {NoId}
  BY <1>2 DEF Doomed
<1>6. E \in [Files -> Nat \cup {Absent}]
  BY <1>1 DEF Unlink, Absent
<1>7. \A j \in FldIds \ S : Named(F, j) => E[F[j].filename] = s.files[F[j].filename]
  BY <1>1, <1>3, <1>4 DEF SoleOwners, Fits, Unlink
<1>8. del_fld(s, i).flds = Zero(F, S) /\ del_fld(s, i).files = E
  BY DEF del_fld
<1>9. \A f \in Files : E[f] = s.files[f] \/ \E j \in S : F[j].filename = f
  BY DEF Unlink
<1>10. \A j \in FldIds : Zero(F, S)[j] = IF j \in S THEN NullFld ELSE F[j]
  BY DEF Zero
<1> HIDE DEF S, E
<1>11. Consistent(Zero(F, S), E, T)
  BY <1>3, <1>5, <1>6, <1>7, ZeroConsistent
<1> QED BY <1>3, <1>4, <1>7, <1>8, <1>9, <1>10, <1>11 DEF S

\* In consistent tables the loop of del_tbl deletes every field of the table
\* that has no parent, since clearing one of them clears no other.
LEMMA LoopDeletesPrimaries ==
  ASSUME NEW F, NEW D, NEW T, Consistent(F, D, T), NEW t
  PROVE  LoopDeletes(F, t) = {i \in FldIds : F[i].tbl_id = t /\ F[i].parent_id = NoId}
<1> DEFINE A(S) == \A i \in FldIds :
             i \in S <=> /\ F[i].tbl_id = t
                         /\ F[i].parent_id = NoId
                         /\ ~ \E j \in S : j < i /\ F[j].nn_fld_id = i
           P == {i \in FldIds : F[i].tbl_id = t /\ F[i].parent_id = NoId}
<1>1. ASSUME NEW i \in FldIds, NEW j \in FldIds, F[j].nn_fld_id = i
      PROVE  F[i].parent_id # NoId
  <2>1. i # NoId /\ j # NoId
    BY SMT, SlotAssumption DEF FldIds, NoId
  <2> QED BY <1>1, <2>1, AuxNotUser
<1>2. A(P) /\ P \in SUBSET FldIds
  BY <1>1
<1>3. LoopDeletes(F, t) = CHOOSE S \in SUBSET FldIds : A(S)
  BY DEF LoopDeletes
<1>4. LoopDeletes(F, t) \in SUBSET FldIds /\ A(LoopDeletes(F, t))
  <2> HIDE DEF A, P
  <2> QED BY <1>2, <1>3
<1>5. ASSUME NEW S \in SUBSET FldIds, A(S) PROVE S = P
  BY SMT, <1>1, <1>5
<1> QED BY <1>4, <1>5

\* del_tbl leaves no field in the table and touches no field elsewhere.
LEMMA DelTblConsistent ==
  ASSUME NEW s, NEW T, Consistent(s.flds, s.files, T), NEW t \in TblIds
  PROVE  /\ Consistent(del_tbl(s, t).flds, del_tbl(s, t).files, T)
         /\ \A i \in FldIds : Named(del_tbl(s, t).flds, i) =>
              del_tbl(s, t).flds[i].tbl_id # t
         /\ \A i \in FldIds : del_tbl(s, t).flds[i] \in {s.flds[i], NullFld}
<1> DEFINE F == s.flds
           L == LoopDeletes(F, t)
           S == UNION {Doomed(F, i) : i \in L}
           E == Unlink(s.files, {F[j].filename : j \in S})
<1>1. /\ F \in [FldIds -> FldRec] /\ s.files \in [Files -> Nat \cup {Absent}]
      /\ SoleOwners(F) /\ Fits(F, s.files, T) /\ Links(F) /\ Blanks(F)
  BY DEF Consistent
<1>2. L = {i \in FldIds : F[i].tbl_id = t /\ F[i].parent_id = NoId}
  BY LoopDeletesPrimaries
<1>3. \A j : j \in S <=> \E i \in L : j = i \/ (j = F[i].nn_fld_id /\ j # NoId)
  BY SMT DEF Doomed
<1> HIDE DEF L, S
<1>4. S \in SUBSET FldIds
  BY SMT, <1>2, <1>3, AuxNotUser
<1>5. ASSUME NEW j \in S
      PROVE  F[j].nn_fld_id \in S \cup {NoId} /\ F[j].parent_id \in S \cup {NoId}
  <2>1. PICK i \in L : j = i \/ (j = F[i].nn_fld_id /\ j # NoId)
    BY <1>3
  <2>2. CASE j = i
    BY <1>2, <1>3, <2>2
  <2>3. CASE j = F[i].nn_fld_id /\ j # NoId
    BY SMT, <1>2, <1>3, <2>3, AuxNotUser
  <2> QED BY <2>1, <2>2, <2>3
<1>6. E \in [Files -> Nat \cup {Absent}]
  BY <1>1 DEF Unlink, Absent
<1>7. \A j \in FldIds \ S : Named(F, j) => E[F[j].filename] = s.files[F[j].filename]
  <2> SUFFICES ASSUME NEW j \in FldIds \ S, Named(F, j)
               PROVE  F[j].filename \in Files /\ F[j].filename \notin {F[i].filename : i \in S}
    BY DEF Unlink
  <2>1. F[j].filename \in Files /\ F[j].filename # NoName
    BY <1>1, FileAssumption DEF Fits
  <2>2. ASSUME NEW i \in S, F[i].filename = F[j].filename PROVE FALSE
    <3>1. Named(F, i)
      BY <1>1, <1>4, <2>1, <2>2 DEF Blanks
    <3> QED BY <1>1, <1>4, <2>2, <3>1 DEF SoleOwners
  <2> QED BY <2>1, <2>2
<1>8. del_tbl(s, t).flds = Zero(F, S) /\ del_tbl(s, t).files = E
  BY DEF del_tbl, L, S
<1>9. \A j \in FldIds : Zero(F, S)[j] = IF j \in S THEN NullFld ELSE F[j]
  BY DEF Zero
<1>10. Consistent(Zero(F, S), E, T)
  <2> HIDE DEF E
  <2> QED BY <1>4, <1>5, <1>6, <1>7, ZeroConsistent
<1>11. ASSUME NEW i \in FldIds, i \notin S, Named(F, i) PROVE F[i].tbl_id # t
  <2>1. CASE F[i].parent_id = NoId
    BY <1>2, <1>3, <1>11, <2>1
  <2>2. CASE F[i].parent_id # NoId
    <3> DEFINE p == F[i].parent_id
    <3>1. p \in FldIds /\ F[p].nn_fld_id = i /\ F[p].parent_id = NoId
      BY <2>2, AuxNotUser
    <3>2. i # NoId
      BY SMT, SlotAssumption DEF FldIds, NoId
    <3>3. F[i].tbl_id = F[p].tbl_id
      BY <1>1, <3>1, <3>2 DEF Links
    <3> QED BY <1>2, <1>3, <1>11, <3>1, <3>2, <3>3
  <2> QED BY <2>1, <2>2
<1>12. NullFld.name = NoName
  BY DEF NullFld
<1> QED BY <1>8, <1>9, <1>10, <1>11, <1>12 DEF Named

=============================================================================
