--------------------------- MODULE CatalogVerbs -----------------------------
(***************************************************************************)
(* The verbs on fields keep the invariant: one lemma per verb, each        *)
(* resting on the lemmas about the routines that the verb calls.           *)
(***************************************************************************)
EXTENDS CatalogRoutines

USE ZenonT(30)

-----------------------------------------------------------------------------
\* What a verb finds under a name that a user may give.
LEMMA UserFld ==
  ASSUME NEW F, NEW D, NEW T, Consistent(F, D, T), NEW t, NEW n \in UserNames,
         is_fld(F, t, n) # NoId
  PROVE  /\ is_fld(F, t, n) \in FldIds
         /\ Named(F, is_fld(F, t, n))
         /\ F[is_fld(F, t, n)].tbl_id = t
         /\ F[is_fld(F, t, n)].name = n
         /\ F[is_fld(F, t, n)].parent_id = NoId
         /\ Deletable(F, is_fld(F, t, n))
<1> DEFINE i == is_fld(F, t, n)
<1>1. i \in FldIds /\ F[i].tbl_id = t /\ F[i].name = n
  BY SMT, IsFld
<1>2. Named(F, i) /\ F[i].parent_id = NoId
  BY SMT, <1>1, AuxNotUser, NameAssumption DEF Named, UserNames
<1> QED BY <1>1, <1>2 DEF Deletable

\* A table that is_tbl finds has a name.
LEMMA LiveTbl ==
  ASSUME NEW T, NEW n \in TblNames, is_tbl(T, n) # NoId
  PROVE  is_tbl(T, n) \in TblIds /\ T[is_tbl(T, n)].name = n /\ n # NoName
BY IsTbl, NameAssumption

\* del_fld of a field that a user names.
LEMMA DelUserFld ==
  ASSUME CatalogInv, NEW t, NEW n \in UserNames, is_fld(flds, t, n) # NoId
  PROVE  /\ del_fld(Store, is_fld(flds, t, n)) \in Stores
         /\ Consistent(del_fld(Store, is_fld(flds, t, n)).flds,
                       del_fld(Store, is_fld(flds, t, n)).files, tbls)
         /\ \A j \in FldIds :
              del_fld(Store, is_fld(flds, t, n)).flds[j] \in {flds[j], NullFld}
         /\ \A j \in FldIds :
              ~(/\ del_fld(Store, is_fld(flds, t, n)).flds[j].tbl_id = t
                /\ del_fld(Store, is_fld(flds, t, n)).flds[j].name = n)
<1> DEFINE i == is_fld(flds, t, n)
           c == del_fld(Store, i)
<1>1. i \in FldIds /\ Named(flds, i) /\ flds[i].parent_id = NoId
      /\ flds[i].tbl_id = t /\ flds[i].name = n
  BY SMT, StoreOK, UserFld
<1>2. /\ Consistent(c.flds, c.files, tbls)
      /\ i \in Doomed(flds, i)
      /\ \A j \in FldIds : c.flds[j] = IF j \in Doomed(flds, i) THEN NullFld ELSE flds[j]
  <2> HIDE DEF i
  <2> QED BY SMT, <1>1, StoreOK, DelFldConsistent
<1>3. c.flds \in [FldIds -> FldRec] /\ c.files \in [Files -> Nat \cup {Absent}]
  BY <1>2 DEF Consistent
<1>4. c = [flds |-> c.flds, files |-> c.files]
  BY DEF del_fld
<1>5. NullFld.name = NoName /\ n # NoName /\ UniqueInTbl(flds)
  BY NameAssumption DEF NullFld, UserNames, CatalogInv, Consistent
<1>6. \A j \in FldIds : flds[j].tbl_id = t /\ flds[j].name = n => j = i
  BY <1>1, <1>5 DEF UniqueInTbl
<1>7. c \in Stores
  BY <1>3, <1>4 DEF Stores
<1> HIDE DEF c, i
<1> QED BY <1>2, <1>5, <1>6, <1>7 DEF c, i

\* ext_add_fld keeps the invariant on every exit, if the file is nobody's.
LEMMA AddFldOK ==
  ASSUME CatalogInv, NEW tn \in TblNames, NEW n \in UserNames, NEW f \in Files,
         NEW ty \in FldTypes, NEW l \in LenGiven, ~Owned(f), AddFld(tn, n, f, ty, l)
  PROVE  CatalogInv'
<1> DEFINE t == is_tbl(tbls, tn)
           i == is_fld(flds, t, n)
           s == IF i # NoId /\ Deletable(flds, i) THEN del_fld(Store, i) ELSE Store
<1>1. \/ Fail
      \/ t # NoId /\ FailWith(s)
      \/ t # NoId /\ AddAllowed(s, t, n, f, ty) /\ FailWith(AddFldBadLen(s, t, n, ty))
      \/ t # NoId /\ AddAllowed(s, t, n, f, ty) /\ Succeed(add_fld(s, t, n, f, ty))
  BY DEF AddFld
<1>2. /\ s \in Stores /\ Consistent(s.flds, s.files, tbls)
      /\ \A j \in FldIds : s.flds[j] \in {flds[j], NullFld}
  <2>1. CASE i # NoId
    <3>1. s = del_fld(Store, i)
      BY <2>1, UserFld, StoreOK
    <3> QED BY <2>1, <3>1, DelUserFld
  <2>2. CASE i = NoId
    <3>1. s = Store
      BY <2>2
    <3> QED BY <3>1, StoreOK
  <2> QED BY <2>1, <2>2
<1>3. t # NoId => t \in TblIds /\ tbls[t].name # NoName
  BY LiveTbl
<1> HIDE DEF t, i, s
<1>4. \A j \in FldIds : Named(s.flds, j) => s.flds[j].filename # f
  BY SMT, <1>2 DEF Owned, NullFld, Named
<1>5. CASE t # NoId /\ AddAllowed(s, t, n, f, ty) /\ FailWith(AddFldBadLen(s, t, n, ty))
  <2> DEFINE c == Cleared(s, t, n)
             k == AddSlot(s, t, n)
             r == [NullFld EXCEPT !.tbl_id = t, !.fldtype = ty]
  <2>1. k # NoId
    <3>1. is_fld(s.flds, t, n) # NoId => k # NoId
      BY DEF AddSlot
    <3>2. is_fld(s.flds, t, n) = NoId => k = get_empty_fld(s.flds, n)
      BY DEF AddSlot
    <3> QED BY <1>5, <3>1, <3>2 DEF AddAllowed
  <2>2. /\ c \in Stores /\ Consistent(c.flds, c.files, tbls)
        /\ k # NoId => k \in FldIds /\ ~Named(c.flds, k)
    <3>1. Made(s, tbls, t, n, c, k)
      BY <1>2, <1>3, <1>5, ClearedConsistent
    <3> HIDE DEF c, k
    <3> QED BY <3>1 DEF Made
  <2>3. /\ r \in FldRec /\ r.name = NoName /\ r.parent_id = NoId
        /\ r.nn_fld_id = NoId /\ r.dict_tbl_id = NoId /\ r.filename = NoName
    BY <1>3, <1>5 DEF NullFld, FldRec
  <2>4. /\ AddFldBadLen(s, t, n, ty).flds = [c.flds EXCEPT ![k] = r]
        /\ AddFldBadLen(s, t, n, ty).files = c.files
    <3> HIDE DEF c, k, r
    <3> QED BY <2>2 DEF AddFldBadLen, Stores, c, k, r
  <2> HIDE DEF c, k, r
  <2>5. Consistent([c.flds EXCEPT ![k] = r], c.files, tbls)
    BY <2>1, <2>2, <2>3, BlankConsistent
  <2> QED BY <1>5, <2>4, <2>5, EndsConsistent
<1>6. CASE t # NoId /\ AddAllowed(s, t, n, f, ty) /\ Succeed(add_fld(s, t, n, f, ty))
  <2>1. Consistent(add_fld(s, t, n, f, ty).flds, add_fld(s, t, n, f, ty).files, tbls)
    BY <1>2, <1>3, <1>4, <1>6, AddFldConsistent
  <2> QED BY <1>6, <2>1, EndsConsistent
<1> QED BY <1>1, <1>2, <1>5, <1>6, EndsConsistent

\* del_fld keeps the invariant.
LEMMA DelFldOK ==
  ASSUME CatalogInv, NEW tn \in TblNames, NEW n \in UserNames, DelFld(tn, n)
  PROVE  CatalogInv'
<1> DEFINE t == is_tbl(tbls, tn)
           i == is_fld(flds, t, n)
<1>1. Fail \/ Succeed(Store) \/ (i # NoId /\ Succeed(del_fld(Store, i)))
  BY DEF DelFld
<1>2. CASE i # NoId /\ Succeed(del_fld(Store, i))
  <2>1. Consistent(del_fld(Store, i).flds, del_fld(Store, i).files, tbls)
    BY <1>2, DelUserFld
  <2> QED BY <1>2, <2>1, EndsConsistent
<1> QED BY <1>1, <1>2, StoreOK, EndsConsistent

\* s_to_f keeps the invariant, with or without space on the disk.
LEMMA SToFOK ==
  ASSUME CatalogInv, NEW tn \in TblNames, NEW n \in UserNames, NEW ty \in FldTypes,
         SToF(tn, n, ty)
  PROVE  CatalogInv'
<1> DEFINE t   == is_tbl(tbls, tn)
           len == Width[ty] * tbls[t].nR
           s(f) == Stretch(Store, f, len)
<1>1. \/ Fail
      \/ /\ t # NoId
         /\ \E f \in Files :
              /\ Fresh(Store, f)
              /\ \/ FailWith(s(f))
                 \/ /\ AddAllowed(s(f), t, n, f, ty)
                    /\ Succeed(add_fld(s(f), t, n, f, ty))
  BY DEF SToF
<1>2. ASSUME t # NoId, NEW f \in Files, Fresh(Store, f),
             \/ FailWith(s(f))
             \/ /\ AddAllowed(s(f), t, n, f, ty)
                /\ Succeed(add_fld(s(f), t, n, f, ty))
      PROVE  CatalogInv'
  <2>1. t \in TblIds /\ tbls[t].name # NoName
    BY <1>2, LiveTbl
  <2>2. len \in Nat
    <3>1. tbls[t].nR \in Nat
      BY <2>1 DEF CatalogInv, Consistent, TblRec
    <3>2. Width[ty] \in Nat
      BY SMT, TypeAssumption DEF Width
    <3> HIDE DEF t
    <3> QED BY SMT, <3>1, <3>2
  <2> HIDE DEF t, len
  <2>3. files[f] = Absent /\ Consistent(flds, files, tbls) /\ files \in [Files -> Nat \cup {Absent}]
    BY <1>2, StoreOK DEF Fresh, Consistent
  <2>4. /\ Consistent(flds, [files EXCEPT ![f] = len], tbls)
        /\ \A j \in FldIds : Named(flds, j) => flds[j].filename # f
    BY <2>2, <2>3, FileConsistent
  <2>5. s(f) \in Stores /\ s(f).flds = flds /\ s(f).files = [files EXCEPT ![f] = len]
    BY <2>2, <2>3, StoreOK DEF Stretch, Stores, Store
  <2> HIDE DEF s
  <2>6. CASE FailWith(s(f))
    BY <2>4, <2>5, <2>6, EndsConsistent
  <2>7. CASE /\ AddAllowed(s(f), t, n, f, ty)
             /\ Succeed(add_fld(s(f), t, n, f, ty))
    <3>1. Consistent(s(f).flds, s(f).files, tbls)
      BY <2>4, <2>5
    <3>2. \A j \in FldIds : Named(s(f).flds, j) => s(f).flds[j].filename # f
      BY <2>4, <2>5
    <3>3. Consistent(add_fld(s(f), t, n, f, ty).flds, add_fld(s(f), t, n, f, ty).files, tbls)
      BY <2>1, <2>5, <2>7, <3>1, <3>2, AddFldConsistent
    <3> QED BY <2>7, <3>3, EndsConsistent
  <2> QED BY <1>2, <2>6, <2>7
<1> QED BY <1>1, <1>2, EndsConsistent

\* drop_nn_fld keeps the invariant, from whatever directory it is called.
LEMMA DropNnFldOK ==
  ASSUME CatalogInv, NEW tn \in TblNames, NEW n \in UserNames, DropNnFld(tn, n)
  PROVE  CatalogInv'
<1> DEFINE t == is_tbl(tbls, tn)
           i == is_fld(flds, t, n)
           k == flds[i].nn_fld_id
           G == Zero([flds EXCEPT ![i].nn_fld_id = NoId], {k})
           E == IF InDataDir THEN Unlink(files, {flds[k].filename}) ELSE files
<1>1. \/ Fail \/ Succeed(Store)
      \/ i # NoId /\ k # NoId /\ Succeed([flds |-> G, files |-> E])
  BY DEF DropNnFld
<1>2. CASE i # NoId /\ k # NoId /\ Succeed([flds |-> G, files |-> E])
  <2>1. i \in FldIds /\ Consistent(flds, files, tbls)
    BY <1>2, StoreOK, UserFld
  <2>2. k \in FldIds /\ Named(flds, k)
    BY <1>2, <2>1, AuxNotUser
  <2>3. /\ files \in [Files -> Nat \cup {Absent}] /\ SoleOwners(flds)
        /\ Fits(flds, files, tbls)
    BY <2>1 DEF Consistent
  <2>4. k = flds[i].nn_fld_id
    OBVIOUS
  <2> HIDE DEF i, k
  <2>5. E \in [Files -> Nat \cup {Absent}]
    BY <2>3 DEF Unlink
  <2>6. \A j \in FldIds \ {k} : Named(flds, j) => E[flds[j].filename] = files[flds[j].filename]
    BY <2>2, <2>3 DEF Unlink, SoleOwners, Fits
  <2> HIDE DEF E
  <2>7. Consistent(G, E, tbls)
    BY <2>1, <2>2, <2>4, <2>5, <2>6, DropConsistent
  <2> HIDE DEF G
  <2> QED BY <1>2, <2>7, EndsConsistent
<1> QED BY <1>1, <1>2, StoreOK, EndsConsistent

\* set_meta of dict_tbl_id keeps the invariant if the dictionary exists.
LEMMA SetDictOK ==
  ASSUME CatalogInv, NEW tn \in TblNames, NEW n \in UserNames, NEW d \in DictIds,
         IsDict(d), SetDict(tn, n, d)
  PROVE  CatalogInv'
<1> DEFINE t == is_tbl(tbls, tn)
           i == is_fld(flds, t, n)
           s == [Store EXCEPT !.flds[i].dict_tbl_id = d]
<1>1. Fail \/ (i # NoId /\ Succeed(s))
  BY DEF SetDict
<1>2. CASE i # NoId /\ Succeed(s)
  <2>1. i \in FldIds /\ Named(flds, i) /\ Consistent(flds, files, tbls)
    BY <1>2, StoreOK, UserFld
  <2> HIDE DEF i
  <2>2. d \in TblIds \cup {NoId} /\ (d # NoId => tbls[d].name # NoName)
    BY DEF IsDict
  <2>3. s.flds = [flds EXCEPT ![i].dict_tbl_id = d] /\ s.files = files
    BY StoreOK DEF Store
  <2> HIDE DEF s
  <2>4. Consistent(s.flds, s.files, tbls)
    BY SMT, <2>1, <2>2, <2>3, DictConsistent
  <2> QED BY <1>2, <2>4, EndsConsistent
<1> QED BY <1>1, <1>2, EndsConsistent

\* A new file in the data directory is no field's.
LEMMA PutFileOK ==
  ASSUME CatalogInv, NEW f \in Files, NEW len \in FileLens, PutFile(f, len)
  PROVE  CatalogInv'
<1>1. len \in Nat /\ files[f] = Absent
  BY FileAssumption DEF PutFile
<1>2. Consistent(flds, [files EXCEPT ![f] = len], tbls)
  BY <1>1, StoreOK, FileConsistent
<1> QED BY <1>2 DEF PutFile, CatalogInv

\* rename_fld keeps the invariant if the name of the flags will fit.
LEMMA RenameFldOK ==
  ASSUME CatalogInv, NEW tn \in TblNames, NEW old \in UserNames, NEW new \in UserNames,
         NnName[new] # NoName, RenameFld(tn, old, new)
  PROVE  CatalogInv'
<1> DEFINE t == is_tbl(tbls, tn)
           i == is_fld(flds, t, old)
           j == is_fld(flds, t, new)
           k == flds[i].nn_fld_id
           s == IF j # NoId THEN del_fld(Store, j) ELSE Store
           s1 == [s EXCEPT !.flds[i].name = new]
           s2 == [s1 EXCEPT !.flds[k].name = NnName[new]]
<1>0. ASSUME i # NoId
      PROVE  /\ i \in FldIds /\ Named(flds, i) /\ flds[i].parent_id = NoId
             /\ flds[i].tbl_id = t /\ flds[i].name = old
             /\ j # NoId => Deletable(flds, j)
  BY SMT, <1>0, StoreOK, UserFld
<1>1. \/ Fail
      \/ /\ old # new /\ i # NoId
         /\ (k = NoId /\ Succeed(s1)) \/ (k # NoId /\ Succeed(s2))
  <2>1. [Store EXCEPT !.flds = flds] = Store
    BY SMT DEF Store
  <2>2. CASE i = NoId
    BY <2>2 DEF RenameFld
  <2>3. CASE i # NoId
    <3>1. flds[i].parent_id = NoId /\ (j # NoId => Deletable(flds, j))
      BY <1>0, <2>3
    <3> QED BY <2>1, <2>3, <3>1 DEF RenameFld
  <2> QED BY <2>2, <2>3
<1>2. CASE /\ old # new /\ i # NoId
           /\ (k = NoId /\ Succeed(s1)) \/ (k # NoId /\ Succeed(s2))
  <2>1. /\ Consistent(flds, files, tbls) /\ flds \in [FldIds -> FldRec]
        /\ i \in FldIds /\ Named(flds, i) /\ flds[i].parent_id = NoId
        /\ flds[i].tbl_id = t /\ flds[i].name = old
    BY <1>0, <1>2, StoreOK DEF Consistent
  <2>2. k # NoId => k \in FldIds /\ k # i /\ flds[k].parent_id = i
    BY SMT, <2>1, AuxNotUser
  <2>3. /\ s \in Stores /\ Consistent(s.flds, s.files, tbls)
        /\ s.flds[i] = flds[i] /\ (k # NoId => s.flds[k] = flds[k])
        /\ \A m \in FldIds : ~(s.flds[m].tbl_id = t /\ s.flds[m].name = new)
    <3>1. CASE j = NoId
      <4>1. s = Store
        BY <3>1
      <4> QED BY SMT, <3>1, <4>1, StoreOK, IsFld
    <3>2. CASE j # NoId
      <4>1. s = del_fld(Store, j)
        BY <3>2
      <4>2. /\ s \in Stores /\ Consistent(s.flds, s.files, tbls)
            /\ \A m \in FldIds : ~(s.flds[m].tbl_id = t /\ s.flds[m].name = new)
        BY <3>2, <4>1, DelUserFld
      <4>3. /\ j \in FldIds /\ Named(flds, j) /\ flds[j].name = new
            /\ flds[j].parent_id = NoId
        BY SMT, <3>2, <2>1, UserFld
      <4>4. \A m \in FldIds : s.flds[m] = IF m \in Doomed(flds, j) THEN NullFld ELSE flds[m]
        <5> HIDE DEF j, s
        <5> QED BY SMT, <4>1, <4>3, StoreOK, DelFldConsistent
      <4>5. flds[j].nn_fld_id # NoId => flds[flds[j].nn_fld_id].parent_id = j
        BY SMT, <2>1, <4>3, AuxNotUser
      <4>6. j # i /\ j # NoId
        BY <1>2, <2>1, <3>2, <4>3
      <4>7. i \notin Doomed(flds, j) /\ (k # NoId => k \notin Doomed(flds, j))
        <5> HIDE DEF i, j, k
        <5>1. i # NoId
          BY <1>2
        <5>2. i # flds[j].nn_fld_id
          BY <2>1, <4>5, <4>6, <5>1
        <5>3. k # NoId => k # j /\ k # flds[j].nn_fld_id
          BY <2>2, <4>3, <4>5, <4>6, <5>1
        <5> QED BY <4>6, <5>2, <5>3 DEF Doomed
      <4> HIDE DEF s, k
      <4> QED BY <2>1, <2>2, <4>2, <4>4, <4>7
    <3> QED BY <3>1, <3>2
  <2>4. flds[i].nn_fld_id = k
    OBVIOUS
  <2> HIDE DEF t, i, j, k, s
  <2>5. new \in FldNames /\ NnName[new] \in FldNames
    BY NameAssumption DEF UserNames
  <2>6. Consistent(Renamed(s.flds, i, new), s.files, tbls) /\ s.flds[i].nn_fld_id = k
    <3>1. /\ Named(s.flds, i) /\ s.flds[i].parent_id = NoId
          /\ s.flds[i].tbl_id = t /\ s.flds[i].nn_fld_id = k
      BY <2>1, <2>3, <2>4 DEF Named
    <3>2. \A m \in FldIds : ~(s.flds[m].tbl_id = s.flds[i].tbl_id /\ s.flds[m].name = new)
      BY <2>3, <3>1
    <3> QED BY <2>1, <2>3, <3>1, <3>2, RenameConsistent
  <2>7. s.flds \in [FldIds -> FldRec]
    BY <2>3 DEF Stores
  <2>8. CASE k = NoId /\ Succeed(s1)
    <3>1. s1.flds = [s.flds EXCEPT ![i].name = new] /\ s1.files = s.files
      BY <2>3 DEF Stores
    <3>2. \A m \in FldIds : m # NoId
      BY SMT, SlotAssumption DEF FldIds, NoId
    <3>3. s1.flds = Renamed(s.flds, i, new)
      BY <2>1, <2>6, <2>7, <2>8, <3>1, <3>2 DEF Renamed
    <3> HIDE DEF s1
    <3> QED BY <2>6, <2>8, <3>1, <3>3, EndsConsistent
  <2>9. CASE k # NoId /\ Succeed(s2)
    <3>1. /\ s2.flds = [[s.flds EXCEPT ![i].name = new] EXCEPT ![k].name = NnName[new]]
          /\ s2.files = s.files
      BY <2>3 DEF Stores
    <3>2. s2.flds = Renamed(s.flds, i, new)
      BY <2>1, <2>2, <2>6, <2>7, <2>9, <3>1 DEF Renamed
    <3> HIDE DEF s1, s2
    <3> QED BY <2>6, <2>9, <3>1, <3>2, EndsConsistent
  <2> QED BY <1>2, <2>8, <2>9 DEF k
<1> QED BY <1>1, <1>2, EndsConsistent

\* The copy of a field's null flags, made for the copy k of the field.
LEMMA CopyNnOK ==
  ASSUME NEW s \in Stores, Consistent(s.flds, s.files, tbls),
         NEW k \in FldIds, Named(s.flds, k),
         s.flds[k].parent_id = NoId, s.flds[k].nn_fld_id = NoId,
         NEW t, s.flds[k].tbl_id = t, NEW nn, CopyNn(s, t, k, nn)
  PROVE  CatalogInv'
<1> DEFINE len == FileLen(s.files, s.flds[nn].filename)
           s1(g) == Stretch(s, g, len)
<1>1. \/ FailWith(s)
      \/ \E g \in Files :
           /\ len > 0 /\ Fresh(s, g)
           /\ \/ FailWith(s1(g))
              \/ AuxAllowed(s1(g), t, k, g) /\ Succeed(add_aux_fld(s1(g), t, k, g))
  BY DEF CopyNn
<1>2. ASSUME NEW g \in Files, len > 0, Fresh(s, g),
             \/ FailWith(s1(g))
             \/ AuxAllowed(s1(g), t, k, g) /\ Succeed(add_aux_fld(s1(g), t, k, g))
      PROVE  CatalogInv'
  <2>1. len \in Nat
    BY SMT, <1>2 DEF FileLen, Absent, Stores
  <2> HIDE DEF len
  <2>2. s.files[g] = Absent
    BY <1>2 DEF Fresh
  <2>3. /\ Consistent(s.flds, [s.files EXCEPT ![g] = len], tbls)
        /\ \A i \in FldIds : Named(s.flds, i) => s.flds[i].filename # g
    BY <2>1, <2>2, FileConsistent
  <2>4. s1(g) \in Stores /\ s1(g).flds = s.flds /\ s1(g).files = [s.files EXCEPT ![g] = len]
    BY <2>1 DEF Stretch, Stores
  <2> HIDE DEF s1
  <2>5. CASE FailWith(s1(g))
    BY <2>3, <2>4, <2>5, EndsConsistent
  <2>6. CASE AuxAllowed(s1(g), t, k, g) /\ Succeed(add_aux_fld(s1(g), t, k, g))
    <3>1. FileLen(s1(g).files, g) > 0
      BY <1>2, <2>1, <2>4 DEF FileLen, Stores
    <3>2. Consistent(s1(g).flds, s1(g).files, tbls)
      BY <2>3, <2>4
    <3>3. /\ Named(s1(g).flds, k) /\ s1(g).flds[k].parent_id = NoId
          /\ s1(g).flds[k].nn_fld_id = NoId /\ s1(g).flds[k].tbl_id = t
          /\ \A i \in FldIds : Named(s1(g).flds, i) => s1(g).flds[i].filename # g
      BY <2>3, <2>4
    <3>4. Consistent(add_aux_fld(s1(g), t, k, g).flds, add_aux_fld(s1(g), t, k, g).files, tbls)
      BY <2>4, <2>6, <3>1, <3>2, <3>3, AddAuxFldConsistent
    <3> QED BY <2>6, <3>4, EndsConsistent
  <2> QED BY <1>2, <2>5, <2>6
<1> QED BY <1>1, <1>2, EndsConsistent

\* The copy of the field in slot i, entered under a name not in use.
LEMMA CopyFldOK ==
  ASSUME NEW s \in Stores, Consistent(s.flds, s.files, tbls),
         NEW i \in FldIds, Named(s.flds, i), s.flds[i].parent_id = NoId,
         NEW t \in TblIds, s.flds[i].tbl_id = t, NEW n \in UserNames,
         \A j \in FldIds : ~(s.flds[j].tbl_id = t /\ s.flds[j].name = n),
         CopyFld(s, t, i, n)
  PROVE  CatalogInv'
<1> DEFINE r   == s.flds[i]
           len == FileLen(s.files, r.filename)
           k   == get_empty_fld(s.flds, n)
           q(f) == [r EXCEPT !.name = n, !.filename = f, !.nn_fld_id = NoId]
           s1(f) == Stretch(s, f, len)
           s2(f) == [s1(f) EXCEPT !.flds[k] = q(f)]
<1>1. PICK f \in Files :
        /\ len > 0 /\ Fresh(s, f)
        /\ \/ FailWith(s1(f))
           \/ k # NoId /\ Succeed(s2(f))
           \/ k # NoId /\ CopyNn(s2(f), t, k, r.nn_fld_id)
  BY DEF CopyFld
<1>2. /\ r.filename \in Files /\ r.fldtype \in FldTypes
      /\ s.files[r.filename] = Width[r.fldtype] * tbls[t].nR
      /\ tbls[t].name # NoName /\ r \in FldRec
      /\ r.dict_tbl_id # NoId => /\ r.dict_tbl_id \in TblIds
                                 /\ tbls[r.dict_tbl_id].name # NoName
  BY DEF Consistent, Fits, Housed, LiveDicts
<1>3. len = Width[r.fldtype] * tbls[t].nR /\ len \in Nat
  <2>1. len = s.files[r.filename]
    BY <1>2 DEF FileLen
  <2>2. len \in Nat
    BY SMT, <1>1, <1>2, <2>1 DEF Stores, Absent
  <2> QED BY <1>2, <2>1, <2>2
<1>4. n \in FldNames /\ n # NoName
  BY NameAssumption DEF UserNames
<1>5. k # NoId => k \in FldIds /\ ~Named(s.flds, k)
  BY <1>4, GetEmptyFld DEF Named
<1> HIDE DEF len, k
<1>6. s.files[f] = Absent
  BY <1>1 DEF Fresh
<1>7. /\ Consistent(s.flds, [s.files EXCEPT ![f] = len], tbls)
      /\ \A j \in FldIds : Named(s.flds, j) => s.flds[j].filename # f
  BY <1>3, <1>6, FileConsistent
<1>8. s1(f) \in Stores /\ s1(f).flds = s.flds /\ s1(f).files = [s.files EXCEPT ![f] = len]
  BY <1>3 DEF Stretch, Stores
<1> HIDE DEF s1
<1>9. CASE FailWith(s1(f))
  BY <1>7, <1>8, <1>9, EndsConsistent
<1>10. ASSUME k # NoId
       PROVE  /\ s2(f) \in Stores /\ Consistent(s2(f).flds, s2(f).files, tbls)
              /\ k \in FldIds /\ s2(f).flds[k] = q(f)
  <2>1. /\ q(f) \in FldRec /\ q(f).name = n /\ q(f).parent_id = NoId
        /\ q(f).nn_fld_id = NoId /\ q(f).tbl_id = t /\ q(f).dict_tbl_id = r.dict_tbl_id
        /\ q(f).filename = f /\ q(f).fldtype = r.fldtype
    BY <1>2, <1>4 DEF FldRec
  <2>2. s.flds \in [FldIds -> FldRec]
    BY DEF Stores
  <2> HIDE DEF q, r
  <2>3. /\ s2(f).flds = [s.flds EXCEPT ![k] = q(f)]
        /\ s2(f).files = [s.files EXCEPT ![f] = len]
        /\ s2(f) \in Stores
    <3>1. /\ s2(f).flds = [s1(f).flds EXCEPT ![k] = q(f)] /\ s2(f).files = s1(f).files
          /\ s2(f) = [flds |-> [s1(f).flds EXCEPT ![k] = q(f)], files |-> s1(f).files]
      BY SMT, <1>8 DEF Stores
    <3>2. [s.flds EXCEPT ![k] = q(f)] \in [FldIds -> FldRec]
      BY <2>1, <2>2
    <3> HIDE DEF s2
    <3> QED BY <1>8, <3>1, <3>2 DEF Stores
  <2> HIDE DEF s2
  <2> DEFINE E == [s.files EXCEPT ![f] = len]
  <2>4. E[f] = Width[q(f).fldtype] * tbls[q(f).tbl_id].nR /\ E[f] > 0
    BY <1>1, <1>3, <2>1 DEF Stores
  <2>5. Consistent([s.flds EXCEPT ![k] = q(f)], E, tbls)
    <3> HIDE DEF E
    <3>1. Consistent(s.flds, E, tbls)
      BY <1>7 DEF E
    <3> QED BY <1>2, <1>5, <1>7, <1>10, <2>1, <2>4, <3>1, NewConsistent
  <2>6. s2(f).flds[k] = q(f)
    BY <1>5, <1>10, <2>2, <2>3
  <2> QED BY <1>5, <1>10, <2>3, <2>5, <2>6
<1>11. CASE k # NoId /\ Succeed(s2(f))
  <2> HIDE DEF s2
  <2> QED BY <1>10, <1>11, EndsConsistent
<1>12. CASE k # NoId /\ CopyNn(s2(f), t, k, r.nn_fld_id)
  <2>1. /\ q(f).name = n /\ q(f).parent_id = NoId /\ q(f).nn_fld_id = NoId
        /\ q(f).tbl_id = t
    BY <1>2 DEF FldRec
  <2>2. Named(s2(f).flds, k)
    BY <1>4, <1>10, <1>12, <2>1 DEF Named
  <2> HIDE DEF q, s2
  <2> QED BY <1>10, <1>12, <2>1, <2>2, CopyNnOK
<1> QED BY <1>1, <1>9, <1>11, <1>12

\* dup_fld keeps the invariant on every exit.
LEMMA DupFldOK ==
  ASSUME CatalogInv, NEW tn \in TblNames, NEW n1 \in UserNames, NEW n2 \in UserNames,
         DupFld(tn, n1, n2)
  PROVE  CatalogInv'
<1> DEFINE t  == is_tbl(tbls, tn)
           j  == is_fld(flds, t, n2)
           s  == IF j # NoId THEN del_fld(Store, j) ELSE Store
           i  == is_fld(s.flds, t, n1)
<1>1. \/ Fail \/ FailWith(s)
      \/ t # NoId /\ i # NoId /\ CopyFld(s, t, i, n2)
  BY DEF DupFld
<1>2. /\ s \in Stores /\ Consistent(s.flds, s.files, tbls)
      /\ \A m \in FldIds : ~(s.flds[m].tbl_id = t /\ s.flds[m].name = n2)
  <2>1. CASE j = NoId
    <3>1. s = Store
      BY <2>1
    <3> QED BY SMT, <2>1, <3>1, StoreOK, IsFld
  <2>2. CASE j # NoId
    <3>1. s = del_fld(Store, j)
      BY <2>2
    <3> QED BY <2>2, <3>1, DelUserFld
  <2> QED BY <2>1, <2>2
<1>3. t # NoId => t \in TblIds
  BY LiveTbl
<1> HIDE DEF t, j, s
<1>4. i # NoId => /\ i \in FldIds /\ Named(s.flds, i)
                  /\ s.flds[i].parent_id = NoId /\ s.flds[i].tbl_id = t
  BY SMT, <1>2, UserFld
<1> HIDE DEF i
<1>5. CASE t # NoId /\ i # NoId /\ CopyFld(s, t, i, n2)
  BY SMT, <1>2, <1>3, <1>4, <1>5, CopyFldOK
<1> QED BY <1>1, <1>2, <1>5, EndsConsistent

\* mv_fld between two tables, with two free slots: adding the destination and
\* then clearing the source amounts to clearing first, so that at no time two
\* fields count as owners of the file; and the null flags find a slot.
LEMMA MvFldOK ==
  ASSUME CatalogInv, NEW tn \in TblNames, NEW un \in TblNames, NEW n \in UserNames,
         tn # un, RoomToMove, MvFld(tn, n, un)
  PROVE  CatalogInv'
<1> DEFINE t == is_tbl(tbls, tn)
           u == is_tbl(tbls, un)
           i == is_fld(flds, t, n)
           k == flds[i].nn_fld_id
           f == flds[i].filename
           g == flds[k].filename
           ty == flds[i].fldtype
           s1 == add_fld(Store, u, n, f, ty)
           d == AddSlot(Store, u, n)
           s2 == add_aux_fld(s1, u, d, g)
           c == Cleared(Store, u, n)
           r == NewFld(u, n, f, ty)
           F1(S) == Zero(c.flds, S)
           F2(S) == [F1(S) EXCEPT ![d] = r]
<1>1. \/ Fail
      \/ /\ t # NoId /\ u # NoId /\ tbls[t].nR = tbls[u].nR /\ i # NoId
         /\ AddAllowed(Store, u, n, f, ty)
         /\ \/ k = NoId /\ Succeed([s1 EXCEPT !.flds = Zero(@, {i})])
            \/ k # NoId /\ ~AuxAllowed(s1, u, d, g) /\ FailWith(s1)
            \/ /\ k # NoId /\ AuxAllowed(s1, u, d, g)
               /\ Succeed([s2 EXCEPT !.flds = Zero(@, {i, k})])
  BY DEF MvFld
<1>2. SUFFICES ASSUME t # NoId, u # NoId, tbls[t].nR = tbls[u].nR, i # NoId,
                      AddAllowed(Store, u, n, f, ty),
                      \/ k = NoId /\ Succeed([s1 EXCEPT !.flds = Zero(@, {i})])
                      \/ k # NoId /\ ~AuxAllowed(s1, u, d, g) /\ FailWith(s1)
                      \/ /\ k # NoId /\ AuxAllowed(s1, u, d, g)
                         /\ Succeed([s2 EXCEPT !.flds = Zero(@, {i, k})])
               PROVE  CatalogInv'
  BY <1>1, EndsConsistent
<1> HIDE DEF s1, s2, d, c, r
<1>3. /\ t \in TblIds /\ u \in TblIds /\ t # u /\ tbls[u].name # NoName
      /\ n \in FldNames /\ n # NoName
  <2>1. t # NoId /\ u # NoId
    BY <1>2
  <2> QED BY SMT, <2>1, LiveTbl, NameAssumption DEF UserNames
<1>4. /\ Consistent(flds, files, tbls) /\ flds \in [FldIds -> FldRec]
      /\ i \in FldIds /\ Named(flds, i) /\ flds[i].tbl_id = t /\ flds[i].name = n
      /\ flds[i].parent_id = NoId
  <2>1. i # NoId
    BY <1>2
  <2> QED BY SMT, <2>1, StoreOK, UserFld DEF Consistent
<1>5. /\ i # k
      /\ k # NoId => /\ k \in FldIds /\ Named(flds, k) /\ flds[k].tbl_id = t
                     /\ flds[k].name = NnName[n] /\ flds[k].fldtype = "I1"
                     /\ flds[k].nn_fld_id = NoId /\ flds[k].parent_id = i
  BY <1>2, <1>4, AuxNotUser DEF Consistent, Links
<1>6. d # NoId
  <2>1. is_fld(Store.flds, u, n) # NoId => d # NoId
    BY DEF AddSlot, d
  <2>2. is_fld(Store.flds, u, n) = NoId => d = get_empty_fld(Store.flds, n)
    BY DEF AddSlot, d
  <2> QED BY <1>2, <2>1, <2>2 DEF AddAllowed
<1> HIDE DEF t, u
<1>7. /\ c \in Stores /\ Consistent(c.flds, c.files, tbls)
      /\ \A j \in FldIds : ~(c.flds[j].tbl_id = u /\ c.flds[j].name = n)
      /\ \A j \in FldIds : Named(c.flds, j) =>
            c.flds[j] = flds[j] /\ c.files[flds[j].filename] = files[flds[j].filename]
      /\ \A j \in FldIds : ~Named(flds, j) \/ flds[j].tbl_id # u => c.flds[j] = flds[j]
      /\ d \in FldIds /\ ~Named(c.flds, d)
  <2>1. Made(Store, tbls, u, n, c, d)
    BY <1>3, StoreOK, ClearedConsistent DEF c, d
  <2>2. Store.flds = flds /\ Store.files = files
    BY StoreOK
  <2> HIDE DEF Store
  <2> QED BY <1>6, <2>1, <2>2 DEF Made
<1>8. /\ s1.flds = [c.flds EXCEPT ![d] = r] /\ s1.files = c.files /\ s1 \in Stores
      /\ r \in FldRec /\ r.name = n /\ r.tbl_id = u /\ r.parent_id = NoId
      /\ r.nn_fld_id = NoId /\ r.dict_tbl_id = NoId /\ r.fldtype = ty /\ r.filename = f
  <2>1. flds[i] \in FldRec
    BY <1>4
  <2>2. /\ r \in FldRec /\ r.name = n /\ r.tbl_id = u /\ r.parent_id = NoId
        /\ r.nn_fld_id = NoId /\ r.dict_tbl_id = NoId /\ r.fldtype = ty /\ r.filename = f
    BY <1>3, <2>1 DEF NewFld, NullFld, FldRec, r
  <2>3. s1 = [c EXCEPT !.flds[d] = r]
    BY DEF add_fld, c, d, r, s1
  <2> QED BY <1>7, <2>2, <2>3 DEF Stores
<1>9. c.flds[i] = flds[i] /\ (k # NoId => c.flds[k] = flds[k])
  BY <1>3, <1>4, <1>5, <1>7
<1>10. /\ c.flds \in [FldIds -> FldRec] /\ c.files \in [Files -> Nat \cup {Absent}]
       /\ SoleOwners(c.flds) /\ Fits(c.flds, c.files, tbls)
  BY <1>7 DEF Consistent
<1>11. /\ f \in Files /\ ty \in FldTypes /\ c.files[f] > 0
       /\ c.files[f] = Width[ty] * tbls[u].nR
  BY <1>2, <1>4, <1>9, <1>10 DEF Fits, Named
<1>12. k # NoId => /\ g \in Files /\ c.files[g] > 0
                   /\ c.files[g] = tbls[u].nR /\ g # f
  <2>1. tbls[t].nR \in Nat
    BY <1>3 DEF CatalogInv, Consistent, TblRec
  <2>2. Width["I1"] = 1
    BY DEF Width
  <2>3. k # NoId => /\ g \in Files /\ c.files[g] > 0
                    /\ c.files[g] = Width["I1"] * tbls[t].nR
    BY <1>5, <1>9, <1>10 DEF Fits, Named
  <2>4. k # NoId => g # f
    BY <1>4, <1>5, <1>9, <1>10 DEF SoleOwners, Named
  <2> HIDE DEF g, f, k
  <2> QED BY SMT, <1>2, <2>1, <2>2, <2>3, <2>4
<1>13. d # i /\ (k # NoId => d # k)
  BY <1>4, <1>5, <1>7, <1>9 DEF Named
<1> DEFINE S == {i} \cup ({k} \ {NoId})
<1>14. /\ Consistent(F2(S), c.files, tbls)
       /\ \A j \in FldIds : F2(S)[j] = IF j = d THEN r ELSE IF j \in S THEN NullFld ELSE c.flds[j]
  <2>1. S \in SUBSET FldIds /\ d \notin S /\ i \in S
    BY <1>4, <1>5, <1>13
  <2>2. \A j \in S : c.flds[j].nn_fld_id \in S \cup {NoId} /\ c.flds[j].parent_id \in S \cup {NoId}
    BY <1>4, <1>5, <1>9
  <2> HIDE DEF S, i, k
  <2>3. Consistent(F1(S), c.files, tbls)
    BY <1>7, <1>10, <2>1, <2>2, ZeroConsistent
  <2>4. \A j \in FldIds : F1(S)[j] = IF j \in S THEN NullFld ELSE c.flds[j]
    BY DEF Zero
  <2>5. F1(S) \in [FldIds -> FldRec] /\ NullFld.name = NoName
    BY <2>3 DEF Consistent, NullFld
  <2> HIDE DEF F1
  <2>6. ~Named(F1(S), d)
    BY <1>7, <2>1, <2>4 DEF Named
  <2>7. \A j \in FldIds : Named(F1(S), j) => F1(S)[j].filename # r.filename
    <3> SUFFICES ASSUME NEW j \in FldIds, Named(F1(S), j), F1(S)[j].filename = r.filename
                 PROVE  FALSE
      OBVIOUS
    <3>1. j \notin S /\ Named(c.flds, j) /\ c.flds[j].filename = c.flds[i].filename
      BY <1>8, <1>9, <2>4, <2>5 DEF Named
    <3>2. Named(c.flds, i)
      BY <1>4, <1>9 DEF Named
    <3> QED BY <1>4, <1>10, <2>1, <3>1, <3>2 DEF SoleOwners
  <2>8. \A j \in FldIds : ~(F1(S)[j].tbl_id = r.tbl_id /\ F1(S)[j].name = r.name)
    BY <1>3, <1>7, <1>8, <2>4, <2>5
  <2>9. Consistent(F2(S), c.files, tbls)
    BY <1>3, <1>7, <1>8, <1>11, <2>3, <2>6, <2>7, <2>8, NewConsistent
  <2>10. \A j \in FldIds : F2(S)[j] = IF j = d THEN r ELSE IF j \in S THEN NullFld ELSE c.flds[j]
    BY <1>7, <2>4, <2>5
  <2> QED BY <2>9, <2>10
<1>15. CASE k = NoId /\ Succeed([s1 EXCEPT !.flds = Zero(@, {i})])
  <2> DEFINE s == [s1 EXCEPT !.flds = Zero(@, {i})]
  <2>1. s.flds = Zero(s1.flds, {i}) /\ s.files = c.files
    BY <1>8 DEF Stores
  <2>2. S = {i}
    BY <1>15
  <2>3. s.flds = F2({i})
    <3> HIDE DEF s, i
    <3>1. \A j \in FldIds : s.flds[j] = IF j = i THEN NullFld ELSE IF j = d THEN r ELSE c.flds[j]
      BY SMT, <1>7, <1>8, <1>10, <2>1 DEF Zero
    <3>2. \A j \in FldIds : F2({i})[j] = IF j = d THEN r ELSE IF j = i THEN NullFld ELSE c.flds[j]
      BY <1>7 DEF Zero
    <3>3. /\ s.flds = [j \in FldIds |-> s.flds[j]]
          /\ F2({i}) = [j \in FldIds |-> F2({i})[j]]
      BY <2>1 DEF Zero
    <3> HIDE DEF F2
    <3> QED BY <1>13, <3>1, <3>2, <3>3
  <2>4. Consistent(s.flds, s.files, tbls)
    <3> HIDE DEF F2, s, i, S
    <3> QED BY <1>14, <2>1, <2>2, <2>3
  <2> HIDE DEF s
  <2>5. Succeed(s)
    BY <1>15 DEF s
  <2> QED BY <2>4, <2>5, EndsConsistent
<1>16. ASSUME k # NoId
       PROVE  AuxAllowed(s1, u, d, g)
  <2>1. s1.flds[d] = r
    BY <1>7, <1>8, <1>10
  <2>2. FileLen(s1.files, g) = tbls[u].nR
    BY <1>8, <1>12, <1>16 DEF FileLen
  <2>3. NnName[s1.flds[d].name] # NoName /\ NnName[s1.flds[d].name] \in FldNames
    <3>1. s1.flds[d].name = n
      BY <1>8, <2>1
    <3>2. NnName[n] # NoName
      BY <1>5, <1>16 DEF Named
    <3> QED BY <1>3, <3>1, <3>2, NameAssumption
  <2>4. AuxSlot(s1, d) = get_empty_fld(s1.flds, NnName[s1.flds[d].name])
    BY SMT, <1>8, <2>1 DEF AuxSlot, NoId
  <2>5. PICK e \in FreeSlots : e # d
    BY DEF RoomToMove
  <2>6. e \in FldIds /\ s1.flds[e].name = NoName
    BY <1>7, <1>8, <1>10, <2>5 DEF FreeSlots, Named
  <2>7. AuxSlot(s1, d) # NoId
    BY <2>3, <2>4, <2>6, GetEmptyFld
  <2> QED BY <2>2, <2>3, <2>7 DEF AuxAllowed
<1>17. CASE /\ k # NoId /\ AuxAllowed(s1, u, d, g)
            /\ Succeed([s2 EXCEPT !.flds = Zero(@, {i, k})])
  <2> DEFINE s == [s2 EXCEPT !.flds = Zero(@, {i, k})]
             a == AuxSlot(s1, d)
             q == NnFld(u, d, n, g)
             G == [[F2(S) EXCEPT ![a] = q] EXCEPT ![d].nn_fld_id = a]
  <2>1. s1.flds[d] = r
    BY <1>7, <1>8, <1>10
  <2>2. a = get_empty_fld(s1.flds, NnName[n])
    BY SMT, <1>8, <2>1 DEF AuxSlot, NoId
  <2>3. NnName[n] # NoName /\ NnName[n] \in FldNames /\ a # NoId
    BY <1>3, <1>5, <1>17, NameAssumption DEF AuxAllowed, Named
  <2>4. a \in FldIds /\ s1.flds[a].name = NoName
    BY <2>2, <2>3, GetEmptyFld
  <2>5. a # d /\ a # i /\ a # k
    <3> HIDE DEF a, i, k
    <3>1. a # d
      BY <1>3, <1>8, <2>1, <2>4
    <3>2. a # i
      BY <1>4, <1>8, <1>9, <1>10, <1>13, <2>4 DEF Named
    <3>3. a # k
      BY <1>5, <1>8, <1>9, <1>10, <1>13, <1>17, <2>4 DEF Named
    <3> QED BY <3>1, <3>2, <3>3
  <2>6. S = {i, k}
    BY <1>17
  <2>7. /\ s2.flds = [[s1.flds EXCEPT ![a] = q] EXCEPT ![d].nn_fld_id = a]
        /\ s2.files = c.files /\ s.flds = Zero(s2.flds, {i, k}) /\ s.files = c.files
    <3>1. s1.flds[d].name = n
      BY <1>8, <2>1
    <3>2. /\ s2 = [s1 EXCEPT !.flds = [[@ EXCEPT ![a] = q] EXCEPT ![d].nn_fld_id = a]]
      BY <3>1 DEF add_aux_fld, s2
    <3> HIDE DEF a, q, i, k
    <3> QED BY <1>8, <3>2 DEF Stores
  <2> HIDE DEF s, a, q
  <2>8. Consistent(G, c.files, tbls)
    <3> HIDE DEF F2, S, i, k, g, f
    <3>1. /\ F2(S)[d] = r /\ F2(S)[a] = c.flds[a]
      BY <1>7, <1>14, <2>4, <2>5, <2>6
    <3>2. c.flds[a].name = NoName
      BY <1>7, <1>8, <1>10, <2>4, <2>5
    <3>3. /\ ~Named(F2(S), a) /\ Named(F2(S), d) /\ F2(S)[d].parent_id = NoId
          /\ F2(S)[d].nn_fld_id = NoId /\ F2(S)[d].name = n /\ F2(S)[d].tbl_id = u
      BY <1>3, <1>8, <3>1, <3>2 DEF Named
    <3>4. \A j \in FldIds : Named(F2(S), j) => F2(S)[j].filename # g
      <4> SUFFICES ASSUME NEW j \in FldIds, Named(F2(S), j), F2(S)[j].filename = g
                   PROVE  FALSE
        OBVIOUS
      <4>1. j # d
        BY <1>8, <1>12, <1>17, <3>1
      <4>2. j \notin S /\ Named(c.flds, j) /\ c.flds[j].filename = g
        BY SMT, <1>14, <4>1 DEF Named, NullFld
      <4>3. Named(c.flds, k) /\ c.flds[k].filename = g /\ k \in FldIds
        BY <1>5, <1>9, <1>17 DEF Named, g
      <4>4. j = k
        BY <1>10, <4>2, <4>3 DEF SoleOwners
      <4> QED BY <2>6, <4>2, <4>4
    <3>5. q = NnFld(F2(S)[d].tbl_id, d, F2(S)[d].name, g)
      BY <3>3 DEF q
    <3>6. c.files[g] = tbls[F2(S)[d].tbl_id].nR /\ c.files[g] > 0 /\ g \in Files
      BY <1>12, <1>17, <3>3
    <3>7. NnName[F2(S)[d].name] # NoName
      BY <2>3, <3>3
    <3>8. Consistent([[F2(S) EXCEPT ![a] = NnFld(F2(S)[d].tbl_id, d, F2(S)[d].name, g)]
                        EXCEPT ![d].nn_fld_id = a], c.files, tbls)
      BY <1>7, <1>14, <2>4, <3>3, <3>4, <3>6, <3>7, AuxConsistent
    <3> QED BY <3>5, <3>8
  <2>9. s.flds = G
    <3> HIDE DEF i, k, S
    <3>1. F2(S) = [j \in FldIds |-> IF j = d THEN r ELSE IF j \in S THEN NullFld ELSE c.flds[j]]
      BY <1>7, <1>10, <1>14 DEF Zero
    <3> HIDE DEF F2
    <3>2. \A j \in FldIds : G[j] =
            IF j = d THEN [r EXCEPT !.nn_fld_id = a]
            ELSE IF j = a THEN q ELSE IF j \in S THEN NullFld ELSE c.flds[j]
      BY <2>4, <2>5, <3>1
    <3>3. \A j \in FldIds : s.flds[j] =
            IF j = d THEN [r EXCEPT !.nn_fld_id = a]
            ELSE IF j = a THEN q ELSE IF j \in S THEN NullFld ELSE c.flds[j]
      BY SMT, <1>7, <1>8, <1>10, <1>13, <1>17, <2>4, <2>5, <2>6, <2>7 DEF Zero
    <3>4. s.flds = [j \in FldIds |-> s.flds[j]]
      BY <2>7 DEF Zero
    <3>5. G = [j \in FldIds |-> G[j]]
      BY <3>1
    <3> HIDE DEF G
    <3> QED BY SMT, <3>2, <3>3, <3>4, <3>5
  <2> HIDE DEF G
  <2>10. Succeed(s)
    BY <1>17 DEF s
  <2> QED BY <2>7, <2>8, <2>9, <2>10, EndsConsistent
<1> QED BY <1>2, <1>15, <1>16, <1>17

\* mk_nn_fld of a field onto another: when it has deleted old null flags it
\* always goes through, since the source has the right length, the name is
\* known to fit and the slot just cleared is free; and clearing the source
\* last amounts to clearing it before its file changes hands.
LEMMA MkNnFldOK ==
  ASSUME CatalogInv, NEW tn \in TblNames, NEW un \in TblNames,
         NEW m \in UserNames, NEW n \in UserNames,
         <<tn, n>> # <<un, m>>, MkNnFld(tn, n, un, m)
  PROVE  CatalogInv'
<1> DEFINE t == is_tbl(tbls, tn)
           u == is_tbl(tbls, un)
           i == is_fld(flds, t, n)
           d == is_fld(flds, u, m)
           k == flds[d].nn_fld_id
           f == flds[i].filename
           s == IF k # NoId THEN del_fld(Store, k) ELSE Store
           e == [add_aux_fld(s, u, d, f) EXCEPT !.flds = Zero(@, {i})]
<1>1. \/ Fail
      \/ /\ t # NoId /\ u # NoId /\ tbls[t].nR = tbls[u].nR /\ i # NoId
         /\ flds[i].fldtype = "I1" /\ flds[i].nn_fld_id = NoId /\ d # NoId
         /\ \/ ~AuxAllowed(s, u, d, f) /\ FailWith(s)
            \/ AuxAllowed(s, u, d, f) /\ Succeed(e)
  BY DEF MkNnFld
<1>2. SUFFICES ASSUME t # NoId, u # NoId, tbls[t].nR = tbls[u].nR, i # NoId,
                      flds[i].fldtype = "I1", flds[i].nn_fld_id = NoId, d # NoId,
                      \/ ~AuxAllowed(s, u, d, f) /\ FailWith(s)
                      \/ AuxAllowed(s, u, d, f) /\ Succeed(e)
               PROVE  CatalogInv'
  BY <1>1, EndsConsistent
<1> HIDE DEF s, e
<1>3. t \in TblIds /\ u \in TblIds /\ tbls[t].name = tn /\ tbls[u].name = un
  <2>1. t # NoId /\ u # NoId
    BY <1>2
  <2> QED BY <2>1, LiveTbl
<1>4. /\ Consistent(flds, files, tbls) /\ flds \in [FldIds -> FldRec]
      /\ i \in FldIds /\ Named(flds, i) /\ flds[i].tbl_id = t /\ flds[i].name = n
      /\ flds[i].parent_id = NoId
      /\ d \in FldIds /\ Named(flds, d) /\ flds[d].tbl_id = u /\ flds[d].name = m
      /\ flds[d].parent_id = NoId
  <2>1. i # NoId /\ d # NoId
    BY <1>2
  <2> QED BY SMT, <2>1, StoreOK, UserFld DEF Consistent
<1>5. i # d
  BY <1>3, <1>4
<1>6. k # NoId => /\ k \in FldIds /\ Named(flds, k) /\ k # i /\ k # d
                  /\ flds[k].name = NnName[m]
                  /\ flds[k].nn_fld_id = NoId /\ flds[k].parent_id = d
  <2>1. Links(flds) /\ d # NoId
    BY <1>2, <1>4 DEF Consistent
  <2> QED BY SMT, <1>4, <2>1, AuxNotUser DEF Links
<1>7. /\ files \in [Files -> Nat \cup {Absent}] /\ SoleOwners(flds)
      /\ Fits(flds, files, tbls) /\ tbls[t].nR \in Nat
  BY <1>3, <1>4 DEF Consistent, TblRec
<1>8. f \in Files /\ files[f] = tbls[u].nR /\ files[f] > 0
  <2>1. Width["I1"] = 1
    BY DEF Width
  <2>2. f \in Files /\ files[f] = Width["I1"] * tbls[t].nR /\ files[f] > 0
    BY <1>2, <1>4, <1>7 DEF Fits
  <2> HIDE DEF f, t, u
  <2> QED BY SMT, <1>2, <1>7, <2>1, <2>2
<1> HIDE DEF t, u
\* The store once the old null flags are gone; d may still point at them.
<1>9. /\ s \in Stores
      /\ s.flds = IF k # NoId THEN Zero(flds, {k}) ELSE flds
      /\ s.files = IF k # NoId THEN Unlink(files, {flds[k].filename}) ELSE files
  <2>1. CASE k = NoId
    BY <2>1, StoreOK DEF s
  <2>2. CASE k # NoId
    <3>1. Doomed(flds, k) = {k}
      BY <1>6, <2>2 DEF Doomed
    <3>2. {flds[j].filename : j \in {k}} = {flds[k].filename}
      OBVIOUS
    <3>3. s = [flds |-> Zero(flds, {k}), files |-> Unlink(files, {flds[k].filename})]
      BY <2>2, <3>1, <3>2, StoreOK DEF s, del_fld
    <3>4. Zero(flds, {k}) \in [FldIds -> FldRec]
      BY <1>4, NullFldType DEF Zero
    <3>5. Unlink(files, {flds[k].filename}) \in [Files -> Nat \cup {Absent}]
      BY <1>7 DEF Unlink
    <3> QED BY <2>2, <3>3, <3>4, <3>5 DEF Stores
  <2> QED BY <2>1, <2>2
<1>10. /\ \A j \in FldIds : s.flds[j] = IF j = k THEN NullFld ELSE flds[j]
       /\ s.flds \in [FldIds -> FldRec] /\ s.files \in [Files -> Nat \cup {Absent}]
       /\ s.flds[i] = flds[i] /\ s.flds[d] = flds[d]
  <2>1. \A j \in FldIds : j # NoId
    BY SMT, SlotAssumption DEF FldIds, NoId
  <2>2. \A j \in FldIds : s.flds[j] = IF j = k THEN NullFld ELSE flds[j]
    BY <1>9, <2>1 DEF Zero
  <2>3. i # k /\ d # k
    BY <1>4, <1>6, <2>1
  <2> QED BY <1>4, <1>9, <2>2, <2>3 DEF Stores
<1>11. s.files[f] = files[f] /\ (\A j \in FldIds \ {k} : Named(flds, j) =>
                                  s.files[flds[j].filename] = files[flds[j].filename])
  <2>1. \A j \in FldIds \ {k} : Named(flds, j) =>
          s.files[flds[j].filename] = files[flds[j].filename]
    BY <1>6, <1>7, <1>9 DEF Unlink, SoleOwners, Fits
  <2>2. i \in FldIds \ {k}
    BY SMT, <1>4, <1>10, <1>6, SlotAssumption DEF FldIds, NoId
  <2> QED BY <1>4, <2>1, <2>2
<1>12. ASSUME k # NoId PROVE AuxAllowed(s, u, d, f)
  <2>1. FileLen(s.files, f) = tbls[u].nR
    BY <1>8, <1>11 DEF FileLen
  <2>2. NnName[s.flds[d].name] # NoName /\ NnName[s.flds[d].name] \in FldNames
    BY SMT, <1>4, <1>6, <1>10, <1>12, NameAssumption DEF Named, UserNames
  <2>3. AuxSlot(s, d) # NoId
    <3>1. CASE s.flds[d].nn_fld_id > 0
      BY SMT, <3>1 DEF AuxSlot, NoId
    <3>2. CASE ~(s.flds[d].nn_fld_id > 0)
      <4>1. AuxSlot(s, d) = get_empty_fld(s.flds, NnName[s.flds[d].name])
        BY <3>2 DEF AuxSlot
      <4>2. k \in FldIds /\ s.flds[k].name = NoName
        BY SMT, <1>6, <1>10, <1>12 DEF NullFld
      <4> QED BY <2>2, <4>1, <4>2, GetEmptyFld
    <3> QED BY <3>1, <3>2
  <2> QED BY <2>1, <2>2, <2>3 DEF AuxAllowed
<1>13. CASE ~AuxAllowed(s, u, d, f) /\ FailWith(s)
  <2>1. k = NoId
    BY <1>12, <1>13
  <2>2. s = Store
    BY <2>1 DEF s
  <2> QED BY <1>13, <2>2, StoreOK, EndsConsistent
<1>14. CASE AuxAllowed(s, u, d, f) /\ Succeed(e)
  <2> DEFINE a  == AuxSlot(s, d)
             q  == NnFld(u, d, m, f)
             F1 == IF k # NoId THEN Zero([flds EXCEPT ![d].nn_fld_id = NoId], {k}) ELSE flds
             F2 == Zero(F1, {i})
             b  == [flds[d] EXCEPT !.nn_fld_id = NoId]
             G  == [[F2 EXCEPT ![a] = q] EXCEPT ![d].nn_fld_id = a]
  <2>1. Consistent(F1, s.files, tbls)
    <3>1. CASE k = NoId
      BY <1>4, <1>9, <3>1
    <3>2. CASE k # NoId
      <4>1. flds[d].nn_fld_id = k
        OBVIOUS
      <4> HIDE DEF k, d
      <4>2. Consistent(Zero([flds EXCEPT ![d].nn_fld_id = NoId], {k}), s.files, tbls)
        <5>1. d \in FldIds /\ k \in FldIds /\ Consistent(flds, files, tbls)
          BY <1>4, <1>6, <3>2
        <5>2. s.files \in [Files -> Nat \cup {Absent}]
          BY <1>10
        <5>3. \A j \in FldIds \ {k} : Named(flds, j) =>
                s.files[flds[j].filename] = files[flds[j].filename]
          BY <1>11
        <5> QED BY <4>1, <5>1, <5>2, <5>3, DropConsistent
      <4> QED BY <3>2, <4>2
    <3> QED BY <3>1, <3>2
  <2>2. \A j \in FldIds : F1[j] = IF j = k THEN NullFld ELSE IF j = d THEN b ELSE flds[j]
    <3>1. CASE k = NoId
      <4>1. b = flds[d]
        BY <1>4, <3>1 DEF FldRec
      <4>2. \A j \in FldIds : j # NoId
        BY SMT, SlotAssumption DEF FldIds, NoId
      <4> HIDE DEF b, k, d
      <4> QED BY <3>1, <4>1, <4>2
    <3>2. CASE k # NoId
      <4>1. F1 = Zero([flds EXCEPT ![d].nn_fld_id = NoId], {k})
        BY <3>2
      <4> HIDE DEF F1, k, d
      <4> QED BY <1>4, <4>1 DEF Zero
    <3> QED BY <3>1, <3>2
  <2>3. /\ b \in FldRec /\ b.name = m /\ b.tbl_id = u /\ b.parent_id = NoId
        /\ b.nn_fld_id = NoId /\ b.filename = flds[d].filename
    BY <1>4 DEF FldRec
  <2> HIDE DEF F1
  <2>4. i # k /\ d # k /\ NoId \notin FldIds
    BY SMT, <1>4, <1>6, SlotAssumption DEF FldIds, NoId
  <2>5. F1[i] = flds[i]
    BY <1>4, <1>5, <2>2, <2>4
  <2>6. Consistent(F2, s.files, tbls)
    <3>1. F1[i].nn_fld_id = NoId /\ F1[i].parent_id = NoId
      BY <1>2, <1>4, <2>5
    <3>2. {i} \in SUBSET FldIds
      BY <1>4
    <3>3. \A j \in {i} : /\ F1[j].nn_fld_id \in {i} \cup {NoId}
                         /\ F1[j].parent_id \in {i} \cup {NoId}
      BY <3>1
    <3> HIDE DEF i
    <3> QED BY <1>10, <2>1, <3>2, <3>3, ZeroConsistent
  <2>7. /\ \A j \in FldIds : F2[j] = IF j = i \/ j = k THEN NullFld
                                     ELSE IF j = d THEN b ELSE flds[j]
        /\ F2 \in [FldIds -> FldRec]
    BY <2>2, <2>6 DEF Zero, Consistent
  <2> HIDE DEF F2, b
  <2>8. NnName[m] # NoName /\ NnName[m] \in FldNames /\ a # NoId
    BY SMT, <1>4, <1>10, <1>14, NameAssumption DEF AuxAllowed, UserNames
  <2>9. a \in FldIds /\ s.flds[a].name = NoName
    <3>1. CASE s.flds[d].nn_fld_id > 0
      <4>1. a = k /\ k # NoId
        BY SMT, <1>10, <3>1 DEF AuxSlot, NoId
      <4> HIDE DEF a
      <4> QED BY SMT, <1>6, <1>10, <4>1 DEF NullFld
    <3>2. CASE ~(s.flds[d].nn_fld_id > 0)
      <4>1. a = get_empty_fld(s.flds, NnName[m])
        BY <1>4, <1>10, <3>2 DEF AuxSlot
      <4> QED BY <2>8, <4>1, GetEmptyFld
    <3> QED BY <3>1, <3>2
  <2>10. e.flds = Zero([[s.flds EXCEPT ![a] = q] EXCEPT ![d].nn_fld_id = a], {i})
         /\ e.files = s.files
    <3>1. s.flds[d].name = m
      BY <1>4, <1>10
    <3>2. add_aux_fld(s, u, d, f) =
            [s EXCEPT !.flds = [[@ EXCEPT ![a] = q] EXCEPT ![d].nn_fld_id = a]]
      BY <3>1 DEF add_aux_fld
    <3> HIDE DEF a, q, i, d
    <3> QED BY <1>9, <3>2 DEF Stores, e
  <2> HIDE DEF a
  <2>11. a # i /\ a # d
    BY <1>4, <1>10, <2>9 DEF Named
  <2>12. Consistent(G, s.files, tbls)
    <3>1. /\ F2[d] = b /\ ~Named(F2, a)
      <4>1. F2[d] = b
        BY <1>4, <1>5, <2>4, <2>7
      <4>2. F2[a].name = NoName
        BY <1>10, <2>7, <2>9, <2>11 DEF NullFld
      <4> QED BY <4>1, <4>2 DEF Named
    <3>2. /\ Named(F2, d) /\ F2[d].parent_id = NoId /\ F2[d].nn_fld_id = NoId
          /\ F2[d].name = m /\ F2[d].tbl_id = u
      BY <2>3, <3>1, NameAssumption DEF Named, UserNames
    <3>3. \A j \in FldIds : Named(F2, j) => F2[j].filename # f
      <4> SUFFICES ASSUME NEW j \in FldIds, Named(F2, j), F2[j].filename = f PROVE FALSE
        OBVIOUS
      <4>1. j # i /\ j # k
        BY SMT, <2>7 DEF Named, NullFld
      <4>2. Named(flds, j) /\ flds[j].filename = f
        BY <1>4, <2>3, <2>7, <4>1 DEF Named
      <4> QED BY <1>4, <1>7, <4>1, <4>2 DEF SoleOwners
    <3>4. q = NnFld(F2[d].tbl_id, d, F2[d].name, f)
      BY <3>2
    <3>5. s.files[f] = tbls[F2[d].tbl_id].nR /\ s.files[f] > 0
      BY <1>8, <1>11, <3>2
    <3>6. NnName[F2[d].name] # NoName
      BY <2>8, <3>2
    <3> HIDE DEF q, f, i, k, d
    <3>7. Consistent([[F2 EXCEPT ![a] = NnFld(F2[d].tbl_id, d, F2[d].name, f)]
                        EXCEPT ![d].nn_fld_id = a], s.files, tbls)
      BY <1>4, <1>8, <2>6, <2>9, <3>1, <3>2, <3>3, <3>5, <3>6, AuxConsistent
    <3> QED BY <3>4, <3>7
  <2>13. e.flds = G
    <3>1. [b EXCEPT !.nn_fld_id = a] = [flds[d] EXCEPT !.nn_fld_id = a]
      BY <1>4 DEF b, FldRec
    <3> HIDE DEF q, i, k, d
    <3>2. \A j \in FldIds : G[j] =
            IF j = d THEN [flds[d] EXCEPT !.nn_fld_id = a]
            ELSE IF j = a THEN q
            ELSE IF j = i \/ j = k THEN NullFld ELSE flds[j]
      BY <1>4, <1>5, <2>4, <2>7, <2>9, <2>11, <3>1
    <3>3. \A j \in FldIds : e.flds[j] =
            IF j = d THEN [flds[d] EXCEPT !.nn_fld_id = a]
            ELSE IF j = a THEN q
            ELSE IF j = i \/ j = k THEN NullFld ELSE flds[j]
      BY <1>4, <1>5, <1>10, <2>4, <2>9, <2>10, <2>11 DEF Zero
    <3>4. e.flds = [j \in FldIds |-> e.flds[j]]
      BY <2>10 DEF Zero
    <3>5. G = [j \in FldIds |-> G[j]]
      BY <2>7
    <3> HIDE DEF G
    <3> QED BY SMT, <3>2, <3>3, <3>4, <3>5
  <2> HIDE DEF G
  <2> QED BY <1>14, <2>10, <2>12, <2>13, EndsConsistent
<1> QED BY <1>2, <1>13, <1>14

=============================================================================
