------------------------- MODULE CatalogRoutines ----------------------------
(***************************************************************************)
(* What the searches for slots return, that add_fld and add_aux_fld keep   *)
(* the catalog consistent, and that the verbs on tables keep the invariant. *)
(***************************************************************************)
EXTENDS CatalogLemmas, WellFoundedInduction

USE ZenonT(30)

-----------------------------------------------------------------------------
(* Looking things up.                                                      *)

\* Every non-empty set of naturals has a least element.
LEMMA NatHasMin ==
  ASSUME NEW S \in SUBSET Nat, S # {}
  PROVE  \E i \in S : \A j \in S : i <= j
<1> DEFINE R == {ss \in Nat \X Nat : ss[1] < ss[2]}
<1>1. IsWellFoundedOn(R, Nat)
  BY NatLessThanWellFounded DEF OpToRel
<1>2. PICK i \in S : \A j \in S : <<j, i>> \notin R
  BY <1>1, WFMin
<1>3. ASSUME NEW j \in S PROVE i <= j
  <2>1. i \in Nat /\ j \in Nat
    OBVIOUS
  <2>2. ~(j < i)
    BY <1>2, <2>1
  <2> QED BY SMT, <2>1, <2>2
<1> QED BY <1>3

\* The first slot of a set is in the set, unless there is none.
LEMMA FirstIn ==
  ASSUME NEW S \in SUBSET Nat
  PROVE  /\ S = {} => First(S) = NoId
         /\ S # {} => First(S) \in S
BY NatHasMin DEF First

\* The cyclic scan of get_empty_tbl and get_empty_fld finds a slot of the set.
LEMMA FirstFromIn ==
  ASSUME NEW S \in SUBSET Nat, NEW start \in Nat, NEW len \in Nat \ {0}
  PROVE  /\ S = {} => FirstFrom(start, S, len) = NoId
         /\ S # {} => FirstFrom(start, S, len) \in S
<1> DEFINE dist(i) == (i - start) % len
           R == {dist(i) : i \in S}
<1>1. \A i \in S : dist(i) \in Nat
  BY SMT
<1>2. CASE S # {}
  <2>1. R \in SUBSET Nat /\ R # {}
    BY <1>1, <1>2
  <2>2. PICK r \in R : \A q \in R : r <= q
    BY <2>1, NatHasMin
  <2>3. \E i \in S : \A j \in S : dist(i) <= dist(j)
    BY <2>2
  <2> QED BY <1>2, <2>3 DEF FirstFrom
<1> QED BY <1>2 DEF FirstFrom

\* is_tbl returns the slot of a table of that name, or none if there is none.
LEMMA IsTbl ==
  ASSUME NEW T, NEW n
  PROVE  /\ is_tbl(T, n) # NoId => is_tbl(T, n) \in TblIds /\ T[is_tbl(T, n)].name = n
         /\ is_tbl(T, n) = NoId => \A t \in TblIds : T[t].name # n
<1> DEFINE S == {t \in TblIds : T[t].name = n}
<1>1. S \in SUBSET Nat
  BY SMT, SlotAssumption DEF TblIds
<1>2. NoId \notin S
  BY SMT, <1>1 DEF NoId
<1> QED BY <1>1, <1>2, FirstIn DEF is_tbl

\* is_fld returns a field of that table and name, or none if there is none.
LEMMA IsFld ==
  ASSUME NEW F, NEW t, NEW n
  PROVE  /\ is_fld(F, t, n) # NoId =>
              /\ is_fld(F, t, n) \in FldIds
              /\ F[is_fld(F, t, n)].tbl_id = t
              /\ F[is_fld(F, t, n)].name = n
         /\ is_fld(F, t, n) = NoId =>
              \A i \in FldIds : ~(F[i].tbl_id = t /\ F[i].name = n)
<1> DEFINE S == {i \in FldIds : F[i].tbl_id = t /\ F[i].name = n}
<1>1. S \in SUBSET Nat
  BY SMT, SlotAssumption DEF FldIds
<1>2. NoId \notin S
  BY SMT, <1>1 DEF NoId
<1> QED BY <1>1, <1>2, FirstIn DEF is_fld

\* get_empty_tbl returns an unnamed table slot whenever there is one.
LEMMA GetEmptyTbl ==
  ASSUME NEW T, NEW n \in TblNames
  PROVE  /\ get_empty_tbl(T, n) # NoId =>
              get_empty_tbl(T, n) \in TblIds /\ T[get_empty_tbl(T, n)].name = NoName
         /\ get_empty_tbl(T, n) = NoId => \A t \in TblIds : T[t].name # NoName
<1> DEFINE S == {t \in TblIds : T[t].name = NoName}
<1>1. S \in SUBSET Nat
  BY SMT, SlotAssumption DEF TblIds
<1>2. NoId \notin S
  BY SMT, <1>1 DEF NoId
<1>3. HashTbl[n] % NumTbl \in Nat
  BY SMT, HashAssumption, SlotAssumption
<1>4. /\ S = {} => FirstFrom(HashTbl[n] % NumTbl, S, NumTbl) = NoId
      /\ S # {} => FirstFrom(HashTbl[n] % NumTbl, S, NumTbl) \in S
  BY <1>1, <1>3, SlotAssumption, FirstFromIn
<1> QED BY <1>2, <1>4 DEF get_empty_tbl

\* get_empty_fld returns an unnamed field slot whenever there is one.
LEMMA GetEmptyFld ==
  ASSUME NEW F, NEW n \in FldNames
  PROVE  /\ get_empty_fld(F, n) # NoId =>
              get_empty_fld(F, n) \in FldIds /\ F[get_empty_fld(F, n)].name = NoName
         /\ get_empty_fld(F, n) = NoId => \A i \in FldIds : F[i].name # NoName
<1> DEFINE S == {i \in FldIds : F[i].name = NoName}
<1>1. S \in SUBSET Nat
  BY SMT, SlotAssumption DEF FldIds
<1>2. NoId \notin S
  BY SMT, <1>1 DEF NoId
<1>3. HashFld[n] % NumFld \in Nat
  BY SMT, HashAssumption, SlotAssumption
<1>4. /\ S = {} => FirstFrom(HashFld[n] % NumFld, S, NumFld) = NoId
      /\ S # {} => FirstFrom(HashFld[n] % NumFld, S, NumFld) \in S
  BY <1>1, <1>3, SlotAssumption, FirstFromIn
<1> QED BY <1>2, <1>4 DEF get_empty_fld

-----------------------------------------------------------------------------
(* Stores, and the routines that turn one into another.                    *)

Stores == [flds : [FldIds -> FldRec], files : [Files -> Nat \cup {Absent}]]

\* The slot d that add_fld is about to fill in the store c: the old field of
\* that name is gone with its null flags and its files, and all other fields
\* are as they were in s.
Made(s, T, t, n, c, d) ==
  /\ c \in Stores
  /\ Consistent(c.flds, c.files, T)
  /\ \A j \in FldIds : ~(c.flds[j].tbl_id = t /\ c.flds[j].name = n)
  /\ \A j \in FldIds : Named(c.flds, j) =>
       /\ c.flds[j] = s.flds[j]
       /\ c.files[s.flds[j].filename] = s.files[s.flds[j].filename]
  /\ \A j \in FldIds :
       ~Named(s.flds, j) \/ s.flds[j].tbl_id # t => c.flds[j] = s.flds[j]
  /\ \A f \in Files :
       \/ c.files[f] = s.files[f]
       \/ \E j \in FldIds : Named(s.flds, j) /\ s.flds[j].filename = f
  /\ d # NoId => d \in FldIds /\ ~Named(c.flds, d)

\* add_fld leaves a consistent catalog and a free slot when it has
\* deleted the old field of that name.
LEMMA ClearedConsistent ==
  ASSUME NEW s \in Stores, NEW T, Consistent(s.flds, s.files, T),
         NEW t \in TblIds, NEW n \in UserNames
  PROVE  Made(s, T, t, n, Cleared(s, t, n), AddSlot(s, t, n))
<1> DEFINE F == s.flds
           c == Cleared(s, t, n)
           i == is_fld(F, t, n)
<1>1. n \in FldNames /\ n # NoName
  BY NameAssumption DEF UserNames
<1>2. CASE i = NoId
  <2>1. c = s /\ AddSlot(s, t, n) = get_empty_fld(F, n)
    BY <1>2 DEF Cleared, AddSlot
  <2>2. \A j \in FldIds : ~(F[j].tbl_id = t /\ F[j].name = n)
    BY SMT, <1>2, IsFld
  <2>3. AddSlot(s, t, n) # NoId =>
          AddSlot(s, t, n) \in FldIds /\ F[AddSlot(s, t, n)].name = NoName
    BY <1>1, <2>1, GetEmptyFld
  <2> QED BY <2>1, <2>2, <2>3 DEF Named, Made
<1>3. CASE i # NoId
  <2>1. i \in FldIds /\ F[i].tbl_id = t /\ F[i].name = n
    BY SMT, <1>3, IsFld
  <2>2. Named(F, i) /\ F[i].parent_id = NoId
    BY SMT, <1>1, <2>1, AuxNotUser DEF Named
  <2>3. c = del_fld(s, i) /\ AddSlot(s, t, n) = i
    BY <1>3 DEF Cleared, AddSlot
  <2>4. /\ Consistent(c.flds, c.files, T)
        /\ i \in Doomed(F, i) /\ Doomed(F, i) \in SUBSET FldIds
        /\ \A j \in Doomed(F, i) : Named(F, j)
        /\ \A j \in FldIds : c.flds[j] = IF j \in Doomed(F, i) THEN NullFld ELSE F[j]
        /\ \A j \in FldIds : j \notin Doomed(F, i) /\ Named(F, j) =>
                               c.files[F[j].filename] = s.files[F[j].filename]
        /\ \A f \in Files : \/ c.files[f] = s.files[f]
                            \/ \E j \in Doomed(F, i) : F[j].filename = f
    BY SMT, <2>1, <2>2, <2>3, DelFldConsistent
  <2>5. c \in Stores
    <3>1. c.flds \in [FldIds -> FldRec] /\ c.files \in [Files -> Nat \cup {Absent}]
      BY <2>4 DEF Consistent
    <3>2. c = [flds |-> c.flds, files |-> c.files]
      BY <2>3 DEF del_fld
    <3> QED BY <3>1, <3>2 DEF Stores
  <2>6. NullFld.name = NoName
    BY DEF NullFld
  <2>7. UniqueInTbl(F) /\ Links(F)
    BY DEF Consistent
  <2>8. \A j \in Doomed(F, i) : F[j].tbl_id = t
    BY <2>1, <2>7 DEF Doomed, Links
  <2>9. \A j \in FldIds : F[j].tbl_id = t /\ F[j].name = n => j = i
    BY <1>1, <2>1, <2>2, <2>7 DEF UniqueInTbl
  <2> HIDE DEF c
  <2> QED BY <1>1, <2>1, <2>2, <2>3, <2>4, <2>5, <2>6, <2>8, <2>9 DEF Named, Made, c
<1> QED BY <1>2, <1>3

\* add_fld with a file that no field owns.
LEMMA AddFldConsistent ==
  ASSUME NEW s \in Stores, Consistent(s.flds, s.files, tbls),
         NEW t \in TblIds, tbls[t].name # NoName,
         NEW n \in UserNames, NEW f, NEW ty \in FldTypes,
         AddAllowed(s, t, n, f, ty),
         \A i \in FldIds : Named(s.flds, i) => s.flds[i].filename # f
  PROVE  Consistent(add_fld(s, t, n, f, ty).flds, add_fld(s, t, n, f, ty).files, tbls)
<1> DEFINE c == Cleared(s, t, n)
           k == AddSlot(s, t, n)
           r == NewFld(t, n, f, ty)
<1>1. /\ FileLen(s.files, f) > 0
      /\ FileLen(s.files, f) = Width[ty] * tbls[t].nR
      /\ k # NoId
  <2>1. is_fld(s.flds, t, n) # NoId => k # NoId
    BY DEF AddSlot
  <2>2. is_fld(s.flds, t, n) = NoId => k = get_empty_fld(s.flds, n)
    BY DEF AddSlot
  <2> QED BY <2>1, <2>2 DEF AddAllowed, chk_file_size
<1>2. f \in Files /\ s.files[f] = Width[ty] * tbls[t].nR /\ s.files[f] > 0
  BY SMT, <1>1 DEF FileLen, Absent
<1>3. /\ c \in Stores /\ Consistent(c.flds, c.files, tbls)
      /\ \A j \in FldIds : ~(c.flds[j].tbl_id = t /\ c.flds[j].name = n)
      /\ \A j \in FldIds : Named(c.flds, j) => c.flds[j] = s.flds[j]
      /\ c.files[f] = s.files[f]
      /\ k \in FldIds /\ ~Named(c.flds, k)
  <2>1. Made(s, tbls, t, n, c, k)
    BY ClearedConsistent
  <2> HIDE DEF c, k
  <2> QED BY <1>1, <1>2, <2>1 DEF Made
<1>4. /\ r \in FldRec /\ r.name = n /\ r.tbl_id = t /\ r.parent_id = NoId
      /\ r.nn_fld_id = NoId /\ r.dict_tbl_id = NoId /\ r.fldtype = ty /\ r.filename = f
  BY <1>2 DEF NewFld, NullFld, FldRec, UserNames
<1>5. /\ add_fld(s, t, n, f, ty).flds = [c.flds EXCEPT ![k] = r]
      /\ add_fld(s, t, n, f, ty).files = c.files
  <2> HIDE DEF c, k, r
  <2> QED BY <1>3 DEF add_fld, Stores, c, k, r
<1>6. \A j \in FldIds : Named(c.flds, j) => c.flds[j].filename # f
  BY <1>3 DEF Named
<1> HIDE DEF c, k, r
<1> QED BY SMT, <1>2, <1>3, <1>4, <1>5, <1>6, NewConsistent

\* add_aux_fld for a field without null flags, with a file that none owns.
LEMMA AddAuxFldConsistent ==
  ASSUME NEW s \in Stores, Consistent(s.flds, s.files, tbls),
         NEW p \in FldIds, Named(s.flds, p),
         s.flds[p].parent_id = NoId, s.flds[p].nn_fld_id = NoId,
         NEW t, s.flds[p].tbl_id = t,
         NEW f, AuxAllowed(s, t, p, f), FileLen(s.files, f) > 0,
         \A i \in FldIds : Named(s.flds, i) => s.flds[i].filename # f
  PROVE  Consistent(add_aux_fld(s, t, p, f).flds, add_aux_fld(s, t, p, f).files, tbls)
<1> DEFINE k == AuxSlot(s, p)
<1>1. k = get_empty_fld(s.flds, NnName[s.flds[p].name])
  BY SMT DEF AuxSlot, NoId
<1>2. s.flds[p].name \in FldNames
  BY DEF Consistent, Named, FldRec
<1>3. NnName[s.flds[p].name] # NoName /\ NnName[s.flds[p].name] \in FldNames /\ k # NoId
  BY <1>2, NameAssumption DEF AuxAllowed
<1>4. k \in FldIds /\ ~Named(s.flds, k)
  BY <1>1, <1>3, GetEmptyFld DEF Named
<1>5. f \in Files /\ s.files[f] = tbls[t].nR /\ s.files[f] > 0
  BY SMT DEF FileLen, Absent, AuxAllowed
<1>6. /\ add_aux_fld(s, t, p, f).flds =
           [[s.flds EXCEPT ![k] = NnFld(s.flds[p].tbl_id, p, s.flds[p].name, f)]
              EXCEPT ![p].nn_fld_id = k]
      /\ add_aux_fld(s, t, p, f).files = s.files
  BY DEF add_aux_fld, Stores
<1> HIDE DEF k
<1>7. s.files[f] = tbls[s.flds[p].tbl_id].nR
  BY <1>5
<1>8. Consistent([[s.flds EXCEPT ![k] = NnFld(s.flds[p].tbl_id, p, s.flds[p].name, f)]
                    EXCEPT ![p].nn_fld_id = k], s.files, tbls)
  BY <1>3, <1>4, <1>5, <1>7, AuxConsistent
<1> QED BY <1>6, <1>8

-----------------------------------------------------------------------------
(* Consistency under documented use: one lemma per verb.                   *)

\* The store a verb starts from is consistent.
LEMMA StoreOK ==
  ASSUME CatalogInv
  PROVE  /\ Store \in Stores /\ Store.flds = flds /\ Store.files = files
         /\ Consistent(flds, files, tbls)
         /\ Consistent(Store.flds, Store.files, tbls)
BY DEF CatalogInv, Consistent, Store, Stores

\* A verb that leaves consistent tables behind keeps the invariant.
LEMMA EndsConsistent ==
  /\ \A s, T, rc :
       Leave(s, T, rc) /\ rc \in {0, -1} /\ Consistent(s.flds, s.files, T) => CatalogInv'
  /\ \A s : Succeed(s) /\ Consistent(s.flds, s.files, tbls) => CatalogInv'
  /\ \A s : FailWith(s) /\ Consistent(s.flds, s.files, tbls) => CatalogInv'
  /\ CatalogInv /\ Fail => CatalogInv'
BY StoreOK DEF Leave, Succeed, FailWith, Fail, CatalogInv

\* Freeing table slot t, or giving it a new record, once del_tbl is through.
LEMMA ReplaceTbl ==
  ASSUME CatalogInv, NEW t \in TblIds, ~InUse(flds, t),
         NEW U \in [TblIds -> TblRec], UniqueNames(U),
         \A u \in TblIds : u # t => /\ tbls[u].name # NoName => U[u].name # NoName
                                    /\ U[u].nR = tbls[u].nR
  PROVE  Consistent(del_tbl(Store, t).flds, del_tbl(Store, t).files, U)
<1> DEFINE G == del_tbl(Store, t).flds
           E == del_tbl(Store, t).files
<1>1. /\ Consistent(G, E, tbls)
      /\ \A i \in FldIds : Named(G, i) => G[i].tbl_id # t
      /\ \A i \in FldIds : G[i] \in {flds[i], NullFld}
  BY StoreOK, DelTblConsistent
<1> HIDE DEF G, E
<1>2. G \in [FldIds -> FldRec] /\ Housed(G, tbls) /\ LiveDicts(G, tbls)
  BY <1>1 DEF Consistent
<1>3. \A i \in FldIds : Named(G, i) => G[i].tbl_id \in TblIds \ {t}
  BY <1>1, <1>2 DEF Housed, FldRec
<1>4. \A i \in FldIds : G[i].dict_tbl_id # NoId => G[i].dict_tbl_id \in TblIds \ {t}
  BY SMT, <1>1, <1>2 DEF LiveDicts, InUse, NullFld
<1>5. \A i \in FldIds : Named(G, i) => /\ U[G[i].tbl_id].name # NoName
                                       /\ U[G[i].tbl_id].nR = tbls[G[i].tbl_id].nR
  BY <1>2, <1>3 DEF Housed
<1>6. \A i \in FldIds : G[i].dict_tbl_id # NoId => U[G[i].dict_tbl_id].name # NoName
  BY <1>2, <1>4 DEF LiveDicts
<1> QED BY <1>1, <1>5, <1>6, TblConsistent DEF G, E

\* add_tbl keeps the invariant: a table it replaces has no users and takes
\* its fields along.
LEMMA AddTblOK ==
  ASSUME CatalogInv, NEW n \in TblNames, NEW nR \in RowCounts, AddTbl(n, nR)
  PROVE  CatalogInv'
<1> DEFINE t == is_tbl(tbls, n)
           k == IF t # NoId THEN t ELSE get_empty_tbl(tbls, n)
           U == [tbls EXCEPT ![k] = [name |-> n, nR |-> nR]]
<1>1. \/ Fail
      \/ t # NoId /\ ~InUse(flds, t) /\ Leave(del_tbl(Store, t), U, 0)
      \/ t = NoId /\ k # NoId /\ Leave(Store, U, 0)
  BY DEF AddTbl
<1>2. tbls \in [TblIds -> TblRec] /\ UniqueNames(tbls)
  BY DEF CatalogInv, Consistent
<1>3. [name |-> n, nR |-> nR] \in TblRec /\ n # NoName
  BY RowAssumption, NameAssumption DEF TblRec
<1>4. CASE t # NoId /\ ~InUse(flds, t) /\ Leave(del_tbl(Store, t), U, 0)
  <2>1. k = t /\ t \in TblIds /\ tbls[t].name = n
    BY <1>4, IsTbl
  <2> HIDE DEF t, k
  <2>2. U \in [TblIds -> TblRec] /\ \A u \in TblIds : u # t => U[u] = tbls[u]
    BY <1>2, <1>3, <2>1
  <2>3. \A u \in TblIds : U[u].name = tbls[u].name
    BY <1>2, <2>1
  <2>4. UniqueNames(U)
    BY SMT, <1>2, <2>3 DEF UniqueNames
  <2>5. Consistent(del_tbl(Store, t).flds, del_tbl(Store, t).files, U)
    <3> HIDE DEF U
    <3> QED BY <1>4, <2>1, <2>2, <2>4, ReplaceTbl
  <2> QED BY <1>4, <2>5, EndsConsistent
<1>5. CASE t = NoId /\ k # NoId /\ Leave(Store, U, 0)
  <2>1. k \in TblIds /\ tbls[k].name = NoName /\ \A u \in TblIds : tbls[u].name # n
    BY <1>5, IsTbl, GetEmptyTbl
  <2> HIDE DEF t, k
  <2>2. U \in [TblIds -> TblRec] /\ \A u \in TblIds : u # k => U[u] = tbls[u]
    BY <1>2, <1>3, <2>1
  <2>3. U[k].name = n
    BY <1>2, <2>1
  <2> HIDE DEF U
  <2>4. UniqueNames(U)
    BY <1>2, <2>1, <2>2, <2>3 DEF UniqueNames
  <2>5. Housed(flds, tbls) /\ LiveDicts(flds, tbls) /\ flds \in [FldIds -> FldRec]
    BY DEF CatalogInv, Consistent
  <2>6. \A i \in FldIds : Named(flds, i) => flds[i].tbl_id \in TblIds \ {k}
    BY <2>1, <2>5 DEF Housed, FldRec
  <2>7. \A i \in FldIds : Named(flds, i) =>
          /\ U[flds[i].tbl_id].name # NoName
          /\ U[flds[i].tbl_id].nR = tbls[flds[i].tbl_id].nR
    BY <2>2, <2>5, <2>6 DEF Housed
  <2>8. \A i \in FldIds : flds[i].dict_tbl_id # NoId => U[flds[i].dict_tbl_id].name # NoName
    BY <2>1, <2>2, <2>5 DEF LiveDicts
  <2>9. Consistent(Store.flds, Store.files, U)
    BY SMT, <2>2, <2>4, <2>7, <2>8, TblConsistent, StoreOK
  <2> QED BY <1>5, <2>9, EndsConsistent
<1> QED BY <1>1, <1>4, <1>5, EndsConsistent

\* del_tbl keeps the invariant.
LEMMA DelTblOK ==
  ASSUME CatalogInv, NEW n \in TblNames, DelTbl(n)
  PROVE  CatalogInv'
<1> DEFINE t == is_tbl(tbls, n)
           U == [tbls EXCEPT ![t] = NullTbl]
<1>1. \/ Succeed(Store) \/ Fail
      \/ t # NoId /\ ~InUse(flds, t) /\ Leave(del_tbl(Store, t), U, 0)
  BY DEF DelTbl
<1>2. tbls \in [TblIds -> TblRec] /\ UniqueNames(tbls) /\ NullTbl \in TblRec
  BY DEF CatalogInv, Consistent, NullTbl, TblRec
<1>3. CASE t # NoId /\ ~InUse(flds, t) /\ Leave(del_tbl(Store, t), U, 0)
  <2>1. t \in TblIds
    BY <1>3, IsTbl
  <2> HIDE DEF t
  <2>2. /\ U \in [TblIds -> TblRec] /\ U[t].name = NoName
        /\ \A u \in TblIds : u # t => U[u] = tbls[u]
    BY <1>2, <2>1 DEF NullTbl
  <2> HIDE DEF U
  <2>3. UniqueNames(U)
    BY <1>2, <2>2 DEF UniqueNames
  <2>4. Consistent(del_tbl(Store, t).flds, del_tbl(Store, t).files, U)
    BY <1>3, <2>1, <2>2, <2>3, ReplaceTbl
  <2> QED BY <1>3, <2>4, EndsConsistent
<1> QED BY <1>1, <1>3, EndsConsistent, StoreOK

\* rename_tbl keeps the invariant if no field uses the table that loses
\* its name.
LEMMA RenameTblOK ==
  ASSUME CatalogInv, NEW old \in TblNames, NEW new \in TblNames,
         ~HasUsers(new), RenameTbl(old, new)
  PROVE  CatalogInv'
<1> DEFINE t == is_tbl(tbls, old)
           u == is_tbl(tbls, new)
           U == [tbls EXCEPT ![t].name = new]
           V == [tbls EXCEPT ![u] = NullTbl, ![t].name = new]
<1>1. \/ Fail
      \/ new # old /\ t # NoId /\ u = NoId /\ Leave(Store, U, 0)
      \/ /\ new # old /\ t # NoId /\ u # NoId /\ ~InUse(flds, u)
         /\ Leave(del_tbl(Store, u), V, 0)
  BY DEF RenameTbl, HasUsers
<1>2. tbls \in [TblIds -> TblRec] /\ UniqueNames(tbls) /\ NullTbl \in TblRec
  BY DEF CatalogInv, Consistent, NullTbl, TblRec
<1>3. new # NoName /\ old # NoName
  BY NameAssumption
<1>4. CASE new # old /\ t # NoId /\ u = NoId /\ Leave(Store, U, 0)
  <2>1. t \in TblIds /\ tbls[t].name = old /\ \A w \in TblIds : tbls[w].name # new
    BY <1>4, IsTbl
  <2> HIDE DEF t, u
  <2>2. /\ U \in [TblIds -> TblRec] /\ U[t].name = new /\ U[t].nR = tbls[t].nR
        /\ \A w \in TblIds : w # t => U[w] = tbls[w]
    BY <1>2, <2>1 DEF TblRec
  <2> HIDE DEF U
  <2>3. UniqueNames(U)
    BY SMT, <1>2, <2>1, <2>2 DEF UniqueNames
  <2>4. Housed(flds, tbls) /\ LiveDicts(flds, tbls) /\ flds \in [FldIds -> FldRec]
    BY DEF CatalogInv, Consistent
  <2>5. \A i \in FldIds : Named(flds, i) => flds[i].tbl_id \in TblIds
    BY <2>4 DEF Housed, FldRec
  <2>6. \A i \in FldIds : Named(flds, i) =>
          /\ U[flds[i].tbl_id].name # NoName
          /\ U[flds[i].tbl_id].nR = tbls[flds[i].tbl_id].nR
    BY <1>3, <2>2, <2>4, <2>5 DEF Housed
  <2>7. \A i \in FldIds : flds[i].dict_tbl_id # NoId => U[flds[i].dict_tbl_id].name # NoName
    BY <1>3, <2>2, <2>4 DEF LiveDicts
  <2>8. Consistent(Store.flds, Store.files, U)
    BY SMT, <2>2, <2>3, <2>6, <2>7, TblConsistent, StoreOK
  <2> QED BY <1>4, <2>8, EndsConsistent
<1>5. CASE /\ new # old /\ t # NoId /\ u # NoId /\ ~InUse(flds, u)
           /\ Leave(del_tbl(Store, u), V, 0)
  <2>1. /\ t \in TblIds /\ tbls[t].name = old
        /\ u \in TblIds /\ tbls[u].name = new
    BY <1>5, IsTbl
  <2> HIDE DEF t, u
  <2>2. t # u
    BY <1>5, <2>1
  <2>3. /\ V \in [TblIds -> TblRec] /\ V[t].name = new /\ V[t].nR = tbls[t].nR
        /\ V[u].name = NoName
        /\ \A w \in TblIds : w # t /\ w # u => V[w] = tbls[w]
    BY <1>2, <2>1, <2>2 DEF TblRec, NullTbl
  <2> HIDE DEF V
  <2>4. UniqueNames(V)
    BY SMT, <1>2, <2>1, <2>2, <2>3 DEF UniqueNames
  <2>5. Consistent(del_tbl(Store, u).flds, del_tbl(Store, u).files, V)
    BY <1>3, <1>5, <2>1, <2>3, <2>4, ReplaceTbl
  <2> QED BY <1>5, <2>5, EndsConsistent
<1> QED BY <1>1, <1>4, <1>5, EndsConsistent

\* set_nR keeps the invariant on a table without fields.
LEMMA SetNROK ==
  ASSUME CatalogInv, NEW n \in TblNames, NEW nR \in RowCounts,
         ~HasFields(n), SetNR(n, nR)
  PROVE  CatalogInv'
<1> DEFINE t == is_tbl(tbls, n)
           U == [tbls EXCEPT ![t].nR = nR]
<1>1. Fail \/ (t # NoId /\ Leave(Store, U, 0))
  BY DEF SetNR
<1>2. CASE t # NoId /\ Leave(Store, U, 0)
  <2>1. t \in TblIds /\ nR \in Nat /\ \A i \in FldIds : flds[i].tbl_id # t
    BY <1>2, IsTbl, RowAssumption DEF HasFields
  <2> HIDE DEF t
  <2>2. /\ tbls \in [TblIds -> TblRec] /\ UniqueNames(tbls)
        /\ Housed(flds, tbls) /\ LiveDicts(flds, tbls) /\ flds \in [FldIds -> FldRec]
    BY DEF CatalogInv, Consistent
  <2>3. /\ U \in [TblIds -> TblRec]
        /\ \A u \in TblIds : U[u].name = tbls[u].name /\ (u # t => U[u] = tbls[u])
    BY <2>1, <2>2 DEF TblRec
  <2> HIDE DEF U
  <2>4. UniqueNames(U)
    BY <2>2, <2>3 DEF UniqueNames
  <2>5. \A i \in FldIds : Named(flds, i) => flds[i].tbl_id \in TblIds \ {t}
    BY <2>1, <2>2 DEF Housed, FldRec
  <2>6. \A i \in FldIds : Named(flds, i) =>
          /\ U[flds[i].tbl_id].name # NoName
          /\ U[flds[i].tbl_id].nR = tbls[flds[i].tbl_id].nR
    BY <2>2, <2>3, <2>5 DEF Housed
  <2>7. \A i \in FldIds : flds[i].dict_tbl_id # NoId => U[flds[i].dict_tbl_id].name # NoName
    BY <2>2, <2>3 DEF LiveDicts
  <2>8. Consistent(Store.flds, Store.files, U)
    BY SMT, <2>3, <2>4, <2>6, <2>7, TblConsistent, StoreOK
  <2> QED BY <1>2, <2>8, EndsConsistent
<1> QED BY <1>1, <1>2, EndsConsistent

=============================================================================
