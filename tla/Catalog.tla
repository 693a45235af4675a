------------------------------ MODULE Catalog ------------------------------
(***************************************************************************)
(* The meta data of a q document root and the verbs that change it.        *)
(*                                                                         *)
(* A document root is a table of tables (g_tbls), a table of fields        *)
(* (g_flds), both of fixed length and addressed by slot number, and a      *)
(* directory of data files.  Every q command is one process: it maps the   *)
(* two tables, runs one verb to its end and leaves.  There is no undo: a   *)
(* verb that fails half way leaves what it has stored and unlinked so far. *)
(* Each verb is therefore ONE action here, and each of its early exits is  *)
(* a disjunct of that action with the effects made up to that exit.        *)
(*                                                                         *)
(* Left out, because no verb ever sets them: is_external (always false)    *)
(* and alias_of_fld_id (always negative).  auxtype is nn exactly when      *)
(* parent_id >= 0, so parent_id stands for both.  All negative ids mean    *)
(* "none" to the code and are NoId here.  All data files live in the       *)
(* default data directory.  Sort and count caches are not kept here.       *)
(***************************************************************************)
EXTENDS Integers

CONSTANTS
  NumTbl,     \* g_n_tbl, the number of slots of docroot.tbls
  NumFld,     \* g_n_fld, the number of slots of docroot.flds
  TblNames,   \* names chk_tbl_name accepts
  FldNames,   \* names chk_fld_name accepts
  NnName,     \* mk_name_aux_fld: "_nn_" put before a name, or NoName
              \* when the result is longer than MAX_LEN_FLD_NAME
  HashTbl,    \* hash_string_UI4 of a table name
  HashFld,    \* hash_string_UI4 of a field name
  FldTypes,   \* the field types in use
  RowCounts,  \* the row counts users give to add_tbl and set_nR
  Files,      \* names of data files
  FileLens,   \* the lengths of the files users bring along
  DictIds,    \* the values users give to dict_tbl_id
  LenGiven,   \* whether users give add_fld a length, for any type
  InDataDir   \* TRUE iff q is run with the data directory as its cwd

VARIABLES
  tbls,       \* g_tbls: slot -> table record
  flds,       \* g_flds: slot -> field record
  files,      \* the data directory: file name -> its length, or Absent
  status      \* what the last verb returned

vars == <<tbls, flds, files, status>>

NoName == ""
NoId   == -1
Absent == -1

TblIds == 0 .. NumTbl - 1
FldIds == 0 .. NumFld - 1

\* get_fld_sz: bytes per value of the fixed-width types.
Width == [I1 |-> 1, I2 |-> 2, I4 |-> 4, I8 |-> 8, F4 |-> 4, F8 |-> 8]

ASSUME SlotAssumption == NumTbl \in Nat \ {0} /\ NumFld \in Nat \ {0}
ASSUME NameAssumption ==
  /\ NoName \notin TblNames /\ NoName \notin FldNames
  /\ NnName \in [FldNames -> FldNames \cup {NoName}]
  /\ \A m, n \in FldNames :
        NnName[m] = NnName[n] /\ NnName[m] # NoName => m = n
ASSUME HashAssumption ==
  HashTbl \in [TblNames -> Nat] /\ HashFld \in [FldNames -> Nat]
ASSUME TypeAssumption == FldTypes \subseteq DOMAIN Width /\ "I1" \in FldTypes
ASSUME RowAssumption  == RowCounts \subseteq Nat
ASSUME FileAssumption == NoName \notin Files /\ FileLens \subseteq Nat
ASSUME ArgAssumption  == DictIds \subseteq Nat \cup {NoId} /\ LenGiven \subseteq BOOLEAN
ASSUME CwdAssumption  == InDataDir \in BOOLEAN

NullTbl == [name |-> NoName, nR |-> 0]

NullFld == [name |-> NoName, tbl_id |-> NoId, parent_id |-> NoId,
            nn_fld_id |-> NoId, dict_tbl_id |-> NoId, fldtype |-> "none",
            filename |-> NoName]

TblRec == [name : TblNames \cup {NoName}, nR : Nat]

FldRec == [name : FldNames \cup {NoName}, tbl_id : TblIds \cup {NoId},
           parent_id : FldIds \cup {NoId}, nn_fld_id : FldIds \cup {NoId},
           dict_tbl_id : TblIds \cup {NoId, NumTbl},
           fldtype : FldTypes \cup {"none"}, filename : Files \cup {NoName}]

-----------------------------------------------------------------------------
(* Looking things up.                                                      *)

First(S) == IF S = {} THEN NoId ELSE CHOOSE i \in S : \A j \in S : i <= j

\* Mutant: the scan starts at slot 1.
is_tbl_SkipsSlot0(T, n) == First({t \in TblIds : t > 0 /\ T[t].name = n})

is_tbl(T, n) == First({t \in TblIds : T[t].name = n})

is_fld(F, t, n) == First({i \in FldIds : F[i].tbl_id = t /\ F[i].name = n})

\* Mutant: a full table yields the slot past the end.
FirstFrom_PastEnd(start, S, len) ==
  IF S = {} THEN len
  ELSE CHOOSE i \in S : \A j \in S : (i - start) % len <= (j - start) % len

\* get_empty_tbl and get_empty_fld: the first unnamed slot at or after the
\* hashed one, cyclically.
FirstFrom(start, S, len) ==
  IF S = {} THEN NoId
  ELSE CHOOSE i \in S : \A j \in S : (i - start) % len <= (j - start) % len

get_empty_tbl(T, n) ==
  FirstFrom(HashTbl[n] % NumTbl, {t \in TblIds : T[t].name = NoName}, NumTbl)

get_empty_fld(F, n) ==
  FirstFrom(HashFld[n] % NumFld, {i \in FldIds : F[i].name = NoName}, NumFld)

\* The length rs_mmap reports for a file; a missing one cannot be mapped.
FileLen(D, f) == IF f \in Files THEN D[f] ELSE Absent

\* Mutant: any file that is not empty will do.
chk_file_size_Any(D, f, nR, ty) == FileLen(D, f) > 0

\* chk_file_size: a missing, an empty and a wrongly sized file are refused.
chk_file_size(D, f, nR, ty) == FileLen(D, f) > 0 /\ FileLen(D, f) = Width[ty] * nR

-----------------------------------------------------------------------------
(* The routines the verbs share.  A store is [flds |-> .., files |-> ..].   *)

Unlink(D, S) == [f \in Files |-> IF f \in S THEN Absent ELSE D[f]]

\* Mutant: zero_fld_rec forgets the file name.
Zero_KeepsFile(F, S) ==
  [i \in FldIds |-> IF i \in S THEN [NullFld EXCEPT !.filename = F[i].filename]
                    ELSE F[i]]

Zero(F, S) == [i \in FldIds |-> IF i \in S THEN NullFld ELSE F[i]]

\* Mutant: del_fld leaves the null flags behind.
Doomed_KeepsNn(F, i) == {i}

\* The slots del_fld clears: the field and the one its nn_fld_id names.
Doomed(F, i) == {i} \cup ({F[i].nn_fld_id} \ {NoId})

\* An external call refuses an auxiliary field whose parent slot is in use.
Deletable(F, i) ==
  ~(F[i].parent_id # NoId /\ F[F[i].parent_id].name # NoName)

del_fld(s, i) ==
  [flds  |-> Zero(s.flds, Doomed(s.flds, i)),
   files |-> Unlink(s.files, {s.flds[j].filename : j \in Doomed(s.flds, i)})]

\* Where these fail, add_fld returns an error and has changed nothing.
AddAllowed(s, t, n, f, ty) ==
  /\ chk_file_size(s.files, f, tbls[t].nR, ty)
  /\ LET i == is_fld(s.flds, t, n)
     IN IF i # NoId THEN Deletable(s.flds, i)
                    ELSE get_empty_fld(s.flds, n) # NoId

\* The slot add_fld fills, and the store once the slot has been made free.
AddSlot(s, t, n) ==
  LET i == is_fld(s.flds, t, n)
  IN IF i # NoId THEN i ELSE get_empty_fld(s.flds, n)

Cleared(s, t, n) ==
  LET i == is_fld(s.flds, t, n) IN IF i # NoId THEN del_fld(s, i) ELSE s

NewFld(t, n, f, ty) ==
  [NullFld EXCEPT !.name = n, !.tbl_id = t, !.fldtype = ty, !.filename = f]

add_fld(s, t, n, f, ty) ==
  [Cleared(s, t, n) EXCEPT !.flds[AddSlot(s, t, n)] = NewFld(t, n, f, ty)]

\* add_fld given a length for a type that has none: it has replaced the old
\* record when it gives up, and has not yet named the new one.
AddFldBadLen(s, t, n, ty) ==
  [Cleared(s, t, n) EXCEPT
     !.flds[AddSlot(s, t, n)] = [NullFld EXCEPT !.tbl_id = t, !.fldtype = ty]]

\* add_aux_fld reuses the present nn slot unless that is slot 0.
AuxSlot(s, p) ==
  IF s.flds[p].nn_fld_id > 0 THEN s.flds[p].nn_fld_id
  ELSE get_empty_fld(s.flds, NnName[s.flds[p].name])

AuxAllowed(s, t, p, f) ==
  /\ FileLen(s.files, f) = tbls[t].nR
  /\ NnName[s.flds[p].name] # NoName
  /\ AuxSlot(s, p) # NoId

NnFld(t, p, n, f) == [NewFld(t, NnName[n], f, "I1") EXCEPT !.parent_id = p]

\* Mutant: the parent is not told of its null flags.
add_aux_fld_OneWay(s, t, p, f) ==
  [s EXCEPT !.flds[AuxSlot(s, p)] = NnFld(t, p, s.flds[p].name, f)]

add_aux_fld(s, t, p, f) ==
  LET k == AuxSlot(s, p)
  IN [s EXCEPT
        !.flds = [[@ EXCEPT ![k] = NnFld(t, p, s.flds[p].name, f)]
                     EXCEPT ![p].nn_fld_id = k]]

\* Mutant: the loop starts at slot 1.
LoopDeletes_SkipsSlot0(F, t) ==
  {i \in FldIds : i > 0 /\ F[i].tbl_id = t /\ F[i].parent_id = NoId}

\* del_tbl's loop over the field slots, in slot order: the fields it hands to
\* del_fld are those without parent that no earlier deletion has cleared.
LoopDeletes(F, t) ==
  CHOOSE S \in SUBSET FldIds : \A i \in FldIds :
    i \in S <=> /\ F[i].tbl_id = t
                /\ F[i].parent_id = NoId
                /\ ~ \E j \in S : j < i /\ F[j].nn_fld_id = i

\* Mutant: the search for users of a dictionary misses the last slot.
InUse_SkipsLast(F, t) == \E i \in FldIds : i + 1 \in FldIds /\ F[i].dict_tbl_id = t

InUse(F, t) == \E i \in FldIds : F[i].dict_tbl_id = t

del_tbl(s, t) ==
  LET gone == UNION {Doomed(s.flds, i) : i \in LoopDeletes(s.flds, t)}
  IN [flds  |-> Zero(s.flds, gone),
      files |-> Unlink(s.files, {s.flds[i].filename : i \in gone})]

-----------------------------------------------------------------------------
(* How a verb ends.                                                        *)

Store == [flds |-> flds, files |-> files]

Leave(s, T, rc) ==
  flds' = s.flds /\ files' = s.files /\ tbls' = T /\ status' = rc

Succeed(s) == Leave(s, tbls, 0)
FailWith(s) == Leave(s, tbls, -1)
Fail == FailWith(Store)

-----------------------------------------------------------------------------
(* The verbs on tables.                                                    *)

AddTbl(n, nR) ==
  LET t == is_tbl(tbls, n)
      k == IF t # NoId THEN t ELSE get_empty_tbl(tbls, n)
      Allowed == IF t # NoId THEN ~InUse(flds, t) ELSE k # NoId
  IN \/ ~Allowed /\ Fail
     \/ /\ Allowed
        /\ Leave(IF t # NoId THEN del_tbl(Store, t) ELSE Store,
                 [tbls EXCEPT ![k] = [name |-> n, nR |-> nR]], 0)

\* Mutant: del_tbl does not look for users of the dictionary.
DelTbl_Unchecked(n) ==
  LET t == is_tbl(tbls, n)
  IN \/ t = NoId /\ Succeed(Store)
     \/ t # NoId /\ Leave(del_tbl(Store, t), [tbls EXCEPT ![t] = NullTbl], 0)

DelTbl(n) ==
  LET t == is_tbl(tbls, n)
  IN \/ t = NoId /\ Succeed(Store)
     \/ t # NoId /\ InUse(flds, t) /\ Fail
     \/ /\ t # NoId /\ ~InUse(flds, t)
        /\ Leave(del_tbl(Store, t), [tbls EXCEPT ![t] = NullTbl], 0)

\* The status of the inner del_tbl is dropped: the rename goes ahead even
\* when the table that holds the new name could not be deleted.
RenameTbl(old, new) ==
  LET t == is_tbl(tbls, old)
      u == is_tbl(tbls, new)
      Deletes == u # NoId /\ ~InUse(flds, u)
  IN \/ ~(new # old /\ t # NoId) /\ Fail
     \/ /\ new # old /\ t # NoId /\ ~Deletes
        /\ Leave(Store, [tbls EXCEPT ![t].name = new], 0)
     \/ /\ new # old /\ t # NoId /\ Deletes
        /\ Leave(del_tbl(Store, u),
                 [tbls EXCEPT ![u] = NullTbl, ![t].name = new], 0)

SetNR(n, nR) ==
  LET t == is_tbl(tbls, n)
  IN \/ ~(nR # 0 /\ t # NoId) /\ Fail
     \/ nR # 0 /\ t # NoId /\ Leave(Store, [tbls EXCEPT ![t].nR = nR], 0)

-----------------------------------------------------------------------------
(* The verbs on fields.                                                    *)

\* ext_add_fld.  The old field of that name goes first, and the status of its
\* deletion is dropped; what add_fld then meets is the store without it.
AddFld(tn, n, f, ty, lenGiven) ==
  LET t == is_tbl(tbls, tn)
      i == is_fld(flds, t, n)
      s == IF i # NoId /\ Deletable(flds, i) THEN del_fld(Store, i) ELSE Store
  IN \/ t = NoId /\ Fail
     \/ t # NoId /\ i # NoId /\ flds[i].filename = f /\ Fail
     \/ /\ t # NoId /\ ~(i # NoId /\ flds[i].filename = f)
        /\ \/ ~AddAllowed(s, t, n, f, ty) /\ FailWith(s)
           \/ /\ AddAllowed(s, t, n, f, ty) /\ lenGiven
              /\ FailWith(AddFldBadLen(s, t, n, ty))
           \/ /\ AddAllowed(s, t, n, f, ty) /\ ~lenGiven
              /\ Succeed(add_fld(s, t, n, f, ty))

DelFld(tn, n) ==
  LET t == is_tbl(tbls, tn)
      i == is_fld(flds, t, n)
  IN \/ ~(t # NoId /\ i # NoId) /\ Succeed(Store)
     \/ t # NoId /\ i # NoId /\ ~Deletable(flds, i) /\ Fail
     \/ t # NoId /\ i # NoId /\ Deletable(flds, i) /\ Succeed(del_fld(Store, i))

\* Renaming an auxiliary field first cuts it loose from its parent.
RenameFld(tn, old, new) ==
  LET t == is_tbl(tbls, tn)
      i == is_fld(flds, t, old)
      j == is_fld(flds, t, new)
      p == flds[i].parent_id
      k == flds[i].nn_fld_id
      Cut == IF p = NoId THEN flds
             ELSE [flds EXCEPT ![p].nn_fld_id = NoId, ![i].parent_id = NoId]
      s0 == [Store EXCEPT !.flds = Cut]
      s1 == IF j # NoId THEN del_fld(s0, j) ELSE s0
      Named == [s1 EXCEPT !.flds[i].name = new]
      Found == old # new /\ t # NoId /\ i # NoId
      Linked == p # NoId => flds[p].nn_fld_id = i /\ flds[i].fldtype = "I1"
  IN \/ ~(Found /\ Linked) /\ Fail
     \/ /\ Found /\ Linked
        /\ \/ j # NoId /\ ~Deletable(Cut, j) /\ FailWith(s0)
           \/ /\ ~(j # NoId /\ ~Deletable(Cut, j))
              /\ \/ k = NoId /\ Succeed(Named)
                 \/ k # NoId /\ NnName[new] = NoName /\ FailWith(Named)
                 \/ /\ k # NoId /\ NnName[new] # NoName
                    /\ Succeed([Named EXCEPT !.flds[k].name = NnName[new]])

\* Mutant: a temporary file may already exist.
Fresh_Any(s, f) == TRUE

\* mk_temp_file: a fresh file f of the given length.  Asked for no bytes, it
\* fails and leaves the empty file that mkstemp made.
Fresh(s, f)       == s.files[f] = Absent
Stretch(s, f, len) == [s EXCEPT !.files[f] = len]

\* s_to_f, and every other verb that writes one new column without nulls.
SToF(tn, n, ty) ==
  LET t   == is_tbl(tbls, tn)
      len == Width[ty] * tbls[t].nR
  IN \/ t = NoId /\ Fail
     \/ t # NoId /\ len > 0 /\ Fail           \* no space left on the disk
     \/ /\ t # NoId
        /\ \E f \in Files :
             LET s == Stretch(Store, f, len)
             IN /\ Fresh(Store, f)
                /\ \/ ~AddAllowed(s, t, n, f, ty) /\ FailWith(s)
                   \/ /\ AddAllowed(s, t, n, f, ty)
                      /\ Succeed(add_fld(s, t, n, f, ty))

\* The end of dup_fld: the copy k gets a copy of the null flags of slot nn.
CopyNn(s, t, k, nn) ==
  LET len == FileLen(s.files, s.flds[nn].filename)
  IN \/ FailWith(s)                           \* no space left on the disk
     \/ /\ len > 0
        /\ \E g \in Files :
             LET s1 == Stretch(s, g, len)
             IN /\ Fresh(s, g)
                /\ \/ ~AuxAllowed(s1, t, k, g) /\ FailWith(s1)
                   \/ /\ AuxAllowed(s1, t, k, g)
                      /\ Succeed(add_aux_fld(s1, t, k, g))

\* The middle of dup_fld: a copy of the field in slot i is entered as n2.
CopyFld(s, t, i, n2) ==
  LET r   == s.flds[i]
      len == FileLen(s.files, r.filename)
      k   == get_empty_fld(s.flds, n2)
  IN /\ len > 0
     /\ \E f \in Files :
          LET s1 == Stretch(s, f, len)
              s2 == [s1 EXCEPT !.flds[k] = [r EXCEPT !.name = n2,
                       !.filename = f, !.nn_fld_id = NoId]]
          IN /\ Fresh(s, f)
             /\ \/ k = NoId /\ FailWith(s1)
                \/ k # NoId /\ r.nn_fld_id = NoId /\ Succeed(s2)
                \/ k # NoId /\ r.nn_fld_id # NoId /\ CopyNn(s2, t, k, r.nn_fld_id)

\* The new field goes first, before the field to copy has been looked up and
\* before the disk is known to have room for the copy.
DupFld(tn, n1, n2) ==
  LET t  == is_tbl(tbls, tn)
      j  == is_fld(flds, t, n2)
      s0 == IF j # NoId THEN del_fld(Store, j) ELSE Store
      i  == is_fld(s0.flds, t, n1)
      Begun == n1 # n2 /\ t # NoId /\ (j # NoId => Deletable(flds, j))
  IN \/ ~Begun /\ Fail
     \/ Begun /\ FailWith(s0)                 \* no n1, no data, or no space
     \/ Begun /\ i # NoId /\ CopyFld(s0, t, i, n2)

\* The destination is entered with the source's file before the source is
\* cleared; a table is not told from itself.
MvFld(tn, n, un) ==
  LET t == is_tbl(tbls, tn)
      u == is_tbl(tbls, un)
      i == is_fld(flds, t, n)
      r == flds[i]
      nn == flds[r.nn_fld_id]
      s1 == add_fld(Store, u, n, r.filename, r.fldtype)
      d  == AddSlot(Store, u, n)
      s2 == add_aux_fld(s1, u, d, nn.filename)
      Found == t # NoId /\ u # NoId /\ tbls[t].nR = tbls[u].nR /\ i # NoId
      Added == Found /\ AddAllowed(Store, u, n, r.filename, r.fldtype)
  IN \/ ~Added /\ Fail
     \/ /\ Added
        /\ \/ /\ r.nn_fld_id = NoId
              /\ Succeed([s1 EXCEPT !.flds = Zero(@, {i})])
           \/ /\ r.nn_fld_id # NoId /\ ~AuxAllowed(s1, u, d, nn.filename)
              /\ FailWith(s1)
           \/ /\ r.nn_fld_id # NoId /\ AuxAllowed(s1, u, d, nn.filename)
              /\ Succeed([s2 EXCEPT !.flds = Zero(@, {i, r.nn_fld_id})])

\* The source's file becomes the null flags of the destination; the source's
\* record is cleared.  Nothing stops the source from being some field's nn.
MkNnFld(tn, n, un, m) ==
  LET t == is_tbl(tbls, tn)
      u == is_tbl(tbls, un)
      i == is_fld(flds, t, n)
      d == is_fld(flds, u, m)
      k == flds[d].nn_fld_id
      f == flds[i].filename
      s == IF k # NoId THEN del_fld(Store, k) ELSE Store
      Found == /\ t # NoId /\ u # NoId /\ tbls[t].nR = tbls[u].nR /\ i # NoId
               /\ flds[i].fldtype = "I1" /\ flds[i].nn_fld_id = NoId
               /\ d # NoId
  IN \/ ~Found /\ Fail
     \/ Found /\ ~AuxAllowed(s, u, d, f) /\ FailWith(s)
     \/ /\ Found /\ AuxAllowed(s, u, d, f)
        /\ Succeed([add_aux_fld(s, u, d, f) EXCEPT !.flds = Zero(@, {i})])

\* del_aux_fld unlinks relative to the cwd, not to the data directory.
DropNnFld(tn, n) ==
  LET t == is_tbl(tbls, tn)
      i == is_fld(flds, t, n)
      k == flds[i].nn_fld_id
  IN \/ ~(t # NoId /\ i # NoId) /\ Fail
     \/ t # NoId /\ i # NoId /\ k = NoId /\ Succeed(Store)
     \/ /\ t # NoId /\ i # NoId /\ k # NoId
        /\ Succeed([flds  |-> Zero([flds EXCEPT ![i].nn_fld_id = NoId], {k}),
                    files |-> IF InDataDir THEN Unlink(files, {flds[k].filename})
                              ELSE files])

\* set_meta of dict_tbl_id.  The bound is off by one, and whether the slot
\* holds a table is not asked.
SetDict(tn, n, d) ==
  LET t == is_tbl(tbls, tn)
      i == is_fld(flds, t, n)
      Allowed == /\ t # NoId /\ i # NoId /\ d <= NumTbl
                 /\ flds[i].fldtype \in {"I1", "I2", "I4"}
  IN \/ ~Allowed /\ Fail
     \/ Allowed /\ Succeed([Store EXCEPT !.flds[i].dict_tbl_id = d])

\* set_meta of fldtype: the length of the file is not looked at.
SetFldType(tn, n, ty) ==
  LET t == is_tbl(tbls, tn)
      i == is_fld(flds, t, n)
  IN \/ ~(t # NoId /\ i # NoId) /\ Fail
     \/ t # NoId /\ i # NoId /\ Succeed([Store EXCEPT !.flds[i].fldtype = ty])

\* A user puts a file of some length into the data directory.
PutFile(f, len) ==
  /\ files[f] = Absent
  /\ files' = [files EXCEPT ![f] = len]
  /\ UNCHANGED <<tbls, flds, status>>

-----------------------------------------------------------------------------
Init ==
  /\ tbls = [t \in TblIds |-> NullTbl]
  /\ flds = [i \in FldIds |-> NullFld]
  /\ files = [f \in Files |-> Absent]
  /\ status = 0

\* Every verb with every argument.
Next ==
  \/ \E n \in TblNames, nR \in RowCounts : AddTbl(n, nR)
  \/ \E n \in TblNames : DelTbl(n)
  \/ \E m, n \in TblNames : RenameTbl(m, n)
  \/ \E n \in TblNames, nR \in RowCounts : SetNR(n, nR)
  \/ \E t \in TblNames, n \in FldNames, f \in Files, ty \in FldTypes,
        l \in LenGiven : AddFld(t, n, f, ty, l)
  \/ \E t \in TblNames, n \in FldNames : DelFld(t, n)
  \/ \E t \in TblNames, m, n \in FldNames : RenameFld(t, m, n)
  \/ \E t \in TblNames, n \in FldNames, ty \in FldTypes : SToF(t, n, ty)
  \/ \E t \in TblNames, m, n \in FldNames : DupFld(t, m, n)
  \/ \E t, u \in TblNames, n \in FldNames : MvFld(t, n, u)
  \/ \E t, u \in TblNames, m, n \in FldNames : MkNnFld(t, n, u, m)
  \/ \E t \in TblNames, n \in FldNames : DropNnFld(t, n)
  \/ \E t \in TblNames, n \in FldNames, d \in DictIds :
        SetDict(t, n, d)
  \/ \E t \in TblNames, n \in FldNames, ty \in FldTypes : SetFldType(t, n, ty)
  \/ \E f \in Files, len \in FileLens : PutFile(f, len)

Spec == Init /\ [][Next]_vars
=============================================================================
