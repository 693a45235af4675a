----------------------------- MODULE Processes -----------------------------
(***************************************************************************)
(* q processes at work on one document root, store by store.  Every q      *)
(* command is a process of its own that maps the tables of the root shared *)
(* and writable, without a lock; what a killed process has stored stays.   *)
(* A step is one scan of a table, one store to a record (or a run of       *)
(* stores that nobody tells apart), or one change of the data directory.   *)
(* A field here has a data file and, if it has flags, a second field with  *)
(* a file for them; types and lengths are left to Catalog.                 *)
(***************************************************************************)
EXTENDS Integers, FiniteSets, TLC

CONSTANTS
  Procs,       \* processes that may be alive at the same time
  NumTbl, NumFld,
  Serials,     \* what tells files made for the same field apart
  NnName,      \* field name -> name of its null flags
  Uses,        \* ways the document root is used, one of them at a time
  None

VARIABLES
  use,         \* how this document root is used
  tbl,         \* docroot.tbls
  fld,         \* docroot.flds
  disk,        \* the files there are: <<field or flags it was made for, serial>>
  proc,        \* process -> its program counter and locals
  crashes      \* processes killed so far

vars == <<use, tbl, fld, disk, proc, crashes>>

TblIds == 0 .. NumTbl - 1
FldIds == 0 .. NumFld - 1

\* A use: the commands each process runs, as <<verb, table, field, flags>>,
\* the tables there are at the start, where each name's hash sends the
\* search for a slot, and how many processes are killed.
IsUse(u) ==
  /\ DOMAIN u.jobs = Procs /\ DOMAIN u.tables = TblIds /\ u.crashes \in Nat
  /\ \A p \in Procs : \A j \in u.jobs[p] :
       j[1] \in {"add_tbl", "del_tbl", "set_fld", "del_fld", "read"}
  /\ \A n \in DOMAIN u.home : u.home[n] \in Nat

ASSUME UseAssumption == \A u \in Uses : IsUse(u)
ASSUME SlotAssumption == NumTbl \in Nat \ {0} /\ NumFld \in Nat \ {0}

NullTbl == [name |-> None, nR |-> 0]
NullFld == [name |-> None, tbl |-> None, parent |-> None, nn |-> None, file |-> None]

Idle == [pc |-> "idle", job |-> <<"none">>, status |-> 0, tid |-> None, id |-> None,
         nn |-> None, file |-> None, nnfile |-> None, z |-> None, stage |-> 0,
         rec |-> NullFld, nnrec |-> NullFld]

-----------------------------------------------------------------------------
(* Scans.                                                                  *)

is_tbl(n) ==
  IF \E t \in TblIds : tbl[t].name = n
  THEN CHOOSE t \in TblIds : tbl[t].name = n ELSE None

is_fld(t, n) ==
  IF \E i \in FldIds : fld[i].tbl = t /\ fld[i].name = n
  THEN CHOOSE i \in FldIds : fld[i].tbl = t /\ fld[i].name = n ELSE None

\* Mutant: the home slot, taken or not.
Slot_Home(free, h, size) == IF free = {} THEN None ELSE h

\* The first free slot at or after the home of a name, round the table.
Slot(free, h, size) ==
  IF free = {} THEN None
  ELSE CHOOSE i \in free : \A j \in free : (i - h) % size <= (j - h) % size

get_empty_tbl(n) == Slot({t \in TblIds : tbl[t].name = None}, use.home[n] % NumTbl, NumTbl)
get_empty_fld(n) == Slot({i \in FldIds : fld[i].name = None}, use.home[n] % NumFld, NumFld)

Named(f) ==
  \/ \E i \in FldIds : fld[i].file = f
  \/ \E p \in Procs : f \in {proc[p].rec.file, proc[p].nnrec.file}

\* open_temp_file: a name that is new.  A name does not come back while
\* anything refers to it.
NewSerials(owner) == {n \in Serials : <<owner, n>> \notin disk /\ ~Named(<<owner, n>>)}

Fresh(owner) ==
  <<owner, CHOOSE n \in NewSerials(owner) : \A m \in NewSerials(owner) : n <= m>>

-----------------------------------------------------------------------------
(* A step of a process: where it is, what it stores, where it goes on.     *)

At(p, l)  == proc[p].pc = l
Go(p, r)  == proc' = [proc EXCEPT ![p] = r @@ @]
Verb(p)   == proc[p].job[1]
Tbl(p)    == proc[p].job[2]
Fld(p)    == proc[p].job[3]
Flags(p)  == proc[p].job[4]

\* What a return leaves of the locals is gone with the process.
Return(p, s) == proc' = [proc EXCEPT ![p] = [Idle EXCEPT !.status = s]]

Local  == UNCHANGED <<use, tbl, fld, disk, crashes>>
OnTbl  == UNCHANGED <<use, fld, disk, crashes>>
OnFld  == UNCHANGED <<use, tbl, disk, crashes>>
OnDisk == UNCHANGED <<use, tbl, fld, crashes>>

\* Killed and failed commands leave files behind; Serials bounds how many.
Start(p) ==
  /\ At(p, "idle")
  /\ \E j \in use.jobs[p] :
       /\ j[1] = "set_fld" => \A n \in {j[3], NnName[j[3]]} : NewSerials(<<j[2], n>>) # {}
       /\ Go(p, [pc |-> "look_tbl", job |-> j, status |-> 0])
  /\ Local

LookTbl(p) ==
  LET t == is_tbl(Tbl(p)) IN
  /\ At(p, "look_tbl")
  /\ \/ t # None /\ Verb(p) \in {"add_tbl", "del_tbl"}
        /\ Go(p, [pc |-> "del_flds", tid |-> t, id |-> -1])
     \/ t # None /\ Verb(p) = "set_fld" /\ Go(p, [pc |-> "mk_file", tid |-> t])
     \/ t # None /\ Verb(p) \in {"del_fld", "read"} /\ Go(p, [pc |-> "look_fld", tid |-> t])
     \/ t = None /\ Verb(p) = "add_tbl" /\ Go(p, [pc |-> "slot_tbl"])
     \/ t = None /\ Verb(p) \in {"del_tbl", "del_fld"} /\ Return(p, 0)
     \/ t = None /\ Verb(p) \in {"set_fld", "read"} /\ Return(p, -1)
  /\ Local

-----------------------------------------------------------------------------
(* Tables.                                                                 *)

SlotTbl(p) ==
  LET t == get_empty_tbl(Tbl(p)) IN
  /\ At(p, "slot_tbl")
  /\ IF t = None THEN Return(p, -1) ELSE Go(p, [pc |-> "name_tbl", tid |-> t])
  /\ Local

\* The name first, then the number of rows.
NameTbl(p) ==
  /\ At(p, "name_tbl")
  /\ tbl' = [tbl EXCEPT ![proc[p].tid].name = Tbl(p)]
  /\ Go(p, [pc |-> "rows_tbl"])
  /\ OnTbl

RowsTbl(p) ==
  /\ At(p, "rows_tbl")
  /\ tbl' = [tbl EXCEPT ![proc[p].tid].nR = 1]
  /\ Return(p, 0)
  /\ OnTbl

\* Mutant: records without a name are passed over.
InTbl_Named(t, i) == fld[i].tbl = t /\ fld[i].parent = None /\ fld[i].name # None

InTbl(t, i) == fld[i].tbl = t /\ fld[i].parent = None

\* del_tbl's loop over the field slots; id is the slot it has reached.
DelFlds(p) ==
  LET left == {i \in FldIds : i > proc[p].id /\ InTbl(proc[p].tid, i)} IN
  /\ At(p, "del_flds")
  /\ IF left = {} THEN Go(p, [pc |-> "zero_nR"])
     ELSE Go(p, [pc |-> "unlink", id |-> CHOOSE i \in left : \A j \in left : i <= j])
  /\ Local

\* zero_tbl_rec: the row count first, then the name.
ZeroNR(p) ==
  /\ At(p, "zero_nR")
  /\ tbl' = [tbl EXCEPT ![proc[p].tid].nR = 0]
  /\ Go(p, [pc |-> "zero_tbl"])
  /\ OnTbl

ZeroTbl(p) ==
  /\ At(p, "zero_tbl")
  /\ tbl' = [tbl EXCEPT ![proc[p].tid].name = None]
  /\ IF Verb(p) = "add_tbl" THEN Go(p, [pc |-> "name_tbl"]) ELSE Return(p, 0)
  /\ OnTbl

-----------------------------------------------------------------------------
(* Deleting fields.                                                        *)

LookFld(p) ==
  LET i == is_fld(proc[p].tid, Fld(p)) IN
  /\ At(p, "look_fld")
  /\ \/ i # None /\ Verb(p) # "read" /\ Go(p, [pc |-> "unlink", id |-> i])
     \/ i # None /\ Verb(p) = "read" /\ Go(p, [pc |-> "copy", id |-> i])
     \/ i = None /\ Verb(p) = "set_fld" /\ Go(p, [pc |-> "slot_fld"])
     \/ i = None /\ Verb(p) = "del_fld" /\ Return(p, 0)
     \/ i = None /\ Verb(p) = "read" /\ Return(p, -1)
  /\ Local

\* The file goes before the record does.
Unlink(p) ==
  /\ At(p, "unlink")
  /\ disk' = disk \ {fld[proc[p].id].file}
  /\ Go(p, [pc |-> "zero", z |-> proc[p].id, stage |-> 1, nn |-> fld[proc[p].id].nn])
  /\ OnDisk

\* zero_fld_rec in the order of its stores.
Zeroed(r, stage) ==
  CASE stage = 1 -> [r EXCEPT !.tbl = None]
    [] stage = 2 -> [r EXCEPT !.parent = None, !.nn = None, !.name = None]
    [] stage = 3 -> [r EXCEPT !.file = None]

\* What follows when the record z is clear: del_fld goes on to the flags and
\* returns to its caller; add_fld and add_aux_fld fill the record.
AfterZero(p) ==
  LET q == proc[p] IN
  CASE q.pc = "zero" /\ q.nn # None -> "unlink_nn"
    [] q.pc = "clear" -> "fill_tbl"
    [] q.pc = "clear_nn" -> "link"
    [] OTHER -> CASE Verb(p) = "set_fld" -> "clear"
                  [] Verb(p) \in {"add_tbl", "del_tbl"} -> "del_flds"
                  [] OTHER -> "return"

Zero(p) ==
  LET q == proc[p] IN
  /\ q.pc \in {"zero", "zero_nn", "clear", "clear_nn"}
  /\ fld' = [fld EXCEPT ![q.z] = Zeroed(@, q.stage)]
  /\ \/ q.stage < 3 /\ Go(p, [stage |-> q.stage + 1])
     \/ q.stage = 3 /\ AfterZero(p) = "return" /\ Return(p, 0)
     \/ /\ q.stage = 3 /\ AfterZero(p) # "return"
        /\ Go(p, [pc |-> AfterZero(p), stage |-> 1, z |-> q.id,
                  nn |-> IF q.pc = "zero_nn" THEN None ELSE q.nn])
  /\ OnFld

UnlinkNn(p) ==
  /\ At(p, "unlink_nn")
  /\ disk' = disk \ {fld[proc[p].nn].file}
  /\ Go(p, [pc |-> "zero_nn", z |-> proc[p].nn, stage |-> 1])
  /\ OnDisk

-----------------------------------------------------------------------------
(* Making fields: the files, add_fld, add_aux_fld.                         *)

MkFile(p) ==
  LET f == Fresh(<<Tbl(p), Fld(p)>>) IN
  /\ At(p, "mk_file")
  /\ disk' = disk \cup {f}
  /\ Go(p, [pc |-> IF Flags(p) THEN "mk_nn_file" ELSE "look_fld", file |-> f])
  /\ OnDisk

MkNnFile(p) ==
  LET f == Fresh(<<Tbl(p), NnName[Fld(p)]>>) IN
  /\ At(p, "mk_nn_file")
  /\ disk' = disk \cup {f}
  /\ Go(p, [pc |-> "look_fld", nnfile |-> f])
  /\ OnDisk

SlotFld(p) ==
  LET i == get_empty_fld(Fld(p)) IN
  /\ At(p, "slot_fld")
  /\ IF i = None THEN Return(p, -1)
     ELSE Go(p, [pc |-> "clear", id |-> i, z |-> i, stage |-> 1])
  /\ Local

\* Mutant: the name is stored first and the file last.
Filled_NameFirst(p, r, stage) ==
  CASE stage = 1 -> [r EXCEPT !.tbl = proc[p].tid, !.name = Fld(p)]
    [] stage = 2 -> r
    [] stage = 3 -> [r EXCEPT !.file = proc[p].file]

\* add_fld: the table, then the file, the name last.
Filled(p, r, stage) ==
  CASE stage = 1 -> [r EXCEPT !.tbl = proc[p].tid]
    [] stage = 2 -> [r EXCEPT !.file = proc[p].file]
    [] stage = 3 -> [r EXCEPT !.name = Fld(p)]

Fill(p) ==
  LET q == proc[p] IN
  /\ At(p, "fill_tbl")
  /\ fld' = [fld EXCEPT ![q.id] = Filled(p, @, q.stage)]
  /\ \/ q.stage < 3 /\ Go(p, [stage |-> q.stage + 1])
     \/ q.stage = 3 /\ Flags(p) /\ Go(p, [pc |-> "slot_nn"])
     \/ q.stage = 3 /\ ~Flags(p) /\ Return(p, 0)
  /\ OnFld

\* A slot above 0 that the field already has for flags is used again.
SlotNn(p) ==
  LET old == fld[proc[p].id].nn
      k   == IF old # None /\ old # 0 THEN old ELSE get_empty_fld(NnName[Fld(p)]) IN
  /\ At(p, "slot_nn")
  /\ IF k = None THEN Return(p, -1)
     ELSE Go(p, [pc |-> "clear_nn", nn |-> k, z |-> k, stage |-> 1])
  /\ Local

\* add_aux_fld: the field points at its flags before they are there.
Link(p) ==
  /\ At(p, "link")
  /\ fld' = [fld EXCEPT ![proc[p].id].nn = proc[p].nn]
  /\ Go(p, [pc |-> "fill_nn", stage |-> 1])
  /\ OnFld

\* Mutant: flags get the file of the data.
FilledNn_DataFile(p, r, stage) ==
  CASE stage = 1 -> [r EXCEPT !.parent = proc[p].id]
    [] stage = 2 -> [r EXCEPT !.tbl = proc[p].tid]
    [] stage = 3 -> [r EXCEPT !.name = NnName[Fld(p)]]
    [] stage = 4 -> [r EXCEPT !.file = proc[p].file]

FilledNn(p, r, stage) ==
  CASE stage = 1 -> [r EXCEPT !.parent = proc[p].id]
    [] stage = 2 -> [r EXCEPT !.tbl = proc[p].tid]
    [] stage = 3 -> [r EXCEPT !.name = NnName[Fld(p)]]
    [] stage = 4 -> [r EXCEPT !.file = proc[p].nnfile]

FillNn(p) ==
  LET q == proc[p] IN
  /\ At(p, "fill_nn")
  /\ fld' = [fld EXCEPT ![q.nn] = FilledNn(p, @, q.stage)]
  /\ IF q.stage < 4 THEN Go(p, [stage |-> q.stage + 1]) ELSE Return(p, 0)
  /\ OnFld

-----------------------------------------------------------------------------
(* Reading: is_fld copies the record of the slot it has found, then that   *)
(* of the flags; the files are mapped by the names in the copies.          *)

Copy(p) ==
  /\ At(p, "copy")
  /\ Go(p, [pc |-> "read_nn", rec |-> fld[proc[p].id]])
  /\ Local

\* The slot of the flags is read again, not taken from the copy.
ReadNn(p) ==
  LET k == fld[proc[p].id].nn IN
  /\ At(p, "read_nn")
  /\ Go(p, [pc |-> IF k = None THEN "map" ELSE "copy_nn", nn |-> k])
  /\ Local

\* Mutant: the record of the field is copied for that of its flags.
CopyNn_Field(p) ==
  /\ At(p, "copy_nn")
  /\ Go(p, [pc |-> "map", nnrec |-> fld[proc[p].id]])
  /\ Local

CopyNn(p) ==
  /\ At(p, "copy_nn")
  /\ Go(p, [pc |-> "map", nnrec |-> fld[proc[p].nn]])
  /\ Local

Mappable(f) == f \in disk

\* The files that are mapped stay as they are, also when unlinked.
Map(p) ==
  LET q == proc[p] IN
  /\ At(p, "map")
  /\ IF Mappable(q.rec.file) /\ (q.nn # None => Mappable(q.nnrec.file))
     THEN Go(p, [pc |-> "reading"]) ELSE Return(p, -1)
  /\ Local

Finish(p) == At(p, "reading") /\ Return(p, 0) /\ Local

-----------------------------------------------------------------------------
\* A process is killed between two steps.
Crash(p) ==
  /\ ~At(p, "idle") /\ crashes < use.crashes
  /\ crashes' = crashes + 1
  /\ proc' = [proc EXCEPT ![p] = Idle]
  /\ UNCHANGED <<use, tbl, fld, disk>>

Init ==
  /\ use \in Uses
  /\ tbl = use.tables
  /\ fld = [i \in FldIds |-> NullFld]
  /\ disk = {}
  /\ proc = [p \in Procs |-> Idle]
  /\ crashes = 0

Step(p) ==
  \/ LookTbl(p) \/ SlotTbl(p) \/ NameTbl(p) \/ RowsTbl(p) \/ DelFlds(p) \/ ZeroNR(p)
  \/ ZeroTbl(p) \/ LookFld(p) \/ Unlink(p) \/ Zero(p) \/ UnlinkNn(p) \/ MkFile(p)
  \/ MkNnFile(p) \/ SlotFld(p) \/ Fill(p) \/ SlotNn(p) \/ Link(p) \/ FillNn(p)
  \/ Copy(p) \/ ReadNn(p) \/ CopyNn(p) \/ Map(p) \/ Finish(p)

Next == \E p \in Procs : Start(p) \/ Step(p) \/ Crash(p)

Spec == Init /\ [][Next]_vars

-----------------------------------------------------------------------------
(* Properties.                                                             *)

Findable(t, f, i) == fld[i].name = f /\ fld[i].tbl # None /\ tbl[fld[i].tbl].name = t

MadeFor(file, t, f) == file[1] = <<t, f>>

\* A field users can find, with the data that was made for it.
Whole(t, f) ==
  \E i \in FldIds : Findable(t, f, i) /\ fld[i].file \in disk /\ MadeFor(fld[i].file, t, f)

\* Some process has a command on its way that is about this field.
Worked(t, f) ==
  \E p \in Procs :
    /\ ~At(p, "idle") /\ Tbl(p) = t
    /\ \/ Verb(p) \in {"add_tbl", "del_tbl"}
       \/ Verb(p) \in {"set_fld", "del_fld"} /\ Fld(p) = f

AllJobs == UNION {use.jobs[p] : p \in Procs}
Fields  == {<<j[2], j[3]>> : j \in {k \in AllJobs : k[1] = "set_fld"}}

\* A record that can be found by its name names its file: add_fld stores
\* the name last, and a process killed half way, or looked at half way, has
\* made nothing that looks like a field.
PublishedWhole ==
  \A i \in FldIds :
    fld[i].name # None /\ fld[i].tbl # None /\ fld[i].parent = None => fld[i].file # None

\* Every record that names a table, half-made ones left by a killed process
\* included, goes when del_tbl or add_tbl frees that table's slot: nothing
\* turns up in the next table that is given the slot.
NothingLeftBehind ==
  \A i \in FldIds : fld[i].tbl # None => tbl[fld[i].tbl].name # None

\* A field with its data stays until a command about it or its table runs:
\* the commands of other processes and the repeats of killed ones do not
\* take its slot, its record or its file.
FieldsStay ==
  [][\A x \in Fields : Whole(x[1], x[2]) /\ ~Worked(x[1], x[2]) => Whole(x[1], x[2])']_vars

\* What is so when a command has returned 0.
Effect(j) ==
  LET t == j[2]
      f == j[3]
      F == {i \in FldIds : Findable(t, f, i)}
      T == {k \in TblIds : tbl[k].name = t}
  IN CASE j[1] = "add_tbl" ->
            /\ Cardinality(T) = 1
            /\ \A k \in T : tbl[k].nR = 1 /\ \A i \in FldIds : fld[i].tbl # k
       [] j[1] = "del_tbl" -> T = {}
       [] j[1] = "del_fld" -> F = {}
       [] j[1] = "set_fld" ->
            /\ Cardinality(F) = 1 /\ Whole(t, f)
            /\ \A i \in F :
                 IF ~j[4] THEN fld[i].nn = None
                 ELSE LET n == fld[fld[i].nn] IN
                      /\ n.parent = i /\ n.tbl = fld[i].tbl
                      /\ n.file \in disk /\ MadeFor(n.file, t, NnName[f])
       [] OTHER -> TRUE

\* A command that returns 0 has had its effect, whole and once, also after
\* processes killed half way, and beside a process whose names have other
\* home slots.
EffectsStand ==
  [][\A p \in Procs, j \in AllJobs :
       /\ ~At(p, "idle") /\ proc[p].job = j
       /\ At(p, "idle")' /\ proc'[p].status = 0 /\ crashes' = crashes
       => Effect(j)']_vars

\* A reader that gets as far as the data works on the files that were made
\* for the field it asked for, whatever the writer stored between the
\* reader's lookup and its copies of the records.
ReadsOwn ==
  \A p \in Procs : At(p, "reading") =>
    LET q == proc[p] IN
    /\ MadeFor(q.rec.file, Tbl(p), Fld(p))
    /\ q.nn # None => MadeFor(q.nnrec.file, Tbl(p), NnName[Fld(p)])
=============================================================================
