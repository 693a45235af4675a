------------------------------ MODULE DataDirs ------------------------------
(***************************************************************************)
(* Where the data files of a document root are made, and the room they     *)
(* take.  A q process may name an alternative data directory in its        *)
(* environment; the directories ever named so are kept in a table of the   *)
(* root, and a field's record says in which of them its files are.  A verb *)
(* that makes a field asks how much room there is, makes the files with a  *)
(* hole in them, fills them through a mapping, and enters them.  Entering  *)
(* and deleting are single steps here; Processes has their stores.         *)
(***************************************************************************)
EXTENDS Integers, Sequences, FiniteSets, FiniteSetsExt, SequencesExt, TLC

CONSTANTS
  Procs,       \* processes that may be alive at the same time
  Flds,        \* fields
  Main,        \* Q_DATA_DIR
  AltDirs,     \* what Q_ALT_DATA_DIR may be
  NumDDir,     \* g_n_ddir
  Names,       \* names of temporary files, in the order of str_compare
  Block,       \* bytes in a block of the file system
  Reserved,    \* blocks only the superuser may take (f_bfree - f_bavail)
  W,           \* bits of an int
  Uses,        \* ways the document root is used, one of them at a time
  None

VARIABLES
  use,         \* how this document root is used
  ddirs,       \* docroot.ddirs: the alternative directories by number
  files,       \* directory -> name -> None or [size, used (blocks)]
  flds,        \* field -> its files and those of its flags, <<>> if there is no field
  proc,        \* process -> its program counter and locals
  report       \* what the last orphan_files printed, None before

vars == <<use, ddirs, files, flds, proc, report>>

Dirs    == {Main} \cup AltDirs
DDirIds == 0 .. NumDDir - 1

\* A use: the calls each process makes, the value of Q_ALT_DATA_DIR for each
\* (None if not set), the blocks of each directory's file system, how many
\* files there may be in each, and whether the order of their names matters.
\* A call makes a field with files of the given sizes, deletes one, or lists
\* the orphans of a directory.
IsUse(u) ==
  /\ DOMAIN u.calls = Procs /\ DOMAIN u.alt = Procs /\ DOMAIN u.blocks = Dirs
  /\ u.files \in 0 .. Cardinality(Names) /\ u.anyName \in BOOLEAN
  /\ \A p \in Procs : u.alt[p] \in SUBSET (AltDirs \cup {None})
  /\ \A p \in Procs : \A c \in u.calls[p] : c.verb \in {"make", "del", "orphans"}

ASSUME UseAssumption  == \A u \in Uses : IsUse(u)
ASSUME NameAssumption == IsFiniteSet(Names) /\ Names \subseteq Nat
ASSUME SizeAssumption == /\ Block \in Nat \ {0} /\ Reserved \in Nat
                         /\ W \in Nat \ {0} /\ NumDDir \in Nat

Idle == [pc |-> "idle", call |-> [verb |-> "none"], alt |-> None, id |-> None,
         spot |-> None, ddir |-> None, name |-> None, made |-> <<>>,
         status |-> 0, roomy |-> FALSE]

-----------------------------------------------------------------------------
(* Room.                                                                   *)

Blocks(size) == (size + Block - 1) \div Block

Taken(d)  == MapThenSumSet(LAMBDA n : IF files[d][n] = None THEN 0 ELSE files[d][n].used, Names)
Bfree(d)  == use.blocks[d] - Taken(d)
Bavail(d) == IF Bfree(d) > Reserved THEN Bfree(d) - Reserved ELSE 0

\* get_disk_space with "free_space", and avail_space.
FreeSpace(d)  == Block * Bfree(d)
AvailSpace(d) == Block * Bavail(d)

\* The directory of a number, as del_fld, q_mmap and get_data find it.
DirOf(i) == IF i = None THEN Main ELSE ddirs[i]

There(f) == DirOf(f.ddir) # None /\ files[DirOf(f.ddir)][f.name] # None

\* The data directory after the files of a field are unlinked.
Unlinked(ff) ==
  [d \in Dirs |-> [n \in Names |->
     IF \E i \in DOMAIN ff : DirOf(ff[i].ddir) = d /\ ff[i].name = n
     THEN None ELSE files[d][n]]]

-----------------------------------------------------------------------------
(* How a process moves on.                                                 *)

At(p, l)     == proc[p].pc = l
Go(p, r)     == proc' = [proc EXCEPT ![p] = r @@ @]
Return(p, s) == Go(p, [pc |-> "done", status |-> s])
Local        == UNCHANGED <<use, ddirs, files, flds, report>>

\* The directory a call asks for, its number, and the file it is to make next.
Wanted(p) == IF proc[p].id = None THEN Main ELSE ddirs[proc[p].id]
NextSize(p) == proc[p].call.sizes[Len(proc[p].made) + 1]

Unused(d) == {n \in Names : files[d][n] = None}

\* The new names mkstemp may come up with; where their order does not matter,
\* the first will do.
NewNames(d) == IF use.anyName THEN Unused(d) ELSE {Min(Unused(d))}

\* There is room for the one file of a call, and a number for its directory.
Roomy(c, a) ==
  /\ c.verb = "make" /\ Len(c.sizes) = 1
  /\ c.sizes[1] > 0
  /\ AvailSpace(IF a = None THEN Main ELSE a) > c.sizes[1]
  /\ a # None => \E i \in DDirIds : ddirs[i] \in {a, None}

\* Where the verb of a call begins.
Verb(c) == CASE c.verb = "make" -> "which"
             [] c.verb = "del"  -> "delete"
             [] OTHER           -> "list"

Active == {p \in Procs : use.calls[p] # {}}

\* Files that a process has still to make.
ToMake(p) ==
  IF proc[p].pc \notin {"idle", "done", "killed"} /\ proc[p].call.verb = "make"
  THEN Len(proc[p].call.sizes) - Len(proc[p].made) ELSE 0

\* The names last for the calls: a bound.
Start(p) ==
  \E c \in use.calls[p], a \in use.alt[p] :
    /\ At(p, "idle")
    /\ c.verb = "make" =>
         \A d \in Dirs : use.files - Cardinality(Names \ Unused(d)) >= Len(c.sizes) + MapThenSumSet(ToMake, Procs)
    /\ Go(p, [pc |-> IF a = None THEN Verb(c) ELSE "look", call |-> c, alt |-> a,
              roomy |-> Roomy(c, a)])
    /\ Local

\* get_ddir_id: the first loop.
LookDDir(p) ==
  LET S == {i \in DDirIds : ddirs[i] = proc[p].alt} IN
  /\ At(p, "look")
  /\ Go(p, IF S = {} THEN [pc |-> "spot"] ELSE [pc |-> Verb(proc[p].call), id |-> Min(S)])
  /\ Local

\* Mutant: the first spot, empty or not.
EmptySpots_Any == DDirIds

\* Mutant: one spot past the end of the table.
EmptySpots_PastEnd == {i \in 0 .. NumDDir : i \in DDirIds => ddirs[i] = None}

EmptySpots == {i \in DDirIds : ddirs[i] = None}

\* The second loop finds an empty spot, and the name is stored there.
SpotDDir(p) ==
  /\ At(p, "spot")
  /\ \/ EmptySpots = {} /\ Return(p, -1)
     \/ EmptySpots # {} /\ Go(p, [pc |-> "enter_dir", spot |-> Min(EmptySpots)])
  /\ Local

EnterDDir(p) ==
  /\ At(p, "enter_dir")
  /\ ddirs' = [ddirs EXCEPT ![proc[p].spot] = proc[p].alt]
  /\ Go(p, [pc |-> Verb(proc[p].call), id |-> proc[p].spot])
  /\ UNCHANGED <<use, files, flds, report>>

-----------------------------------------------------------------------------
(* Making the files of a field: mk_temp_file, open_temp_file, mk_file.     *)

\* mk_temp_file settles the number to record.  The directory in which the
\* file is made is Wanted, whatever the number.
WhichDDir(p) ==
  LET enough == NextSize(p) = 0 \/ FreeSpace(Wanted(p)) >= NextSize(p) IN
  /\ At(p, "which")
  /\ Go(p, [pc |-> "room", ddir |-> IF enough THEN proc[p].id ELSE None])
  /\ Local

\* Mutant: blocks kept for the superuser count as room.
Room_Reserved(d, size) == size > 0 => FreeSpace(d) > size

\* The check of open_temp_file.
Room(d, size) == size > 0 => AvailSpace(d) > size

CheckRoom(p) ==
  /\ At(p, "room")
  /\ \/ Room(Wanted(p), NextSize(p)) /\ Go(p, [pc |-> "mkstemp"])
     \/ ~Room(Wanted(p), NextSize(p)) /\ Return(p, -1)
  /\ Local

\* mkstemp: an empty file with a name new in its directory.
MkTemp(p) ==
  /\ At(p, "mkstemp")
  /\ \E n \in NewNames(Wanted(p)) :
       /\ files' = [files EXCEPT ![Wanted(p)][n] = [size |-> 0, used |-> 0]]
       /\ Go(p, [pc |-> "stretch", name |-> n])
  /\ UNCHANGED <<use, ddirs, flds, report>>

\* Mutant: the result of lseek is kept in a narrower type.
SeekFails_Narrow(size) == (size - 1) % 2^(W - 1) = 2^(W - 1) - 1

\* The result of lseek is kept in an int and compared with -1.
SeekFails(size) == (size - 1) % 2^W = 2^W - 1

\* mk_file refuses a size of 0, seeks, and writes the last byte.
Stretch(p) ==
  LET d    == Wanted(p)
      size == NextSize(p)
      ok   == size > 0 /\ ~SeekFails(size) /\ Bavail(d) > 0
      made == Append(proc[p].made, [ddir |-> proc[p].ddir, name |-> proc[p].name, size |-> size])
  IN /\ At(p, "stretch")
     /\ \/ ~ok /\ Return(p, -1) /\ UNCHANGED files
        \/ /\ ok
           /\ files' = [files EXCEPT ![d][proc[p].name] = [size |-> size, used |-> 1]]
           /\ Go(p, [pc |-> "map", made |-> made])
     /\ UNCHANGED <<use, ddirs, flds, report>>

\* q_mmap looks in the directory of the number.
Map(p) ==
  LET more == Len(proc[p].made) < Len(proc[p].call.sizes) IN
  /\ At(p, "map")
  /\ \/ ~There(Last(proc[p].made)) /\ Return(p, -1)
     \/ There(Last(proc[p].made)) /\ Go(p, [pc |-> IF more THEN "which" ELSE "fill"])
  /\ Local

\* Files are filled through their mappings.  The system kills a process that
\* writes to a hole when there is no block left.
Fill(p) ==
  LET made == proc[p].made
      Holes(i) == Blocks(made[i].size) - files[DirOf(made[i].ddir)][made[i].name].used
      Filled(u) == [d \in Dirs |-> [n \in Names |->
        IF \E i \in DOMAIN made : DirOf(made[i].ddir) = d /\ made[i].name = n
        THEN LET i == CHOOSE k \in DOMAIN made : DirOf(made[k].ddir) = d /\ made[k].name = n
             IN [files[d][n] EXCEPT !.used = @ + u[i]]
        ELSE files[d][n]]]
      In(d)    == {i \in DOMAIN made : DirOf(made[i].ddir) = d}
      Fits(u)  == \A d \in Dirs : MapThenSumSet(LAMBDA i : u[i], In(d)) <= Bavail(d)
      Partial  == {u \in [DOMAIN made -> 0 .. Max({Holes(i) : i \in DOMAIN made} \cup {0})] :
                     Fits(u) /\ \A i \in DOMAIN made : u[i] <= Holes(i)}
      all      == [i \in DOMAIN made |-> Holes(i)]
  IN /\ At(p, "fill")
     /\ \/ Fits(all) /\ files' = Filled(all) /\ Go(p, [pc |-> "enter"])
        \/ /\ ~Fits(all)
           /\ \E u \in Partial : /\ \A v \in Partial : (\A i \in DOMAIN u : v[i] >= u[i]) => v = u
                                 /\ files' = Filled(u)
           /\ Go(p, [pc |-> "killed"])
     /\ UNCHANGED <<use, ddirs, flds, report>>

\* add_fld and add_aux_fld: a field of that name goes, with its files.
Enter(p) ==
  LET f == proc[p].call.fld IN
  /\ At(p, "enter")
  /\ files' = Unlinked(flds[f])
  /\ flds'  = [flds EXCEPT ![f] = proc[p].made]
  /\ Return(p, 0)
  /\ UNCHANGED <<use, ddirs, report>>

-----------------------------------------------------------------------------
(* Deleting, listing, leaving.                                             *)

Delete(p) ==
  LET f == proc[p].call.fld IN
  /\ At(p, "delete")
  /\ files' = Unlinked(flds[f])
  /\ flds'  = [flds EXCEPT ![f] = <<>>]
  /\ Return(p, 0)
  /\ UNCHANGED <<use, ddirs, report>>

\* The files of the directory with number i that some field names.
Known(i) == {n \in Names : \E f \in Flds : \E k \in DOMAIN flds[f] :
                             flds[f][k].ddir = i /\ flds[f][k].name = n}

\* Mutant: the names are sorted the other way round.
Listed_Ascending(S) == SetToSortSeq(S, <)

\* The order of str_compare: it calls the greater string the lesser one.
Listed(S) == SetToSortSeq(S, >)

\* The merge of the names in the records, X, with those in the directory, Y.
\* Of the names left over in Y it prints the first; it steps over every
\* second, and by one byte too few, so that it prints empty names for the rest.
Merged(X, Y) ==
  LET m[i \in 1 .. Len(X) + 1, j \in 1 .. Len(Y) + 1] ==
        IF j > Len(Y) THEN {}
        ELSE IF i > Len(X) THEN {Y[j]}
        ELSE IF X[i] = Y[j] THEN m[i + 1, j + 1]
        ELSE IF X[i] > Y[j] THEN m[i + 1, j]
        ELSE {Y[j]} \cup m[i, j + 1]
  IN m[1, 1]

\* orphan_files, run outside the data directories.
Orphans(p) ==
  LET d == proc[p].call.dir
      S == {i \in DDirIds : ddirs[i] = d}
      i == IF d = Main THEN None ELSE Min(S)
  IN /\ At(p, "list")
     /\ \/ d # Main /\ S = {} /\ Return(p, -1) /\ UNCHANGED report
        \/ /\ d = Main \/ S # {}
           /\ report' = [dir |-> d,
                         names |-> Merged(Listed(Known(i)), Listed(Names \ Unused(d)))]
           /\ Return(p, 0)
     /\ UNCHANGED <<use, ddirs, files, flds>>

\* A process ends; the next one with its place starts afresh.
Leave(p) ==
  /\ proc[p].pc \in {"done", "killed"}
  /\ proc' = [proc EXCEPT ![p] = Idle]
  /\ report' = None
  /\ UNCHANGED <<use, ddirs, files, flds>>

Init ==
  /\ use \in Uses
  /\ ddirs = [i \in DDirIds |-> None]
  /\ files = [d \in Dirs |-> [n \in Names |-> None]]
  /\ flds = [f \in Flds |-> <<>>]
  /\ proc = [p \in Procs |-> Idle]
  /\ report = None

Step(p) ==
  \/ Start(p) \/ LookDDir(p) \/ SpotDDir(p) \/ EnterDDir(p)
  \/ WhichDDir(p) \/ CheckRoom(p) \/ MkTemp(p) \/ Stretch(p) \/ Map(p)
  \/ Fill(p) \/ Enter(p) \/ Delete(p) \/ Orphans(p) \/ Leave(p)

Next == \E p \in Procs : Step(p)

Spec == Init /\ [][Next]_vars

-----------------------------------------------------------------------------
(* Properties.                                                             *)

\* The state has its type: a file takes no more blocks than there are, and
\* the numbers processes have for directories are within the table.
TypeOK ==
  /\ use \in Uses
  /\ ddirs \in [DDirIds -> AltDirs \cup {None}]
  /\ \A d \in Dirs, n \in Names : files[d][n] # None =>
       files[d][n].size \in Nat /\ files[d][n].used \in 0 .. use.blocks[d]
  /\ \A f \in Flds : Len(flds[f]) <= 2
  /\ \A p \in Procs : {proc[p].id, proc[p].spot, proc[p].ddir} \subseteq DDirIds \cup {None}

\* Every file of a field, and of its flags, is in the directory whose number
\* the record has, as long as it was asked for and without a hole, and is no
\* other field's file: whichever directories the processes that made,
\* replaced and deleted fields were given, and wherever files of the same
\* name are (mk_temp_file, get_ddir_id, del_fld).
FilesWhereRecorded ==
  \A f, g \in Flds : \A i \in DOMAIN flds[f], j \in DOMAIN flds[g] :
    LET x == flds[f][i]  y == flds[g][j] IN
    /\ There(x)
    /\ files[DirOf(x.ddir)][x.name] = [size |-> x.size, used |-> Blocks(x.size)]
    /\ <<f, i>> # <<g, j>> => <<DirOf(x.ddir), x.name>> # <<DirOf(y.ddir), y.name>>

\* A verb that makes one file, alone, and was told by open_temp_file that
\* there is room is not killed for want of a block when it fills the file,
\* with whatever holes, reserved blocks and orphans there are.
RoomSuffices ==
  \A p \in Procs : At(p, "killed") /\ Active = {p} => Len(proc[p].call.sizes) > 1

\* A verb that makes one file, alone, in a directory with room for it when it
\* is called goes through, unless the size is a multiple of 2^W: the int in
\* mk_file then takes the offset of the last byte for a failed seek.
RoomMeansMade ==
  \A p \in Procs :
    At(p, "done") /\ Active = {p} /\ proc[p].roomy /\ proc[p].call.sizes[1] % 2^W # 0
    => proc[p].status = 0

\* orphan_files prints no file that a field of the directory owns, and all
\* others but those that come, in its order, after the last owned one and
\* after another orphan.
OrphansListed ==
  report # None =>
    LET i == IF report.dir = Main THEN None ELSE CHOOSE k \in DDirIds : ddirs[k] = report.dir
        orphans == Names \ (Unused(report.dir) \cup Known(i))
        late == {n \in orphans : (\A k \in Known(i) : n < k)}
    IN report.names = (orphans \ late) \cup (IF late = {} THEN {} ELSE {Max(late)})
=============================================================================
