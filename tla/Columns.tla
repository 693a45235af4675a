------------------------------ MODULE Columns ------------------------------
(***************************************************************************)
(* The contents of the fields of a q document root: the values in a data   *)
(* file, the null flags in a second file, and two cached facts in the      *)
(* field's record, sort_type and cnt.  The slots, names and files that     *)
(* hold them are the subject of Catalog; here a table or a field is there  *)
(* or not, there is always room for one more, and a verb is called with    *)
(* the conditions of the manual met unless use names the exception.        *)
(* A verb is one action; each early exit after an effect is a disjunct.    *)
(***************************************************************************)
EXTENDS Integers, Sequences, FiniteSets, FiniteSetsExt, SequencesExt

CONSTANTS
  Tbls, Flds,  \* names of tables and fields
  Vals,        \* the values of a cell; 1 is TRUE
  UnOp,        \* what an operation of f1opf2 or f1s1opf2 does to a value
  BinOp,       \* what an operation of f1f2opf3 does to two values
  MinBlock,    \* fewest rows of a block that srt_join works on
  Uses,        \* the ways a document root may be used, one of them at a time
  Null, None

VARIABLES
  use,         \* how this document root is used
  nR,          \* table -> nR of its record, or None
  col,         \* <<table, field>> -> its column, or None
  call,        \* the verb last called, with its arguments
  status       \* what it returned

vars == <<use, nR, col, call, status>>

Exceptions == {"masked", "repeated", "dragged", "mixed", "mistyped",
               "cached", "narrowed", "nullop"}

\* A use: the verbs called, the fields they create (pairs <<table, field>>),
\* those that the verbs relying on an order create, how rows are joined, the
\* field types, the contents and the single values users bring along, the
\* row counts they give to add_tbl, the bound on the rows of a table that
\* grows, and the uses among Exceptions, which the code does not bear out,
\* that are made anyway.
IsUse(u) ==
  /\ u.cells \subseteq Tbls \X Flds /\ u.made \subseteq Tbls \X Flds /\ u.types \subseteq {"I1", "I4"}
  /\ u.loads \subseteq UNION {[1 .. n -> Vals] : n \in 1 .. u.maxRows}
  /\ u.vals \subseteq Vals /\ u.ops \subseteq {"reg", "min", "max", "sum", "cnt"}
  /\ u.rows \subseteq 0 .. u.maxRows /\ u.beyond \subseteq Exceptions

ASSUME UseAssumption == \A u \in Uses : IsUse(u)
ASSUME ValAssumption == {0, 1} \subseteq Vals /\ Vals \subseteq Nat
ASSUME BlockAssumption == MinBlock \in Nat \ {0}
ASSUME OpAssumption  == UnOp \in [Vals -> Vals] /\ BinOp \in [Vals \X Vals -> Vals]

SortTypes == {"unknown", "unsorted", "ascending", "descending"}

-----------------------------------------------------------------------------
(* Columns.                                                                *)

\* Mutant: the type is left as zero_fld_rec left it.
NewCol_NoType(ty, X) ==
  [type |-> None, X |-> X, nn |-> None, sort_type |-> "unknown", cnt |-> -1]

NewCol(ty, X) == [type |-> ty, X |-> X, nn |-> None, sort_type |-> "unknown", cnt |-> -1]

Has(t, f) == nR[t] # None /\ col[t, f] # None

Flagged(c) == c.nn # None

\* The values a verb reads or changes: the first nR, whatever the length of
\* the file.
Vec(t, f) == SubSeq(col[t, f].X, 1, nR[t])
Nn(t, f)  == IF Flagged(col[t, f]) THEN SubSeq(col[t, f].nn, 1, nR[t]) ELSE None

\* Row i of a column is defined.
Defined(c, i) == Flagged(c) => c.nn[i]

Known(c) == c.sort_type # "unknown" \/ c.cnt >= 0

\* The numbers of the rows at which a condition holds, in order.
Picked(X) == SetToSortSeq({i \in DOMAIN X : X[i] = 1}, <)

At(s, p) == [k \in 1 .. Len(p) |-> s[p[k]]]

\* s with its first rows in the order p.
Permuted(s, p) == At(s, p) \o SubSeq(s, Len(p) + 1, Len(s))

Orders(n) == {p \in [1 .. n -> 1 .. n] : \A i, j \in 1 .. n : i # j => p[i] # p[j]}

NonDecreasing(s) == \A i, j \in DOMAIN s : i < j => s[i] <= s[j]
NonIncreasing(s) == \A i, j \in DOMAIN s : i < j => s[i] >= s[j]
InOrder(s, dir)  == IF dir = "ascending" THEN NonDecreasing(s) ELSE NonIncreasing(s)

\* par_f_to_s with "sum" on a field of zeros and ones.
CountTrue(t, f) ==
  Cardinality({i \in 1 .. nR[t] : col[t, f].X[i] = 1 /\ Defined(col[t, f], i)})

\* Mutant: the first step down is taken for the order of a constant column.
is_sorted_alldef_Flat(X) ==
  IF NonDecreasing(X) THEN "ascending" ELSE "descending"

\* The loop that follows the first two values starts at i in an array that
\* was already advanced by i.
is_sorted_alldef(X) ==
  LET n     == Len(X)
      Other == {k \in 1 .. n : X[k] # X[1]}
      k     == CHOOSE m \in Other : \A o \in Other : m <= o
      rest  == <<X[k]>> \o SubSeq(X, 2 * (k - 1) + 1, n)
      order == IF X[1] < X[k] THEN "ascending" ELSE "descending"
  IN IF n = 0 THEN "unknown"
     ELSE IF Other = {} THEN "ascending"
     ELSE IF InOrder(rest, order) THEN order ELSE "unsorted"

-----------------------------------------------------------------------------
(* How a verb ends, and when it is called.                                 *)

Return(s, rows, columns) == status' = s /\ nR' = rows /\ col' = columns
Succeed(columns) == Return(0, nR, columns)
Fail == Return(-1, nR, col)

\* A verb is called in a way the code bears out, or use says otherwise.
Unless(exception, ok) == exception \in use.beyond \/ ok

Calls(c) == c[1] \in use.verbs /\ call' = c /\ UNCHANGED use

AddTbl(t, n) ==
  /\ nR[t] = None
  /\ Return(0, [nR EXCEPT ![t] = n], col)

\* A field with the same name is replaced, with its flags and caches.
AddFld(t, f, ty, X) ==
  \/ nR[t] # Len(X) /\ Fail
  \/ nR[t] = Len(X) /\ Succeed([col EXCEPT ![t, f] = NewCol(ty, X)])

\* The caches of the destination stay.  Its old flags are gone when a file
\* of the wrong length is refused.
MkNnFld(t, g, u, f) ==
  LET ok == Has(t, g) /\ Has(u, f) /\ nR[t] = nR[u]
            /\ col[t, g].type = "I1" /\ ~Flagged(col[t, g])
      new == <<t, g>> # <<u, f>> /\ Unless("cached", col[u, f].cnt < 0)
  IN \/ ~ok /\ Fail
     \/ /\ ok /\ new /\ Len(col[t, g].X) # nR[u]
        /\ Return(-1, nR, [col EXCEPT ![u, f].nn = None])
     \/ /\ ok /\ new /\ Len(col[t, g].X) = nR[u]
        /\ Succeed([col EXCEPT ![u, f].nn = [i \in 1 .. nR[u] |-> col[t, g].X[i] = 1],
                               ![t, g] = None])

DropNnFld(t, f) ==
  \/ ~Has(t, f) /\ Fail
  \/ /\ Has(t, f)
     /\ Unless("cached", col[t, f].cnt < 0 /\ col[t, f].sort_type # "unsorted")
     /\ Succeed([col EXCEPT ![t, f].nn = None])

\* The whole file and record are copied, caches included; flags of the wrong
\* length are refused at the end.
DupFld(t, f, g) ==
  \/ ~(Has(t, f) /\ f # g) /\ Fail
  \/ /\ Has(t, f) /\ f # g /\ col[t, f].nn = Nn(t, f)
     /\ Succeed([col EXCEPT ![t, g] = col[t, f]])
  \/ /\ Has(t, f) /\ f # g /\ col[t, f].nn # Nn(t, f)
     /\ Return(-1, nR, [col EXCEPT ![t, g] = [col[t, f] EXCEPT !.nn = None]])

\* The order moves along, the count does not.
MvFld(t, f, u) ==
  LET ok == Has(t, f) /\ nR[u] = nR[t] /\ Len(col[t, f].X) = nR[t]
  IN \/ ~ok /\ Fail
     \/ /\ ok /\ t # u
        /\ Succeed([col EXCEPT ![u, f] = [col[t, f] EXCEPT !.cnt = -1],
                               ![t, f] = None])
-----------------------------------------------------------------------------
(* Changes in place.                                                       *)

\* Mutant: the flags are left as they were.
SetRows_KeepsFlags(c, R, v) ==
  [c EXCEPT !.X = [i \in DOMAIN c.X |-> IF i \in R THEN v ELSE c.X[i]]]

SetRows(c, R, v) ==
  [c EXCEPT !.X  = [i \in DOMAIN c.X |-> IF i \in R THEN v ELSE c.X[i]],
            !.nn = IF Flagged(c) THEN [i \in DOMAIN c.nn |-> i \in R \/ c.nn[i]]
                   ELSE None]

\* Neither cache is touched.
SetVal(t, f, lb, ub, v) ==
  LET ok == Has(t, f) /\ lb < nR[t] /\ ub <= nR[t] /\ lb < ub
  IN \/ ~ok /\ Fail
     \/ /\ ok /\ Unless("cached", ~Known(col[t, f]))
        /\ Succeed([col EXCEPT ![t, f] = SetRows(@, lb + 1 .. ub, v)])

\* fop sortA and sortD.  Flags are not looked at; the manual asks for a
\* field without.
FopSort(t, f, dir) ==
  LET ok == Has(t, f) /\ col[t, f].type = "I4"
  IN \/ ~ok /\ Fail
     \/ /\ ok /\ ~Flagged(col[t, f])
        /\ \E p \in Orders(nR[t]) :
             /\ InOrder(At(Vec(t, f), p), dir)
             /\ Succeed([col EXCEPT ![t, f].X = Permuted(@, p), ![t, f].sort_type = dir])

\* The order of the field that is dragged along is not forgotten.
SortF1F2(t, f, g, dir) ==
  LET Plain(h) == Has(t, h) /\ ~Flagged(col[t, h]) /\ col[t, h].type = "I4"
      ok == f # g /\ Plain(f) /\ Plain(g)
  IN \/ ~ok /\ Fail
     \/ /\ ok /\ Unless("dragged", col[t, g].sort_type = "unknown")
        /\ \E p \in Orders(nR[t]) :
             /\ InOrder(At(Vec(t, f), p), dir)
             /\ Succeed([col EXCEPT ![t, f].X = Permuted(@, p), ![t, f].sort_type = dir,
                                    ![t, g].X = Permuted(@, p)])

\* sort_type and cnt of set_meta.  Users say what is so, or that they do
\* not know.
SetSortType(t, f, s) ==
  /\ Has(t, f)
  /\ s \in {"ascending", "descending"} => InOrder(Vec(t, f), s)
  /\ s # "unsorted"
  /\ Succeed([col EXCEPT ![t, f].sort_type = s])

ForgetCnt(t, f) == Has(t, f) /\ Succeed([col EXCEPT ![t, f].cnt = -1])

-----------------------------------------------------------------------------
(* Reductions that leave something in a cache.                             *)

\* is_sorted can tell the order of a column, unless use says otherwise.
Sortable(t, f) ==
  LET X == Vec(t, f) IN
  Unless("repeated", ~Flagged(col[t, f]) /\ col[t, f].sort_type = "unknown"
                       /\ (\E i \in DOMAIN X : X[i] # X[1]) => X[1] # X[2])

\* ext_f_to_s with is_sorted: the columns C afterwards.  An order that is
\* known is not checked again.
Checked(C, t, f) ==
  LET c == C[t, f]
      order == IF Flagged(c) THEN "unsorted"
               ELSE IF c.sort_type # "unknown" THEN c.sort_type
               ELSE is_sorted_alldef(Vec(t, f))
  IN [C EXCEPT ![t, f].sort_type = order]

Ascending(C, t, f) == C[t, f].sort_type = "ascending"

IsSortedVerb(t, f) ==
  \/ ~Has(t, f) /\ Fail
  \/ Has(t, f) /\ Sortable(t, f) /\ Succeed(Checked(col, t, f))

\* ext_f_to_s with sum: the columns afterwards.
Summed(t, f) ==
  IF col[t, f].type = "I1" THEN [col EXCEPT ![t, f].cnt = CountTrue(t, f)]
  ELSE col

Sum(t, f) ==
  \/ ~Has(t, f) /\ Fail
  \/ Has(t, f) /\ Succeed(Summed(t, f))

-----------------------------------------------------------------------------
(* Copying.                                                                *)

\* Mutant: the copy starts without a known order but with the old count.
CopyOf_KeepsCnt(c, X, nn) == [c EXCEPT !.X = X, !.nn = nn]

CopyOf(c, X, nn) == [NewCol(c.type, X) EXCEPT !.sort_type = c.sort_type, !.nn = nn]

\* copy_fld once the number n of rows is settled.  C is the columns, with a
\* count that may have been stored; the table is made before the copy is.
CopyInto(t, f, u, n, X, nn, C) ==
  LET rows == [nR EXCEPT ![u] = n]
  IN \/ nR[u] \notin {None, n} /\ Return(-1, nR, C)
     \/ nR[u] \in {None, n} /\ (n = 0 \/ Len(X) # n) /\ Return(-1, rows, C)
     \/ /\ nR[u] \in {None, n} /\ n # 0 /\ Len(X) = n
        /\ Return(0, rows, [C EXCEPT ![u, f] = CopyOf(col[t, f], X, nn)])

CopyAll(t, f, u) ==
  \/ ~(Has(t, f) /\ t # u) /\ Fail
  \/ /\ Has(t, f) /\ t # u
     /\ CopyInto(t, f, u, nR[t], Vec(t, f), Nn(t, f), col)

CopyRange(t, f, lb, ub, u) ==
  LET c  == col[t, f]
      ok == Has(t, f) /\ t # u /\ lb < ub
  IN \/ ~ok /\ Fail
     \/ /\ ok /\ ub <= nR[t] /\ Unless("narrowed", c.sort_type # "unsorted")
        /\ CopyInto(t, f, u, ub - lb, SubSeq(c.X, lb + 1, ub),
                    IF Flagged(c) THEN SubSeq(c.nn, lb + 1, ub) ELSE None, col)


Chosen(X) == Picked(X)

\* A count that is known is believed, one that is not is computed and kept.
\* The flags are read on only where the condition holds, so the copy gets
\* the first flags instead of those of its rows; it gets none if no cell of
\* the copy is null.
CopyIf(t, f, g, u) ==
  LET c  == col[t, f]
      d  == col[t, g]
      C  == IF d.cnt < 0 THEN Summed(t, g) ELSE col
      p  == Chosen(Vec(t, g))
      nn == IF Flagged(c) THEN SubSeq(c.nn, 1, Len(p)) ELSE None
      ok == /\ Has(t, f) /\ t # u /\ Has(t, g)
            /\ ~Flagged(d) /\ d.type = "I1"
  IN \/ ~ok /\ Fail
     \/ /\ ok /\ Unless("masked", ~Flagged(c))
        /\ Unless("narrowed", c.sort_type # "unsorted")
        /\ CopyInto(t, f, u, C[t, g].cnt, At(c.X, p),
                    IF nn # None /\ \E i \in DOMAIN nn : ~nn[i] THEN nn ELSE None, C)

FldsOf(t) == {f \in Flds : col[t, f] # None}

\* Mutant: the flags are appended with the field, and again as a field.
Appended_FlagsTwice(c, d) ==
  [c EXCEPT !.X = @ \o d.X, !.nn = IF Flagged(c) THEN @ \o d.nn \o d.nn ELSE None]

\* app_fld where it goes through.
Appended(c, d) ==
  [c EXCEPT !.X = @ \o d.X, !.nn = IF Flagged(c) THEN @ \o d.nn ELSE None]

\* app_fld where it does not.  Types that differ are found at once.  Flags
\* on one side only are found after the values were appended: new flags
\* are refused because nR still counts the old rows, and old flags are
\* dropped because the name of their file was never set.
HalfAppended(c, d) ==
  IF c.type # d.type THEN c ELSE [c EXCEPT !.X = @ \o d.X, !.nn = None]

\* Mutant: nR changes also when a field could not be appended.
Grown_Always(t, u, s) == [nR EXCEPT ![t] = @ + nR[u]]

Grown(t, u, s) == IF s = 0 THEN [nR EXCEPT ![t] = @ + nR[u]] ELSE nR

\* The fields are appended one after the other, in the order of their slots,
\* up to the first that fails; nR changes when all are done.
AppTbl(t, u) ==
  LET F       == FldsOf(t)
      Fine(f) == /\ col[t, f].type = col[u, f].type
                 /\ Flagged(col[t, f]) = Flagged(col[u, f])
      After(S, b) == [c \in DOMAIN col |->
        IF c[1] # t THEN col[c]
        ELSE IF c[2] \in S THEN Appended(col[c], col[u, c[2]])
        ELSE IF c[2] = b THEN HalfAppended(col[c], col[u, c[2]])
        ELSE col[c]]
      ok == nR[t] # None /\ nR[u] # None /\ F = FldsOf(u)
  IN \/ ~ok /\ Fail
     \/ /\ ok /\ \A f \in F : Len(col[t, f].X) + Len(col[u, f].X) <= use.maxRows
        /\ nR[t] + nR[u] <= use.maxRows
        /\ Unless("cached", \A f \in F : ~Known(col[t, f]))
        /\ Unless("mistyped", \A f \in F : col[t, f].type = col[u, f].type)
        /\ Unless("mixed", \A f \in F : Flagged(col[t, f]) = Flagged(col[u, f]))
        /\ \/ /\ \A f \in F : Fine(f)
              /\ Return(0, Grown(t, u, 0), After(F, None))
           \/ \E S \in SUBSET F, b \in F :
                /\ \A f \in S : Fine(f)
                /\ ~Fine(b)
                /\ Return(-1, Grown(t, u, -1), After(S, b))

-----------------------------------------------------------------------------
(* Columns computed from columns.                                          *)

Mapped(X) == [i \in DOMAIN X |-> UnOp[X[i]]]

\* The flags meant for the new field are given to the old one, which has
\* the same flags already.
F1opF2(t, f, g) ==
  \/ ~Has(t, f) /\ Fail
  \/ /\ Has(t, f) /\ f # g /\ Unless("nullop", ~Flagged(col[t, f]))
     /\ Succeed([col EXCEPT ![t, g] = NewCol(col[t, f].type, Mapped(Vec(t, f))),
                            ![t, f].nn = Nn(t, f)])

F1s1opF2(t, f, g) ==
  \/ ~Has(t, f) /\ Fail
  \/ /\ Has(t, f)
     /\ Succeed([col EXCEPT ![t, g] =
          [NewCol(col[t, f].type, Mapped(Vec(t, f))) EXCEPT !.nn = Nn(t, f)]])

\* vec_f1f2opf3 and nn_core: a cell is defined where both are.
BothDefined(c, d, n) ==
  IF ~Flagged(c) /\ ~Flagged(d) THEN None
  ELSE [i \in 1 .. n |-> Defined(c, i) /\ Defined(d, i)]

F1F2opF3(t, f, g, h) ==
  LET c  == col[t, f]
      d  == col[t, g]
      X  == [i \in 1 .. nR[t] |-> BinOp[c.X[i], d.X[i]]]
      ok == Has(t, f) /\ Has(t, g) /\ c.type = d.type
  IN \/ ~ok /\ Fail
     \/ /\ ok
        /\ Succeed([col EXCEPT ![t, h] =
                      [NewCol(c.type, X) EXCEPT !.nn = BothDefined(c, d, nR[t])]])

\* The result always has flags.  Those of a field that has flags are not
\* copied: the new file of flags stays as it was made, all zero.
Shift(t, f, k, g) ==
  LET c  == col[t, f]
      In(i) == i - k \in 1 .. nR[t]
      ok == Has(t, f) /\ k # 0 /\ k < nR[t] /\ -k < nR[t]
  IN \/ ~ok /\ Fail
     \/ /\ ok /\ Unless("nullop", ~Flagged(c))
        /\ Succeed([col EXCEPT ![t, g] =
             [NewCol(c.type, [i \in 1 .. nR[t] |-> IF In(i) THEN c.X[i - k] ELSE 0])
                EXCEPT !.nn = [i \in 1 .. nR[t] |-> ~Flagged(c) /\ In(i)]]])

-----------------------------------------------------------------------------
(* Verbs that rely on the order of a field.                                *)

\* From row j of S, whose value is below v: ahead by 1, 2, 4, ... rows while
\* what is there is below v too.
Jump(S, j, v) ==
  LET Below(d) == j + d <= Len(S) /\ S[j + d] < v
      Far      == {k \in 0 .. Len(S) : \A m \in 0 .. k : Below(2^m)}
  IN IF Far = {} THEN j + 1 ELSE j + 2^Max(Far)

\* The first row, from j on, that the jumps reach with no value below v.
Advance(S, j, v) ==
  LET at[k \in 1 .. Len(S) + 1] == IF k <= Len(S) /\ S[k] < v THEN at[Jump(S, k, v)] ELSE k
  IN at[j]

\* The row after the run of values v that begins at row j.
RunEnd(S, j, v) == Min({k \in j .. Len(S) + 1 : k <= Len(S) => S[k] # v})

\* The values of the run together, each taken in turn; V is empty for cnt.
Combined(op, V, j, e) ==
  CASE op = "reg" -> V[e - 1]
    [] op = "min" -> Min({V[k] : k \in j .. e - 1})
    [] op = "max" -> Max({V[k] : k \in j .. e - 1})
    [] op = "sum" -> MapThenSumSet(LAMBDA k : V[k], j .. e - 1)
    [] op = "cnt" -> e - j

\* The first rows of the blocks into which n rows are parted.
BlockStarts(n) ==
  LET chunks == IF n < MinBlock THEN 1 ELSE n \div MinBlock
  IN {b * (n \div chunks) + 1 : b \in 0 .. chunks - 1}

\* Mutant: a row that has the link of the row before it is looked up again.
Repeats_Never(D, i) == FALSE

Repeats(D, i) == i > 1 /\ D[i] = D[i - 1]

\* core_srt_join, block after block: the value, if there is one, of each row
\* with link D[i].  src is where the search for the next row begins: at the
\* last row of the run just used, or past the end.
core_srt_join(S, V, D, op) ==
  LET begins == BlockStarts(Len(D))
      row[i \in 0 .. Len(D)] ==
        LET prev == row[i - 1]
            from == IF i \in begins THEN 1 ELSE prev.src
            j    == Advance(S, from, D[i])
            e    == RunEnd(S, j, D[i])
        IN IF i = 0 THEN [src |-> 1, val |-> 0, nn |-> FALSE]
           ELSE IF Repeats(D, i) THEN [prev EXCEPT !.src = from]
           ELSE IF e = j THEN [src |-> j, val |-> 0, nn |-> FALSE]
           ELSE [src |-> IF e > Len(S) THEN e ELSE e - 1,
                 val |-> Combined(op, V, j, e), nn |-> TRUE]
  IN [i \in 1 .. Len(D) |-> row[i]]

\* The link fields are checked one after the other.  Nulls among the values
\* are not looked at.  What comes out is within Vals: a bound.
SrtJoin(t, f, v, u, g, h, op) ==
  LET ok   == Has(t, f) /\ Has(u, g) /\ (IF op = "cnt" THEN v = None ELSE v # None /\ Has(t, v))
      C1   == Checked(col, t, f)
      C2   == Checked(C1, u, g)
      fine == /\ {col[t, f].type, col[u, g].type} = {"I4"}
              /\ op # "cnt" => col[t, v].type = "I4"
      rows == core_srt_join(Vec(t, f), IF op = "cnt" THEN <<>> ELSE Vec(t, v), Vec(u, g), op)
      nn   == [i \in DOMAIN rows |-> rows[i].nn]
      new  == [NewCol("I4", [i \in DOMAIN rows |-> rows[i].val])
                 EXCEPT !.nn = IF \E i \in DOMAIN nn : ~nn[i] THEN nn ELSE None]
  IN \/ ~ok /\ Fail
     \/ /\ ok /\ Sortable(t, f) /\ Sortable(u, g)
        /\ op # "cnt" => Unless("nullop", ~Flagged(col[t, v]))
        /\ \/ ~Ascending(C1, t, f) /\ Return(-1, nR, C1)
           \/ /\ Ascending(C1, t, f) /\ ~(Ascending(C2, u, g) /\ fine)
              /\ Return(-1, nR, C2)
           \/ /\ Ascending(C1, t, f) /\ Ascending(C2, u, g) /\ fine
              /\ new.X \in Seq(Vals)
              /\ Succeed([C2 EXCEPT ![u, h] = new])

\* The row at which the binary search finds a value, 0 if it does not.
bin_search(X, key) ==
  LET at[lb \in 0 .. Len(X), ub \in -1 .. Len(X) - 1] ==
        LET mid == (lb + ub) \div 2 IN
        IF lb > ub THEN 0
        ELSE IF X[mid + 1] = key THEN mid + 1
        ELSE IF key < X[mid + 1] THEN at[lb, Min({ub - 1, mid})]
        ELSE at[Max({lb + 1, mid}), ub]
  IN IF key < X[1] \/ key > Last(X) THEN 0 ELSE at[0, Len(X) - 1]

\* For each row of f, the row of u's g that has its value, or 0.
Places(t, f, u, g) ==
  [i \in 1 .. nR[t] |-> IF Defined(col[t, f], i) THEN bin_search(Vec(u, g), col[t, f].X[i]) ELSE 0]

\* is_a_in_b with a field for the condition.
IsAInB(t, f, u, g, h) ==
  LET ok   == Has(t, f) /\ Has(u, g) /\ f # h
      C    == Checked(col, u, g)
      fine == Ascending(C, u, g) /\ {col[t, f].type, col[u, g].type} = {"I4"}
      pos  == Places(t, f, u, g)
  IN \/ ~ok /\ Fail
     \/ /\ ok /\ Sortable(u, g)
        /\ \/ ~fine /\ Return(-1, nR, C)
           \/ /\ fine
              /\ Succeed([C EXCEPT ![t, h] =
                   NewCol("I1", [i \in DOMAIN pos |-> IF pos[i] > 0 THEN 1 ELSE 0])])

\* is_a_in_b with a field to fetch.
Fetch(t, f, u, g, v, h) ==
  LET ok   == Has(t, f) /\ Has(u, g) /\ f # h
      C    == Checked(col, u, g)
      fine == /\ Ascending(C, u, g) /\ Has(u, v)
              /\ {col[t, f].type, col[u, g].type, col[u, v].type} = {"I4"}
      pos  == Places(t, f, u, g)
      new  == [NewCol("I4", [i \in DOMAIN pos |-> IF pos[i] > 0 THEN col[u, v].X[pos[i]] ELSE 0])
                 EXCEPT !.nn = [i \in DOMAIN pos |-> pos[i] > 0 /\ Defined(col[u, v], pos[i])]]
  IN \/ ~ok /\ Fail
     \/ /\ ok /\ Sortable(u, g)
        /\ \/ ~fine /\ Return(-1, nR, C)
           \/ fine /\ Succeed([C EXCEPT ![t, h] = new])

\* uniq_alldef: the rows at which a run begins.
RunStarts(X) == SetToSortSeq({i \in DOMAIN X : i > 1 => X[i] # X[i - 1]}, <)

\* count_vals without weights.  A table of that name is replaced.
CountVals(t, f, u, g, h) ==
  LET ok   == Has(t, f) /\ t # u
      C    == Checked(col, t, f)
      fine == Ascending(C, t, f) /\ col[t, f].type = "I4"
      X    == Vec(t, f)
      p    == RunStarts(X)
      cnts == [k \in DOMAIN p |-> RunEnd(X, p[k], X[p[k]]) - p[k]]
      vals == [NewCol("I4", At(X, p)) EXCEPT !.sort_type = "ascending"]
  IN \/ ~ok /\ Fail
     \/ /\ ok /\ Sortable(t, f)
        /\ \/ ~fine /\ Return(-1, nR, C)
           \/ /\ fine
              /\ Return(0, [nR EXCEPT ![u] = Len(p)],
                   [c \in DOMAIN col |-> IF c[1] # u THEN C[c]
                                         ELSE IF c[2] = h THEN NewCol("I4", cnts)
                                         ELSE IF c[2] = g THEN vals ELSE None])

-----------------------------------------------------------------------------
Init ==
  /\ use \in Uses
  /\ nR = [t \in Tbls |-> None]
  /\ col = [c \in Tbls \X Flds |-> None]
  /\ call = <<"none">>
  /\ status = 0

Dirs == {"ascending", "descending"}

InTable ==
  \E t \in Tbls, f \in Flds : <<t, f>> \in use.cells /\
    \/ \E ty \in use.types, X \in use.loads :
         Calls(<<"add_fld", t, f, ty, X>>) /\ AddFld(t, f, ty, X)
    \/ Calls(<<"drop_nn_fld", t, f>>) /\ DropNnFld(t, f)
    \/ \E lb, ub \in 0 .. use.maxRows, v \in use.vals :
         Calls(<<"set_val", t, f, lb, ub, v>>) /\ SetVal(t, f, lb, ub, v)
    \/ \E dir \in Dirs : Calls(<<"fop", t, f, dir>>) /\ FopSort(t, f, dir)
    \/ \E s \in SortTypes : Calls(<<"set_sort_type", t, f, s>>) /\ SetSortType(t, f, s)
    \/ Calls(<<"set_cnt", t, f, -1>>) /\ ForgetCnt(t, f)
    \/ Calls(<<"is_sorted", t, f>>) /\ IsSortedVerb(t, f)
    \/ Calls(<<"sum", t, f>>) /\ Sum(t, f)
    \/ \E g \in Flds : <<t, g>> \in use.cells /\
         \/ Calls(<<"dup_fld", t, f, g>>) /\ DupFld(t, f, g)
         \/ \E dir \in Dirs : Calls(<<"sortf1f2", t, f, g, dir>>) /\ SortF1F2(t, f, g, dir)
         \/ Calls(<<"f1opf2", t, f, g>>) /\ F1opF2(t, f, g)
         \/ Calls(<<"f1s1opf2", t, f, g>>) /\ F1s1opF2(t, f, g)
         \/ \E k \in -use.maxRows .. use.maxRows : Calls(<<"shift", t, f, k, g>>) /\ Shift(t, f, k, g)
         \/ \E h \in Flds :
              /\ <<t, h>> \in use.cells
              /\ Calls(<<"f1f2opf3", t, f, g, h>>) /\ F1F2opF3(t, f, g, h)

BetweenTables ==
  \E t, u \in Tbls :
    \/ Calls(<<"app_tbl", t, u>>) /\ AppTbl(t, u)
    \/ \E f \in Flds : <<u, f>> \in use.cells /\
         \/ Calls(<<"mv_fld", t, f, u>>) /\ MvFld(t, f, u)
         \/ \E g \in Flds : Calls(<<"mk_nn_fld", t, g, u, f>>) /\ MkNnFld(t, g, u, f)
         \/ Calls(<<"copy_all", t, f, u>>) /\ CopyAll(t, f, u)
         \/ \E lb, ub \in 0 .. use.maxRows :
              Calls(<<"copy_range", t, f, lb, ub, u>>) /\ CopyRange(t, f, lb, ub, u)
         \/ \E g \in Flds : Calls(<<"copy_if", t, f, g, u>>) /\ CopyIf(t, f, g, u)

ByOrder ==
  \E t, u \in Tbls, f, g, h \in Flds :
    \/ /\ <<u, h>> \in use.made
       /\ \E v \in Flds \cup {None}, op \in use.ops :
            Calls(<<"srt_join", t, f, v, u, g, h, op>>) /\ SrtJoin(t, f, v, u, g, h, op)
    \/ /\ <<t, h>> \in use.made
       /\ Calls(<<"is_a_in_b", t, f, u, g, h>>) /\ IsAInB(t, f, u, g, h)
    \/ /\ <<t, h>> \in use.made
       /\ \E v \in Flds : Calls(<<"fetch", t, f, u, g, v, h>>) /\ Fetch(t, f, u, g, v, h)
    \/ /\ <<u, g>> \in use.cells /\ <<u, h>> \in use.made
       /\ Calls(<<"count_vals", t, f, u, g, h>>) /\ CountVals(t, f, u, g, h)

Next ==
  \/ \E t \in Tbls, n \in use.rows : Calls(<<"add_tbl", t, n>>) /\ AddTbl(t, n)
  \/ InTable
  \/ BetweenTables
  \/ ByOrder

Spec == Init /\ [][Next]_vars

-----------------------------------------------------------------------------
(* Properties.                                                             *)

Live == {c \in Tbls \X Flds : col[c] # None}

Column == [type : {"I1", "I4"}, X : Seq(Vals), nn : {None} \cup Seq(BOOLEAN),
           sort_type : SortTypes, cnt : Int]

\* The records hold what they are declared to hold.
TypeOK ==
  /\ DOMAIN nR = Tbls /\ \A t \in Tbls : nR[t] \in {None} \cup 0 .. use.maxRows
  /\ DOMAIN col = Tbls \X Flds
  /\ \A c \in Live : col[c] \in Column
  /\ status \in {0, -1}

\* A field has exactly one value per row of its table, and so have its
\* flags, after every verb and every early exit (app_tbl changes the files
\* one by one and nR last), where the tables that are appended agree about
\* their flags.
RowsAligned ==
  "mixed" \notin use.beyond =>
    \A c \in Live : /\ Len(col[c].X) = nR[c[1]]
                    /\ Flagged(col[c]) => Len(col[c].nn) = nR[c[1]]

\* No loop over the rows of a table runs past the end of a file, even when
\* app_tbl has stopped between two fields: nR grows only after every file.
NeverShort ==
  \A c \in Live : /\ Len(col[c].X) >= nR[c[1]]
                  /\ Flagged(col[c]) => Len(col[c].nn) >= nR[c[1]]

\* A cached sort_type is true of the values: the joins, searches and
\* is_sorted itself rely on it without looking (ext_f_to_s answers from it).
\* A field with flags counts as unsorted.
OrderTruthful ==
  \A c \in Live :
    LET X == Vec(c[1], c[2]) IN
      CASE col[c].sort_type = "ascending"  -> NonDecreasing(X)
        [] col[c].sort_type = "descending" -> NonIncreasing(X)
        [] col[c].sort_type = "unsorted"   ->
             Flagged(col[c]) \/ ~(NonDecreasing(X) \/ NonIncreasing(X))
        [] OTHER -> TRUE

\* A cached cnt is the number of true cells: copy_fld sizes its output by it
\* and never counts again.
CountTruthful ==
  \A c \in Live : col[c].cnt >= 0 =>
    col[c].cnt = Cardinality({i \in 1 .. nR[c[1]] :
                                col[c].X[i] = 1 /\ Defined(col[c], i)})

\* A field as its users see it.
ViewOf(c) ==
  IF col[c] = None THEN None
  ELSE [i \in 1 .. nR[c[1]] |-> IF Defined(col[c], i) THEN col[c].X[i] ELSE Null]

R == INSTANCE Rows WITH
  view <- [c \in Tbls \X Flds |-> ViewOf(c)]

\* Values, flags and exits of each verb add up to what the verb promises
\* for cells that are values or null (Rows), where the tables that are
\* appended agree about their flags.
ImplementsRows == R!Init /\ [][R!Next \/ "mixed" \in use.beyond]_R!rowVars
=============================================================================
