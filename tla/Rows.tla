-------------------------------- MODULE Rows --------------------------------
(***************************************************************************)
(* What the verbs on columns promise.  A field of a table is one cell per  *)
(* row, a value or Null.  Nothing else of a field can be observed: there   *)
(* are no flags, no cached order and no cached count.  call is the verb    *)
(* last called with its arguments and status what it returned; they tie    *)
(* every change of a cell to the call that asked for it.                   *)
(***************************************************************************)
EXTENDS Integers, Sequences, FiniteSets, FiniteSetsExt, SequencesExt

CONSTANTS
  Tbls, Flds,  \* names of tables and fields
  Vals,        \* the values of a cell
  UnOp,        \* an operation on a value
  BinOp,       \* an operation on two values
  Null,        \* an undefined cell
  None         \* no such table, field or flags

VARIABLES
  nR,          \* table -> its number of rows, or None
  view,        \* <<table, field>> -> its cells, or None
  call,        \* the verb last called, with its arguments
  status       \* what it returned

rowVars == <<nR, view, call, status>>

Lift1(x)    == IF x = Null THEN Null ELSE UnOp[x]
Lift2(x, y) == IF Null \in {x, y} THEN Null ELSE BinOp[x, y]

\* The numbers of the rows at which a condition holds, in order.
Picked(c) == SetToSortSeq({i \in DOMAIN c : c[i] = 1}, <)

\* The rows of s that the sequence p of row numbers names.
At(s, p) == [k \in 1 .. Len(p) |-> s[p[k]]]

Orders(n) == {p \in [1 .. n -> 1 .. n] : \A i, j \in 1 .. n : i # j => p[i] # p[j]}

NonDecreasing(s) == \A i, j \in DOMAIN s : i < j => s[i] <= s[j]
NonIncreasing(s) == \A i, j \in DOMAIN s : i < j => s[i] >= s[j]
InOrder(s, dir)  == IF dir = "ascending" THEN NonDecreasing(s) ELSE NonIncreasing(s)

Has(t, f) == nR[t] # None /\ view[t, f] # None

Put(t, f, s) == view' = [view EXCEPT ![t, f] = s] /\ UNCHANGED nR

-----------------------------------------------------------------------------
\* A call that fails changes no cell.  copy_fld may leave the table it has
\* made, without fields.
Refuse ==
  /\ UNCHANGED view
  /\ \/ UNCHANGED nR
     \/ /\ call'[1] \in {"copy_all", "copy_range", "copy_if"}
        /\ \E u \in Tbls : nR[u] = None /\ nR'[u] \in Nat /\ nR' = [nR EXCEPT ![u] = nR'[u]]

AddTbl(t, n) == nR[t] = None /\ nR' = [nR EXCEPT ![t] = n] /\ UNCHANGED view

AddFld(t, f, s) == nR[t] = Len(s) /\ Put(t, f, s)

\* The cells at which g is not 1 become null; the others stay defined or
\* become so.
MkNnFld(t, g, u, f) ==
  /\ Has(t, g) /\ Has(u, f) /\ nR[t] = nR[u]
  /\ LET s == view'[u, f] IN
       /\ s \in [1 .. nR[u] -> Vals \cup {Null}]
       /\ \A i \in DOMAIN s :
            /\ (s[i] = Null) <=> (view[t, g][i] # 1)
            /\ Null \notin {s[i], view[u, f][i]} => s[i] = view[u, f][i]
       /\ view' = [view EXCEPT ![u, f] = s, ![t, g] = None]
  /\ UNCHANGED nR

\* Null cells get some value, the others keep theirs.
DropNnFld(t, f) ==
  /\ Has(t, f)
  /\ view'[t, f] \in [1 .. nR[t] -> Vals]
  /\ \A i \in 1 .. nR[t] : view[t, f][i] # Null => view'[t, f][i] = view[t, f][i]
  /\ Put(t, f, view'[t, f])

DupFld(t, f, g) == Has(t, f) /\ Put(t, g, view[t, f])

MvFld(t, f, u) ==
  /\ Has(t, f) /\ nR[u] = nR[t]
  /\ view' = [view EXCEPT ![u, f] = view[t, f], ![t, f] = None]
  /\ UNCHANGED nR

SetVal(t, f, lb, ub, v) ==
  /\ Has(t, f) /\ lb < ub /\ ub <= nR[t]
  /\ Put(t, f, [i \in 1 .. nR[t] |-> IF i \in lb + 1 .. ub THEN v ELSE view[t, f][i]])

AllDefined(t, f) == Has(t, f) /\ \A i \in DOMAIN view[t, f] : view[t, f][i] # Null

Sort(t, f, dir) ==
  /\ AllDefined(t, f)
  /\ \E p \in Orders(nR[t]) :
       InOrder(At(view[t, f], p), dir) /\ Put(t, f, At(view[t, f], p))

\* The rows of the two fields move together.
SortF1F2(t, f, g, dir) ==
  /\ AllDefined(t, f) /\ AllDefined(t, g)
  /\ \E p \in Orders(nR[t]) :
       /\ InOrder(At(view[t, f], p), dir)
       /\ view' = [view EXCEPT ![t, f] = At(@, p), ![t, g] = At(@, p)]
  /\ UNCHANGED nR

\* u has, or gets, as many rows as are chosen.
CopyRows(t, f, p, u) ==
  /\ Has(t, f) /\ nR[u] \in {None, Len(p)}
  /\ nR' = [nR EXCEPT ![u] = Len(p)]
  /\ view' = [view EXCEPT ![u, f] = At(view[t, f], p)]

\* All fields grow by the other table's rows, or none does.
AppTbl(t, u) ==
  /\ nR[t] # None /\ nR[u] # None
  /\ \A f \in Flds : (view[t, f] = None) = (view[u, f] = None)
  /\ nR' = [nR EXCEPT ![t] = @ + nR[u]]
  /\ view' = [c \in Tbls \X Flds |->
                IF c[1] = t /\ view[c] # None THEN view[c] \o view[u, c[2]]
                ELSE view[c]]

F1opF2(t, f, g) ==
  Has(t, f) /\ Put(t, g, [i \in 1 .. nR[t] |-> Lift1(view[t, f][i])])

F1F2opF3(t, f, g, h) ==
  /\ Has(t, f) /\ Has(t, g)
  /\ Put(t, h, [i \in 1 .. nR[t] |-> Lift2(view[t, f][i], view[t, g][i])])

\* Down by k rows (up if k < 0); rows without a source are null.
Shift(t, f, k, g) ==
  /\ Has(t, f) /\ k # 0
  /\ Put(t, g, [i \in 1 .. nR[t] |->
                  IF i - k \in 1 .. nR[t] THEN view[t, f][i - k] ELSE Null])

\* The rows at which the cells s are v.
Matches(s, v) == {j \in DOMAIN s : s[j] = v}

\* What a join may make of the cells s at one or more rows J.
Joined(op, s, J) ==
  CASE op = "reg" -> {s[j] : j \in J}
    [] op = "min" -> {Min({s[j] : j \in J})}
    [] op = "max" -> {Max({s[j] : j \in J})}
    [] op = "sum" -> {MapThenSumSet(LAMBDA j : s[j], J)}

\* Each row of u gets what t has for its link, or is null.
SrtJoin(t, f, v, u, g, h, op) ==
  LET S == view[t, f]  D == view[u, g]  new == view'[u, h] IN
  /\ AllDefined(t, f) /\ AllDefined(u, g) /\ (op # "cnt" => Has(t, v))
  /\ DOMAIN new = DOMAIN D
  /\ \A i \in DOMAIN D :
       LET J == Matches(S, D[i]) IN
         new[i] \in IF J = {} THEN {Null}
                    ELSE IF op = "cnt" THEN {Cardinality(J)} ELSE Joined(op, view[t, v], J)
  /\ Put(u, h, new)

\* h says which cells of f are among those of u's g.
IsAInB(t, f, u, g, h) ==
  LET S == view[t, f]  B == view[u, g] IN
  /\ Has(t, f) /\ AllDefined(u, g)
  /\ Put(t, h, [i \in DOMAIN S |-> IF Matches(B, S[i]) = {} THEN 0 ELSE 1])

\* h has a cell of u's v for every row of t, found by its cell of f.
Fetch(t, f, u, g, v, h) ==
  LET S == view[t, f]  B == view[u, g]  new == view'[t, h] IN
  /\ Has(t, f) /\ AllDefined(u, g) /\ Has(u, v)
  /\ DOMAIN new = DOMAIN S
  /\ \A i \in DOMAIN S :
       LET J == Matches(B, S[i]) IN
         new[i] \in IF J = {} THEN {Null} ELSE {view[u, v][j] : j \in J}
  /\ Put(t, h, new)

\* u has nothing but the values of f, each once and in order, and in h how
\* often each occurs.
CountVals(t, f, u, g, h) ==
  LET S    == view[t, f]
      vals == SetToSortSeq({S[i] : i \in DOMAIN S}, <)
      cnts == [k \in DOMAIN vals |-> Cardinality(Matches(S, vals[k]))]
  IN /\ AllDefined(t, f) /\ t # u
     /\ nR' = [nR EXCEPT ![u] = Len(vals)]
     /\ view' = [c \in Tbls \X Flds |-> IF c[1] # u THEN view[c]
                                        ELSE IF c[2] = h THEN cnts
                                        ELSE IF c[2] = g THEN vals ELSE None]

-----------------------------------------------------------------------------
Init ==
  /\ nR = [t \in Tbls |-> None]
  /\ view = [c \in Tbls \X Flds |-> None]
  /\ call = <<"none">>
  /\ status = 0

\* What the call c has done if it succeeds.
InTable(c) ==
  \/ c[1] = "add_tbl"     /\ AddTbl(c[2], c[3])
  \/ c[1] = "add_fld"     /\ AddFld(c[2], c[3], c[5])
  \/ c[1] = "drop_nn_fld" /\ DropNnFld(c[2], c[3])
  \/ c[1] = "set_val"     /\ SetVal(c[2], c[3], c[4], c[5], c[6])
  \/ c[1] = "fop"         /\ Sort(c[2], c[3], c[4])
  \/ c[1] = "dup_fld"     /\ DupFld(c[2], c[3], c[4])
  \/ c[1] = "sortf1f2"    /\ SortF1F2(c[2], c[3], c[4], c[5])
  \/ c[1] \in {"f1opf2", "f1s1opf2"} /\ F1opF2(c[2], c[3], c[4])
  \/ c[1] = "shift"       /\ Shift(c[2], c[3], c[4], c[5])
  \/ c[1] = "f1f2opf3"    /\ F1F2opF3(c[2], c[3], c[4], c[5])
  \/ c[1] \in {"is_sorted", "sum", "set_sort_type", "set_cnt"} /\ UNCHANGED <<nR, view>>

BetweenTables(c) ==
  \/ c[1] = "app_tbl"    /\ AppTbl(c[2], c[3])
  \/ c[1] = "mv_fld"     /\ MvFld(c[2], c[3], c[4])
  \/ c[1] = "mk_nn_fld"  /\ MkNnFld(c[2], c[3], c[4], c[5])
  \/ c[1] = "copy_all"   /\ CopyRows(c[2], c[3], [i \in 1 .. nR[c[2]] |-> i], c[4])
  \/ c[1] = "copy_range" /\ CopyRows(c[2], c[3], [i \in 1 .. c[5] - c[4] |-> c[4] + i], c[6])
  \/ /\ c[1] = "copy_if" /\ Has(c[2], c[4])
     /\ CopyRows(c[2], c[3], Picked(view[c[2], c[4]]), c[5])
  \/ c[1] = "srt_join"   /\ SrtJoin(c[2], c[3], c[4], c[5], c[6], c[7], c[8])
  \/ c[1] = "is_a_in_b"  /\ IsAInB(c[2], c[3], c[4], c[5], c[6])
  \/ c[1] = "fetch"      /\ Fetch(c[2], c[3], c[4], c[5], c[6], c[7])
  \/ c[1] = "count_vals" /\ CountVals(c[2], c[3], c[4], c[5], c[6])

Next ==
  \/ status' = -1 /\ Refuse
  \/ status' = 0 /\ InTable(call')
  \/ status' = 0 /\ BetweenTables(call')

Spec == Init /\ [][Next]_rowVars
=============================================================================
