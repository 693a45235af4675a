----------------------------- MODULE MCColumns -----------------------------
(* Small document roots and the ways they are used.                        *)
EXTENDS Columns

\* The steps do not depend on the call that led to a state.
Store == <<use, nR, col>>

T1T2 == {"t1", "t2"}
FG   == {"f", "g"}

Bits  == 0 .. 1
Small == 0 .. 4
Not   == [x \in Small |-> IF x = 0 THEN 1 ELSE 0]
And   == [p \in Small \X Small |-> IF 0 \in {p[1], p[2]} THEN 0 ELSE 1]

OneTableCells == {<<"t1", "f">>, <<"t1", "g">>}
\* t1 has two fields; t2 gets copies of f only.
ThreeCells == OneTableCells \cup {<<"t2", "f">>}
FourCells  == T1T2 \X FG

MixedRows   == {<<0, 1>>, <<1, 0>>}
OrderedRows == {<<0, 1, 0>>, <<1, 1, 0>>, <<1, 0, 1>>}

\* One table under every verb that changes or computes a column in place.
Values ==
  [verbs |-> {"add_tbl", "add_fld", "mk_nn_fld", "drop_nn_fld", "dup_fld",
              "set_val", "fop", "sortf1f2", "f1opf2", "f1s1opf2", "f1f2opf3", "shift"},
   cells |-> OneTableCells, types |-> {"I1", "I4"}, vals |-> Bits,
   loads |-> [1 .. 2 -> Bits], rows |-> {2}, maxRows |-> 2, beyond |-> {}, made |-> {}, ops |-> {}]

\* Two tables and copies by range, by condition and in whole.
Copies ==
  [verbs |-> {"add_tbl", "add_fld", "mk_nn_fld", "drop_nn_fld", "mv_fld", "sum",
              "copy_all", "copy_range", "copy_if"},
   cells |-> ThreeCells, types |-> {"I1"}, vals |-> {},
   loads |-> MixedRows, rows |-> {1, 2}, maxRows |-> 2, beyond |-> {}, made |-> {}, ops |-> {}]

\* Two tables that are appended to one another and to themselves.
Appends ==
  [verbs |-> {"add_tbl", "add_fld", "mk_nn_fld", "app_tbl"},
   cells |-> FourCells, types |-> {"I1"}, vals |-> {},
   loads |-> [1 .. 1 -> Bits], rows |-> {1}, maxRows |-> 2, beyond |-> {}, made |-> {}, ops |-> {}]

\* Every verb that sets, uses or passes on a known order.
Sorting ==
  [verbs |-> {"add_tbl", "add_fld", "fop", "sortf1f2", "is_sorted", "set_sort_type",
              "copy_all", "copy_range", "copy_if", "dup_fld", "mv_fld"},
   cells |-> ThreeCells, types |-> {"I4"}, vals |-> {},
   loads |-> OrderedRows, rows |-> {3}, maxRows |-> 3, beyond |-> {}, made |-> {}, ops |-> {}]

\* Every verb that sets, uses or passes on a known count.
Counting ==
  [verbs |-> {"add_tbl", "add_fld", "mk_nn_fld", "sum", "set_cnt",
              "copy_all", "copy_range", "copy_if", "dup_fld", "mv_fld"},
   cells |-> ThreeCells, types |-> {"I1"}, vals |-> {},
   loads |-> MixedRows, rows |-> {2}, maxRows |-> 2, beyond |-> {}, made |-> {}, ops |-> {}]

\* Appending where types or flags do not agree, and using what is left.
Mismatches ==
  [verbs |-> {"add_tbl", "add_fld", "mk_nn_fld", "app_tbl", "dup_fld"},
   cells |-> FourCells, types |-> {"I1", "I4"}, vals |-> {},
   loads |-> {<<1>>}, rows |-> {1}, maxRows |-> 2, beyond |-> {"mixed", "mistyped"}, made |-> {}, ops |-> {}]

\* Joins by a sorted field, also of what a join has made.  A run of links is
\* found at the first row, after a jump, at the end or nowhere.
Joining ==
  [verbs |-> {"add_tbl", "add_fld", "srt_join"},
   cells |-> ThreeCells, made |-> {<<"t2", "g">>}, ops |-> {"reg", "max", "sum"},
   types |-> {"I4"}, vals |-> {}, loads |-> {<<0, 1, 1, 3>>, <<2, 0, 1, 1>>},
   rows |-> {4}, maxRows |-> 4, beyond |-> {}]

\* Searches in a sorted field, and counts.
Searching ==
  [Joining EXCEPT !.verbs = {"add_tbl", "add_fld", "srt_join", "is_a_in_b", "fetch", "count_vals"},
                  !.ops = {"cnt", "min"}]

\* Copying fields with flags under a condition.
Masking ==
  [Copies EXCEPT !.rows = {2}, !.beyond = {"masked"},
                 !.verbs = {"add_tbl", "add_fld", "mk_nn_fld", "copy_if"}]

AllUses    == {Values, Copies, Appends, Sorting, Counting, Mismatches,
               Joining, Searching}
MaskedUses == {Masking}
=============================================================================
