----------------------------- MODULE MCFrequent -----------------------------
(* Short columns of few elements.                                          *)
EXTENDS Frequent

FewIds == 1 .. 4

\* Columns in which elements first appear in order: the others differ from
\* one of these by the names of the elements, which nothing depends on.
Column(n) ==
  {x \in [1 .. n -> Ids] :
     \A k \in 1 .. n : x[k] = 1 \/ \E j \in 1 .. k - 1 : x[j] = x[k] - 1}

Call(n, x, c, m, e, o) ==
  [n |-> n, x |-> x, cfld |-> c, min_freq |-> m, err |-> e, out_siz |-> o]

\* All elements; some that are not allowed; and a selection of them.
All   == UNION {{Call(n, x, None, d[1], d[2], n) : x \in Column(n),
                   d \in {<<2, 1>>, <<3, 1>>, <<3, 2>>, <<4, 3>>, <<5, 2>>}} : n \in {5, 7}}
         \cup {Call(8, x, None, 4, 3, 8) : x \in Column(8)}
Odd   == {Call(n, x, None, d[1], d[2], o) : n \in {3}, x \in Column(3),
            d \in {<<0, 1>>, <<1, 1>>, <<2, 0>>, <<2, 1>>, <<3, 1>>}, o \in 0 .. 3}
         \cup {Call(0, <<>>, None, 2, 1, 0)}
Some  == {Call(6, x, c, d[1], d[2], 6) : x \in Column(6), c \in SUBSET (1 .. 6),
            d \in {<<2, 1>>, <<3, 2>>}}
AllJobs == All \cup Odd \cup Some

Powers == {1, 2}
=============================================================================
