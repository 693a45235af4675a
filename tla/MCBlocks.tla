------------------------------ MODULE MCBlocks ------------------------------
(* Small columns and the calls that work on them in blocks.                *)
EXTENDS Blocks

Low  == -1
Vals == Lo .. Hi

Columns(n)  == [0 .. n - 1 -> Vals]
Constant(n) == {[i \in 0 .. n - 1 |-> v] : v \in Vals}
Flags(n)    == [0 .. n - 1 -> BOOLEAN]

Call(op, n, X, nn, m, cap) ==
  [op |-> op, n |-> n, X |-> X, nn |-> nn, m |-> m, cap |-> cap, start |-> 0, incr |-> 0]

\* Blocks of one or two rows, and at most two or three of them, or any number.
Divisions == {1, 2} \X {-1, 2, 3}

\* Every column without nulls.
Plain == UNION {{Call(op, n, X, None, d[1], d[2]) :
                   op \in {"min", "max", "sum"}, X \in Columns(n), d \in Divisions} : n \in 0 .. 5}

\* Sums over flags, and over the rows where another field is true.
Flagged == UNION {{Call(op, n, X, nn, 1, cap) :
                     op \in {"sum", "sumif"}, X \in Columns(n), nn \in Flags(n), cap \in {2, 3}}
                  : n \in 1 .. 4}

\* Least and greatest value with flags, where all values are the same.
OneValue == UNION {{Call(op, n, X, nn, d[1], d[2]) :
                      op \in {"min", "max"}, X \in Constant(n), nn \in Flags(n), d \in Divisions}
                   : n \in 1 .. 5}

\* The same with any values.
AnyValue == UNION {{Call(op, n, X, nn, 2, -1) :
                      op \in {"min", "max"}, X \in Columns(n), nn \in Flags(n)} : n \in 1 .. 4}

\* Fields of bits with one bit set, or all, divided at bytes.
Bits(n) == {[i \in 0 .. n - 1 |-> IF i = k THEN 1 ELSE 0] : k \in 0 .. n - 1}
           \cup {[i \in 0 .. n - 1 |-> 1]}
BitFields == UNION {{Call("bits", d[1], X, None, d[2], -1) : X \in Bits(d[1])} :
                    d \in {<<48, 16>>, <<48, 24>>, <<50, 16>>, <<53, 53>>}}

\* Sequences up and down, over the ends of the type and within it.
Sequence(n, a, b, m) ==
  [Call("seq", n, [i \in 0 .. n - 1 |-> 0], None, m, -1) EXCEPT !.start = a, !.incr = b]
Sequences == {Sequence(n, a, b, m) : n \in 1 .. 5, a \in Vals, b \in -1 .. 1, m \in {1, 2}}

AllJobs  == Plain \cup Flagged \cup OneValue \cup BitFields \cup Sequences
NullJobs == AnyValue
=============================================================================
