---------------------------- MODULE MCDataDirs ----------------------------
(* Small data directories and the ways they are used.                      *)
EXTENDS DataDirs

CONSTANTS p1, p2, fldF, fldG, dirA, dirB, main

Make(x, s) == [verb |-> "make", fld |-> x, sizes |-> s]
Del(x)     == [verb |-> "del", fld |-> x]
List(d)    == [verb |-> "orphans", dir |-> d]

\* One process at a time, with every kind of call.  Of the sizes, 2 is a
\* whole block, 4 a multiple of 2^W, and 3 with 1 a field with flags.
Alone ==
  [calls  |-> (p1 :> ({Make(fldF, s) : s \in {<<3>>, <<3, 1>>, <<4>>}}
                      \cup {Make(fldG, <<2>>), Del(fldF), Del(fldG)} \cup {List(d) : d \in {main, dirA}})
               @@ p2 :> {}),
   alt    |-> (p1 :> {None, dirA, dirB} @@ p2 :> {None}),
   blocks |-> (main :> 4 @@ dirA :> 3 @@ dirB :> 3),
   files |-> 3, anyName |-> TRUE]

\* Two processes that make fields side by side.  The alternative directory
\* never fills up.
Beside ==
  [calls  |-> (p1 :> {Make(fldF, <<2>>), Make(fldF, <<3, 1>>)}
               @@ p2 :> {Make(fldG, <<3>>), Del(fldG)}),
   alt    |-> (p1 :> {None, dirA} @@ p2 :> {None, dirA}),
   blocks |-> (main :> 4 @@ dirA :> 9 @@ dirB :> 9),
   files |-> 3, anyName |-> FALSE]

\* Two processes that make and delete fields in one directory with little
\* room: files are gone between two looks at the room there is.
Crowded ==
  [calls  |-> (p1 :> {Make(fldF, <<2>>), Make(fldF, <<3, 1>>)}
               @@ p2 :> {Make(fldG, <<3>>), Del(fldG)}),
   alt    |-> (p1 :> {dirA} @@ p2 :> {dirA}),
   blocks |-> (main :> 4 @@ dirA :> 4 @@ dirB :> 4),
   files |-> 4, anyName |-> FALSE]

DirUses == {Alone, Beside, Crowded}
=============================================================================
