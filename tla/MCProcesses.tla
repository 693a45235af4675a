---------------------------- MODULE MCProcesses ----------------------------
(* Small document roots shared by processes, and the ways they are used.   *)
EXTENDS Processes

TwoProcs == {"p", "q"}
Nn == [n \in {"f", "g"} |-> IF n = "f" THEN "_nn_f" ELSE "_nn_g"]

OneHome == [n \in {"t", "u", "f", "g", "_nn_f", "_nn_g"} |-> 0]
Apart   == [t |-> 0, u |-> 1, f |-> 0, _nn_f |-> 1, g |-> 2, _nn_g |-> 3]

NoTables  == [t \in TblIds |-> NullTbl]
Tables(t) == {<<"add_tbl", t, None, FALSE>>, <<"del_tbl", t, None, FALSE>>}

\* One process at a time, killed up to twice; all names look for a slot in
\* the same place.
Killed ==
  [jobs |-> [p |-> Tables("t") \cup Tables("u")
                   \cup {<<"set_fld", "t", "f", FALSE>>, <<"set_fld", "t", "g", FALSE>>,
                         <<"del_fld", "t", "f", FALSE>>},
             q |-> {}],
   tables |-> NoTables, home |-> OneHome, crashes |-> 2]

\* Two processes at work on tables of their own, whose names and whose
\* fields' names have homes of their own.
Beside ==
  [jobs |-> [p |-> Tables("t") \cup {<<"set_fld", "t", "f", TRUE>>, <<"del_fld", "t", "f", TRUE>>},
             q |-> Tables("u") \cup {<<"set_fld", "u", "g", TRUE>>, <<"del_fld", "u", "g", TRUE>>}],
   tables |-> NoTables, home |-> Apart, crashes |-> 0]

\* One process makes and replaces fields that another one reads.
ReadAlong ==
  [jobs |-> [p |-> {<<"set_fld", "t", "f", TRUE>>, <<"set_fld", "t", "g", FALSE>>},
             q |-> {<<"read", "t", "f">>, <<"read", "t", "g">>}],
   tables |-> [NoTables EXCEPT ![0] = [name |-> "t", nR |-> 1]],
   home |-> OneHome, crashes |-> 0]

SharedUses == {Killed, Beside, ReadAlong}
=============================================================================
