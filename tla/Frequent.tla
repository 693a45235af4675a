------------------------------ MODULE Frequent ------------------------------
(***************************************************************************)
(* approx_frequent: the elements of a column that occur often, with as     *)
(* many counters as the error that is allowed asks for.  The elements are  *)
(* read in blocks of packets; each packet is counted and merged into the   *)
(* counters; when there are more of them than cntr_siz, all are reduced    *)
(* by one and those at zero are dropped, as often as needed.  Sorting a    *)
(* packet and merging sorted arrays add up to adding two functions from    *)
(* elements to numbers.  Counters are ints: fewer than 2^31 elements.      *)
(***************************************************************************)
EXTENDS Integers, FiniteSets

CONSTANTS
  Ids,         \* the elements there may be
  Jobs,        \* the calls there may be
  MinCntr,     \* the least number of counters (10000)
  MaxThreads,  \* packets to a block, memory permitting: powers of two (128)
  MAX_SZ,      \* the most memory, in ints
  MaxRatio,    \* eps is not less than 1 / MaxRatio (2^50)
  None

VARIABLES
  job,         \* the call: n, x, cfld, min_freq, err, out_siz
  pc,
  cntr_siz, threads,
  left,        \* the selected rows from current_loc_in_x on
  block,       \* the rows in inputPackets that are not merged yet
  cntr,        \* element -> its counter, zero if it has none
  out,         \* element -> its frequency in f, zero if it is not in y
  good,        \* *ptr_estimate_is_good
  status,
  rounds,      \* history: how often all counters were reduced
  held         \* history: for each counter, as many rows of its element

vars == <<job, pc, cntr_siz, threads, left, block, cntr, out, good, status, rounds, held>>

ASSUME JobAssumption ==
  \A j \in Jobs : /\ j.n \in Nat /\ j.x \in [1 .. j.n -> Ids]
                  /\ j.cfld = None \/ j.cfld \subseteq 1 .. j.n
                  /\ j.min_freq \in Int /\ j.err \in Int /\ j.out_siz \in Int
ASSUME SizeAssumption ==
  /\ MinCntr \in Nat \ {0} /\ MAX_SZ \in Nat /\ MaxRatio \in Nat
  /\ MaxThreads \subseteq Nat \ {0} /\ 1 \in MaxThreads
ASSUME IdsFinite == IsFiniteSet(Ids)

-----------------------------------------------------------------------------
Selected == IF job.cfld = None THEN 1 .. job.n ELSE job.cfld

\* The rows of S that hold the element i.
Of(S, i) == {k \in S : job.x[k] = i}

Occurs(i) == Cardinality(Of(Selected, i))

eff_siz == Cardinality(Selected)

\* The first n rows of S.
First(S, n) == {k \in S : Cardinality({j \in S : j <= k}) <= n}

Active == {i \in Ids : cntr[i] > 0}

\* Mutant: a counter less than the rounding leaves.
CntrSizes_Fewer == {IF eff_siz \div job.err <= 1 THEN 1 ELSE eff_siz \div job.err - 1}

\* (long long)(1/eps)+1 where eps is err/eff_siz in a double: where err divides
\* eff_siz the quotient may come out just below, and is truncated.
CntrSizes ==
  LET q == eff_siz \div job.err IN
  {IF c < MinCntr THEN MinCntr ELSE c : c \in {q + 1} \cup (IF q * job.err = eff_siz THEN {q} ELSE {})}

BadInput == \/ job.n <= 0 \/ job.err <= 0 \/ job.min_freq <= 0
            \/ job.min_freq - job.err <= 0 \/ eff_siz = 0

\* Mutant: room is asked for by min_freq.
OutTooSmall_MinFreq == job.out_siz < eff_siz \div job.min_freq

\* eff_siz/(min_freq - err) does not fit.
OutTooSmall == job.out_siz < eff_siz \div (job.min_freq - job.err)

\* The most packets to a block that fit, halving from the greatest.
ThreadsFor(c) ==
  CHOOSE t \in MaxThreads : /\ c * (t + 2 + 6) <= MAX_SZ
                            /\ \A u \in MaxThreads : c * (u + 2 + 6) <= MAX_SZ => u <= t

Give(s, g) == /\ pc' = "done" /\ status' = s /\ good' = g
              /\ UNCHANGED <<job, cntr_siz, threads, left, block, cntr, out, rounds, held>>

\* The inputs are checked, and the memory is counted.
Check ==
  /\ pc = "check"
  /\ \/ BadInput /\ Give(-1, -1)
     \/ ~BadInput /\ eff_siz > MaxRatio * job.err /\ Give(0, -2)
     \/ /\ ~BadInput /\ eff_siz <= MaxRatio * job.err
        /\ OutTooSmall /\ Give(-1, -1)
     \/ /\ ~BadInput /\ eff_siz <= MaxRatio * job.err /\ ~OutTooSmall
        /\ \E c \in CntrSizes :
             \/ c * (1 + 2 + 6) > MAX_SZ /\ Give(0, -2)
             \/ /\ c * (1 + 2 + 6) <= MAX_SZ
                /\ cntr_siz' = c /\ threads' = ThreadsFor(c)
                /\ left' = Selected
                /\ pc' = "read"
                /\ UNCHANGED <<job, block, cntr, out, good, status, rounds, held>>

\* Mutant: a block is read only if it is full.
InBlock_Full ==
  IF Cardinality(left) < threads * cntr_siz THEN {} ELSE First(left, threads * cntr_siz)

InBlock == First(left, threads * cntr_siz)

\* As many elements as a block has room for are copied to inputPackets.
Read ==
  /\ pc = "read" /\ left # {}
  /\ block' = InBlock /\ left' = left \ InBlock
  /\ pc' = IF InBlock = {} THEN "read" ELSE "merge"
  /\ UNCHANGED <<job, cntr_siz, threads, cntr, out, good, status, rounds, held>>

\* Mutant: an element that has a counter keeps it as it is.
Sum_Keeps(p) ==
  [i \in Ids |-> IF cntr[i] > 0 THEN cntr[i] ELSE Cardinality(Of(p, i))]

Sum(p) == [i \in Ids |-> cntr[i] + Cardinality(Of(p, i))]

\* One packet is counted (sorted_array_to_id_freq) and merged into the
\* counters (the first half of update_counter).
Merge ==
  LET p == First(block, cntr_siz) IN
  /\ pc = "merge" /\ block # {}
  /\ cntr' = Sum(p) /\ held' = held \cup p
  /\ block' = block \ p
  /\ pc' = "drop"
  /\ UNCHANGED <<job, cntr_siz, threads, left, out, good, status, rounds>>

\* One row of held for each element that has a counter.
Dropped == {CHOOSE k \in held : job.x[k] = i : i \in Active}

\* The second half of update_counter: all counters are reduced by one.
Drop ==
  /\ pc = "drop" /\ Cardinality(Active) > cntr_siz
  /\ cntr' = [i \in Ids |-> IF cntr[i] > 0 THEN cntr[i] - 1 ELSE 0]
  /\ rounds' = rounds + 1 /\ held' = held \ Dropped
  /\ UNCHANGED <<job, pc, cntr_siz, threads, left, block, out, good, status>>

Keep ==
  /\ pc = "drop" /\ Cardinality(Active) <= cntr_siz
  /\ pc' = IF block # {} THEN "merge" ELSE IF left # {} THEN "read" ELSE "list"
  /\ UNCHANGED <<job, cntr_siz, threads, left, block, cntr, out, good, status, rounds, held>>

\* Mutant: every counter is listed.
Often_Any(c) == c > 0

Often(c) == c >= job.min_freq - job.err

List ==
  /\ pc = "list"
  /\ out' = [i \in Ids |-> IF Often(cntr[i]) THEN cntr[i] ELSE 0]
  /\ good' = 1 /\ pc' = "done"
  /\ UNCHANGED <<job, cntr_siz, threads, left, block, cntr, status, rounds, held>>

Init ==
  /\ job \in Jobs /\ pc = "check"
  /\ cntr_siz = 0 /\ threads = 0 /\ left = {} /\ block = {}
  /\ cntr = [i \in Ids |-> 0] /\ out = [i \in Ids |-> 0]
  /\ good = -1 /\ status = 0 /\ rounds = 0 /\ held = {}

Next == Check \/ Read \/ Merge \/ Drop \/ Keep \/ List

Spec == Init /\ [][Next]_vars

\* One thread does all this but the sorting of packets, and nothing holds it
\* up: a step that is possible is taken.
FairSpec == Spec /\ WF_vars(Next)

-----------------------------------------------------------------------------
(* Properties.                                                             *)

\* The rows that are in the counters or have been.
Done == Selected \ (left \cup block)

Listed == {i \in Ids : out[i] > 0}

Counting == pc \in {"read", "merge", "drop", "list"}

\* The inductive invariant.  Each selected row is unread, in a packet, held by
\* the counter of its element, or given up in a round that gave up more rows
\* than there are counters.
FreqInv ==
  /\ job \in Jobs /\ pc \in {"check", "read", "merge", "drop", "list", "done"}
  /\ cntr \in [Ids -> Nat] /\ rounds \in Nat
  /\ good = 1 => pc = "done"
  /\ pc = "check" => cntr = [i \in Ids |-> 0] /\ rounds = 0 /\ held = {} /\ block = {}
  /\ Counting =>
       /\ ~BadInput /\ ~OutTooSmall
       /\ cntr_siz \in Nat /\ eff_siz \div job.err <= cntr_siz
       /\ left \subseteq Selected /\ block \subseteq Selected /\ left \cap block = {}
       /\ held \subseteq Done
       /\ \A i \in Ids : /\ cntr[i] = Cardinality(Of(held, i))
                         /\ Cardinality(Of(Done, i)) <= cntr[i] + rounds
       /\ (cntr_siz + 1) * rounds + Cardinality(held) <= Cardinality(Done)
  /\ pc = "read" => block = {}
  /\ pc = "list" => left = {} /\ block = {}

\* Why it works: a counter is never above the number of its element so far,
\* and below it by at most one for each time the counters were reduced, and
\* each time cost more rows than there are counters (update_counter).
Accounted ==
  Counting =>
    /\ \A i \in Ids : /\ cntr[i] <= Cardinality(Of(Done, i))
                      /\ Cardinality(Of(Done, i)) <= cntr[i] + rounds
    /\ (cntr_siz + 1) * rounds + Cardinality(held) <= Cardinality(Done)

\* The first two promises of approx_frequent: every element that occurs
\* min_freq times or more is listed, with a frequency that is less than it
\* by less than err, whichever way 1/eps is rounded.
FrequentListed ==
  good = 1 => \A i \in Ids : Occurs(i) >= job.min_freq
                               => i \in Listed /\ out[i] <= Occurs(i) /\ Occurs(i) - out[i] < job.err

\* The third: no element that occurs less than min_freq - err times is listed.
NoneRare == good = 1 => \A i \in Listed : Occurs(i) >= job.min_freq - job.err

\* y and f have room for what is listed: their size is checked before
\* anything is counted.
OutputFits == good = 1 => Cardinality(Listed) <= job.out_siz

\* Every call ends: blocks come to an end, and so does the reducing of
\* counters.
Terminates == <>(pc = "done")
=============================================================================
