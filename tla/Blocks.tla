------------------------------- MODULE Blocks -------------------------------
(***************************************************************************)
(* Work on a column in blocks.  partition divides the rows among a number  *)
(* of blocks; each block is worked on by itself, and leaves a partial      *)
(* result or its part of a new column; the partial results are combined.   *)
(* Here are the reductions of par_f_to_s (min, max, sum, with and without  *)
(* null flags, and the sum of a field of bits), the conditional sum of     *)
(* f1f2_to_s, and the sequences of par_s_to_f.                             *)
(***************************************************************************)
EXTENDS Integers, Sequences, FiniteSets, FiniteSetsExt

CONSTANTS
  Lo, Hi,      \* the least and the greatest value of a field's type
  WordBits,    \* bits in a word of a field of bits (64)
  Jobs,        \* the calls there may be
  None

VARIABLES
  job,         \* the call: op, n (rows), X, nn, m, cap; start and incr for "seq"
  pc,
  size, nT,    \* what partition returned
  tid,         \* the block that is next
  part,        \* block -> its count and its partial result
  out,         \* row -> value of the new column, None if not yet written
  result,      \* [val, cnt], None before the end
  status

vars == <<job, pc, size, nT, tid, part, out, result, status>>

Rows == 0 .. job.n - 1

ASSUME TypeAssumption == Lo \in Int /\ Hi \in Int /\ Lo <= Hi
ASSUME WordAssumption == WordBits \in Nat /\ WordBits > 0 /\ WordBits % 8 = 0
ASSUME JobAssumption ==
  \A j \in Jobs : /\ j.n \in Nat /\ j.m \in Nat \ {0} /\ j.cap \in Int
                  /\ j.op \in {"min", "max", "sum", "sumif", "bits", "seq"}

-----------------------------------------------------------------------------
(* Dividing the rows.                                                      *)

\* Mutant: a last block that is longer than the others is not borne.
Refused_AnyRest(n, s, c) == n <= 0 \/ n - s * c > 0

\* There are no rows, or one of the two checks on the block size fails.
Refused(n, s, c) == n <= 0 \/ n - s * c >= s \/ s * (c + 1) < n

\* At least one block, of m rows each, and not more of them than cap.
NumChunks(n, m, cap) ==
  LET c == IF n \div m = 0 THEN 1 ELSE n \div m
  IN IF cap > 0 /\ c > cap THEN cap ELSE c

\* Mutant: the last block is as long as the others.
Ub_Even(t, n, s, c) == (t + 1) * s

Lb(t, s) == t * s
Ub(t, n, s, c) == IF t = c - 1 THEN n ELSE (t + 1) * s

Block(t, n, s, c) == Lb(t, s) .. Ub(t, n, s, c) - 1

-----------------------------------------------------------------------------
(* What is done with the rows S of one block.                              *)

Defined(S) == IF job.nn = None THEN S ELSE {i \in S : job.nn[i]}

SumOver(S) == MapThenSumSet(LAMBDA i : job.X[i], S)

\* With null flags each value is compared with the one there was before the
\* block, not with the least so far: the last value that is less stays.
MinIn(S) ==
  LET less == {i \in Defined(S) : job.X[i] < Hi}
  IN IF less = {} THEN Hi
     ELSE IF job.nn = None THEN Min({job.X[i] : i \in less})
     ELSE job.X[Max(less)]

MaxIn(S) ==
  LET more == {i \in Defined(S) : job.X[i] > Lo}
  IN IF more = {} THEN Lo
     ELSE IF job.nn = None THEN Max({job.X[i] : i \in more})
     ELSE job.X[Max(more)]

Byte(b) == 8 * b .. 8 * b + 7
Ones(S) == Cardinality({i \in S \cap Rows : job.X[i] = 1})

\* The bits that mask_byte_L and mask_byte_R leave of a byte.
mask_byte_L(k) ==
  CASE k = 1 -> {7}
    [] k = 2 -> {7, 5, 4}
    [] k = 3 -> {7, 6, 4}
    [] k = 4 -> 4 .. 7
    [] k = 5 -> 3 .. 7
    [] k = 6 -> (0 .. 7) \ {2}
    [] k = 7 -> (0 .. 7) \ {1}
mask_byte_R(k) == 0 .. k - 1

Masked(b, M) == {8 * b + k : k \in M}

\* f_to_s_sum_B: the bytes before the first word boundary, the words, and the
\* bytes after the last.  For the bits before the first whole byte it takes
\* the last byte before the boundary.
SumBits(lb, ub) ==
  LET lb2   == ((lb + WordBits - 1) \div WordBits) * WordBits
      ub2   == (ub \div WordBits) * WordBits
      head  == (lb2 - lb) \div 8
      tail  == (ub - ub2) \div 8
      first == lb2 \div 8 - head
      last  == ub2 \div 8 + tail
      lrest == (lb2 - lb) % 8
      rrest == (ub - ub2) % 8
  IN Ones(UNION {Byte(b) : b \in first .. first + head - 1})
     + (IF lrest = 0 THEN 0 ELSE Ones(Masked(first - 1 + head, mask_byte_L(lrest))))
     + Ones(lb2 .. ub2 - 1)
     + Ones(UNION {Byte(b) : b \in ub2 \div 8 .. last - 1})
     + (IF rrest = 0 THEN 0 ELSE Ones(Masked(last, mask_byte_R(rrest))))

Partial(t) ==
  LET S == Block(t, job.n, size, nT) IN
  [cnt |-> Cardinality(Defined(S)),
   val |-> CASE job.op = "min"             -> MinIn(S)
             [] job.op = "max"             -> MaxIn(S)
             [] job.op \in {"sum", "sumif"} -> SumOver(Defined(S))
             [] job.op = "bits"            -> SumBits(Lb(t, size), Ub(t, job.n, size, nT))
             [] OTHER                      -> 0]

\* A value of the field's type.
Wrap(v) == Lo + ((v - Lo) % (Hi - Lo + 1))

\* Mutant: the block starts as many steps on as there are blocks before it.
SeqStart_Block(t) == job.start + t * job.incr

SeqStart(t) == job.start + Lb(t, size) * job.incr

-----------------------------------------------------------------------------
(* The steps.                                                              *)

\* par_f_to_s and par_s_to_f call partition first and give up if it does.
Partition ==
  LET c == NumChunks(job.n, job.m, job.cap)
      s == job.n \div c
  IN /\ pc = "partition"
     /\ IF Refused(job.n, s, c)
        THEN /\ pc' = "done" /\ status' = -1
             /\ UNCHANGED <<size, nT>>
        ELSE /\ pc' = "block" /\ size' = s /\ nT' = c
             /\ UNCHANGED status
     /\ UNCHANGED <<job, tid, part, out, result>>

\* One block of a reduction.
ReduceBlock ==
  /\ pc = "block" /\ tid < nT /\ job.op # "seq"
  /\ part' = Append(part, Partial(tid))
  /\ tid' = tid + 1
  /\ UNCHANGED <<job, pc, size, nT, out, result, status>>

\* One block of a sequence.  A block that starts beyond the type is left out,
\* and the others are still done.
SeqBlock ==
  LET S == Block(tid, job.n, size, nT) IN
  /\ pc = "block" /\ tid < nT /\ job.op = "seq"
  /\ IF SeqStart(tid) > Hi
     THEN status' = -1 /\ UNCHANGED out
     ELSE /\ out' = [i \in Rows |-> IF i \in S
                      THEN Wrap(SeqStart(tid) + (i - Lb(tid, size)) * job.incr) ELSE out[i]]
          /\ UNCHANGED status
  /\ tid' = tid + 1
  /\ UNCHANGED <<job, pc, size, nT, part, result>>

\* Mutant: blocks without a defined value count.
Counted_All == DOMAIN part

\* The blocks that have a say in the result.
Counted == {k \in DOMAIN part : job.op \in {"min", "max"} => part[k].cnt > 0}

\* The greatest and the least number there is, beyond those of the type.
LLONG_MAX == Hi + 1
LLONG_MIN == Lo - 1

Combine ==
  /\ pc = "block" /\ tid = nT
  /\ pc' = "done"
  /\ result' =
       [cnt |-> MapThenSumSet(LAMBDA k : part[k].cnt, Counted),
        val |-> CASE job.op = "min" -> Min({part[k].val : k \in Counted} \cup {LLONG_MAX})
                  [] job.op = "max" -> Max({part[k].val : k \in Counted} \cup {LLONG_MIN})
                  [] OTHER          -> MapThenSumSet(LAMBDA k : part[k].val, Counted)]
  /\ UNCHANGED <<job, size, nT, tid, part, out, status>>

Init ==
  /\ job \in Jobs
  /\ pc = "partition" /\ size = 0 /\ nT = 0 /\ tid = 0
  /\ part = <<>> /\ out = [i \in Rows |-> None]
  /\ result = None /\ status = 0

Next == Partition \/ ReduceBlock \/ SeqBlock \/ Combine

Spec == Init /\ [][Next]_vars

-----------------------------------------------------------------------------
(* Properties.                                                             *)

\* The inductive invariant: in the loop, size and nT are what partition makes
\* of the call and has not refused; without them it has refused.
BlocksInv ==
  LET c == NumChunks(job.n, job.m, job.cap)
      s == job.n \div c
  IN /\ job \in Jobs
     /\ pc \in {"partition", "block", "done"}
     /\ pc = "partition" => nT = 0
     /\ nT = 0 => pc # "block"
     /\ pc = "done" /\ nT = 0 => Refused(job.n, s, c)
     /\ nT # 0 => nT = c /\ size = s /\ ~Refused(job.n, s, c)

\* c blocks of s rows hold each of n rows once, and nothing else.
SharedOut(n, s, c) ==
  /\ \A r \in 0 .. n - 1 : \E t \in 0 .. c - 1 : r \in Block(t, n, s, c)
  /\ \A t \in 0 .. c - 1 : Block(t, n, s, c) # {} /\ Block(t, n, s, c) \subseteq 0 .. n - 1
  /\ \A t, u \in 0 .. c - 1 : t # u => Block(t, n, s, c) \cap Block(u, n, s, c) = {}

\* Once partition has gone through, every row is in a block, in one block
\* only, no block is empty and none has rows that are not there, whatever is
\* left over when the rows are divided (partition and the loops over tid).
CoveredOnce == pc = "block" => SharedOut(job.n, size, nT)

\* partition refuses rows only if there are none, or if it may make more
\* blocks than a block is to have rows: f1f2_to_s, with blocks of one row and
\* at most sixteen of them, is the caller that meets this.
RefusesOnlyNarrow ==
  pc = "done" /\ nT = 0 => job.n <= 0 \/ job.cap > job.m

\* What a reduction promises: the least, the greatest or the sum of the
\* defined values, and how many they are.
Reference ==
  LET D == Defined(Rows)
      V == {job.X[i] : i \in D}
  IN [cnt |-> Cardinality(D),
      val |-> CASE job.op = "min" -> Min(V \cup {LLONG_MAX})
                [] job.op = "max" -> Max(V \cup {LLONG_MIN})
                [] OTHER          -> SumOver(D)]

\* The result of a reduction is that of its definition, however the rows are
\* divided and wherever the nulls are (f_to_s and f1f2_to_s).
Reduced == pc = "done" /\ result # None /\ job.op # "seq" => result = Reference

\* A sequence that succeeds has the n-th term in row n, in every block, also
\* where the terms run over the end of the type (par_s_to_f).
Sequenced ==
  pc = "done" /\ result # None /\ job.op = "seq" /\ status = 0
    => \A i \in Rows : out[i] = Wrap(job.start + i * job.incr)
=============================================================================
