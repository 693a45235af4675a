---------------------------- MODULE BlocksProofs ----------------------------
(***************************************************************************)
(* However many rows there are and however they are to be divided, the     *)
(* blocks that partition settles on share the rows out exactly, and        *)
(* partition refuses no more than RefusesOnlyNarrow says.                  *)
(***************************************************************************)
EXTENDS Blocks, TLAPS

\* Integer division, as C does it on numbers that are not negative.
LEMMA Division ==
  ASSUME NEW n \in Nat, NEW c \in Nat, c > 0
  PROVE  /\ n \div c \in Nat
         /\ c * (n \div c) <= n
         /\ n < c * (n \div c) + c
OBVIOUS

\* Multiples of s are in the order of their factors.
LEMMA Multiples ==
  ASSUME NEW a \in Nat, NEW b \in Nat, NEW s \in Nat
  PROVE  /\ a * s \in Nat
         /\ (a + 1) * s = a * s + s
         /\ a <= b => a * s <= b * s
         /\ a < b => (a + 1) * s <= b * s
OBVIOUS

\* There is a block, and not more blocks than rows.
LEMMA Chunks ==
  ASSUME NEW n \in Nat, n > 0, NEW m \in Nat \ {0}, NEW cap \in Int
  PROVE  NumChunks(n, m, cap) \in 1 .. n
<1>1. n \div m \in Nat /\ m * (n \div m) <= n
  BY Division
<1>2. n \div m <= m * (n \div m)
  BY <1>1
<1> QED
  BY <1>1, <1>2 DEF NumChunks

\* Rows in blocks of equal length, of which the last takes what is left.
LEMMA Sharing ==
  ASSUME NEW n \in Nat, NEW s \in Nat, NEW c \in Nat, s > 0, c > 0, c * s <= n
  PROVE  SharedOut(n, s, c)
<1>1. ASSUME NEW r \in 0 .. n - 1 PROVE \E t \in 0 .. c - 1 : r \in Block(t, n, s, c)
  <2>1. r \div s \in Nat /\ s * (r \div s) <= r /\ r < s * (r \div s) + s
    BY Division
  <2>2. CASE r \div s < c - 1
    <3>1. r \in Block(r \div s, n, s, c)
      BY <2>1, <2>2 DEF Block, Lb, Ub
    <3> QED
      BY <2>1, <2>2, <3>1
  <2>3. CASE r \div s >= c - 1
    <3>1. (c - 1) * s <= (r \div s) * s
      BY <2>1, <2>3, Multiples
    <3>2. r \in Block(c - 1, n, s, c)
      BY <2>1, <3>1 DEF Block, Lb, Ub
    <3> QED
      BY <3>2
  <2> QED
    BY <2>1, <2>2, <2>3
<1>2. ASSUME NEW t \in 0 .. c - 1
      PROVE  /\ Lb(t, s) \in Nat /\ Ub(t, n, s, c) \in Nat
             /\ Lb(t, s) < Ub(t, n, s, c) /\ Ub(t, n, s, c) <= n
  <2>1. t * s \in Nat /\ (t + 1) * s = t * s + s /\ (t + 1) * s <= c * s
    BY Multiples
  <2> QED
    BY <2>1 DEF Lb, Ub
<1>3. ASSUME NEW t \in 0 .. c - 1
      PROVE  Block(t, n, s, c) # {} /\ Block(t, n, s, c) \subseteq 0 .. n - 1
  <2>1. Lb(t, s) \in Block(t, n, s, c)
    BY <1>2 DEF Block
  <2> QED
    BY <1>2, <2>1 DEF Block
<1>4. ASSUME NEW t \in 0 .. c - 1, NEW u \in 0 .. c - 1, t < u
      PROVE  Ub(t, n, s, c) <= Lb(u, s)
  BY <1>4, Multiples DEF Ub, Lb
<1>5. ASSUME NEW t \in 0 .. c - 1, NEW u \in 0 .. c - 1, t # u
      PROVE  Block(t, n, s, c) \cap Block(u, n, s, c) = {}
  <2>1. Ub(t, n, s, c) <= Lb(u, s) \/ Ub(u, n, s, c) <= Lb(t, s)
    BY <1>4, <1>5
  <2> QED
    BY <1>2, <2>1 DEF Block
<1> QED
  BY <1>1, <1>3, <1>5 DEF SharedOut

\* What partition returns, divides the rows.
LEMMA Divided ==
  ASSUME NEW n \in Nat, n > 0, NEW m \in Nat \ {0}, NEW cap \in Int
  PROVE  LET c == NumChunks(n, m, cap)
             s == n \div c
         IN /\ c \in Nat /\ c > 0 /\ s \in Nat /\ s > 0 /\ c * s <= n /\ n < c * s + c
<1> DEFINE c == NumChunks(n, m, cap)
<1>1. c \in 1 .. n
  BY Chunks
<1> HIDE DEF c
<1>2. n \div c \in Nat /\ c * (n \div c) <= n /\ n < c * (n \div c) + c
  BY <1>1, Division
<1>3. n \div c > 0
  BY <1>1, <1>2
<1> QED
  BY <1>1, <1>2, <1>3 DEF c

\* Where a block is to have at least as many rows as there may be blocks, or
\* the number of blocks is not limited, what is left over is less than a block.
LEMMA Serves ==
  ASSUME NEW n \in Nat, n > 0, NEW m \in Nat \ {0}, NEW cap \in Int, cap <= m
  PROVE  LET c == NumChunks(n, m, cap)
             s == n \div c
         IN ~Refused(n, s, c)
<1> DEFINE q == n \div m
           c == NumChunks(n, m, cap)
           s == n \div c
<1>1. q \in Nat /\ m * q <= n /\ n < m * q + m
  BY Division
<1>2. c \in Nat /\ c > 0 /\ s \in Nat /\ s > 0 /\ c * s <= n /\ n < c * s + c
  BY Divided
<1>3. n - s * c < s
  <2>1. CASE q = 0
    <3>1. c = 1
      BY <2>1 DEF NumChunks
    <3> QED
      BY <1>2, <3>1
  <2>2. CASE q # 0 /\ c = q
    <3> HIDE DEF c, s, q
    <3>1. m <= s
      <4>1. SUFFICES ASSUME s < m PROVE FALSE
        BY <1>2
      <4>2. (s + 1) * c <= m * c
        BY <1>2, <4>1, Multiples
      <4> QED
        BY <1>1, <1>2, <2>2, <4>2
    <3>2. m * c <= s * c
      BY <1>2, <3>1, Multiples
    <3> QED
      BY <1>1, <1>2, <2>2, <3>1, <3>2
  <2>3. CASE q # 0 /\ c # q
    <3>1. cap > 0 /\ c = cap /\ cap < q
      BY <1>1, <2>3 DEF NumChunks
    <3> HIDE DEF c, s, q
    <3>2. c <= m
      BY <3>1
    <3>3. (c + 1) * m <= q * m
      BY <1>1, <1>2, <3>1, Multiples
    <3>4. c * m <= n
      BY <1>1, <1>2, <3>3, Multiples
    <3>5. m <= s
      <4>1. SUFFICES ASSUME s < m PROVE FALSE
        BY <1>2
      <4>2. (s + 1) * c <= m * c
        BY <1>2, <4>1, Multiples
      <4> QED
        BY <1>2, <3>4, <4>2
    <3> QED
      BY <1>2, <3>2, <3>5
  <2> QED
    BY <2>1, <2>2, <2>3
<1> HIDE DEF c, s, q
<1>4. s * (c + 1) = s * c + s
  BY <1>2
<1>5. ~Refused(n, s, c)
  BY <1>2, <1>3, <1>4 DEF Refused
<1> QED
  BY <1>5 DEF c, s

-----------------------------------------------------------------------------
\* The invariant holds of every call, for every set of calls there may be.
THEOREM BlocksInvariant == Spec => []BlocksInv
<1>1. Init => BlocksInv
  BY DEF Init, BlocksInv
<1>2. BlocksInv /\ [Next]_vars => BlocksInv'
  <2> SUFFICES ASSUME BlocksInv, [Next]_vars PROVE BlocksInv'
    OBVIOUS
  <2>1. CASE Partition
    <3>1. job.n \in Nat /\ job.m \in Nat \ {0} /\ job.cap \in Int
      BY JobAssumption DEF BlocksInv
    <3>2. CASE Refused(job.n, job.n \div NumChunks(job.n, job.m, job.cap),
                       NumChunks(job.n, job.m, job.cap))
      BY <2>1, <3>2 DEF BlocksInv, Partition
    <3>3. CASE ~Refused(job.n, job.n \div NumChunks(job.n, job.m, job.cap),
                        NumChunks(job.n, job.m, job.cap))
      <4>1. job.n > 0
        BY <3>1, <3>3 DEF Refused
      <4>2. NumChunks(job.n, job.m, job.cap) \in 1 .. job.n
        BY ONLY <3>1, <4>1, Chunks
      <4>3. NumChunks(job.n, job.m, job.cap) # 0
        BY <4>2
      <4> QED
        BY <2>1, <3>3, <4>3 DEF BlocksInv, Partition
    <3> QED
      BY <3>2, <3>3
  <2>2. CASE ReduceBlock
    BY <2>2 DEF BlocksInv, ReduceBlock
  <2>3. CASE SeqBlock
    BY <2>3 DEF BlocksInv, SeqBlock
  <2>4. CASE Combine
    BY <2>4 DEF BlocksInv, Combine
  <2>5. CASE UNCHANGED vars
    BY <2>5 DEF BlocksInv, vars
  <2> QED
    BY <2>1, <2>2, <2>3, <2>4, <2>5 DEF Next
<1> QED
  BY <1>1, <1>2, PTL DEF Spec

\* Every row is worked on once, for every number of rows and every division.
THEOREM EveryRowOnce == Spec => []CoveredOnce
<1>1. BlocksInv => CoveredOnce
  <2> SUFFICES ASSUME BlocksInv, pc = "block" PROVE CoveredOnce
    BY DEF CoveredOnce
  <2>1. /\ job.n \in Nat /\ job.m \in Nat \ {0} /\ job.cap \in Int
        /\ nT = NumChunks(job.n, job.m, job.cap) /\ size = job.n \div nT
        /\ ~Refused(job.n, size, nT)
    BY JobAssumption DEF BlocksInv
  <2>2. job.n > 0
    BY <2>1 DEF Refused
  <2>3. nT \in Nat /\ nT > 0 /\ size \in Nat /\ size > 0 /\ nT * size <= job.n
    BY ONLY <2>1, <2>2, Divided
  <2>4. SharedOut(job.n, size, nT)
    BY ONLY <2>1, <2>3, Sharing
  <2> QED
    BY <2>4 DEF CoveredOnce
<1> QED
  BY <1>1, BlocksInvariant, PTL

\* partition serves every caller whose cap is not above its block size.
THEOREM PartitionServes == Spec => []RefusesOnlyNarrow
<1>1. BlocksInv => RefusesOnlyNarrow
  <2> SUFFICES ASSUME BlocksInv, pc = "done", nT = 0, job.n > 0, ~(job.cap > job.m) PROVE FALSE
    BY JobAssumption DEF RefusesOnlyNarrow, BlocksInv
  <2>1. job.n \in Nat /\ job.m \in Nat \ {0} /\ job.cap \in Int /\ job.cap <= job.m
    BY JobAssumption DEF BlocksInv
  <2> QED
    BY <2>1, Serves DEF BlocksInv
<1> QED
  BY <1>1, BlocksInvariant, PTL
=============================================================================
