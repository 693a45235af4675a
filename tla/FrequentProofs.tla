--------------------------- MODULE FrequentProofs ---------------------------
(***************************************************************************)
(* approx_frequent keeps its promises for every column, every selection    *)
(* and every bound and error, whichever way the number of counters is      *)
(* rounded.  The argument: every time the counters are reduced, more than  *)
(* cntr_siz rows are given up; there are fewer than err * (cntr_siz + 1)   *)
(* rows; so it happens less than err times, and costs an element at most   *)
(* one each time.                                                          *)
(***************************************************************************)
EXTENDS Frequent, FiniteSetTheorems, TLAPS

Promises == FrequentListed /\ NoneRare /\ OutputFits

-----------------------------------------------------------------------------
(* Rows and elements.                                                      *)

\* The rows that cfld selects are rows of x, and there are finitely many.
LEMMA SelectedFinite ==
  ASSUME job \in Jobs
  PROVE  /\ IsFiniteSet(Selected) /\ Cardinality(Selected) \in Nat
         /\ Selected \subseteq 1 .. job.n /\ job.n \in Nat
         /\ \A k \in Selected : job.x[k] \in Ids
<1>1. /\ job.n \in Nat /\ job.x \in [1 .. job.n -> Ids]
      /\ job.cfld = None \/ job.cfld \subseteq 1 .. job.n
  BY JobAssumption
<1>2. Selected \subseteq 1 .. job.n
  BY <1>1 DEF Selected
<1>3. IsFiniteSet(1 .. job.n)
  BY <1>1, FS_Interval
<1>4. IsFiniteSet(Selected)
  BY <1>2, <1>3, FS_Subset
<1> QED
  BY <1>1, <1>2, <1>4, FS_CardinalityType

\* So are those of one element.
LEMMA OfFinite ==
  ASSUME NEW S, IsFiniteSet(S), NEW i
  PROVE  /\ Of(S, i) \subseteq S /\ IsFiniteSet(Of(S, i))
         /\ Cardinality(Of(S, i)) \in Nat
<1>1. Of(S, i) \subseteq S
  BY DEF Of
<1> QED
  BY <1>1, FS_Subset, FS_CardinalityType

\* Sets of rows that share none add up.
LEMMA DisjointUnion ==
  ASSUME NEW S, IsFiniteSet(S), NEW T, IsFiniteSet(T), S \cap T = {}
  PROVE  /\ IsFiniteSet(S \cup T)
         /\ Cardinality(S) \in Nat /\ Cardinality(T) \in Nat
         /\ Cardinality(S \cup T) = Cardinality(S) + Cardinality(T)
<1>1. Cardinality(S) \in Nat /\ Cardinality(T) \in Nat
  BY FS_CardinalityType
<1>2. Cardinality(S \cup T) = Cardinality(S) + Cardinality(T) - 0 /\ IsFiniteSet(S \cup T)
  BY FS_Union, FS_EmptySet
<1> QED
  BY <1>1, <1>2

\* Elements of more rows are counted on.
LEMMA OfUnion ==
  ASSUME NEW S, IsFiniteSet(S), NEW T, IsFiniteSet(T), S \cap T = {}, NEW i
  PROVE  Cardinality(Of(S \cup T, i)) = Cardinality(Of(S, i)) + Cardinality(Of(T, i))
<1>1. /\ IsFiniteSet(Of(S, i)) /\ Cardinality(Of(S, i)) \in Nat
      /\ IsFiniteSet(Of(T, i)) /\ Cardinality(Of(T, i)) \in Nat
  BY OfFinite
<1>2. Of(S \cup T, i) = Of(S, i) \cup Of(T, i) /\ Of(S, i) \cap Of(T, i) = {}
  BY DEF Of
<1> QED
  BY <1>1, <1>2, DisjointUnion

\* A reduction gives up a row for each counter in use, and one of its element.
LEMMA Reduction ==
  ASSUME NEW i \in Ids, IsFiniteSet(held), cntr \in [Ids -> Nat],
         \A j \in Ids : cntr[j] = Cardinality(Of(held, j))
  PROVE  /\ Dropped \subseteq held
         /\ Cardinality(Active) \in Nat
         /\ Cardinality(held \ Dropped) <= Cardinality(held) - Cardinality(Active)
         /\ Cardinality(held \ Dropped) \in Nat /\ Cardinality(held) \in Nat
         /\ Cardinality(Of(held \ Dropped, i)) = IF cntr[i] > 0 THEN cntr[i] - 1 ELSE 0
<1> DEFINE P(j) == CHOOSE k \in held : job.x[k] = j
<1>1. ASSUME NEW j \in Active PROVE P(j) \in held /\ job.x[P(j)] = j
  <2>1. j \in Ids /\ Cardinality(Of(held, j)) # 0
    BY <1>1 DEF Active
  <2>2. Of(held, j) # {}
    BY <2>1, FS_EmptySet
  <2> QED
    BY <2>2 DEF Of
<1>2. Dropped = {P(j) : j \in Active}
  BY DEF Dropped
<1> HIDE DEF P
<1>3. Dropped \subseteq held
  BY <1>1, <1>2
<1>4. IsFiniteSet(Dropped) /\ Cardinality(Dropped) \in Nat
  BY <1>3, FS_Subset, FS_CardinalityType
<1>5. Cardinality(Active) <= Cardinality(Dropped) /\ Cardinality(Active) \in Nat
  <2> DEFINE g == [k \in Dropped |-> job.x[k]]
  <2>1. g \in [Dropped -> Active]
    BY <1>1, <1>2
  <2>2. \A j \in Active : \E k \in Dropped : g[k] = j
    BY <1>1, <1>2
  <2>3. g \in Surjection(Dropped, Active)
    BY <2>1, <2>2 DEF Surjection
  <2> QED
    BY <1>4, <2>3, FS_Surjection, FS_CardinalityType
<1>6. held \cap Dropped = Dropped
  BY <1>3
<1>7. /\ IsFiniteSet(held \ Dropped)
      /\ Cardinality(held \ Dropped) = Cardinality(held) - Cardinality(Dropped)
  BY <1>6, FS_Difference
<1>8. Cardinality(held) \in Nat /\ Cardinality(held \ Dropped) \in Nat
  BY <1>7, FS_CardinalityType
<1>9. Cardinality(Of(held \ Dropped, i)) = IF cntr[i] > 0 THEN cntr[i] - 1 ELSE 0
  <2>0. IsFiniteSet(Of(held, i))
    BY OfFinite
  <2>1. CASE cntr[i] > 0
    <3>1. i \in Active
      BY <2>1 DEF Active
    <3>2. P(i) \in Of(held, i) /\ Of(held \ Dropped, i) = Of(held, i) \ {P(i)}
      BY <1>1, <1>2, <3>1 DEF Of
    <3>3. Cardinality(Of(held, i) \ {P(i)}) = Cardinality(Of(held, i)) - 1
      BY <2>0, <3>2, FS_RemoveElement
    <3> QED
      BY <2>1, <3>2, <3>3
  <2>2. CASE ~(cntr[i] > 0)
    <3>1. Cardinality(Of(held, i)) = 0
      BY <2>2
    <3>2. Of(held, i) = {}
      BY <2>0, <3>1, FS_EmptySet
    <3>3. Of(held \ Dropped, i) = {}
      BY <3>2 DEF Of
    <3> QED
      BY <2>2, <3>3, FS_EmptySet
  <2> QED
    BY <2>1, <2>2
<1> QED
  BY <1>3, <1>5, <1>4, <1>7, <1>8, <1>9

-----------------------------------------------------------------------------
(* Numbers.                                                                *)

\* Rounds that cost c + 1 rows each, of n rows, are fewer than e.
LEMMA FewRounds ==
  ASSUME NEW n \in Nat, NEW e \in Nat, e > 0, NEW c \in Nat, n \div e <= c,
         NEW r \in Nat, (c + 1) * r <= n
  PROVE  r < e
<1>1. n \div e \in Nat /\ n < e * (n \div e) + e
  OBVIOUS
<1>2. e * (n \div e) <= e * c
  BY <1>1
<1>3. n < e * (c + 1)
  BY <1>1, <1>2
<1>4. SUFFICES ASSUME r >= e PROVE FALSE
  OBVIOUS
<1>5. (c + 1) * e <= (c + 1) * r
  BY <1>4
<1> QED
  BY <1>3, <1>5

\* A number that is m times no more than n, is no more than n divided by m.
LEMMA Fits ==
  ASSUME NEW n \in Nat, NEW m \in Nat, m > 0, NEW l \in Nat, l * m <= n
  PROVE  l <= n \div m
<1>1. n \div m \in Nat /\ n < m * (n \div m) + m
  OBVIOUS
<1>2. SUFFICES ASSUME l >= n \div m + 1 PROVE FALSE
  BY <1>1
<1>3. (n \div m + 1) * m <= l * m
  BY <1>1, <1>2
<1> QED
  BY <1>1, <1>3

-----------------------------------------------------------------------------
(* The steps.                                                              *)

\* The call stays what it is.
LEMMA SameCall ==
  ASSUME UNCHANGED job
  PROVE  /\ Selected' = Selected /\ eff_siz' = eff_siz
         /\ BadInput' = BadInput /\ OutTooSmall' = OutTooSmall
         /\ \A i \in Ids : Of(held, i)' = Of(held', i) /\ Of(Done, i)' = Of(Done', i)
  BY DEF Selected, eff_siz, BadInput, OutTooSmall, Of

\* The checks of approx_frequent let no call through that cannot be served.
LEMMA Checking ==
  ASSUME FreqInv, Check
  PROVE  FreqInv' /\ good' # 1
<1>1. CASE \E s, g \in {0, -1, -2} : Give(s, g)
  BY <1>1 DEF FreqInv, Counting, Give
<1>2. CASE /\ ~BadInput /\ ~OutTooSmall /\ cntr_siz' \in CntrSizes
           /\ left' = Selected /\ pc' = "read"
           /\ UNCHANGED <<job, block, cntr, out, good, status, rounds, held>>
  <2>1. job \in Jobs /\ pc = "check" /\ good # 1
    BY DEF FreqInv, Check
  <2>2. cntr = [i \in Ids |-> 0] /\ rounds = 0 /\ held = {} /\ block = {}
    BY <2>1 DEF FreqInv
  <2>3. eff_siz \in Nat /\ job.err \in Nat /\ job.err > 0
    BY <1>2, <2>1, SelectedFinite, JobAssumption DEF eff_siz, BadInput
  <2>4. cntr_siz' \in Nat /\ eff_siz \div job.err <= cntr_siz'
    BY <1>2, <2>3, SizeAssumption DEF CntrSizes
  <2>5. Done' = {}
    BY <1>2, <2>2, SameCall DEF Done
  <2>6. /\ \A i \in Ids : Of(held, i)' = {} /\ Of(Done, i)' = {}
        /\ Cardinality({}) = 0
    BY <1>2, <2>2, <2>5, FS_EmptySet DEF Of
  <2>7. /\ job' \in Jobs /\ cntr' \in [Ids -> Nat] /\ rounds' \in Nat /\ good' # 1
        /\ ~BadInput' /\ ~OutTooSmall' /\ eff_siz' = eff_siz
        /\ Selected' = Selected
    BY <1>2, <2>1, <2>2, SameCall
  <2>8. \A i \in Ids : /\ cntr'[i] = Cardinality(Of(held, i)')
                       /\ Cardinality(Of(Done, i)') <= cntr'[i] + rounds'
    BY <1>2, <2>2, <2>6
  <2>9. (cntr_siz' + 1) * rounds' + Cardinality(held') <= Cardinality(Done')
    BY <1>2, <2>2, <2>4, <2>5, <2>6
  <2> QED
    BY <1>2, <2>2, <2>4, <2>5, <2>7, <2>8, <2>9 DEF FreqInv, Counting
<1> QED
  BY <1>1, <1>2 DEF Check

\* Filling inputPackets moves rows from the column to the packets.
LEMMA Reading ==
  ASSUME FreqInv, Read
  PROVE  FreqInv' /\ good' # 1
<1>1. Counting /\ block = {} /\ good # 1
  BY DEF FreqInv, Read, Counting
<1>2. InBlock \subseteq left
  BY DEF InBlock, First
<1>3. /\ Selected' = Selected /\ eff_siz' = eff_siz /\ BadInput' = BadInput
      /\ OutTooSmall' = OutTooSmall
      /\ \A i \in Ids : Of(held, i)' = Of(held', i) /\ Of(Done, i)' = Of(Done', i)
  BY SameCall DEF Read
<1>4. Done' = Done
  BY <1>1, <1>2, <1>3 DEF Done, Read
<1>5. /\ left' \subseteq Selected' /\ block' \subseteq Selected' /\ left' \cap block' = {}
  BY <1>1, <1>2, <1>3 DEF FreqInv, Read
<1>6. pc' \in {"read", "merge"} /\ (pc' = "read" => block' = {}) /\ good' # 1
  BY <1>1 DEF Read
<1> QED
  BY <1>1, <1>3, <1>4, <1>5, <1>6 DEF FreqInv, Read, Counting

\* Merging a packet moves its rows to the counters of their elements.
LEMMA Merging ==
  ASSUME FreqInv, Merge
  PROVE  FreqInv' /\ good' # 1
<1> DEFINE p == First(block, cntr_siz)
<1>1. Counting /\ good # 1 /\ job \in Jobs
  BY DEF FreqInv, Merge, Counting
<1>2. /\ left \subseteq Selected /\ block \subseteq Selected /\ left \cap block = {}
      /\ held \subseteq Done /\ cntr \in [Ids -> Nat] /\ rounds \in Nat /\ cntr_siz \in Nat
      /\ \A i \in Ids : /\ cntr[i] = Cardinality(Of(held, i))
                        /\ Cardinality(Of(Done, i)) <= cntr[i] + rounds
      /\ (cntr_siz + 1) * rounds + Cardinality(held) <= Cardinality(Done)
  BY <1>1 DEF FreqInv
<1>3. p \subseteq block
  BY DEF First
<1>4. /\ cntr' = Sum(p) /\ held' = held \cup p /\ block' = block \ p /\ pc' = "drop"
      /\ UNCHANGED <<job, cntr_siz, left, good, rounds>>
  BY DEF Merge
<1> HIDE DEF p
<1>5. /\ Selected' = Selected /\ eff_siz' = eff_siz /\ BadInput' = BadInput
      /\ OutTooSmall' = OutTooSmall
      /\ \A i \in Ids : Of(held, i)' = Of(held', i) /\ Of(Done, i)' = Of(Done', i)
  BY <1>4, SameCall
<1>6. Done' = Done \cup p /\ Done \cap p = {} /\ held \cap p = {}
  BY <1>2, <1>3, <1>4, <1>5 DEF Done
<1>7. IsFiniteSet(Done) /\ IsFiniteSet(held) /\ IsFiniteSet(p)
  <2>1. IsFiniteSet(Selected) /\ Done \subseteq Selected /\ held \subseteq Selected /\ p \subseteq Selected
    BY <1>1, <1>2, <1>3, SelectedFinite DEF Done
  <2> QED
    BY <2>1, FS_Subset
<1>8. ASSUME NEW i \in Ids
      PROVE  /\ cntr'[i] = Cardinality(Of(held', i)) /\ cntr'[i] \in Nat
             /\ Cardinality(Of(Done', i)) <= cntr'[i] + rounds
  <2>1. /\ Cardinality(Of(p, i)) \in Nat /\ Cardinality(Of(held, i)) \in Nat
        /\ Cardinality(Of(Done, i)) \in Nat
    BY <1>7, OfFinite
  <2>2. Cardinality(Of(held', i)) = Cardinality(Of(held, i)) + Cardinality(Of(p, i))
    BY <1>4, <1>6, <1>7, OfUnion
  <2>3. Cardinality(Of(Done', i)) = Cardinality(Of(Done, i)) + Cardinality(Of(p, i))
    BY <1>6, <1>7, OfUnion
  <2>4. cntr'[i] = cntr[i] + Cardinality(Of(p, i))
    BY <1>4 DEF Sum
  <2> QED
    BY <1>2, <2>1, <2>2, <2>3, <2>4
<1>9. cntr' \in [Ids -> Nat]
  <2>1. cntr' = [i \in Ids |-> cntr'[i]]
    BY <1>4 DEF Sum
  <2> QED
    BY <1>8, <2>1
<1>10. (cntr_siz' + 1) * rounds' + Cardinality(held') <= Cardinality(Done')
  <2>1. /\ Cardinality(held') = Cardinality(held) + Cardinality(p)
        /\ Cardinality(Done') = Cardinality(Done) + Cardinality(p)
        /\ Cardinality(held) \in Nat /\ Cardinality(Done) \in Nat /\ Cardinality(p) \in Nat
    BY <1>4, <1>6, <1>7, DisjointUnion
  <2> QED
    BY <1>2, <1>4, <2>1
<1>11. /\ left' \subseteq Selected' /\ block' \subseteq Selected' /\ left' \cap block' = {}
       /\ held' \subseteq Done'
  BY <1>2, <1>3, <1>4, <1>5, <1>6
<1>12. \A i \in Ids : /\ cntr'[i] = Cardinality(Of(held, i)')
                      /\ Cardinality(Of(Done, i)') <= cntr'[i] + rounds'
  BY <1>4, <1>5, <1>8
<1> QED
  BY <1>1, <1>4, <1>5, <1>9, <1>10, <1>11, <1>12 DEF FreqInv, Counting

\* Reducing the counters gives up one row for each of them.
LEMMA Dropping ==
  ASSUME FreqInv, Drop
  PROVE  FreqInv' /\ good' # 1
<1>1. Counting /\ good # 1 /\ job \in Jobs /\ pc = "drop"
  BY DEF FreqInv, Drop, Counting
<1>2. /\ left \subseteq Selected /\ block \subseteq Selected /\ left \cap block = {}
      /\ held \subseteq Done /\ cntr \in [Ids -> Nat] /\ rounds \in Nat /\ cntr_siz \in Nat
      /\ \A i \in Ids : /\ cntr[i] = Cardinality(Of(held, i))
                        /\ Cardinality(Of(Done, i)) <= cntr[i] + rounds
      /\ (cntr_siz + 1) * rounds + Cardinality(held) <= Cardinality(Done)
  BY <1>1 DEF FreqInv
<1>3. /\ cntr' = [i \in Ids |-> IF cntr[i] > 0 THEN cntr[i] - 1 ELSE 0]
      /\ held' = held \ Dropped /\ rounds' = rounds + 1 /\ Cardinality(Active) > cntr_siz
      /\ UNCHANGED <<job, pc, cntr_siz, left, block, good>>
  BY DEF Drop
<1>4. /\ Selected' = Selected /\ eff_siz' = eff_siz /\ BadInput' = BadInput
      /\ OutTooSmall' = OutTooSmall
      /\ \A i \in Ids : Of(held, i)' = Of(held', i) /\ Of(Done, i)' = Of(Done', i)
  BY <1>3, SameCall
<1>5. Done' = Done
  BY <1>3, <1>4 DEF Done
<1>6. IsFiniteSet(Done) /\ IsFiniteSet(held)
  <2>1. IsFiniteSet(Selected) /\ Done \subseteq Selected /\ held \subseteq Selected
    BY <1>1, <1>2, SelectedFinite DEF Done
  <2> QED
    BY <2>1, FS_Subset
<1>7. cntr' \in [Ids -> Nat] /\ rounds' \in Nat
  BY <1>2, <1>3
<1>8. ASSUME NEW i \in Ids
      PROVE  /\ cntr'[i] = Cardinality(Of(held', i))
             /\ Cardinality(Of(Done, i)) <= cntr'[i] + rounds'
  <2>1. cntr'[i] = IF cntr[i] > 0 THEN cntr[i] - 1 ELSE 0
    BY <1>3
  <2>2. Cardinality(Of(held \ Dropped, i)) = IF cntr[i] > 0 THEN cntr[i] - 1 ELSE 0
    BY <1>2, <1>6, Reduction
  <2>3. Cardinality(Of(Done, i)) \in Nat
    BY <1>6, OfFinite
  <2> QED
    BY <1>2, <1>3, <2>1, <2>2, <2>3
<1>9. /\ (cntr_siz' + 1) * rounds' + Cardinality(held') <= Cardinality(Done')
      /\ held' \subseteq Done'
  <2>1. Ids # {}
    <3>1. SUFFICES ASSUME Ids = {} PROVE FALSE
      OBVIOUS
    <3>2. Active = {}
      BY <3>1 DEF Active
    <3> QED
      BY <1>2, <1>3, <3>2, FS_EmptySet
  <2>2. PICK i \in Ids : TRUE
    BY <2>1
  <2>3. /\ Cardinality(Active) \in Nat /\ Cardinality(held) \in Nat
        /\ Cardinality(held \ Dropped) \in Nat
        /\ Cardinality(held \ Dropped) <= Cardinality(held) - Cardinality(Active)
    BY <1>2, <1>6, Reduction
  <2>4. Cardinality(Done) \in Nat
    BY <1>6, FS_CardinalityType
  <2>5. (cntr_siz + 1) * (rounds + 1) = (cntr_siz + 1) * rounds + cntr_siz + 1
    BY <1>2
  <2>6. (cntr_siz + 1) * rounds \in Nat
    BY <1>2
  <2> QED
    BY <1>2, <1>3, <1>5, <2>3, <2>4, <2>5, <2>6
<1>10. \A i \in Ids : /\ cntr'[i] = Cardinality(Of(held, i)')
                      /\ Cardinality(Of(Done, i)') <= cntr'[i] + rounds'
  BY <1>4, <1>5, <1>8
<1> QED
  BY <1>1, <1>2, <1>3, <1>4, <1>7, <1>9, <1>10 DEF FreqInv, Counting

\* Leaving update_counter changes nothing.
LEMMA Keeping ==
  ASSUME FreqInv, Keep
  PROVE  FreqInv' /\ good' # 1
<1>1. Counting /\ good # 1
  BY DEF FreqInv, Keep, Counting
<1>2. /\ Selected' = Selected /\ eff_siz' = eff_siz /\ BadInput' = BadInput
      /\ OutTooSmall' = OutTooSmall
      /\ \A i \in Ids : Of(held, i)' = Of(held, i) /\ Of(Done, i)' = Of(Done, i)
      /\ Done' = Done
  BY SameCall DEF Keep, Done, Of
<1> QED
  BY <1>1, <1>2 DEF FreqInv, Keep, Counting

\* Elements that hold m rows each, take m times as many rows as they are.
LEMMA Spread ==
  ASSUME NEW L \in SUBSET Ids, NEW m \in Nat, IsFiniteSet(held),
         \A i \in L : m <= Cardinality(Of(held, i))
  PROVE  /\ Cardinality(L) \in Nat /\ Cardinality(held) \in Nat
         /\ Cardinality(L) * m <= Cardinality(held)
<1> DEFINE C(i) == Cardinality(Of(held, i))
           b(i) == CHOOSE h \in Bijection(1 .. C(i), Of(held, i)) : TRUE
           D == L \X (1 .. m)
           g == [t \in D |-> b(t[1])[t[2]]]
<1>1. ASSUME NEW i \in L, NEW k \in 1 .. m
      PROVE  b(i)[k] \in Of(held, i)
  <2>1. C(i) \in Nat /\ ExistsBijection(1 .. C(i), Of(held, i))
    BY OfFinite, FS_CardinalityType
  <2>2. b(i) \in Bijection(1 .. C(i), Of(held, i))
    BY <2>1 DEF ExistsBijection
  <2>3. k \in 1 .. C(i)
    BY <2>1
  <2> QED
    BY <2>2, <2>3 DEF Bijection, Injection
<1>2. ASSUME NEW i \in L, NEW k \in 1 .. m, NEW l \in 1 .. m, b(i)[k] = b(i)[l]
      PROVE  k = l
  <2>1. C(i) \in Nat /\ ExistsBijection(1 .. C(i), Of(held, i))
    BY OfFinite, FS_CardinalityType
  <2>2. b(i) \in Bijection(1 .. C(i), Of(held, i))
    BY <2>1 DEF ExistsBijection
  <2>3. k \in 1 .. C(i) /\ l \in 1 .. C(i)
    BY <2>1
  <2> QED
    BY <1>2, <2>2, <2>3 DEF Bijection, Injection, IsInjective
<1> HIDE DEF b, C
<1>3. ASSUME NEW t \in D PROVE t[1] \in L /\ t[2] \in 1 .. m /\ t = <<t[1], t[2]>>
  OBVIOUS
<1>4. ASSUME NEW t \in D PROVE g[t] \in held /\ job.x[g[t]] = t[1]
  <2>1. g[t] = b(t[1])[t[2]]
    OBVIOUS
  <2> QED
    BY <1>1, <1>3, <2>1 DEF Of
<1>5. ASSUME NEW t \in D, NEW u \in D, g[t] = g[u] PROVE t = u
  <2>1. t[1] = u[1]
    BY <1>4, <1>5
  <2>2. b(t[1])[t[2]] = b(t[1])[u[2]]
    BY <1>5, <2>1
  <2>3. t[2] = u[2]
    BY <1>2, <1>3, <2>2
  <2> QED
    BY <1>3, <2>1, <2>3
<1>6. g \in Injection(D, held)
  <2>1. g \in [D -> held]
    BY <1>4
  <2> HIDE DEF g, D
  <2>2. DOMAIN g = D
    BY <2>1
  <2> QED
    BY <1>5, <2>1, <2>2 DEF Injection, IsInjective
<1>7. IsFiniteSet(L) /\ IsFiniteSet(1 .. m) /\ Cardinality(1 .. m) = m
  BY IdsFinite, FS_Subset, FS_Interval
<1>8. Cardinality(D) = Cardinality(L) * m
  BY <1>7, FS_Product
<1>9. Cardinality(D) <= Cardinality(held)
  BY <1>6, FS_Injection
<1> QED
  BY <1>7, <1>8, <1>9, FS_CardinalityType

\* What is listed at the end is what was promised.
LEMMA Listing ==
  ASSUME FreqInv, List
  PROVE  FreqInv' /\ Promises'
<1> DEFINE m == job.min_freq - job.err
<1>1. Counting /\ job \in Jobs /\ pc = "list" /\ left = {} /\ block = {}
  BY DEF FreqInv, List, Counting
<1>2. /\ held \subseteq Done /\ cntr \in [Ids -> Nat] /\ rounds \in Nat /\ cntr_siz \in Nat
      /\ \A i \in Ids : /\ cntr[i] = Cardinality(Of(held, i))
                        /\ Cardinality(Of(Done, i)) <= cntr[i] + rounds
      /\ (cntr_siz + 1) * rounds + Cardinality(held) <= Cardinality(Done)
      /\ ~BadInput /\ ~OutTooSmall /\ eff_siz \div job.err <= cntr_siz
  BY <1>1 DEF FreqInv
<1>3. /\ out' = [i \in Ids |-> IF Often(cntr[i]) THEN cntr[i] ELSE 0]
      /\ good' = 1 /\ pc' = "done" /\ UNCHANGED <<job, cntr, rounds>>
  BY DEF List
<1>4. Done = Selected
  BY <1>1 DEF Done
<1>5. IsFiniteSet(Selected) /\ IsFiniteSet(held) /\ eff_siz \in Nat
  BY <1>1, <1>2, <1>4, SelectedFinite, FS_Subset DEF eff_siz
<1>6. /\ job.min_freq \in Nat /\ job.err \in Nat /\ job.err > 0 /\ m \in Nat /\ m > 0
      /\ job.out_siz \in Int /\ eff_siz \div m <= job.out_siz
  BY <1>1, <1>2, <1>5, JobAssumption DEF BadInput, OutTooSmall
<1>7. rounds < job.err
  <2>1. Cardinality(held) \in Nat /\ Cardinality(Done) = eff_siz
    BY <1>4, <1>5, FS_CardinalityType DEF eff_siz
  <2>2. (cntr_siz + 1) * rounds \in Nat
    BY <1>2
  <2>3. (cntr_siz + 1) * rounds <= eff_siz
    BY <1>2, <1>5, <2>1, <2>2
  <2> QED
    BY <1>2, <1>5, <1>6, <2>3, FewRounds
<1>8. ASSUME NEW i \in Ids
      PROVE  /\ Occurs(i) \in Nat /\ cntr[i] \in Nat
             /\ cntr[i] <= Occurs(i) /\ Occurs(i) <= cntr[i] + rounds
  <2>1. Of(held, i) \in SUBSET Of(Selected, i)
    BY <1>2, <1>4 DEF Of
  <2>2. Cardinality(Of(held, i)) <= Cardinality(Of(Selected, i)) /\ Cardinality(Of(Selected, i)) \in Nat
    BY <1>5, <2>1, OfFinite, FS_Subset
  <2> QED
    BY <1>2, <1>4, <2>2 DEF Occurs
<1>9. ASSUME NEW i \in Ids
      PROVE  /\ Occurs(i)' = Occurs(i) /\ out'[i] = IF cntr[i] >= m THEN cntr[i] ELSE 0
  BY <1>3, SameCall DEF Occurs, Of, Often
<1>10. FrequentListed'
  <2>1. ASSUME NEW i \in Ids, Occurs(i) >= job.min_freq
        PROVE  out'[i] > 0 /\ out'[i] <= Occurs(i) /\ Occurs(i) - out'[i] < job.err
    BY <1>6, <1>7, <1>8, <1>9, <1>2, <2>1
  <2> QED
    BY <1>3, <1>9, <2>1 DEF FrequentListed, Listed
<1>11. NoneRare'
  <2>1. ASSUME NEW i \in Ids, out'[i] > 0
        PROVE  Occurs(i) >= m
    BY <1>6, <1>8, <1>9, <2>1
  <2> QED
    BY <1>3, <1>9, <2>1 DEF NoneRare, Listed
<1>12. OutputFits'
  <2> DEFINE L == {i \in Ids : out'[i] > 0}
  <2>1. \A i \in L : m <= Cardinality(Of(held, i))
    BY <1>2, <1>6, <1>9
  <2>2. /\ Cardinality(L) \in Nat /\ Cardinality(held) \in Nat
        /\ Cardinality(L) * m <= Cardinality(held)
    BY <1>5, <1>6, <2>1, Spread
  <2>3. Cardinality(held) <= eff_siz
    BY <1>2, <1>4, <1>5, FS_Subset DEF eff_siz
  <2>4. Cardinality(L) * m \in Nat
    BY <1>6, <2>2
  <2>5. Cardinality(L) * m <= eff_siz
    BY <1>5, <2>2, <2>3, <2>4
  <2>6. Cardinality(L) <= eff_siz \div m
    BY <1>5, <1>6, <2>2, <2>5, Fits
  <2>7. eff_siz \div m \in Nat
    BY <1>5, <1>6
  <2>8. Cardinality(L) <= job.out_siz
    BY <1>6, <2>2, <2>6, <2>7
  <2>9. Listed' = L
    BY DEF Listed
  <2> QED
    BY <1>3, <2>8, <2>9 DEF OutputFits
<1>13. FreqInv'
  BY <1>1, <1>2, <1>3 DEF FreqInv, Counting
<1> QED
  BY <1>10, <1>11, <1>12, <1>13 DEF Promises

-----------------------------------------------------------------------------
\* The invariant and the promises hold of every call.
THEOREM FrequentInvariant == Spec => [](FreqInv /\ Promises)
<1>1. Init => FreqInv /\ Promises
  BY DEF Init, FreqInv, Counting, Promises, FrequentListed, NoneRare, OutputFits
<1>2. FreqInv /\ Promises /\ [Next]_vars => (FreqInv /\ Promises)'
  <2> SUFFICES ASSUME FreqInv, Promises, [Next]_vars PROVE FreqInv' /\ Promises'
    OBVIOUS
  <2>1. good' # 1 => Promises'
    BY DEF Promises, FrequentListed, NoneRare, OutputFits
  <2>2. CASE Check
    BY <2>1, <2>2, Checking
  <2>3. CASE Read
    BY <2>1, <2>3, Reading
  <2>4. CASE Merge
    BY <2>1, <2>4, Merging
  <2>5. CASE Drop
    BY <2>1, <2>5, Dropping
  <2>6. CASE Keep
    BY <2>1, <2>6, Keeping
  <2>7. CASE List
    BY <2>7, Listing
  <2>8. CASE UNCHANGED vars
    <3>0. UNCHANGED <<job, pc, cntr_siz, left, block, cntr, out, good, rounds, held>>
      BY <2>8 DEF vars
    <3>1. Promises'
      BY <3>0 DEF Promises, FrequentListed, NoneRare, OutputFits, Listed, Occurs, Of, Selected
    <3>2. FreqInv'
      <4>1. /\ Selected' = Selected /\ eff_siz' = eff_siz /\ BadInput' = BadInput
            /\ OutTooSmall' = OutTooSmall
            /\ \A i \in Ids : Of(held, i)' = Of(held, i) /\ Of(Done, i)' = Of(Done, i)
            /\ Done' = Done
        BY <3>0, SameCall DEF Done, Of
      <4> QED
        BY <3>0, <4>1 DEF FreqInv, Counting
    <3> QED
      BY <3>1, <3>2
  <2> QED
    BY <2>2, <2>3, <2>4, <2>5, <2>6, <2>7, <2>8 DEF Next
<1> QED
  BY <1>1, <1>2, PTL DEF Spec

\* The bookkeeping of update_counter is right after every packet and round.
THEOREM CountersAccounted == Spec => []Accounted
<1>1. FreqInv => Accounted
  <2> SUFFICES ASSUME FreqInv, Counting PROVE Accounted
    BY DEF Accounted
  <2>1. ASSUME NEW i \in Ids PROVE Cardinality(Of(held, i)) <= Cardinality(Of(Done, i))
    <3>1. IsFiniteSet(Done)
      BY SelectedFinite, FS_Subset DEF FreqInv, Done
    <3>2. IsFiniteSet(Of(Done, i))
      BY <3>1, OfFinite
    <3>3. held \subseteq Done
      BY DEF FreqInv
    <3>4. Of(held, i) \in SUBSET Of(Done, i)
      BY <3>3 DEF Of
    <3> QED
      BY <3>2, <3>4, FS_Subset
  <2> QED
    BY <2>1 DEF FreqInv, Accounted
<1> QED
  BY <1>1, FrequentInvariant, PTL

\* Every frequent element is listed, with the error that was asked for.
THEOREM EveryFrequentListed == Spec => []FrequentListed
<1>1. FreqInv /\ Promises => FrequentListed
  BY DEF Promises
<1> QED
  BY <1>1, FrequentInvariant, PTL

\* No rare element is listed.
THEOREM NoRareListed == Spec => []NoneRare
<1>1. FreqInv /\ Promises => NoneRare
  BY DEF Promises
<1> QED
  BY <1>1, FrequentInvariant, PTL

\* What is listed has room in y and f.
THEOREM ListFits == Spec => []OutputFits
<1>1. FreqInv /\ Promises => OutputFits
  BY DEF Promises
<1> QED
  BY <1>1, FrequentInvariant, PTL
=============================================================================
