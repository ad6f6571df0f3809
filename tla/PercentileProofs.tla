--------------------------- MODULE PercentileProofs ---------------------------
(***************************************************************************)
(* Sorting and percentiles.  A sort lists what it is given in order;       *)
(* percentile indexes the result with a rounded product, which is inside   *)
(* the slice for every percentage and every length, grows with the         *)
(* percentage, and picks what the definition of a percentile says.         *)
(***************************************************************************)
EXTENDS Percentiles, FiniteSetTheorems, FunctionTheorems, SequenceTheorems,
        WellFoundedInduction, TLAPS

\* What the numerator of a rank is between.
LEMMA NumeratorBounds ==
  ASSUME NEW p \in 0..100, NEW n \in Nat \ {0}
  PROVE  /\ 2 * p * (n - 1) \in Nat
         /\ 2 * p * (n - 1) <= 200 * (n - 1)
PROOF
  <1> DEFINE m == n - 1
  <1>1. m \in Nat
    OBVIOUS
  <1> HIDE DEF m
  <1>2. p * m \in Nat /\ (100 - p) * m \in Nat
    BY <1>1
  <1>3. (100 - p) * m = 100 * m - p * m
    BY <1>1
  <1>4. 2 * p * m = 2 * (p * m)
    BY <1>1
  <1>5. 2 * p * m \in Nat /\ 2 * p * m <= 200 * m
    BY <1>1, <1>2, <1>3, <1>4
  <1> QED
    BY <1>5 DEF m

\* percentile never reads past the end of its data: sorted_data[index] cannot
\* panic, for no percentage and no length.
THEOREM RankInBounds ==
  ASSUME NEW p \in 0..100, NEW n \in Nat \ {0}
  PROVE  Rank(p, n) \in 0..(n - 1)
PROOF
  <1> DEFINE x == 2 * p * (n - 1)
  <1>1. x \in Nat /\ x <= 200 * (n - 1)
    BY NumeratorBounds
  <1> HIDE DEF x
  <1>2. (x + 100) \div 200 \in 0..(n - 1)
    BY <1>1
  <1> QED
    BY <1>2 DEF x, Rank

\* The percentiles of one report are in order: a higher percentage never
\* reads at a lower index of the sorted data.
THEOREM RankIsMonotone ==
  ASSUME NEW p \in 0..100, NEW q \in 0..100, p <= q, NEW n \in Nat \ {0}
  PROVE  Rank(p, n) <= Rank(q, n)
PROOF
  <1> DEFINE m == n - 1
             x == 2 * p * m
             y == 2 * q * m
  <1>1. m \in Nat
    OBVIOUS
  <1>2. x \in Nat /\ y \in Nat
    BY NumeratorBounds
  <1>3. x <= y
    <2> HIDE DEF m
    <2>1. (q - p) * m \in Nat
      BY <1>1
    <2>2. (q - p) * m = q * m - p * m
      BY <1>1
    <2>3. x = 2 * (p * m) /\ y = 2 * (q * m) /\ p * m \in Int /\ q * m \in Int
      BY <1>1
    <2> QED
      BY <2>1, <2>2, <2>3
  <1> HIDE DEF x, y
  <1>4. (x + 100) \div 200 <= (y + 100) \div 200
    BY <1>2, <1>3
  <1> QED
    BY <1>4 DEF m, x, y, Rank

(***************************************************************************)
(* Sorting.  What comes before an element is fewer than what comes before  *)
(* any later one, so the numbers of these are the places of a permutation. *)
(***************************************************************************)

\* An injection of a finite set into itself takes every value.
LEMMA InjectionOntoItself ==
  ASSUME NEW S, IsFiniteSet(S), NEW f \in [S -> S], \A x, y \in S : f[x] = f[y] => x = y
  PROVE  f \in Bijection(S, S)
  <1>1. f \in Injection(S, S)
    BY Fun_IsInj
  <1>2. f \in Surjection(S, S)
    BY <1>1, FS_Injection
  <1> QED
    BY <1>1, <1>2, Fun_IsBij

\* One bijection after another.
LEMMA BijectionsCompose ==
  ASSUME NEW S, NEW T, NEW U, NEW f \in Bijection(S, T), NEW g \in Bijection(T, U)
  PROVE  \E h \in Bijection(S, U) : \A x \in S : h[x] = g[f[x]]
  <1> DEFINE h == [x \in S |-> g[f[x]]]
  <1>1. h \in Bijection(S, U)
    BY DEF Bijection, Injection, Surjection, IsInjective
  <1> QED
    BY <1>1

\* How many of a strict total order on 1..n come before each of it are the
\* places 0..n-1, each taken once; before is given as the set of the lesser.
LEMMA PlacesAreDistinct ==
  ASSUME NEW n \in Nat, NEW before \in [1..n -> SUBSET (1..n)],
         \A i \in 1..n : i \notin before[i],
         \A i, j \in 1..n : j \in before[i] => before[j] \subseteq before[i],
         \A i, j \in 1..n : i # j => i \in before[j] \/ j \in before[i]
  PROVE  /\ \A i, j \in 1..n : j \in before[i] =>
               Cardinality(before[j]) < Cardinality(before[i])
         /\ \A i \in 1..n : Cardinality(before[i]) \in 0..(n - 1)
         /\ \A i, j \in 1..n : Cardinality(before[i]) = Cardinality(before[j]) => i = j
         /\ \A k \in 1..n : \E i \in 1..n : Cardinality(before[i]) = k - 1
  <1> DEFINE place == [i \in 1..n |-> Cardinality(before[i]) + 1]
  <1>1. IsFiniteSet(1..n) /\ Cardinality(1..n) = n
    BY FS_Interval
  <1>2. ASSUME NEW i \in 1..n
        PROVE  IsFiniteSet(before[i]) /\ Cardinality(before[i]) \in 0..(n - 1)
    <2>1. before[i] \subseteq 1..n /\ before[i] # 1..n
      OBVIOUS
    <2>2. IsFiniteSet(before[i]) /\ Cardinality(before[i]) <= n /\ Cardinality(before[i]) # n
      BY <1>1, <2>1, FS_Subset
    <2>3. Cardinality(before[i]) \in Nat
      BY <2>2, FS_CardinalityType
    <2> QED
      BY <2>2, <2>3
  <1>3. ASSUME NEW i \in 1..n, NEW j \in 1..n, j \in before[i]
        PROVE  Cardinality(before[j]) < Cardinality(before[i])
    <2>1. before[j] \subseteq before[i] /\ before[j] # before[i]
      BY <1>3
    <2>2. Cardinality(before[j]) <= Cardinality(before[i])
          /\ Cardinality(before[j]) # Cardinality(before[i])
      BY <1>2, <2>1, FS_Subset
    <2> QED
      BY <1>2, <2>2
  <1>4. place \in [1..n -> 1..n]
    BY <1>2
  <1>5. ASSUME NEW i \in 1..n, NEW j \in 1..n, Cardinality(before[i]) = Cardinality(before[j])
        PROVE  i = j
    BY <1>2, <1>3, <1>5
  <1>6. place \in Bijection(1..n, 1..n)
    <2>1. \A i, j \in 1..n : place[i] = place[j] => i = j
      BY <1>2, <1>5
    <2> HIDE DEF place
    <2> QED
      BY <1>1, <1>4, <2>1, InjectionOntoItself
  <1>7. ASSUME NEW k \in 1..n
        PROVE  \E i \in 1..n : Cardinality(before[i]) = k - 1
    <2>1. \A y \in 1..n : \E x \in 1..n : place[x] = y
      <3> HIDE DEF place
      <3> QED
        BY <1>6 DEF Bijection, Surjection
    <2>2. PICK i \in 1..n : place[i] = k
      BY <2>1
    <2> QED
      BY <1>2, <2>2
  <1> QED
    BY <1>2, <1>3, <1>5, <1>7

\* What comes before each datum is a strict total order of their indices.
LEMMA BeforeIsATotalOrder ==
  ASSUME NEW data \in Seq(Int)
  PROVE  /\ \A i \in 1..Len(data) : i \notin Before(data, i)
         /\ \A i, j \in 1..Len(data) : j \in Before(data, i) => Before(data, j) \subseteq Before(data, i)
         /\ \A i, j \in 1..Len(data) :
              i # j => i \in Before(data, j) \/ j \in Before(data, i)
         /\ \A i, j \in 1..Len(data) : j \in Before(data, i) => data[j] <= data[i]
         /\ \A i \in 1..Len(data) : Before(data, i) \subseteq 1..Len(data)
  <1>1. DOMAIN data = 1..Len(data) /\ \A i \in 1..Len(data) : data[i] \in Int
    OBVIOUS
  <1> QED
    BY <1>1 DEF Before

\* The result of a sort is the data, in another order, and ascending.
LEMMA SortedFacts ==
  ASSUME NEW data \in Seq(Int)
  PROVE  /\ Sorted(data) \in Seq(Int)
         /\ Len(Sorted(data)) = Len(data)
         /\ \A i, j \in 1..Len(data) : i <= j => Sorted(data)[i] <= Sorted(data)[j]
         /\ \E perm \in Bijection(1..Len(data), 1..Len(data)) :
              \A i \in 1..Len(data) : Sorted(data)[i] = data[perm[i]]
  <1> DEFINE n      == Len(data)
             before == [i \in 1..n |-> Before(data, i)]
             perm   == [k \in 1..n |-> CHOOSE i \in 1..n : Cardinality(Before(data, i)) = k - 1]
  <1>1. n \in Nat /\ DOMAIN data = 1..n /\ \A i \in 1..n : data[i] \in Int
    OBVIOUS
  <1>2. before \in [1..n -> SUBSET (1..n)]
    BY BeforeIsATotalOrder
  <1>3. /\ \A i \in 1..n : i \notin before[i]
        /\ \A i, j \in 1..n : j \in before[i] => before[j] \subseteq before[i]
        /\ \A i, j \in 1..n : i # j => i \in before[j] \/ j \in before[i]
        /\ \A i, j \in 1..n : j \in before[i] => data[j] <= data[i]
    BY BeforeIsATotalOrder
  <1>4. /\ \A i, j \in 1..n : j \in before[i] => Cardinality(before[j]) < Cardinality(before[i])
        /\ \A i \in 1..n : Cardinality(before[i]) \in 0..(n - 1)
        /\ \A i, j \in 1..n : Cardinality(before[i]) = Cardinality(before[j]) => i = j
        /\ \A k \in 1..n : \E i \in 1..n : Cardinality(before[i]) = k - 1
    <2> HIDE DEF before, n
    <2> QED
      BY <1>1, <1>2, <1>3, PlacesAreDistinct
  <1>5. ASSUME NEW k \in 1..n
        PROVE  perm[k] \in 1..n /\ Cardinality(before[perm[k]]) = k - 1
    <2>1. \E i \in 1..n : Cardinality(Before(data, i)) = k - 1
      BY <1>4
    <2>2. perm[k] \in 1..n /\ Cardinality(Before(data, perm[k])) = k - 1
      BY <2>1
    <2> QED
      BY <2>2
  <1>6. perm \in [1..n -> 1..n]
    BY <1>5
  <1>7. Sorted(data) = [k \in 1..n |-> data[perm[k]]]
    BY <1>1 DEF Sorted
  <1> HIDE DEF perm, before
  <1>8. perm \in Bijection(1..n, 1..n)
    <2> HIDE DEF n
    <2>1. ASSUME NEW x \in 1..n, NEW y \in 1..n, perm[x] = perm[y] PROVE x = y
      <3>1. x - 1 = y - 1
        BY <1>5, <2>1
      <3> QED
        BY <1>1, <3>1
    <2>2. IsFiniteSet(1..n)
      BY <1>1, FS_Interval
    <2> QED
      BY <1>6, <2>1, <2>2, InjectionOntoItself
  <1>9. \A k \in 1..n : data[perm[k]] \in Int
    BY <1>1, <1>5
  <1>10. Sorted(data) \in Seq(Int) /\ Len(Sorted(data)) = n
    BY <1>1, <1>7, <1>9
  <1>11. ASSUME NEW i \in 1..n, NEW j \in 1..n, i <= j
         PROVE  data[perm[i]] <= data[perm[j]]
    <2>1. CASE i = j
      BY <2>1, <1>9
    <2>2. CASE i # j
      <3>1. /\ perm[i] \in 1..n /\ perm[j] \in 1..n
            /\ Cardinality(before[perm[i]]) = i - 1
            /\ Cardinality(before[perm[j]]) = j - 1
        BY <1>5
      <3>2. ~(Cardinality(before[perm[j]]) < Cardinality(before[perm[i]]))
        BY <1>1, <1>11, <3>1
      <3>3. perm[j] \notin before[perm[i]]
        BY <1>4, <3>1, <3>2
      <3>4. perm[i] # perm[j]
        BY <1>1, <2>2, <3>1
      <3> QED
        BY <1>3, <3>1, <3>3, <3>4
    <2> QED
      BY <2>1, <2>2
  <1> QED
    BY <1>7, <1>8, <1>10, <1>11

\* What is strictly and totally ordered can be listed in order; before is
\* given as the set of the lesser.
LEMMA AnOrderExists ==
  ASSUME NEW S, IsFiniteSet(S), NEW before \in [S -> SUBSET S],
         \A x \in S : x \notin before[x],
         \A x, y \in S : y \in before[x] => before[y] \subseteq before[x],
         \A x, y \in S : x # y => x \in before[y] \/ y \in before[x]
  PROVE  \E rows \in Bijection(1..Cardinality(S), S) :
           \A i, j \in 1..Cardinality(S) : i < j => rows[j] \notin before[rows[i]]
  <1> DEFINE n == Cardinality(S)
             D == 1..n
  <1>1. n \in Nat
    BY FS_CardinalityType
  <1>2. IsFiniteSet(D) /\ Cardinality(D) = n
    BY <1>1, FS_Interval
  <1>3. PICK list \in Bijection(D, S) : TRUE
    <2>1. ExistsBijection(D, S)
      <3> HIDE DEF D
      <3> QED
        BY <1>2, FS_SameCardinalityBij
    <2> QED
      BY <2>1 DEF ExistsBijection
  <1>4. /\ list \in [D -> S]
        /\ \A i, j \in D : list[i] = list[j] => i = j
    BY DEF Bijection, Injection, IsInjective
  <1> DEFINE lesser == [i \in D |-> {j \in D : list[j] \in before[list[i]]}]
             perm   == [k \in D |-> CHOOSE i \in D : Cardinality(lesser[i]) = k - 1]
  <1>5. /\ lesser \in [D -> SUBSET D]
        /\ \A i \in D : i \notin lesser[i]
        /\ \A i, j \in D : j \in lesser[i] => lesser[j] \subseteq lesser[i]
        /\ \A i, j \in D : i # j => i \in lesser[j] \/ j \in lesser[i]
    <2> HIDE DEF D
    <2> QED
      BY <1>4
  <1>6. /\ \A i, j \in D : j \in lesser[i] => Cardinality(lesser[j]) < Cardinality(lesser[i])
        /\ \A k \in D : \E i \in D : Cardinality(lesser[i]) = k - 1
    <2> HIDE DEF lesser, n
    <2> QED
      BY <1>1, <1>5, PlacesAreDistinct
  <1>7. \A k \in D : perm[k] \in D /\ Cardinality(lesser[perm[k]]) = k - 1
    <2> HIDE DEF lesser, D
    <2> QED
      BY <1>6
  <1> HIDE DEF perm
  <1>8. perm \in Bijection(D, D)
    <2>1. perm \in [D -> D]
      BY <1>7 DEF perm
    <2>2. \A x, y \in D : perm[x] = perm[y] => x = y
      <3> HIDE DEF lesser
      <3> QED
        BY <1>1, <1>7
    <2> HIDE DEF D
    <2> QED
      BY <1>2, <2>1, <2>2, InjectionOntoItself
  <1>9. PICK rows \in Bijection(D, S) : \A k \in D : rows[k] = list[perm[k]]
    <2> HIDE DEF D
    <2> QED
      BY <1>8, BijectionsCompose
  <1>10. ASSUME NEW i \in D, NEW j \in D, i < j, rows[j] \in before[rows[i]]
         PROVE  FALSE
    <2>1. perm[j] \in lesser[perm[i]]
      <3> HIDE DEF D
      <3> QED
        BY <1>7, <1>9, <1>10
    <2> HIDE DEF lesser
    <2>2. Cardinality(lesser[perm[j]]) < Cardinality(lesser[perm[i]])
      BY <1>6, <1>7, <2>1
    <2>3. j - 1 < i - 1
      BY <1>7, <2>2
    <2> QED
      BY <1>1, <1>10, <2>3
  <1> QED
    BY <1>9, <1>10

(***************************************************************************)
(* Percentiles.                                                            *)
(***************************************************************************)

\* The rank is the nearest step: half a step away from p of them at most.
LEMMA RankIsNearest ==
  ASSUME NEW p \in 0..100, NEW n \in Nat \ {0}
  PROVE  /\ 100 * Rank(p, n) <= p * (n - 1) + 50
         /\ p * (n - 1) + 50 < 100 * (Rank(p, n) + 1)
PROOF
  <1> DEFINE m == p * (n - 1)
             r == (2 * m + 100) \div 200
  <1>1. 2 * p * (n - 1) = 2 * m /\ m \in Nat
    <2>1. 2 * p * (n - 1) \in Nat
      BY NumeratorBounds
    <2> QED
      BY <2>1
  <1>2. Rank(p, n) = r
    BY <1>1 DEF Rank
  <1> HIDE DEF m
  <1>3. 200 * r <= 2 * m + 100 /\ 2 * m + 100 < 200 * (r + 1) /\ r \in Int
    BY <1>1
  <1> HIDE DEF r
  <1>4. 100 * r <= m + 50 /\ m + 50 < 100 * (r + 1)
    BY <1>1, <1>3
  <1> QED
    BY <1>2, <1>4 DEF m

\* perm lists the indices of f by ascending values.
Ascending(f, perm, S, n) ==
  /\ n \in Nat
  /\ perm \in Bijection(1..n, S)
  /\ f \in [S -> Int]
  /\ \A i, j \in 1..n : i <= j => f[perm[i]] <= f[perm[j]]

\* data are the values of f in the order that index lists its domain.
Lists(data, f, index, S) ==
  /\ data \in Seq(Int)
  /\ f \in [S -> Int]
  /\ index \in Bijection(1..Len(data), S)
  /\ \A i \in 1..Len(data) : data[i] = f[index[i]]

\* What lists the values lists them by ascending order once it is sorted.
LEMMA SortedListing ==
  ASSUME NEW data, NEW f, NEW index, NEW S, Lists(data, f, index, S)
  PROVE  \E place : Ascending(f, place, S, Len(data)) /\ Lists(Sorted(data), f, place, S)
  <1> DEFINE n == Len(data)
  <1>0. data \in Seq(Int) /\ f \in [S -> Int]
    BY DEF Lists
  <1>1. n \in Nat
    BY <1>0
  <1>2. PICK perm \in Bijection(1..n, 1..n) : \A i \in 1..n : Sorted(data)[i] = data[perm[i]]
    BY <1>0, SortedFacts
  <1> HIDE DEF n
  <1>3. PICK place \in Bijection(1..n, S) : \A i \in 1..n : place[i] = index[perm[i]]
    <2>1. index \in Bijection(1..n, S)
      BY DEF Lists, n
    <2> DEFINE D == 1..n
    <2>2. perm \in Bijection(D, D) /\ index \in Bijection(D, S)
      BY <2>1
    <2> HIDE DEF D
    <2>3. \E h \in Bijection(D, S) : \A x \in D : h[x] = index[perm[x]]
      BY <2>2, BijectionsCompose
    <2> QED
      BY <2>3 DEF D
  <1>4. perm \in [1..n -> 1..n]
    BY <1>2 DEF Bijection, Injection
  <1>5. \A i \in 1..n : Sorted(data)[i] = f[place[i]]
    BY <1>2, <1>3, <1>4 DEF Lists, n
  <1>6. \A i, j \in 1..n : i <= j => f[place[i]] <= f[place[j]]
    BY <1>0, <1>5, SortedFacts DEF n
  <1>7. Ascending(f, place, S, n)
    BY <1>0, <1>1, <1>3, <1>6 DEF Ascending
  <1>8. Lists(Sorted(data), f, place, S)
    <2>1. Sorted(data) \in Seq(Int) /\ Len(Sorted(data)) = n
      BY <1>0, SortedFacts DEF n
    <2> QED
      BY <1>0, <1>3, <1>5, <2>1 DEF Lists
  <1> QED
    BY <1>7, <1>8 DEF n

\* A value at the k-th place of ascending data has fewer than k below it, and
\* at least k that are not above it.
LEMMA PlaceOfValue ==
  ASSUME NEW f, NEW perm, NEW S, NEW n, Ascending(f, perm, S, n), NEW k \in 1..n
  PROVE  /\ Cardinality(S) = n
         /\ Below(f, f[perm[k]]) \in 0..(k - 1)
         /\ AtMost(f, f[perm[k]]) \in k..n
  <1> DEFINE v       == f[perm[k]]
             below   == {x \in S : f[x] < v}
             atmost  == {x \in S : f[x] <= v}
             lower   == 1..(k - 1)
             upto    == 1..k
             image   == {perm[i] : i \in lower}
             through == {perm[i] : i \in upto}
             g       == [i \in lower |-> perm[i]]
             h       == [i \in upto |-> perm[i]]
  <1>0. /\ n \in Nat /\ perm \in Bijection(1..n, S) /\ f \in [S -> Int]
        /\ \A i, j \in 1..n : i <= j => f[perm[i]] <= f[perm[j]]
    BY DEF Ascending
  <1>1. /\ perm \in [1..n -> S]
        /\ \A x, y \in 1..n : perm[x] = perm[y] => x = y
        /\ \A y \in S : \E x \in 1..n : perm[x] = y
    BY <1>0 DEF Bijection, Injection, Surjection, IsInjective
  <1>2. lower \subseteq 1..n /\ upto \subseteq 1..n
    BY <1>0
  <1>3. IsFiniteSet(1..n) /\ Cardinality(1..n) = n
    BY <1>0, FS_Interval
  <1>4. IsFiniteSet(S) /\ Cardinality(S) = n
    <2>1. ExistsBijection(1..n, S)
      BY <1>0 DEF ExistsBijection
    <2> QED
      BY <1>3, <2>1, FS_Bijection
  <1>5. IsFiniteSet(lower) /\ Cardinality(lower) = k - 1 /\ IsFiniteSet(upto) /\ Cardinality(upto) = k
    BY <1>0, FS_Interval
  <1> HIDE DEF v, lower, upto
  <1>6. IsFiniteSet(image) /\ Cardinality(image) <= k - 1
    <2>1. g \in Surjection(lower, image)
      BY <1>1, <1>2 DEF Surjection
    <2> HIDE DEF g, image
    <2> QED
      BY <1>5, <2>1, FS_Surjection
  <1>7. IsFiniteSet(through) /\ Cardinality(through) = k
    <2>1. h \in Bijection(upto, through)
      BY <1>1, <1>2 DEF Bijection, Injection, Surjection, IsInjective
    <2>2. ExistsBijection(upto, through)
      BY <2>1 DEF ExistsBijection
    <2> HIDE DEF h, through
    <2> QED
      BY <1>5, <2>2, FS_Bijection
  <1>8. below \subseteq image
    <2> SUFFICES ASSUME NEW x \in S, f[x] < v PROVE x \in image
      OBVIOUS
    <2>1. PICK i \in 1..n : perm[i] = x
      BY <1>1
    <2>2. f[perm[i]] < f[perm[k]]
      BY <2>1 DEF v
    <2>3. ~(k <= i)
      <3>1. f[perm[i]] \in Int /\ f[perm[k]] \in Int
        BY <1>0, <1>1
      <3> QED
        BY <1>0, <2>2, <3>1
    <2>4. i \in lower
      BY <1>0, <2>3 DEF lower
    <2> QED
      BY <2>1, <2>4
  <1>9. through \subseteq atmost
    BY <1>0, <1>1, <1>2 DEF v, upto
  <1>10. Cardinality(below) \in Nat /\ Cardinality(below) <= k - 1
    <2> HIDE DEF below, image
    <2>1. IsFiniteSet(below) /\ Cardinality(below) <= Cardinality(image)
      BY <1>6, <1>8, FS_Subset
    <2>2. Cardinality(below) \in Nat /\ Cardinality(image) \in Nat
      BY <1>6, <2>1, FS_CardinalityType
    <2> QED
      BY <1>6, <2>1, <2>2
  <1>11. Cardinality(atmost) \in Nat /\ k <= Cardinality(atmost) /\ Cardinality(atmost) <= n
    <2>1. atmost \subseteq S
      OBVIOUS
    <2> HIDE DEF atmost, through
    <2>2. IsFiniteSet(atmost) /\ Cardinality(atmost) <= Cardinality(S)
      BY <1>4, <2>1, FS_Subset
    <2>3. Cardinality(through) <= Cardinality(atmost)
      BY <1>9, <2>2, FS_Subset
    <2>4. Cardinality(atmost) \in Nat
      BY <2>2, FS_CardinalityType
    <2> QED
      BY <1>4, <1>7, <2>2, <2>3, <2>4
  <1>12. Below(f, v) = Cardinality(below) /\ AtMost(f, v) = Cardinality(atmost)
    <2>1. DOMAIN f = S
      BY <1>0
    <2> QED
      BY <2>1 DEF Below, AtMost
  <1> QED
    BY <1>4, <1>10, <1>11, <1>12 DEF v

\* percentile, called on sorted data as everywhere in the program, returns
\* one of the data, with at most p of the steps between the data below it
\* and more than that up to it: for all data and every whole percentage, and
\* however the data were listed (f is the data, index the listing).
THEOREM PercentileIsRight ==
  ASSUME NEW p \in 0..100, NEW data \in Seq(Int), data # <<>>,
         NEW S, NEW f \in [S -> Int], NEW index \in Bijection(1..Len(data), S),
         \A i \in 1..Len(data) : data[i] = f[index[i]]
  PROVE  IsPercentile(f, p, Percentile(Sorted(data), p))
  <1> DEFINE n == Len(data)
             r == Rank(p, n)
             v == Sorted(data)[r + 1]
  <1>1. n \in Nat \ {0} /\ n \in Nat
    OBVIOUS
  <1>2. PICK place : Ascending(f, place, S, n) /\ \A i \in 1..n : Sorted(data)[i] = f[place[i]]
    <2>1. Lists(data, f, index, S)
      BY DEF Lists
    <2>2. PICK place : Ascending(f, place, S, Len(data)) /\ Lists(Sorted(data), f, place, S)
      BY <2>1, SortedListing
    <2>3. Len(Sorted(data)) = n
      BY SortedFacts
    <2> QED
      BY <2>2, <2>3 DEF Lists
  <1> HIDE DEF n
  <1>3. r \in 0..(n - 1)
    BY <1>1, RankInBounds
  <1>4. PICK k \in 1..n : k = r + 1
    BY <1>1, <1>3
  <1>5. Percentile(Sorted(data), p) = v
    <2>1. Len(Sorted(data)) = n /\ Sorted(data) # <<>>
      BY <1>1, SortedFacts DEF n
    <2> QED
      BY <2>1 DEF Percentile
  <1>6. v = f[place[k]] /\ place[k] \in S
    <2>1. place \in [1..n -> S]
      BY <1>2 DEF Ascending, Bijection, Injection
    <2>2. v = Sorted(data)[k]
      BY <1>4
    <2> HIDE DEF v
    <2> QED
      BY <1>2, <2>1, <2>2
  <1>7. /\ Cardinality(S) = n
         /\ Below(f, v) \in 0..(k - 1)
         /\ AtMost(f, v) \in k..n
    <2> HIDE DEF v
    <2>1. /\ Cardinality(S) = n
          /\ Below(f, f[place[k]]) \in 0..(k - 1)
          /\ AtMost(f, f[place[k]]) \in k..n
      BY <1>2, PlaceOfValue
    <2> QED
      BY <1>6, <2>1
  <1>8. 100 * r <= p * (n - 1) + 50 /\ p * (n - 1) + 50 < 100 * (r + 1)
    BY <1>1, RankIsNearest
  <1>9. Steps(f) = n - 1 /\ DOMAIN f = S
    BY <1>7 DEF Steps
  <1> DEFINE target == p * (n - 1) + 50
  <1>10. target \in Int
    BY <1>1
  <1> HIDE DEF r, v
  <1>11. 100 * Below(f, v) <= target /\ target < 100 * AtMost(f, v)
    <2> HIDE DEF target
    <2>1. 100 * r <= target /\ target < 100 * (r + 1)
      BY <1>8 DEF target
    <2> QED
      BY <1>1, <1>3, <1>4, <1>7, <1>10, <2>1
  <1> QED
    BY <1>5, <1>6, <1>9, <1>11 DEF IsPercentile

\* Of two ascending listings of the same values, neither is below the other
\* anywhere.
LEMMA ListingIsNotBelow ==
  ASSUME NEW f, NEW S, NEW n, NEW one, NEW other, NEW k \in 1..n,
         Ascending(f, one, S, n), Ascending(f, other, S, n)
  PROVE  f[one[k]] \in Int /\ ~(f[one[k]] < f[other[k]])
  <1> DEFINE a == f[one[k]]
             b == f[other[k]]
  <1>1. n \in Nat /\ f \in [S -> Int] /\ DOMAIN f = S
    BY DEF Ascending
  <1>2. one \in [1..n -> S] /\ other \in [1..n -> S]
    BY DEF Ascending, Bijection, Injection
  <1>3. a \in Int /\ b \in Int
    BY <1>1, <1>2
  <1>4. Cardinality(S) = n /\ AtMost(f, a) \in k..n /\ Below(f, b) \in 0..(k - 1)
    BY PlaceOfValue
  <1>5. IsFiniteSet(S)
    <2>1. ExistsBijection(1..n, S)
      BY DEF Ascending, ExistsBijection
    <2>2. IsFiniteSet(1..n)
      BY <1>1, FS_Interval
    <2> QED
      BY <2>1, <2>2, FS_Bijection
  <1> HIDE DEF a, b
  <1>6. ASSUME a < b PROVE FALSE
    <2> DEFINE upto  == {x \in S : f[x] <= a}
               below == {x \in S : f[x] < b}
    <2>1. upto \subseteq below
      BY <1>1, <1>3, <1>6
    <2>2. below \subseteq S
      OBVIOUS
    <2>3. Cardinality(upto) = AtMost(f, a) /\ Cardinality(below) = Below(f, b)
      BY <1>1 DEF AtMost, Below
    <2> HIDE DEF upto, below
    <2>4. IsFiniteSet(below)
      BY <1>5, <2>2, FS_Subset
    <2>5. Cardinality(upto) <= Cardinality(below)
      BY <2>1, <2>4, FS_Subset
    <2> QED
      BY <1>1, <1>4, <2>3, <2>5
  <1> QED
    BY <1>3, <1>6 DEF a, b

\* A listing is as long as there are values.
LEMMA ListingLength ==
  ASSUME NEW data, NEW f, NEW index, NEW S, Lists(data, f, index, S)
  PROVE  IsFiniteSet(S) /\ Cardinality(S) = Len(data) /\ Len(data) \in Nat
  <1> DEFINE n == Len(data)
             D == 1..n
  <1>1. n \in Nat
    BY DEF Lists
  <1>2. IsFiniteSet(D) /\ Cardinality(D) = n
    <2> HIDE DEF n
    <2> QED
      BY <1>1, FS_Interval
  <1>3. ExistsBijection(D, S)
    BY DEF Lists, ExistsBijection
  <1> HIDE DEF D
  <1> QED
    BY <1>1, <1>2, <1>3, FS_Bijection

\* One listing after another lists what either lists.
LEMMA ListsConcat ==
  ASSUME NEW a, NEW fa, NEW ia, NEW SA, Lists(a, fa, ia, SA),
         NEW b, NEW fb, NEW ib, NEW SB, Lists(b, fb, ib, SB),
         SA \cap SB = {}, NEW f \in [SA \cup SB -> Int],
         \A x \in SA : f[x] = fa[x], \A x \in SB : f[x] = fb[x]
  PROVE  \E index : Lists(a \o b, f, index, SA \cup SB)
  <1> DEFINE m     == Len(a)
             n     == Len(b)
             S     == SA \cup SB
             index == [i \in 1..(m + n) |-> IF i <= m THEN ia[i] ELSE ib[i - m]]
  <1>1. a \in Seq(Int) /\ b \in Seq(Int) /\ m \in Nat /\ n \in Nat
    BY DEF Lists
  <1>2. /\ ia \in [1..m -> SA]
        /\ \A i, j \in 1..m : ia[i] = ia[j] => i = j
        /\ \A x \in SA : \E i \in 1..m : ia[i] = x
        /\ \A i \in 1..m : a[i] = fa[ia[i]]
    BY DEF Lists, Bijection, Injection, Surjection, IsInjective
  <1>3. /\ ib \in [1..n -> SB]
        /\ \A i, j \in 1..n : ib[i] = ib[j] => i = j
        /\ \A x \in SB : \E i \in 1..n : ib[i] = x
        /\ \A i \in 1..n : b[i] = fb[ib[i]]
    BY DEF Lists, Bijection, Injection, Surjection, IsInjective
  <1>4. /\ a \o b \in Seq(Int) /\ Len(a \o b) = m + n
        /\ \A i \in 1..(m + n) : (a \o b)[i] = IF i <= m THEN a[i] ELSE b[i - m]
    BY <1>1, ConcatProperties
  <1> DEFINE ab == a \o b
  <1> HIDE DEF m, n, ab
  <1>5. ASSUME NEW i \in 1..(m + n)
        PROVE  \/ i \in 1..m /\ i <= m
               \/ i - m \in 1..n /\ ~(i <= m)
    BY <1>1
  <1>6. ASSUME NEW i \in 1..(m + n) PROVE index[i] \in S
    BY <1>2, <1>3, <1>5
  <1>7. ASSUME NEW i \in 1..(m + n), NEW j \in 1..(m + n), index[i] = index[j] PROVE i = j
    <2>1. CASE i <= m /\ j <= m
      BY <1>2, <1>5, <1>7, <2>1
    <2>2. CASE ~(i <= m) /\ ~(j <= m)
      <3>1. i - m = j - m
        BY <1>3, <1>5, <1>7, <2>2
      <3> QED
        BY <1>1, <3>1
    <2>3. CASE (i <= m /\ ~(j <= m)) \/ (~(i <= m) /\ j <= m)
      BY <1>2, <1>3, <1>5, <1>7, <2>3
    <2> QED
      BY <2>1, <2>2, <2>3
  <1>8. ASSUME NEW x \in S PROVE \E i \in 1..(m + n) : index[i] = x
    <2>1. CASE x \in SA
      <3>1. PICK i \in 1..m : ia[i] = x
        BY <1>2, <2>1
      <3>2. i \in 1..(m + n) /\ i <= m
        BY <1>1
      <3> QED
        BY <3>1, <3>2
    <2>2. CASE x \in SB
      <3>1. PICK i \in 1..n : ib[i] = x
        BY <1>3, <2>2
      <3>2. i + m \in 1..(m + n) /\ ~(i + m <= m) /\ (i + m) - m = i
        BY <1>1
      <3>3. index[i + m] = x
        BY <3>1, <3>2
      <3> QED
        BY <3>2, <3>3
    <2> QED
      BY <2>1, <2>2
  <1>9. ASSUME NEW i \in 1..(m + n) PROVE ab[i] = f[index[i]]
    <2>1. CASE i <= m
      BY <1>2, <1>4, <1>5, <2>1 DEF ab
    <2>2. CASE ~(i <= m)
      BY <1>3, <1>4, <1>5, <2>2 DEF ab
    <2> QED
      BY <2>1, <2>2
  <1>10. index \in Bijection(1..(m + n), S)
    <2>1. index \in [1..(m + n) -> S]
      BY <1>6
    <2> HIDE DEF index, S
    <2> QED
      BY <1>7, <1>8, <2>1 DEF Bijection, Injection, Surjection, IsInjective
  <1>11. Lists(ab, f, index, S)
    <2> HIDE DEF index
    <2> QED
      BY <1>4, <1>9, <1>10 DEF Lists, ab
  <1> QED
    BY <1>11 DEF ab

\* Sorting the same values gives the same result, in whatever order they come.
THEOREM SortIsOfTheValues ==
  ASSUME NEW f, NEW S, NEW data, NEW index, Lists(data, f, index, S),
         NEW other, NEW index2, Lists(other, f, index2, S)
  PROVE  Sorted(data) = Sorted(other)
  <1>1. PICK place : Ascending(f, place, S, Len(data)) /\ Lists(Sorted(data), f, place, S)
    BY SortedListing
  <1>2. PICK place2 : Ascending(f, place2, S, Len(other)) /\ Lists(Sorted(other), f, place2, S)
    BY SortedListing
  <1>3. data \in Seq(Int) /\ other \in Seq(Int) /\ Len(data) = Len(other)
    BY ListingLength DEF Lists
  <1> DEFINE n == Len(data)
  <1>4. /\ Sorted(data) \in Seq(Int) /\ Len(Sorted(data)) = n
        /\ Sorted(other) \in Seq(Int) /\ Len(Sorted(other)) = n
    BY <1>3, SortedFacts
  <1>5. Ascending(f, place, S, n) /\ Ascending(f, place2, S, n)
    BY <1>1, <1>2, <1>3
  <1> HIDE DEF n
  <1>6. ASSUME NEW k \in 1..n PROVE Sorted(data)[k] = Sorted(other)[k]
    <2>1. /\ f[place[k]] \in Int /\ ~(f[place[k]] < f[place2[k]])
          /\ f[place2[k]] \in Int /\ ~(f[place2[k]] < f[place[k]])
      BY <1>5, ListingIsNotBelow
    <2>2. Sorted(data)[k] = f[place[k]] /\ Sorted(other)[k] = f[place2[k]]
      BY <1>1, <1>2, <1>4 DEF Lists
    <2> QED
      BY <2>1, <2>2
  <1> QED
    BY <1>4, <1>6, SeqEqual

\* A set of natural numbers that is not empty has a least element.
LEMMA LeastElement ==
  ASSUME NEW S \in SUBSET Nat, S # {}
  PROVE  \E least \in S : \A k \in S : least <= k
  <1>1. PICK least \in S : \A k \in S : ~(<<k, least>> \in OpToRel(<, Nat))
    BY NatLessThanWellFounded, WFMin
  <1>2. \A k \in S : ~(k < least)
    BY <1>1 DEF OpToRel
  <1> QED
    BY <1>2

\* What a report prints of sorted data is in order: the least, the
\* percentiles by percentage, the greatest.
THEOREM PercentilesAscend ==
  ASSUME NEW data \in Seq(Int), data # <<>>, NEW p \in 0..100, NEW q \in 0..100, p <= q
  PROVE  /\ Sorted(data)[1] <= Percentile(Sorted(data), p)
         /\ Percentile(Sorted(data), p) <= Percentile(Sorted(data), q)
         /\ Percentile(Sorted(data), q) <= Sorted(data)[Len(data)]
  <1> DEFINE n == Len(data)
  <1>1. n \in Nat \ {0}
    OBVIOUS
  <1>2. \A i, j \in 1..n : i <= j => Sorted(data)[i] <= Sorted(data)[j]
    BY SortedFacts
  <1>3. Len(Sorted(data)) = n /\ Sorted(data) # <<>>
    BY <1>1, SortedFacts
  <1> HIDE DEF n
  <1>4. Rank(p, n) \in 0..(n - 1) /\ Rank(q, n) \in 0..(n - 1) /\ Rank(p, n) <= Rank(q, n)
    BY <1>1, RankInBounds, RankIsMonotone
  <1>5. PICK i \in 1..n, j \in 1..n : i = Rank(p, n) + 1 /\ j = Rank(q, n) + 1 /\ i <= j
    BY <1>1, <1>4
  <1>6. Percentile(Sorted(data), p) = Sorted(data)[i] /\ Percentile(Sorted(data), q) = Sorted(data)[j]
    BY <1>3, <1>5 DEF Percentile
  <1>7. 1 \in 1..n /\ n \in 1..n /\ 1 <= i /\ j <= n
    BY <1>1
  <1> QED
    BY <1>2, <1>5, <1>6, <1>7 DEF n

(***************************************************************************)
(* Loops over data.  What a recursive function comes to is shown from the  *)
(* least place at which it would not.                                      *)
(***************************************************************************)

\* Induction up to n, of what holds of the members of a set.
LEMMA Induction ==
  ASSUME NEW n \in Nat, NEW S, 0 \in S, \A i \in 1..n : i - 1 \in S => i \in S
  PROVE  \A i \in 0..n : i \in S
  <1> DEFINE missing == {i \in 0..n : i \notin S}
  <1> SUFFICES ASSUME missing # {} PROVE FALSE
    OBVIOUS
  <1>1. missing \in SUBSET Nat
    OBVIOUS
  <1>2. PICK least \in missing : \A k \in missing : least <= k
    <2> HIDE DEF missing
    <2> QED
      BY <1>1, LeastElement
  <1>3. least \in 1..n /\ least - 1 \in 0..n
    OBVIOUS
  <1>4. least - 1 \notin missing
    BY <1>2, <1>3
  <1> QED
    BY <1>3, <1>4

\* The i-th of n turns takes a value in T to the next one.
Turns(step, n, T) == n \in Nat /\ step \in [1..n -> [T -> T]]

\* f is what a loop from base has come to after each turn.
Loop(f, base, step, n, T) ==
  /\ f \in [0..n -> T]
  /\ f[0] = base
  /\ \A i \in 1..n : f[i] = step[i][f[i - 1]]

\* A loop comes to something.
LEMMA LoopFunction ==
  ASSUME NEW n, NEW T, NEW step, Turns(step, n, T), NEW base \in T
  PROVE  \E f : Loop(f, base, step, n, T)
  <1> DEFINE upto(k) == \E f \in [0..k -> T] :
                          f[0] = base /\ \A i \in 1..k : f[i] = step[i][f[i - 1]]
             S       == {k \in 0..n : upto(k)}
  <1>0. n \in Nat /\ step \in [1..n -> [T -> T]]
    BY DEF Turns
  <1>1. upto(0)
    <2> DEFINE f == [i \in 0..0 |-> base]
    <2>1. f \in [0..0 -> T] /\ f[0] = base /\ \A i \in 1..0 : f[i] = step[i][f[i - 1]]
      OBVIOUS
    <2> QED
      BY <2>1
  <1>2. ASSUME NEW k \in 1..n, upto(k - 1) PROVE upto(k)
    <2> DEFINE j == k - 1
    <2>1. j \in Nat /\ k = j + 1
      BY <1>0
    <2>2. PICK f \in [0..j -> T] : f[0] = base /\ \A i \in 1..j : f[i] = step[i][f[i - 1]]
      BY <1>2
    <2> HIDE DEF j
    <2> DEFINE g == [i \in 0..k |-> IF i = k THEN step[k][f[j]] ELSE f[i]]
    <2>3. f[j] \in T /\ step[k] \in [T -> T]
      BY <1>0, <2>1, <2>2
    <2>4. \A i \in 0..k : i # k => i \in 0..j
      BY <2>1
    <2>5. g \in [0..k -> T]
      BY <2>1, <2>2, <2>3, <2>4
    <2>6. g[0] = base
      BY <2>1, <2>2
    <2>7. ASSUME NEW i \in 1..k PROVE g[i] = step[i][g[i - 1]]
      <3>1. i \in 0..k /\ i - 1 \in 0..j /\ i - 1 \in 0..k /\ i - 1 # k
        BY <2>1
      <3>2. g[i - 1] = f[i - 1]
        BY <3>1
      <3>3. CASE i = k
        BY <2>1, <3>1, <3>2, <3>3
      <3>4. CASE i # k
        BY <2>1, <2>2, <3>1, <3>2, <3>4
      <3> QED
        BY <3>3, <3>4
    <2> HIDE DEF g
    <2> QED
      BY <2>5, <2>6, <2>7
  <1>3. \A k \in 0..n : k \in S
    <2>1. 0 \in S /\ \A i \in 1..n : i - 1 \in S => i \in S
      <3> HIDE DEF upto
      <3> QED
        BY <1>0, <1>1, <1>2
    <2> HIDE DEF S
    <2> QED
      BY <1>0, <2>1, Induction
  <1>4. upto(n)
    <2> HIDE DEF upto
    <2> QED
      BY <1>0, <1>3
  <1> QED
    BY <1>4 DEF Loop
=============================================================================
