----------------------------- MODULE StatsProofs -----------------------------
(* Proofs about sorting, the summary of a sample and the correlation of    *)
(* two rankings, for sets and samples of any size.                         *)
EXTENDS Estimates, FiniteSetTheorems, FunctionTheorems, TLAPS

Products == INSTANCE FoldProofs WITH Op <- AddProduct

-----------------------------------------------------------------------------
(* Sorting.                                                                *)

Orders(S, R) ==
  /\ IsFiniteSet(S)
  /\ \A x \in S : <<x, x>> \notin R
  /\ \A x, y \in S : x # y => <<x, y>> \in R \/ <<y, x>> \in R
  /\ \A x, y, z \in S : <<x, y>> \in R /\ <<y, z>> \in R => <<x, z>> \in R

(* s lists the members of S, each once, in the order of R.                 *)
Lists(s, S, R) ==
  LET n == Cardinality(S)
  IN  /\ n \in Nat /\ s \in [1..n -> S]
      /\ \A i, j \in 1..n : i < j <=> <<s[i], s[j]>> \in R
      /\ \A i, j \in 1..n : s[i] = s[j] => i = j
      /\ \A x \in S : \E i \in 1..n : s[i] = x

(* What is before a later member has more members before it.               *)
LEMMA BeforeGrows ==
  ASSUME NEW S, NEW R, Orders(S, R), NEW x \in S, NEW y \in S, <<x, y>> \in R
  PROVE  /\ Cardinality(Before(S, R, x)) \in Nat
         /\ Cardinality(Before(S, R, x)) < Cardinality(Before(S, R, y))
<1> DEFINE A == Before(S, R, x)
           B == Before(S, R, y)
<1>1. A \in SUBSET B /\ x \in B /\ x \notin A /\ B \in SUBSET S
  BY DEF Orders, Before
<1>2. IsFiniteSet(B) /\ IsFiniteSet(A)
  BY <1>1, FS_Subset DEF Orders
<1>3. /\ Cardinality(A) \in Nat /\ Cardinality(B) \in Nat
      /\ Cardinality(A) <= Cardinality(B)
      /\ Cardinality(A) # Cardinality(B)
  <2> HIDE DEF A, B
  <2>1. Cardinality(A) <= Cardinality(B)
        /\ (Cardinality(A) = Cardinality(B) => A = B)
    BY <1>1, <1>2, FS_Subset
  <2> QED
    BY <1>1, <1>2, <2>1, FS_CardinalityType
<1> QED
  BY <1>3

(* Sorting lists the members of a set, each once, in its order.            *)
THEOREM SortedLists ==
  ASSUME NEW S, NEW R, Orders(S, R)
  PROVE  Lists(Sorted(S, R), S, R)
<1> DEFINE n == Cardinality(S)
           rank == [x \in S |-> Cardinality(Before(S, R, x))]
<1>1. n \in Nat /\ IsFiniteSet(S)
  BY FS_CardinalityType DEF Orders
<1>2. ASSUME NEW x \in S PROVE rank[x] \in 0..(n - 1)
  <2>1. Before(S, R, x) \in SUBSET S /\ x \notin Before(S, R, x)
    BY DEF Orders, Before
  <2>2. /\ IsFiniteSet(Before(S, R, x))
        /\ Cardinality(Before(S, R, x)) <= n
        /\ Cardinality(Before(S, R, x)) # n
    BY <1>1, <2>1, FS_Subset
  <2>3. Cardinality(Before(S, R, x)) \in Nat
    BY <2>2, FS_CardinalityType
  <2> QED
    BY <1>1, <2>2, <2>3
<1>3. \A x, y \in S : rank[x] < rank[y] <=> <<x, y>> \in R
  <2> SUFFICES ASSUME NEW x \in S, NEW y \in S
               PROVE  rank[x] < rank[y] <=> <<x, y>> \in R
    OBVIOUS
  <2>1. <<x, y>> \in R => rank[x] < rank[y]
    BY BeforeGrows
  <2>2. <<y, x>> \in R => rank[y] < rank[x]
    BY BeforeGrows
  <2>3. rank[x] \in Int /\ rank[y] \in Int
    BY <1>2
  <2>4. x = y \/ <<x, y>> \in R \/ <<y, x>> \in R
    BY DEF Orders
  <2> HIDE DEF rank
  <2> QED
    BY <2>1, <2>2, <2>3, <2>4
<1>4. rank \in Injection(S, 0..(n - 1))
  <2>1. rank \in [S -> 0..(n - 1)]
    BY <1>2
  <2>2. ASSUME NEW x \in S, NEW y \in S, rank[x] = rank[y] PROVE x = y
    <3>1. rank[x] \in Int /\ rank[y] \in Int
      BY <1>2
    <3>2. ~(rank[x] < rank[y]) /\ ~(rank[y] < rank[x])
      BY <2>2, <3>1
    <3> HIDE DEF rank
    <3>3. ASSUME x # y PROVE FALSE
      <4>1. <<x, y>> \in R \/ <<y, x>> \in R
        BY <3>3 DEF Orders
      <4> QED
        BY <1>3, <3>2, <4>1
    <3> QED
      BY <3>3
  <2> HIDE DEF rank
  <2> QED
    BY <2>1, <2>2, Fun_IsInj, ZenonT(20)
<1>5. rank \in Surjection(S, 0..(n - 1))
  <2>1. IsFiniteSet(0..(n - 1)) /\ Cardinality(0..(n - 1)) = n
    <3> HIDE DEF n, rank
    <3> QED
      BY <1>1, FS_Interval, SMTT(20)
  <2> HIDE DEF rank
  <2> QED
    BY <1>4, <2>1, FS_Injection
<1> HIDE DEF rank
<1>6. /\ \A x \in S : rank[x] = Cardinality(Before(S, R, x))
      /\ \A k \in 0..(n - 1) : \E x \in S : rank[x] = k
      /\ \A x, y \in S : rank[x] = rank[y] => x = y
  BY <1>4, <1>5 DEF Surjection, Injection, IsInjective, rank
<1> DEFINE s == Sorted(S, R)
<1>7. s = [k \in 1..n |-> CHOOSE x \in S : rank[x] = k - 1]
  BY <1>6 DEF Sorted
<1>8. ASSUME NEW k \in 1..n PROVE s[k] \in S /\ rank[s[k]] = k - 1
  <2>1. k - 1 \in 0..(n - 1)
    BY <1>1
  <2>2. \E x \in S : rank[x] = k - 1
    BY <1>6, <2>1
  <2> QED
    BY <1>7, <2>2
<1>9. s \in [1..n -> S]
  BY <1>7, <1>8
<1> HIDE DEF s
<1>10. \A i, j \in 1..n : i < j <=> <<s[i], s[j]>> \in R
  <2> SUFFICES ASSUME NEW i \in 1..n, NEW j \in 1..n
               PROVE  i < j <=> <<s[i], s[j]>> \in R
    OBVIOUS
  <2>1. rank[s[i]] < rank[s[j]] <=> <<s[i], s[j]>> \in R
    BY <1>3, <1>8
  <2> QED
    BY <1>8, <2>1
<1>11. \A i, j \in 1..n : s[i] = s[j] => i = j
  BY <1>8
<1>12. \A x \in S : \E i \in 1..n : s[i] = x
  <2> SUFFICES ASSUME NEW x \in S PROVE \E i \in 1..n : s[i] = x
    OBVIOUS
  <2>1. rank[x] \in 0..(n - 1)
    BY <1>4 DEF Injection
  <2>2. rank[x] + 1 \in 1..n /\ (rank[x] + 1) - 1 = rank[x]
    BY <1>1, <2>1
  <2>3. rank[s[rank[x] + 1]] = rank[x] /\ s[rank[x] + 1] \in S
    BY <1>8, <2>2
  <2> QED
    BY <1>6, <2>2, <2>3
<1> QED
  BY <1>1, <1>9, <1>10, <1>11, <1>12 DEF Lists, s

(* A list counts: what holds of its members holds as often in it.          *)
LEMMA ListCounts ==
  ASSUME NEW s, NEW S, NEW R, Lists(s, S, R), NEW T \in SUBSET S,
         IsFiniteSet(S)
  PROVE  Cardinality({k \in DOMAIN s : s[k] \in T}) = Cardinality(T)
<1> DEFINE n == Cardinality(S)
           I == {k \in 1..n : s[k] \in T}
           f == [k \in I |-> s[k]]
<1>1. /\ s \in [1..n -> S] /\ n \in Nat
      /\ \A i, j \in 1..n : s[i] = s[j] => i = j
      /\ \A x \in S : \E i \in 1..n : s[i] = x
  BY DEF Lists
<1>2. f \in [I -> T]
  OBVIOUS
<1>3. f \in Bijection(I, T)
  BY <1>1, <1>2, Fun_IsBij
<1>4. IsFiniteSet(I)
  <2>1. IsFiniteSet(1..n) /\ I \in SUBSET (1..n)
    BY <1>1, FS_Interval
  <2> HIDE DEF I
  <2> QED
    BY <2>1, FS_Subset
<1>5. Cardinality(I) = Cardinality(T)
  <2> HIDE DEF f, I
  <2>1. ExistsBijection(I, T)
    BY <1>3 DEF ExistsBijection
  <2> QED
    BY <1>4, <2>1, FS_Bijection
<1> QED
  BY <1>1, <1>5

-----------------------------------------------------------------------------
(* The sample in order.                                                    *)

(* What it is to be the samples at the places I in order: place tells      *)
(* where each comes from.                                                  *)
Arranges(s, place, times, I) ==
  LET n == Cardinality(I)
  IN  /\ n \in Nat /\ place \in [1..n -> I]
      /\ \A i, j \in 1..n : place[i] = place[j] => i = j
      /\ \A k \in I : \E i \in 1..n : place[i] = k
      /\ s = [k \in 1..n |-> times[place[k]]]
      /\ \A i, j \in 1..n : i <= j => s[i] <= s[j]

(* The sorted samples are the samples, rearranged, and ascend.             *)
LEMMA OrderedArranges ==
  ASSUME NEW I \in SUBSET Nat, IsFiniteSet(I), NEW times,
         \A i \in I : times[i] \in Int
  PROVE  \E place : Arranges(Ordered(times, I), place, times, I)
<1> DEFINE R == {p \in I \X I :
                   \/ times[p[1]] < times[p[2]]
                   \/ times[p[1]] = times[p[2]] /\ p[1] < p[2]}
           place == Sorted(I, R)
           n == Cardinality(I)
           s == Ordered(times, I)
<1>1. \A x, y \in I : <<x, y>> \in R <=>
        (times[x] < times[y] \/ (times[x] = times[y] /\ x < y))
  OBVIOUS
<1>2. s = [k \in 1..n |-> times[place[k]]]
  BY DEF Ordered
<1> HIDE DEF R
<1>3. Orders(I, R)
  <2>1. \A x \in I : x \in Int /\ times[x] \in Int
    OBVIOUS
  <2>2. \A x \in I : <<x, x>> \notin R
    BY <1>1, <2>1
  <2>3. \A x, y \in I : x # y => <<x, y>> \in R \/ <<y, x>> \in R
    BY <1>1, <2>1
  <2>4. \A x, y, z \in I : <<x, y>> \in R /\ <<y, z>> \in R => <<x, z>> \in R
    BY <1>1, <2>1
  <2> QED
    BY <2>2, <2>3, <2>4 DEF Orders
<1>4. Lists(place, I, R)
  BY <1>3, SortedLists
<1> HIDE DEF place, s
<1>5. /\ n \in Nat /\ place \in [1..n -> I]
      /\ \A i, j \in 1..n : i < j <=> <<place[i], place[j]>> \in R
      /\ \A i, j \in 1..n : place[i] = place[j] => i = j
      /\ \A k \in I : \E i \in 1..n : place[i] = k
  BY <1>4 DEF Lists
<1>6. ASSUME NEW i \in 1..n, NEW j \in 1..n, i <= j PROVE s[i] <= s[j]
  <2>1. s[i] = times[place[i]] /\ s[j] = times[place[j]]
    BY <1>2
  <2>2. place[i] \in I /\ place[j] \in I
    BY <1>5
  <2>5. s[i] \in Int /\ s[j] \in Int
    BY <2>1, <2>2
  <2>3. CASE i = j
    BY <2>5, <2>3
  <2>4. CASE i < j
    <3>1. <<place[i], place[j]>> \in R
      BY <1>5, <2>4
    <3> QED
      <4>1. \/ times[place[i]] < times[place[j]]
            \/ times[place[i]] = times[place[j]]
        BY <1>1, <2>2, <3>1
      <4> QED
        BY <2>1, <2>5, <4>1
  <2> QED
    BY <1>5, <1>6, <2>3, <2>4
<1>7. Arranges(s, place, times, I)
  BY <1>2, <1>5, <1>6 DEF Arranges
<1> QED
  BY <1>7 DEF s

(* As many places as samples of a range of it.                             *)
LEMMA RangeCounts ==
  ASSUME NEW s, NEW place, NEW times, NEW I, Arranges(s, place, times, I),
         IsFiniteSet(I), NEW lo \in 1..Cardinality(I),
         NEW hi \in 1..Cardinality(I), NEW T \in SUBSET I,
         \A k \in lo..hi : place[k] \in T
  PROVE  IsFiniteSet(T) /\ Cardinality(T) \in Nat
         /\ hi - lo + 1 <= Cardinality(T)
<1> DEFINE n == Cardinality(I)
           f == [k \in lo..hi |-> place[k]]
<1>1. /\ n \in Nat /\ place \in [1..n -> I]
      /\ \A i, j \in 1..n : place[i] = place[j] => i = j
  BY DEF Arranges
<1>2. IsFiniteSet(T) /\ Cardinality(T) \in Nat
  BY FS_Subset, FS_CardinalityType
<1>3. lo \in Int /\ hi \in Int /\ \A k \in lo..hi : k \in 1..n
  BY <1>1
<1>4. f \in [lo..hi -> T]
  OBVIOUS
<1>5. \A i, j \in lo..hi : f[i] = f[j] => i = j
  BY <1>1, <1>3
<1>6. f \in Injection(lo..hi, T)
  <2> HIDE DEF f
  <2> QED
    BY <1>4, <1>5, Fun_IsInj
<1>7. Cardinality(lo..hi) <= Cardinality(T)
  <2> HIDE DEF f
  <2> QED
    BY <1>2, <1>6, FS_Injection
<1>8. Cardinality(lo..hi) = IF lo > hi THEN 0 ELSE hi - lo + 1
  BY <1>3, FS_Interval
<1> QED
  BY <1>2, <1>3, <1>7, <1>8

-----------------------------------------------------------------------------
(* The summary.                                                            *)

(* A sample in order.                                                      *)
Ascends(s, n) ==
  /\ n \in Nat /\ n >= 1 /\ s \in [1..n -> Timings]
  /\ \A i, j \in 1..n : i <= j => s[i] <= s[j]

(* Timings, their quarters, and the two above all of them.                 *)
LEMMA TimingsAre ==
  /\ \A t \in Timings : t \in Nat /\ Quarters(t) \in Nat
  /\ \A t \in Timings : t < Inf => Quarters(t) = 4 * t /\ 4 * t < Inf
  /\ \A t \in Timings : t >= Inf => Quarters(t) = t /\ t \in {Inf, NaN}
  /\ \A t, u \in Timings : t <= u => Quarters(t) <= Quarters(u)
  /\ Inf \in Nat /\ NaN \in Nat /\ Inf < NaN
BY StatsAssumption DEF StatsAssumption, Timings, Quarters

(* The quantile at q/4 lies at place b + 1 and f quarters of the way to    *)
(* the next.                                                               *)
LEMMA QuantileIs ==
  ASSUME NEW s, NEW n, Ascends(s, n), NEW q \in {1, 2, 3},
         NEW b \in Nat, NEW f \in 0..3, q * (n - 1) = 4 * b + f
  PROVE  /\ b + 1 \in 1..n
         /\ b + 1 = n => Quantile(s, q) = Quarters(s[b + 1])
         /\ b + 1 # n =>
              /\ b + 2 \in 1..n
              /\ Quantile(s, q) =
                   IF s[b + 2] = NaN \/ (s[b + 2] = Inf /\ f = 0) THEN NaN
                   ELSE IF s[b + 2] = Inf THEN Inf
                   ELSE s[b + 1] * (4 - f) + s[b + 2] * f
<1>1. n \in Nat /\ n >= 1 /\ s \in [1..n -> Timings] /\ Len(s) = n
  BY DEF Ascends
<1>2. (q * (n - 1)) \div 4 = b /\ (q * (n - 1)) % 4 = f
  <2> DEFINE m == q * (n - 1)
  <2>1. m = 4 * b + f
    OBVIOUS
  <2> HIDE DEF m
  <2> QED
    BY <2>1
<1>3. b + 1 \in 1..n
  BY <1>1
<1>4. b + 1 # n => b + 2 \in 1..n
  BY <1>1, <1>3
<1>5. Quantile(s, q) =
        IF b + 1 = n THEN Quarters(s[b + 1])
        ELSE IF s[b + 2] = NaN \/ (s[b + 2] = Inf /\ f = 0) THEN NaN
        ELSE IF s[b + 2] = Inf THEN Inf
        ELSE s[b + 1] * (4 - f) + s[b + 2] * f
  <2>1. (b + 1) + 1 = b + 2
    OBVIOUS
  <2> QED
    BY <1>1, <1>2, <2>1 DEF Quantile
<1> QED
  BY <1>3, <1>4, <1>5

(* A quantile is a number, perhaps Inf or NaN; if it is finite, so are the *)
(* samples it lies between.                                                *)
LEMMA QuantileType ==
  ASSUME NEW s, NEW n, Ascends(s, n), NEW q \in {1, 2, 3},
         NEW b \in Nat, NEW f \in 0..3, q * (n - 1) = 4 * b + f
  PROVE  LET Q == Quantile(s, q)
         IN  /\ (Q \in Nat /\ Q < Inf) \/ Q = Inf \/ Q = NaN
             /\ Q < Inf => s[b + 1] < Inf /\ (b + 1 # n => s[b + 2] < Inf)
             /\ Q = Inf => /\ b + 1 = n => s[b + 1] = Inf
                           /\ b + 1 # n => s[b + 2] = Inf /\ f # 0
<1> DEFINE Q == Quantile(s, q)
<1>1. /\ n \in Nat /\ s \in [1..n -> Timings]
      /\ \A i, j \in 1..n : i <= j => s[i] <= s[j]
  BY DEF Ascends
<1>2. /\ b + 1 \in 1..n
      /\ b + 1 = n => Q = Quarters(s[b + 1])
      /\ b + 1 # n =>
           /\ b + 2 \in 1..n
           /\ Q = IF s[b + 2] = NaN \/ (s[b + 2] = Inf /\ f = 0) THEN NaN
                  ELSE IF s[b + 2] = Inf THEN Inf
                  ELSE s[b + 1] * (4 - f) + s[b + 2] * f
  BY QuantileIs
<1>3. Inf \in Nat /\ NaN \in Nat /\ Inf < NaN
  BY TimingsAre
<1> HIDE DEF Q
<1> DEFINE Claim ==
      /\ (Q \in Nat /\ Q < Inf) \/ Q = Inf \/ Q = NaN
      /\ Q < Inf => s[b + 1] < Inf /\ (b + 1 # n => s[b + 2] < Inf)
      /\ Q = Inf => /\ b + 1 = n => s[b + 1] = Inf
                    /\ b + 1 # n => s[b + 2] = Inf /\ f # 0
<1>4. ASSUME b + 1 = n PROVE Claim
  <2> DEFINE x == s[b + 1]
  <2>1. x \in Timings /\ Q = Quarters(x)
    BY <1>1, <1>2, <1>4
  <2> HIDE DEF x
  <2>2. CASE x < Inf
    <3>1. Q = 4 * x /\ x \in Nat /\ Q < Inf
      BY <2>1, <2>2, TimingsAre
    <3> QED
      BY <1>3, <1>4, <2>2, <3>1 DEF x
  <2>3. CASE x >= Inf
    <3>1. Q = x /\ Q \in {Inf, NaN}
      BY <2>1, <2>3, TimingsAre
    <3> QED
      BY <1>3, <1>4, <3>1 DEF x
  <2> QED
    BY <1>3, <2>1, <2>2, <2>3, TimingsAre
<1>5. ASSUME b + 1 # n PROVE Claim
  <2> DEFINE x == s[b + 1]
             y == s[b + 2]
  <2>1. x \in Timings /\ y \in Timings /\ x <= y
    BY <1>1, <1>2, <1>5
  <2>2. Q = IF y = NaN \/ (y = Inf /\ f = 0) THEN NaN
            ELSE IF y = Inf THEN Inf ELSE x * (4 - f) + y * f
    BY <1>2, <1>5
  <2> HIDE DEF x, y
  <2>3. CASE y \in {Inf, NaN}
    <3>1. Q = NaN \/ (Q = Inf /\ y = Inf /\ f # 0)
      BY <2>2, <2>3
    <3> QED
      BY <1>3, <1>5, <3>1 DEF y
  <2>4. CASE y \notin {Inf, NaN}
    <3>1. Q = x * (4 - f) + y * f
      BY <2>2, <2>4
    <3>2. x \in Nat /\ y \in Nat /\ y < Inf /\ 4 * y < Inf /\ x < Inf
      BY <2>1, <2>4, TimingsAre
    <3>3. f \in {0, 1, 2, 3}
      OBVIOUS
    <3>4. Q \in Nat /\ Q <= 4 * y
      BY <2>1, <3>1, <3>2, <3>3
    <3> QED
      BY <1>3, <1>5, <3>2, <3>4 DEF x, y
  <2> QED
    BY <2>3, <2>4
<1>6. Claim
  BY <1>4, <1>5
<1> QED
  BY <1>6 DEF Q

(* A finite one is between the samples it is between.                      *)
LEMMA QuantileBetween ==
  ASSUME NEW s, NEW n, Ascends(s, n), NEW q \in {1, 2, 3},
         NEW b \in Nat, NEW f \in 0..3, q * (n - 1) = 4 * b + f,
         Quantile(s, q) < Inf
  PROVE  /\ b + 1 \in 1..n /\ Quantile(s, q) \in Nat
         /\ s[b + 1] \in Nat /\ s[b + 1] < Inf
         /\ 4 * s[b + 1] <= Quantile(s, q)
         /\ f = 0 => Quantile(s, q) = 4 * s[b + 1]
         /\ b + 1 # n => /\ b + 2 \in 1..n
                         /\ s[b + 2] \in Nat /\ s[b + 2] < Inf
                         /\ Quantile(s, q) = s[b + 1] * (4 - f) + s[b + 2] * f
                         /\ Quantile(s, q) <= 4 * s[b + 2]
         /\ b + 1 = n => f = 0
<1>1. /\ n \in Nat /\ n >= 1 /\ s \in [1..n -> Timings]
      /\ \A i, j \in 1..n : i <= j => s[i] <= s[j]
  BY DEF Ascends
<1>2. s[b + 1] < Inf /\ (b + 1 # n => s[b + 2] < Inf)
  BY QuantileType
<1>3. /\ b + 1 \in 1..n
      /\ b + 1 = n => Quantile(s, q) = Quarters(s[b + 1])
      /\ b + 1 # n =>
           /\ b + 2 \in 1..n
           /\ Quantile(s, q) =
                IF s[b + 2] = NaN \/ (s[b + 2] = Inf /\ f = 0) THEN NaN
                ELSE IF s[b + 2] = Inf THEN Inf
                ELSE s[b + 1] * (4 - f) + s[b + 2] * f
  BY QuantileIs
<1>4. CASE b + 1 = n
  <2>1. f = 0
    BY <1>1, <1>4
  <2>2. s[b + 1] \in Timings
    BY <1>1, <1>3
  <2>3. Quantile(s, q) = 4 * s[b + 1] /\ s[b + 1] \in Nat
    BY <1>2, <1>3, <1>4, <2>2, TimingsAre
  <2> QED
    BY <1>2, <1>3, <1>4, <2>1, <2>3
<1>5. CASE b + 1 # n
  <2> DEFINE x == s[b + 1]
             y == s[b + 2]
             Q == Quantile(s, q)
  <2>1. b + 2 \in 1..n /\ x \in Timings /\ y \in Timings /\ x <= y
        /\ x < Inf /\ y < Inf
    BY <1>1, <1>2, <1>3, <1>5
  <2>2. x \in Nat /\ y \in Nat /\ y # NaN /\ y # Inf
    BY <2>1, TimingsAre
  <2>3. Q = x * (4 - f) + y * f /\ f \in {0, 1, 2, 3}
    BY <1>3, <1>5, <2>2
  <2> HIDE DEF x, y, Q
  <2>4. Q \in Nat /\ 4 * x <= Q /\ Q <= 4 * y /\ (f = 0 => Q = 4 * x)
    BY <2>1, <2>2, <2>3
  <2> QED
    BY <1>3, <1>5, <2>1, <2>2, <2>3, <2>4 DEF x, y, Q
<1> QED
  BY <1>4, <1>5

(* The rank of the lower end of the interval is well below the middle.     *)
LEMMA LoRankIs ==
  ASSUME NEW n \in Nat, n >= 1
  PROVE  LoRank(n) \in Nat /\ (LoRank(n) # 0 => 2 * LoRank(n) <= n - 2)
<1>1. ASSUME NEW k \in Nat, BelowHalfWidth(k, n) PROVE 2 * k <= n - 2
  <2> DEFINE d == n - 2 * k
  <2>1. d >= 0 /\ 2500 * d * d >= 9604 * n /\ d \in Int
    BY <1>1 DEF BelowHalfWidth
  <2> HIDE DEF d
  <2>2. d # 0
    <3> SUFFICES ASSUME d = 0 PROVE FALSE
      OBVIOUS
    <3>1. 2500 * d * d = 0
      OBVIOUS
    <3> QED
      BY <2>1, <3>1
  <2>3. d # 1
    <3> SUFFICES ASSUME d = 1 PROVE FALSE
      OBVIOUS
    <3>1. 2500 * d * d = 2500
      OBVIOUS
    <3> QED
      BY <2>1, <3>1
  <2>4. d >= 2
    BY <2>1, <2>2, <2>3
  <2> QED
    BY <2>4 DEF d
<1>2. CASE BelowHalfWidth(0, n)
  <2> DEFINE T == {k \in 0..n : BelowHalfWidth(k, n)}
             Q(k) == BelowHalfWidth(k, n) /\ ~BelowHalfWidth(k + 1, n)
  <2>1. 0 \in T /\ T \in SUBSET (0..n)
    BY <1>2
  <2>2. PICK m \in T : \A k \in T : k <= m
    <3> HIDE DEF T
    <3> QED
      BY <2>1, Products!GreatestMember
  <2>3. ~BelowHalfWidth(m + 1, n)
    <3> SUFFICES ASSUME BelowHalfWidth(m + 1, n) PROVE FALSE
      OBVIOUS
    <3>1. 2 * (m + 1) <= n - 2
      BY <1>1
    <3>2. m + 1 \in T
      BY <3>1
    <3> QED
      BY <2>2, <3>2
  <2>4. \E k \in 0..n : Q(k)
    BY <2>2, <2>3
  <2>5. LoRank(n) = CHOOSE k \in 0..n : Q(k)
    BY <1>2 DEF LoRank
  <2>6. LoRank(n) \in 0..n /\ BelowHalfWidth(LoRank(n), n)
    <3> HIDE DEF Q
    <3>1. LoRank(n) \in 0..n /\ Q(LoRank(n))
      BY <2>4, <2>5
    <3> QED
      BY <3>1 DEF Q
  <2> QED
    BY <1>1, <2>6
<1>3. CASE ~BelowHalfWidth(0, n)
  BY <1>3 DEF LoRank
<1> QED
  BY <1>2, <1>3

(* Finite fences keep at least half of a sample: a run of places about its *)
(* middle.                                                                 *)
LEMMA HalfSurvives ==
  ASSUME NEW s, NEW n, Ascends(s, n), Quantile(s, 1) < Inf, Quantile(s, 3) < Inf
  PROVE  LET q1 == Quantile(s, 1)
             q3 == Quantile(s, 3)
         IN  /\ q1 \in Nat /\ q3 \in Nat
             /\ \E lo, hi \in 1..n :
                  /\ 2 * (hi - lo + 1) >= n
                  /\ \A p \in lo..hi :
                       s[p] < Inf /\ WithinFences(s[p], q1, q3)
<1> DEFINE m == (n - 1) \div 4
           r == (n - 1) % 4
           c == IF r = 2 THEN 1 ELSE IF r = 3 THEN 2 ELSE 0
           f3 == IF r = 0 THEN 0 ELSE 4 - r
           q1 == Quantile(s, 1)
           q3 == Quantile(s, 3)
           lo == IF r = 3 THEN m + 2 ELSE m + 1
           hi == 3 * m + c + 1
<1>1. /\ n \in Nat /\ n >= 1
      /\ \A k \in 1..n : s[k] \in Nat
      /\ \A i, j \in 1..n : i <= j => s[i] <= s[j]
  <2>1. s \in [1..n -> Timings]
    BY DEF Ascends
  <2> QED
    BY <2>1, TimingsAre DEF Ascends
<1>2. /\ m \in Nat /\ r \in 0..3 /\ n - 1 = 4 * m + r
  BY <1>1
<1> HIDE DEF m, r
<1>3. /\ c \in Nat /\ f3 \in 0..3 /\ 3 * (n - 1) = 4 * (3 * m + c) + f3
      /\ 3 * m + c \in Nat
  BY <1>1, <1>2
<1>4. /\ m + 1 \in 1..n /\ q1 \in Nat /\ q1 < Inf
      /\ 4 * s[m + 1] <= q1
      /\ r = 0 => q1 = 4 * s[m + 1]
      /\ m + 1 # n => /\ m + 2 \in 1..n
                      /\ q1 = s[m + 1] * (4 - r) + s[m + 2] * r
                      /\ q1 <= 4 * s[m + 2]
      /\ m + 1 = n => r = 0
  <2>1. 1 * (n - 1) = 4 * m + r
    BY <1>1, <1>2
  <2> HIDE DEF q1
  <2> QED
    BY <1>2, <2>1, QuantileBetween DEF q1
<1>5. /\ hi \in 1..n /\ q3 \in Nat /\ q3 < Inf
      /\ 4 * s[hi] <= q3 /\ s[hi] < Inf
      /\ hi # n => /\ hi + 1 \in 1..n
                   /\ q3 = s[hi] * (4 - f3) + s[hi + 1] * f3
  <2> DEFINE b == 3 * m + c
  <2>1. b \in Nat /\ 3 * (n - 1) = 4 * b + f3 /\ hi = b + 1 /\ b + 2 = hi + 1
    BY <1>2, <1>3
  <2> HIDE DEF b, f3, q3, hi
  <2>2. /\ b + 1 \in 1..n /\ q3 \in Nat /\ q3 < Inf
        /\ 4 * s[b + 1] <= q3 /\ s[b + 1] < Inf
        /\ b + 1 # n => /\ b + 2 \in 1..n
                        /\ q3 = s[b + 1] * (4 - f3) + s[b + 2] * f3
    BY <1>3, <2>1, QuantileBetween DEF q3
  <2> QED
    BY <2>1, <2>2
<1> HIDE DEF q1, q3
<1>6. 2 * (hi - lo + 1) >= n /\ lo \in 1..n
  BY <1>1, <1>2, <1>4
<1>7. q1 <= q3 /\ 5 * q1 - 3 * q3 <= 8 * s[lo]
  <2> DEFINE A == s[m + 1]
             B == s[m + 2]
             C == s[hi]
  <2>1. CASE r = 0
    <3>1. A \in Nat /\ C \in Nat /\ A <= C /\ q1 = 4 * A /\ lo = m + 1
      BY <1>1, <1>2, <1>4, <1>5, <2>1
    <3> QED
      BY <1>5, <3>1
  <2>2. CASE r = 1 /\ m # 0
    <3>1. m + 1 # n /\ m + 2 \in 1..n /\ m + 2 <= hi /\ lo = m + 1
      BY <1>2, <1>4, <2>2
    <3>2. A \in Nat /\ B \in Nat /\ C \in Nat /\ A <= B /\ B <= C
      BY <1>1, <1>4, <1>5, <3>1
    <3>3. q1 = A * 3 + B
      BY <1>4, <2>2, <3>1, <3>2
    <3> QED
      BY <1>5, <3>1, <3>2, <3>3
  <2>3. CASE r = 1 /\ m = 0
    <3>1. n = 2 /\ m + 1 = 1 /\ m + 2 = 2 /\ hi = 1 /\ lo = 1 /\ f3 = 3 /\ hi + 1 = 2
      BY <1>1, <1>2, <2>3
    <3>2. s[1] \in Nat /\ s[2] \in Nat /\ s[1] <= s[2]
      BY <1>1, <3>1
    <3>3. q1 = s[1] * 3 + s[2] * 1
      BY <1>4, <2>3, <3>1
    <3>4. q3 = s[1] * 1 + s[2] * 3
      BY <1>5, <3>1
    <3> QED
      BY <3>1, <3>2, <3>3, <3>4
  <2>4. CASE r = 2
    <3>1. m + 1 # n /\ m + 2 \in 1..n /\ m + 2 <= hi /\ lo = m + 1
      BY <1>2, <1>4, <2>4
    <3>2. A \in Nat /\ B \in Nat /\ C \in Nat /\ A <= B /\ B <= C
      BY <1>1, <1>4, <1>5, <3>1
    <3>3. q1 = A * 2 + B * 2
      BY <1>4, <2>4, <3>1, <3>2
    <3> QED
      BY <1>5, <3>1, <3>2, <3>3
  <2>5. CASE r = 3
    <3>1. m + 1 # n /\ m + 2 \in 1..n /\ m + 2 <= hi /\ lo = m + 2
      BY <1>2, <1>4, <2>5
    <3>2. A \in Nat /\ B \in Nat /\ C \in Nat /\ A <= B /\ B <= C
      BY <1>1, <1>4, <1>5, <3>1
    <3>3. q1 = A * 1 + B * 3
      BY <1>4, <2>5, <3>1, <3>2
    <3> QED
      BY <1>5, <3>1, <3>2, <3>3
  <2> QED
    BY <1>2, <2>1, <2>2, <2>3, <2>4, <2>5
<1>8. ASSUME NEW p \in lo..hi
      PROVE  s[p] < Inf /\ WithinFences(s[p], q1, q3)
  <2> HIDE DEF lo, hi
  <2>1. p \in 1..n /\ lo <= p /\ p <= hi /\ lo \in 1..n
    BY <1>1, <1>5, <1>6
  <2>2. /\ s[p] \in Nat /\ s[lo] \in Nat /\ s[hi] \in Nat
        /\ s[lo] <= s[p] /\ s[p] <= s[hi]
    BY <1>1, <1>5, <2>1
  <2>3. 2 * q1 - 3 * (q3 - q1) <= 8 * s[p] /\ 8 * s[p] <= 2 * q3 + 3 * (q3 - q1)
    BY <1>4, <1>5, <1>7, <2>2
  <2>4. s[p] < Inf
    BY <1>5, <2>2, TimingsAre
  <2> QED
    BY <2>3, <2>4 DEF WithinFences
<1> HIDE DEF lo, hi
<1> QED
  BY <1>4, <1>5, <1>6, <1>8 DEF q1, q3

(* The parts of a summary.                                                 *)
Whole(times) == Ordered(times, DOMAIN times)
Inside(times) ==
  {i \in DOMAIN times :
     Survives(times[i], Quantile(Whole(times), 1), Quantile(Whole(times), 3))}
KeptTimes(times) == Ordered(times, Inside(times))

(* What `summarize' returns, by the sorted samples it was made from.       *)
LEMMA SummaryIs ==
  ASSUME NEW N \in Nat, NEW times \in [1..N -> Timings],
         Summarize(times) # NoSummary
  PROVE  LET inside == Inside(times)
             kept == KeptTimes(times)
             n == Cardinality(inside)
         IN  /\ N >= 1 /\ DOMAIN times = 1..N /\ Len(times) = N
             /\ Ascends(Whole(times), N)
             /\ \E place : Arranges(Whole(times), place, times, 1..N)
             /\ inside \in SUBSET (1..N) /\ IsFiniteSet(inside)
             /\ Ascends(kept, n)
             /\ \E place : Arranges(kept, place, times, inside)
             /\ Summarize(times) =
                  [n |-> n, rejected |-> N - n, med |-> Quantile(kept, 2),
                   lo |-> Quarters(kept[LoRank(n) + 1]),
                   hi |-> Quarters(kept[HiRank(n) + 1]),
                   min |-> Quarters(kept[1]), max |-> Quarters(kept[n])]
<1> DEFINE inside == Inside(times)
           kept == KeptTimes(times)
           n == Cardinality(inside)
<1>1. DOMAIN times = 1..N /\ Len(times) = N
  OBVIOUS
<1>2. Summarize(times) =
        IF times = <<>> \/ n = 0 THEN NoSummary
        ELSE [n |-> n, rejected |-> N - n, med |-> Quantile(kept, 2),
              lo |-> Quarters(kept[LoRank(n) + 1]),
              hi |-> Quarters(kept[HiRank(n) + 1]),
              min |-> Quarters(kept[1]), max |-> Quarters(kept[n])]
  BY <1>1 DEF Summarize, Inside, KeptTimes, Whole
<1>3. times # <<>> /\ n # 0
  BY <1>2
<1>4. N >= 1
  <2> SUFFICES ASSUME N = 0 PROVE FALSE
    OBVIOUS
  <2>1. 1..N = {} /\ DOMAIN times = {}
    BY <1>1
  <2>2. times = <<>>
    BY <2>1
  <2> QED
    BY <1>3, <2>2
<1>5. inside \in SUBSET (1..N)
  BY <1>1 DEF Inside
<1>6. /\ IsFiniteSet(1..N) /\ Cardinality(1..N) = N
      /\ IsFiniteSet(inside) /\ n \in Nat /\ n >= 1
  <2>1. IsFiniteSet(1..N) /\ Cardinality(1..N) = N
    BY <1>4, FS_Interval
  <2> HIDE DEF inside
  <2>2. IsFiniteSet(inside)
    BY <1>5, <2>1, FS_Subset
  <2>3. n \in Nat
    BY <2>2, FS_CardinalityType
  <2> QED
    BY <1>3, <2>1, <2>2, <2>3
<1>7. ASSUME NEW I \in SUBSET (1..N), IsFiniteSet(I), Cardinality(I) >= 1
      PROVE  /\ Ascends(Ordered(times, I), Cardinality(I))
             /\ \E place : Arranges(Ordered(times, I), place, times, I)
  <2>1. I \in SUBSET Nat /\ \A i \in I : times[i] \in Timings /\ times[i] \in Int
    BY TimingsAre
  <2>2. PICK place : Arranges(Ordered(times, I), place, times, I)
    BY <1>7, <2>1, OrderedArranges
  <2>3. Ascends(Ordered(times, I), Cardinality(I))
    <3> DEFINE k == Cardinality(I)
               s == Ordered(times, I)
    <3>1. /\ k \in Nat /\ place \in [1..k -> I]
          /\ s = [i \in 1..k |-> times[place[i]]]
          /\ \A i, j \in 1..k : i <= j => s[i] <= s[j]
      BY <2>2 DEF Arranges
    <3> HIDE DEF k, s
    <3>2. s \in [1..k -> Timings]
      BY <2>1, <3>1
    <3>3. k >= 1
      BY <1>7 DEF k
    <3>4. Ascends(s, k)
      BY <3>1, <3>2, <3>3 DEF Ascends
    <3> QED
      BY <3>4 DEF s, k
  <2> QED
    BY <2>2, <2>3
<1>8. /\ Ascends(Whole(times), N)
      /\ \E place : Arranges(Whole(times), place, times, 1..N)
  <2>1. 1..N \in SUBSET (1..N) /\ Cardinality(1..N) >= 1
    BY <1>4, <1>6
  <2> QED
    BY <1>1, <1>6, <1>7, <2>1 DEF Whole
<1>9. /\ Ascends(kept, n)
      /\ \E place : Arranges(kept, place, times, inside)
  <2> HIDE DEF inside
  <2>1. kept = Ordered(times, inside)
    BY DEF KeptTimes, inside
  <2> HIDE DEF kept
  <2> QED
    BY <1>5, <1>6, <1>7, <2>1
<1> HIDE DEF inside, kept
<1> QED
  BY <1>1, <1>2, <1>3, <1>4, <1>5, <1>6, <1>8, <1>9 DEF inside, kept

(* The places of the interval about the middle of n samples, from 1: the   *)
(* median is at b + 1, or half way to the next.                            *)
LEMMA RanksAre ==
  ASSUME NEW n \in Nat, n >= 1, NEW b \in Nat, NEW f \in {0, 2},
         2 * (n - 1) = 4 * b + f
  PROVE  /\ LoRank(n) + 1 \in 1..n /\ HiRank(n) + 1 \in 1..n
         /\ LoRank(n) + 1 <= b + 1
         /\ b + 1 = n => HiRank(n) + 1 = n
         /\ b + 1 # n => b + 2 <= HiRank(n) + 1
<1>1. LoRank(n) \in Nat /\ (LoRank(n) # 0 => 2 * LoRank(n) <= n - 2)
  BY LoRankIs
<1>2. HiRank(n) = IF LoRank(n) = 0 THEN n - 1 ELSE n - LoRank(n)
  BY DEF HiRank
<1>3. CASE LoRank(n) = 0
  BY <1>2, <1>3
<1>4. CASE LoRank(n) # 0
  BY <1>1, <1>2, <1>4
<1> QED
  BY <1>3, <1>4

(* Where the median of n samples is.                                       *)
LEMMA MiddleIs ==
  ASSUME NEW n \in Nat, n >= 1
  PROVE  \E b \in Nat : \E f \in {0, 2} :
           /\ 2 * (n - 1) = 4 * b + f
           /\ 2 * (b + 1) >= n
           /\ f = 0 => 2 * (n - b) >= n
           /\ f = 2 => 2 * (n - (b + 1)) >= n
<1> DEFINE b == (n - 1) \div 2
           f == 2 * ((n - 1) % 2)
<1>1. b \in Nat /\ (n - 1) % 2 \in {0, 1} /\ n - 1 = (2 * b) + ((n - 1) % 2)
  OBVIOUS
<1>2. f \in {0, 2} /\ 2 * (n - 1) = 4 * b + f
  BY <1>1
<1> HIDE DEF b, f
<1> QED
  BY <1>1, <1>2

(* The ends of an interval are not NaN, the lower one is no more than the  *)
(* median and a finite upper one no less, whatever the sample holds.       *)
LEMMA SummaryBrackets ==
  ASSUME NEW N \in Nat, NEW times \in [1..N -> Timings],
         Summarize(times) # NoSummary
  PROVE  LET s == Summarize(times)
         IN  /\ s.lo \in Nat /\ s.med \in Nat /\ s.hi \in Nat
             /\ s.lo <= s.med /\ s.lo <= Inf /\ s.hi <= Inf
             /\ (s.hi < Inf => s.med <= s.hi)
<1> DEFINE inside == Inside(times)
           kept == KeptTimes(times)
           n == Cardinality(inside)
           s == Summarize(times)
<1>1. /\ Ascends(kept, n) /\ inside \in SUBSET (1..N) /\ DOMAIN times = 1..N
      /\ \E place : Arranges(kept, place, times, inside)
      /\ s.med = Quantile(kept, 2)
      /\ s.lo = Quarters(kept[LoRank(n) + 1])
      /\ s.hi = Quarters(kept[HiRank(n) + 1])
  <2> HIDE DEF inside, kept, n
  <2> QED
    BY SummaryIs DEF inside, kept, n
<1>2. \A k \in 1..n : kept[k] # NaN
  <2> SUFFICES ASSUME NEW k \in 1..n PROVE kept[k] # NaN
    OBVIOUS
  <2>1. PICK place : Arranges(kept, place, times, inside)
    BY <1>1
  <2>2. place[k] \in inside /\ kept[k] = times[place[k]]
    BY <2>1 DEF Arranges
  <2>3. \A i \in inside : times[i] # NaN
    BY DEF Inside, Survives
  <2> HIDE DEF inside
  <2> QED
    BY <2>2, <2>3
<1> HIDE DEF inside, kept, n, s
<1>3. /\ n \in Nat /\ n >= 1 /\ kept \in [1..n -> Timings]
      /\ \A i, j \in 1..n : i <= j => kept[i] <= kept[j]
  BY <1>1 DEF Ascends
<1>4. PICK b \in Nat, f \in {0, 2} : 2 * (n - 1) = 4 * b + f
  BY <1>3, MiddleIs
<1> DEFINE lo == LoRank(n) + 1
           hi == HiRank(n) + 1
<1>5. /\ lo \in 1..n /\ hi \in 1..n /\ lo <= b + 1
      /\ b + 1 = n => hi = n
      /\ b + 1 # n => b + 2 <= hi
  BY <1>3, <1>4, RanksAre
<1>6. /\ b + 1 \in 1..n
      /\ b + 1 = n => s.med = Quarters(kept[b + 1])
      /\ b + 1 # n =>
           /\ b + 2 \in 1..n
           /\ s.med =
                IF kept[b + 2] = NaN \/ (kept[b + 2] = Inf /\ f = 0) THEN NaN
                ELSE IF kept[b + 2] = Inf THEN Inf
                ELSE kept[b + 1] * (4 - f) + kept[b + 2] * f
  <2>1. f \in 0..3
    OBVIOUS
  <2> QED
    BY <1>1, <1>4, <2>1, QuantileIs
<1> HIDE DEF lo, hi
<1>7. s.lo = Quarters(kept[lo]) /\ s.hi = Quarters(kept[hi])
  BY <1>1 DEF lo, hi
<1>8. /\ kept[lo] \in Timings /\ kept[hi] \in Timings /\ kept[b + 1] \in Timings
      /\ kept[lo] # NaN /\ kept[hi] # NaN /\ kept[b + 1] # NaN
      /\ kept[lo] <= kept[b + 1]
  BY <1>2, <1>3, <1>5, <1>6
<1>9. s.lo \in Nat /\ s.hi \in Nat /\ s.lo <= Inf /\ s.hi <= Inf
  <2>1. ASSUME NEW x \in Timings, x # NaN
        PROVE  Quarters(x) \in Nat /\ Quarters(x) <= Inf
    <3>1. x \in Nat /\ Quarters(x) \in Nat /\ Inf \in Nat
      BY TimingsAre
    <3>2. CASE x < Inf
      BY <3>1, <3>2, TimingsAre
    <3>3. CASE x >= Inf
      BY <2>1, <3>1, <3>3, TimingsAre
    <3> QED
      BY <3>1, <3>2, <3>3
  <2> QED
    BY <1>7, <1>8, <2>1
<1> DEFINE Good == s.med \in Nat /\ s.lo <= s.med /\ (s.hi < Inf => s.med <= s.hi)
<1>10. ASSUME b + 1 = n PROVE Good
  <2>1. s.med = Quarters(kept[n]) /\ hi = n
    BY <1>5, <1>6, <1>10
  <2> QED
    BY <1>7, <1>8, <1>9, <1>10, <2>1, TimingsAre
<1>11. ASSUME b + 1 # n PROVE Good
  <2>1. /\ b + 2 \in 1..n /\ kept[b + 2] \in Timings /\ kept[b + 2] # NaN
        /\ kept[b + 2] <= kept[hi] /\ kept[b + 1] <= kept[b + 2]
    BY <1>2, <1>3, <1>5, <1>6, <1>11
  <2>2. CASE kept[b + 2] = Inf
    <3>1. s.med \in {NaN, Inf}
      BY <1>6, <1>11, <2>2
    <3>2. s.hi >= Inf
      BY <1>7, <1>8, <2>1, <2>2, TimingsAre
    <3>3. Inf \in Nat /\ NaN \in Nat /\ Inf < NaN
      BY TimingsAre
    <3> QED
      BY <1>9, <3>1, <3>2, <3>3
  <2>3. CASE kept[b + 2] # Inf
    <3> DEFINE x == kept[b + 1]
               y == kept[b + 2]
    <3>1. s.med = x * (4 - f) + y * f
      BY <1>6, <1>11, <2>1, <2>3
    <3>2. x \in Nat /\ y \in Nat /\ y < Inf /\ x < Inf /\ x <= y
      <4>1. x \in Timings /\ y \in Timings /\ y \notin {Inf, NaN} /\ x <= y
        BY <1>8, <2>1, <2>3
      <4> HIDE DEF x, y
      <4>2. x \in Nat /\ y \in Nat /\ ~(y >= Inf) /\ Inf \in Nat
        BY <4>1, TimingsAre
      <4> QED
        BY <4>1, <4>2
    <3>3. Quarters(x) = 4 * x /\ Quarters(y) = 4 * y
      BY <1>8, <2>1, <3>2, TimingsAre
    <3>4. s.lo <= 4 * x /\ 4 * y <= s.hi
      BY <1>7, <1>8, <2>1, <3>3, TimingsAre
    <3> HIDE DEF x, y
    <3>5. s.med \in Nat /\ 4 * x <= s.med /\ s.med <= 4 * y
      BY <3>1, <3>2
    <3> QED
      BY <1>9, <3>2, <3>4, <3>5
  <2> QED
    BY <2>2, <2>3
<1> QED
  BY <1>9, <1>10, <1>11 DEF s

(* The filter keeps at least half of a sample, no NaN, and exactly what    *)
(* lies between the least and the greatest that it keeps.                  *)
LEMMA FiltersRange ==
  ASSUME NEW N \in Nat, NEW times \in [1..N -> Timings],
         Summarize(times) # NoSummary
  PROVE  LET inside == Inside(times)
             kept == KeptTimes(times)
             n == Cardinality(inside)
         IN  /\ 2 * n >= N
             /\ \A k \in 1..N :
                  k \in inside <=> kept[1] <= times[k] /\ times[k] <= kept[n]
             /\ \A k \in 1..n : kept[k] # NaN
<1> DEFINE inside == Inside(times)
           kept == KeptTimes(times)
           n == Cardinality(inside)
           whole == Whole(times)
           q1 == Quantile(whole, 1)
           q3 == Quantile(whole, 3)
<1>1. /\ N >= 1 /\ DOMAIN times = 1..N
      /\ Ascends(whole, N)
      /\ \E place : Arranges(whole, place, times, 1..N)
      /\ inside \in SUBSET (1..N) /\ IsFiniteSet(inside)
      /\ Ascends(kept, n)
      /\ \E place : Arranges(kept, place, times, inside)
  <2> HIDE DEF inside, kept, n, whole
  <2> QED
    BY SummaryIs DEF inside, kept, n, whole
<1>2. inside = {i \in 1..N : Survives(times[i], q1, q3)}
  BY <1>1 DEF Inside
<1>3. n \in Nat /\ n >= 1 /\ IsFiniteSet(1..N) /\ Cardinality(1..N) = N
  <2> HIDE DEF inside
  <2> QED
    BY <1>1, FS_Interval DEF Ascends
<1> HIDE DEF inside, kept, n, whole, q1, q3
<1>4. PICK at : Arranges(whole, at, times, 1..N)
  BY <1>1
<1>5. /\ at \in [1..N -> 1..N]
      /\ \A k \in 1..N : whole[k] = times[at[k]]
  BY <1>3, <1>4 DEF Arranges
<1>6. PICK place : Arranges(kept, place, times, inside)
  BY <1>1
<1>7. /\ place \in [1..n -> inside]
      /\ \A k \in inside : \E i \in 1..n : place[i] = k
      /\ \A k \in 1..n : kept[k] = times[place[k]]
      /\ \A i, j \in 1..n : i <= j => kept[i] <= kept[j]
  BY <1>6 DEF Arranges, n
<1>8. /\ place[1] \in inside /\ place[n] \in inside
      /\ kept[1] = times[place[1]] /\ kept[n] = times[place[n]]
  BY <1>3, <1>7
<1>9. \A k \in 1..N : times[k] \in Timings /\ times[k] \in Nat
  BY TimingsAre
<1>10. /\ q1 < Inf /\ q3 # NaN
       /\ \A k \in inside : /\ times[k] # NaN
                            /\ q3 # Inf => times[k] # Inf
                                           /\ WithinFences(times[k], q1, q3)
  BY <1>2, <1>8 DEF Survives
<1>11. PICK b \in Nat, f \in 0..3 : 3 * (N - 1) = 4 * b + f
  <2> DEFINE m == 3 * (N - 1)
  <2>1. m \in Nat
    BY <1>1
  <2> HIDE DEF m
  <2>2. m \div 4 \in Nat /\ m % 4 \in 0..3 /\ m = (4 * (m \div 4)) + (m % 4)
    BY <2>1
  <2> QED
    BY <2>2 DEF m
<1>12. /\ q3 < Inf \/ q3 = Inf
       /\ b + 1 \in 1..N
       /\ q3 = Inf => \/ b + 1 = N /\ whole[b + 1] = Inf
                      \/ b + 2 \in 1..N /\ whole[b + 2] = Inf
  <2>1. /\ b + 1 \in 1..N /\ (b + 1 # N => b + 2 \in 1..N)
    BY <1>1, <1>11, QuantileIs
  <2>2. /\ (q3 \in Nat /\ q3 < Inf) \/ q3 = Inf \/ q3 = NaN
        /\ q3 = Inf => /\ b + 1 = N => whole[b + 1] = Inf
                       /\ b + 1 # N => whole[b + 2] = Inf
    BY <1>1, <1>11, QuantileType DEF q3
  <2> QED
    BY <1>10, <2>1, <2>2
<1>13. \E lo, hi \in 1..N : /\ 2 * (hi - lo + 1) >= N
                            /\ \A p \in lo..hi : at[p] \in inside
  <2>1. CASE q3 < Inf
    <3>1. PICK lo \in 1..N, hi \in 1..N :
            /\ 2 * (hi - lo + 1) >= N
            /\ \A p \in lo..hi :
                 whole[p] < Inf /\ WithinFences(whole[p], q1, q3)
      BY <1>1, <1>10, <2>1, HalfSurvives DEF q1, q3
    <3>2. ASSUME NEW p \in lo..hi PROVE at[p] \in inside
      <4>1. p \in 1..N
        BY <1>1, <3>1
      <4>2. at[p] \in 1..N /\ whole[p] = times[at[p]]
        BY <1>5, <4>1
      <4>3. times[at[p]] < Inf /\ WithinFences(times[at[p]], q1, q3)
        BY <3>1, <4>2
      <4>4. times[at[p]] # NaN /\ times[at[p]] # Inf
        BY <1>9, <4>2, <4>3, TimingsAre
      <4> QED
        BY <1>2, <1>10, <4>2, <4>3, <4>4 DEF Survives
    <3> QED
      BY <3>1, <3>2
  <2>2. CASE q3 = Inf
    <3>1. ASSUME NEW p \in 1..(b + 1) PROVE at[p] \in inside
      <4>1. p \in 1..N /\ p <= b + 1
        BY <1>1, <1>12
      <4>2. at[p] \in 1..N /\ whole[p] = times[at[p]]
        BY <1>5, <4>1
      <4>3. \A i, j \in 1..N : i <= j => whole[i] <= whole[j]
        BY <1>1 DEF Ascends
      <4>4. whole[p] <= Inf
        BY <1>12, <2>2, <4>1, <4>3
      <4>5. times[at[p]] # NaN
        BY <1>9, <4>2, <4>4, TimingsAre
      <4> QED
        BY <1>2, <1>10, <2>2, <4>2, <4>5 DEF Survives
    <3>2. 1 \in 1..N /\ 2 * ((b + 1) - 1 + 1) >= N
      BY <1>1, <1>11
    <3> QED
      BY <1>12, <3>1, <3>2
  <2> QED
    BY <1>12, <2>1, <2>2
<1>14. 2 * n >= N
  <2>1. PICK lo \in 1..N, hi \in 1..N :
          2 * (hi - lo + 1) >= N /\ \A p \in lo..hi : at[p] \in inside
    BY <1>13
  <2>2. lo \in 1..Cardinality(1..N) /\ hi \in 1..Cardinality(1..N)
    BY <1>3, <2>1
  <2>3. hi - lo + 1 <= n
    BY <1>1, <1>3, <1>4, <2>1, <2>2, RangeCounts DEF n
  <2> QED
    BY <1>3, <2>1, <2>3
<1>15. ASSUME NEW k \in 1..N
       PROVE  k \in inside <=> kept[1] <= times[k] /\ times[k] <= kept[n]
  <2>1. ASSUME k \in inside PROVE kept[1] <= times[k] /\ times[k] <= kept[n]
    <3>1. PICK i \in 1..n : place[i] = k
      BY <1>7, <2>1
    <3>2. kept[i] = times[k] /\ kept[1] <= kept[i] /\ kept[i] <= kept[n]
      BY <1>3, <1>7, <3>1
    <3> QED
      BY <3>2
  <2>2. ASSUME kept[1] <= times[k], times[k] <= kept[n] PROVE k \in inside
    <3> DEFINE x == times[k]
               a == kept[1]
               c == kept[n]
    <3>1. /\ x \in Timings /\ a \in Nat /\ c \in Timings /\ a <= x /\ x <= c
          /\ c # NaN /\ x \in Nat /\ c \in Nat
      BY <1>1, <1>8, <1>9, <1>10, <2>2
    <3>2. q3 # Inf => /\ c # Inf
                      /\ WithinFences(a, q1, q3) /\ WithinFences(c, q1, q3)
      BY <1>8, <1>10
    <3> HIDE DEF x, a, c
    <3>3. c <= Inf /\ (c # Inf => c < Inf)
      BY <3>1, TimingsAre
    <3>4. x # NaN /\ (q3 # Inf => x # Inf)
      BY <3>1, <3>2, <3>3, TimingsAre
    <3>5. ASSUME q3 # Inf PROVE WithinFences(x, q1, q3)
      <4>1. q3 \in Nat /\ q1 \in Nat
        BY <1>1, <1>10, <1>12, <3>5, HalfSurvives DEF q1, q3
      <4> QED
        BY <3>1, <3>2, <3>5, <4>1 DEF WithinFences
    <3> QED
      BY <1>2, <1>10, <3>4, <3>5 DEF Survives, x
  <2> QED
    BY <2>1, <2>2
<1>16. \A k \in 1..n : kept[k] # NaN
  BY <1>7, <1>10
<1> QED
  BY <1>14, <1>15, <1>16 DEF inside, kept, n

(* A median that is not NaN is between the samples it is between.          *)
LEMMA MedianBetween ==
  ASSUME NEW s, NEW n, Ascends(s, n), NEW b \in Nat, NEW f \in {0, 2},
         2 * (n - 1) = 4 * b + f, Quantile(s, 2) # NaN
  PROVE  LET m == Quantile(s, 2)
             up == IF f = 0 THEN b + 1 ELSE b + 2
         IN  /\ b + 1 \in 1..n /\ up \in 1..n /\ m \in Nat
             /\ b + 1 = n => up = n
             /\ Quarters(s[b + 1]) <= m /\ m <= Quarters(s[up])
<1> DEFINE m == Quantile(s, 2)
           up == IF f = 0 THEN b + 1 ELSE b + 2
<1>1. /\ n \in Nat /\ n >= 1 /\ s \in [1..n -> Timings]
      /\ \A i, j \in 1..n : i <= j => s[i] <= s[j]
  BY DEF Ascends
<1>2. f \in 0..3 /\ 2 \in {1, 2, 3}
  OBVIOUS
<1>3. b + 1 \in 1..n /\ (b + 1 # n => b + 2 \in 1..n)
  BY <1>2, QuantileIs
<1>4. b + 1 = n => f = 0 /\ up = n
  BY <1>1
<1>5. up \in 1..n /\ b + 1 <= up
  BY <1>1, <1>3, <1>4
<1>6. /\ (m \in Nat /\ m < Inf) \/ m = Inf
      /\ m = Inf => /\ b + 1 = n => s[b + 1] = Inf
                    /\ b + 1 # n => s[b + 2] = Inf /\ f # 0
  <2> HIDE DEF m
  <2> QED
    BY <1>2, QuantileType DEF m
<1>7. CASE m < Inf
  <2>1. /\ m \in Nat /\ s[b + 1] < Inf /\ 4 * s[b + 1] <= m
        /\ f = 0 => m = 4 * s[b + 1]
        /\ b + 1 # n => s[b + 2] < Inf /\ m <= 4 * s[b + 2]
    BY <1>2, <1>7, QuantileBetween
  <2> HIDE DEF m
  <2>2. s[b + 1] \in Timings /\ Quarters(s[b + 1]) = 4 * s[b + 1]
    BY <1>1, <1>3, <2>1, TimingsAre
  <2>3. m <= Quarters(s[up])
    <3>1. CASE f = 0
      BY <2>1, <2>2, <3>1
    <3>2. CASE f = 2
      <4>1. up = b + 2 /\ b + 1 # n /\ s[b + 2] \in Timings
        BY <1>1, <1>3, <1>4, <3>2
      <4>2. Quarters(s[b + 2]) = 4 * s[b + 2]
        BY <2>1, <4>1, TimingsAre
      <4> QED
        BY <2>1, <4>1, <4>2
    <3> QED
      BY <3>1, <3>2
  <2> QED
    BY <1>3, <1>4, <1>5, <2>1, <2>2, <2>3 DEF m
<1>8. CASE m = Inf
  <2>1. s[up] = Inf
    BY <1>4, <1>6, <1>8
  <2> HIDE DEF m, up
  <2>2. s[up] \in Timings /\ s[b + 1] \in Timings /\ s[b + 1] <= s[up]
    BY <1>1, <1>3, <1>5
  <2>3. Quarters(s[up]) = Inf /\ Quarters(s[b + 1]) <= Quarters(s[up])
        /\ Inf \in Nat
    BY <2>1, <2>2, TimingsAre
  <2> QED
    BY <1>3, <1>4, <1>5, <1>8, <2>3 DEF m, up
<1> QED
  BY <1>6, <1>7, <1>8

(* Half of what was kept is no greater than the median, half no less.      *)
Halves(s, n, I, times) ==
  LET m == Quantile(s, 2)
  IN  /\ 2 * Cardinality({k \in I : Quarters(times[k]) <= m}) >= n
      /\ 2 * Cardinality({k \in I : Quarters(times[k]) >= m}) >= n
      /\ m <= Quarters(s[HiRank(n) + 1])

(* At least half of the samples are on each side of the median.            *)
LEMMA MedianHalves ==
  ASSUME NEW s, NEW n, Ascends(s, n), Quantile(s, 2) # NaN,
         NEW I, n = Cardinality(I), IsFiniteSet(I),
         NEW place, NEW times, Arranges(s, place, times, I)
  PROVE  Halves(s, n, I, times)
<1> DEFINE m == Quantile(s, 2)
           below == {k \in I : Quarters(times[k]) <= m}
           above == {k \in I : Quarters(times[k]) >= m}
<1>1. /\ n \in Nat /\ n >= 1 /\ s \in [1..n -> Timings]
      /\ \A i, j \in 1..n : i <= j => s[i] <= s[j]
      /\ place \in [1..n -> I]
      /\ \A k \in 1..n : s[k] = times[place[k]]
  BY DEF Ascends, Arranges
<1>2. PICK b \in Nat, f \in {0, 2} :
        /\ 2 * (n - 1) = 4 * b + f
        /\ 2 * (b + 1) >= n
        /\ f = 0 => 2 * (n - b) >= n
        /\ f = 2 => 2 * (n - (b + 1)) >= n
  BY <1>1, MiddleIs
<1> DEFINE up == IF f = 0 THEN b + 1 ELSE b + 2
<1>3. /\ b + 1 \in 1..n /\ up \in 1..n /\ m \in Nat
      /\ b + 1 = n => up = n
      /\ Quarters(s[b + 1]) <= m /\ m <= Quarters(s[up])
  <2> HIDE DEF m
  <2> QED
    BY <1>2, MedianBetween DEF m
<1>4. 2 * (n - up + 1) >= n
  BY <1>1, <1>2
<1>5. \A i, j \in 1..n : /\ Quarters(s[i]) \in Nat
                         /\ i <= j => Quarters(s[i]) <= Quarters(s[j])
  BY <1>1, TimingsAre
<1>6. up = b + 1 \/ up = b + 2
  OBVIOUS
<1> HIDE DEF m, up
<1>7. /\ Cardinality(below) \in Nat /\ b + 1 <= Cardinality(below)
  <2>1. \A k \in 1..(b + 1) : place[k] \in below
    <3> SUFFICES ASSUME NEW k \in 1..(b + 1) PROVE place[k] \in below
      OBVIOUS
    <3>1. k \in 1..n /\ k <= b + 1
      BY <1>1, <1>3
    <3>2. Quarters(s[k]) <= m
      BY <1>3, <1>5, <3>1
    <3> QED
      BY <1>1, <3>1, <3>2
  <2>2. below \in SUBSET I /\ 1 \in 1..Cardinality(I) /\ b + 1 \in 1..Cardinality(I)
    BY <1>1, <1>3
  <2> HIDE DEF below
  <2>3. /\ Cardinality(below) \in Nat
        /\ (b + 1) - 1 + 1 <= Cardinality(below)
    BY <2>1, <2>2, RangeCounts
  <2> QED
    BY <2>3
<1>8. /\ Cardinality(above) \in Nat /\ n - up + 1 <= Cardinality(above)
  <2>1. \A k \in up..n : place[k] \in above
    <3> SUFFICES ASSUME NEW k \in up..n PROVE place[k] \in above
      OBVIOUS
    <3>1. k \in 1..n /\ up <= k
      BY <1>1, <1>3
    <3>2. Quarters(s[k]) >= m
      BY <1>3, <1>5, <3>1
    <3> QED
      BY <1>1, <3>1, <3>2
  <2>2. above \in SUBSET I /\ n \in 1..Cardinality(I) /\ up \in 1..Cardinality(I)
    BY <1>1, <1>3
  <2> HIDE DEF above
  <2>3. /\ Cardinality(above) \in Nat /\ n - up + 1 <= Cardinality(above)
    BY <2>1, <2>2, RangeCounts
  <2> QED
    BY <2>3
<1>9. 2 * Cardinality(below) >= n /\ 2 * Cardinality(above) >= n
  <2> DEFINE cb == Cardinality(below)
             ca == Cardinality(above)
  <2>1. cb \in Nat /\ b + 1 <= cb /\ 2 * (b + 1) >= n /\ n \in Nat
    BY <1>1, <1>2, <1>7
  <2>2. ca \in Nat /\ n - up + 1 <= ca /\ 2 * (n - up + 1) >= n /\ up \in Nat
    BY <1>3, <1>4, <1>8
  <2> HIDE DEF cb, ca
  <2>3. 2 * cb >= n
    BY <2>1
  <2>4. 2 * ca >= n
    BY <2>1, <2>2
  <2> QED
    BY <2>3, <2>4 DEF cb, ca
<1> DEFINE hi == HiRank(n) + 1
<1>10. m <= Quarters(s[hi])
  <2>1. /\ hi \in 1..n
        /\ b + 1 = n => hi = n
        /\ b + 1 # n => b + 2 <= hi
    BY <1>1, <1>2, RanksAre
  <2> HIDE DEF hi
  <2>2. up <= hi
    BY <1>1, <1>3, <1>6, <2>1
  <2>3. Quarters(s[up]) \in Nat /\ Quarters(s[hi]) \in Nat
        /\ Quarters(s[up]) <= Quarters(s[hi])
    BY <1>3, <1>5, <2>1, <2>2
  <2> QED
    BY <1>3, <2>3
<1> QED
  BY <1>9, <1>10 DEF m, hi, Halves

(* summarize says of a sample of any size what Describes asks.             *)
THEOREM SummaryDescribes ==
  ASSUME NEW N \in Nat, NEW times \in [1..N -> Timings],
         Summarize(times) # NoSummary
  PROVE  Describes(Summarize(times), times)
<1> DEFINE inside == Inside(times)
           kept == KeptTimes(times)
           n == Cardinality(inside)
           s == Summarize(times)
           lo == LoRank(n) + 1
           hi == HiRank(n) + 1
           K == {k \in DOMAIN times : Quarters(times[k]) \in s.min..s.max}
<1>1. /\ DOMAIN times = 1..N /\ Len(times) = N
      /\ inside \in SUBSET (1..N) /\ IsFiniteSet(inside)
      /\ Ascends(kept, n)
      /\ \E place : Arranges(kept, place, times, inside)
      /\ s = [n |-> n, rejected |-> N - n, med |-> Quantile(kept, 2),
              lo |-> Quarters(kept[lo]), hi |-> Quarters(kept[hi]),
              min |-> Quarters(kept[1]), max |-> Quarters(kept[n])]
  <2> HIDE DEF inside, kept, n
  <2> QED
    BY SummaryIs DEF inside, kept, n
<1>2. /\ s.n = n /\ s.rejected = N - n /\ s.med = Quantile(kept, 2)
      /\ s.lo = Quarters(kept[lo]) /\ s.hi = Quarters(kept[hi])
      /\ s.min = Quarters(kept[1]) /\ s.max = Quarters(kept[n])
  <2> HIDE DEF inside, kept, n, lo, hi, s
  <2> QED
    BY <1>1
<1>3. PICK place : Arranges(kept, place, times, inside)
  BY <1>1
<1> HIDE DEF inside, kept, s
<1>4. n \in Nat /\ n >= 1 /\ s.n + s.rejected = Len(times)
  BY <1>1, <1>2 DEF Ascends
<1>5. /\ \A k \in 1..N : times[k] \in Timings /\ Quarters(times[k]) \in Nat
      /\ \A t, u \in Timings : t <= u <=> Quarters(t) <= Quarters(u)
  <2>1. ASSUME NEW t \in Timings, NEW u \in Timings
        PROVE  t <= u <=> Quarters(t) <= Quarters(u)
    <3>1. t \in Nat /\ u \in Nat /\ Inf \in Nat /\ NaN \in Nat
      BY TimingsAre
    <3>2. t <= u => Quarters(t) <= Quarters(u)
      BY TimingsAre
    <3>3. CASE t < Inf /\ u < Inf
      BY <3>1, <3>3, TimingsAre
    <3>4. CASE t < Inf /\ u >= Inf
      BY <3>1, <3>4, TimingsAre
    <3>5. CASE t >= Inf /\ u < Inf
      BY <3>1, <3>5, TimingsAre
    <3>6. CASE t >= Inf /\ u >= Inf
      BY <3>1, <3>6, TimingsAre
    <3> QED
      BY <3>1, <3>3, <3>4, <3>5, <3>6
  <2> QED
    BY <2>1, TimingsAre
<1>6. /\ place \in [1..n -> inside]
      /\ \A k \in 1..n : kept[k] = times[place[k]]
      /\ \A i, j \in 1..n : i <= j => kept[i] <= kept[j]
  BY <1>3 DEF Arranges
<1>7. /\ 1 \in 1..n /\ n \in 1..n
      /\ \A k \in 1..n : /\ kept[k] \in Timings /\ Quarters(kept[k]) \in Nat
                         /\ place[k] \in inside /\ kept[k] = times[place[k]]
  <2>1. kept \in [1..n -> Timings]
    BY <1>1 DEF Ascends
  <2> HIDE DEF n
  <2> QED
    BY <1>4, <1>5, <1>6, <2>1, TimingsAre
<1>8. /\ 2 * n >= N
      /\ \A k \in 1..N :
           k \in inside <=> kept[1] <= times[k] /\ times[k] <= kept[n]
      /\ \A k \in 1..n : kept[k] # NaN
  BY FiltersRange DEF inside, kept, s
<1>9. K = inside
  <2>1. ASSUME NEW k \in 1..N PROVE k \in K <=> k \in inside
    <3>1. /\ s.min \in Nat /\ s.max \in Nat /\ Quarters(times[k]) \in Nat
          /\ kept[1] <= times[k] <=> s.min <= Quarters(times[k])
          /\ times[k] <= kept[n] <=> Quarters(times[k]) <= s.max
      BY <1>2, <1>5, <1>7
    <3>2. k \in K <=> s.min <= Quarters(times[k]) /\ Quarters(times[k]) <= s.max
      BY <1>1, <3>1
    <3> HIDE DEF K
    <3> QED
      BY <1>8, <3>1, <3>2
  <2>2. K \in SUBSET (1..N)
    BY <1>1
  <2> HIDE DEF K
  <2> QED
    BY <1>1, <2>1, <2>2
<1>10. lo \in 1..n /\ hi \in 1..n
  <2>1. PICK b \in Nat, f \in {0, 2} : 2 * (n - 1) = 4 * b + f
    BY <1>4, MiddleIs
  <2> HIDE DEF n
  <2> QED
    BY <1>4, <2>1, RanksAre
<1>11. ASSUME s.med # NaN
       PROVE  /\ s.med <= s.hi
              /\ 2 * Cardinality({k \in inside : Quarters(times[k]) <= s.med})
                   >= n
              /\ 2 * Cardinality({k \in inside : Quarters(times[k]) >= s.med})
                   >= n
  <2>1. Quantile(kept, 2) # NaN /\ Ascends(kept, n) /\ n = Cardinality(inside)
    BY <1>1, <1>2, <1>11
  <2> HIDE DEF n
  <2>2. Halves(kept, n, inside, times)
    BY <1>1, <1>3, <2>1, MedianHalves
  <2> QED
    BY <1>2, <2>2 DEF Halves, hi
<1>12. /\ s.lo \in Nat /\ s.med \in Nat /\ s.hi \in Nat
       /\ s.lo <= s.med /\ s.hi <= Inf
       /\ (s.hi < Inf => s.med <= s.hi)
  BY SummaryBrackets DEF s
<1>13. s.med = NaN => s.hi = Inf
  BY <1>12, TimingsAre
<1> HIDE DEF K, n, lo, hi
<1>14. s.min <= s.lo /\ s.hi <= s.max /\ s.max <= Inf
  <2>1. kept[1] <= kept[lo] /\ kept[hi] <= kept[n]
    <3>1. 1 <= lo /\ hi <= n
      BY <1>4, <1>10
    <3> QED
      BY <1>6, <1>7, <1>10, <3>1
  <2>2. kept[n] \in Timings /\ kept[n] # NaN
    BY <1>7, <1>8
  <2>3. Quarters(kept[n]) <= Inf
    BY <2>2, TimingsAre
  <2> QED
    BY <1>2, <1>5, <1>7, <1>10, <2>1, <2>3
<1>15. {s.lo, s.hi} \subseteq {Quarters(times[k]) : k \in K}
  <2>1. /\ place[lo] \in K /\ s.lo = Quarters(times[place[lo]])
        /\ place[hi] \in K /\ s.hi = Quarters(times[place[hi]])
    BY <1>2, <1>7, <1>9, <1>10
  <2> QED
    BY <2>1
<1>16. Cardinality(K) = s.n /\ 2 * s.n >= Len(times)
  BY <1>1, <1>2, <1>8, <1>9 DEF n
<1>17. IF s.med = NaN THEN s.hi = Inf
       ELSE /\ s.med <= s.hi
            /\ 2 * Cardinality({k \in K : Quarters(times[k]) <= s.med}) >= s.n
            /\ 2 * Cardinality({k \in K : Quarters(times[k]) >= s.med}) >= s.n
  BY <1>2, <1>9, <1>11, <1>13
<1>18. /\ s.n + s.rejected = Len(times)
       /\ Cardinality(K) = s.n /\ 2 * s.n >= Len(times)
       /\ s.min <= s.lo /\ s.lo <= s.med /\ s.hi <= s.max /\ s.max <= Inf
       /\ {s.lo, s.hi} \subseteq {Quarters(times[k]) : k \in K}
  BY <1>4, <1>12, <1>14, <1>15, <1>16
<1> QED
  BY <1>17, <1>18 DEF Describes, s, K

-----------------------------------------------------------------------------
(* The correlation.                                                        *)

(* The sums of the products so far.                                        *)
Sums(g, a, b, n) ==
  /\ g \in [0..n -> Int] /\ g[0] = 0
  /\ \A k \in 1..n : g[k] = g[k - 1] + a[k] * b[k]
  /\ Dot(a, b) = g[n]

(* The sum of products, one product at a time.                             *)
LEMMA DotIs ==
  ASSUME NEW n \in Nat, NEW a \in [1..n -> Int], NEW b \in [1..n -> Int]
  PROVE  \E g : Sums(g, a, b, n)
<1> DEFINE seq == [k \in DOMAIN a |-> k]
           p == <<a, b>>
<1>1. DOMAIN seq = 1..n /\ \A k \in 1..n : seq[k] = k
  OBVIOUS
<1>2. \A k \in 1..n : \A v \in Int : AddProduct(p, v, seq[k]) \in Int
  BY DEF AddProduct
<1> HIDE DEF seq, p
<1>3. Products!Stays(p, Int, 0, seq, n)
  BY <1>1, <1>2 DEF Products!Stays
<1>4. PICK g : Products!Walks(g, p, Int, 0, seq, n)
  BY <1>3, Products!FoldLeftIs
<1>5. /\ g \in [0..n -> Int] /\ g[0] = 0
      /\ \A k \in 1..n : g[k] = AddProduct(p, g[k - 1], seq[k])
      /\ Products!FoldOf(p, 0, seq) = g[n]
  BY <1>4 DEF Products!Walks
<1>6. \A k \in 1..n : g[k] = g[k - 1] + a[k] * b[k]
  BY <1>1, <1>5 DEF AddProduct, p
<1>7. Dot(a, b) = Products!FoldOf(p, 0, seq)
  BY DEF Dot, Products!FoldOf, seq, p, FoldLeft, MapThenFoldSet, Max,
         Products!FoldLeft, Products!MapThenFoldSet, Products!Max
<1> QED
  BY <1>5, <1>6, <1>7 DEF Sums

(* The squares of integers, and what follows from an order of them.        *)
LEMMA Squares ==
  /\ \A x \in Int : x * x >= 0
  /\ \A r, s \in Int : s >= 0 /\ r * r <= s * s => r <= s
  /\ \A p, q \in Int : 4 * (p * q) <= (p + q) * (p + q)
<1>1. ASSUME NEW x \in Int PROVE x * x >= 0
  <2>1. CASE x >= 0
    BY <2>1
  <2>2. CASE x < 0
    BY <2>2
  <2> QED
    BY <2>1, <2>2
<1>2. ASSUME NEW r \in Int, NEW s \in Int, s >= 0, r * r <= s * s
      PROVE  r <= s
  <2> SUFFICES ASSUME r > s PROVE FALSE
    OBVIOUS
  <2>1. r * r > s * s
    <3> DEFINE d == r - s
    <3>1. d \in Int /\ d >= 1 /\ r = s + d
      OBVIOUS
    <3> HIDE DEF d
    <3>2. s * d >= 0 /\ d * d >= 1
      <4>1. d * d >= d
        BY <3>1
      <4> QED
        BY <1>2, <3>1, <4>1
    <3>3. r * r = s * s + 2 * (s * d) + d * d
      BY <3>1
    <3> DEFINE sd == s * d
               dd == d * d
               ss == s * s
    <3>4. sd \in Int /\ dd \in Int /\ ss \in Int
      BY <3>1
    <3>5. r * r = ss + 2 * sd + dd /\ sd >= 0 /\ dd >= 1
      BY <3>2, <3>3
    <3> HIDE DEF sd, dd, ss
    <3>6. r * r > ss
      BY <3>4, <3>5
    <3> QED
      BY <3>6 DEF ss
  <2> QED
    BY <1>2, <2>1
<1>3. ASSUME NEW p \in Int, NEW q \in Int
      PROVE  4 * (p * q) <= (p + q) * (p + q)
  <2>1. (p - q) * (p - q) >= 0
    BY <1>1
  <2>2. (p + q) * (p + q) = 4 * (p * q) + (p - q) * (p - q)
    OBVIOUS
  <2> DEFINE a == (p - q) * (p - q)
             b == 4 * (p * q)
             c == (p + q) * (p + q)
  <2>3. a \in Int /\ b \in Int /\ c \in Int /\ a >= 0 /\ c = b + a
    BY <2>1, <2>2
  <2> HIDE DEF a, b, c
  <2>4. b <= c
    BY <2>3
  <2> QED
    BY <2>4 DEF b, c
<1> QED
  BY <1>1, <1>2, <1>3

(* One more term keeps the inequality of Cauchy and Schwarz.               *)
LEMMA CauchyStep ==
  ASSUME NEW f \in Int, NEW g \in Int, NEW h \in Int, NEW x \in Int,
         NEW y \in Int, g >= 0, h >= 0, f * f <= g * h
  PROVE  /\ g + x * x >= 0 /\ h + y * y >= 0
         /\ (f + x * y) * (f + x * y) <= (g + x * x) * (h + y * y)
<1> DEFINE z == x * y
           p == g * (y * y)
           q == h * (x * x)
           r == f * z
<1>1. x * x >= 0 /\ y * y >= 0 /\ z * z >= 0 /\ z \in Int
  BY Squares
<1>2. p \in Int /\ q \in Int /\ r \in Int /\ p >= 0 /\ q >= 0
  <2> DEFINE a == x * x
             b == y * y
  <2>1. a \in Int /\ b \in Int /\ a >= 0 /\ b >= 0
    BY <1>1
  <2> HIDE DEF a, b
  <2>2. g * b >= 0 /\ h * a >= 0 /\ g * b \in Int /\ h * a \in Int
    BY <2>1
  <2> QED
    BY <1>1, <2>2 DEF a, b
<1>3. r * r <= p * q
  <2> DEFINE w == z * z
             ff == f * f
             gh == g * h
  <2>1. w \in Int /\ ff \in Int /\ gh \in Int /\ w >= 0 /\ ff <= gh
    BY <1>1
  <2> HIDE DEF w, ff, gh
  <2>2. ff * w <= gh * w
    BY <2>1
  <2>3. r * r = (f * f) * (z * z)
    BY <1>1
  <2>4. p * q = (g * h) * (z * z)
    OBVIOUS
  <2> QED
    BY <2>2, <2>3, <2>4 DEF w, ff, gh
<1>4. 2 * r <= p + q
  <2> HIDE DEF p, q, r
  <2>1. 4 * (p * q) <= (p + q) * (p + q)
    BY <1>2, Squares
  <2> DEFINE rr == r * r
             pq == p * q
             ss == (p + q) * (p + q)
  <2>2. rr \in Int /\ pq \in Int /\ ss \in Int /\ rr <= pq /\ 4 * pq <= ss
    BY <1>2, <1>3, <2>1
  <2>3. (2 * r) * (2 * r) = 4 * rr
    BY <1>2
  <2> HIDE DEF rr, pq, ss
  <2>4. (2 * r) * (2 * r) <= ss
    BY <2>2, <2>3
  <2>5. p + q \in Int /\ p + q >= 0 /\ 2 * r \in Int
    BY <1>2
  <2> QED
    BY <2>4, <2>5, Squares DEF ss
<1>5. (f + x * y) * (f + x * y) = f * f + 2 * r + z * z
  OBVIOUS
<1>6. (g + x * x) * (h + y * y) = g * h + p + q + z * z
  OBVIOUS
<1>7. f * f + 2 * r + z * z <= g * h + p + q + z * z
  <2> DEFINE ff == f * f
             gh == g * h
             zz == z * z
  <2>1. ff \in Int /\ gh \in Int /\ zz \in Int /\ ff <= gh
    BY <1>1
  <2> HIDE DEF ff, gh, zz, p, q, r
  <2>2. ff + 2 * r + zz <= gh + p + q + zz
    BY <1>2, <1>4, <2>1
  <2> QED
    BY <2>2 DEF ff, gh, zz
<1>8. g + x * x >= 0 /\ h + y * y >= 0
  BY <1>1
<1> QED
  BY <1>5, <1>6, <1>7, <1>8

(* The inequality that keeps a correlation within -1 and 1.                *)
LEMMA Cauchy ==
  ASSUME NEW n \in Nat, NEW x \in [1..n -> Int], NEW y \in [1..n -> Int]
  PROVE  /\ Dot(x, y) \in Int /\ Dot(x, x) \in Int /\ Dot(y, y) \in Int
         /\ Dot(x, y) * Dot(x, y) <= Dot(x, x) * Dot(y, y)
<1>1. PICK f : Sums(f, x, y, n)
  BY DotIs
<1>2. PICK g : Sums(g, x, x, n)
  BY DotIs
<1>3. PICK h : Sums(h, y, y, n)
  BY DotIs
<1>4. /\ f \in [0..n -> Int] /\ g \in [0..n -> Int] /\ h \in [0..n -> Int]
      /\ f[0] = 0 /\ g[0] = 0 /\ h[0] = 0
      /\ Dot(x, y) = f[n] /\ Dot(x, x) = g[n] /\ Dot(y, y) = h[n]
      /\ \A k \in 1..n : /\ f[k] = f[k - 1] + x[k] * y[k]
                         /\ g[k] = g[k - 1] + x[k] * x[k]
                         /\ h[k] = h[k - 1] + y[k] * y[k]
  BY <1>1, <1>2, <1>3 DEF Sums
<1> DEFINE S == {k \in 0..n : g[k] >= 0 /\ h[k] >= 0 /\ f[k] * f[k] <= g[k] * h[k]}
<1>5. 0 \in S
  BY <1>4
<1>6. ASSUME NEW k \in 0..(n - 1), k \in S PROVE k + 1 \in S
  <2> DEFINE j == k + 1
  <2>1. j \in 1..n /\ j \in 0..n /\ k \in 0..n /\ j - 1 = k
    OBVIOUS
  <2> HIDE DEF j
  <2>2. /\ f[k] \in Int /\ g[k] \in Int /\ h[k] \in Int
        /\ x[j] \in Int /\ y[j] \in Int
        /\ g[k] >= 0 /\ h[k] >= 0 /\ f[k] * f[k] <= g[k] * h[k]
    BY <1>4, <1>6, <2>1
  <2>3. /\ f[j] = f[k] + x[j] * y[j]
        /\ g[j] = g[k] + x[j] * x[j]
        /\ h[j] = h[k] + y[j] * y[j]
    BY <1>4, <2>1
  <2>4. g[j] >= 0 /\ h[j] >= 0 /\ f[j] * f[j] <= g[j] * h[j]
    <3> DEFINE fk == f[k]
               gk == g[k]
               hk == h[k]
               xj == x[j]
               yj == y[j]
    <3>1. /\ fk \in Int /\ gk \in Int /\ hk \in Int /\ xj \in Int /\ yj \in Int
          /\ gk >= 0 /\ hk >= 0 /\ fk * fk <= gk * hk
      BY <2>2
    <3>2. f[j] = fk + xj * yj /\ g[j] = gk + xj * xj /\ h[j] = hk + yj * yj
      BY <2>3
    <3> HIDE DEF fk, gk, hk, xj, yj
    <3>3. /\ gk + xj * xj >= 0 /\ hk + yj * yj >= 0
          /\ (fk + xj * yj) * (fk + xj * yj) <= (gk + xj * xj) * (hk + yj * yj)
      BY <3>1, CauchyStep
    <3> QED
      BY <3>2, <3>3
  <2> QED
    BY <2>1, <2>4 DEF j
<1>7. \A k \in 0..n : k \in S
  <2> HIDE DEF S
  <2> QED
    BY <1>5, <1>6, Products!BoundedInduction
<1>8. n \in S
  BY <1>7
<1> QED
  BY <1>4, <1>8

(* The product with the opposite.                                          *)
LEMMA DotOfOpposites ==
  ASSUME NEW n \in Nat, NEW x \in [1..n -> Int], NEW y \in [1..n -> Int],
         \A k \in 1..n : y[k] = -x[k]
  PROVE  Dot(x, y) = -Dot(x, x) /\ Dot(x, y) = -Dot(y, y)
<1>1. PICK f : Sums(f, x, y, n)
  BY DotIs
<1>2. PICK g : Sums(g, x, x, n)
  BY DotIs
<1>3. PICK h : Sums(h, y, y, n)
  BY DotIs
<1>4. /\ f \in [0..n -> Int] /\ g \in [0..n -> Int] /\ h \in [0..n -> Int]
      /\ f[0] = 0 /\ g[0] = 0 /\ h[0] = 0
      /\ Dot(x, y) = f[n] /\ Dot(x, x) = g[n] /\ Dot(y, y) = h[n]
      /\ \A k \in 1..n : /\ f[k] = f[k - 1] + x[k] * y[k]
                         /\ g[k] = g[k - 1] + x[k] * x[k]
                         /\ h[k] = h[k - 1] + y[k] * y[k]
  BY <1>1, <1>2, <1>3 DEF Sums
<1> DEFINE S == {k \in 0..n : f[k] = -g[k] /\ f[k] = -h[k]}
<1>5. 0 \in S
  BY <1>4
<1>6. ASSUME NEW k \in 0..(n - 1), k \in S PROVE k + 1 \in S
  <2> DEFINE j == k + 1
             xx == x[j] * x[j]
  <2>1. j \in 1..n /\ j \in 0..n /\ k \in 0..n /\ j - 1 = k
    OBVIOUS
  <2> HIDE DEF j
  <2>2. /\ f[k] \in Int /\ g[k] \in Int /\ h[k] \in Int
        /\ x[j] \in Int /\ y[j] = -x[j]
        /\ f[k] = -g[k] /\ f[k] = -h[k]
    BY <1>4, <1>6, <2>1
  <2>3. x[j] * y[j] = -xx /\ y[j] * y[j] = xx /\ xx \in Int
    <3> DEFINE a == x[j]
    <3>1. a \in Int /\ y[j] = -a
      BY <2>2
    <3> HIDE DEF a
    <3>2. a * (-a) = -(a * a) /\ (-a) * (-a) = a * a /\ a * a \in Int
      BY <3>1
    <3> QED
      BY <3>1, <3>2 DEF a
  <2>4. f[j] = f[k] + (-xx) /\ g[j] = g[k] + xx /\ h[j] = h[k] + xx
    <3>1. /\ f[j] = f[k] + x[j] * y[j]
          /\ g[j] = g[k] + x[j] * x[j]
          /\ h[j] = h[k] + y[j] * y[j]
      BY <1>4, <2>1
    <3> QED
      BY <2>3, <3>1
  <2> HIDE DEF xx
  <2>5. f[j] = -g[j] /\ f[j] = -h[j]
    <3> DEFINE gk == g[k]
               hk == h[k]
    <3>1. gk \in Int /\ hk \in Int /\ f[k] = -gk /\ gk = hk
      BY <2>2
    <3>2. f[j] = (-gk) + (-xx) /\ g[j] = gk + xx /\ h[j] = gk + xx
      BY <2>4, <3>1
    <3> HIDE DEF gk, hk
    <3>3. (-gk) + (-xx) = -(gk + xx)
      BY <2>3, <3>1
    <3> QED
      BY <3>2, <3>3
  <2> QED
    BY <2>1, <2>5 DEF j
<1>7. \A k \in 0..n : k \in S
  <2> HIDE DEF S
  <2> QED
    BY <1>5, <1>6, Products!BoundedInduction
<1>8. n \in S
  BY <1>7
<1> QED
  BY <1>4, <1>8

(* How many values are below one, the same and above.                      *)
Below(v, n, k) == Cardinality({j \in 1..n : v[j] < v[k]})
Same(v, n, k) == Cardinality({j \in 1..n : v[j] = v[k]})
Above(v, n, k) == Cardinality({j \in 1..n : v[k] < v[j]})

(* The rank of a value that is a number, from the ones below and alike.    *)
LEMMA RankIs ==
  ASSUME NEW n \in Nat, NEW v \in [1..n -> Int], NEW k \in 1..n
  PROVE  /\ Below(v, n, k) \in Nat /\ Same(v, n, k) \in Nat
         /\ Below(v, n, k) + Same(v, n, k) + Above(v, n, k) = n
         /\ RankOf(v, k) \in Int
         /\ v[k] # NaN =>
              RankOf(v, k) = 2 * Below(v, n, k) + Same(v, n, k) + 1
<1> DEFINE below == {j \in 1..n : v[j] < v[k]}
           same == {j \in 1..n : v[j] = v[k]}
           above == {j \in 1..n : v[k] < v[j]}
           tied == {j \in same : j <= k}
<1>1. IsFiniteSet(1..n) /\ Cardinality(1..n) = n
  BY FS_Interval
<1>2. /\ below \in SUBSET (1..n) /\ same \in SUBSET (1..n)
      /\ above \in SUBSET (1..n) /\ tied \in SUBSET (1..n)
      /\ below \cap same = {} /\ (below \cup same) \cap above = {}
      /\ (below \cup same) \cup above = 1..n
  <2>1. \A j \in 1..n : v[j] \in Int /\ v[k] \in Int
    OBVIOUS
  <2>2. (below \cup same) \cap above = {}
    BY <2>1
  <2>3. below \cap same = {}
    BY <2>1
  <2>4. \A j \in 1..n : j \in (below \cup same) \cup above
    BY <2>1
  <2> QED
    BY <2>2, <2>3, <2>4
<1>3. /\ RankOf(v, k) =
           2 * Cardinality(below) + (IF v[k] = NaN THEN 2 * Cardinality(tied)
                                     ELSE Cardinality(same) + 1)
  <2>1. DOMAIN v = 1..n
    OBVIOUS
  <2> QED
    BY <2>1 DEF RankOf
<1> HIDE DEF below, same, above, tied
<1>4. /\ IsFiniteSet(below) /\ IsFiniteSet(same) /\ IsFiniteSet(above)
      /\ IsFiniteSet(tied)
  BY <1>1, <1>2, FS_Subset
<1>5. /\ Cardinality(below) \in Nat /\ Cardinality(same) \in Nat
      /\ Cardinality(above) \in Nat /\ Cardinality(tied) \in Nat
  BY <1>4, FS_CardinalityType
<1>6. /\ IsFiniteSet(below \cup same)
      /\ Cardinality(below \cup same) = Cardinality(below) + Cardinality(same)
  <2>1. Cardinality(below \cap same) = 0
    BY <1>2, FS_EmptySet
  <2>2. /\ IsFiniteSet(below \cup same)
        /\ Cardinality(below \cup same)
             = Cardinality(below) + Cardinality(same)
                 - Cardinality(below \cap same)
    BY <1>4, FS_Union
  <2> QED
    BY <1>5, <2>1, <2>2
<1>7. Cardinality(below) + Cardinality(same) + Cardinality(above) = n
  <2> DEFINE B == below \cup same
  <2>1. Cardinality(B \cap above) = 0
    BY <1>2, FS_EmptySet
  <2>2. IsFiniteSet(B) /\ B \cup above = 1..n
    BY <1>2, <1>6
  <2> HIDE DEF B
  <2>3. Cardinality(B \cup above)
          = Cardinality(B) + Cardinality(above) - Cardinality(B \cap above)
    BY <1>4, <2>2, FS_Union
  <2>4. n = Cardinality(B) + Cardinality(above) - 0
    BY <1>1, <2>1, <2>2, <2>3
  <2>5. Cardinality(B) = Cardinality(below) + Cardinality(same)
    BY <1>6 DEF B
  <2> QED
    BY <1>5, <2>4, <2>5
<1>8. RankOf(v, k) \in Int
  BY <1>3, <1>5
<1>9. v[k] # NaN =>
        RankOf(v, k) = 2 * Cardinality(below) + Cardinality(same) + 1
  <2> DEFINE b == Cardinality(below)
             c == Cardinality(same)
  <2>1. v[k] # NaN => RankOf(v, k) = (2 * b) + (c + 1)
    BY <1>3
  <2>2. b \in Nat /\ c \in Nat
    BY <1>5
  <2> HIDE DEF b, c
  <2>3. (2 * b) + (c + 1) = 2 * b + c + 1
    BY <2>2
  <2> QED
    BY <2>1, <2>3 DEF b, c
<1> QED
  BY <1>5, <1>7, <1>8, <1>9 DEF below, same, above, Below, Same, Above

(* Ranks about their mean, of any values.                                  *)
LEMMA CentredIs ==
  ASSUME NEW n \in Nat, NEW v \in [1..n -> Int]
  PROVE  /\ Centred(v) \in [1..n -> Int]
         /\ \A k \in 1..n : Centred(v)[k] = RankOf(v, k) - (n + 1)
<1>1. DOMAIN v = 1..n /\ Len(v) = n
  OBVIOUS
<1>2. Centred(v) = [k \in 1..n |-> RankOf(v, k) - (n + 1)]
  BY <1>1 DEF Centred
<1>3. \A k \in 1..n : RankOf(v, k) \in Int
  BY RankIs
<1> QED
  BY <1>2, <1>3

(* The same order gives the same ranks.                                    *)
LEMMA AlikeRanks ==
  ASSUME NEW n \in Nat, NEW u \in [1..n -> Int], NEW v \in [1..n -> Int],
         \A k \in 1..n : u[k] # NaN /\ v[k] # NaN,
         \A j, k \in 1..n : u[j] < u[k] <=> v[j] < v[k]
  PROVE  Centred(u) = Centred(v)
<1>1. ASSUME NEW k \in 1..n PROVE RankOf(u, k) = RankOf(v, k)
  <2>1. \A j \in 1..n : u[j] \in Int /\ v[j] \in Int
    OBVIOUS
  <2>2. \A j \in 1..n : u[j] = u[k] <=> v[j] = v[k]
    BY <2>1
  <2>3. /\ {j \in 1..n : u[j] < u[k]} = {j \in 1..n : v[j] < v[k]}
        /\ {j \in 1..n : u[j] = u[k]} = {j \in 1..n : v[j] = v[k]}
    BY <2>2
  <2>4. /\ DOMAIN u = 1..n /\ DOMAIN v = 1..n
        /\ u[k] # NaN /\ v[k] # NaN
    OBVIOUS
  <2> QED
    BY <2>3, <2>4 DEF RankOf
<1>2. DOMAIN u = 1..n /\ DOMAIN v = 1..n /\ Len(u) = n /\ Len(v) = n
  OBVIOUS
<1> QED
  BY <1>1, <1>2 DEF Centred

(* The opposite order gives the ranks on the other side of their mean.     *)
LEMMA OppositeRanks ==
  ASSUME NEW n \in Nat, NEW u \in [1..n -> Int], NEW v \in [1..n -> Int],
         \A k \in 1..n : u[k] # NaN /\ v[k] # NaN,
         \A j, k \in 1..n : u[j] < u[k] <=> v[k] < v[j]
  PROVE  \A k \in 1..n : Centred(v)[k] = -Centred(u)[k]
<1> SUFFICES ASSUME NEW k \in 1..n PROVE Centred(v)[k] = -Centred(u)[k]
  OBVIOUS
<1> DEFINE b == Below(u, n, k)
           c == Same(u, n, k)
           a == Above(u, n, k)
           vb == Below(v, n, k)
           vc == Same(v, n, k)
<1>1. vb = a /\ vc = c
  <2>1. \A j \in 1..n : u[j] \in Int /\ v[j] \in Int
    OBVIOUS
  <2>2. \A j \in 1..n : u[j] = u[k] <=> v[j] = v[k]
    BY <2>1
  <2>3. /\ {j \in 1..n : v[j] < v[k]} = {j \in 1..n : u[k] < u[j]}
        /\ {j \in 1..n : v[j] = v[k]} = {j \in 1..n : u[j] = u[k]}
    BY <2>2
  <2> QED
    BY <2>3 DEF Below, Same, Above
<1>2. /\ b \in Nat /\ c \in Nat /\ b + c + a = n
      /\ RankOf(u, k) = 2 * b + c + 1
  BY RankIs
<1>3. vb \in Nat /\ RankOf(v, k) = 2 * vb + vc + 1
  BY RankIs
<1> HIDE DEF a, b, c, vb, vc
<1>4. /\ Centred(u)[k] = RankOf(u, k) - (n + 1)
      /\ Centred(v)[k] = RankOf(v, k) - (n + 1)
  BY CentredIs
<1> QED
  BY <1>1, <1>2, <1>3, <1>4

(* A cost that is not infinite.                                            *)
Costs == Nat \X (Nat \ {0})

(* The place of a cost is by the order of costs.                           *)
LEMMA PlacesOrder ==
  ASSUME NEW n \in Nat, NEW costs \in [1..n -> Costs]
  PROVE  /\ Places(costs) \in [1..n -> Int]
         /\ \A k \in 1..n : Places(costs)[k] # NaN
         /\ \A j, k \in 1..n :
              Places(costs)[j] < Places(costs)[k] <=> Cheaper(costs[j], costs[k])
<1> DEFINE dearer(k) == {j \in 1..n : Cheaper(costs[k], costs[j])}
<1>1. IsFiniteSet(1..n)
  BY FS_Interval
<1>2. ASSUME NEW k \in 1..n
      PROVE  IsFiniteSet(dearer(k)) /\ Cardinality(dearer(k)) \in Nat
  <2>1. IsFiniteSet(dearer(k))
    BY <1>1, FS_Subset
  <2> HIDE DEF dearer
  <2> QED
    BY <2>1, FS_CardinalityType
<1>3. Places(costs) = [k \in 1..n |-> -Cardinality(dearer(k))]
  <2>1. DOMAIN costs = 1..n
    OBVIOUS
  <2> QED
    BY <2>1 DEF Places
<1>4. NaN \in Nat /\ NaN > 0
  BY StatsAssumption DEF StatsAssumption
<1>5. ASSUME NEW j \in 1..n, NEW k \in 1..n, NEW i \in 1..n,
             ~Cheaper(costs[j], costs[k]), Cheaper(costs[j], costs[i])
      PROVE  Cheaper(costs[k], costs[i])
  <2> DEFINE a == costs[j][1]
             b == costs[j][2]
             c == costs[k][1]
             d == costs[k][2]
             e == costs[i][1]
             f == costs[i][2]
  <2>1. /\ a \in Nat /\ c \in Nat /\ e \in Nat
        /\ b \in Nat /\ d \in Nat /\ f \in Nat /\ b > 0 /\ d > 0 /\ f > 0
    BY DEF Costs
  <2>2. c * b <= a * d /\ a * f < e * b
    <3>1. ~(a * d < c * b) /\ a * f < e * b
      BY <1>5 DEF Cheaper
    <3> HIDE DEF a, b, c, d, e, f
    <3>2. a * d \in Nat /\ c * b \in Nat
      BY <2>1
    <3> QED
      BY <3>1, <3>2
  <2> HIDE DEF a, b, c, d, e, f
  <2>3. (c * b) * f <= (a * d) * f
    <3> DEFINE x == c * b
               y == a * d
    <3>1. x \in Nat /\ y \in Nat /\ x <= y
      BY <2>1, <2>2
    <3> HIDE DEF x, y
    <3>2. x * f <= y * f
      BY <2>1, <3>1
    <3> QED
      BY <3>2 DEF x, y
  <2>4. (a * f) * d < (e * b) * d
    <3> DEFINE x == a * f
               y == e * b
    <3>1. x \in Nat /\ y \in Nat /\ x < y
      BY <2>1, <2>2
    <3> HIDE DEF x, y
    <3>2. x * d < y * d
      BY <2>1, <3>1
    <3> QED
      BY <3>2 DEF x, y
  <2>5. (c * f) * b < (e * d) * b
    <3>1. (c * f) * b = (c * b) * f /\ (e * d) * b = (e * b) * d
          /\ (a * d) * f = (a * f) * d
      BY <2>1
    <3>2. (c * b) * f \in Nat /\ (a * d) * f \in Nat /\ (e * b) * d \in Nat
      BY <2>1
    <3> QED
      BY <2>3, <2>4, <3>1, <3>2
  <2>6. c * f < e * d
    <3> DEFINE x == c * f
               y == e * d
    <3>1. x \in Nat /\ y \in Nat /\ x * b < y * b
      BY <2>1, <2>5
    <3> HIDE DEF x, y
    <3>2. x < y
      <4> SUFFICES ASSUME y <= x PROVE FALSE
        BY <3>1
      <4>1. y * b <= x * b
        BY <2>1, <3>1
      <4>2. y * b \in Int /\ x * b \in Int
        BY <2>1, <3>1
      <4> QED
        BY <3>1, <4>1, <4>2
    <3> QED
      BY <3>2 DEF x, y
  <2> QED
    BY <2>6 DEF Cheaper, c, d, e, f
<1>6. ASSUME NEW k \in 1..n PROVE ~Cheaper(costs[k], costs[k])
  <2>1. costs[k][1] * costs[k][2] \in Int
    BY DEF Costs
  <2> QED
    BY <2>1 DEF Cheaper
<1>7. ASSUME NEW j \in 1..n, NEW k \in 1..n
      PROVE  Cardinality(dearer(k)) < Cardinality(dearer(j))
               <=> Cheaper(costs[j], costs[k])
  <2>1. ASSUME ~Cheaper(costs[j], costs[k])
        PROVE  Cardinality(dearer(j)) <= Cardinality(dearer(k))
    <3>1. dearer(j) \in SUBSET dearer(k)
      BY <1>5, <2>1
    <3> HIDE DEF dearer
    <3> QED
      BY <1>2, <3>1, FS_Subset
  <2>2. ASSUME Cheaper(costs[j], costs[k])
        PROVE  Cardinality(dearer(k)) < Cardinality(dearer(j))
    <3>1. ~Cheaper(costs[k], costs[j])
      <4>1. /\ costs[j][1] * costs[k][2] \in Int
            /\ costs[k][1] * costs[j][2] \in Int
        BY DEF Costs
      <4> QED
        BY <2>2, <4>1 DEF Cheaper
    <3>2. dearer(k) \in SUBSET dearer(j) /\ k \in dearer(j) /\ k \notin dearer(k)
      BY <1>5, <1>6, <2>2, <3>1
    <3> HIDE DEF dearer
    <3>3. /\ Cardinality(dearer(k)) <= Cardinality(dearer(j))
          /\ Cardinality(dearer(k)) = Cardinality(dearer(j))
               => dearer(k) = dearer(j)
      BY <1>2, <3>2, FS_Subset
    <3> QED
      BY <1>2, <3>2, <3>3
  <2> HIDE DEF dearer
  <2> QED
    BY <1>2, <2>1, <2>2
<1> HIDE DEF dearer
<1>8. Places(costs) \in [1..n -> Int]
  BY <1>2, <1>3
<1>9. \A k \in 1..n : Places(costs)[k] # NaN
  BY <1>2, <1>3, <1>4
<1>10. \A j, k \in 1..n :
         Places(costs)[j] < Places(costs)[k] <=> Cheaper(costs[j], costs[k])
  <2> SUFFICES ASSUME NEW j \in 1..n, NEW k \in 1..n
               PROVE  Places(costs)[j] < Places(costs)[k]
                        <=> Cheaper(costs[j], costs[k])
    OBVIOUS
  <2>1. /\ Places(costs)[j] = -Cardinality(dearer(j))
        /\ Places(costs)[k] = -Cardinality(dearer(k))
        /\ Cardinality(dearer(j)) \in Nat /\ Cardinality(dearer(k)) \in Nat
    BY <1>2, <1>3
  <2>2. Places(costs)[j] < Places(costs)[k]
          <=> Cardinality(dearer(k)) < Cardinality(dearer(j))
    BY <2>1
  <2> QED
    BY <1>7, <2>2
<1> QED
  BY <1>8, <1>9, <1>10

(* spearman of n costs and as many medians.                                *)
IsCorrelation(r, costs, medians, n) ==
  /\ r.num * r.num <= r.dx * r.dy
  /\ (\A k \in 1..n : medians[k] # NaN) =>
       /\ (\A j, k \in 1..n :
             Cheaper(costs[j], costs[k]) <=> medians[j] < medians[k]) =>
            r.num = r.dx /\ r.num = r.dy
       /\ (\A j, k \in 1..n :
             Cheaper(costs[j], costs[k]) <=> medians[k] < medians[j]) =>
            r.num = -r.dx /\ r.num = -r.dy

(* `spearman' is within -1 and 1, and is 1 where costs and medians rank    *)
(* alike, -1 where they rank in reverse, of any number of them and however *)
(* they tie, unless a median is NaN: one that is ties with nothing, and    *)
(* the bound is all that can be said.                                      *)
THEOREM SpearmanIs ==
  ASSUME NEW n \in Nat, NEW costs \in [1..n -> Costs],
         NEW medians \in [1..n -> Nat],
         Spearman(costs, medians) # NoCorrelation
  PROVE  IsCorrelation(Spearman(costs, medians), costs, medians, n)
<1> DEFINE v == Places(costs)
           x == Centred(v)
           y == Centred(medians)
           r == Spearman(costs, medians)
<1>1. medians \in [1..n -> Int] /\ v \in [1..n -> Int]
  BY PlacesOrder
<1>2. x \in [1..n -> Int] /\ y \in [1..n -> Int]
  <2> HIDE DEF v
  <2> QED
    BY <1>1, CentredIs
<1>3. r.num = Dot(x, y) /\ r.dx = Dot(x, x) /\ r.dy = Dot(y, y)
  BY DEF Spearman
<1> HIDE DEF r
<1>4. /\ \A k \in 1..n : v[k] # NaN
      /\ \A j, k \in 1..n : v[j] < v[k] <=> Cheaper(costs[j], costs[k])
  BY PlacesOrder
<1> HIDE DEF v
<1>5. r.num * r.num <= r.dx * r.dy
  <2> HIDE DEF x, y
  <2> QED
    BY <1>2, <1>3, Cauchy
<1>6. ASSUME \A k \in 1..n : medians[k] # NaN,
             \A j, k \in 1..n :
               Cheaper(costs[j], costs[k]) <=> medians[j] < medians[k]
      PROVE  r.num = r.dx /\ r.num = r.dy
  <2>1. \A k \in 1..n : v[k] # NaN /\ medians[k] # NaN
    BY <1>4, <1>6
  <2>2. \A j, k \in 1..n : v[j] < v[k] <=> medians[j] < medians[k]
    BY <1>4, <1>6
  <2> HIDE DEF x, y
  <2>3. Centred(v) = Centred(medians)
    BY <1>1, <2>1, <2>2, AlikeRanks, ZenonT(30)
  <2> QED
    BY <1>3, <2>3 DEF x, y
<1>7. ASSUME \A k \in 1..n : medians[k] # NaN,
             \A j, k \in 1..n :
               Cheaper(costs[j], costs[k]) <=> medians[k] < medians[j]
      PROVE  r.num = -r.dx /\ r.num = -r.dy
  <2>1. \A k \in 1..n : v[k] # NaN /\ medians[k] # NaN
    BY <1>4, <1>7
  <2>2. \A j, k \in 1..n : v[j] < v[k] <=> medians[k] < medians[j]
    BY <1>4, <1>7
  <2> HIDE DEF x, y
  <2>3. \A k \in 1..n : Centred(medians)[k] = -Centred(v)[k]
    BY <1>1, <2>1, <2>2, OppositeRanks, ZenonT(30)
  <2>4. \A k \in 1..n : y[k] = -x[k]
    BY <2>3 DEF x, y
  <2>5. Dot(x, y) = -Dot(x, x) /\ Dot(x, y) = -Dot(y, y)
    BY <1>2, <2>4, DotOfOpposites, ZenonT(30)
  <2> QED
    BY <1>3, <2>5
<1> QED
  BY <1>5, <1>6, <1>7 DEF IsCorrelation, r
=============================================================================
