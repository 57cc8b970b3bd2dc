----------------------------- MODULE FoldProofs -----------------------------
(***************************************************************************)
(* What a fold computes, for a sequence of any length: induction over      *)
(* numbers as a statement about sets, and from it the values of FoldLeft   *)
(* and of a function defined by recursion over 0..n.  A proof about a      *)
(* model's own step instantiates Op with it: the first argument holds the  *)
(* step's parameters.                                                      *)
(***************************************************************************)
EXTENDS Integers, SequencesExt, WellFoundedInduction, TLAPS

CONSTANT Op(_, _, _)

(* A set of numbers that is not empty has a least member.                  *)
LEMMA LeastMember ==
  ASSUME NEW T \in SUBSET Nat, T # {}
  PROVE  \E m \in T : \A n \in T : m <= n
<1>1. PICK x \in T : \A y \in T : <<y, x>> \notin OpToRel(<, Nat)
  BY NatLessThanWellFounded, WFMin
<1>2. \A y \in T : ~(y < x)
  BY <1>1 DEF OpToRel
<1> QED
  BY <1>2

(* Induction, over the members of a set in place of a predicate.           *)
LEMMA Induction ==
  ASSUME NEW S, 0 \in S, \A n \in Nat : n \in S => n + 1 \in S
  PROVE  \A n \in Nat : n \in S
<1> DEFINE T == Nat \ S
<1> SUFFICES ASSUME T # {} PROVE FALSE
  OBVIOUS
<1>1. PICK x \in T : \A y \in T : x <= y
  BY LeastMember
<1>2. x - 1 \in Nat /\ x - 1 \notin T
  BY <1>1
<1> QED
  BY <1>1, <1>2

(* The same up to a bound.                                                 *)
LEMMA BoundedInduction ==
  ASSUME NEW n \in Nat, NEW S, 0 \in S,
         \A k \in 0..(n - 1) : k \in S => k + 1 \in S
  PROVE  \A k \in 0..n : k \in S
<1> DEFINE T == {k \in Nat : k <= n => k \in S}
<1>1. 0 \in T
  OBVIOUS
<1>2. ASSUME NEW k \in Nat, k \in T PROVE k + 1 \in T
  BY <1>2
<1>3. \A k \in Nat : k \in T
  <2> HIDE DEF T
  <2> QED
    BY <1>1, <1>2, Induction
<1> QED
  BY <1>3

(* A set of numbers that is not empty and has a bound has a greatest       *)
(* member.                                                                 *)
LEMMA GreatestMember ==
  ASSUME NEW n \in Nat, NEW T \in SUBSET (0..n), T # {}
  PROVE  Max(T) \in T /\ \A k \in T : k <= Max(T)
<1> DEFINE D == {n - k : k \in T}
<1>1. /\ D \in SUBSET Nat /\ D # {}
      /\ \A k \in T : k \in Nat /\ k <= n /\ n - k \in D
  <2>1. \A k \in T : k \in Nat /\ k <= n /\ n - k \in Nat
    OBVIOUS
  <2> QED
    BY <2>1
<1>2. PICK d \in D : \A e \in D : d <= e
  BY <1>1, LeastMember
<1>3. PICK m \in T : d = n - m
  OBVIOUS
<1>4. ASSUME NEW k \in T PROVE m >= k
  <2>1. d <= n - k
    BY <1>1, <1>2
  <2> QED
    BY <1>1, <1>3, <2>1
<1>5. Max(T) \in T /\ \A k \in T : Max(T) >= k
  BY <1>4 DEF Max
<1> QED
  BY <1>1, <1>5

-----------------------------------------------------------------------------
(* FoldLeft.                                                               *)

(* The recursion FoldLeft is defined by, over the subsets of 1..k.         *)
Unfolds(h, k, p, base, seq) ==
  h = [s \in SUBSET (1..k) |->
         IF s = {} THEN base
         ELSE LET x == Max(s) IN Op(p, h[s \ {x}], seq[x])]

(* One more place: the recursion has a solution for it too.                *)
LEMMA UnfoldsNext ==
  ASSUME NEW p, NEW V, NEW base \in V, NEW seq, NEW k \in Nat,
         \A v \in V : Op(p, v, seq[k + 1]) \in V,
         NEW h \in [SUBSET (1..k) -> V], Unfolds(h, k, p, base, seq)
  PROVE  \E g \in [SUBSET (1..(k + 1)) -> V] : Unfolds(g, k + 1, p, base, seq)
<1> DEFINE hh == [s \in SUBSET (1..(k + 1)) |->
                    IF k + 1 \in s THEN Op(p, h[s \ {k + 1}], seq[k + 1])
                                   ELSE h[s]]
           Eq(s) == hh[s] = IF s = {} THEN base
                            ELSE Op(p, hh[s \ {Max(s)}], seq[Max(s)])
<1>1. \A s \in SUBSET (1..k) : s \in SUBSET (1..(k + 1)) /\ k + 1 \notin s
  OBVIOUS
<1>2. \A s \in SUBSET (1..k) : hh[s] = h[s] /\ h[s] \in V
  BY <1>1
<1>3. ASSUME NEW s \in SUBSET (1..(k + 1)) PROVE hh[s] \in V /\ Eq(s)
  <2>1. CASE k + 1 \in s
    <3>1. Max(s) \in s /\ k + 1 <= Max(s) /\ Max(s) \in 1..(k + 1)
      <4>1. s \in SUBSET (0..(k + 1)) /\ s # {}
        BY <2>1
      <4> QED
        BY <2>1, <4>1, GreatestMember, k + 1 \in Nat
    <3>2. Max(s) = k + 1
      BY <3>1
    <3>3. s \ {k + 1} \in SUBSET (1..k)
      <4>1. \A x \in s \ {k + 1} : x \in 1..k
        OBVIOUS
      <4> QED
        BY <4>1
    <3>4. hh[s] = Op(p, h[s \ {k + 1}], seq[k + 1])
      BY <2>1
    <3>5. hh[s \ {k + 1}] = h[s \ {k + 1}] /\ h[s \ {k + 1}] \in V
      BY <1>2, <3>3
    <3> HIDE DEF hh
    <3> QED
      BY <2>1, <3>2, <3>4, <3>5
  <2>2. CASE k + 1 \notin s
    <3>1. s \in SUBSET (1..k) /\ s \ {Max(s)} \in SUBSET (1..k)
      <4>1. \A x \in s : x \in 1..k
        BY <2>2
      <4> QED
        BY <4>1
    <3>2. /\ hh[s] = h[s] /\ h[s] \in V
          /\ hh[s \ {Max(s)}] = h[s \ {Max(s)}]
      BY <1>2, <3>1
    <3>3. h[s] = IF s = {} THEN base
                 ELSE Op(p, h[s \ {Max(s)}], seq[Max(s)])
      BY <3>1 DEF Unfolds
    <3> HIDE DEF hh
    <3> QED
      BY <3>2, <3>3
  <2> QED
    BY <2>1, <2>2
<1>4. hh = [s \in SUBSET (1..(k + 1)) |-> hh[s]]
  OBVIOUS
<1> HIDE DEF hh
<1>5. hh \in [SUBSET (1..(k + 1)) -> V]
  BY <1>3, <1>4
<1>6. hh = [s \in SUBSET (1..(k + 1)) |->
              IF s = {} THEN base
              ELSE Op(p, hh[s \ {Max(s)}], seq[Max(s)])]
  BY <1>3, <1>4
<1>7. Unfolds(hh, k + 1, p, base, seq)
  BY <1>6 DEF Unfolds
<1> QED
  BY <1>5, <1>7

(* It has one over every interval.                                         *)
LEMMA UnfoldsExists ==
  ASSUME NEW p, NEW V, NEW base \in V, NEW seq, NEW n \in Nat,
         \A k \in 1..n : \A v \in V : Op(p, v, seq[k]) \in V
  PROVE  \E h \in [SUBSET (1..n) -> V] : Unfolds(h, n, p, base, seq)
<1> DEFINE S == {k \in Nat : \E h \in [SUBSET (1..k) -> V] :
                               Unfolds(h, k, p, base, seq)}
<1>1. 0 \in S
  <2> DEFINE h == [s \in SUBSET (1..0) |-> base]
  <2>1. h = [s \in SUBSET (1..0) |->
               IF s = {} THEN base ELSE Op(p, h[s \ {Max(s)}], seq[Max(s)])]
    <3>1. \A s \in SUBSET (1..0) : s = {}
      <4>1. 1..0 = {}
        OBVIOUS
      <4> QED
        BY <4>1
    <3> QED
      BY <3>1
  <2>2. h \in [SUBSET (1..0) -> V]
    OBVIOUS
  <2> HIDE DEF h
  <2>3. Unfolds(h, 0, p, base, seq)
    BY <2>1 DEF Unfolds
  <2> QED
    BY <2>2, <2>3
<1>2. ASSUME NEW k \in 0..(n - 1), k \in S PROVE k + 1 \in S
  <2>1. k \in Nat /\ k + 1 \in 1..n
    OBVIOUS
  <2>2. PICK h \in [SUBSET (1..k) -> V] : Unfolds(h, k, p, base, seq)
    BY <1>2
  <2>3. \E g \in [SUBSET (1..(k + 1)) -> V] : Unfolds(g, k + 1, p, base, seq)
    BY <2>1, <2>2, UnfoldsNext
  <2> QED
    BY <2>1, <2>3
<1>3. n \in S
  <2> HIDE DEF S
  <2>1. \A k \in 0..n : k \in S
    BY <1>1, <1>2, BoundedInduction
  <2> QED
    BY <2>1
<1> QED
  BY <1>3

FoldOf(p, base, seq) == FoldLeft(LAMBDA a, b : Op(p, a, b), base, seq)

(* From base, the step does not leave V.                                   *)
Stays(p, V, base, seq, n) ==
  /\ n \in Nat /\ DOMAIN seq = 1..n /\ base \in V
  /\ \A k \in 1..n : \A v \in V : Op(p, v, seq[k]) \in V

(* The values on the way, the last of them the fold.                       *)
Walks(g, p, V, base, seq, n) ==
  /\ g \in [0..n -> V]
  /\ g[0] = base
  /\ \A k \in 1..n : g[k] = Op(p, g[k - 1], seq[k])
  /\ FoldOf(p, base, seq) = g[n]

(* A fold from the left is the last of a sequence of values, each made by  *)
(* one step from the one before.                                           *)
THEOREM FoldLeftIs ==
  ASSUME NEW p, NEW V, NEW base, NEW seq, NEW n, Stays(p, V, base, seq, n)
  PROVE  \E g : Walks(g, p, V, base, seq, n)
<1> USE DEF Stays
<1> DEFINE it == CHOOSE h : Unfolds(h, n, p, base, seq)
<1>1. PICK h \in [SUBSET (1..n) -> V] : Unfolds(h, n, p, base, seq)
  BY UnfoldsExists
<1>2. Unfolds(it, n, p, base, seq)
  BY <1>1
<1>3. FoldOf(p, base, seq) = it[1..n]
  BY DEF FoldOf, FoldLeft, MapThenFoldSet, Unfolds
<1>4. \A s \in SUBSET (1..n) :
         it[s] = IF s = {} THEN base ELSE Op(p, it[s \ {Max(s)}], seq[Max(s)])
  <2> HIDE DEF it
  <2> QED
    BY <1>2 DEF Unfolds
<1> HIDE DEF it
<1> DEFINE g == [k \in 0..n |-> it[1..k]]
<1>5. g[0] = base
  <2>1. 1..0 = {} /\ {} \in SUBSET (1..n) /\ 0 \in 0..n
    OBVIOUS
  <2>2. it[{}] = base
    BY <1>4, <2>1
  <2> QED
    BY <2>1, <2>2
<1>6. ASSUME NEW k \in 1..n PROVE g[k] = Op(p, g[k - 1], seq[k])
  <2>1. 1..k \in SUBSET (1..n) /\ 1..k # {} /\ k \in Nat /\ k \in 1..k
    <3>1. \A x \in 1..k : x \in 1..n
      OBVIOUS
    <3> QED
      BY <3>1
  <2>2. Max(1..k) = k
    <3>1. Max(1..k) \in 1..k /\ k <= Max(1..k)
      BY <2>1, GreatestMember, 1..k \in SUBSET (0..k)
    <3> QED
      BY <2>1, <3>1
  <2>3. (1..k) \ {k} = 1..(k - 1) /\ k - 1 \in 0..n /\ k \in 0..n
    OBVIOUS
  <2>4. it[1..k] = Op(p, it[1..(k - 1)], seq[k])
    BY <1>4, <2>1, <2>2, <2>3
  <2> QED
    BY <2>3, <2>4
<1>7. g = [k \in 0..n |-> g[k]] /\ g[n] = it[1..n]
  OBVIOUS
<1> HIDE DEF g
<1>8. \A k \in 0..n : g[k] \in V
  <2> DEFINE G == {k \in 0..n : g[k] \in V}
  <2>1. 0 \in G
    BY <1>5
  <2>2. ASSUME NEW k \in 0..(n - 1), k \in G PROVE k + 1 \in G
    <3>1. k + 1 \in 1..n /\ g[k] \in V /\ (k + 1) - 1 = k /\ k + 1 \in 0..n
      BY <2>2
    <3>2. g[k + 1] = Op(p, g[(k + 1) - 1], seq[k + 1])
      BY <1>6, <3>1
    <3> QED
      BY <3>1, <3>2
  <2>3. \A k \in 0..n : k \in G
    <3> HIDE DEF G
    <3> QED
      BY <2>1, <2>2, BoundedInduction
  <2> QED
    BY <2>3
<1>9. g \in [0..n -> V]
  BY <1>7, <1>8
<1>10. FoldOf(p, base, seq) = g[n]
  BY <1>3, <1>7
<1> QED
  BY <1>5, <1>6, <1>9, <1>10 DEF Walks

-----------------------------------------------------------------------------
(* A function defined by recursion over 0..n.                              *)

Counted(p, base, n) ==
  LET f[k \in 0..n] == IF k = 0 THEN base ELSE Op(p, f[k - 1], k)
  IN  f

Counts(h, p, base, n) ==
  h = [k \in 0..n |-> IF k = 0 THEN base ELSE Op(p, h[k - 1], k)]

(* The step does not leave V up to n.                                      *)
Remains(p, V, base, n) ==
  /\ n \in Nat /\ base \in V
  /\ \A k \in 1..n : \A v \in V : Op(p, v, k) \in V

(* One more value.                                                         *)
LEMMA CountsNext ==
  ASSUME NEW p, NEW V, NEW base \in V, NEW k \in Nat,
         \A v \in V : Op(p, v, k + 1) \in V,
         NEW h \in [0..k -> V], Counts(h, p, base, k)
  PROVE  \E g \in [0..(k + 1) -> V] : Counts(g, p, base, k + 1)
<1> DEFINE hh == [j \in 0..(k + 1) |-> IF j = k + 1 THEN Op(p, h[k], k + 1)
                                                    ELSE h[j]]
<1>1. ASSUME NEW j \in 0..(k + 1)
      PROVE  hh[j] \in V /\ hh[j] = IF j = 0 THEN base ELSE Op(p, hh[j - 1], j)
  <2>1. CASE j = k + 1
    <3>1. hh[j] = Op(p, h[k], j) /\ hh[j - 1] = h[k] /\ h[k] \in V
      BY <2>1
    <3> HIDE DEF hh
    <3> QED
      BY <2>1, <3>1
  <2>2. CASE j \in 0..k
    <3>1. hh[j] = h[j] /\ h[j] \in V /\ (j # 0 => hh[j - 1] = h[j - 1])
      BY <2>2
    <3>2. h[j] = IF j = 0 THEN base ELSE Op(p, h[j - 1], j)
      BY <2>2 DEF Counts
    <3> HIDE DEF hh
    <3> QED
      BY <3>1, <3>2
  <2> QED
    BY <2>1, <2>2
<1>2. hh = [j \in 0..(k + 1) |-> hh[j]]
  OBVIOUS
<1> HIDE DEF hh
<1>3. hh \in [0..(k + 1) -> V]
  BY <1>1, <1>2
<1>4. hh = [j \in 0..(k + 1) |-> IF j = 0 THEN base ELSE Op(p, hh[j - 1], j)]
  BY <1>1, <1>2
<1>5. Counts(hh, p, base, k + 1)
  BY <1>4 DEF Counts
<1> QED
  BY <1>3, <1>5

(* The function its definition chooses is one that satisfies it.           *)
THEOREM CountedIs ==
  ASSUME NEW p, NEW V, NEW base, NEW n, Remains(p, V, base, n)
  PROVE  /\ Counted(p, base, n) \in [0..n -> V]
         /\ Counted(p, base, n)[0] = base
         /\ \A k \in 1..n :
              Counted(p, base, n)[k] = Op(p, Counted(p, base, n)[k - 1], k)
<1> USE DEF Remains
<1> DEFINE S == {k \in Nat : \E h \in [0..k -> V] : Counts(h, p, base, k)}
<1>1. 0 \in S
  <2> DEFINE h == [j \in 0..0 |-> base]
  <2>1. \A j \in 0..0 : j = 0
    OBVIOUS
  <2>2. /\ h \in [0..0 -> V]
        /\ h = [j \in 0..0 |-> IF j = 0 THEN base ELSE Op(p, h[j - 1], j)]
    BY <2>1
  <2> HIDE DEF h
  <2>3. Counts(h, p, base, 0)
    BY <2>2 DEF Counts
  <2> QED
    BY <2>2, <2>3
<1>2. ASSUME NEW k \in 0..(n - 1), k \in S PROVE k + 1 \in S
  <2>1. k \in Nat /\ k + 1 \in 1..n
    OBVIOUS
  <2>2. PICK h \in [0..k -> V] : Counts(h, p, base, k)
    BY <1>2
  <2>3. \E g \in [0..(k + 1) -> V] : Counts(g, p, base, k + 1)
    BY <2>1, <2>2, CountsNext
  <2> QED
    BY <2>1, <2>3
<1>3. n \in S
  <2> HIDE DEF S
  <2>1. \A k \in 0..n : k \in S
    BY <1>1, <1>2, BoundedInduction
  <2> QED
    BY <2>1
<1>4. PICK h \in [0..n -> V] : Counts(h, p, base, n)
  BY <1>3
<1> DEFINE f == Counted(p, base, n)
<1>5. f = CHOOSE g : Counts(g, p, base, n)
  BY DEF Counted, Counts
<1>6. Counts(f, p, base, n)
  <2> HIDE DEF f
  <2> QED
    BY <1>4, <1>5
<1> HIDE DEF f
<1>7. /\ f = [k \in 0..n |-> f[k]] /\ f[0] = base
      /\ \A k \in 1..n : f[k] = Op(p, f[k - 1], k)
  BY <1>6 DEF Counts
<1> DEFINE G == {k \in 0..n : f[k] \in V}
<1>8. 0 \in G
  BY <1>7
<1>9. ASSUME NEW k \in 0..(n - 1), k \in G PROVE k + 1 \in G
  <2>1. k + 1 \in 1..n /\ f[k] \in V /\ (k + 1) - 1 = k /\ k + 1 \in 0..n
    BY <1>9
  <2>2. f[k + 1] = Op(p, f[(k + 1) - 1], k + 1)
    BY <1>7, <2>1
  <2> QED
    BY <2>1, <2>2
<1>10. \A k \in 0..n : k \in G
  <2> HIDE DEF G
  <2> QED
    BY <1>8, <1>9, BoundedInduction
<1>11. f \in [0..n -> V]
  BY <1>7, <1>10
<1> QED
  BY <1>7, <1>11 DEF f
=============================================================================
