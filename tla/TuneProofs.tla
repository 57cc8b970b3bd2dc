----------------------------- MODULE TuneProofs -----------------------------
(***************************************************************************)
(* Every invariant of Tune, for every spec of any number of dimensions,    *)
(* values and constraints, every verdict of the gate, every draw of the    *)
(* generator and every sample a candidate may take.  The inductive         *)
(* invariant is Inv; what each property asks beyond it is a lemma of its   *)
(* own, and the theorems are at the end.                                   *)
(***************************************************************************)
EXTENDS Tune, ConstraintsProofs, StatsProofs, SequenceTheorems

-----------------------------------------------------------------------------
(* The odometer.                                                           *)

(* A spec whose dimensions are a sequence of sequences.                    *)
WellFormed(s) ==
  /\ Len(s.dims) \in Nat /\ Dims(s) = 1..Len(s.dims)
  /\ \A k \in Dims(s) : /\ Values(s, k) \in Seq(Int \cup Strings)
                        /\ Len(Values(s, k)) \in Nat
                        /\ DOMAIN Values(s, k) = 1..Len(Values(s, k))

(* The specs of the instance are.                                          *)
LEMMA SpecsAre ==
  ASSUME NEW s \in Listed \cup Tuned
  PROVE  s \in Specs
BY TuneAssumption DEF TuneAssumption

(* Their dimensions are sequences of sequences.                            *)
LEMMA SpecsAreWellFormed ==
  ASSUME NEW s \in Listed \cup Tuned
  PROVE  WellFormed(s)
<1> DEFINE V == {v \in Int : v <= MaxU} \cup Strings
           D == [name : STRING, values : Seq(V)]
<1>1. s.dims \in Seq(D)
  BY SpecsAre DEF Specs
<1>2. \A d \in D : d.values \in Seq(V)
  OBVIOUS
<1>3. \A w \in Seq(V) : w \in Seq(Int \cup Strings)
  <2> SUFFICES ASSUME NEW w \in Seq(V) PROVE w \in Seq(Int \cup Strings)
    OBVIOUS
  <2>1. V \in SUBSET (Int \cup Strings)
    OBVIOUS
  <2> HIDE DEF V
  <2>2. /\ Len(w) \in Nat /\ w = [k \in 1..Len(w) |-> w[k]]
        /\ \A k \in 1..Len(w) : w[k] \in V
    OBVIOUS
  <2>3. w \in [1..Len(w) -> Int \cup Strings]
    BY <2>1, <2>2
  <2> QED
    BY <2>2, <2>3
<1> HIDE DEF D, V
<1>4. \A k \in DOMAIN s.dims : s.dims[k].values \in Seq(Int \cup Strings)
  BY <1>1, <1>2, <1>3
<1> QED
  BY <1>1, <1>4 DEF WellFormed, Dims, Values

(* What it is to be an index vector.                                       *)
LEMMA IndicesAre ==
  ASSUME NEW s, WellFormed(s), NEW v \in Indices(s)
  PROVE  /\ v = [k \in Dims(s) |-> v[k]] /\ DOMAIN v = Dims(s)
         /\ \A k \in Dims(s) : /\ v[k] \in 1..Len(Values(s, k))
                               /\ Len(Values(s, k)) \in Nat
<1>1. /\ v \in [Dims(s) -> UNION {DOMAIN Values(s, k) : k \in Dims(s)}]
      /\ \A k \in Dims(s) : v[k] \in DOMAIN Values(s, k)
  BY DEF Indices
<1> QED
  BY <1>1 DEF WellFormed

(* And how to show that something is one.                                  *)
LEMMA IndicesMade ==
  ASSUME NEW s, WellFormed(s), NEW v, v = [k \in Dims(s) |-> v[k]],
         \A k \in Dims(s) : v[k] \in 1..Len(Values(s, k))
  PROVE  v \in Indices(s)
<1>1. \A k \in Dims(s) : v[k] \in DOMAIN Values(s, k)
  BY DEF WellFormed
<1>2. v \in [Dims(s) -> UNION {DOMAIN Values(s, k) : k \in Dims(s)}]
  BY <1>1
<1> QED
  BY <1>1, <1>2 DEF Indices

(* Of two different configurations one is before the other.                *)
LEMMA LexTotal ==
  ASSUME NEW s, WellFormed(s), NEW u \in Indices(s), NEW v \in Indices(s),
         u # v
  PROVE  LexLess(u, v) \/ LexLess(v, u)
<1> DEFINE T == {k \in Dims(s) : u[k] # v[k]}
<1>1. /\ u = [k \in Dims(s) |-> u[k]] /\ v = [k \in Dims(s) |-> v[k]]
      /\ DOMAIN u = Dims(s) /\ DOMAIN v = Dims(s)
      /\ \A k \in Dims(s) : u[k] \in Nat /\ v[k] \in Nat
  BY IndicesAre
<1>2. T # {}
  BY <1>1
<1>3. T \in SUBSET Nat /\ Dims(s) = 1..Len(s.dims) /\ Len(s.dims) \in Nat
  BY DEF WellFormed
<1>4. PICK k \in T : \A j \in T : k <= j
  BY <1>2, <1>3, Products!LeastMember
<1>5. \A j \in 1..(k - 1) : u[j] = v[j]
  <2> SUFFICES ASSUME NEW j \in 1..(k - 1) PROVE u[j] = v[j]
    OBVIOUS
  <2>1. j \in Dims(s) /\ ~(k <= j)
    BY <1>3
  <2> QED
    BY <2>1, <1>4
<1>6. u[k] < v[k] \/ v[k] < u[k]
  BY <1>1
<1> QED
  BY <1>1, <1>5, <1>6 DEF LexLess

(* After the last configuration there is none.                             *)
LEMMA LastIsGreatest ==
  ASSUME NEW s, WellFormed(s), NEW u \in Indices(s), NEW v \in Indices(s),
         IsLast(s, v), u # v
  PROVE  LexLess(u, v)
<1>1. \A k \in Dims(s) : u[k] \in 1..Len(Values(s, k)) /\ v[k] \in Nat
  BY IndicesAre
<1>2. \A k \in Dims(s) : ~(v[k] < u[k])
  BY <1>1, IndicesAre DEF IsLast, Turning
<1>3. DOMAIN u = Dims(s)
  BY IndicesAre
<1>4. ~LexLess(v, u)
  BY <1>2, <1>3 DEF LexLess
<1> QED
  BY <1>4, LexTotal

(* The wheel that turns is the last that can, and every one behind it      *)
(* stands at its end.                                                      *)
LEMMA TurnedIs ==
  ASSUME NEW s, WellFormed(s), NEW v \in Indices(s), ~IsLast(s, v)
  PROVE  \E p \in Dims(s) :
           /\ v[p] < Len(Values(s, p))
           /\ \A k \in Dims(s) : k > p => v[k] = Len(Values(s, k))
           /\ Turned(s, v) = [k \in Dims(s) |-> IF k < p THEN v[k]
                                                ELSE IF k = p THEN v[k] + 1
                                                ELSE 1]
<1> DEFINE T == Turning(s, v)
           p == CHOOSE k \in T : \A j \in T : j <= k
<1>1. T \in SUBSET (1..Len(s.dims)) /\ T # {} /\ Len(s.dims) \in Nat
  BY DEF WellFormed, Turning, IsLast
<1>2. \E k \in T : \A j \in T : j <= k
  <2>1. T \in SUBSET (0..Len(s.dims))
    BY <1>1
  <2> HIDE DEF T
  <2> QED
    BY <1>1, <2>1, Products!GreatestMember
<1>3. p \in T /\ \A j \in T : j <= p
  BY <1>2
<1>4. p \in Dims(s) /\ v[p] < Len(Values(s, p))
  BY <1>3 DEF Turning
<1>5. ASSUME NEW k \in Dims(s), k > p PROVE v[k] = Len(Values(s, k))
  <2>1. k \notin T
    BY <1>1, <1>3, <1>5, Dims(s) = 1..Len(s.dims) DEF WellFormed
  <2>2. ~(v[k] < Len(Values(s, k)))
    BY <2>1 DEF Turning
  <2> QED
    BY <2>2, IndicesAre
<1>6. Turned(s, v) = [k \in Dims(s) |-> IF k < p THEN v[k]
                                        ELSE IF k = p THEN v[k] + 1 ELSE 1]
  BY DEF Turned
<1> QED
  BY <1>4, <1>5, <1>6

(* The turned odometer stands on a configuration.                          *)
LEMMA TurnedIsIndices ==
  ASSUME NEW s, WellFormed(s), NEW v \in Indices(s), ~IsLast(s, v)
  PROVE  Turned(s, v) \in Indices(s)
<1>1. PICK p \in Dims(s) :
        /\ v[p] < Len(Values(s, p))
        /\ \A k \in Dims(s) : k > p => v[k] = Len(Values(s, k))
        /\ Turned(s, v) = [k \in Dims(s) |-> IF k < p THEN v[k]
                                             ELSE IF k = p THEN v[k] + 1
                                             ELSE 1]
  BY TurnedIs
<1> DEFINE w == Turned(s, v)
<1>2. w = [k \in Dims(s) |-> w[k]]
  BY <1>1
<1>3. ASSUME NEW k \in Dims(s) PROVE w[k] \in 1..Len(Values(s, k))
  <2>1. v[k] \in 1..Len(Values(s, k)) /\ Len(Values(s, k)) \in Nat
    BY IndicesAre
  <2>2. w[k] = IF k < p THEN v[k] ELSE IF k = p THEN v[k] + 1 ELSE 1
    BY <1>1
  <2> QED
    BY <1>1, <2>1, <2>2
<1> HIDE DEF w
<1> QED
  BY <1>2, <1>3, IndicesMade DEF w

(* Between a configuration and the turned one there is none: what is before *)
(* the turned one is what was before, and the configuration itself.        *)
LEMMA TurnedIsNext ==
  ASSUME NEW s, WellFormed(s), NEW v \in Indices(s), ~IsLast(s, v),
         NEW u \in Indices(s)
  PROVE  LexLess(u, Turned(s, v)) <=> LexLess(u, v) \/ u = v
<1>1. PICK p \in Dims(s) :
        /\ v[p] < Len(Values(s, p))
        /\ \A k \in Dims(s) : k > p => v[k] = Len(Values(s, k))
        /\ Turned(s, v) = [k \in Dims(s) |-> IF k < p THEN v[k]
                                             ELSE IF k = p THEN v[k] + 1
                                             ELSE 1]
  BY TurnedIs
<1> DEFINE w == Turned(s, v)
<1>2. /\ DOMAIN w = Dims(s) /\ DOMAIN u = Dims(s) /\ DOMAIN v = Dims(s)
      /\ \A k \in Dims(s) :
           w[k] = IF k < p THEN v[k] ELSE IF k = p THEN v[k] + 1 ELSE 1
  BY <1>1, IndicesAre
<1>3. \A k \in Dims(s) : /\ u[k] \in Nat /\ u[k] >= 1
                         /\ v[k] \in Nat /\ v[k] >= 1
                         /\ u[k] <= Len(Values(s, k))
                         /\ Len(Values(s, k)) \in Nat
  BY IndicesAre
<1>4. /\ Dims(s) = 1..Len(s.dims) /\ Len(s.dims) \in Nat /\ p \in Nat
      /\ \A k \in Dims(s) : \A j \in 1..(k - 1) : j \in Dims(s)
  BY DEF WellFormed
<1> HIDE DEF w
<1>5. ASSUME LexLess(u, w) PROVE LexLess(u, v) \/ u = v
  <2>1. PICK k \in Dims(s) : u[k] < w[k] /\ \A j \in 1..(k - 1) : u[j] = w[j]
    BY <1>2, <1>5 DEF LexLess
  <2>2. CASE k < p
    <3>1. w[k] = v[k] /\ \A j \in 1..(k - 1) : w[j] = v[j]
      BY <1>2, <1>4, <2>2
    <3> QED
      BY <1>2, <2>1, <3>1 DEF LexLess
  <2>3. CASE k > p
    <3>1. w[k] = 1
      BY <1>2, <1>4, <2>3
    <3> QED
      BY <1>3, <2>1, <3>1
  <2>4. CASE k = p
    <3>1. w[p] = v[p] + 1 /\ \A j \in 1..(p - 1) : w[j] = v[j]
      BY <1>2, <1>4
    <3>2. u[p] <= v[p] /\ \A j \in 1..(p - 1) : u[j] = v[j]
      BY <1>3, <2>1, <2>4, <3>1
    <3>3. ASSUME u # v, u[p] = v[p] PROVE ~LexLess(v, u)
      <4> SUFFICES ASSUME NEW k2 \in Dims(s), v[k2] < u[k2] PROVE FALSE
        BY <1>2 DEF LexLess
      <4>1. CASE k2 > p
        BY <1>1, <1>3, <4>1
      <4>2. CASE k2 <= p
        <5>1. k2 \in Nat /\ k2 >= 1 /\ u[k2] \in Nat /\ v[k2] \in Nat
          BY <1>3, <1>4
        <5>2. u[k2] = v[k2]
          BY <1>4, <3>2, <3>3, <4>2, <5>1
        <5> QED
          BY <5>1, <5>2
      <4> QED
        BY <4>1, <4>2, <1>4
    <3>4. CASE u[p] < v[p]
      BY <1>2, <3>2, <3>4 DEF LexLess
    <3>5. CASE u[p] = v[p]
      BY <3>3, <3>5, LexTotal
    <3> QED
      BY <1>3, <3>2, <3>4, <3>5
  <2> QED
    BY <1>4, <2>2, <2>3, <2>4
<1>6. ASSUME LexLess(u, v) \/ u = v PROVE LexLess(u, w)
  <2>1. /\ w[p] = v[p] + 1 /\ v[p] < w[p]
        /\ \A j \in 1..(p - 1) : w[j] = v[j]
    BY <1>2, <1>3, <1>4
  <2>2. CASE u = v
    BY <1>2, <2>1, <2>2 DEF LexLess
  <2>3. CASE LexLess(u, v)
    <3>1. PICK k \in Dims(s) : u[k] < v[k] /\ \A j \in 1..(k - 1) : u[j] = v[j]
      BY <1>2, <2>3 DEF LexLess
    <3>2. CASE k < p
      <4>1. w[k] = v[k] /\ \A j \in 1..(k - 1) : w[j] = v[j]
        BY <1>2, <1>4, <3>2
      <4> QED
        BY <1>2, <3>1, <4>1 DEF LexLess
    <3>3. CASE k >= p
      <4>1. u[p] < w[p] /\ \A j \in 1..(p - 1) : u[j] = w[j]
        BY <1>3, <1>4, <2>1, <3>1, <3>3
      <4> QED
        BY <1>2, <4>1 DEF LexLess
    <3> QED
      BY <1>4, <3>2, <3>3
  <2> QED
    BY <1>6, <2>2, <2>3
<1> QED
  BY <1>5, <1>6 DEF w

-----------------------------------------------------------------------------
(* The enumeration.                                                        *)

(* What the enumeration rests on: while it runs the odometer stands on a   *)
(* configuration of a well-formed spec, and what is kept are the           *)
(* configurations it has passed that satisfy the constraints.              *)
EnumerationInv ==
  /\ spec \in Listed \cup Tuned
  /\ phase = "load" => space = <<>>
  /\ phase \in {"enumerate", "uncomputable"} => indices \in Indices(spec)
  /\ space \in Seq(Indices(spec))
  /\ EnumerationIsComplete

(* The odometer starts before every configuration.                         *)
LEMMA FirstIsLeast ==
  ASSUME NEW s, WellFormed(s), Parses(s)
  PROVE  First(s) \in Indices(s) /\ \A u \in Indices(s) : ~LexLess(u, First(s))
<1>1. ASSUME NEW k \in Dims(s) PROVE 1 \in 1..Len(Values(s, k))
  <2>1. /\ Values(s, k) \in Seq(Int \cup Strings) /\ Len(Values(s, k)) \in Nat
        /\ Values(s, k) # <<>>
    BY DEF WellFormed, Parses
  <2>2. Len(Values(s, k)) # 0
    BY <2>1, EmptySeq
  <2> QED
    BY <2>1, <2>2
<1>2. First(s) = [k \in Dims(s) |-> 1]
  BY DEF First
<1>3. First(s) \in Indices(s)
  BY <1>1, <1>2, IndicesMade
<1>4. ASSUME NEW u \in Indices(s), LexLess(u, First(s)) PROVE FALSE
  <2>1. PICK k \in Dims(s) : u[k] < First(s)[k]
    BY <1>2, <1>4 DEF LexLess
  <2>2. u[k] \in Nat /\ u[k] >= 1
    BY IndicesAre
  <2> QED
    BY <1>2, <2>1, <2>2
<1> QED
  BY <1>3, <1>4

(* One more configuration after those that are kept.                       *)
LEMMA AppendKeepsOrder ==
  ASSUME NEW S, NEW v \in S, NEW kept \in Seq(S),
         \A u \in ToSet(kept) : LexLess(u, v),
         \A i, j \in DOMAIN kept : i < j => LexLess(kept[i], kept[j])
  PROVE  /\ Append(kept, v) \in Seq(S)
         /\ ToSet(Append(kept, v)) = ToSet(kept) \cup {v}
         /\ \A i, j \in DOMAIN Append(kept, v) :
              i < j => LexLess(Append(kept, v)[i], Append(kept, v)[j])
<1> DEFINE next == Append(kept, v)
<1>1. next = Append(kept, v) /\ Len(kept) \in Nat
  OBVIOUS
<1>2. /\ next \in Seq(S) /\ DOMAIN next = 1..(Len(kept) + 1)
      /\ \A i \in 1..Len(kept) : next[i] = kept[i]
      /\ next[Len(kept) + 1] = v /\ DOMAIN kept = 1..Len(kept)
  BY <1>1
<1> HIDE DEF next
<1>3. ToSet(next) = ToSet(kept) \cup {v}
  <2>1. ToSet(next) = {next[i] : i \in DOMAIN next}
    BY DEF ToSet
  <2>2. ToSet(kept) = {kept[i] : i \in DOMAIN kept}
    BY DEF ToSet
  <2>3. ASSUME NEW x \in ToSet(next) PROVE x \in ToSet(kept) \cup {v}
    <3>1. PICK i \in 1..(Len(kept) + 1) : x = next[i]
      BY <2>1, <1>2
    <3>2. i = Len(kept) + 1 \/ i \in 1..Len(kept)
      BY <1>1
    <3> QED
      BY <2>2, <3>1, <3>2, <1>2
  <2>4. ASSUME NEW x \in ToSet(kept) \cup {v} PROVE x \in ToSet(next)
    <3>1. CASE x = v
      BY <3>1, <2>1, <1>1, <1>2, Len(kept) + 1 \in 1..(Len(kept) + 1)
    <3>2. CASE x \in ToSet(kept)
      <4>1. PICK i \in 1..Len(kept) : x = kept[i]
        BY <2>2, <3>2, <1>2
      <4>2. i \in DOMAIN next /\ next[i] = x
        BY <4>1, <1>1, <1>2
      <4> QED
        BY <2>1, <4>2
    <3> QED
      BY <3>1, <3>2, <2>4
  <2> QED
    BY <2>3, <2>4
<1>4. ASSUME NEW i \in DOMAIN next, NEW j \in DOMAIN next, i < j
      PROVE  LexLess(next[i], next[j])
  <2>1. i \in 1..Len(kept) /\ i \in DOMAIN kept
    BY <1>1, <1>2, <1>4
  <2>2. CASE j = Len(kept) + 1
    <3>1. kept[i] \in ToSet(kept)
      BY <2>1 DEF ToSet
    <3> QED
      BY <1>2, <2>1, <2>2, <3>1
  <2>3. CASE j \in 1..Len(kept)
    BY <1>2, <1>4, <2>1, <2>3
  <2> QED
    BY <1>1, <1>2, <1>4, <2>2, <2>3
<1> QED
  BY <1>2, <1>3, <1>4 DEF next

(* It holds before anything is parsed.                                     *)
LEMMA EnumerationInit == Init => EnumerationInv
<1> SUFFICES ASSUME Init PROVE EnumerationInv
  OBVIOUS
<1>1. ~InSpace /\ phase = "load" /\ space = <<>> /\ spec \in Listed \cup Tuned
  BY DEF Init, InSpace
<1> QED
  BY <1>1 DEF EnumerationInv, EnumerationIsComplete

(* A step of the enumeration keeps the configuration the odometer stands on *)
(* or not and turns it, or ends the enumeration at the last.               *)
LEMMA VisitKeepsEnumeration ==
  ASSUME EnumerationInv, Visit
  PROVE  EnumerationInv'
<1> DEFINE done == {u \in Indices(spec) : LexLess(u, indices)}
<1>1. /\ spec \in Listed \cup Tuned /\ spec' = spec /\ WellFormed(spec)
      /\ phase = "enumerate" /\ InSpace
      /\ indices \in Indices(spec) /\ space \in Seq(Indices(spec))
  BY SpecsAreWellFormed DEF EnumerationInv, Visit, InSpace
<1>2. /\ Visited = done
      /\ ToSet(space) = {u \in done : Kept(spec, u)}
      /\ \A i, j \in DOMAIN space : i < j => LexLess(space[i], space[j])
  BY <1>1 DEF EnumerationInv, EnumerationIsComplete, Visited
<1>3. CASE ~AllCompute(spec, indices)
  <2>1. phase' = "uncomputable" /\ space' = space /\ indices' = indices
    BY <1>3 DEF Visit
  <2>2. Visited' = done
    BY <1>1, <2>1 DEF Visited
  <2> QED
    BY <1>1, <1>2, <2>1, <2>2 DEF EnumerationInv, EnumerationIsComplete
<1>4. CASE AllCompute(spec, indices)
  <2> DEFINE done2 == done \cup {indices}
  <2>1. space' = IF Kept(spec, indices) THEN Append(space, indices) ELSE space
    BY <1>4 DEF Visit
  <2>2. /\ space' \in Seq(Indices(spec))
        /\ ToSet(space') = {u \in done2 : Kept(spec, u)}
        /\ \A i, j \in DOMAIN space' : i < j => LexLess(space'[i], space'[j])
    <3>1. CASE Kept(spec, indices)
      <4>1. \A u \in ToSet(space) : LexLess(u, indices)
        BY <1>2
      <4>2. /\ Append(space, indices) \in Seq(Indices(spec))
            /\ ToSet(Append(space, indices)) = ToSet(space) \cup {indices}
            /\ \A i, j \in DOMAIN Append(space, indices) :
                 i < j => LexLess(Append(space, indices)[i],
                                  Append(space, indices)[j])
        BY <1>1, <1>2, <4>1, AppendKeepsOrder
      <4> QED
        BY <1>2, <2>1, <3>1, <4>2
    <3>2. CASE ~Kept(spec, indices)
      BY <1>1, <1>2, <2>1, <3>2
    <3> QED
      BY <3>1, <3>2
  <2>3. /\ Visited' = done2 /\ phase' # "load"
        /\ phase' \in {"enumerate", "uncomputable"} => indices' \in Indices(spec)
    <3>1. CASE IsLast(spec, indices)
      <4>1. phase' \in {"listed", "gate"} /\ indices' = indices
        BY <1>4, <3>1 DEF Visit
      <4>2. Visited' = Indices(spec)
        BY <1>1, <4>1 DEF Visited
      <4>3. Indices(spec) = done2
        BY <1>1, <3>1, LastIsGreatest
      <4> QED
        BY <4>1, <4>2, <4>3
    <3>2. CASE ~IsLast(spec, indices)
      <4>1. phase' = "enumerate" /\ indices' = Turned(spec, indices)
        BY <1>1, <1>4, <3>2 DEF Visit
      <4>2. Visited' = {u \in Indices(spec) : LexLess(u, indices')}
        BY <1>1, <4>1 DEF Visited
      <4>3. {u \in Indices(spec) : LexLess(u, indices')} = done2
        BY <1>1, <3>2, <4>1, TurnedIsNext
      <4> QED
        BY <1>1, <3>2, <4>1, <4>2, <4>3, TurnedIsIndices
    <3> QED
      BY <3>1, <3>2
  <2> QED
    BY <1>1, <2>2, <2>3 DEF EnumerationInv, EnumerationIsComplete
<1> QED
  BY <1>3, <1>4

(* No other step touches the space; those that start or leave it do so     *)
(* with nothing kept yet, or with the space complete.                      *)
LEMMA NextKeepsEnumeration ==
  ASSUME EnumerationInv, [Next]_vars
  PROVE  EnumerationInv'
<1>1. spec \in Listed \cup Tuned /\ WellFormed(spec)
  BY SpecsAreWellFormed DEF EnumerationInv
<1>2. CASE Load
  <2>1. phase = "load" /\ space = <<>> /\ space' = <<>> /\ spec' = spec
    BY <1>2 DEF Load, EnumerationInv
  <2>2. CASE ~Parses(spec)
    <3>1. phase' = "refused" /\ ~InSpace'
      BY <1>2, <2>2 DEF Load, InSpace
    <3> QED
      BY <1>1, <2>1, <3>1 DEF EnumerationInv, EnumerationIsComplete
  <2>3. CASE Parses(spec)
    <3>1. phase' = "enumerate" /\ indices' = First(spec)
      BY <1>2, <2>3 DEF Load
    <3>2. Visited' = {} /\ indices' \in Indices(spec)
      BY <1>1, <2>1, <2>3, <3>1, FirstIsLeast DEF Visited
    <3>3. ToSet(<<>>) = {}
      BY DEF ToSet
    <3> QED
      BY <1>1, <2>1, <3>1, <3>2, <3>3 DEF EnumerationInv, EnumerationIsComplete
  <2> QED
    BY <2>2, <2>3
<1>3. CASE Visit
  BY <1>3, VisitKeepsEnumeration
<1>4. ASSUME NEW allow \in BOOLEAN, Plan(allow) PROVE EnumerationInv'
  <2>1. /\ phase' \in {"failed", "measure", "shuffle"} /\ ~InSpace'
        /\ space' = space /\ spec' = spec
    BY <1>4 DEF Plan, InSpace
  <2> QED
    BY <1>1, <2>1 DEF EnumerationInv, EnumerationIsComplete
<1>5. ASSUME \/ Shuffle \/ Measure \/ Measured \/ ReadFails \/ Open
             \/ ScrollDown \/ ScrollUp \/ Quit \/ EstimateFails \/ Estimate
             \/ Correlate \/ \E v \in Views : Select(v)
      PROVE  EnumerationInv'
  <2>1. /\ phase' \notin {"load", "enumerate", "uncomputable", "listed", "gate"}
        /\ space' = space /\ spec' = spec
    BY <1>5 DEF Shuffle, Measure, Measured, ReadFails, Open, ScrollDown,
                ScrollUp, Quit, EstimateFails, Estimate, Correlate, Select
  <2>2. ~InSpace'
    BY <2>1 DEF InSpace
  <2> QED
    BY <1>1, <2>1, <2>2 DEF EnumerationInv, EnumerationIsComplete
<1>6. CASE UNCHANGED vars
  BY <1>6 DEF vars, EnumerationInv, EnumerationIsComplete, InSpace, Visited
<1> QED
  BY <1>2, <1>3, <1>4, <1>5, <1>6 DEF Next

-----------------------------------------------------------------------------
(* The order.                                                              *)

(* An arrangement of 1..n.                                                 *)
Permutes(f, n) ==
  /\ n \in Nat /\ f \in [1..n -> 1..n]
  /\ IsInjective(f) /\ ToSet(f) = 1..n

(* What the order rests on: it arranges the candidates, the shuffle stays  *)
(* within it, nothing is measured before it is done, and then the next to  *)
(* be measured is the one after the last that was.                         *)
OrderInv ==
  /\ Len(cands) \in Nat /\ DOMAIN cands = 1..Len(cands)
  /\ Permutes(order, Len(cands))
  /\ rows \in Seq(ToSet(rows)) /\ Len(rows) <= Len(order)
  /\ \A k \in DOMAIN rows : rows[k].id = cands[order[k]].id
  /\ phase \in {"load", "enumerate", "gate", "shuffle"} => rows = <<>>
  /\ phase = "shuffle" => at \in 0..Len(order)
  /\ phase = "measure" => at = Len(rows) + 1

(* An arrangement is as long as what it arranges.                          *)
LEMMA PermutesIs ==
  ASSUME NEW f, NEW n, Permutes(f, n)
  PROVE  n \in Nat /\ DOMAIN f = 1..n /\ Len(f) = n /\ f \in Seq(1..n)
  BY DEF Permutes

(* The order of the plan is one.                                           *)
LEMMA IdentityPermutes ==
  ASSUME NEW n \in Nat
  PROVE  Permutes(Identity(n), n)
<1> DEFINE f == Identity(n)
<1>1. f = [k \in 1..n |-> k]
  BY DEF Identity
<1>2. f \in [1..n -> 1..n] /\ \A k \in 1..n : f[k] = k
  BY <1>1
<1>3. IsInjective(f)
  BY <1>1, <1>2 DEF IsInjective
<1>4. ToSet(f) = 1..n
  BY <1>1 DEF ToSet
<1> QED
  BY <1>2, <1>3, <1>4 DEF Permutes

(* Swapping two of its places gives another.                               *)
LEMMA SwappedPermutes ==
  ASSUME NEW f, NEW n, Permutes(f, n), NEW i \in 1..n, NEW j \in 1..n
  PROVE  Permutes(Swapped(f, i, j), n)
<1> DEFINE g == Swapped(f, i, j)
           other(k) == IF k = j THEN i ELSE IF k = i THEN j ELSE k
<1>1. f \in [1..n -> 1..n] /\ n \in Nat
  BY DEF Permutes
<1>2. g \in [1..n -> 1..n] /\ \A k \in 1..n : g[k] = f[other(k)]
  BY <1>1 DEF Swapped
<1>3. \A k \in 1..n : other(k) \in 1..n /\ other(other(k)) = k
  OBVIOUS
<1> HIDE DEF g, other
<1>4. IsInjective(g)
  <2>1. \A a, b \in 1..n : f[a] = f[b] => a = b
    BY <1>1 DEF Permutes, IsInjective
  <2>2. \A a, b \in 1..n : g[a] = g[b] => a = b
    <3> SUFFICES ASSUME NEW a \in 1..n, NEW b \in 1..n, g[a] = g[b]
                 PROVE  a = b
      OBVIOUS
    <3>1. other(a) = other(b)
      BY <1>2, <1>3, <2>1
    <3> QED
      BY <1>3, <3>1
  <2> QED
    BY <1>2, <2>2 DEF IsInjective
<1>5. ToSet(g) = 1..n
  <2>1. \A y \in 1..n : \E a \in 1..n : f[a] = y
    BY <1>1 DEF Permutes, ToSet
  <2>2. ASSUME NEW y \in 1..n PROVE \E a \in 1..n : g[a] = y
    <3>1. PICK a \in 1..n : f[a] = y
      BY <2>1
    <3>2. other(a) \in 1..n /\ g[other(a)] = y
      BY <1>2, <1>3, <3>1
    <3> QED
      BY <3>2
  <2> QED
    BY <1>2, <2>2 DEF ToSet
<1> QED
  BY <1>1, <1>2, <1>4, <1>5 DEF Permutes, g

(* It holds before anything is planned.                                    *)
LEMMA OrderInit == Init => OrderInv
<1> SUFFICES ASSUME Init PROVE OrderInv
  OBVIOUS
<1>1. cands = <<>> /\ order = <<>> /\ rows = <<>> /\ phase = "load"
  BY DEF Init
<1>2. Identity(0) = <<>>
  BY DEF Identity
<1>3. Permutes(<<>>, 0)
  BY <1>2, IdentityPermutes
<1> QED
  BY <1>1, <1>3 DEF OrderInv, ToSet

(* What the plan takes, and the ids of its candidates.                     *)
Taken(allow) ==
  {k \in DOMAIN space : verdict'[k] # "disqualified" \/ allow}

(* They are configurations of the space, each once.                        *)
LEMMA TakenIs ==
  ASSUME NEW allow \in BOOLEAN, space \in Seq(Indices(spec))
  PROVE  LET T == Taken(allow)
             n == Cardinality(T)
             id == Ascending(T)
         IN  /\ n \in Nat /\ id \in [1..n -> T] /\ T \in SUBSET DOMAIN space
             /\ \A p, q \in 1..n : id[p] = id[q] => p = q
<1> DEFINE T == Taken(allow)
           R == {p \in T \X T : p[1] < p[2]}
           n == Cardinality(T)
<1>1. /\ T \in SUBSET DOMAIN space /\ DOMAIN space = 1..Len(space)
      /\ Len(space) \in Nat
  BY DEF Taken
<1>2. IsFiniteSet(T)
  <2>1. IsFiniteSet(1..Len(space))
    BY <1>1, FS_Interval
  <2> QED
    BY <1>1, <2>1, FS_Subset
<1>3. \A x, y \in T : <<x, y>> \in R <=> x < y
  OBVIOUS
<1>4. \A x \in T : x \in Nat
  BY <1>1
<1>5. Orders(T, R)
  <2> HIDE DEF R, T
  <2> QED
    BY <1>2, <1>3, <1>4 DEF Orders
<1>6. Lists(Ascending(T), T, R)
  BY <1>5, SortedLists DEF Ascending
<1> HIDE DEF T, R
<1> QED
  BY <1>1, <1>6 DEF Lists, T

(* The plan sets the candidates and their order; what resolves to no       *)
(* launch leaves both as they were.                                        *)
LEMMA PlanKeepsOrder ==
  ASSUME OrderInv, space \in Seq(Indices(spec)), NEW allow \in BOOLEAN,
         Plan(allow)
  PROVE  OrderInv'
<1> DEFINE n == Cardinality(Taken(allow))
           id == Ascending(Taken(allow))
<1>1. phase = "gate" /\ rows = <<>> /\ rows' = <<>> /\ n \in Nat
  BY TakenIs DEF Plan, OrderInv
<1>2. CASE phase' = "failed" /\ UNCHANGED <<cands, order, at>>
  BY <1>1, <1>2 DEF OrderInv
<1>3. CASE /\ cands' = [p \in 1..n |-> Candidate(spec, id[p], space[id[p]])]
           /\ order' = Identity(n)
           /\ \/ phase' = "measure" /\ at' = 1
              \/ /\ command = "tune"
                 /\ phase' = "shuffle" /\ at' = n
  <2>1. DOMAIN cands' = 1..n /\ Len(cands') = n
    BY <1>1, <1>3
  <2>2. Permutes(order', n) /\ Len(order') = n
    BY <1>1, <1>3, IdentityPermutes, PermutesIs
  <2>3. ToSet(<<>>) = {} /\ Len(<<>>) = 0 /\ DOMAIN <<>> = {}
    BY DEF ToSet
  <2>4. /\ phase' = "shuffle" => at' \in 0..n
        /\ phase' = "measure" => at' = 1
    BY <1>1, <1>3
  <2> HIDE DEF n
  <2> QED
    BY <1>1, <2>1, <2>2, <2>3, <2>4 DEF OrderInv
<1> QED
  BY <1>2, <1>3 DEF Plan, Taken

(* A measurement adds the row of the next in the order.                    *)
LEMMA MeasureKeepsOrder ==
  ASSUME OrderInv, Measure
  PROVE  OrderInv'
<1>1. /\ phase = "measure" /\ phase' = "measure" /\ at = Len(rows) + 1
      /\ at <= Len(order) /\ at' = at + 1
      /\ cands' = cands /\ order' = order
      /\ rows \in Seq(ToSet(rows)) /\ Len(rows) \in Nat
  BY DEF OrderInv, Measure
<1>2. PICK row : rows' = Append(rows, row) /\ row.id = cands[order[at]].id
  <2> DEFINE good(times) == [id |-> cands[order[at]].id, status |-> "ok",
                             times |-> times, summary |-> Summarize(times)]
             bad == [id |-> cands[order[at]].id, status |-> "error",
                     times |-> <<>>, summary |-> NoSummary]
  <2>1. \/ \E times \in Samples[spec.repeats] : rows' = Append(rows, good(times))
        \/ rows' = Append(rows, bad)
    BY DEF Measure
  <2>2. /\ \A times : good(times).id = cands[order[at]].id
        /\ bad.id = cands[order[at]].id
    OBVIOUS
  <2> HIDE DEF good, bad
  <2> QED
    BY <2>1, <2>2
<1>3. /\ DOMAIN rows' = 1..(Len(rows) + 1) /\ Len(rows') = Len(rows) + 1
      /\ \A k \in 1..Len(rows) : rows'[k] = rows[k] /\ k \in DOMAIN rows
      /\ rows'[Len(rows) + 1] = row
      /\ rows' \in Seq(ToSet(rows) \cup {row})
  BY <1>1, <1>2
<1>4. rows' \in Seq(ToSet(rows'))
  <2>1. \A k \in 1..Len(rows') : rows'[k] \in ToSet(rows')
    BY <1>3 DEF ToSet
  <2> QED
    BY <1>3, <2>1
<1>5. \A k \in DOMAIN rows' : rows'[k].id = cands[order[k]].id
  <2> SUFFICES ASSUME NEW k \in 1..(Len(rows) + 1)
               PROVE  rows'[k].id = cands[order[k]].id
    BY <1>3
  <2>1. CASE k = Len(rows) + 1
    BY <1>1, <1>2, <1>3, <2>1
  <2>2. CASE k \in 1..Len(rows)
    BY <1>3, <2>2 DEF OrderInv
  <2> QED
    BY <1>1, <2>1, <2>2
<1> QED
  BY <1>1, <1>3, <1>4, <1>5 DEF OrderInv

(* Every step keeps the order and what follows it.                         *)
LEMMA NextKeepsOrder ==
  ASSUME OrderInv, space \in Seq(Indices(spec)), [Next]_vars
  PROVE  OrderInv'
<1>1. Len(order) = Len(cands) /\ Len(cands) \in Nat
  BY PermutesIs DEF OrderInv
<1>2. ASSUME NEW allow \in BOOLEAN, Plan(allow) PROVE OrderInv'
  BY <1>2, PlanKeepsOrder
<1>3. CASE Shuffle
  <2>1. /\ phase = "shuffle" /\ rows = <<>> /\ at \in 0..Len(order)
        /\ rows' = rows /\ cands' = cands
    BY <1>3 DEF Shuffle, OrderInv
  <2>2. CASE at > 1
    <3>1. PICK j \in 1..at : order' = Swapped(order, at, j)
      BY <1>3, <2>2 DEF Shuffle
    <3>2. Permutes(order', Len(cands)) /\ Len(order') = Len(cands)
      <4>1. at \in 1..Len(cands) /\ j \in 1..Len(cands)
        BY <1>1, <2>1, <2>2
      <4>2. Permutes(order, Len(cands))
        BY DEF OrderInv
      <4>3. Permutes(order', Len(cands))
        BY <3>1, <4>1, <4>2, SwappedPermutes
      <4> QED
        BY <4>3, PermutesIs
    <3>3. at' = at - 1 /\ phase' = phase
      BY <1>3, <2>2 DEF Shuffle
    <3>4. /\ rows' = <<>> /\ DOMAIN rows' = {} /\ Len(rows') = 0
          /\ rows' \in Seq(ToSet(rows'))
      BY <2>1
    <3>5. at' \in 0..Len(order')
      BY <1>1, <2>1, <2>2, <3>2, <3>3
    <3> QED
      BY <1>1, <2>1, <3>2, <3>3, <3>4, <3>5 DEF OrderInv
  <2>3. CASE ~(at > 1)
    <3>1. phase' = "measure" /\ at' = 1 /\ order' = order /\ Len(<<>>) = 0
      BY <1>3, <2>3 DEF Shuffle
    <3> QED
      BY <1>1, <2>1, <3>1 DEF OrderInv
  <2> QED
    BY <2>2, <2>3
<1>4. CASE Measure
  BY <1>4, MeasureKeepsOrder
<1>5. ASSUME \/ Load \/ Visit
      PROVE  OrderInv'
  <2>1. /\ UNCHANGED <<cands, order, at, rows>>
        /\ phase \in {"load", "enumerate"}
        /\ phase' \in {"refused", "enumerate", "uncomputable", "listed", "gate"}
    BY <1>5 DEF Load, Visit
  <2> QED
    BY <2>1 DEF OrderInv
<1>6. ASSUME \/ Measured \/ ReadFails \/ Open \/ ScrollDown \/ ScrollUp
             \/ Quit \/ EstimateFails \/ Estimate \/ Correlate
             \/ \E v \in Views : Select(v)
      PROVE  OrderInv'
  <2>1. /\ UNCHANGED <<cands, order, at, rows>>
        /\ phase' \in {"measured", "unreadable", "browse", "quit",
                        "estimated", "failed", "modelled"}
    BY <1>6 DEF Measured, ReadFails, Open, ScrollDown, ScrollUp, Quit,
                EstimateFails, Estimate, Correlate, Select
  <2> QED
    BY <2>1 DEF OrderInv
<1>7. CASE UNCHANGED vars
  BY <1>7 DEF vars, OrderInv
<1> QED
  BY <1>2, <1>3, <1>4, <1>5, <1>6, <1>7 DEF Next


-----------------------------------------------------------------------------
(* What a configuration assigns.                                           *)

(* The number on a block axis is within its limit.                         *)
LEMMA ConfigIs ==
  ASSUME NEW s \in Listed \cup Tuned, Parses(s), NEW v \in Indices(s)
  PROVE  LET c == Config(s, v)
         IN  /\ IsEnv(c) /\ DOMAIN c = Names(s)
             /\ \A a \in DOMAIN c \cap DOMAIN AxisLimit :
                  c[a] \notin Strings => c[a] \in Nat /\ c[a] <= AxisLimit[a]
<1> DEFINE c == Config(s, v)
<1>1. s \in Specs /\ WellFormed(s)
  BY SpecsAre, SpecsAreWellFormed
<1>2. \A k \in Dims(s) : v[k] \in 1..Len(Values(s, k))
  BY <1>1, IndicesAre
<1>3. ASSUME NEW k \in Dims(s)
      PROVE  LET x == Values(s, k)[v[k]]
             IN  \/ x \in Strings
                 \/ /\ x \in Nat /\ x <= MaxU
                    /\ s.dims[k].name \in DOMAIN AxisLimit =>
                         x <= AxisLimit[s.dims[k].name]
  <2> DEFINE x == Values(s, k)[v[k]]
             V == {w \in Int : w <= MaxU} \cup Strings
             D == [name : STRING, values : Seq(V)]
  <2>1. v[k] \in DOMAIN Values(s, k)
    BY <1>1, <1>2 DEF WellFormed
  <2>2. x \in ToSet(Values(s, k))
    BY <2>1 DEF ToSet
  <2>3. \/ x \in Strings
        \/ /\ x \in Nat
           /\ s.dims[k].name \in DOMAIN AxisLimit =>
                x <= AxisLimit[s.dims[k].name]
    BY <2>2 DEF Parses
  <2>4. s.dims \in Seq(D)
    BY <1>1 DEF Specs
  <2>5. s.dims[k].values \in Seq(V)
    <3>1. \A d \in D : d.values \in Seq(V)
      OBVIOUS
    <3> HIDE DEF D
    <3> QED
      BY <2>4, <3>1 DEF Dims
  <2>6. x \in V
    <3> HIDE DEF V
    <3> QED
      BY <2>1, <2>5 DEF Values
  <2>7. x \in Nat => x \notin Strings
    BY NumbersAre
  <2> HIDE DEF x
  <2> QED
    BY <2>3, <2>6, <2>7 DEF x
<1>4. DOMAIN c = Names(s)
  BY DEF Config
<1>5. ASSUME NEW a \in Names(s)
      PROVE  \/ c[a] \in Strings
             \/ /\ c[a] \in Nat /\ c[a] <= MaxU
                /\ a \in DOMAIN AxisLimit => c[a] <= AxisLimit[a]
  <2> DEFINE k == CHOOSE k \in Dims(s) : s.dims[k].name = a
  <2>1. \E j \in Dims(s) : s.dims[j].name = a
    BY DEF Names
  <2>2. k \in Dims(s) /\ s.dims[k].name = a
    BY <2>1
  <2>3. c[a] = Values(s, k)[v[k]]
    BY DEF Config
  <2> HIDE DEF k, c
  <2> QED
    BY <1>3, <2>2, <2>3
<1> HIDE DEF c
<1>6. IsEnv(c)
  <2>1. ASSUME NEW a \in Names(s) PROVE c[a] \in Numbers \cup Strings
    BY <1>5, NumbersAre DEF Numbers
  <2> QED
    BY <1>4, <2>1 DEF IsEnv
<1> QED
  BY <1>4, <1>5, <1>6 DEF c

(* What an axis of the grid or a size of the arguments comes to: an        *)
(* expression is a u64 or refused, an integer is what it is if the plan    *)
(* takes it, and cast if the model counts its blocks.                      *)
LEMMA ExprIs ==
  ASSUME NEW s \in Listed \cup Tuned, NEW c, IsEnv(c), NEW e \in Exprs
  PROVE  /\ EvalPlan(s, e, c) \in Nat \cup {Err}
         /\ e.kind = "expr" =>
              /\ EvalPlan(s, e, c) = EvalExpr(e, c, Elements(s))
              /\ EvalExpr(e, c, Elements(s)) \in Numbers \cup {Err}
         /\ e.kind # "expr" =>
              /\ e.int \in Int /\ EvalPlan(s, e, c) = IF e.int < 0 THEN Err ELSE e.int
              /\ e.int % (MaxU + 1) \in Numbers
<1>1. CASE e \in [kind : {"expr"}, tokens : Seq(Tokens)]
  <2> DEFINE extra == Elements(s)
             env == [n \in DOMAIN extra \cup DOMAIN c |->
                       IF n \in DOMAIN extra THEN extra[n] ELSE c[n]]
  <2>1. s.elements \in Numbers
    BY SpecsAre DEF Specs, Numbers
  <2>2. \A n \in DOMAIN extra : extra[n] \in Numbers
    BY <2>1 DEF Elements
  <2> HIDE DEF extra
  <2>3. IsEnv(env)
    BY <2>2 DEF IsEnv
  <2> HIDE DEF env
  <2>4. e.tokens \in Seq(Tokens) /\ e.kind = "expr"
    BY <1>1
  <2>5. EvalExpr(e, c, extra) = EvalArith(e.tokens, env)
    BY DEF EvalExpr, env
  <2>6. EvalExpr(e, c, extra) \in Numbers \cup {Err}
    BY <2>3, <2>4, <2>5, EvalIs
  <2>7. EvalPlan(s, e, c) = EvalExpr(e, c, extra)
    BY <2>4 DEF EvalPlan, extra
  <2> QED
    BY <2>4, <2>6, <2>7, NumbersAre DEF extra
<1>2. CASE e \in [kind : {"int"}, int : Int]
  <2>1. e.kind # "expr" /\ e.int \in Int
    BY <1>2
  <2>2. EvalPlan(s, e, c) = IF e.int < 0 THEN Err ELSE e.int
    BY <2>1 DEF EvalPlan
  <2>3. e.int % (MaxU + 1) \in Numbers
    <3>1. MaxU \in Nat
      BY NumbersAre
    <3> QED
      BY <2>1, <3>1 DEF Numbers
  <2> QED
    BY <2>1, <2>2, <2>3
<1> QED
  BY <1>1, <1>2 DEF Exprs

-----------------------------------------------------------------------------
(* The constraints.                                                        *)

(* A computation of a grammatical expression has a value where the         *)
(* reference has one, and the same.                                        *)
LEMMA ComputesExactly ==
  ASSUME NEW env, IsEnv(env), NEW e \in Seq(Tokens), Grammatical(e)
  PROVE  /\ EvalArith(e, env) # Err <=> Fits(e, env)
         /\ Fits(e, env) => EvalArith(e, env) = Exact(e, env)
<1>1. ASSUME Fits(e, env) PROVE Exact(e, env) # Err
  <2>1. Len(e) \in 1..Len(e)
    BY GrammarIs
  <2>2. Len(e) \in TermEnds(e)
    BY <2>1, EndsAre
  <2>3. Exact(e, env) \in Numbers
    BY <1>1, <2>2 DEF Fits, Exact, Numbers
  <2> QED
    BY <2>3, NumbersAre
<1> QED
  BY <1>1, EvalIsExact

(* A constraint of the grammar is computed where it has a value, and holds *)
(* where it is true.                                                       *)
LEMMA ConstraintIs ==
  ASSUME NEW s \in Listed \cup Tuned, Parses(s), NEW v \in Indices(s),
         NEW i \in DOMAIN s.constraints, IsGrammatical(s.constraints[i])
  PROVE  LET k == s.constraints[i]
             c == Config(s, v)
         IN  /\ Computes(k, c) <=> HasValue(k, c)
             /\ Computes(k, c) => (Holds(k, c) <=> IsTrue(k, c))
<1> DEFINE k == s.constraints[i]
           c == Config(s, v)
           K == [lhs : Seq(Tokens), cmp : Comparisons, rhs : Seq(Tokens)]
<1>1. IsEnv(c)
  BY ConfigIs
<1>2. k.lhs \in Seq(Tokens) /\ k.rhs \in Seq(Tokens)
  <2>1. s.constraints \in Seq(K)
    BY SpecsAre DEF Specs
  <2>2. \A q \in K : q.lhs \in Seq(Tokens) /\ q.rhs \in Seq(Tokens)
    OBVIOUS
  <2> HIDE DEF K
  <2> QED
    BY <2>1, <2>2
<1>3. Grammatical(k.lhs) /\ Grammatical(k.rhs)
  BY DEF IsGrammatical
<1> HIDE DEF k, c
<1>4. /\ EvalArith(k.lhs, c) # Err <=> Fits(k.lhs, c)
      /\ Fits(k.lhs, c) => EvalArith(k.lhs, c) = Exact(k.lhs, c)
  BY <1>1, <1>2, <1>3, ComputesExactly
<1>5. /\ EvalArith(k.rhs, c) # Err <=> Fits(k.rhs, c)
      /\ Fits(k.rhs, c) => EvalArith(k.rhs, c) = Exact(k.rhs, c)
  BY <1>1, <1>2, <1>3, ComputesExactly
<1>6. Computes(k, c) <=> HasValue(k, c)
  BY <1>4, <1>5 DEF Computes, HasValue
<1>7. Computes(k, c) => (Holds(k, c) <=> IsTrue(k, c))
  BY <1>4, <1>5 DEF Computes, Holds, IsTrue
<1> QED
  BY <1>6, <1>7 DEF k, c

(* Every constraint can be computed of what the enumeration has passed,    *)
(* and one cannot where it ended.                                          *)
ComputeInv ==
  InSpace =>
    /\ Parses(spec)
    /\ \A v \in Visited : AllCompute(spec, v)
    /\ phase = "uncomputable" => ~AllCompute(spec, indices)

(* A turn of the loop evaluates every constraint before it goes on.        *)
LEMMA VisitKeepsCompute ==
  ASSUME EnumerationInv, ComputeInv, Visit
  PROVE  ComputeInv'
<1> DEFINE done == {u \in Indices(spec) : LexLess(u, indices)}
<1>1. /\ spec \in Listed \cup Tuned /\ spec' = spec /\ WellFormed(spec)
      /\ phase = "enumerate" /\ InSpace /\ indices \in Indices(spec)
  BY SpecsAreWellFormed DEF EnumerationInv, Visit, InSpace
<1>2. Parses(spec) /\ \A v \in done : AllCompute(spec, v)
  BY <1>1 DEF ComputeInv, Visited
<1>3. CASE ~AllCompute(spec, indices)
  <2>1. phase' = "uncomputable" /\ indices' = indices
    BY <1>3 DEF Visit
  <2>2. Visited' = done
    BY <1>1, <2>1 DEF Visited
  <2> QED
    BY <1>1, <1>2, <1>3, <2>1, <2>2 DEF ComputeInv
<1>4. CASE AllCompute(spec, indices)
  <2>1. CASE IsLast(spec, indices)
    <3>1. phase' \in {"listed", "gate"}
      BY <1>4, <2>1 DEF Visit
    <3>2. Visited' = Indices(spec)
      BY <1>1, <3>1 DEF Visited
    <3>3. \A u \in Indices(spec) : u \in done \/ u = indices
      BY <1>1, <2>1, LastIsGreatest
    <3> QED
      BY <1>1, <1>2, <1>4, <3>1, <3>2, <3>3 DEF ComputeInv
  <2>2. CASE ~IsLast(spec, indices)
    <3>1. phase' = "enumerate" /\ indices' = Turned(spec, indices)
      BY <1>1, <1>4, <2>2 DEF Visit
    <3>2. Visited' = {u \in Indices(spec) : LexLess(u, indices')}
      BY <1>1, <3>1 DEF Visited
    <3>3. \A u \in Visited' : u \in done \/ u = indices
      BY <1>1, <2>2, <3>1, <3>2, TurnedIsNext
    <3> QED
      BY <1>1, <1>2, <1>4, <3>1, <3>3 DEF ComputeInv
  <2> QED
    BY <2>1, <2>2
<1> QED
  BY <1>3, <1>4

(* No other step passes a configuration.                                   *)
LEMMA NextKeepsCompute ==
  ASSUME EnumerationInv, ComputeInv, [Next]_vars
  PROVE  ComputeInv'
<1>1. spec \in Listed \cup Tuned /\ WellFormed(spec)
  BY SpecsAreWellFormed DEF EnumerationInv
<1>2. CASE Load
  <2>1. phase = "load" /\ spec' = spec
    BY <1>2 DEF Load
  <2>2. CASE ~Parses(spec)
    <3>1. phase' = "refused" /\ ~InSpace'
      BY <1>2, <2>2 DEF Load, InSpace
    <3> QED
      BY <3>1 DEF ComputeInv
  <2>3. CASE Parses(spec)
    <3>1. phase' = "enumerate" /\ indices' = First(spec)
      BY <1>2, <2>3 DEF Load
    <3>2. Visited' = {}
      BY <1>1, <2>1, <2>3, <3>1, FirstIsLeast DEF Visited
    <3> QED
      BY <2>1, <2>3, <3>1, <3>2 DEF ComputeInv
  <2> QED
    BY <2>2, <2>3
<1>3. CASE Visit
  BY <1>3, VisitKeepsCompute
<1>4. ASSUME \/ \E allow \in BOOLEAN : Plan(allow)
             \/ Shuffle \/ Measure \/ Measured \/ ReadFails \/ Open
             \/ ScrollDown \/ ScrollUp \/ Quit \/ EstimateFails \/ Estimate
             \/ Correlate \/ \E v \in Views : Select(v)
      PROVE  ComputeInv'
  <2>1. phase' \notin {"load", "enumerate", "uncomputable", "listed", "gate"}
    BY <1>4 DEF Plan, Shuffle, Measure, Measured, ReadFails, Open, ScrollDown,
                ScrollUp, Quit, EstimateFails, Estimate, Correlate, Select
  <2>2. ~InSpace'
    BY <2>1 DEF InSpace
  <2> QED
    BY <2>2 DEF ComputeInv
<1>5. CASE UNCHANGED vars
  BY <1>5 DEF vars, ComputeInv, InSpace, Visited
<1> QED
  BY <1>2, <1>3, <1>4, <1>5 DEF Next

(* With what the enumeration keeps, that makes the constraints exact.      *)
LEMMA InvConstraintsAreExact ==
  ASSUME EnumerationInv, ComputeInv
  PROVE  ConstraintsAreExact
<1> DEFINE of == {c \in ToSet(spec.constraints) : IsGrammatical(c)}
           whole == of = ToSet(spec.constraints)
<1> SUFFICES ASSUME InSpace
             PROVE  /\ \A v \in Visited : \A c \in of :
                         /\ HasValue(c, Config(spec, v))
                         /\ v \in ToSet(space) => IsTrue(c, Config(spec, v))
                    /\ whole => \A v \in Visited \ ToSet(space) :
                                  \E c \in of : ~IsTrue(c, Config(spec, v))
                    /\ whole /\ phase = "uncomputable" =>
                         \E c \in of : ~HasValue(c, Config(spec, indices))
  BY DEF ConstraintsAreExact
<1>1. /\ spec \in Listed \cup Tuned /\ Parses(spec)
      /\ \A v \in Visited : AllCompute(spec, v) /\ v \in Indices(spec)
      /\ phase = "uncomputable" =>
           indices \in Indices(spec) /\ ~AllCompute(spec, indices)
      /\ \A v \in Visited : v \in ToSet(space) <=> Kept(spec, v)
  BY DEF EnumerationInv, ComputeInv, EnumerationIsComplete, Visited
<1>2. /\ \A i \in DOMAIN spec.constraints :
           spec.constraints[i] \in ToSet(spec.constraints)
      /\ \A c \in ToSet(spec.constraints) :
           \E i \in DOMAIN spec.constraints : spec.constraints[i] = c
  BY DEF ToSet
<1>3. ASSUME NEW v \in Visited, NEW c \in of
      PROVE  /\ HasValue(c, Config(spec, v))
             /\ v \in ToSet(space) => IsTrue(c, Config(spec, v))
  <2>1. PICK i \in DOMAIN spec.constraints : spec.constraints[i] = c
    BY <1>2
  <2>2. /\ Computes(c, Config(spec, v)) <=> HasValue(c, Config(spec, v))
        /\ Computes(c, Config(spec, v)) =>
             (Holds(c, Config(spec, v)) <=> IsTrue(c, Config(spec, v)))
    BY <1>1, <2>1, ConstraintIs
  <2>3. Computes(c, Config(spec, v))
    BY <1>1, <2>1 DEF AllCompute
  <2>4. v \in ToSet(space) => Holds(c, Config(spec, v))
    BY <1>1, <2>1 DEF Kept
  <2> QED
    BY <2>2, <2>3, <2>4
<1>4. ASSUME whole, NEW v \in Visited \ ToSet(space)
      PROVE  \E c \in of : ~IsTrue(c, Config(spec, v))
  <2>1. PICK i \in DOMAIN spec.constraints :
               ~Holds(spec.constraints[i], Config(spec, v))
    BY <1>1 DEF Kept
  <2>2. spec.constraints[i] \in of
    BY <1>2, <1>4
  <2>3. Computes(spec.constraints[i], Config(spec, v))
    BY <1>1 DEF AllCompute
  <2>4. ~IsTrue(spec.constraints[i], Config(spec, v))
    BY <1>1, <2>1, <2>2, <2>3, ConstraintIs
  <2> QED
    BY <2>2, <2>4
<1>5. ASSUME whole, phase = "uncomputable"
      PROVE  \E c \in of : ~HasValue(c, Config(spec, indices))
  <2>1. PICK i \in DOMAIN spec.constraints :
               ~Computes(spec.constraints[i], Config(spec, indices))
    BY <1>1, <1>5 DEF AllCompute
  <2>2. spec.constraints[i] \in of
    BY <1>2, <1>5
  <2>3. ~HasValue(spec.constraints[i], Config(spec, indices))
    BY <1>1, <1>5, <2>1, <2>2, ConstraintIs
  <2> QED
    BY <2>2, <2>3
<1> QED
  BY <1>3, <1>4, <1>5

-----------------------------------------------------------------------------
(* The plan, the measurements and the estimates.                           *)

Early == {"load", "refused", "enumerate", "uncomputable", "listed", "gate"}

Verdicts == {"clean", "disqualified", "ungated"}

(* Nothing is planned before the space is done, and then every candidate   *)
(* is the launch of a configuration of its own.                            *)
PlanInv ==
  /\ phase \in Phases
  /\ \/ command = "space" /\ spec \in Listed /\ phase \in Early \ {"gate"}
     \/ command \in {"tune", "metal"} /\ spec \in Tuned
  /\ phase \notin {"load", "refused"} => Parses(spec)
  /\ verdict \in Seq(Verdicts)
  /\ phase \in Early => verdict = <<>> /\ cands = <<>>
  /\ phase \notin Early => Len(verdict) = Len(space)
  /\ \A p \in DOMAIN cands :
       /\ cands[p].id \in DOMAIN space
       /\ cands[p] = Candidate(spec, cands[p].id, space[cands[p].id])
       /\ Resolves(spec, space[cands[p].id])
  /\ \A p, q \in DOMAIN cands : cands[p].id = cands[q].id => p = q
  /\ view \in Views /\ scroll \in Nat /\ at \in Nat

(* A row holds a sample and the summary of it, or an error.                *)
IsRow(r) ==
  \/ /\ r.status = "ok" /\ \E n \in Nat : r.times \in [1..n -> Timings]
     /\ r.summary = Summarize(r.times)
  \/ r.status = "error"

RowsInv == \A k \in DOMAIN rows : IsRow(rows[k])

(* The estimates are those of the space, and the correlation is theirs and *)
(* that of measurements that could be read.                                *)
ModelInv ==
  /\ phase \notin {"estimated", "modelled"} => costs = <<>>
  /\ phase \in {"estimated", "modelled"} =>
       /\ costs = [k \in DOMAIN space |-> Cost(spec, Config(spec, space[k]))]
       /\ \A k \in DOMAIN space : Estimates(spec, Config(spec, space[k]))
       /\ Readable
  /\ phase # "modelled" => rho = NoCorrelation
  /\ phase = "modelled" =>
       rho = Spearman([p \in DOMAIN Paired |-> costs[Paired[p].id]],
                      [p \in DOMAIN Paired |-> Paired[p].summary.med])

(* They hold before anything is planned.                                   *)
LEMMA LaterInit == Init => PlanInv /\ RowsInv /\ ModelInv
<1> SUFFICES ASSUME Init PROVE PlanInv /\ RowsInv /\ ModelInv
  OBVIOUS
<1>1. PlanInv
  BY DEF Init, PlanInv, Phases, Early, Views
<1>2. RowsInv /\ ModelInv
  BY DEF Init, RowsInv, ModelInv
<1> QED
  BY <1>1, <1>2

(* The plan makes a candidate of each configuration it takes.              *)
LEMMA PlanKeepsPlan ==
  ASSUME PlanInv, OrderInv, space \in Seq(Indices(spec)),
         NEW allow \in BOOLEAN, Plan(allow)
  PROVE  PlanInv'
<1> DEFINE T == Taken(allow)
           n == Cardinality(T)
           id == Ascending(T)
           V == IF command = "metal" THEN {"ungated"} ELSE {"clean", "disqualified"}
<1>1. /\ phase = "gate" /\ cands = <<>> /\ Parses(spec)
      /\ command \in {"tune", "metal"} /\ spec \in Tuned
      /\ UNCHANGED <<command, spec, space, view, scroll>>
      /\ view \in Views /\ scroll \in Nat /\ at \in Nat
  BY DEF Plan, PlanInv, Early
<1>2. verdict' \in Seq(Verdicts) /\ Len(verdict') = Len(space)
  <2>1. verdict' \in [1..Len(space) -> V] /\ Len(space) \in Nat
    BY DEF Plan
  <2>2. verdict' \in [1..Len(space) -> Verdicts]
    BY <2>1 DEF Verdicts
  <2> QED
    BY <2>1, <2>2
<1>3. /\ n \in Nat /\ id \in [1..n -> T] /\ T \in SUBSET DOMAIN space
      /\ \A p, q \in 1..n : id[p] = id[q] => p = q
  BY TakenIs
<1>4. CASE phase' = "failed" /\ UNCHANGED <<cands, order, at>>
  BY <1>1, <1>2, <1>4 DEF PlanInv, Early, Phases
<1>5. CASE /\ \A k \in T : Resolves(spec, space[k])
           /\ cands' = [p \in 1..n |-> Candidate(spec, id[p], space[id[p]])]
           /\ \/ phase' = "measure" /\ at' = 1
              \/ phase' = "shuffle" /\ at' = n
  <2> HIDE DEF T, n, id
  <2>1. DOMAIN cands' = 1..n
    BY <1>5
  <2>2. ASSUME NEW p \in 1..n
        PROVE  /\ cands'[p].id = id[p] /\ id[p] \in T /\ id[p] \in DOMAIN space
               /\ cands'[p] = Candidate(spec, id[p], space[id[p]])
    BY <1>3, <1>5 DEF Candidate
  <2>3. \A p \in DOMAIN cands' :
          /\ cands'[p].id \in DOMAIN space'
          /\ cands'[p] = Candidate(spec', cands'[p].id, space'[cands'[p].id])
          /\ Resolves(spec', space'[cands'[p].id])
    BY <1>1, <1>5, <2>1, <2>2
  <2>4. \A p, q \in DOMAIN cands' : cands'[p].id = cands'[q].id => p = q
    BY <1>3, <2>1, <2>2
  <2>5. phase' \in Phases /\ phase' \notin Early /\ at' \in Nat
    BY <1>3, <1>5 DEF Phases, Early
  <2> QED
    BY <1>1, <1>2, <2>3, <2>4, <2>5 DEF PlanInv, Early
<1>6. \/ phase' = "failed" /\ UNCHANGED <<cands, order, at>>
      \/ /\ \A k \in T : Resolves(spec, space[k])
         /\ cands' = [p \in 1..n |-> Candidate(spec, id[p], space[id[p]])]
         /\ \/ phase' = "measure" /\ at' = 1
            \/ phase' = "shuffle" /\ at' = n
  BY DEF Plan, Taken
<1> QED
  BY <1>4, <1>5, <1>6

(* No other step touches the candidates or the verdicts.                   *)
LEMMA NextKeepsPlan ==
  ASSUME PlanInv, OrderInv, space \in Seq(Indices(spec)), [Next]_vars
  PROVE  PlanInv'
<1>1. CASE Load
  BY <1>1 DEF Load, PlanInv, Phases, Early
<1>2. CASE Visit
  BY <1>2 DEF Visit, PlanInv, Phases, Early
<1>3. ASSUME NEW allow \in BOOLEAN, Plan(allow) PROVE PlanInv'
  BY <1>3, PlanKeepsPlan
<1>4. CASE Shuffle
  BY <1>4 DEF Shuffle, PlanInv, Phases, Early
<1>5. CASE Measure
  BY <1>5 DEF Measure, PlanInv, Phases, Early
<1>6. CASE Measured
  BY <1>6 DEF Measured, PlanInv, Phases, Early
<1>7. ASSUME \/ Open \/ ScrollDown \/ ScrollUp \/ Quit \/ \E v \in Views : Select(v)
      PROVE  PlanInv'
  <2>1. /\ UNCHANGED <<command, spec, space, verdict, cands, at>>
        /\ phase \in {"measured", "browse"} /\ phase' \in {"browse", "quit"}
    BY <1>7 DEF Open, ScrollDown, ScrollUp, Quit, Select
  <2>2. view' \in Views /\ scroll' \in Nat
    BY <1>7 DEF Open, ScrollDown, ScrollUp, Quit, Select, PlanInv, Views
  <2> QED
    BY <2>1, <2>2 DEF PlanInv, Phases, Early
<1>8. ASSUME ReadFails \/ EstimateFails \/ Estimate \/ Correlate
      PROVE  PlanInv'
  <2>1. /\ UNCHANGED <<command, spec, space, verdict, cands, at, view, scroll>>
        /\ phase \in {"measured", "estimated"}
        /\ phase' \in {"unreadable", "estimated", "failed", "modelled"}
    BY <1>8 DEF ReadFails, EstimateFails, Estimate, Correlate
  <2> QED
    BY <2>1 DEF PlanInv, Phases, Early
<1>9. CASE UNCHANGED vars
  BY <1>9 DEF vars, PlanInv
<1> QED
  BY <1>1, <1>2, <1>3, <1>4, <1>5, <1>6, <1>7, <1>8, <1>9 DEF Next

(* Every measurement adds a row with its sample or with an error.          *)
LEMMA NextKeepsRows ==
  ASSUME PlanInv, OrderInv, RowsInv, [Next]_vars
  PROVE  RowsInv'
<1>1. CASE Measure
  <2>1. /\ phase = "measure" /\ spec \in Tuned
        /\ rows \in Seq(ToSet(rows))
    BY <1>1 DEF Measure, PlanInv, OrderInv, Early
  <2>2. PICK row : rows' = Append(rows, row) /\ IsRow(row)
    <3> DEFINE good(times) == [id |-> cands[order[at]].id, status |-> "ok",
                               times |-> times, summary |-> Summarize(times)]
               bad == [id |-> cands[order[at]].id, status |-> "error",
                       times |-> <<>>, summary |-> NoSummary]
    <3>1. \/ \E times \in Samples[spec.repeats] :
               rows' = Append(rows, good(times))
          \/ rows' = Append(rows, bad)
      BY <1>1 DEF Measure
    <3>2. ASSUME NEW times \in Samples[spec.repeats] PROVE IsRow(good(times))
      <4>1. spec.repeats \in Nat /\ times \in [1..spec.repeats -> Timings]
        BY <2>1, TuneAssumption DEF TuneAssumption
      <4> QED
        BY <4>1 DEF IsRow
    <3>3. IsRow(bad)
      BY DEF IsRow
    <3> HIDE DEF good, bad
    <3> QED
      BY <3>1, <3>2, <3>3
  <2>3. ASSUME NEW k \in DOMAIN rows' PROVE IsRow(rows'[k])
    <3>1. /\ k \in 1..(Len(rows) + 1) /\ Len(rows) \in Nat
          /\ DOMAIN rows = 1..Len(rows)
      BY <2>1, <2>2
    <3>2. CASE k = Len(rows) + 1
      BY <2>1, <2>2, <3>2
    <3>3. CASE k # Len(rows) + 1
      <4>1. k \in DOMAIN rows /\ rows'[k] = rows[k]
        BY <2>1, <2>2, <3>1, <3>3
      <4> QED
        BY <4>1 DEF RowsInv
    <3> QED
      BY <3>2, <3>3
  <2> QED
    BY <2>3 DEF RowsInv
<1>2. ASSUME rows' = rows PROVE RowsInv'
  BY <1>2 DEF RowsInv
<1>3. CASE ~Measure
  <2>1. rows' = rows
    BY <1>3 DEF Next, vars, Load, Visit, Plan, Shuffle, Measured, ReadFails,
                Open, Select, ScrollDown, ScrollUp, Quit, EstimateFails,
                Estimate, Correlate
  <2> QED
    BY <1>2, <2>1
<1> QED
  BY <1>1, <1>3

(* The estimates are made once, and the correlation once from them.        *)
LEMMA NextKeepsModel ==
  ASSUME PlanInv, ModelInv, [Next]_vars
  PROVE  ModelInv'
<1>1. ASSUME \/ Load \/ Visit \/ Shuffle \/ Measure \/ Measured
             \/ \E allow \in BOOLEAN : Plan(allow)
             \/ ReadFails \/ Open \/ ScrollDown \/ ScrollUp \/ Quit
             \/ EstimateFails \/ \E v \in Views : Select(v)
      PROVE  ModelInv'
  <2>1. /\ UNCHANGED <<costs, rho>>
        /\ phase \notin {"estimated", "modelled"}
        /\ phase' \notin {"estimated", "modelled"}
    BY <1>1 DEF Load, Visit, Plan, Shuffle, Measure, Measured, ReadFails, Open,
                Select, ScrollDown, ScrollUp, Quit, EstimateFails
  <2> QED
    BY <2>1 DEF ModelInv
<1>2. CASE Estimate
  <2>1. /\ phase = "measured" /\ phase' = "estimated"
        /\ UNCHANGED <<space, spec, rows, rho>>
        /\ costs' = [k \in DOMAIN space |-> Cost(spec, Config(spec, space[k]))]
        /\ \A k \in DOMAIN space : Estimates(spec, Config(spec, space[k]))
    BY <1>2 DEF Estimate
  <2>2. rho = NoCorrelation
    BY <2>1 DEF ModelInv
  <2>3. Readable'
    BY <1>2, <2>1 DEF Estimate, Readable
  <2> QED
    BY <2>1, <2>2, <2>3 DEF ModelInv
<1>3. CASE Correlate
  <2>1. /\ phase = "estimated" /\ phase' = "modelled"
        /\ UNCHANGED <<space, spec, rows, costs>>
        /\ rho' = Spearman([p \in DOMAIN Paired |-> costs[Paired[p].id]],
                           [p \in DOMAIN Paired |-> Paired[p].summary.med])
    BY <1>3 DEF Correlate
  <2>2. Paired' = Paired /\ (Readable => Readable')
    BY <2>1 DEF Paired, Summarized, Readable
  <2> QED
    BY <2>1, <2>2 DEF ModelInv
<1>4. CASE UNCHANGED vars
  <2>1. UNCHANGED <<phase, spec, space, rows, costs, rho>>
    BY <1>4 DEF vars
  <2>2. Paired' = Paired /\ (Readable => Readable')
    BY <2>1 DEF Paired, Summarized, Readable
  <2> QED
    BY <2>1, <2>2 DEF ModelInv
<1> QED
  BY <1>1, <1>2, <1>3, <1>4 DEF Next

(* What all the invariants rest on.                                        *)
Inv ==
  EnumerationInv /\ ComputeInv /\ OrderInv /\ PlanInv /\ RowsInv /\ ModelInv

(* It is inductive.                                                        *)
THEOREM InvHolds == Spec => []Inv
<1>1. Init => Inv
  <2> SUFFICES ASSUME Init PROVE Inv
    OBVIOUS
  <2>1. ~InSpace
    BY DEF Init, InSpace
  <2> QED
    BY <2>1, EnumerationInit, OrderInit, LaterInit DEF Inv, ComputeInv
<1>2. ASSUME Inv, [Next]_vars PROVE Inv'
  <2>1. /\ EnumerationInv /\ ComputeInv /\ OrderInv /\ PlanInv /\ RowsInv
        /\ ModelInv /\ space \in Seq(Indices(spec))
    BY <1>2 DEF Inv, EnumerationInv
  <2>2. EnumerationInv'
    BY <1>2, <2>1, NextKeepsEnumeration
  <2>3. ComputeInv'
    BY <1>2, <2>1, NextKeepsCompute
  <2>4. OrderInv'
    BY <1>2, <2>1, NextKeepsOrder
  <2>5. PlanInv'
    BY <1>2, <2>1, NextKeepsPlan
  <2>6. RowsInv'
    BY <1>2, <2>1, NextKeepsRows
  <2>7. ModelInv'
    BY <1>2, <2>1, NextKeepsModel
  <2> QED
    BY <2>2, <2>3, <2>4, <2>5, <2>6, <2>7 DEF Inv
<1> QED
  BY <1>1, <1>2, PTL DEF Spec

-----------------------------------------------------------------------------
(* What follows of the rows.                                               *)

(* Each row is of a configuration of the space, and of another than any    *)
(* other row.                                                              *)
LEMMA RowsAre ==
  ASSUME Inv
  PROVE  /\ Len(rows) \in Nat /\ DOMAIN rows = 1..Len(rows)
         /\ \A k \in DOMAIN rows : rows[k].id \in DOMAIN space
         /\ \A i, j \in DOMAIN rows : rows[i].id = rows[j].id => i = j
<1>1. /\ Permutes(order, Len(cands)) /\ DOMAIN cands = 1..Len(cands)
      /\ rows \in Seq(ToSet(rows)) /\ Len(rows) <= Len(order)
      /\ \A k \in DOMAIN rows : rows[k].id = cands[order[k]].id
      /\ \A p \in DOMAIN cands : cands[p].id \in DOMAIN space
      /\ \A p, q \in DOMAIN cands : cands[p].id = cands[q].id => p = q
  BY DEF Inv, OrderInv, PlanInv
<1>2. /\ Len(rows) \in Nat /\ DOMAIN rows = 1..Len(rows)
      /\ Len(cands) \in Nat /\ Len(order) = Len(cands)
      /\ \A k \in 1..Len(cands) : order[k] \in 1..Len(cands)
      /\ \A i, j \in 1..Len(cands) : order[i] = order[j] => i = j
  BY <1>1, PermutesIs DEF Permutes, IsInjective
<1>3. \A k \in DOMAIN rows : k \in 1..Len(cands)
  BY <1>1, <1>2
<1>4. \A k \in DOMAIN rows : /\ order[k] \in DOMAIN cands
                             /\ rows[k].id = cands[order[k]].id
  BY <1>1, <1>2, <1>3
<1>5. \A k \in DOMAIN rows : rows[k].id \in DOMAIN space
  BY <1>1, <1>4
<1>6. ASSUME NEW i \in DOMAIN rows, NEW j \in DOMAIN rows,
             rows[i].id = rows[j].id
      PROVE  i = j
  <2>1. order[i] = order[j]
    BY <1>1, <1>4, <1>6
  <2> QED
    BY <1>2, <1>3, <2>1
<1> QED
  BY <1>2, <1>5, <1>6

(* The rows with a summary, as they are ranked.                            *)
LEMMA SummarizedAre ==
  ASSUME Inv, NEW r \in Summarized
  PROVE  /\ \E k \in DOMAIN rows : r = rows[k]
         /\ r.id \in DOMAIN space /\ r.id \in Nat
         /\ \E n \in Nat : r.times \in [1..n -> Timings]
         /\ r.summary = Summarize(r.times) /\ r.summary # NoSummary
         /\ r.summary.lo \in Nat /\ r.summary.med \in Nat
         /\ r.summary.hi \in Nat
         /\ r.summary.lo <= r.summary.med /\ r.summary.lo <= Inf
         /\ r.summary.hi < Inf => r.summary.med <= r.summary.hi
<1>1. r \in ToSet(rows) /\ r.status = "ok" /\ r.summary # NoSummary
  BY DEF Summarized, Timed
<1>2. PICK k \in DOMAIN rows : r = rows[k]
  BY <1>1 DEF ToSet
<1>3. IsRow(r)
  BY <1>2 DEF Inv, RowsInv
<1>4. PICK n \in Nat : r.times \in [1..n -> Timings]
  BY <1>1, <1>3 DEF IsRow
<1>5. r.summary = Summarize(r.times)
  BY <1>1, <1>3 DEF IsRow
<1>6. r.id \in DOMAIN space /\ r.id \in Nat
  <2>1. space \in Seq(Indices(spec))
    BY DEF Inv, EnumerationInv
  <2>2. r.id \in DOMAIN space
    BY <1>2, RowsAre
  <2> QED
    BY <2>1, <2>2
<1> QED
  BY <1>1, <1>2, <1>4, <1>5, <1>6, SummaryBrackets

(* Two of them with one id are one.                                        *)
LEMMA SummarizedDiffer ==
  ASSUME Inv, NEW r \in Summarized, NEW q \in Summarized, r.id = q.id
  PROVE  r = q
<1>1. PICK i \in DOMAIN rows : r = rows[i]
  BY SummarizedAre
<1>2. PICK j \in DOMAIN rows : q = rows[j]
  BY SummarizedAre
<1> QED
  BY <1>1, <1>2, RowsAre

(* There are finitely many.                                                *)
LEMMA SummarizedFinite ==
  ASSUME Inv
  PROVE  IsFiniteSet(Summarized)
<1>1. /\ Len(rows) \in Nat /\ DOMAIN rows = 1..Len(rows)
      /\ rows \in Seq(ToSet(rows))
      /\ ToSet(rows) = {rows[k] : k \in DOMAIN rows}
  BY RowsAre DEF Inv, OrderInv, ToSet
<1>2. rows \in Surjection(1..Len(rows), ToSet(rows))
  BY <1>1, Fun_IsSurj
<1>3. IsFiniteSet(ToSet(rows))
  BY <1>1, <1>2, FS_Interval, FS_Surjection
<1>4. Summarized \in SUBSET ToSet(rows)
  BY DEF Summarized, Timed
<1> QED
  BY <1>3, <1>4, FS_Subset

(* So every summary describes its sample.                                  *)
LEMMA InvSummaryIsSound ==
  ASSUME Inv
  PROVE  SummaryIsSound
<1> SUFFICES ASSUME NEW r \in Summarized PROVE Describes(r.summary, r.times)
  BY DEF SummaryIsSound
<1>1. /\ \E n \in Nat : r.times \in [1..n -> Timings]
      /\ r.summary = Summarize(r.times) /\ r.summary # NoSummary
  BY SummarizedAre
<1> QED
  BY <1>1, SummaryDescribes

(* The types follow from the parts of Inv.                                 *)
LEMMA InvTypeOK ==
  ASSUME Inv
  PROVE  TypeOK
<1>1. /\ phase \in Phases /\ command \in {"space", "tune", "metal"}
      /\ view \in Views /\ scroll \in Nat /\ at \in Nat
      /\ verdict \in Seq(Verdicts)
      /\ phase \in Early => verdict = <<>> /\ cands = <<>>
      /\ phase \notin Early => Len(verdict) = Len(space)
  BY DEF Inv, PlanInv
<1>2. /\ space \in Seq(Indices(spec))
      /\ phase \in {"enumerate", "uncomputable"} => indices \in Indices(spec)
  BY DEF Inv, EnumerationInv
<1>3. /\ Len(<<>>) = 0 /\ DOMAIN <<>> = {}
      /\ DOMAIN space = 1..Len(space) /\ DOMAIN verdict = 1..Len(verdict)
  BY <1>1, <1>2
<1>4. Len(verdict) \in {0, Len(space)}
  BY <1>1, <1>3
<1>5. \A p \in DOMAIN cands : cands[p].id \in DOMAIN verdict
  <2>1. CASE phase \in Early
    BY <1>1, <1>3, <2>1
  <2>2. CASE phase \notin Early
    BY <1>1, <1>3, <2>2 DEF Inv, PlanInv
  <2> QED
    BY <2>1, <2>2
<1>6. order \in Seq(DOMAIN cands)
  BY PermutesIs DEF Inv, OrderInv
<1>7. \A r \in ToSet(rows) : r.id \in DOMAIN verdict /\ r.status \in Statuses
  <2> SUFFICES ASSUME NEW r \in ToSet(rows)
               PROVE  r.id \in DOMAIN verdict /\ r.status \in Statuses
    OBVIOUS
  <2>1. PICK k \in DOMAIN rows : r = rows[k]
    BY DEF ToSet
  <2>2. r.status \in Statuses
    BY <2>1 DEF Inv, RowsInv, IsRow, Statuses
  <2>3. r.id = cands[order[k]].id
    BY <2>1 DEF Inv, OrderInv
  <2>4. order[k] \in DOMAIN cands
    <3>1. /\ Permutes(order, Len(cands)) /\ DOMAIN cands = 1..Len(cands)
          /\ Len(rows) <= Len(order) /\ Len(order) = Len(cands)
          /\ Len(rows) \in Nat /\ DOMAIN rows = 1..Len(rows)
      BY PermutesIs, RowsAre DEF Inv, OrderInv
    <3>2. k \in 1..Len(cands) /\ order \in [1..Len(cands) -> 1..Len(cands)]
      BY <3>1 DEF Permutes
    <3> QED
      BY <3>1, <3>2
  <2> QED
    BY <1>5, <2>2, <2>3, <2>4
<1>8. Len(costs) \in {0, Len(space)}
  <2>1. CASE phase \notin {"estimated", "modelled"}
    BY <1>3, <2>1 DEF Inv, ModelInv
  <2>2. CASE phase \in {"estimated", "modelled"}
    <3>1. DOMAIN costs = 1..Len(space)
      BY <1>3, <2>2 DEF Inv, ModelInv
    <3> QED
      BY <1>2, <3>1
  <2> QED
    BY <2>1, <2>2
<1> QED
  BY <1>1, <1>2, <1>4, <1>5, <1>6, <1>7, <1>8 DEF TypeOK, Verdicts

-----------------------------------------------------------------------------
(* The launch.                                                             *)

Blocks == INSTANCE FoldProofs WITH Op <- TimesAxis
Grids == INSTANCE FoldProofs WITH Op <- TimesBlocks

(* A candidate is the launch of a configuration of a parsed spec.          *)
LEMMA CandsAre ==
  ASSUME Inv, NEW p \in DOMAIN cands
  PROVE  LET v == space[cands[p].id]
             c == Config(spec, v)
         IN  /\ spec \in Specs /\ spec \in Listed \cup Tuned
             /\ Parses(spec) /\ v \in Indices(spec) /\ IsEnv(c)
             /\ cands[p] = Candidate(spec, cands[p].id, v)
             /\ Resolves(spec, v)
<1>1. /\ cands[p].id \in DOMAIN space
      /\ cands[p] = Candidate(spec, cands[p].id, space[cands[p].id])
      /\ Resolves(spec, space[cands[p].id])
  BY DEF Inv, PlanInv
<1>2. phase \notin Early
  <2>1. DOMAIN <<>> = {}
    OBVIOUS
  <2> QED
    BY <2>1 DEF Inv, PlanInv
<1>3. spec \in Listed \cup Tuned /\ Parses(spec) /\ space \in Seq(Indices(spec))
  BY <1>2 DEF Inv, PlanInv, EnumerationInv, Early
<1>4. space[cands[p].id] \in Indices(spec)
  BY <1>1, <1>3
<1>5. IsEnv(Config(spec, space[cands[p].id]))
  BY <1>3, <1>4, ConfigIs
<1> QED
  BY <1>1, <1>3, <1>4, <1>5, SpecsAre

(* The three block axes have limits, and numbers are large enough for      *)
(* them.                                                                   *)
LEMMA AxesAre ==
  /\ DOMAIN Axes = 1..3 /\ Axes[1] = "block_x"
  /\ Axes[2] = "block_y" /\ Axes[3] = "block_z"
  /\ \A i \in 1..3 : Axes[i] \in DOMAIN AxisLimit
  /\ AxisLimit["block_x"] \in Nat \ {0} /\ AxisLimit["block_y"] \in Nat \ {0}
  /\ AxisLimit["block_z"] \in Nat \ {0}
  /\ \A a \in DOMAIN AxisLimit : AxisLimit[a] \in Nat \ {0}
  /\ MaxU \in Nat /\ Max32 \in Nat /\ Max32 <= MaxU
<1>1. DOMAIN Axes = 1..3
  BY DEF Axes
<1>2. /\ Axes[1] = "block_x" /\ Axes[2] = "block_y" /\ Axes[3] = "block_z"
  BY DEF Axes
<1>3. \A i \in 1..3 : Axes[i] \in ToSet(Axes)
  BY <1>1 DEF ToSet
<1>4. AxisLimit \in [ToSet(Axes) -> Nat \ {0}]
  BY SpaceAssumption DEF SpaceAssumption
<1> HIDE DEF Axes
<1>5. \A i \in 1..3 : Axes[i] \in DOMAIN AxisLimit
  BY <1>3, <1>4
<1>6. \A a \in DOMAIN AxisLimit : AxisLimit[a] \in Nat \ {0}
  BY <1>4
<1>7. 1 \in 1..3 /\ 2 \in 1..3 /\ 3 \in 1..3
  OBVIOUS
<1>8. /\ "block_x" \in DOMAIN AxisLimit /\ "block_y" \in DOMAIN AxisLimit
      /\ "block_z" \in DOMAIN AxisLimit
  BY <1>2, <1>5, <1>7
<1> QED
  BY <1>1, <1>2, <1>5, <1>6, <1>8, NumbersAre, SpaceAssumption DEF SpaceAssumption

(* The numbers of threads of the axes are within their limits, and their   *)
(* product never reaches the bound of a u64.                               *)
LEMMA ThreadsAre ==
  ASSUME NEW s \in Listed \cup Tuned, Parses(s), NEW v \in Indices(s)
  PROVE  LET c == Config(s, v)
             t(i) == AxisThreads(c, Axes[i])
         IN  /\ \A i \in 1..3 : t(i) \in 0..Max32
             /\ BlockThreads(c) = t(1) * t(2) * t(3)
             /\ BlockThreads(c) \in Nat
<1> DEFINE c == Config(s, v)
           t(i) == AxisThreads(c, Axes[i])
           x == t(1)
           y == t(2)
           z == t(3)
           lx == AxisLimit["block_x"]
           ly == AxisLimit["block_y"]
           lz == AxisLimit["block_z"]
<1>1. ASSUME NEW i \in 1..3
      PROVE  t(i) \in Nat /\ t(i) <= AxisLimit[Axes[i]] /\ t(i) <= Max32
  <2> DEFINE a == Axes[i]
  <2>1. /\ a \in DOMAIN AxisLimit /\ AxisLimit[a] \in Nat \ {0}
        /\ AxisLimit[a] <= Max32 /\ Max32 \in Nat
    BY AxesAre, SpaceAssumption DEF SpaceAssumption
  <2>2. a \in DOMAIN c /\ c[a] \notin Strings => c[a] \in Nat /\ c[a] <= AxisLimit[a]
    BY <2>1, ConfigIs
  <2> HIDE DEF a, c
  <2>3. AxisThreads(c, a) \in Nat /\ AxisThreads(c, a) <= AxisLimit[a]
    BY <2>1, <2>2 DEF AxisThreads
  <2> QED
    BY <2>1, <2>3 DEF a
<1>2. /\ x \in Nat /\ y \in Nat /\ z \in Nat
      /\ x <= lx /\ y <= ly /\ z <= lz
      /\ lx \in Nat \ {0} /\ ly \in Nat \ {0} /\ lz \in Nat \ {0}
      /\ lx * ly * lz <= MaxU /\ MaxU \in Nat
  <2>1. 1 \in 1..3 /\ 2 \in 1..3 /\ 3 \in 1..3
    OBVIOUS
  <2> QED
    BY <1>1, <2>1, AxesAre, SpaceAssumption DEF SpaceAssumption
<1>3. \A i \in 1..3 : t(i) \in 0..Max32
  BY <1>1, AxesAre
<1> HIDE DEF t, lx, ly, lz, c
<1>4. PICK g : Blocks!Walks(g, c, Int, 1, Axes, 3)
  <2>1. \A i \in 1..3 : \A w \in Int : TimesAxis(c, w, Axes[i]) \in Int
    BY <1>3, AxesAre DEF TimesAxis, Saturated, t
  <2>2. DOMAIN Axes = 1..3
    BY AxesAre
  <2>3. Blocks!Stays(c, Int, 1, Axes, 3)
    BY <2>1, <2>2 DEF Blocks!Stays
  <2> QED
    BY <2>3, Blocks!FoldLeftIs
<1>5. /\ g[0] = 1 /\ g[1] = TimesAxis(c, g[0], Axes[1])
      /\ g[2] = TimesAxis(c, g[1], Axes[2]) /\ g[3] = TimesAxis(c, g[2], Axes[3])
      /\ Blocks!FoldOf(c, 1, Axes) = g[3]
  BY <1>4 DEF Blocks!Walks
<1>6. BlockThreads(c) = Blocks!FoldOf(c, 1, Axes)
  BY DEF BlockThreads, Blocks!FoldOf, FoldLeft, MapThenFoldSet, Max,
         Blocks!FoldLeft, Blocks!MapThenFoldSet, Blocks!Max
<1>7. /\ g[1] = Saturated(x) /\ g[2] = Saturated(g[1] * y)
      /\ g[3] = Saturated(g[2] * z)
  BY <1>2, <1>5 DEF TimesAxis, t
<1> HIDE DEF x, y, z
<1>8. /\ x * y \in Nat /\ (x * y) * z \in Nat
      /\ x <= MaxU /\ x * y <= MaxU /\ (x * y) * z <= MaxU
  <2>1. x * y <= lx * ly /\ lx * ly \in Nat \ {0} /\ x * y \in Nat /\ lx <= lx * ly
    <3>1. x * y <= lx * y
      BY <1>2
    <3>2. lx * y <= lx * ly
      BY <1>2
    <3>3. lx * ly \in Nat \ {0} /\ lx <= lx * ly
      BY <1>2
    <3>4. x * y \in Nat /\ lx * y \in Nat
      BY <1>2
    <3> QED
      BY <3>1, <3>2, <3>3, <3>4
  <2> DEFINE a == x * y
             b == lx * ly
  <2>2. a \in Nat /\ b \in Nat /\ a <= b /\ b * lz <= MaxU
    BY <1>2, <2>1
  <2> HIDE DEF a, b
  <2>3. a * z <= b * z
    BY <1>2, <2>2
  <2>4. b * z <= b * lz
    BY <1>2, <2>2
  <2>5. b <= b * lz
    BY <1>2, <2>2
  <2>6. a * z \in Nat /\ b * z \in Nat /\ b * lz \in Nat
    BY <1>2, <2>2
  <2>7. a * z <= MaxU /\ a <= MaxU /\ b <= MaxU
    BY <1>2, <2>2, <2>3, <2>4, <2>5, <2>6
  <2>8. x <= MaxU
    BY <1>2, <2>1, <2>2, <2>7 DEF b
  <2> QED
    BY <2>2, <2>6, <2>7, <2>8 DEF a
<1>9. g[1] = x /\ g[2] = x * y /\ g[3] = (x * y) * z
  <2>1. g[1] = x
    BY <1>2, <1>7, <1>8 DEF Saturated
  <2>2. g[2] = x * y
    BY <1>2, <1>7, <1>8, <2>1 DEF Saturated
  <2> QED
    BY <1>2, <1>7, <1>8, <2>1, <2>2 DEF Saturated
<1> QED
  BY <1>3, <1>5, <1>6, <1>8, <1>9 DEF t, c, x, y, z

(* The product of the axes of a grid, none of them zero, none cut.         *)
LEMMA GridIs ==
  ASSUME NEW s \in Listed \cup Tuned, NEW c, IsEnv(c),
         \A i \in 1..3 : EvalPlan(s, s.grid[i], c) \in 1..Max32,
         EvalPlan(s, s.grid[1], c) * EvalPlan(s, s.grid[2], c)
           * EvalPlan(s, s.grid[3], c) <= MaxU
  PROVE  GridBlocks(s, c) = EvalPlan(s, s.grid[1], c)
                              * EvalPlan(s, s.grid[2], c)
                              * EvalPlan(s, s.grid[3], c)
<1> DEFINE n(i) == EvalPlan(s, s.grid[i], c)
           x == n(1)
           y == n(2)
           z == n(3)
           p == [spec |-> s, config |-> c]
<1>1. s.grid \in [1..3 -> Exprs]
  BY SpecsAre DEF Specs
<1>2. /\ x \in Nat /\ y \in Nat /\ z \in Nat /\ x >= 1 /\ y >= 1 /\ z >= 1
      /\ (x * y) * z <= MaxU /\ MaxU \in Nat /\ Max32 \in Nat /\ Max32 <= MaxU
  <2>1. n(1) \in 1..Max32 /\ n(2) \in 1..Max32 /\ n(3) \in 1..Max32
    OBVIOUS
  <2> QED
    BY <2>1, AxesAre
<1>3. ASSUME NEW i \in 1..3, NEW w \in Nat
      PROVE  TimesBlocks(p, w, s.grid[i]) = Saturated(w * n(i))
  <2> DEFINE e == s.grid[i]
             m == IF e.kind = "expr" THEN EvalExpr(e, c, Elements(s))
                  ELSE e.int % (MaxU + 1)
  <2>1. e \in Exprs /\ n(i) \in 1..Max32
    BY <1>1
  <2>2. m = n(i)
    <3>1. CASE e.kind = "expr"
      BY <2>1, <3>1, ExprIs
    <3>2. CASE e.kind # "expr"
      <4>1. e.int \in Int /\ n(i) = (IF e.int < 0 THEN Err ELSE e.int)
        BY <2>1, <3>2, ExprIs
      <4>2. e.int \in 1..Max32 /\ n(i) = e.int
        BY <1>2, <2>1, <4>1 DEF Err
      <4>3. \A k \in 0..MaxU : k % (MaxU + 1) = k
        BY <1>2
      <4> HIDE DEF n, e
      <4>4. e.int \in 0..MaxU
        BY <1>2, <4>2
      <4> QED
        BY <3>2, <4>2, <4>3, <4>4
    <3> QED
      BY <3>1, <3>2
  <2>3. TimesBlocks(p, w, e) =
          IF w = Err \/ m = Err THEN Err ELSE Saturated(w * (IF m = 0 THEN 1 ELSE m))
    BY DEF TimesBlocks
  <2> HIDE DEF n, m, e, p
  <2>4. w # Err /\ n(i) # Err /\ n(i) # 0
    BY <1>2, <2>1 DEF Err
  <2> QED
    BY <2>2, <2>3, <2>4 DEF e
<1>4. PICK g : Grids!Walks(g, p, Nat, 1, s.grid, 3)
  <2>1. ASSUME NEW i \in 1..3, NEW w \in Nat
        PROVE  TimesBlocks(p, w, s.grid[i]) \in Nat
    <3>1. n(i) \in Nat
      BY <1>2
    <3> HIDE DEF n
    <3> QED
      BY <1>2, <1>3, <3>1 DEF Saturated
  <2> HIDE DEF p
  <2>2. Grids!Stays(p, Nat, 1, s.grid, 3)
    BY <1>1, <2>1 DEF Grids!Stays
  <2> QED
    BY <2>2, Grids!FoldLeftIs
<1> HIDE DEF n, p
<1>5. /\ g[0] = 1 /\ g[1] = TimesBlocks(p, g[0], s.grid[1])
      /\ g[2] = TimesBlocks(p, g[1], s.grid[2])
      /\ g[3] = TimesBlocks(p, g[2], s.grid[3])
      /\ Grids!FoldOf(p, 1, s.grid) = g[3]
      /\ g[1] \in Nat /\ g[2] \in Nat
  BY <1>4 DEF Grids!Walks
<1>6. GridBlocks(s, c) = Grids!FoldOf(p, 1, s.grid)
  BY DEF GridBlocks, Grids!FoldOf, p, FoldLeft, MapThenFoldSet, Max,
         Grids!FoldLeft, Grids!MapThenFoldSet, Grids!Max
<1>7. /\ g[1] = Saturated(1 * x) /\ g[2] = Saturated(g[1] * y)
      /\ g[3] = Saturated(g[2] * z)
  BY <1>3, <1>5
<1> HIDE DEF x, y, z
<1>8. x * y \in Nat /\ x <= x * y /\ x * y <= (x * y) * z /\ (x * y) * z \in Nat
  <2>1. x * y \in Nat /\ x <= x * y
    BY <1>2
  <2> DEFINE a == x * y
  <2>2. a \in Nat
    BY <2>1
  <2> HIDE DEF a
  <2>3. a <= a * z /\ a * z \in Nat
    BY <1>2, <2>2
  <2> QED
    BY <2>1, <2>3 DEF a
<1>9. g[3] = (x * y) * z
  <2>1. g[1] = x
    BY <1>2, <1>7, <1>8 DEF Saturated
  <2>2. g[2] = x * y
    BY <1>2, <1>7, <1>8, <2>1 DEF Saturated
  <2> QED
    BY <1>2, <1>7, <1>8, <2>1, <2>2 DEF Saturated
<1> QED
  BY <1>5, <1>6, <1>9 DEF n, x, y, z

(* What the gate and the model were told is what is launched.              *)
LEMMA InvGateSeesTheLaunch ==
  ASSUME Inv
  PROVE  GateSeesTheLaunch
<1> SUFFICES ASSUME NEW q \in DOMAIN cands
             PROVE  LET c == Config(spec, space[cands[q].id])
                        axes == [i \in 1..3 |-> EvalPlan(spec, spec.grid[i], c)]
                        product(f) == f[1] * f[2] * f[3]
                    IN  /\ product(cands[q].block) = BlockThreads(c)
                        /\ ToSet(axes) \subseteq 1..Max32 /\ product(axes) <= MaxU =>
                             GridBlocks(spec, c) = product(cands[q].grid)
  BY DEF GateSeesTheLaunch
<1> DEFINE v == space[cands[q].id]
           c == Config(spec, v)
           axes == [i \in 1..3 |-> EvalPlan(spec, spec.grid[i], c)]
           t(i) == AxisThreads(c, Axes[i])
<1>1. /\ spec \in Listed \cup Tuned /\ Parses(spec) /\ v \in Indices(spec)
      /\ IsEnv(c) /\ cands[q] = Candidate(spec, cands[q].id, v)
  BY CandsAre
<1>2. /\ cands[q].block = [i \in 1..3 |-> AsU32(t(i))]
      /\ cands[q].grid = [i \in 1..3 |-> AsU32(axes[i])]
  BY <1>1 DEF Candidate
<1>3. ASSUME NEW k \in 0..Max32 PROVE AsU32(k) = k
  BY <1>3, AxesAre DEF AsU32
<1>4. /\ \A i \in 1..3 : t(i) \in 0..Max32
      /\ BlockThreads(c) = t(1) * t(2) * t(3)
  BY <1>1, ThreadsAre
<1>5. cands[q].block[1] * cands[q].block[2] * cands[q].block[3] = BlockThreads(c)
  <2> HIDE DEF t, c
  <2>1. /\ cands[q].block[1] = t(1) /\ cands[q].block[2] = t(2)
        /\ cands[q].block[3] = t(3)
    BY <1>2, <1>3, <1>4
  <2> QED
    BY <1>4, <2>1
<1>6. ASSUME ToSet(axes) \subseteq 1..Max32, axes[1] * axes[2] * axes[3] <= MaxU
      PROVE  GridBlocks(spec, c)
               = cands[q].grid[1] * cands[q].grid[2] * cands[q].grid[3]
  <2>1. \A i \in 1..3 : axes[i] \in ToSet(axes)
    BY DEF ToSet
  <2>2. \A i \in 1..3 : axes[i] \in 1..Max32 /\ axes[i] \in 0..Max32
    BY <1>6, <2>1
  <2>3. \A i \in 1..3 : axes[i] = EvalPlan(spec, spec.grid[i], c)
    OBVIOUS
  <2> HIDE DEF axes, c
  <2>4. /\ cands[q].grid[1] = axes[1] /\ cands[q].grid[2] = axes[2]
        /\ cands[q].grid[3] = axes[3]
    BY <1>2, <1>3, <2>2
  <2>5. GridBlocks(spec, c) = axes[1] * axes[2] * axes[3]
    BY <1>1, <1>6, <2>2, <2>3, GridIs
  <2> QED
    BY <2>4, <2>5
<1> QED
  BY <1>5, <1>6

-----------------------------------------------------------------------------
(* The ranking.                                                            *)

ByMedian(S) ==
  {p \in S \X S :
     \/ p[1].summary.med < p[2].summary.med
     \/ p[1].summary.med = p[2].summary.med /\ p[1].id < p[2].id}

(* r is ranked before q.                                                   *)
Ahead(r, q) ==
  \/ r.summary.med < q.summary.med
  \/ r.summary.med = q.summary.med /\ r.id < q.id

(* The ranking lists every measured row once.                              *)
LEMMA FastestFirstLists ==
  ASSUME Inv, NEW S \in SUBSET Summarized
  PROVE  /\ Lists(FastestFirst(S), S, ByMedian(S))
         /\ \A r, q \in S : <<r, q>> \in ByMedian(S) <=> Ahead(r, q)
<1>1. IsFiniteSet(S)
  BY SummarizedFinite, FS_Subset
<1>2. /\ \A r \in S : r.summary.med \in Nat /\ r.id \in Nat
      /\ \A r, q \in S : r.id = q.id => r = q
  BY SummarizedAre, SummarizedDiffer
<1>3. \A r, q \in S : <<r, q>> \in ByMedian(S) <=> Ahead(r, q)
  BY DEF ByMedian, Ahead
<1>4. /\ \A r \in S : ~Ahead(r, r)
      /\ \A r, q \in S : r # q => Ahead(r, q) \/ Ahead(q, r)
      /\ \A r, q, u \in S : Ahead(r, q) /\ Ahead(q, u) => Ahead(r, u)
  BY <1>2 DEF Ahead
<1>5. Orders(S, ByMedian(S))
  BY <1>1, <1>3, <1>4 DEF Orders
<1>6. FastestFirst(S) = Sorted(S, ByMedian(S))
  BY DEF FastestFirst, ByMedian
<1> QED
  BY <1>3, <1>5, <1>6, SortedLists

(* And so does the list by id.                                             *)
LEMMA ByIdLists ==
  ASSUME Inv, NEW S \in SUBSET Summarized
  PROVE  \E R : Lists(ById(S), S, R)
<1> DEFINE R == {p \in S \X S : p[1].id < p[2].id}
<1>1. IsFiniteSet(S)
  BY SummarizedFinite, FS_Subset
<1>2. /\ \A r \in S : r.id \in Nat
      /\ \A r, q \in S : r.id = q.id => r = q
  BY SummarizedAre, SummarizedDiffer
<1>3. \A r, q \in S : <<r, q>> \in R <=> r.id < q.id
  OBVIOUS
<1>4. ById(S) = Sorted(S, R)
  BY DEF ById
<1> HIDE DEF R
<1>5. Orders(S, R)
  BY <1>1, <1>2, <1>3 DEF Orders
<1> QED
  BY <1>4, <1>5, SortedLists

(* The chosen row is the one ahead of all that were not refused.           *)
LEMMA ChosenIs ==
  ASSUME Inv, ChosenIds # {}
  PROVE  \E c \in Summarized \ RefusedRows :
           /\ ChosenIds = {c.id}
           /\ \A r \in Summarized \ RefusedRows : ~Ahead(r, c)
<1> DEFINE E == Summarized \ RefusedRows
           F == FastestFirst(E)
           best(r) == \A q \in E : \/ r.summary.med < q.summary.med
                                   \/ r.summary.med = q.summary.med /\ r.id <= q.id
<1>1. /\ \A r \in E : r.summary.med \in Nat /\ r.id \in Nat
      /\ \A r, q \in E : r.id = q.id => r = q
  BY SummarizedAre, SummarizedDiffer
<1>2. E # {} /\ ChosenIds = {Fastest(E).id}
  BY DEF ChosenIds
<1>3. /\ Lists(F, E, ByMedian(E)) /\ E \in SUBSET Summarized
      /\ \A r, q \in E : <<r, q>> \in ByMedian(E) <=> Ahead(r, q)
  BY FastestFirstLists
<1>4. \E r \in E : best(r)
  <2> HIDE DEF F, E
  <2>1. /\ Cardinality(E) \in Nat /\ F \in [1..Cardinality(E) -> E]
        /\ \A i, j \in 1..Cardinality(E) : i < j <=> <<F[i], F[j]>> \in ByMedian(E)
        /\ \A x \in E : \E i \in 1..Cardinality(E) : F[i] = x
    BY <1>3 DEF Lists
  <2>2. 1 \in 1..Cardinality(E)
    BY <1>2, <2>1
  <2>3. ASSUME NEW q \in E
        PROVE  \/ F[1].summary.med < q.summary.med
               \/ F[1].summary.med = q.summary.med /\ F[1].id <= q.id
    <3>1. PICK i \in 1..Cardinality(E) : F[i] = q
      BY <2>1
    <3>2. CASE i = 1
      BY <1>1, <2>1, <2>2, <3>1, <3>2
    <3>3. CASE i # 1
      <4>1. 1 < i
        BY <2>1, <3>3
      <4>2. F[1] \in E /\ Ahead(F[1], q)
        BY <1>3, <2>1, <2>2, <3>1, <4>1
      <4> QED
        BY <1>1, <4>2 DEF Ahead
    <3> QED
      BY <3>2, <3>3
  <2> QED
    BY <2>1, <2>2, <2>3
<1>5. Fastest(E) \in E /\ best(Fastest(E))
  <2>1. Fastest(E) = CHOOSE r \in E : best(r)
    BY DEF Fastest
  <2> HIDE DEF E, best
  <2> QED
    BY <1>4, <2>1
<1> DEFINE c == Fastest(E)
<1>6. ASSUME NEW r \in E PROVE ~Ahead(r, c)
  <2>1. c \in E /\ best(c)
    BY <1>5
  <2> HIDE DEF c, E
  <2>2. /\ c.summary.med \in Nat /\ c.id \in Nat
        /\ r.summary.med \in Nat /\ r.id \in Nat
    BY <1>1, <2>1
  <2>3. \/ c.summary.med < r.summary.med
        \/ c.summary.med = r.summary.med /\ c.id <= r.id
    BY <2>1
  <2> QED
    BY <2>2, <2>3 DEF Ahead
<1> QED
  BY <1>2, <1>5, <1>6

(* What is drawn of a ranking: a stretch of it.                            *)
Draws(shown, F, n, d, m) ==
  /\ d \in Nat /\ m \in Nat /\ DOMAIN shown = 1..m
  /\ \A i \in 1..m : /\ d + i \in 1..n
                     /\ shown[i].id = F[d + i].id
                     /\ shown[i].marker = Marker(F[d + i])

(* The overview draws the head of the ranking, the ranking its rest.       *)
LEMMA ScreenDraws ==
  ASSUME Inv, view \in {"overview", "ranking"}
  PROVE  \E d, m : /\ Draws(Screen, FastestFirst(Summarized),
                            Cardinality(Summarized), d, m)
                   /\ scroll = 0 => d = 0
<1> DEFINE F == FastestFirst(Summarized)
           n == Cardinality(Summarized)
<1>1. n \in Nat /\ F \in [1..n -> Summarized]
  BY FastestFirstLists DEF Lists
<1>2. CASE view = "overview"
  <2>1. Screen = OverviewLines
    BY <1>2 DEF Screen
  <2>2. CASE n > 1 /\ Room > 1
    <3> DEFINE m == Least({Room, n})
               part == SubSeq(F, 1, m)
    <3>1. m \in 1..n
      <4>1. Room \in Nat
        BY TuneAssumption DEF TuneAssumption
      <4>2. \E x \in {Room, n} : \A y \in {Room, n} : x <= y
        BY <1>1, <4>1
      <4>3. m \in {Room, n} /\ \A y \in {Room, n} : m <= y
        BY <4>2 DEF Least
      <4> HIDE DEF m, n
      <4> QED
        BY <1>1, <2>2, <4>1, <4>3
    <3> HIDE DEF m, F
    <3>2. \A i \in 1..m : F[i] \in Summarized
      BY <1>1, <3>1
    <3>3. m - 1 + 1 = m /\ m \in Int /\ 1 <= m
      BY <1>1, <3>1
    <3>4. /\ part \in Seq(Summarized) /\ Len(part) = m
          /\ \A i \in 1..m : part[i] = F[i]
      <4>1. /\ part \in Seq(Summarized)
            /\ Len(part) = IF 1 <= m THEN m - 1 + 1 ELSE 0
            /\ \A i \in 1..(m - 1 + 1) : part[i] = F[1 + i - 1]
        BY <3>2, <3>3, SubSeqProperties
      <4>2. \A i \in 1..m : 1 + i - 1 = i
        BY <3>3
      <4> QED
        BY <3>3, <4>1, <4>2
    <3> HIDE DEF part
    <3>5. OverviewLines = Lines(part)
      BY <2>2 DEF OverviewLines, part, F, m
    <3>6. Draws(Lines(part), F, n, 0, m)
      <4>1. DOMAIN part = 1..m /\ m \in Nat
        BY <1>1, <3>1, <3>4
      <4>2. ASSUME NEW i \in 1..m
            PROVE  /\ 0 + i \in 1..n /\ Lines(part)[i].id = F[0 + i].id
                   /\ Lines(part)[i].marker = Marker(F[0 + i])
        <5>1. 0 + i = i /\ i \in 1..n
          BY <1>1, <3>1
        <5>2. Lines(part)[i] = [id |-> part[i].id, marker |-> Marker(part[i])]
          BY <4>1 DEF Lines
        <5> QED
          BY <3>4, <5>1, <5>2
      <4>3. DOMAIN Lines(part) = 1..m
        BY <4>1 DEF Lines
      <4> QED
        BY <4>1, <4>2, <4>3 DEF Draws
    <3> QED
      BY <2>1, <3>5, <3>6 DEF F
  <2>3. CASE ~(n > 1 /\ Room > 1)
    <3>1. Screen = <<>>
      BY <2>1, <2>3 DEF OverviewLines
    <3>2. DOMAIN <<>> = 1..0
      OBVIOUS
    <3>3. Draws(<<>>, F, n, 0, 0)
      BY <3>2 DEF Draws
    <3> QED
      BY <3>1, <3>3
  <2> QED
    BY <2>2, <2>3
<1>3. CASE view = "ranking"
  <2> DEFINE lines == Lines(F)
             part == SubSeq(lines, scroll + 1, n)
             m == IF scroll + 1 <= n THEN n - scroll ELSE 0
             L == {lines[k] : k \in 1..n}
  <2>1. /\ DOMAIN lines = 1..n
        /\ \A k \in 1..n : lines[k] = [id |-> F[k].id, marker |-> Marker(F[k])]
    BY <1>1 DEF Lines
  <2>2. Len(lines) = n
    BY <1>1, <2>1
  <2>3. scroll \in Nat
    BY DEF Inv, PlanInv
  <2>4. Screen = part
    BY <1>3, <2>2 DEF Screen, RankingLines, From
  <2> HIDE DEF lines, F, n
  <2>5. /\ part \in Seq(L) /\ Len(part) = m
        /\ \A i \in 1..m : part[i] = lines[scroll + i]
    <3>1. \A k \in (scroll + 1)..n : lines[k] \in L
      BY <1>1, <2>3
    <3>2. scroll + 1 \in Int /\ n \in Int
      BY <1>1, <2>3
    <3> HIDE DEF L
    <3>3. /\ part \in Seq(L)
          /\ Len(part) = IF scroll + 1 <= n THEN n - (scroll + 1) + 1 ELSE 0
          /\ \A i \in 1..(n - (scroll + 1) + 1) :
               part[i] = lines[(scroll + 1) + i - 1]
      BY <3>1, <3>2, SubSeqProperties
    <3>4. Len(part) = m
      BY <1>1, <2>3, <3>3
    <3>5. ASSUME NEW i \in 1..m PROVE part[i] = lines[scroll + i]
      <4>1. i \in 1..(n - (scroll + 1) + 1) /\ (scroll + 1) + i - 1 = scroll + i
        BY <1>1, <2>3
      <4> QED
        BY <3>3, <4>1
    <3> QED
      BY <3>3, <3>4, <3>5
  <2> HIDE DEF L
  <2>6. DOMAIN part = 1..m /\ m \in Nat
    BY <1>1, <2>3, <2>5
  <2>7. ASSUME NEW i \in 1..m
        PROVE  /\ scroll + i \in 1..n /\ part[i].id = F[scroll + i].id
               /\ part[i].marker = Marker(F[scroll + i])
    <3>1. scroll + i \in 1..n
      BY <1>1, <2>3
    <3> HIDE DEF part, m
    <3> QED
      BY <2>1, <2>5, <3>1
  <2> HIDE DEF m, part
  <2>8. Draws(part, F, n, scroll, m)
    BY <2>3, <2>6, <2>7 DEF Draws
  <2> QED
    BY <2>4, <2>8 DEF F, n
<1> QED
  BY <1>2, <1>3

(* So only refused rows stand above the chosen one.                        *)
LEMMA InvOnlyRefusedAboveChosen ==
  ASSUME Inv
  PROVE  OnlyRefusedAboveChosen
<1> DEFINE faster == {r.id : r \in RejectedFaster}
           F == FastestFirst(Summarized)
           n == Cardinality(Summarized)
           shown == Screen
<1> SUFFICES ASSUME phase = "browse", view \in {"overview", "ranking"}
             PROVE  /\ \A i, j \in DOMAIN shown : i < j =>
                         /\ shown[j].marker = "chosen" => shown[i].marker = "refused"
                         /\ shown[i].marker = "chosen" => shown[j].id \notin faster
                    /\ scroll = 0 /\ shown # <<>> /\ ChosenIds # {} =>
                         \/ \E k \in DOMAIN shown : shown[k].marker = "chosen"
                         \/ \A k \in DOMAIN shown : shown[k].marker = "refused"
  BY DEF OnlyRefusedAboveChosen
<1>1. PICK d, m : Draws(shown, F, n, d, m) /\ (scroll = 0 => d = 0)
  BY ScreenDraws
<1> HIDE DEF shown
<1>2. /\ n \in Nat /\ F \in [1..n -> Summarized]
      /\ \A i, j \in 1..n : i < j <=> Ahead(F[i], F[j])
      /\ \A i, j \in 1..n : F[i] = F[j] => i = j
      /\ \A r \in Summarized : \E i \in 1..n : F[i] = r
  <2>1. /\ Lists(F, Summarized, ByMedian(Summarized))
        /\ \A r, q \in Summarized : <<r, q>> \in ByMedian(Summarized) <=> Ahead(r, q)
    BY FastestFirstLists
  <2> HIDE DEF F
  <2> QED
    BY <2>1 DEF Lists
<1> HIDE DEF F, n
<1>3. /\ d \in Nat /\ m \in Nat /\ DOMAIN shown = 1..m
      /\ \A i \in 1..m : /\ d + i \in 1..n /\ shown[i].id = F[d + i].id
                         /\ shown[i].marker = Marker(F[d + i])
  BY <1>1 DEF Draws
<1>4. \A r : Marker(r) = "chosen" <=> r.id \in ChosenIds
  BY DEF Marker
(* What stands before the chosen row was refused.                          *)
<1>5. ASSUME NEW i \in 1..n, NEW j \in 1..n, i < j, F[j].id \in ChosenIds
      PROVE  Marker(F[i]) = "refused"
  <2>1. PICK c \in Summarized \ RefusedRows :
          /\ ChosenIds = {c.id}
          /\ \A r \in Summarized \ RefusedRows : ~Ahead(r, c)
    BY <1>5, ChosenIs
  <2>2. F[i] \in Summarized /\ F[j] \in Summarized /\ F[j] = c
    BY <1>2, <1>5, <2>1, SummarizedDiffer
  <2>3. F[i] \in RefusedRows
    BY <1>2, <1>5, <2>1, <2>2
  <2>4. F[i].id # c.id
    BY <2>1, <2>2, <2>3, SummarizedDiffer
  <2>5. verdict[F[i].id] = "disqualified"
    BY <2>3 DEF RefusedRows
  <2> QED
    BY <2>1, <2>4, <2>5 DEF Marker
(* A refused row that is faster stands before it.                          *)
<1>6. ASSUME NEW i \in 1..n, NEW j \in 1..n, i < j, F[i].id \in ChosenIds,
             F[j].id \in faster
      PROVE  FALSE
  <2>1. PICK c \in Summarized : ChosenIds = {c.id}
    BY <1>6, ChosenIs
  <2>2. PICK r \in RejectedFaster : r.id = F[j].id
    BY <1>6
  <2>3. r \in Summarized /\ \E b \in Summarized : b.id \in ChosenIds
                                /\ r.summary.hi < b.summary.lo
    BY <2>2 DEF RejectedFaster, RefusedRows
  <2>4. r = F[j] /\ c = F[i]
    BY <1>2, <1>6, <2>1, <2>2, <2>3, SummarizedDiffer
  <2>5. r.summary.hi < c.summary.lo
    BY <2>1, <2>3, SummarizedDiffer
  <2>6. /\ r.summary.hi \in Nat /\ r.summary.med \in Nat
        /\ r.summary.hi < Inf => r.summary.med <= r.summary.hi
    BY <2>3, SummarizedAre
  <2>7. /\ c.summary.lo \in Nat /\ c.summary.med \in Nat
        /\ c.summary.lo <= c.summary.med /\ c.summary.lo <= Inf
    BY SummarizedAre
  <2>8. r.summary.med < c.summary.med
    BY <2>5, <2>6, <2>7, StatsAssumption DEF StatsAssumption
  <2>9. Ahead(F[j], F[i])
    BY <2>4, <2>8 DEF Ahead
  <2> QED
    BY <1>2, <1>6, <2>9
<1>7. ASSUME NEW i \in 1..m, NEW j \in 1..m, i < j
      PROVE  /\ shown[j].marker = "chosen" => shown[i].marker = "refused"
             /\ shown[i].marker = "chosen" => shown[j].id \notin faster
  <2>1. d + i \in 1..n /\ d + j \in 1..n /\ d + i < d + j
    BY <1>3, <1>7
  <2> HIDE DEF faster
  <2> QED
    BY <1>3, <1>4, <1>5, <1>6, <2>1
<1>8. ASSUME scroll = 0, ChosenIds # {},
             ~\E k \in 1..m : shown[k].marker = "chosen",
             NEW k \in 1..m
      PROVE  shown[k].marker = "refused"
  <2>1. PICK c \in Summarized : ChosenIds = {c.id}
    BY <1>8, ChosenIs
  <2>2. PICK j \in 1..n : F[j] = c
    BY <1>2
  <2>3. /\ d = 0 /\ \A i \in 1..m : i \in 1..n /\ shown[i].marker = Marker(F[i])
    BY <1>1, <1>3, <1>8
  <2>4. ~(j \in 1..m)
    BY <1>4, <1>8, <2>1, <2>2, <2>3
  <2>5. k < j
    BY <1>2, <1>3, <2>4
  <2> QED
    BY <1>5, <2>1, <2>2, <2>3, <2>5
<1> QED
  BY <1>3, <1>7, <1>8

-----------------------------------------------------------------------------
(* The correlation.                                                        *)

(* A least member of two numbers or three.                                 *)
LEMMA LeastIs ==
  ASSUME NEW T \in SUBSET Nat, T # {}
  PROVE  Least(T) \in T /\ \A y \in T : Least(T) <= y
BY Products!LeastMember DEF Least

(* What an estimate asks for is a number, if it can be computed.           *)
LEMMA GridBlocksIs ==
  ASSUME NEW s \in Listed \cup Tuned, NEW c, IsEnv(c)
  PROVE  GridBlocks(s, c) \in Nat \cup {Err}
<1> DEFINE p == [spec |-> s, config |-> c]
           V == Nat \cup {Err}
<1>1. s.grid \in [1..3 -> Exprs]
  BY SpecsAre DEF Specs
<1>2. ASSUME NEW i \in 1..3, NEW w \in V PROVE TimesBlocks(p, w, s.grid[i]) \in V
  <2> DEFINE e == s.grid[i]
             k == IF e.kind = "expr" THEN EvalExpr(e, c, Elements(s))
                  ELSE e.int % (MaxU + 1)
  <2>1. e \in Exprs
    BY <1>1
  <2>2. k \in Numbers \cup {Err}
    BY <2>1, ExprIs
  <2>3. TimesBlocks(p, w, e) =
          IF w = Err \/ k = Err THEN Err ELSE Saturated(w * (IF k = 0 THEN 1 ELSE k))
    BY DEF TimesBlocks
  <2> HIDE DEF k, e, p
  <2>4. ASSUME w # Err, k # Err
        PROVE  w \in Nat /\ (IF k = 0 THEN 1 ELSE k) \in Nat /\ MaxU \in Nat
    BY <2>2, <2>4, NumbersAre
  <2>5. ASSUME w # Err, k # Err
        PROVE  Saturated(w * (IF k = 0 THEN 1 ELSE k)) \in Nat
    <3> DEFINE u == IF k = 0 THEN 1 ELSE k
    <3>1. w \in Nat /\ u \in Nat /\ MaxU \in Nat
      BY <2>4, <2>5
    <3> HIDE DEF u
    <3>2. Saturated(w * u) \in Nat
      BY <3>1 DEF Saturated
    <3> QED
      BY <3>2 DEF u
  <2> QED
    BY <2>3, <2>5 DEF e
<1> HIDE DEF p
<1>3. Grids!Stays(p, V, 1, s.grid, 3)
  BY <1>1, <1>2 DEF Grids!Stays
<1> HIDE DEF V
<1>4. PICK g : Grids!Walks(g, p, V, 1, s.grid, 3)
  BY <1>3, Grids!FoldLeftIs
<1>5. g[3] \in V /\ Grids!FoldOf(p, 1, s.grid) = g[3]
  BY <1>4 DEF Grids!Walks
<1>6. GridBlocks(s, c) = Grids!FoldOf(p, 1, s.grid)
  BY DEF GridBlocks, Grids!FoldOf, p, FoldLeft, MapThenFoldSet, Max,
         Grids!FoldLeft, Grids!MapThenFoldSet, Grids!Max
<1> QED
  BY <1>5, <1>6 DEF V

(* The parameters of the device.                                           *)
LEMMA DeviceIs ==
  /\ Device.sm_count \in Nat \ {0} /\ Device.max_threads \in Nat \ {0}
  /\ Device.max_warps \in Nat \ {0} /\ Device.max_blocks \in Nat \ {0}
  /\ Device.smem_per_block \in Nat \ {0} /\ Device.smem_per_sm \in Nat \ {0}
  /\ Warp \in Nat \ {0}
<1>1. Device \in [DeviceFields -> Nat \ {0}] /\ Warp \in Nat \ {0}
  BY EstimatesAssumption DEF EstimatesAssumption
<1>2. \A f \in DeviceFields : Device[f] \in Nat \ {0}
  BY <1>1
<1> QED
  BY <1>1, <1>2 DEF DeviceFields

(* An estimate that can be computed is infinite or a fraction.             *)
LEMMA CostIs ==
  ASSUME NEW s \in Listed \cup Tuned, Parses(s), NEW v \in Indices(s),
         Estimates(s, Config(s, v))
  PROVE  Cost(s, Config(s, v)) \in Costs \cup {Infinite}
<1> DEFINE c == Config(s, v)
           b == BlocksPerSm(s, c)
           t == Threads(c)
           sm == Smem(s, c)
<1>1. IsEnv(c)
  BY ConfigIs
<1>2. sm \in Nat
  <2>1. sm # Err
    BY DEF Estimates
  <2>2. s.smem \in Seq(Tokens)
    BY SpecsAre DEF Specs
  <2>3. s.smem # <<>> => sm \in Numbers \cup {Err}
    BY <1>1, <2>2, EvalIs DEF Smem
  <2>4. s.smem = <<>> => sm = 0
    BY DEF Smem
  <2> HIDE DEF sm
  <2> QED
    BY <2>1, <2>3, <2>4, NumbersAre
<1>3. t \in Nat \ {0}
  <2>1. BlockThreads(c) \in Nat
    BY ThreadsAre
  <2> HIDE DEF c
  <2> QED
    BY <2>1 DEF Threads
<1>4. b \in Nat
  <2> DEFINE x == Device.max_threads \div t
             y == Device.smem_per_sm \div sm
             T == {x, Device.max_blocks} \cup (IF sm = 0 THEN {} ELSE {y})
  <2>1. x \in Nat /\ Device.max_blocks \in Nat
    <3> HIDE DEF t
    <3> QED
      BY <1>3, DeviceIs
  <2>2. sm # 0 => y \in Nat
    <3> HIDE DEF sm
    <3> QED
      BY <1>2, DeviceIs
  <2>3. b = Least(T)
    BY DEF BlocksPerSm
  <2> HIDE DEF x, y, sm, t, c
  <2>4. T \in SUBSET Nat /\ T # {}
    BY <2>1, <2>2
  <2> HIDE DEF T, b
  <2> QED
    BY <2>3, <2>4, LeastIs
<1>5. CASE ~Launchable(s, c)
  BY <1>5 DEF Cost
<1>6. CASE Launchable(s, c)
  <2> DEFINE resident == b * Device.sm_count
             warps == b * CeilDiv(t, Warp)
             g == GridBlocks(s, c)
             waves == Max({g, resident})
             least == Least({warps, Device.max_warps})
  <2>1. b > 0 /\ g # Err
    BY <1>6 DEF Launchable, Estimates
  <2>2. g \in Nat
    BY <1>1, <2>1, GridBlocksIs
  <2>3. Cost(s, c) = <<waves * Device.max_warps, resident * least>>
    BY <1>6 DEF Cost
  <2> HIDE DEF b, t, c, sm, g
  <2>4. resident \in Nat \ {0}
    <3> DEFINE q == Device.sm_count
    <3>1. q \in Nat \ {0}
      BY DeviceIs
    <3> HIDE DEF q
    <3>2. b * q \in Nat \ {0}
      BY <1>4, <2>1, <3>1
    <3> QED
      BY <3>2 DEF q
  <2>5. CeilDiv(t, Warp) \in Nat \ {0}
    <3>1. Warp \in Nat \ {0}
      BY DeviceIs
    <3>2. t + Warp - 1 \in Nat /\ t + Warp - 1 >= Warp
      BY <1>3, <3>1
    <3> DEFINE a == t + Warp - 1
    <3>3. a \in Nat /\ a >= Warp
      BY <3>2
    <3> HIDE DEF a
    <3>4. a \div Warp \in Nat /\ a \div Warp >= 1
      BY <3>1, <3>3
    <3> QED
      BY <3>4 DEF CeilDiv, a
  <2>6. warps \in Nat \ {0}
    <3> DEFINE q == CeilDiv(t, Warp)
    <3>1. q \in Nat \ {0}
      BY <2>5
    <3> HIDE DEF q
    <3>2. b * q \in Nat \ {0}
      BY <1>4, <2>1, <3>1
    <3> QED
      BY <3>2 DEF q
  <2> HIDE DEF resident, warps
  <2>7. least \in Nat \ {0}
    <3> DEFINE T == {warps, Device.max_warps}
    <3>1. T \in SUBSET (Nat \ {0}) /\ T # {}
      BY <2>6, DeviceIs
    <3> HIDE DEF T
    <3>2. Least(T) \in T
      BY <3>1, LeastIs
    <3> QED
      BY <3>1, <3>2 DEF T
  <2>8. waves \in Nat
    <3> DEFINE T == {g, resident}
    <3>1. \E x \in T : \A y \in T : x >= y
      BY <2>2, <2>4
    <3>2. T \in SUBSET Nat
      BY <2>2, <2>4
    <3> HIDE DEF T
    <3>3. Max(T) \in T
      BY <3>1 DEF Max
    <3> QED
      BY <3>2, <3>3 DEF T
  <2> HIDE DEF least, waves
  <2>9. waves * Device.max_warps \in Nat /\ resident * least \in Nat \ {0}
    <3> DEFINE q == Device.max_warps
    <3>1. q \in Nat
      BY DeviceIs
    <3> HIDE DEF q
    <3>2. waves * q \in Nat /\ resident * least \in Nat \ {0}
      BY <2>4, <2>7, <2>8, <3>1
    <3> QED
      BY <3>2 DEF q
  <2> QED
    BY <2>3, <2>9 DEF Costs, c
<1> QED
  BY <1>5, <1>6

(* A median of times that could be read is a number.                       *)
LEMMA ReadMedians ==
  ASSUME Inv, Readable, NEW r \in Summarized
  PROVE  r.summary.med # NaN
<1>1. PICK n \in Nat : r.times \in [1..n -> Timings]
  BY SummarizedAre
<1>2. /\ r.summary = Summarize(r.times) /\ r.summary # NoSummary
      /\ r \in ToSet(rows)
  BY SummarizedAre DEF Summarized, Timed
<1>3. Describes(r.summary, r.times)
  BY <1>1, <1>2, SummaryDescribes
<1>4. PICK k \in DOMAIN r.times : r.summary.hi = Quarters(r.times[k])
  BY <1>3 DEF Describes
<1>5. r.times[k] \in Timings /\ r.times[k] < Inf
  BY <1>1, <1>2 DEF Readable
<1>6. r.summary.hi # Inf
  BY <1>4, <1>5, TimingsAre
<1> QED
  BY <1>3, <1>6 DEF Describes

(* The correlation of the model with the rows is that of `spearman'.       *)
LEMMA InvCorrelationIsSound ==
  ASSUME Inv
  PROVE  CorrelationIsSound
<1> DEFINE S == {r \in Summarized : costs[r.id] # Infinite}
           n == Cardinality(S)
           P == Paired
           cs == [p \in DOMAIN P |-> costs[P[p].id]]
           ms == [p \in DOMAIN P |-> P[p].summary.med]
           cheaper(a, b) == Cheaper(costs[a.id], costs[b.id])
           faster(a, b) == a.summary.med < b.summary.med
           pairs == ToSet(P)
<1> SUFFICES ASSUME rho # NoCorrelation
             PROVE  /\ rho.num * rho.num <= rho.dx * rho.dy
                    /\ (\A a, b \in pairs : cheaper(a, b) <=> faster(a, b)) =>
                         rho.num = rho.dx /\ rho.num = rho.dy
                    /\ (\A a, b \in pairs : cheaper(a, b) <=> faster(b, a)) =>
                         rho.num = -rho.dx /\ rho.num = -rho.dy
  BY DEF CorrelationIsSound
<1>1. /\ phase = "modelled" /\ rho = Spearman(cs, ms)
      /\ costs = [k \in DOMAIN space |-> Cost(spec, Config(spec, space[k]))]
      /\ \A k \in DOMAIN space : Estimates(spec, Config(spec, space[k]))
      /\ Readable
  BY DEF Inv, ModelInv
<1>2. PICK R : Lists(P, S, R)
  BY ByIdLists DEF Paired
<1>3. n \in Nat /\ P \in [1..n -> S]
  BY <1>2 DEF Lists
<1>4. ASSUME NEW r \in S
      PROVE  costs[r.id] \in Costs /\ r.summary.med \in Nat /\ r.summary.med # NaN
  <2>1. r \in Summarized /\ r.id \in DOMAIN space /\ r.summary.med \in Nat
    BY SummarizedAre
  <2>2. spec \in Listed \cup Tuned /\ Parses(spec) /\ space \in Seq(Indices(spec))
    BY <1>1 DEF Inv, PlanInv, EnumerationInv, Early
  <2>3. space[r.id] \in Indices(spec)
    BY <2>1, <2>2
  <2>4. costs[r.id] = Cost(spec, Config(spec, space[r.id]))
    BY <1>1, <2>1
  <2>5. costs[r.id] \in Costs \cup {Infinite}
    BY <1>1, <2>1, <2>2, <2>3, <2>4, CostIs
  <2>6. costs[r.id] # Infinite
    OBVIOUS
  <2>7. r.summary.med # NaN
    BY <1>1, <2>1, ReadMedians
  <2> QED
    BY <2>1, <2>5, <2>6, <2>7
<1> HIDE DEF S, n, P
<1>5. /\ cs \in [1..n -> Costs] /\ ms \in [1..n -> Nat]
      /\ \A k \in 1..n : /\ cs[k] = costs[P[k].id] /\ ms[k] = P[k].summary.med
                         /\ ms[k] # NaN
  <2>1. \A k \in 1..n : P[k] \in S
    BY <1>3
  <2> QED
    BY <1>3, <1>4, <2>1
<1>6. pairs = {P[k] : k \in 1..n}
  BY <1>3 DEF ToSet
<1> HIDE DEF cs, ms, pairs
<1>7. IsCorrelation(rho, cs, ms, n)
  BY <1>1, <1>3, <1>5, SpearmanIs
<1>8. rho.num * rho.num <= rho.dx * rho.dy
  BY <1>7 DEF IsCorrelation
<1>9. \A k \in 1..n : ms[k] # NaN
  BY <1>5
<1>10. ASSUME \A a, b \in pairs : cheaper(a, b) <=> faster(a, b)
       PROVE  \A j, k \in 1..n : Cheaper(cs[j], cs[k]) <=> ms[j] < ms[k]
  BY <1>5, <1>6, <1>10
<1>11. ASSUME \A a, b \in pairs : cheaper(a, b) <=> faster(b, a)
       PROVE  \A j, k \in 1..n : Cheaper(cs[j], cs[k]) <=> ms[k] < ms[j]
  BY <1>5, <1>6, <1>11
<1> QED
  BY <1>7, <1>8, <1>9, <1>10, <1>11 DEF IsCorrelation

-----------------------------------------------------------------------------
(* The properties.                                                         *)

(* Every step leaves every variable well formed, of any spec: what is kept, *)
(* judged, planned, ordered and measured refers to a configuration of it,  *)
(* and the cursor of the terminal UI is never negative.                    *)
THEOREM TypesHold == Spec => []TypeOK
<1>1. Inv => TypeOK
  BY InvTypeOK
<1> QED
  BY <1>1, InvHolds, PTL

(* The enumeration of `enumerate' visits every configuration once, in the  *)
(* order of the odometer, and keeps those that satisfy the constraints, of *)
(* any number of dimensions and values.                                    *)
THEOREM EnumerationComplete == Spec => []EnumerationIsComplete
<1>1. Inv => EnumerationIsComplete
  BY DEF Inv, EnumerationInv
<1> QED
  BY <1>1, InvHolds, PTL

(* The left-to-right evaluation of `Constraint::eval', with its pending    *)
(* operator and its early errors, means what the grammar says in exact     *)
(* integers, of constraints of any length and numbers up to any bound: a   *)
(* configuration is kept if and only if they are all true of it, and the   *)
(* enumeration ends in an error only where one of them has no value.       *)
THEOREM ConstraintsMeanTheGrammar == Spec => []ConstraintsAreExact
<1>1. Inv => ConstraintsAreExact
  BY InvConstraintsAreExact DEF Inv
<1> QED
  BY <1>1, InvHolds, PTL

(* The launch `BenchSpec::candidate' resolves is the one the gate and the  *)
(* model were told: the threads are those of the block, whatever the       *)
(* configuration, and the blocks those of the grid, unless an axis of it   *)
(* is zero or is cut to 32 bits.                                           *)
THEOREM LaunchIsJudged == Spec => []GateSeesTheLaunch
<1>1. Inv => GateSeesTheLaunch
  BY InvGateSeesTheLaunch
<1> QED
  BY <1>1, InvHolds, PTL

(* The shuffle of `Strategy::order' visits every candidate once whatever   *)
(* the generator draws, and the measurements follow it, of any number of   *)
(* candidates.                                                             *)
THEOREM OrderVisits == Spec => []OrderVisitsEach
<1>1. ASSUME OrderInv PROVE OrderVisitsEach
  BY <1>1, PermutesIs DEF OrderInv, OrderVisitsEach, Permutes
<1>2. Inv => OrderVisitsEach
  BY <1>1 DEF Inv
<1> QED
  BY <1>2, InvHolds, PTL

(* Every summary `summarize' makes describes its sample, of any number of  *)
(* times and with infinite and NaN ones among them: it keeps half of them, *)
(* no NaN, and brackets the median with the ends of its interval, or the   *)
(* median is NaN and the interval ends in an infinite time.                *)
THEOREM SummariesDescribe == Spec => []SummaryIsSound
<1>1. Inv => SummaryIsSound
  BY InvSummaryIsSound
<1> QED
  BY <1>1, InvHolds, PTL

(* On the screens of the terminal UI only refused configurations stand     *)
(* above the one the report chose, and every one the report calls faster   *)
(* does, of any number of measured candidates, room and scroll.            *)
THEOREM ScreenKeepsTheChosen == Spec => []OnlyRefusedAboveChosen
<1>1. Inv => OnlyRefusedAboveChosen
  BY InvOnlyRefusedAboveChosen
<1> QED
  BY <1>1, InvHolds, PTL

(* The correlation `spearman' finds is within -1 and 1, and at its ends    *)
(* where model and measurement rank the configurations alike or in         *)
(* reverse, of any number of them and however they tie: the measurements   *)
(* that could be read have no median that is NaN.                          *)
THEOREM CorrelationHolds == Spec => []CorrelationIsSound
<1>1. Inv => CorrelationIsSound
  BY InvCorrelationIsSound
<1> QED
  BY <1>1, InvHolds, PTL
=============================================================================
