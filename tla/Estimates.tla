------------------------------ MODULE Estimates ------------------------------
(***************************************************************************)
(* The analytical model (launchbound-model): the cost of a configuration   *)
(* and its rank correlation with measured medians.  A cost is a fraction   *)
(* <<numerator, denominator>>, <<1, 0>> the infinite one; the rounding of  *)
(* doubles is left out, and so is the guard of 1e-6 on an occupancy, which *)
(* no device of the table can reach.                                       *)
(***************************************************************************)
EXTENDS Space, Stats, FiniteSetsExt

CONSTANTS
  Device,   \* the DeviceParams of the capability
  Warp      \* 32

DeviceFields ==
  {"sm_count", "max_threads", "max_warps", "max_blocks", "smem_per_block",
   "smem_per_sm"}

ASSUME EstimatesAssumption ==
  Device \in [DeviceFields -> Nat \ {0}] /\ Warp \in Nat \ {0}

Least(S) == CHOOSE x \in S : \A y \in S : x <= y
CeilDiv(a, b) == (a + b - 1) \div b

(* smem_bytes: the workload is not a variable of this expression.          *)
Smem(s, c) ==
  IF s.smem = <<>> THEN 0 ELSE EvalArith(s.smem, c)

(* grid_blocks: the product of the axes, each at least 1.  A negative      *)
(* integer is cast, where the plan refuses it.                             *)
TimesBlocks(p, acc, e) ==
  LET n == IF e.kind = "expr" THEN EvalExpr(e, p.config, Elements(p.spec))
           ELSE e.int % (MaxU + 1)
  IN  IF acc = Err \/ n = Err THEN Err
      ELSE Saturated(acc * (IF n = 0 THEN 1 ELSE n))

GridBlocks(s, c) ==
  FoldLeft(LAMBDA acc, e : TimesBlocks([spec |-> s, config |-> c], acc, e),
           1, s.grid)

Threads(c) == IF BlockThreads(c) = 0 THEN 1 ELSE BlockThreads(c)

BlocksPerSm(s, c) ==
  Least({Device.max_threads \div Threads(c), Device.max_blocks}
          \cup (IF Smem(s, c) = 0 THEN {}
                ELSE {Device.smem_per_sm \div Smem(s, c)}))

Launchable(s, c) ==
  BlocksPerSm(s, c) > 0 /\ Smem(s, c) <= Device.smem_per_block

Infinite == <<1, 0>>

(* estimate can be computed: an unlaunchable configuration does not ask    *)
(* for its grid.                                                           *)
Estimates(s, c) ==
  Smem(s, c) # Err /\ (Launchable(s, c) => GridBlocks(s, c) # Err)

(* estimate: waves over occupancy, the waves at least 1, the occupancy at  *)
(* most 1.                                                                 *)
Cost(s, c) ==
  IF ~Launchable(s, c) THEN Infinite
  ELSE LET resident == BlocksPerSm(s, c) * Device.sm_count
           warps == BlocksPerSm(s, c) * CeilDiv(Threads(c), Warp)
           waves == Max({GridBlocks(s, c), resident})
       IN  <<waves * Device.max_warps,
             resident * Least({warps, Device.max_warps})>>

Cheaper(a, b) == a[1] * b[2] < b[1] * a[2]

-----------------------------------------------------------------------------
(* spearman.                                                               *)

(* ranks, doubled: equal values share the mean of their places, except     *)
(* that NaN equals nothing.                                                *)
RankOf(values, k) ==
  LET below == {j \in DOMAIN values : values[j] < values[k]}
      same == {j \in DOMAIN values : values[j] = values[k]}
  IN  2 * Cardinality(below)
        + IF values[k] = NaN THEN 2 * Cardinality({j \in same : j <= k})
          ELSE Cardinality(same) + 1

(* Mutant: the mean rank of n values is taken to be n/2.                   *)
CentredAtHalf(values) ==
  [k \in DOMAIN values |-> RankOf(values, k) - Len(values)]

(* The ranks about their mean.                                             *)
Centred(values) ==
  [k \in DOMAIN values |-> RankOf(values, k) - (Len(values) + 1)]

AddProduct(p, acc, k) == acc + p[1][k] * p[2][k]

Dot(a, b) == FoldLeft(LAMBDA acc, k : AddProduct(<<a, b>>, acc, k), 0,
                      [k \in DOMAIN a |-> k])

(* A cost by the number of dearer ones, from 0 down: the order is what is  *)
(* ranked, and no cost is NaN.                                             *)
Places(costs) ==
  [k \in DOMAIN costs |->
     -Cardinality({j \in DOMAIN costs : Cheaper(costs[k], costs[j])})]

NoCorrelation == [n |-> 0]

(* The correlation is num over the square root of dx * dy.                 *)
Spearman(costs, medians) ==
  LET x == Centred(Places(costs))
      y == Centred(medians)
  IN  IF Len(costs) < 3 \/ Dot(x, x) = 0 \/ Dot(y, y) = 0 THEN NoCorrelation
      ELSE [n |-> Len(costs), num |-> Dot(x, y), dx |-> Dot(x, x),
            dy |-> Dot(y, y)]
=============================================================================
