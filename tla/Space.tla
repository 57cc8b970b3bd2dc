-------------------------------- MODULE Space --------------------------------
(***************************************************************************)
(* The configuration space of a kernel (launchbound-space: spec, lib) and  *)
(* the launch the bench plan makes of a configuration (launchbound-bench,  *)
(* plan).  A raw spec is the record kernel.toml holds:                     *)
(*   dims         its dimensions in the order of their names               *)
(*   constraints  its constraints                                          *)
(*   elements     the workload, the one extra variable of the grids        *)
(*   grid, sizes  the three grid axes and the sizes of the arguments       *)
(*   smem         the shared memory expression of the model                *)
(*   repeats      how many times a candidate is timed                      *)
(* A configuration is named by its indices: one per dimension, from 1.     *)
(***************************************************************************)
EXTENDS Constraints, FiniteSets

CONSTANTS
  Max32,      \* 2^32 - 1
  AxisLimit   \* BLOCK_AXIS_LIMITS: the most threads of each block axis

Axes == <<"block_x", "block_y", "block_z">>

ASSUME SpaceAssumption ==
  /\ Max32 \in Nat /\ Max32 <= MaxU
  /\ AxisLimit \in [ToSet(Axes) -> Nat \ {0}]
  /\ \A a \in DOMAIN AxisLimit : AxisLimit[a] <= Max32
  /\ AxisLimit["block_x"] * AxisLimit["block_y"] * AxisLimit["block_z"] <= MaxU

Dims(s) == DOMAIN s.dims
Values(s, k) == s.dims[k].values
Names(s) == {s.dims[k].name : k \in Dims(s)}

(* Mutant: the limits of the block axes are not checked.                   *)
ParsesUnlimited(s) ==
  /\ s.dims # <<>>
  /\ \A k \in Dims(s) :
       /\ Values(s, k) # <<>> /\ IsInjective(Values(s, k))
       /\ ToSet(Values(s, k)) \subseteq Nat \cup Strings
  /\ \A i \in DOMAIN s.constraints : ParsesWith(s.constraints[i], Names(s))

(* KernelSpec::parse accepts the spec.                                     *)
Parses(s) ==
  /\ s.dims # <<>>
  /\ \A k \in Dims(s) :
       /\ Values(s, k) # <<>> /\ IsInjective(Values(s, k))
       /\ \A v \in ToSet(Values(s, k)) :
            \/ v \in Strings
            \/ /\ v \in Nat
               /\ s.dims[k].name \in DOMAIN AxisLimit =>
                    v <= AxisLimit[s.dims[k].name]
  /\ \A i \in DOMAIN s.constraints : ParsesWith(s.constraints[i], Names(s))

(* The indices of every configuration before filtering.                    *)
Indices(s) ==
  {v \in [Dims(s) -> UNION {DOMAIN Values(s, k) : k \in Dims(s)}] :
     \A k \in Dims(s) : v[k] \in DOMAIN Values(s, k)}

First(s) == [k \in Dims(s) |-> 1]

Turning(s, v) == {k \in Dims(s) : v[k] < Len(Values(s, k))}
IsLast(s, v) == Turning(s, v) = {}

(* Mutant: the wheels behind the one that turned are not reset.            *)
TurnedKeeping(s, v) ==
  LET p == CHOOSE k \in Turning(s, v) : \A j \in Turning(s, v) : j <= k
  IN  [v EXCEPT ![p] = @ + 1]

(* The odometer of enumerate, last dimension fastest.                      *)
Turned(s, v) ==
  LET p == CHOOSE k \in Turning(s, v) : \A j \in Turning(s, v) : j <= k
  IN  [k \in Dims(s) |-> IF k < p THEN v[k] ELSE IF k = p THEN v[k] + 1 ELSE 1]

(* Config.values: the assignment of the configuration.                     *)
Config(s, v) ==
  [name \in Names(s) |->
     LET k == CHOOSE k \in Dims(s) : s.dims[k].name = name
     IN  Values(s, k)[v[k]]]

(* enumerate evaluates every constraint: one that cannot be computed ends  *)
(* the enumeration, whatever the others say.                               *)
AllCompute(s, v) ==
  \A i \in DOMAIN s.constraints : Computes(s.constraints[i], Config(s, v))
Kept(s, v) ==
  \A i \in DOMAIN s.constraints : Holds(s.constraints[i], Config(s, v))

(* The number of threads on a block axis: 1 unless it is given as a number.*)
AxisThreads(c, a) == IF a \in DOMAIN c /\ c[a] \notin Strings THEN c[a] ELSE 1

Saturated(n) == IF n > MaxU THEN MaxU ELSE n

TimesAxis(c, acc, a) == Saturated(acc * AxisThreads(c, a))

(* Config::block_threads, what the gate and the model are told.            *)
BlockThreads(c) ==
  FoldLeft(LAMBDA acc, a : TimesAxis(c, acc, a), 1, Axes)

-----------------------------------------------------------------------------
(* BenchSpec::candidate.                                                   *)

AsU32(n) == n % (Max32 + 1)

(* An expression of kernel.toml is an integer or a string of tokens; the   *)
(* extra variables hide dimensions of the same name.                       *)
Literal(n) == [kind |-> "int", int |-> n]
Expr(tokens) == [kind |-> "expr", tokens |-> tokens]

Exprs ==
  [kind : {"int"}, int : Int] \cup [kind : {"expr"}, tokens : Seq(Tokens)]

EvalExpr(e, c, extra) ==
  LET env == [n \in DOMAIN extra \cup DOMAIN c |->
                IF n \in DOMAIN extra THEN extra[n] ELSE c[n]]
  IN  EvalArith(e.tokens, env)

Elements(s) == [n \in {"elements"} |-> s.elements]

(* The plan refuses a negative integer.                                    *)
EvalPlan(s, e, c) ==
  IF e.kind = "expr" THEN EvalExpr(e, c, Elements(s))
  ELSE IF e.int < 0 THEN Err ELSE e.int

Resolves(s, v) ==
  \A e \in ToSet(s.grid) \cup ToSet(s.sizes) :
    EvalPlan(s, e, Config(s, v)) # Err

Candidate(s, id, v) ==
  [id |-> id,
   indices |-> v,
   grid |-> [i \in 1..3 |-> AsU32(EvalPlan(s, s.grid[i], Config(s, v)))],
   block |-> [i \in 1..3 |-> AsU32(AxisThreads(Config(s, v), Axes[i]))]]

(* What kernel.toml can hold: its integers are no larger than a u64, and   *)
(* an integer where a number of elements is expected is one.               *)
Specs ==
  [dims : Seq([name : STRING,
               values : Seq({v \in Int : v <= MaxU} \cup Strings)]),
   constraints : Seq([lhs : Seq(Tokens), cmp : Comparisons,
                      rhs : Seq(Tokens)]),
   elements : 0..MaxU, grid : [1..3 -> Exprs], sizes : Seq(Exprs),
   smem : Seq(Tokens), repeats : Nat]
=============================================================================
