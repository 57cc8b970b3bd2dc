------------------------------- MODULE MCTune -------------------------------
(* An instance of Tune for TLC: 6-bit numbers and 4-bit launch axes, every *)
(* short expression, and specs at the edges of every guard.                *)
EXTENDS Tune

CONSTANTS fast, safe   \* values of dimensions that are names

SmallAxes == [block_x |-> 4, block_y |-> 4, block_z |-> 2]

SmallDevice ==
  [sm_count |-> 1, max_threads |-> 8, max_warps |-> 4, max_blocks |-> 4,
   smem_per_block |-> 8, smem_per_sm |-> 12]

Dim(name, values) == [name |-> name, values |-> values]
Constraint(lhs, cmp, rhs) == [lhs |-> lhs, cmp |-> cmp, rhs |-> rhs]

(* block_x is 1, 2 or 4; 16 elements, one thread each.                     *)
Base ==
  [dims |-> <<Dim("block_x", <<1, 2, 4>>), Dim("mode", <<fast>>)>>,
   constraints |-> <<>>, elements |-> 16,
   grid |-> <<Expr(<<Ident("elements"), Op("/"), Ident("block_x")>>),
              Literal(1), Literal(1)>>,
   sizes |-> <<Expr(<<Ident("elements")>>)>>, smem |-> <<>>, repeats |-> 2]

(* Every expression of up to three tokens, and every one of five that      *)
(* follows the grammar, over two dimensions of which one has a name among  *)
(* its values.                                                             *)
AllOps == {Op(o) : o \in Operators}
Atoms == {Num(n) : n \in {0, 3, 40}} \cup {Ident("t"), Ident("u")}
Short == UNION {[1..n -> AllOps \cup Atoms] : n \in 1..3}
Long == {<<a, o, b, p, c>> :
           a \in Atoms, o \in AllOps, b \in Atoms, p \in AllOps,
           c \in Atoms}

TwoDims == <<Dim("t", <<7, 2>>), Dim("u", <<0, 5, safe>>)>>
OneOf(lhs, cmp, rhs) ==
  [Base EXCEPT !.dims = TwoDims, !.constraints = <<Constraint(lhs, cmp, rhs)>>]

Expressions ==
  {OneOf(e, cmp, <<Num(3)>>) : e \in Short, cmp \in {"==", "<"}}
    \cup {OneOf(e, ">=", <<Ident("t")>>) : e \in Long}

(* Three dimensions of two values and two constraints: the odometer.       *)
Cube ==
  {[Base EXCEPT
      !.dims = <<Dim("a", <<1, 2>>), Dim("b", <<4, 3>>), Dim("c", <<0, 6>>)>>,
      !.constraints =
         <<Constraint(<<Ident("a"), Op("+"), Ident("c")>>, cmp,
                      <<Ident("b")>>),
           Constraint(<<Num(9), Op("-"), Ident("b")>>, "!=", <<Ident("c")>>)>>] :
     cmp \in Comparisons}

(* Specs that KernelSpec::parse refuses.                                   *)
Refused ==
  {[Base EXCEPT !.dims = d] :
     d \in {<<>>, <<Dim("t", <<>>)>>, <<Dim("t", <<2, 2>>)>>,
            <<Dim("t", <<-1>>)>>, <<Dim("block_z", <<3>>)>>}}
    \cup {[Base EXCEPT !.constraints = <<Constraint(l, "<", <<Num(1)>>)>>] :
            l \in {<<>>, <<Ident("tile")>>}}

AllListed == Expressions \cup Cube \cup Refused

(* One candidate, timed n times.                                           *)
One(n) == [Base EXCEPT !.dims = <<Dim("block_x", <<2>>)>>, !.repeats = n]

(* Three candidates whose costs tie or differ.                             *)
Three ==
  {Base, [Base EXCEPT !.smem = <<Ident("block_x"), Op("*"), Num(2)>>]}

(* Launches at the edges: an axis beyond its limit and beyond 32 bits, a   *)
(* block the device cannot hold, a grid beyond 32 bits, a grid of nothing, *)
(* a division by zero, a negative axis, a string in an expression, a       *)
(* shared memory the model cannot compute, a dimension that the workload   *)
(* hides, and three block axes.                                            *)
Edges ==
  {[Base EXCEPT !.dims = <<Dim("block_x", <<20>>)>>],
   [Base EXCEPT !.smem = <<Ident("block_x"), Op("*"), Num(4)>>,
                !.dims[1] = Dim("block_x", <<1, 4>>)],
   [Base EXCEPT !.elements = 40, !.dims[1] = Dim("block_x", <<1, 4>>)],
   [Base EXCEPT !.elements = 3, !.dims[1] = Dim("block_x", <<2, 4>>)],
   [Base EXCEPT !.dims = <<Dim("block_x", <<2, 0>>)>>],
   [Base EXCEPT !.grid[2] = Literal(-1)],
   [Base EXCEPT !.grid[2] = Expr(<<Ident("mode")>>)],
   [Base EXCEPT !.smem = <<Ident("elements")>>,
                !.dims[1] = Dim("block_x", <<2>>)],
   [Base EXCEPT !.dims = <<Dim("block_x", <<2>>), Dim("elements", <<2, 1>>)>>],
   [Base EXCEPT !.dims = <<Dim("block_x", <<4>>), Dim("block_y", <<safe>>),
                           Dim("block_z", <<0, 2>>)>>,
                !.grid[2] = Literal(3), !.grid[3] = Literal(2)]}

Brief == {[s EXCEPT !.repeats = 1] : s \in Edges}

AllTuned == Three \cup Brief \cup {One(n) : n \in {1, 3, 4, 8, 11}}

Infinity == 1000
NotANumber == 1001
Times == {1, 2, 9, Infinity, NotANumber}

(* Of the longer samples, those in order.  Eleven is the least number of   *)
(* times with an interval that leaves out the last of them.                *)
InOrder(n) ==
  LET upTo[k \in 0..n] ==
        IF k = 0 THEN {<<>>}
        ELSE UNION {{Append(s, x) : x \in {y \in Times :
                                             k = 1 \/ y >= s[k - 1]}} :
                      s \in upTo[k - 1]}
  IN  upTo[n]

AllSamples ==
  [n \in {1, 2, 3, 4, 8, 11} |->
     CASE n = 1 -> {<<1>>, <<2>>, <<NotANumber>>}
       [] n = 2 -> {<<2, 2>>, <<1, 9>>, <<4, 3>>}
       [] n = 3 -> [1..n -> Times]
       [] OTHER -> InOrder(n)]

(* One candidate, timed three times.                                       *)
TunedOnce == {One(3)}

(* stats.rs on summarize: no NaN reaches the median.  The product of an    *)
(* infinite sample and the weight 0 is one.                                *)
NoNaNMedian == phase = "measure" => \A r \in Summarized : r.summary.med # NaN

=============================================================================
