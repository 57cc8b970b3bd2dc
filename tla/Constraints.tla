----------------------------- MODULE Constraints -----------------------------
(***************************************************************************)
(* The constraint language of kernel.toml (launchbound-space, constraint): *)
(* one comparison of two expressions over the dimensions of a candidate,   *)
(* `*', `/' and `%' before `+' and `-', no parentheses, in checked u64.    *)
(* The grids of the bench plan and the shared memory of the model are      *)
(* expressions of the same language.                                       *)
(*                                                                         *)
(* An expression is a sequence of tokens: the tokenizer is left out, and   *)
(* the comparison of a constraint is a field of its own.                   *)
(***************************************************************************)
EXTENDS Integers, Sequences, SequencesExt

CONSTANTS
  MaxU,      \* 2^64 - 1
  Strings    \* the values of dimensions that are names

ASSUME ConstraintsAssumption == MaxU \in Nat /\ \A s \in Strings : s \notin Int

Num(n) == [kind |-> "num", num |-> n]
Ident(name) == [kind |-> "ident", name |-> name]
Op(op) == [kind |-> "op", op |-> op]

Operators == {"+", "-", "*", "/", "%"}
Comparisons == {"==", "!=", "<=", ">=", "<", ">"}

Tokens ==
  [kind : {"num"}, num : 0..MaxU] \cup [kind : {"ident"}, name : STRING]
    \cup [kind : {"op"}, op : Operators]

(* Token::Op of each precedence.                                           *)
IsFactor(t) == t.kind = "op" /\ t.op \in {"*", "/", "%"}
IsSign(t) == t.kind = "op" /\ t.op \in {"+", "-"}
IsAtom(t) == t.kind # "op"

(* Constraint::parse: both sides have tokens and every name is a dimension.*)
(* Nothing else of the grammar is checked.                                 *)
ParsesWith(c, names) ==
  \A side \in {c.lhs, c.rhs} :
    side # <<>> /\ \A k \in DOMAIN side :
                     side[k].kind = "ident" => side[k].name \in names

-----------------------------------------------------------------------------
(* eval_arith.                                                             *)

Err == -1     \* the computation is refused
Empty == -2   \* no operand has been read

(* Mutant: u64 arithmetic that wraps.                                      *)
Wrapping(n) == n % (MaxU + 1)

(* checked_add, checked_sub, checked_mul.                                  *)
Checked(n) == IF n \in 0..MaxU THEN n ELSE Err

Combine(acc, op, v) ==
  CASE op = "*" -> Checked(acc * v)
    [] op = "/" -> IF v = 0 THEN Err ELSE acc \div v
    [] op = "%" -> IF v = 0 THEN Err ELSE acc % v

(* env gives the value of a dimension, or of an extra variable.  A string  *)
(* has no value in arithmetic.                                             *)
Atom(t, env) ==
  IF t.kind = "num" THEN t.num
  ELSE IF t.name \notin DOMAIN env \/ env[t.name] \in Strings THEN Err
  ELSE env[t.name]

(* The terms so far, summed, with the sign and the value of the open one.  *)
(* The code sums when the last term is closed: an error is an error.       *)
Start == [sum |-> 0, sign |-> "+", current |-> Empty, pending |-> "none"]

SumOf(s) ==
  IF s.sum = Err \/ s.current \in {Err, Empty} THEN Err
  ELSE Checked(IF s.sign = "+" THEN s.sum + s.current ELSE s.sum - s.current)

ReadFactor(s, t) ==
  IF s.current = Empty THEN [s EXCEPT !.current = Err]
                       ELSE [s EXCEPT !.pending = t.op]

ReadSign(s, t) == [Start EXCEPT !.sum = SumOf(s), !.sign = t.op]

ReadAtom(s, v) ==
  [s EXCEPT !.pending = "none",
            !.current = IF v = Err \/ s.current = Err THEN Err
                        ELSE IF s.current = Empty THEN v
                        ELSE IF s.pending = "none" THEN Err
                        ELSE Combine(s.current, s.pending, v)]

ReadToken(env, s, t) ==
  IF s.sum = Err THEN s
  ELSE IF IsFactor(t) THEN ReadFactor(s, t)
  ELSE IF IsSign(t) THEN ReadSign(s, t)
  ELSE ReadAtom(s, Atom(t, env))

(* One pass over the tokens.  An operator pending at the end is dropped.   *)
EvalArith(tokens, env) ==
  SumOf(FoldLeft(LAMBDA s, t : ReadToken(env, s, t), Start, tokens))

Compare(l, cmp, r) ==
  CASE cmp = "==" -> l = r
    [] cmp = "!=" -> l # r
    [] cmp = "<=" -> l <= r
    [] cmp = ">=" -> l >= r
    [] cmp = "<" -> l < r
    [] cmp = ">" -> l > r

(* Constraint::eval, in two parts: whether it has a value, and which.      *)
Computes(c, env) == EvalArith(c.lhs, env) # Err /\ EvalArith(c.rhs, env) # Err
Holds(c, env) == Compare(EvalArith(c.lhs, env), c.cmp, EvalArith(c.rhs, env))

-----------------------------------------------------------------------------
(* What the module's own grammar says an expression means, in integers     *)
(* without bound: the reference the properties compare with.               *)

(* arith := term (('+' | '-') term)*, term := atom (('*' | '/' | '%') atom)* *)
Grammatical(e) ==
  Len(e) % 2 = 1 /\ \A k \in DOMAIN e : IsAtom(e[k]) <=> k % 2 = 1

(* The atoms that begin a term, and those that end one.                    *)
TermStarts(e) ==
  {k \in DOMAIN e : k % 2 = 1 /\ (k = 1 \/ IsSign(e[k - 1]))}
TermEnds(e) ==
  {k \in DOMAIN e : k % 2 = 1 /\ (k = Len(e) \/ IsSign(e[k + 1]))}

(* The product of a term up to its atom at k, from the one up to the atom  *)
(* before: that is still the value at the operator between them.           *)
TermStep(p, a, k) ==
  LET e == p[1]
      b == Atom(e[k], p[2])
  IN  IF k % 2 = 0 THEN a
      ELSE IF k \in TermStarts(e) THEN b
      ELSE IF a = Err \/ b = Err THEN Err
      ELSE IF e[k - 1].op = "*" THEN a * b
      ELSE IF b = 0 THEN Err
      ELSE IF e[k - 1].op = "/" THEN a \div b
      ELSE a % b

TermValue(e, env) ==
  LET val[k \in 0..Len(e)] ==
        IF k = 0 THEN 0 ELSE TermStep(<<e, env>>, val[k - 1], k)
  IN  val

(* The term that ends at k is subtracted.                                  *)
IsNegative(e, k) ==
  \E s \in TermStarts(e) :
    /\ s > 1 /\ e[s - 1].op = "-" /\ s <= k
    /\ \A j \in TermStarts(e) : ~(s < j /\ j <= k)

SumStep(p, acc, k) ==
  LET e == p[1]
      v == TermValue(e, p[2])[k]
  IN  IF k \notin TermEnds(e) THEN acc
      ELSE IF IsNegative(e, k) THEN acc - v ELSE acc + v

(* The sum of the terms that end up to k, in exact integers.               *)
ExactSum(e, env) ==
  LET sum[k \in 0..Len(e)] ==
        IF k = 0 THEN 0 ELSE SumStep(<<e, env>>, sum[k - 1], k)
  IN  sum

(* Every value on the way is defined and is a u64.                         *)
Fits(e, env) ==
  /\ \A k \in DOMAIN e : k % 2 = 1 => TermValue(e, env)[k] \in 0..MaxU
  /\ \A k \in TermEnds(e) : ExactSum(e, env)[k] \in 0..MaxU

Exact(e, env) == ExactSum(e, env)[Len(e)]
=============================================================================
