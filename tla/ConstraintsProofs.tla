------------------------- MODULE ConstraintsProofs -------------------------
(* Proofs about the constraint language, for expressions of any length:    *)
(* what `eval_arith' computes in one pass over the tokens is the value the *)
(* grammar gives the expression, or an error where that leaves u64.        *)
EXTENDS Constraints, TLAPS

Readings == INSTANCE FoldProofs WITH Op <- ReadToken
Terms == INSTANCE FoldProofs WITH Op <- TermStep
Totals == INSTANCE FoldProofs WITH Op <- SumStep

-----------------------------------------------------------------------------
(* What is read.                                                           *)

Numbers == 0..MaxU

(* An assignment of numbers and names to the variables.                    *)
IsEnv(env) == \A n \in DOMAIN env : env[n] \in Numbers \cup Strings

States ==
  [sum : Numbers \cup {Err}, sign : {"+", "-"},
   current : Numbers \cup {Err, Empty}, pending : {"none", "*", "/", "%"}]

(* What the tokenizer yields.                                              *)
LEMMA TokensAre ==
  ASSUME NEW t \in Tokens
  PROVE  /\ t.kind \in {"num", "ident", "op"}
         /\ t.kind = "num" => t.num \in Numbers
         /\ t.kind = "op" => t.op \in Operators
         /\ IsFactor(t) => t.kind = "op" /\ t.op \in {"*", "/", "%"}
         /\ IsSign(t) => t.kind = "op" /\ t.op \in {"+", "-"} /\ ~IsFactor(t)
         /\ ~IsFactor(t) /\ ~IsSign(t) <=> IsAtom(t)
BY DEF Tokens, Numbers, IsFactor, IsSign, IsAtom, Operators

(* An error and an operand not yet read are no numbers.                    *)
LEMMA NumbersAre ==
  /\ MaxU \in Nat /\ \A v \in Numbers : v \in Nat /\ v # Err /\ v # Empty
  /\ Err \in Int /\ Empty \in Int /\ Err # Empty
  /\ Err \notin Numbers /\ 0 \in Numbers
  /\ \A s \in Strings : s \notin Int
BY ConstraintsAssumption DEF ConstraintsAssumption, Numbers, Err, Empty

(* An operand is a u64 or an error.                                        *)
LEMMA AtomIs ==
  ASSUME NEW env, IsEnv(env), NEW t \in Tokens, IsAtom(t)
  PROVE  Atom(t, env) \in Numbers \cup {Err}
<1>1. t.kind = "num" => t.num \in Numbers
  BY TokensAre
<1> QED
  BY <1>1 DEF Atom, IsEnv

(* And so is what `*', `/' and `%' make of two.                            *)
LEMMA CombineIs ==
  ASSUME NEW a \in Numbers, NEW op \in {"*", "/", "%"}, NEW v \in Numbers
  PROVE  Combine(a, op, v) \in Numbers \cup {Err}
<1>1. a \in Nat /\ v \in Nat /\ MaxU \in Nat /\ a <= MaxU
  BY NumbersAre DEF Numbers
<1>2. CASE op = "*"
  BY <1>2 DEF Combine, Checked, Numbers
<1>3. CASE op = "/"
  <2>1. Combine(a, op, v) = IF v = 0 THEN Err ELSE a \div v
    BY <1>3 DEF Combine
  <2>2. ASSUME v # 0 PROVE a \div v \in Nat /\ a \div v <= a
    BY <1>1, <2>2
  <2>3. v # 0 => a \div v \in Numbers
    BY <1>1, <2>2 DEF Numbers
  <2> QED
    BY <2>1, <2>3
<1>4. CASE op = "%"
  <2>1. Combine(a, op, v) = IF v = 0 THEN Err ELSE a % v
    BY <1>4 DEF Combine
  <2>2. ASSUME v # 0 PROVE a % v \in Nat /\ a % v <= a
    BY <1>1, <2>2
  <2>3. v # 0 => a % v \in Numbers
    BY <1>1, <2>2 DEF Numbers
  <2> QED
    BY <2>1, <2>3
<1> QED
  BY <1>2, <1>3, <1>4

(* And the running sum, with the open term added or subtracted.            *)
LEMMA SumIs ==
  ASSUME NEW s \in States
  PROVE  SumOf(s) \in Numbers \cup {Err}
BY DEF SumOf, Checked, Numbers

(* Every token leaves a state.                                             *)
LEMMA ReadIs ==
  ASSUME NEW env, IsEnv(env), NEW s \in States, NEW t \in Tokens
  PROVE  ReadToken(env, s, t) \in States
<1>1. CASE s.sum = Err
  BY <1>1 DEF ReadToken
<1>2. CASE s.sum # Err /\ IsFactor(t)
  <2>1. t.op \in {"*", "/", "%"}
    BY <1>2, TokensAre
  <2>2. ReadToken(env, s, t) = ReadFactor(s, t)
    BY <1>2 DEF ReadToken
  <2> QED
    BY <2>1, <2>2 DEF ReadFactor, States
<1>3. CASE s.sum # Err /\ IsSign(t)
  <2>1. t.op \in {"+", "-"} /\ ~IsFactor(t)
    BY <1>3, TokensAre
  <2>2. ReadToken(env, s, t) = ReadSign(s, t)
    BY <1>3, <2>1 DEF ReadToken
  <2>3. SumOf(s) \in Numbers \cup {Err}
    BY SumIs
  <2>4. Start \in States
    BY NumbersAre DEF Start, States
  <2> QED
    BY <2>1, <2>2, <2>3, <2>4 DEF ReadSign, States
<1>4. CASE s.sum # Err /\ ~IsFactor(t) /\ ~IsSign(t)
  <2> DEFINE v == Atom(t, env)
             c == IF v = Err \/ s.current = Err THEN Err
                  ELSE IF s.current = Empty THEN v
                  ELSE IF s.pending = "none" THEN Err
                  ELSE Combine(s.current, s.pending, v)
  <2>1. v \in Numbers \cup {Err}
    BY <1>4, AtomIs, TokensAre
  <2>2. ReadToken(env, s, t) = [s EXCEPT !.pending = "none", !.current = c]
    BY <1>4 DEF ReadToken, ReadAtom
  <2> HIDE DEF v
  <2>3. s.current \in Numbers \cup {Err, Empty} /\ s.pending \in {"none", "*", "/", "%"}
    BY DEF States
  <2>4. c \in Numbers \cup {Err, Empty}
    <3>1. CASE v = Err \/ s.current \in {Err, Empty} \/ s.pending = "none"
      BY <2>1, <2>3, <3>1
    <3>2. CASE ~(v = Err \/ s.current \in {Err, Empty} \/ s.pending = "none")
      <4>1. /\ v \in Numbers /\ s.current \in Numbers
            /\ s.pending \in {"*", "/", "%"}
        BY <2>1, <2>3, <3>2
      <4>2. c = Combine(s.current, s.pending, v)
        BY <3>2
      <4> QED
        BY <4>1, <4>2, CombineIs
    <3> QED
      BY <3>1, <3>2
  <2> HIDE DEF c
  <2> QED
    BY <2>2, <2>4 DEF States
<1> QED
  BY <1>1, <1>2, <1>3, <1>4

(* The states on the way.                                                  *)
Passes(g, e, env) ==
  /\ g \in [0..Len(e) -> States] /\ g[0] = Start
  /\ \A k \in 1..Len(e) : g[k] = ReadToken(env, g[k - 1], e[k])
  /\ EvalArith(e, env) = SumOf(g[Len(e)])

(* The loop of `eval_arith' goes through a state per token.                *)
LEMMA EvalPasses ==
  ASSUME NEW env, IsEnv(env), NEW e \in Seq(Tokens)
  PROVE  \E g : Passes(g, e, env)
<1> DEFINE n == Len(e)
<1>1. n \in Nat /\ DOMAIN e = 1..n /\ \A k \in 1..n : e[k] \in Tokens
  OBVIOUS
<1>2. Start \in States
  BY NumbersAre DEF Start, States
<1>3. \A k \in 1..n : \A s \in States : ReadToken(env, s, e[k]) \in States
  BY <1>1, ReadIs
<1>4. Readings!Stays(env, States, Start, e, n)
  BY <1>1, <1>2, <1>3 DEF Readings!Stays
<1>5. PICK g : Readings!Walks(g, env, States, Start, e, n)
  BY <1>4, Readings!FoldLeftIs
<1>6. /\ g \in [0..n -> States] /\ g[0] = Start
      /\ \A k \in 1..n : g[k] = ReadToken(env, g[k - 1], e[k])
      /\ Readings!FoldOf(env, Start, e) = g[n]
  BY <1>5 DEF Readings!Walks
<1>7. EvalArith(e, env) = SumOf(Readings!FoldOf(env, Start, e))
  BY DEF EvalArith, Readings!FoldOf, FoldLeft, MapThenFoldSet, Max,
         Readings!FoldLeft, Readings!MapThenFoldSet, Readings!Max
<1> QED
  BY <1>6, <1>7 DEF Passes

(* A computation ends with a u64 or an error.                              *)
LEMMA EvalIs ==
  ASSUME NEW env, IsEnv(env), NEW e \in Seq(Tokens)
  PROVE  EvalArith(e, env) \in Numbers \cup {Err}
<1>1. PICK g : Passes(g, e, env)
  BY EvalPasses
<1>2. g[Len(e)] \in States /\ EvalArith(e, env) = SumOf(g[Len(e)])
  BY <1>1 DEF Passes
<1> QED
  BY <1>2, SumIs

-----------------------------------------------------------------------------
(* What the grammar says.                                                  *)

(* The terms of the reference are integers, each step from the last.       *)
LEMMA TermsAre ==
  ASSUME NEW env, IsEnv(env), NEW e \in Seq(Tokens), Grammatical(e)
  PROVE  /\ TermValue(e, env) \in [0..Len(e) -> Int]
         /\ \A k \in 1..Len(e) :
              TermValue(e, env)[k]
                = TermStep(<<e, env>>, TermValue(e, env)[k - 1], k)
<1> DEFINE n == Len(e)
           p == <<e, env>>
<1>1. n \in Nat /\ DOMAIN e = 1..n /\ \A k \in 1..n : e[k] \in Tokens
  OBVIOUS
<1>2. ASSUME NEW k \in 1..n, NEW v \in Int PROVE TermStep(p, v, k) \in Int
  <2>1. CASE k % 2 = 0
    BY <2>1 DEF TermStep
  <2>2. CASE k % 2 # 0
    <3> DEFINE b == Atom(e[k], env)
    <3>1. k % 2 = 1
      BY <2>2
    <3>2. b \in Numbers \cup {Err}
      BY <1>1, <3>1, AtomIs DEF Grammatical
    <3>3. b \in Int /\ Err \in Int /\ (b # Err => b >= 0)
      BY <3>2, NumbersAre DEF Numbers
    <3>4. TermStep(p, v, k) =
            IF k \in TermStarts(e) THEN b
            ELSE IF v = Err \/ b = Err THEN Err
            ELSE IF e[k - 1].op = "*" THEN v * b
            ELSE IF b = 0 THEN Err
            ELSE IF e[k - 1].op = "/" THEN v \div b
            ELSE v % b
      BY <2>2 DEF TermStep
    <3> HIDE DEF b, p
    <3>5. v * b \in Int
      BY <3>3
    <3>6. b # Err /\ b # 0 => v \div b \in Int /\ v % b \in Int
      BY <3>3
    <3> QED
      BY <3>3, <3>4, <3>5, <3>6
  <2> QED
    BY <2>1, <2>2
<1> HIDE DEF p
<1>3. Terms!Remains(p, Int, 0, n)
  BY <1>1, <1>2 DEF Terms!Remains
<1>4. TermValue(e, env) = Terms!Counted(p, 0, n)
  BY DEF TermValue, Terms!Counted, p
<1>5. /\ Terms!Counted(p, 0, n) \in [0..n -> Int]
      /\ \A k \in 1..n :
           Terms!Counted(p, 0, n)[k]
             = TermStep(p, Terms!Counted(p, 0, n)[k - 1], k)
  BY <1>3, Terms!CountedIs
<1> QED
  BY <1>4, <1>5 DEF p

(* And so are its sums.                                                    *)
LEMMA TotalsAre ==
  ASSUME NEW env, IsEnv(env), NEW e \in Seq(Tokens), Grammatical(e)
  PROVE  /\ ExactSum(e, env) \in [0..Len(e) -> Int]
         /\ ExactSum(e, env)[0] = 0
         /\ \A k \in 1..Len(e) :
              ExactSum(e, env)[k]
                = SumStep(<<e, env>>, ExactSum(e, env)[k - 1], k)
<1> DEFINE n == Len(e)
           p == <<e, env>>
<1>1. n \in Nat
  OBVIOUS
<1>2. ASSUME NEW k \in 1..n, NEW v \in Int PROVE SumStep(p, v, k) \in Int
  <2>1. TermValue(e, env) \in [0..n -> Int] /\ k \in 0..n
    <3>1. TermValue(e, env) \in [0..n -> Int]
      BY TermsAre
    <3>2. k \in 0..n
      BY <1>1
    <3> QED
      BY <3>1, <3>2
  <2>2. TermValue(e, env)[k] \in Int
    BY <2>1
  <2>3. /\ v - TermValue(e, env)[k] \in Int
        /\ v + TermValue(e, env)[k] \in Int
    BY <2>2
  <2> QED
    BY <2>3 DEF SumStep
<1> HIDE DEF p
<1>3. Totals!Remains(p, Int, 0, n)
  BY <1>1, <1>2 DEF Totals!Remains
<1>4. ExactSum(e, env) = Totals!Counted(p, 0, n)
  BY DEF ExactSum, Totals!Counted, p
<1>5. /\ Totals!Counted(p, 0, n) \in [0..n -> Int]
      /\ Totals!Counted(p, 0, n)[0] = 0
      /\ \A k \in 1..n :
           Totals!Counted(p, 0, n)[k]
             = SumStep(p, Totals!Counted(p, 0, n)[k - 1], k)
  BY <1>3, Totals!CountedIs
<1> QED
  BY <1>4, <1>5 DEF p

(* Where the atoms and the operators of a grammatical expression are.      *)
LEMMA GrammarIs ==
  ASSUME NEW e \in Seq(Tokens), Grammatical(e)
  PROVE  /\ Len(e) \in Nat /\ Len(e) >= 1 /\ Len(e) % 2 = 1 /\ DOMAIN e = 1..Len(e)
         /\ \A k \in 1..Len(e) : e[k] \in Tokens
         /\ \A k \in 1..Len(e) : k % 2 = 1 => IsAtom(e[k])
         /\ \A k \in 1..Len(e) : k % 2 = 0 => IsFactor(e[k]) \/ IsSign(e[k])
<1>1. Len(e) \in Nat /\ DOMAIN e = 1..Len(e) /\ \A k \in 1..Len(e) : e[k] \in Tokens
  OBVIOUS
<1>2. Len(e) % 2 = 1 /\ \A k \in 1..Len(e) : IsAtom(e[k]) <=> k % 2 = 1
  BY <1>1 DEF Grammatical
<1>3. \A k \in 1..Len(e) : k % 2 = 0 => IsFactor(e[k]) \/ IsSign(e[k])
  <2> SUFFICES ASSUME NEW k \in 1..Len(e), k % 2 = 0
               PROVE  IsFactor(e[k]) \/ IsSign(e[k])
    OBVIOUS
  <2>1. ~IsAtom(e[k])
    BY <1>2
  <2> QED
    BY <1>1, <2>1, TokensAre
<1>4. Len(e) >= 1
  BY <1>1, <1>2
<1> QED
  BY <1>1, <1>2, <1>3, <1>4

(* The values up to k are u64s, and so are the sums of the terms that end  *)
(* before it.                                                              *)
Good(e, env, k) ==
  /\ \A j \in 1..k : j % 2 = 1 => TermValue(e, env)[j] \in Numbers
  /\ \A j \in TermEnds(e) : j < k => ExactSum(e, env)[j] \in Numbers

SignOf(e, k) == IF IsNegative(e, k) THEN "-" ELSE "+"

(* What the state is after k tokens, from the reference.                   *)
Reads(e, env, s, k) ==
  \/ ~Good(e, env, k) /\ (s.sum = Err \/ s.current = Err)
  \/ /\ Good(e, env, k)
     /\ s.sum = IF k = 0 THEN 0 ELSE ExactSum(e, env)[k - 1]
     /\ s.sum \in Numbers
     /\ k % 2 = 1 => /\ s.current = TermValue(e, env)[k]
                     /\ s.pending = "none" /\ s.sign = SignOf(e, k)
     /\ k = 0 => s = Start
     /\ k # 0 /\ k % 2 = 0 /\ IsSign(e[k]) =>
          s.current = Empty /\ s.pending = "none" /\ s.sign = e[k].op
     /\ k # 0 /\ k % 2 = 0 /\ IsFactor(e[k]) =>
          /\ s.current = TermValue(e, env)[k - 1]
          /\ s.pending = e[k].op /\ s.sign = SignOf(e, k - 1)

(* What one more token adds to what has to be a u64.                       *)
LEMMA GoodNext ==
  ASSUME NEW env, NEW e \in Seq(Tokens), Grammatical(e),
         NEW k \in 1..Len(e)
  PROVE  Good(e, env, k) <=>
           /\ Good(e, env, k - 1)
           /\ k % 2 = 1 => TermValue(e, env)[k] \in Numbers
           /\ k - 1 \in TermEnds(e) => ExactSum(e, env)[k - 1] \in Numbers
<1> DEFINE T(j) == j % 2 = 1 => TermValue(e, env)[j] \in Numbers
           S(j) == ExactSum(e, env)[j] \in Numbers
<1>1. k \in Nat /\ k >= 1 /\ TermEnds(e) \in SUBSET Nat
  BY GrammarIs DEF TermEnds
<1>2. (\A j \in 1..k : T(j)) <=> (\A j \in 1..(k - 1) : T(j)) /\ T(k)
  <2> HIDE DEF T
  <2>1. \A j \in 1..k : j \in 1..(k - 1) \/ j = k
    BY <1>1
  <2>2. k \in 1..k /\ \A j \in 1..(k - 1) : j \in 1..k
    BY <1>1
  <2> QED
    BY <2>1, <2>2
<1>3. (\A j \in TermEnds(e) : j < k => S(j))
        <=> /\ \A j \in TermEnds(e) : j < k - 1 => S(j)
            /\ k - 1 \in TermEnds(e) => S(k - 1)
  <2> HIDE DEF S
  <2>1. \A j \in TermEnds(e) : j < k <=> j < k - 1 \/ j = k - 1
    BY <1>1
  <2> QED
    BY <2>1
<1> QED
  BY <1>2, <1>3 DEF Good

(* Terms begin at the first atom and after a sign; those that are not      *)
(* begun go on with the sign they had.                                     *)
LEMMA SignsAre ==
  ASSUME NEW e \in Seq(Tokens), Grammatical(e), NEW k \in 1..Len(e),
         k % 2 = 1
  PROVE  /\ k = 1 => k \in TermStarts(e) /\ SignOf(e, k) = "+"
         /\ k # 1 /\ IsSign(e[k - 1]) =>
              k \in TermStarts(e) /\ SignOf(e, k) = e[k - 1].op
         /\ k # 1 /\ IsFactor(e[k - 1]) =>
              k \notin TermStarts(e) /\ SignOf(e, k) = SignOf(e, k - 2)
<1>1. /\ Len(e) \in Nat /\ DOMAIN e = 1..Len(e) /\ k \in Nat /\ k >= 1
      /\ \A j \in 1..Len(e) : e[j] \in Tokens
  BY GrammarIs
<1>2. \A j \in TermStarts(e) : j \in Nat /\ j >= 1 /\ j % 2 = 1
  BY <1>1 DEF TermStarts
<1>3. ASSUME k = 1 PROVE k \in TermStarts(e) /\ SignOf(e, k) = "+"
  BY <1>1, <1>2, <1>3 DEF TermStarts, SignOf, IsNegative
<1>4. ASSUME k # 1, IsSign(e[k - 1])
      PROVE  k \in TermStarts(e) /\ SignOf(e, k) = e[k - 1].op
  <2>1. k \in TermStarts(e)
    BY <1>1, <1>4 DEF TermStarts
  <2>2. IsNegative(e, k) <=> e[k - 1].op = "-"
    <3>1. ASSUME e[k - 1].op = "-" PROVE IsNegative(e, k)
      <4>1. k > 1 /\ k <= k /\ \A j \in TermStarts(e) : ~(k < j /\ j <= k)
        BY <1>1, <1>2, <1>4
      <4> QED
        BY <2>1, <3>1, <4>1 DEF IsNegative
    <3>2. ASSUME IsNegative(e, k) PROVE e[k - 1].op = "-"
      <4>1. PICK s \in TermStarts(e) :
              /\ s > 1 /\ e[s - 1].op = "-" /\ s <= k
              /\ \A j \in TermStarts(e) : ~(s < j /\ j <= k)
        BY <3>2 DEF IsNegative
      <4>2. s = k
        <5>1. ~(s < k /\ k <= k) /\ k <= k
          BY <1>1, <2>1, <4>1
        <5> QED
          BY <1>1, <1>2, <4>1, <5>1
      <4> QED
        BY <4>1, <4>2
    <3> QED
      BY <3>1, <3>2
  <2>3. e[k - 1].op \in {"+", "-"}
    <3>1. k - 1 \in 1..Len(e)
      BY <1>1, <1>4
    <3> QED
      BY <1>1, <1>4, <3>1, TokensAre
  <2> QED
    BY <2>1, <2>2, <2>3 DEF SignOf
<1>5. ASSUME k # 1, IsFactor(e[k - 1])
      PROVE  k \notin TermStarts(e) /\ SignOf(e, k) = SignOf(e, k - 2)
  <2>1. ~IsSign(e[k - 1])
    <3>1. k - 1 \in 1..Len(e)
      BY <1>1, <1>5
    <3> QED
      BY <1>1, <1>5, <3>1, TokensAre
  <2>2. k \notin TermStarts(e)
    BY <1>5, <2>1 DEF TermStarts
  <2>3. \A j \in TermStarts(e) : j <= k <=> j <= k - 2
    <3> SUFFICES ASSUME NEW j \in TermStarts(e), j <= k PROVE j <= k - 2
      BY <1>1, <1>2
    <3>1. j # k /\ j \in Nat /\ j % 2 = 1
      BY <1>2, <2>2
    <3>2. j # k - 1
      BY <1>1, <3>1
    <3> QED
      BY <1>1, <3>1, <3>2
  <2>4. IsNegative(e, k) <=> IsNegative(e, k - 2)
    BY <2>3 DEF IsNegative
  <2> QED
    BY <2>2, <2>4 DEF SignOf
<1> QED
  BY <1>3, <1>4, <1>5

(* Before an operator a term ends where the operator is a sign.            *)
LEMMA EndsAre ==
  ASSUME NEW e \in Seq(Tokens), Grammatical(e), NEW k \in 1..Len(e)
  PROVE  /\ k % 2 = 0 /\ IsSign(e[k]) => k - 1 \in TermEnds(e)
         /\ k % 2 = 0 /\ IsFactor(e[k]) => k - 1 \notin TermEnds(e)
         /\ k % 2 = 1 => k - 1 \notin TermEnds(e)
         /\ k = Len(e) => k \in TermEnds(e)
<1>1. /\ Len(e) \in Nat /\ DOMAIN e = 1..Len(e) /\ Len(e) % 2 = 1
      /\ \A j \in 1..Len(e) : e[j] \in Tokens
  BY GrammarIs
<1>2. ASSUME k % 2 = 0
      PROVE  /\ k - 1 \in 1..Len(e) /\ (k - 1) % 2 = 1 /\ k - 1 # Len(e)
             /\ (k - 1) + 1 = k
  BY <1>1, <1>2
<1>3. k % 2 = 0 /\ IsSign(e[k]) => k - 1 \in TermEnds(e)
  BY <1>1, <1>2 DEF TermEnds
<1>4. k % 2 = 0 /\ IsFactor(e[k]) => k - 1 \notin TermEnds(e)
  <2>1. IsFactor(e[k]) => ~IsSign(e[k])
    BY <1>1, TokensAre
  <2> QED
    BY <1>2, <2>1 DEF TermEnds
<1>5. k % 2 = 1 => k - 1 \notin TermEnds(e)
  <2>1. k % 2 = 1 => (k - 1) % 2 # 1
    BY <1>1
  <2> QED
    BY <2>1 DEF TermEnds
<1>6. k = Len(e) => k \in TermEnds(e)
  BY <1>1 DEF TermEnds
<1> QED
  BY <1>3, <1>4, <1>5, <1>6

(* The sum of a term that ends, and of none.                               *)
LEMMA TotalNext ==
  ASSUME NEW env, IsEnv(env), NEW e \in Seq(Tokens), Grammatical(e),
         NEW k \in 1..Len(e)
  PROVE  /\ k \notin TermEnds(e) =>
              ExactSum(e, env)[k] = ExactSum(e, env)[k - 1]
         /\ k \in TermEnds(e) =>
              ExactSum(e, env)[k] =
                IF SignOf(e, k) = "+"
                THEN ExactSum(e, env)[k - 1] + TermValue(e, env)[k]
                ELSE ExactSum(e, env)[k - 1] - TermValue(e, env)[k]
<1>1. ExactSum(e, env)[k] = SumStep(<<e, env>>, ExactSum(e, env)[k - 1], k)
  BY TotalsAre
<1> QED
  BY <1>1 DEF SumStep, SignOf

(* An error stays one.                                                     *)
LEMMA ErrorStays ==
  ASSUME NEW env, NEW s \in States, NEW t \in Tokens,
         s.sum = Err \/ s.current = Err
  PROVE  LET r == ReadToken(env, s, t) IN r.sum = Err \/ r.current = Err
<1>1. Err # Empty
  BY NumbersAre
<1>2. CASE s.sum = Err
  BY <1>2 DEF ReadToken
<1>3. CASE s.sum # Err /\ s.current = Err /\ IsFactor(t)
  <2>1. ReadToken(env, s, t) = [s EXCEPT !.pending = t.op]
    BY <1>1, <1>3 DEF ReadToken, ReadFactor
  <2> QED
    BY <1>3, <2>1 DEF States
<1>4. CASE s.sum # Err /\ s.current = Err /\ ~IsFactor(t) /\ IsSign(t)
  <2>1. SumOf(s) = Err
    BY <1>4 DEF SumOf
  <2>2. ReadToken(env, s, t).sum = Err
    BY <1>4, <2>1 DEF ReadToken, ReadSign, Start
  <2> QED
    BY <2>2
<1>5. CASE s.sum # Err /\ s.current = Err /\ ~IsFactor(t) /\ ~IsSign(t)
  <2>1. ReadToken(env, s, t).current = Err
    BY <1>5 DEF ReadToken, ReadAtom, States
  <2> QED
    BY <2>1
<1> QED
  BY <1>2, <1>3, <1>4, <1>5

(* Combine is the exact operation where that is a u64, and else an error.  *)
LEMMA CombineExact ==
  ASSUME NEW a \in Numbers, NEW op \in {"*", "/", "%"},
         NEW b \in Numbers, NEW c,
         c = IF op = "*" THEN a * b ELSE IF b = 0 THEN Err
             ELSE IF op = "/" THEN a \div b ELSE a % b
  PROVE  Combine(a, op, b) = IF c \in Numbers THEN c ELSE Err
<1>1. CASE op = "*"
  BY <1>1 DEF Combine, Checked, Numbers
<1>2. CASE op # "*"
  <2>1. Combine(a, op, b) = c
    BY <1>2 DEF Combine
  <2>2. c \in Numbers \cup {Err}
    BY <2>1, CombineIs
  <2> QED
    BY <2>1, <2>2
<1> QED
  BY <1>1, <1>2

(* One more token, an atom.                                                *)
LEMMA ReadsAtom ==
  ASSUME NEW env, IsEnv(env), NEW e \in Seq(Tokens), Grammatical(e),
         NEW k \in 1..Len(e), k % 2 = 1,
         NEW s \in States, Reads(e, env, s, k - 1), Good(e, env, k - 1)
  PROVE  Reads(e, env, ReadToken(env, s, e[k]), k)
<1> DEFINE T == TermValue(e, env)
           S == ExactSum(e, env)
           r == ReadToken(env, s, e[k])
           v == Atom(e[k], env)
           c == IF v = Err \/ s.current = Err THEN Err
                ELSE IF s.current = Empty THEN v
                ELSE IF s.pending = "none" THEN Err
                ELSE Combine(s.current, s.pending, v)
           first == k = 1 \/ IsSign(e[k - 1])
<1>1. /\ Len(e) \in Nat /\ k \in Nat /\ k >= 1
      /\ \A j \in 1..Len(e) : e[j] \in Tokens
      /\ IsAtom(e[k]) /\ e[k] \in Tokens
  BY GrammarIs
<1>2. /\ T \in [0..Len(e) -> Int]
      /\ \A j \in 1..Len(e) : T[j] = TermStep(<<e, env>>, T[j - 1], j)
  BY TermsAre
<1>3. v \in Numbers \cup {Err}
  BY <1>1, AtomIs
<1>4. k # 1 => /\ k - 1 \in 1..Len(e) /\ (k - 1) % 2 = 0 /\ k - 2 \in 1..Len(e)
               /\ (k - 2) % 2 = 1 /\ (k - 1) - 1 = k - 2 /\ k - 1 # 0
               /\ e[k - 1] \in Tokens
               /\ (IsFactor(e[k - 1]) \/ IsSign(e[k - 1]))
  <2>1. k # 1 => /\ k - 1 \in 1..Len(e) /\ (k - 1) % 2 = 0
                 /\ k - 2 \in 1..Len(e) /\ (k - 2) % 2 = 1
                 /\ (k - 1) - 1 = k - 2 /\ k - 1 # 0
    BY <1>1
  <2> QED
    BY <1>1, <2>1, GrammarIs
<1>5. /\ s.sum = IF k - 1 = 0 THEN 0 ELSE S[(k - 1) - 1]
      /\ s.sum \in Numbers
      /\ k - 1 = 0 => s = Start
      /\ k - 1 # 0 /\ (k - 1) % 2 = 0 /\ IsSign(e[k - 1]) =>
           s.current = Empty /\ s.pending = "none" /\ s.sign = e[k - 1].op
      /\ k - 1 # 0 /\ (k - 1) % 2 = 0 /\ IsFactor(e[k - 1]) =>
           /\ s.current = T[(k - 1) - 1]
           /\ s.pending = e[k - 1].op /\ s.sign = SignOf(e, (k - 1) - 1)
  BY DEF Reads
<1> HIDE DEF T, S, v
<1>6. s.sum = S[k - 1]
  <2>1. CASE k = 1
    <3>1. S[0] = 0
      BY TotalsAre DEF S
    <3>2. s = Start /\ k - 1 = 0
      BY <1>5, <2>1
    <3> QED
      BY <3>1, <3>2 DEF Start
  <2>2. CASE k # 1
    <3>1. k - 1 \notin TermEnds(e)
      BY <1>1, EndsAre
    <3>2. S[k - 1] = S[(k - 1) - 1]
      BY <1>4, <2>2, <3>1, TotalNext DEF S
    <3> QED
      BY <1>4, <1>5, <2>2, <3>2
  <2> QED
    BY <2>1, <2>2
<1>7. s.sum # Err
  BY <1>5, NumbersAre
<1>8. r = [s EXCEPT !.pending = "none", !.current = c]
  <2>1. ~IsFactor(e[k]) /\ ~IsSign(e[k])
    BY <1>1, TokensAre
  <2> QED
    BY <1>7, <2>1 DEF ReadToken, ReadAtom, v
<1> HIDE DEF r
<1>9. /\ r.sum = S[k - 1] /\ r.sum \in Numbers /\ r.pending = "none"
      /\ r.sign = s.sign /\ r.current = c
  <2> HIDE DEF c
  <2> QED
    BY <1>5, <1>6, <1>8 DEF States
<1>10. r.sign = SignOf(e, k)
  <2>1. CASE k = 1
    <3>1. s = Start /\ SignOf(e, k) = "+"
      BY <1>5, <2>1, SignsAre
    <3> QED
      BY <1>9, <3>1 DEF Start
  <2>2. CASE k # 1 /\ IsSign(e[k - 1])
    <3>1. SignOf(e, k) = e[k - 1].op
      BY <2>2, SignsAre
    <3> QED
      BY <1>4, <1>5, <1>9, <2>2, <3>1
  <2>3. CASE k # 1 /\ IsFactor(e[k - 1])
    <3>1. SignOf(e, k) = SignOf(e, k - 2)
      BY <2>3, SignsAre
    <3> QED
      BY <1>4, <1>5, <1>9, <2>3, <3>1
  <2> QED
    BY <1>4, <2>1, <2>2, <2>3
<1>11. c = IF T[k] \in Numbers THEN T[k] ELSE Err
  <2>1. T[k] = IF k \in TermStarts(e) THEN v
               ELSE IF T[k - 1] = Err \/ v = Err THEN Err
               ELSE IF e[k - 1].op = "*" THEN T[k - 1] * v
               ELSE IF v = 0 THEN Err
               ELSE IF e[k - 1].op = "/" THEN T[k - 1] \div v
               ELSE T[k - 1] % v
    BY <1>2 DEF TermStep, v
  <2>2. CASE k = 1 \/ IsSign(e[k - 1])
    <3>1. s.current = Empty
      BY <1>4, <1>5, <2>2 DEF Start
    <3>2. k \in TermStarts(e)
      BY <2>2, SignsAre
    <3>3. T[k] = v /\ c = v
      BY <2>1, <3>1, <3>2, NumbersAre
    <3> QED
      BY <1>3, <3>3, NumbersAre
  <2>3. CASE k # 1 /\ IsFactor(e[k - 1])
    <3> DEFINE a == T[k - 2]
               op == e[k - 1].op
    <3>1. s.current = a /\ s.pending = op
      BY <1>4, <1>5, <2>3
    <3>2. k \notin TermStarts(e)
      BY <2>3, SignsAre
    <3>3. T[k - 1] = a
      <4>1. T[k - 1] = TermStep(<<e, env>>, T[(k - 1) - 1], k - 1)
        BY <1>2, <1>4, <2>3
      <4> QED
        BY <1>4, <2>3, <4>1 DEF TermStep
    <3>4. a \in Numbers
      BY <1>4, <2>3 DEF Good, T
    <3>5. op \in {"*", "/", "%"}
      BY <1>4, <2>3, TokensAre
    <3> HIDE DEF a, op
    <3>6. T[k] = IF v = Err THEN Err
                 ELSE IF op = "*" THEN a * v
                 ELSE IF v = 0 THEN Err
                 ELSE IF op = "/" THEN a \div v ELSE a % v
      BY <2>1, <3>2, <3>3, <3>4, NumbersAre DEF op
    <3>7. CASE v = Err
      BY <3>6, <3>7, NumbersAre
    <3>8. CASE v # Err
      <4>1. v \in Numbers /\ T[k] = IF op = "*" THEN a * v
                                    ELSE IF v = 0 THEN Err
                                    ELSE IF op = "/" THEN a \div v ELSE a % v
        BY <1>3, <3>6, <3>8
      <4>2. Combine(a, op, v) = IF T[k] \in Numbers THEN T[k] ELSE Err
        BY <3>4, <3>5, <4>1, CombineExact
      <4>3. c = Combine(a, op, v)
        <5>1. a # Err /\ a # Empty /\ op # "none"
          BY <3>4, <3>5, NumbersAre
        <5> QED
          BY <3>1, <3>8, <5>1
      <4> QED
        BY <4>2, <4>3
    <3> QED
      BY <3>7, <3>8
  <2> QED
    BY <1>4, <2>2, <2>3
<1> HIDE DEF c
<1>12. Good(e, env, k) <=> T[k] \in Numbers
  <2>1. k - 1 \notin TermEnds(e)
    BY EndsAre
  <2> QED
    BY <2>1, GoodNext DEF T
<1>13. CASE T[k] \in Numbers
  <2>1. k # 0 /\ k % 2 # 0 /\ r.current = T[k]
    BY <1>1, <1>9, <1>11, <1>13
  <2> QED
    BY <1>9, <1>10, <1>12, <1>13, <2>1 DEF Reads, r, T, S
<1>14. CASE T[k] \notin Numbers
  BY <1>9, <1>11, <1>12, <1>14 DEF Reads, r
<1> QED
  BY <1>13, <1>14

(* An operator of a term.                                                  *)
LEMMA ReadsFactor ==
  ASSUME NEW env, IsEnv(env), NEW e \in Seq(Tokens), Grammatical(e),
         NEW k \in 1..Len(e), k % 2 = 0, IsFactor(e[k]),
         NEW s \in States, Reads(e, env, s, k - 1), Good(e, env, k - 1)
  PROVE  Reads(e, env, ReadToken(env, s, e[k]), k)
<1> DEFINE T == TermValue(e, env)
           S == ExactSum(e, env)
           r == ReadToken(env, s, e[k])
<1>1. /\ Len(e) \in Nat /\ k - 1 \in 1..Len(e) /\ (k - 1) % 2 = 1
      /\ k - 1 # 0 /\ k # 0 /\ k % 2 # 1
      /\ e[k] \in Tokens /\ ~IsSign(e[k])
  <2>1. Len(e) \in Nat /\ e[k] \in Tokens
    BY GrammarIs
  <2>2. ~IsSign(e[k])
    BY <2>1, TokensAre
  <2>3. /\ k - 1 \in 1..Len(e) /\ (k - 1) % 2 = 1 /\ k - 1 # 0
        /\ k # 0 /\ k % 2 # 1
    BY <2>1
  <2> QED
    BY <2>1, <2>2, <2>3
<1>2. /\ s.sum = S[(k - 1) - 1] /\ s.sum \in Numbers
      /\ s.current = T[k - 1] /\ s.sign = SignOf(e, k - 1)
  BY <1>1 DEF Reads
<1>3. T[k - 1] \in Numbers
  BY <1>1 DEF Good
<1>4. k - 1 \notin TermEnds(e)
  BY EndsAre
<1>5. S[k - 1] = S[(k - 1) - 1]
  BY <1>1, <1>4, TotalNext
<1>6. Good(e, env, k)
  BY <1>1, <1>4, GoodNext
<1> HIDE DEF T, S
<1>7. r = [s EXCEPT !.pending = e[k].op]
  <2>1. s.sum # Err /\ s.current # Empty
    BY <1>2, <1>3, NumbersAre
  <2> QED
    BY <2>1 DEF ReadToken, ReadFactor
<1> HIDE DEF r
<1>8. /\ r.sum = S[k - 1] /\ r.sum \in Numbers /\ r.current = T[k - 1]
      /\ r.pending = e[k].op /\ r.sign = SignOf(e, k - 1)
  BY <1>2, <1>5, <1>7 DEF States
<1> QED
  BY <1>1, <1>6, <1>8 DEF Reads, r, T, S

(* An operator between terms.                                              *)
LEMMA ReadsSign ==
  ASSUME NEW env, IsEnv(env), NEW e \in Seq(Tokens), Grammatical(e),
         NEW k \in 1..Len(e), k % 2 = 0, IsSign(e[k]),
         NEW s \in States, Reads(e, env, s, k - 1), Good(e, env, k - 1)
  PROVE  Reads(e, env, ReadToken(env, s, e[k]), k)
<1> DEFINE T == TermValue(e, env)
           S == ExactSum(e, env)
           r == ReadToken(env, s, e[k])
<1>1. /\ Len(e) \in Nat /\ k - 1 \in 1..Len(e) /\ (k - 1) % 2 = 1
      /\ k - 1 # 0 /\ k # 0 /\ k % 2 # 1
      /\ e[k] \in Tokens /\ ~IsFactor(e[k])
  <2>1. Len(e) \in Nat /\ e[k] \in Tokens
    BY GrammarIs
  <2>2. ~IsFactor(e[k])
    BY <2>1, TokensAre
  <2>3. /\ k - 1 \in 1..Len(e) /\ (k - 1) % 2 = 1 /\ k - 1 # 0
        /\ k # 0 /\ k % 2 # 1
    BY <2>1
  <2> QED
    BY <2>1, <2>2, <2>3
<1>2. /\ s.sum = S[(k - 1) - 1] /\ s.sum \in Numbers
      /\ s.current = T[k - 1] /\ s.sign = SignOf(e, k - 1)
  BY <1>1 DEF Reads
<1>3. T[k - 1] \in Numbers
  BY <1>1 DEF Good
<1>4. k - 1 \in TermEnds(e)
  BY EndsAre
<1>5. S[k - 1] = IF SignOf(e, k - 1) = "+" THEN S[(k - 1) - 1] + T[k - 1]
                 ELSE S[(k - 1) - 1] - T[k - 1]
  BY <1>1, <1>4, TotalNext
<1>6. Good(e, env, k) <=> S[k - 1] \in Numbers
  BY <1>1, <1>4, GoodNext
<1> HIDE DEF T, S
<1>7. SumOf(s) = IF S[k - 1] \in Numbers THEN S[k - 1] ELSE Err
  <2>1. s.sum # Err /\ s.current \notin {Err, Empty}
    BY <1>2, <1>3, NumbersAre
  <2>2. SumOf(s) = Checked(S[k - 1])
    BY <1>2, <1>5, <2>1 DEF SumOf
  <2> QED
    BY <2>2 DEF Checked, Numbers
<1>8. r = [Start EXCEPT !.sum = SumOf(s), !.sign = e[k].op]
  <2>1. s.sum # Err
    BY <1>2, NumbersAre
  <2> QED
    BY <1>1, <2>1 DEF ReadToken, ReadSign
<1> HIDE DEF r
<1>9. /\ r.sum = SumOf(s) /\ r.sign = e[k].op
      /\ r.current = Empty /\ r.pending = "none"
  BY <1>8 DEF Start
<1>10. CASE S[k - 1] \in Numbers
  <2>1. r.sum = S[k - 1]
    BY <1>7, <1>9, <1>10
  <2> QED
    BY <1>1, <1>6, <1>9, <1>10, <2>1 DEF Reads, r, T, S
<1>11. CASE S[k - 1] \notin Numbers
  BY <1>6, <1>7, <1>9, <1>11 DEF Reads, r
<1> QED
  BY <1>10, <1>11

(* What eval_arith computes of what the grammar allows is what the grammar *)
(* says, and an error where a value on the way is none or no u64.          *)
THEOREM EvalIsExact ==
  ASSUME NEW env, IsEnv(env), NEW e \in Seq(Tokens), Grammatical(e)
  PROVE  EvalArith(e, env) = IF Fits(e, env) THEN Exact(e, env) ELSE Err
<1> DEFINE n == Len(e)
           T == TermValue(e, env)
           S == ExactSum(e, env)
<1>1. /\ n \in Nat /\ n >= 1 /\ n % 2 = 1 /\ DOMAIN e = 1..n
      /\ \A k \in 1..n : e[k] \in Tokens
      /\ \A k \in 1..n : k % 2 = 0 => IsFactor(e[k]) \/ IsSign(e[k])
  BY GrammarIs
<1>2. PICK g : Passes(g, e, env)
  BY EvalPasses
<1>3. /\ g \in [0..n -> States] /\ g[0] = Start
      /\ \A k \in 1..n : g[k] = ReadToken(env, g[k - 1], e[k])
      /\ EvalArith(e, env) = SumOf(g[n])
  BY <1>2 DEF Passes
<1> DEFINE G == {k \in 0..n : Reads(e, env, g[k], k)}
<1>4. 0 \in G
  <2>1. Good(e, env, 0)
    BY <1>1 DEF Good, TermEnds
  <2>2. Start.sum = 0 /\ 0 % 2 # 1
    BY DEF Start
  <2> QED
    BY <1>1, <1>3, <2>1, <2>2, NumbersAre DEF Reads
<1>5. ASSUME NEW j \in 0..(n - 1), j \in G PROVE j + 1 \in G
  <2> DEFINE k == j + 1
  <2>1. k \in 1..n /\ k - 1 = j /\ k - 1 \in 0..n /\ k \in 0..n
    BY <1>1
  <2> HIDE DEF k, n
  <2>2. /\ g[k - 1] \in States /\ g[k] = ReadToken(env, g[k - 1], e[k])
        /\ Reads(e, env, g[k - 1], k - 1) /\ e[k] \in Tokens
    BY <1>1, <1>3, <1>5, <2>1
  <2>3. CASE ~Good(e, env, k - 1)
    <3>1. ~Good(e, env, k)
      BY <2>1, <2>3, GoodNext DEF n
    <3>2. g[k - 1].sum = Err \/ g[k - 1].current = Err
      BY <2>2, <2>3 DEF Reads
    <3>3. g[k].sum = Err \/ g[k].current = Err
      BY <2>2, <3>2, ErrorStays
    <3> QED
      BY <2>1, <3>1, <3>3 DEF Reads, k
  <2>4. CASE Good(e, env, k - 1)
    <3>1. CASE k % 2 = 1
      <4>1. Reads(e, env, g[k], k)
        BY <2>1, <2>2, <2>4, <3>1, ReadsAtom DEF n
      <4> QED
        BY <2>1, <4>1 DEF k
    <3>2. CASE k % 2 = 0 /\ IsFactor(e[k])
      <4>1. Reads(e, env, g[k], k)
        BY <2>1, <2>2, <2>4, <3>2, ReadsFactor DEF n
      <4> QED
        BY <2>1, <4>1 DEF k
    <3>3. CASE k % 2 = 0 /\ IsSign(e[k])
      <4>1. Reads(e, env, g[k], k)
        BY <2>1, <2>2, <2>4, <3>3, ReadsSign DEF n
      <4> QED
        BY <2>1, <4>1 DEF k
    <3>4. k % 2 = 1 \/ k % 2 = 0
      BY <1>1, <2>1
    <3> QED
      BY <1>1, <2>1, <3>1, <3>2, <3>3, <3>4
  <2> QED
    BY <2>3, <2>4
<1>6. Reads(e, env, g[n], n) /\ g[n] \in States
  <2>1. \A k \in 0..n : k \in G
    <3> HIDE DEF G, n
    <3> QED
      BY <1>1, <1>4, <1>5, Terms!BoundedInduction
  <2> QED
    BY <1>1, <1>3, <2>1
<1>7. n \in TermEnds(e) /\ TermEnds(e) \in SUBSET (1..n)
  <2>1. n \in 1..n
    BY <1>1
  <2> QED
    BY <1>1, <2>1, EndsAre DEF TermEnds
<1>8. Fits(e, env) <=> Good(e, env, n) /\ S[n] \in Numbers
  <2>1. \A j \in TermEnds(e) : j < n \/ j = n
    BY <1>1, <1>7
  <2> HIDE DEF n
  <2> QED
    BY <1>1, <1>7, <2>1 DEF Fits, Good, Numbers
<1>9. S[n] = IF SignOf(e, n) = "+" THEN S[n - 1] + T[n] ELSE S[n - 1] - T[n]
  <2>1. n \in 1..n
    BY <1>1
  <2> QED
    BY <1>7, <2>1, TotalNext
<1> HIDE DEF n, T, S
<1>10. CASE ~Good(e, env, n)
  <2>1. SumOf(g[n]) = Err
    BY <1>6, <1>10 DEF Reads, SumOf
  <2> QED
    BY <1>3, <1>8, <1>10, <2>1
<1>11. CASE Good(e, env, n)
  <2>1. /\ g[n].sum = S[n - 1] /\ g[n].sum \in Numbers /\ g[n].current = T[n]
        /\ g[n].sign = SignOf(e, n)
    BY <1>1, <1>6, <1>11 DEF Reads, T, S
  <2>2. T[n] \in Numbers
    BY <1>1, <1>11 DEF Good, T
  <2>3. SumOf(g[n]) = Checked(S[n])
    <3>1. g[n].sum # Err /\ g[n].current \notin {Err, Empty}
      BY <2>1, <2>2, NumbersAre
    <3> QED
      BY <1>9, <2>1, <3>1 DEF SumOf
  <2>4. SumOf(g[n]) = IF S[n] \in Numbers THEN S[n] ELSE Err
    BY <2>3 DEF Checked, Numbers
  <2> QED
    BY <1>3, <1>8, <1>11, <2>4 DEF Exact, S, n
<1> QED
  BY <1>10, <1>11
=============================================================================
