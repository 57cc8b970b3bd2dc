-------------------------------- MODULE Stats --------------------------------
(***************************************************************************)
(* The summary of a candidate's timings (launchbound-bench, stats).        *)
(* Timings are integers; the summary is in quarters of their unit, so that *)
(* an interpolated quantile is exact where the code rounds a double.  Inf  *)
(* and NaN are numbers above every timing, NaN the larger, which is the    *)
(* order of f64::total_cmp.  The mean, on which nothing ranks, is left out.*)
(***************************************************************************)
EXTENDS Sorting, Sequences

CONSTANTS Inf, NaN, NoSummary

ASSUME StatsAssumption == Inf \in Nat /\ NaN \in Nat /\ Inf < NaN

(* A timing of which the quarters are a number too, or none.               *)
Timings == {t \in Nat : 4 * t < Inf} \cup {Inf, NaN}

Quarters(x) == IF x >= Inf THEN x ELSE 4 * x

(* The samples at the places I, in the order of total_cmp.                 *)
Ordered(times, I) ==
  LET place == Sorted(I, {p \in I \X I :
                            \/ times[p[1]] < times[p[2]]
                            \/ times[p[1]] = times[p[2]] /\ p[1] < p[2]})
  IN  [k \in 1..Cardinality(I) |-> times[place[k]]]

(* quantile at q/4 of a sorted sample: a product with an infinite sample   *)
(* is infinite or, where the weight is zero, NaN.                          *)
Quantile(sorted, q) ==
  LET pos == q * (Len(sorted) - 1)
      base == pos \div 4 + 1
      frac == pos % 4
  IN  IF base = Len(sorted) THEN Quarters(sorted[base])
      ELSE LET above == sorted[base + 1]
           IN  IF above = NaN \/ (above = Inf /\ frac = 0) THEN NaN
               ELSE IF above = Inf THEN Inf
               ELSE sorted[base] * (4 - frac) + above * frac

(* The Tukey fences, in eighths.                                           *)
WithinFences(x, q1, q3) ==
  LET iqr == q3 - q1
  IN  2 * q1 - 3 * iqr <= 8 * x /\ 8 * x <= 2 * q3 + 3 * iqr

(* What the filter keeps: no comparison with NaN holds, and infinity less  *)
(* infinity is NaN.                                                        *)
Survives(x, q1, q3) ==
  /\ x # NaN /\ q1 < Inf /\ q3 # NaN
  /\ q3 = Inf \/ (x # Inf /\ WithinFences(x, q1, q3))

(* Whether k is at most n/2 - 0.98 * sqrt(n).                              *)
BelowHalfWidth(k, n) ==
  LET d == n - 2 * k IN d >= 0 /\ 2500 * d * d >= 9604 * n

(* lo_rank, from 0: the floor, clamped at 0.                               *)
LoRank(n) ==
  IF BelowHalfWidth(0, n)
  THEN CHOOSE k \in 0..n : BelowHalfWidth(k, n) /\ ~BelowHalfWidth(k + 1, n)
  ELSE 0

(* hi_rank: the ceiling is n less the floor, clamped at the last sample.   *)
HiRank(n) == IF LoRank(n) = 0 THEN n - 1 ELSE n - LoRank(n)

(* Mutant: the median is that of all the samples.                          *)
SummarizeAll(times) ==
  LET sorted == Ordered(times, DOMAIN times)
      q1 == Quantile(sorted, 1)
      q3 == Quantile(sorted, 3)
      inside == {i \in DOMAIN times : Survives(times[i], q1, q3)}
      kept == Ordered(times, inside)
      n == Cardinality(inside)
  IN  IF times = <<>> \/ n = 0 THEN NoSummary
      ELSE [n |-> n, rejected |-> Len(times) - n,
            med |-> Quantile(sorted, 2),
            lo |-> Quarters(kept[LoRank(n) + 1]),
            hi |-> Quarters(kept[HiRank(n) + 1]),
            min |-> Quarters(kept[1]), max |-> Quarters(kept[n])]

(* summarize.                                                              *)
Summarize(times) ==
  LET sorted == Ordered(times, DOMAIN times)
      q1 == Quantile(sorted, 1)
      q3 == Quantile(sorted, 3)
      inside == {i \in DOMAIN times : Survives(times[i], q1, q3)}
      kept == Ordered(times, inside)
      n == Cardinality(inside)
  IN  IF times = <<>> \/ n = 0 THEN NoSummary
      ELSE [n |-> n, rejected |-> Len(times) - n,
            med |-> Quantile(kept, 2),
            lo |-> Quarters(kept[LoRank(n) + 1]),
            hi |-> Quarters(kept[HiRank(n) + 1]),
            min |-> Quarters(kept[1]), max |-> Quarters(kept[n])]

(* What a summary is to say of its sample, whatever is in it: all samples  *)
(* are kept or rejected, at least half of them kept and no NaN; what is    *)
(* kept is a range; the interval lies in it, its ends being samples, and   *)
(* the median in the interval with half of what is kept on each side.  The *)
(* median may be NaN, where the interval ends in an infinite sample only.  *)
Describes(s, times) ==
  LET kept == {k \in DOMAIN times : Quarters(times[k]) \in s.min..s.max}
      lower == {k \in kept : Quarters(times[k]) <= s.med}
      upper == {k \in kept : Quarters(times[k]) >= s.med}
  IN  /\ s.n + s.rejected = Len(times)
      /\ Cardinality(kept) = s.n /\ 2 * s.n >= Len(times)
      /\ s.min <= s.lo /\ s.lo <= s.med /\ s.hi <= s.max /\ s.max <= Inf
      /\ {s.lo, s.hi} \subseteq {Quarters(times[k]) : k \in kept}
      /\ IF s.med = NaN THEN s.hi = Inf
         ELSE /\ s.med <= s.hi
              /\ 2 * Cardinality(lower) >= s.n
              /\ 2 * Cardinality(upper) >= s.n
=============================================================================
