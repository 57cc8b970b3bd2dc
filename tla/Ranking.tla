------------------------------- MODULE Ranking -------------------------------
(***************************************************************************)
(* How the report compares measured candidates (launchbound-report and     *)
(* stats): a row has an id, the place of its candidate in verdicts.json, a *)
(* status and, if it was timed, a summary with its median and interval.    *)
(***************************************************************************)
EXTENDS Integers

Timed(rows) == {r \in rows : r.status = "ok"}

(* Mutant: the first measured candidate is chosen, not the fastest.        *)
FirstEligible(eligible) ==
  CHOOSE r \in eligible : \A q \in eligible : r.id <= q.id

(* min_by over the medians: the first of the fastest.                      *)
Fastest(eligible) ==
  CHOOSE r \in eligible :
    \A q \in eligible : \/ r.summary.med < q.summary.med
                        \/ r.summary.med = q.summary.med /\ r.id <= q.id

(* indistinguishable: the intervals touch.                                 *)
Overlap(a, b) == a.lo <= b.hi /\ b.lo <= a.hi
=============================================================================
