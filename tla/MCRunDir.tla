----------------------------- MODULE MCRunDir -----------------------------
(* Instances of RunDir for TLC, and a statement of the documentation that  *)
(* the code does not keep.                                                 *)
EXTENDS RunDir

TwoIds == 1..2
TwoVersions == 0..1

(* An edit, or another --cc, that swaps the verdicts; and one that drops a *)
(* configuration and on which the analyzer fails.                          *)
Answer(one, two) == [i \in TwoIds |-> IF i = 1 THEN one ELSE two]
SomeTruths ==
  {[v \in TwoVersions |-> IF v = 0 THEN Answer("clean", "disqualified")
                                   ELSE later] :
     later \in {Answer("disqualified", "clean"),
                Answer("absent", "tool_error")}}

(* The swap is another --cc, under which an artifact keeps its name; the   *)
(* other is an edit, which gives it a new one.                             *)
SomeNames == TwoIds \X TwoVersions
SomeNameOf ==
  [truth \in SomeTruths |->
     [n \in SomeNames |->
        IF truth[1][1] = "absent" THEN n ELSE <<n[1], 0>>]]

(* 1 is below 2 and touches 3, which overlaps 2.                           *)
Times ==
  {[lo |-> 1, med |-> 2, hi |-> 3], [lo |-> 4, med |-> 5, hi |-> 6],
   [lo |-> 3, med |-> 4, hi |-> 5]}

TwoTimes ==
  {[lo |-> 1, med |-> 2, hi |-> 3], [lo |-> 4, med |-> 5, hi |-> 6]}

(* docs/BENCHMARKING.md on candidates measured under --allow-unsafe: their *)
(* timings appear only in the rejection report.  A stage at another --cc   *)
(* or of an edited crate may admit such a candidate; the sweep resumes by  *)
(* id, keeps its old timing, and the report may choose it.                 *)
RefusedTimingNeverChosen ==
  job.pc = "idle" /\ sweep.pc = "idle" /\ Readable(verdicts)
    /\ results # NoDoc =>
      LET gate == gates[verdicts]
      IN  gate.gate = "full" => \A r \in Chosen(gate, results) : ~r.refused
=============================================================================
