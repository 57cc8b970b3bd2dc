------------------------------ MODULE MCSweep ------------------------------
(* Instances of Sweep for TLC, and two statements of the source's own      *)
(* comments that the code does not keep.                                   *)
EXTENDS Sweep, FiniteSetsExt

CONSTANTS u1, u2, s1, h1

TwoUnsafe == {u1, u2}
Mixed == {u1, u2, s1}
OneHost == {h1}
BudgetsTo2 == {NoBudget, 0, 2}
OneSecond == {1}

(* run.rs on CandidateResult.status: `timeout' means a watchdog fired on a *)
(* candidate the gate had refused.  The record is written before the       *)
(* launch, so a box that dies for any other reason leaves one as well.     *)
TimeoutMeansWatchdogFired ==
  pc = "down" => \A r \in OnDisk : r.status = "timeout" => r.id \in fired

(* run.rs on Results.total_gpu_seconds: the seconds the whole sweep        *)
(* consumed, hence no less than its measurements took together.  A resumed *)
(* process overwrites it with its own elapsed time.                        *)
TotalCoversSweep ==
  exit = "ok" =>
    disk.total_gpu_seconds >=
      MapThenSumSet(LAMBDA r : r.gpu_seconds, Settled(OnDisk))
=============================================================================
