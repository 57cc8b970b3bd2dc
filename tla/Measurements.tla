---------------------------- MODULE Measurements ----------------------------
(***************************************************************************)
(* What a measured sweep promises about the results document, with no      *)
(* processes, checkpoints, watchdogs or crashes: every candidate has an    *)
(* outcome that only ever moves forward.                                   *)
(*                                                                         *)
(* A candidate the gate admitted goes from unmeasured to its measurement   *)
(* in one step.  A candidate the gate refused (it runs only under          *)
(* --allow-unsafe) is first opened, and an open candidate ends with its    *)
(* measurement or, when the process that opened it is gone, as a timeout.  *)
(* Nothing is ever measured twice and at most one candidate is open.       *)
(*                                                                         *)
(* Sweep.tla is the detailed specification that implements this one.       *)
(***************************************************************************)
CONSTANTS
  Candidates,   \* the candidates of the plan
  Unsafe        \* those the gate refused

VARIABLE outcome

Final == {"ok", "error", "timeout"}

Outcomes == Final \cup {"none", "open"}

Init == outcome = [c \in Candidates |-> "none"]

(* A refused candidate is about to run; no other candidate is running.     *)
Open(c) ==
  /\ c \in Unsafe
  /\ outcome[c] = "none"
  /\ \A d \in Candidates : outcome[d] # "open"
  /\ outcome' = [outcome EXCEPT ![c] = "open"]

(* The measurement of a candidate, or the error that stopped it.           *)
Settle(c) ==
  /\ outcome[c] = IF c \in Unsafe THEN "open" ELSE "none"
  /\ \E s \in {"ok", "error"} : outcome' = [outcome EXCEPT ![c] = s]

(* The process running an open candidate is gone.                          *)
Abandon(c) ==
  /\ outcome[c] = "open"
  /\ outcome' = [outcome EXCEPT ![c] = "timeout"]

Next == \E c \in Candidates : Open(c) \/ Settle(c) \/ Abandon(c)

Spec == Init /\ [][Next]_outcome
=============================================================================
