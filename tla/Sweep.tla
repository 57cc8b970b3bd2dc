------------------------------- MODULE Sweep -------------------------------
(***************************************************************************)
(* run_plan (launchbound-bench/src/run.rs): the resumable measured sweep.  *)
(*                                                                         *)
(* One process at a time visits the plan's candidates, keeps the results   *)
(* document in memory and checkpoints it to results.json (write a          *)
(* temporary file, rename it over the document).  A candidate the gate     *)
(* refused gets a `timeout' record on disk before it is launched and a     *)
(* watchdog thread that ends the process when the launch does not return.  *)
(* The process may die at any step (the box is reclaimed, a checkpoint     *)
(* cannot be written, the watchdog fires); the operator starts it again.   *)
(*                                                                         *)
(* The visiting order of a process is any permutation of the plan, so it   *)
(* is modelled by the set of candidates not visited yet and a free choice  *)
(* of the next one.  Vec<CandidateResult> is a set of records: a record    *)
(* says which launch it came from, so two records of one candidate remain  *)
(* two members.  Time passes only inside a candidate: elapsed is the sum   *)
(* of the seconds of the candidates this process ran.                      *)
(***************************************************************************)
EXTENDS Naturals, FiniteSets

CONSTANTS
  Candidates,     \* the candidates of plan.json
  Unsafe,         \* unsafe_candidate: those the gate refused
  Hosts,          \* device name, cc and driver of a machine, as one value
  Budgets,        \* --budget-secs values an operator may give
  NoBudget,       \* the absent budget
  Seconds,        \* how long measuring one candidate may take
  UnsafeTimeout,  \* unsafe_timeout_secs()
  MaxFaults,      \* bound: how many external faults a behaviour has
  None,           \* no candidate, no machine
  NoDoc,          \* the file does not exist
  Torn            \* the file exists and is not a document

Statuses == {"ok", "error", "timeout"}

(* CandidateResult; host and nth are history: the machine that ran the     *)
(* launch and which launch of the candidate it was.                        *)
CandidateResult ==
  [id : Candidates, status : Statuses, gpu_seconds : Nat,
   host : Hosts, nth : Nat]

(* Results; label stands for device_name, device_cc, driver_version and    *)
(* strategy, which a document takes from the process that created it.      *)
Results ==
  [candidates : SUBSET CandidateResult, label : Hosts,
   total_gpu_seconds : Nat, budget_exhausted : BOOLEAN]

ASSUME SweepAssumption ==
  /\ Unsafe \subseteq Candidates
  /\ None \notin Candidates
  /\ NoBudget \notin Nat
  /\ Budgets \subseteq Nat \cup {NoBudget}
  /\ Seconds \subseteq Nat
  /\ UnsafeTimeout \in Nat
  /\ MaxFaults \in Nat
  /\ NoDoc \notin Results
  /\ Torn \notin Results
  /\ NoDoc # Torn

VARIABLES
  disk,       \* results.json
  tmp,        \* results.json.tmp
  results,    \* the document in the memory of the running process
  pc,         \* where the sweep thread is; "down" when no process runs
  after,      \* where the sweep thread goes when the checkpoint is done
  pending,    \* the part of options.order not visited yet
  current,    \* the candidate being measured
  budget,     \* options.budget_secs of this process
  elapsed,    \* sweep_started.elapsed()
  host,       \* the machine this process runs on
  armed,      \* the watchdog of current is armed and not disarmed
  firing,     \* a watchdog found its deadline passed and is about to exit
  launches,   \* history: how often each candidate was launched
  fired,      \* history: the candidates a watchdog gave up on
  faults,     \* history: how many external faults there were
  exit        \* how the last process ended

process == <<results, pc, after, pending, current, budget, elapsed, host,
             armed, firing>>
history == <<launches, fired, faults>>
vars == <<disk, tmp, process, history, exit>>

Ids(doc) == {r.id : r \in doc.candidates}

(* Mutant: a fresh document names no machine.                              *)
FreshUnlabelled(h) ==
  [candidates |-> {}, label |-> None, total_gpu_seconds |-> 0,
   budget_exhausted |-> FALSE]

Fresh(h) ==
  [candidates |-> {}, label |-> h, total_gpu_seconds |-> 0,
   budget_exhausted |-> FALSE]

(* Mutant: the timeout record is not dropped.                              *)
WithoutNone(doc, c) == doc.candidates

(* Results::retain(|c| c.id != candidate.id) on the document in memory.    *)
Without(doc, c) == {r \in doc.candidates : r.id # c}

Record(c, status, secs) ==
  [id |-> c, status |-> status, gpu_seconds |-> secs, host |-> host,
   nth |-> launches[c]]

Init ==
  /\ disk = NoDoc /\ tmp = NoDoc
  /\ results = NoDoc /\ pc = "down" /\ after = "down"
  /\ pending = {} /\ current = None
  /\ budget = NoBudget /\ elapsed = 0 /\ host = None
  /\ armed = FALSE /\ firing = FALSE
  /\ launches = [c \in Candidates |-> 0] /\ fired = {} /\ faults = 0
  /\ exit = "none"

-----------------------------------------------------------------------------
(* The life of a process.                                                  *)

(* The end of a process: its memory and its threads are gone.              *)
Ended(how) ==
  /\ results' = NoDoc /\ pc' = "down" /\ after' = "down"
  /\ pending' = {} /\ current' = None
  /\ budget' = NoBudget /\ elapsed' = 0
  /\ host' = None /\ armed' = FALSE /\ firing' = FALSE
  /\ exit' = how

(* fs::write truncates the temporary file before it fills it, so a process *)
(* that ends while writing may leave a torn one.                           *)
TmpAfterEnd == tmp' \in IF pc = "write" THEN {tmp, Torn} ELSE {tmp}

(* Device::open succeeds, and the process begins with the document d.      *)
Begins(h, b, d) ==
  /\ pc = "down"
  /\ disk # Torn
  /\ results' = d
  /\ pc' = "next" /\ pending' = Candidates
  /\ budget' = b /\ host' = h /\ exit' = "running"
  /\ UNCHANGED <<disk, tmp, after, current, elapsed, armed, firing, history>>

(* Mutants of Start: a document on disk is overwritten, keeps its flag, or *)
(* loses the records of a status, to measure those candidates again.       *)
StartOver(h, b) == Begins(h, b, Fresh(h))

StartExhausted(h, b) == Begins(h, b, IF disk = NoDoc THEN Fresh(h) ELSE disk)

StartWithout(h, b, status) ==
  Begins(h, b, IF disk = NoDoc THEN Fresh(h)
    ELSE [disk EXCEPT !.candidates = {r \in @ : r.status # status},
                      !.budget_exhausted = FALSE])

StartRetryingTimeouts(h, b) == StartWithout(h, b, "timeout")

StartRetryingErrors(h, b) == StartWithout(h, b, "error")

(* Results::load: a fresh document, or the one on disk resumed under the   *)
(* header it was created with.                                             *)
Start(h, b) ==
  Begins(h, b, IF disk = NoDoc THEN Fresh(h)
               ELSE [disk EXCEPT !.budget_exhausted = FALSE])

(* Device::open fails, and the process ends before it reads anything.      *)
StartFails ==
  /\ pc = "down" /\ faults < MaxFaults
  /\ faults' = faults + 1
  /\ exit' = "error"
  /\ UNCHANGED <<disk, tmp, process, launches, fired>>

(* The machine is reclaimed, or the process is killed, at any step.        *)
Crash ==
  /\ pc # "down" /\ faults < MaxFaults
  /\ faults' = faults + 1
  /\ Ended("crash")
  /\ TmpAfterEnd
  /\ UNCHANGED <<disk, launches, fired>>

-----------------------------------------------------------------------------
(* The loop over options.order.                                            *)

(* The candidate has a record already.                                     *)
Skip(c) ==
  /\ pc = "next" /\ c \in pending
  /\ c \in Ids(results)
  /\ pending' = pending \ {c}
  /\ UNCHANGED <<disk, tmp, results, pc, after, current, budget, elapsed,
                 host, armed, firing, history, exit>>

(* Mutant: stop when the next candidate might not fit the budget.          *)
BudgetMightNotFit == budget # NoBudget /\ elapsed + UnsafeTimeout >= budget

BudgetSpent == budget # NoBudget /\ elapsed >= budget

(* The budget is checked only between candidates, and only for one that    *)
(* would be measured.                                                      *)
StopOnBudget(c) ==
  /\ pc = "next" /\ c \in pending
  /\ c \notin Ids(results)
  /\ BudgetSpent
  /\ results' = [results EXCEPT !.budget_exhausted = TRUE,
                                !.total_gpu_seconds = elapsed]
  /\ pc' = "write" /\ after' = "done"
  /\ UNCHANGED <<disk, tmp, pending, current, budget, elapsed, host, armed,
                 firing, history, exit>>

(* Mutant: only a candidate that was measured is skipped.                  *)
VisitsUnlessOk(c) ==
  /\ pc = "next" /\ c \in pending
  /\ ~ \E r \in results.candidates : r.id = c /\ r.status = "ok"
  /\ ~BudgetSpent
  /\ pending' = pending \ {c} /\ current' = c

Visits(c) ==
  /\ pc = "next" /\ c \in pending
  /\ c \notin Ids(results)
  /\ ~BudgetSpent
  /\ pending' = pending \ {c} /\ current' = c

(* A candidate the gate admitted is launched at once.                      *)
VisitSafe(c) ==
  /\ Visits(c) /\ c \notin Unsafe
  /\ launches' = [launches EXCEPT ![c] = @ + 1]
  /\ pc' = "measure"
  /\ UNCHANGED <<disk, tmp, results, after, budget, elapsed, host, armed,
                 firing, fired, faults, exit>>

(* Mutant: the timeout record is left for a later checkpoint.              *)
VisitUnsaved(c) ==
  /\ Visits(c) /\ c \in Unsafe
  /\ results' = [results EXCEPT
       !.candidates = @ \cup {Record(c, "timeout", UnsafeTimeout)}]
  /\ pc' = "arm"
  /\ UNCHANGED <<disk, tmp, after, budget, elapsed, host, armed, firing,
                 history, exit>>

(* A refused candidate: its timeout record goes to disk before it runs.    *)
VisitUnsafe(c) ==
  /\ Visits(c) /\ c \in Unsafe
  /\ results' = [results EXCEPT
       !.candidates = @ \cup {Record(c, "timeout", UnsafeTimeout)}]
  /\ pc' = "write" /\ after' = "arm"
  /\ UNCHANGED <<disk, tmp, budget, elapsed, host, armed, firing, history,
                 exit>>

(* The order is exhausted: the last checkpoint carries the total.          *)
FinishLoop ==
  /\ pc = "next" /\ pending = {}
  /\ results' = [results EXCEPT !.total_gpu_seconds = elapsed]
  /\ pc' = "write" /\ after' = "done"
  /\ UNCHANGED <<disk, tmp, pending, current, budget, elapsed, host, armed,
                 firing, history, exit>>

Return ==
  /\ pc = "done"
  /\ Ended("ok")
  /\ UNCHANGED <<disk, tmp, history>>

-----------------------------------------------------------------------------
(* Results::checkpoint.                                                    *)

(* Mutant: the document is written in place.                               *)
WriteInPlace ==
  /\ pc = "write"
  /\ disk' = Torn /\ tmp' = results
  /\ pc' = "rename"
  /\ UNCHANGED <<results, after, pending, current, budget, elapsed, host,
                 armed, firing, history, exit>>

CheckpointWrite ==
  /\ pc = "write"
  /\ tmp' = results
  /\ pc' = "rename"
  /\ UNCHANGED <<disk, results, after, pending, current, budget, elapsed,
                 host, armed, firing, history, exit>>

CheckpointRename ==
  /\ pc = "rename"
  /\ disk' = tmp /\ tmp' = NoDoc
  /\ pc' = after
  /\ current' = IF after = "arm" THEN current ELSE None
  /\ UNCHANGED <<results, after, pending, budget, elapsed, host, armed,
                 firing, history, exit>>

(* The write or the rename fails, and run_plan returns the error.          *)
CheckpointFails ==
  /\ pc \in {"write", "rename"} /\ faults < MaxFaults
  /\ faults' = faults + 1
  /\ Ended("error")
  /\ TmpAfterEnd
  /\ UNCHANGED <<disk, launches, fired>>

-----------------------------------------------------------------------------
(* Measuring one candidate, and its watchdog.                              *)

(* The watchdog thread is started and the refused candidate is launched.   *)
ArmWatchdog ==
  /\ pc = "arm"
  /\ armed' = TRUE /\ pc' = "measure"
  /\ launches' = [launches EXCEPT ![current] = @ + 1]
  /\ UNCHANGED <<disk, tmp, results, after, pending, current, budget,
                 elapsed, host, firing, fired, faults, exit>>

(* The outcome of the launch of current is appended; a refused candidate   *)
(* loses its timeout record.                                               *)
Appends(status, next, arms) ==
  /\ pc = "measure"
  /\ \E secs \in Seconds :
       /\ elapsed' = elapsed + secs
       /\ results' = [results EXCEPT
            !.candidates =
               (IF current \in Unsafe THEN Without(results, current) ELSE @)
               \cup {Record(current, status, secs)},
            !.total_gpu_seconds = elapsed + secs]
  /\ armed' = arms
  /\ pc' = next /\ after' = "next"
  /\ UNCHANGED <<disk, tmp, pending, current, budget, host, firing, history,
                 exit>>

(* Mutants: the outcome is not checkpointed, or the watchdog stays armed.  *)
MeasuredUnsaved(status) == Appends(status, "next", FALSE)

MeasuredArmed(status) == Appends(status, "write", armed)

(* run_candidate returns: the watchdog is disarmed, the outcome is         *)
(* appended and checkpointed.                                              *)
Measured(status) == Appends(status, "write", FALSE)

(* The launch of a refused candidate never returns.                        *)
Hang ==
  /\ pc = "measure" /\ current \in Unsafe
  /\ pc' = "hung"
  /\ UNCHANGED <<disk, tmp, results, after, pending, current, budget,
                 elapsed, host, armed, firing, history, exit>>

(* Mutant: the watchdog waits for a launch that returns.                   *)
ExpiresUnlessHung ==
  /\ armed /\ ~firing /\ pc # "hung"
  /\ firing' = TRUE
  /\ fired' = fired \cup {current}
  /\ UNCHANGED <<disk, tmp, results, pc, after, pending, current, budget,
                 elapsed, host, armed, launches, faults, exit>>

(* The watchdog thread passes its deadline and reads the flag unset.       *)
WatchdogExpires ==
  /\ armed /\ ~firing
  /\ firing' = TRUE
  /\ fired' = fired \cup {current}
  /\ UNCHANGED <<disk, tmp, results, pc, after, pending, current, budget,
                 elapsed, host, armed, launches, faults, exit>>

(* process::exit(3), whatever the sweep thread has done since.             *)
WatchdogExits ==
  /\ firing
  /\ Ended("watchdog")
  /\ TmpAfterEnd
  /\ UNCHANGED <<disk, history>>

-----------------------------------------------------------------------------
Operator == \E h \in Hosts, b \in Budgets : Start(h, b)

Loop ==
  \/ \E c \in Candidates :
       Skip(c) \/ StopOnBudget(c) \/ VisitSafe(c) \/ VisitUnsafe(c)
  \/ FinishLoop
  \/ Return

Checkpoint == CheckpointWrite \/ CheckpointRename

Measure == ArmWatchdog \/ Measured("ok") \/ Measured("error")

Watchdog == WatchdogExpires \/ WatchdogExits

Fault == StartFails \/ Crash \/ CheckpointFails

Next == Operator \/ Loop \/ Checkpoint \/ Measure \/ Hang \/ Watchdog \/ Fault

Spec == Init /\ [][Next]_vars

(* The operator reruns a sweep that ended, a running thread is scheduled,  *)
(* and a launch that does not hang returns.                                *)
Fairness ==
  /\ WF_vars(Operator)
  /\ WF_vars(Loop)
  /\ WF_vars(Checkpoint)
  /\ WF_vars(Measure)
  /\ WF_vars(WatchdogExpires)
  /\ WF_vars(WatchdogExits)

FairSpec == Spec /\ Fairness

-----------------------------------------------------------------------------
(* Properties.                                                             *)

Documents == {NoDoc, Torn} \cup Results

TypeOK ==
  /\ disk \in Documents /\ tmp \in Documents
  /\ results \in {NoDoc} \cup Results
  /\ pc \in {"down", "next", "write", "rename", "arm", "measure", "hung",
             "done"}
  /\ after \in {"down", "arm", "next", "done"}
  /\ pending \subseteq Candidates /\ current \in Candidates \cup {None}
  /\ budget \in Budgets \cup {NoBudget} /\ elapsed \in Nat
  /\ host \in Hosts \cup {None}
  /\ armed \in BOOLEAN /\ firing \in BOOLEAN
  /\ launches \in [Candidates -> Nat]
  /\ fired \subseteq Candidates /\ faults \in 0..MaxFaults
  /\ exit \in {"none", "running", "ok", "error", "watchdog", "crash"}

(* What the document on disk says; an absent file says nothing.            *)
OnDisk == IF disk \in {NoDoc, Torn} THEN {} ELSE disk.candidates

Settled(recs) == {r \in recs : r.status # "timeout"}

(* results.json is at every moment absent or a whole document: no crash,   *)
(* failed write or watchdog exit leaves one that Results::load refuses,    *)
(* which would stop every later run.                                       *)
DiskReadable == disk # Torn

(* "One entry per candidate visited": no resume, retain or late watchdog   *)
(* leaves two records of one candidate.                                    *)
OneRecordEach == \A r, s \in OnDisk : r.id = s.id => r = s

(* While a refused candidate may be running, the document on disk already  *)
(* says timeout for it: whenever the box dies, the rerun skips it.         *)
TimeoutBeforeLaunch ==
  pc \in {"arm", "measure", "hung"} /\ current \in Unsafe =>
    \E r \in OnDisk : r.id = current /\ r.status = "timeout"

(* A refused candidate is launched at most once ever, over all processes,  *)
(* crashes and reruns.                                                     *)
UnsafeLaunchedOnce == \A c \in Unsafe : launches[c] <= 1

(* At any moment at most one measurement exists only in memory, so a dying *)
(* box costs at most one candidate.                                        *)
AtMostOneUnsaved ==
  results # NoDoc =>
    \A r, s \in Settled(results.candidates) \ OnDisk : r = s

(* An admitted candidate is measured again only when a process died under  *)
(* it: through a fault, or through the watchdog of an earlier candidate    *)
(* that read its flag before it was disarmed.                              *)
RelaunchedOnlyAfterDeath ==
  \A c \in Candidates \ Unsafe :
    launches[c] <= 1 + faults + Cardinality(fired)

(* When run_plan returned Ok, the flag on disk is exact: budget_exhausted  *)
(* iff some candidate has no record.                                       *)
ExhaustedIsExact ==
  exit = "ok" => (disk.budget_exhausted <=> Ids(disk) # Candidates)

(* A measurement on disk is never lost or rewritten, by any step of any    *)
(* process.                                                                *)
MeasurementsDurable == [][Settled(OnDisk) \subseteq OnDisk']_vars

(* The strengthening of the invariants above that every step preserves.    *)
(* Between candidates, and while one runs, disk and memory agree; while a  *)
(* timeout record or an outcome is being saved they differ in that record. *)
Saving == pc \in {"write", "rename"}
Opening == Saving /\ after = "arm"
Closing == Saving /\ after = "next"
Running == pc \in {"arm", "measure", "hung"}
Idle == pc \in {"down", "next", "done"} \/ (Saving /\ after = "done")

OnDiskIds == {r.id : r \in OnDisk}

ControlInv ==
  /\ pc = "down" <=> results = NoDoc
  /\ pc = "down" => ~armed /\ ~firing
  /\ pc # "down" => host \in Hosts
  /\ Saving => after \in {"arm", "next", "done"}
  /\ pc = "rename" => tmp = results
  /\ IF Idle THEN current = None ELSE current \in Candidates
  /\ Opening \/ pc \in {"arm", "hung"} => current \in Unsafe
  /\ armed => pc \in {"measure", "hung"} /\ current \in Unsafe

DiskInv ==
  /\ DiskReadable
  /\ OneRecordEach
  /\ Running \/ Closing =>
       IF current \in Unsafe
       THEN \E r \in OnDisk : r.id = current /\ r.status = "timeout"
       ELSE current \notin OnDiskIds
  /\ Opening => current \notin OnDiskIds

MemoryInv ==
  /\ (Idle /\ pc # "down") \/ Running => results.candidates = OnDisk
  /\ Opening => \E r \in results.candidates :
       /\ r.id = current /\ r.status = "timeout"
       /\ results.candidates = OnDisk \cup {r}
  /\ Closing => \E r \in results.candidates :
       /\ r.id = current /\ r.status # "timeout"
       /\ results.candidates = {x \in OnDisk : x.id # current} \cup {r}

LaunchInv ==
  \A c \in Unsafe :
    /\ launches[c] <= 1
    /\ c \notin OnDiskIds => launches[c] = 0
    /\ pc = "arm" /\ c = current => launches[c] = 0

IndInv == ControlInv /\ DiskInv /\ MemoryInv /\ LaunchInv

(* Refinement of Measurements: a candidate is open while the process that  *)
(* checkpointed its timeout record still runs it.                          *)
OutcomeOf(c) ==
  IF c \notin OnDiskIds THEN "none"
  ELSE LET r == CHOOSE r \in OnDisk : r.id = c
       IN IF r.status = "timeout" /\ c = current THEN "open" ELSE r.status

Outcome == [c \in Candidates |-> OutcomeOf(c)]

Abstract == INSTANCE Measurements WITH outcome <- Outcome

ImplementsMeasurements == Abstract!Spec

(* With finitely many faults and reruns after every end, every candidate   *)
(* of the plan ends with a record that stays, if again and again a rerun   *)
(* has a budget other than 0: under --budget 0, which parse_budget         *)
(* accepts, a process stops before its first candidate.                    *)
EveryCandidateRecorded ==
  []<>(pc # "down" /\ budget # 0) =>
    <>[](\A c \in Candidates : Outcome[c] \in Abstract!Final)

(* A hung launch never blocks the sweep: its process ends.                 *)
HungProcessEnds == pc = "hung" ~> pc = "down"
=============================================================================
