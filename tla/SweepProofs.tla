---------------------------- MODULE SweepProofs ----------------------------
(***************************************************************************)
(* Theorems about Sweep, for every plan, every set of refused candidates,  *)
(* every budget, any number of machines and any number of faults.          *)
(***************************************************************************)
EXTENDS Sweep, FiniteSetTheorems, TLAPS

(* A new record is a CandidateResult.                                      *)
LEMMA RecordType ==
  ASSUME TypeOK, host \in Hosts, NEW c \in Candidates,
         NEW s \in Statuses, NEW n \in Nat
  PROVE  Record(c, s, n) \in CandidateResult
BY DEF TypeOK, Record, CandidateResult, Statuses

(* Typing rests on the control invariant: only a running process has a     *)
(* host, and a phase that needs a candidate has one.                       *)
TypeInv == TypeOK /\ ControlInv

(* Every variable keeps its type, whatever the plan and the environment.   *)
THEOREM TypeCorrect == Spec => []TypeInv
<1> USE SweepAssumption DEF SweepAssumption
<1>1. Init => TypeInv
  <2> SUFFICES ASSUME Init PROVE TypeInv
    OBVIOUS
  <2> USE DEF Init, TypeInv, TypeOK, ControlInv, Documents, Saving, Opening,
     Idle
  <2>1. /\ launches \in [Candidates -> Nat]
        /\ faults \in 0..MaxFaults /\ elapsed \in Nat
    OBVIOUS
  <2>2. disk \in Documents /\ tmp \in Documents
    OBVIOUS
  <2>3. QED
    BY <2>1, <2>2
<1>2. TypeInv /\ [Next]_vars => TypeInv'
  <2> SUFFICES ASSUME TypeInv, [Next]_vars PROVE TypeInv'
    OBVIOUS
  <2> USE DEF TypeInv, TypeOK, ControlInv, Documents, Saving, Opening, Idle
  <2>1. ASSUME NEW how \in {"ok", "error", "crash", "watchdog"}, Ended(how),
               tmp' \in Documents, UNCHANGED <<disk, launches>>,
               fired' \subseteq Candidates, faults' \in 0..MaxFaults
        PROVE  TypeInv'
    BY <2>1 DEF Ended
  <2>2. ASSUME NEW h \in Hosts, NEW b \in Budgets, Start(h, b)
        PROVE  TypeInv'
    <3>1. results' \in Results
      BY <2>2 DEF Start, Begins, Fresh, Results
    <3>2. results' # NoDoc
      BY <3>1
    <3>3. QED
      BY <2>2, <3>1, <3>2 DEF Start, Begins, history
  <2>3. CASE StartFails
    BY <2>3 DEF StartFails, process
  <2>4. CASE Crash
    BY <2>1, <2>4 DEF Crash, TmpAfterEnd
  <2>5. CASE CheckpointFails
    BY <2>1, <2>5 DEF CheckpointFails, TmpAfterEnd
  <2>6. ASSUME NEW c \in Candidates, Skip(c)
        PROVE  TypeInv'
    BY <2>6 DEF Skip, history
  <2>7. ASSUME NEW c \in Candidates, StopOnBudget(c)
        PROVE  TypeInv'
    <3>1. results' \in Results
      BY <2>7 DEF StopOnBudget, Results
    <3>2. QED
      BY <2>7, <3>1 DEF StopOnBudget, history
  <2>8. ASSUME NEW c \in Candidates, VisitSafe(c)
        PROVE  TypeInv'
    BY <2>8 DEF VisitSafe, Visits
  <2>9. ASSUME NEW c \in Candidates, VisitUnsafe(c)
        PROVE  TypeInv'
    <3>1. Record(c, "timeout", UnsafeTimeout) \in CandidateResult
      BY <2>9, RecordType DEF VisitUnsafe, Visits, Statuses
    <3>2. results' \in Results
      BY <2>9, <3>1 DEF VisitUnsafe, Visits, Results
    <3>3. QED
      BY <2>9, <3>2 DEF VisitUnsafe, Visits, history
  <2>10. CASE FinishLoop
    <3>1. results' \in Results
      BY <2>10 DEF FinishLoop, Results
    <3>2. QED
      BY <2>10, <3>1 DEF FinishLoop, history
  <2>11. CASE Return
    BY <2>1, <2>11 DEF Return, history
  <2>12. CASE CheckpointWrite
    BY <2>12 DEF CheckpointWrite, history
  <2>13. CASE CheckpointRename
    BY <2>13 DEF CheckpointRename, history
  <2>14. CASE ArmWatchdog
    BY <2>14 DEF ArmWatchdog
  <2>15. ASSUME NEW s \in {"ok", "error"}, Measured(s)
         PROVE  TypeInv'
    <3> PICK secs \in Seconds :
          /\ elapsed' = elapsed + secs
          /\ results' = [results EXCEPT
               !.candidates =
                  (IF current \in Unsafe THEN Without(results, current) ELSE @)
                  \cup {Record(current, s, secs)},
               !.total_gpu_seconds = elapsed + secs]
      BY <2>15 DEF Measured, Appends
    <3>1. Record(current, s, secs) \in CandidateResult
      BY <2>15, RecordType DEF Measured, Appends, Statuses
    <3>2. results' \in Results
      <4>1. results \in Results /\ elapsed + secs \in Nat
        BY <2>15 DEF Measured, Appends
      <4>2. (IF current \in Unsafe THEN Without(results, current)
             ELSE results.candidates) \cup {Record(current, s, secs)}
            \subseteq CandidateResult
        BY <3>1, <4>1 DEF Results, Without
      <4>3. QED
        BY <4>1, <4>2 DEF Results
    <3>3. elapsed' \in Nat
      OBVIOUS
    <3>4. QED
      BY <2>15, <3>2, <3>3 DEF Measured, Appends, history
  <2>16. CASE Hang
    BY <2>16 DEF Hang, history
  <2>17. CASE WatchdogExpires
    BY <2>17 DEF WatchdogExpires
  <2>18. CASE WatchdogExits
    BY <2>1, <2>18 DEF WatchdogExits, TmpAfterEnd, history
  <2>19. CASE UNCHANGED vars
    BY <2>19 DEF vars, process, history
  <2>20. QED
    BY <2>2, <2>3, <2>4, <2>5, <2>6, <2>7, <2>8, <2>9, <2>10, <2>11, <2>12,
       <2>13, <2>14, <2>15, <2>16, <2>17, <2>18, <2>19
       DEF Next, Operator, Loop, Checkpoint, Measure, Watchdog, Fault
<1>3. QED
  BY <1>1, <1>2, PTL DEF Spec

-----------------------------------------------------------------------------
(* What the sweep has on disk agrees with what it has in memory, up to the *)
(* one record being saved.                                                 *)
DocInv == DiskInv /\ MemoryInv /\ LaunchInv

(* A step that leaves results.json alone leaves everything read from it.   *)
LEMMA DiskUnchanged ==
  ASSUME disk' = disk
  PROVE  OnDisk' = OnDisk /\ OnDiskIds' = OnDiskIds
BY DEF OnDisk, OnDiskIds

(* The end of a process, however it comes, keeps the invariant: nothing of *)
(* it refers to the dead process any more.                                 *)
LEMMA EndKeepsDocInv ==
  ASSUME DocInv, UNCHANGED <<disk, launches>>, NEW how, Ended(how)
  PROVE  DocInv'
<1>1. OnDisk' = OnDisk /\ OnDiskIds' = OnDiskIds
  BY DiskUnchanged
<1>2. DiskInv'
  BY <1>1 DEF DocInv, DiskInv, DiskReadable, OneRecordEach, Ended, Running,
              Closing, Opening, Saving
<1>3. MemoryInv'
  BY DEF MemoryInv, Ended, Idle, Running, Closing, Opening, Saving
<1>4. LaunchInv'
  BY <1>1 DEF DocInv, LaunchInv, Ended
<1>5. QED
  BY <1>2, <1>3, <1>4 DEF DocInv

(* The candidates with a record in memory are those with one on disk when  *)
(* the loop looks for the next one.                                        *)
LEMMA IdsInLoop ==
  ASSUME TypeInv, DocInv, pc = "next"
  PROVE  results.candidates = OnDisk /\ Ids(results) = OnDiskIds
BY DEF TypeInv, ControlInv, DocInv, MemoryInv, Idle, Ids, OnDiskIds

(* Every step preserves the part of the invariant about the documents.     *)
LEMMA DocInvStep == TypeInv /\ TypeInv' /\ DocInv /\ [Next]_vars => DocInv'
<1> SUFFICES ASSUME TypeInv, TypeInv', DocInv, [Next]_vars PROVE DocInv'
  OBVIOUS
<1> USE SweepAssumption DEF SweepAssumption
<1>1. ASSUME NEW h \in Hosts, NEW b \in Budgets, Start(h, b)
      PROVE  DocInv'
  <2>1. OnDisk' = OnDisk /\ OnDiskIds' = OnDiskIds
    BY <1>1, DiskUnchanged DEF Start, Begins
  <2>2. results'.candidates = OnDisk
    BY <1>1 DEF Start, Begins, OnDisk, Fresh, TypeInv, TypeOK, Documents,
       Results
  <2>3. DiskInv'
    BY <1>1, <2>1 DEF DocInv, DiskInv, DiskReadable, OneRecordEach, Start,
       Begins,
                      Running, Closing, Opening, Saving
  <2>4. MemoryInv'
    BY <1>1, <2>1, <2>2
       DEF MemoryInv, Start, Begins, Idle, Running, Closing, Opening, Saving
  <2>5. LaunchInv'
    BY <1>1, <2>1 DEF DocInv, LaunchInv, Start, Begins, history
  <2>6. QED
    BY <2>3, <2>4, <2>5 DEF DocInv
<1>2. CASE StartFails \/ WatchdogExpires \/ UNCHANGED vars
  <2>1. UNCHANGED <<disk, results, pc, after, current, launches>>
    BY <1>2 DEF StartFails, WatchdogExpires, vars, process, history
  <2>2. OnDisk' = OnDisk /\ OnDiskIds' = OnDiskIds
    BY <2>1, DiskUnchanged
  <2>3. QED
    BY <2>1, <2>2 DEF DocInv, DiskInv, MemoryInv, LaunchInv, DiskReadable,
       OneRecordEach, Idle, Running, Closing, Opening, Saving
<1>3. CASE Crash \/ CheckpointFails \/ Return \/ WatchdogExits
  BY <1>3, EndKeepsDocInv
     DEF Crash, CheckpointFails, Return, WatchdogExits, history
<1>4. ASSUME NEW c \in Candidates, Skip(c)
      PROVE  DocInv'
  <2>1. UNCHANGED <<disk, results, pc, after, current, launches>>
    BY <1>4 DEF Skip, history
  <2>2. OnDisk' = OnDisk /\ OnDiskIds' = OnDiskIds
    BY <2>1, DiskUnchanged
  <2>3. QED
    BY <2>1, <2>2 DEF DocInv, DiskInv, MemoryInv, LaunchInv, DiskReadable,
       OneRecordEach, Idle, Running, Closing, Opening, Saving
<1>5. CASE FinishLoop \/ \E c \in Candidates : StopOnBudget(c)
  <2>1. /\ pc = "next" /\ pc' = "write" /\ after' = "done"
        /\ UNCHANGED <<disk, current, launches>>
    BY <1>5 DEF FinishLoop, StopOnBudget, history
  <2>2. results \in Results
    BY <2>1 DEF TypeInv, TypeOK, ControlInv
  <2>3. results'.candidates = OnDisk
    BY <1>5, <2>1, <2>2, IdsInLoop DEF FinishLoop, StopOnBudget, Results
  <2>4. OnDisk' = OnDisk /\ OnDiskIds' = OnDiskIds
    BY <2>1, DiskUnchanged
  <2>5. QED
    BY <2>1, <2>3, <2>4 DEF DocInv, DiskInv, MemoryInv, LaunchInv,
       DiskReadable, OneRecordEach, Idle, Running, Closing, Opening, Saving
<1>6. ASSUME NEW c \in Candidates, VisitSafe(c)
      PROVE  DocInv'
  <2>1. /\ pc = "next" /\ pc' = "measure" /\ current' = c
        /\ c \notin Unsafe /\ c \notin OnDiskIds
        /\ UNCHANGED <<disk, results>>
    BY <1>6, IdsInLoop DEF VisitSafe, Visits
  <2>2. results.candidates = OnDisk
    BY <2>1, IdsInLoop
  <2>3. \A d \in Unsafe : launches'[d] = launches[d]
    BY <1>6 DEF VisitSafe, TypeInv, TypeOK
  <2>4. OnDisk' = OnDisk /\ OnDiskIds' = OnDiskIds
    BY <2>1, DiskUnchanged
  <2>5. QED
    BY <2>1, <2>2, <2>3, <2>4 DEF DocInv, DiskInv, MemoryInv, LaunchInv,
       DiskReadable, OneRecordEach, Idle, Running, Closing, Opening, Saving
<1>7. ASSUME NEW c \in Candidates, VisitUnsafe(c)
      PROVE  DocInv'
  <2> DEFINE new == Record(c, "timeout", UnsafeTimeout)
  <2>1. /\ pc = "next" /\ pc' = "write" /\ after' = "arm" /\ current' = c
        /\ c \notin OnDiskIds
        /\ UNCHANGED <<disk, launches>>
    BY <1>7, IdsInLoop DEF VisitUnsafe, Visits, history
  <2>2. results \in Results
    BY <2>1 DEF TypeInv, TypeOK, ControlInv
  <2>3. results'.candidates = OnDisk \cup {new}
    BY <1>7, <2>1, <2>2, IdsInLoop DEF VisitUnsafe, Results
  <2>4. new.id = c /\ new.status = "timeout"
    BY DEF Record
  <2>5. OnDisk' = OnDisk /\ OnDiskIds' = OnDiskIds
    BY <2>1, DiskUnchanged
  <2> HIDE DEF new
  <2>6. MemoryInv'
    BY <2>1, <2>3, <2>4, <2>5
       DEF MemoryInv, Idle, Running, Closing, Opening, Saving
  <2>7. QED
    BY <2>1, <2>5, <2>6 DEF DocInv, DiskInv, LaunchInv,
       DiskReadable, OneRecordEach, Running, Closing, Opening, Saving
<1>8. CASE CheckpointWrite
  <2>1. /\ pc = "write" /\ pc' = "rename"
        /\ UNCHANGED <<disk, results, after, current, launches>>
    BY <1>8 DEF CheckpointWrite, history
  <2>2. OnDisk' = OnDisk /\ OnDiskIds' = OnDiskIds
    BY <2>1, DiskUnchanged
  <2>3. QED
    BY <2>1, <2>2 DEF DocInv, DiskInv, MemoryInv, LaunchInv, DiskReadable,
       OneRecordEach, Idle, Running, Closing, Opening, Saving
<1>9. CASE CheckpointRename
  <2>1. /\ pc = "rename" /\ pc' = after /\ after \in {"arm", "next", "done"}
        /\ disk' = results /\ results \in Results
        /\ UNCHANGED <<results, after, launches>>
    BY <1>9 DEF CheckpointRename, history, TypeInv, TypeOK, ControlInv, Saving
  <2>2. OnDisk' = results.candidates
    BY <2>1 DEF OnDisk
  <2>3. DiskReadable'
    BY <2>1 DEF DiskReadable
  <2>4. CASE after = "arm"
    <3>1. Opening /\ current' = current /\ current \in Unsafe /\ pc' = "arm"
      BY <1>9, <2>1, <2>4
         DEF CheckpointRename, Opening, Saving, TypeInv, ControlInv
    <3>2. PICK r \in results.candidates :
            /\ r.id = current /\ r.status = "timeout"
            /\ OnDisk' = OnDisk \cup {r}
      BY <3>1, <2>2 DEF DocInv, MemoryInv
    <3>3. current \notin OnDiskIds /\ OneRecordEach
      BY <3>1 DEF DocInv, DiskInv
    <3>4. OneRecordEach'
      BY <3>2, <3>3 DEF OneRecordEach, OnDiskIds
    <3>5. DiskInv'
      BY <2>1, <2>3, <2>4, <3>1, <3>2, <3>4
         DEF DiskInv, Running, Closing, Opening, Saving
    <3>6. MemoryInv'
      BY <2>1, <2>2, <3>1
         DEF MemoryInv, Idle, Running, Closing, Opening, Saving
    <3>7. LaunchInv'
      BY <2>1, <3>1, <3>2, <3>3 DEF DocInv, LaunchInv, OnDiskIds
    <3>8. QED
      BY <3>5, <3>6, <3>7 DEF DocInv
  <2>5. CASE after = "next"
    <3>1. Closing /\ pc' = "next" /\ current \in Candidates
      BY <2>1, <2>5 DEF Closing, Opening, Saving, Idle, TypeInv, ControlInv
    <3>2. PICK r \in results.candidates :
            /\ r.id = current
            /\ OnDisk' = {x \in OnDisk : x.id # current} \cup {r}
      BY <3>1, <2>2 DEF DocInv, MemoryInv
    <3>3. OneRecordEach'
      BY <3>2 DEF OneRecordEach, DocInv, DiskInv
    <3>4. DiskInv'
      BY <2>1, <2>3, <3>1, <3>3 DEF DiskInv, Running, Closing, Opening, Saving
    <3>5. MemoryInv'
      BY <2>1, <2>2, <3>1
         DEF MemoryInv, Idle, Running, Closing, Opening, Saving
    <3>6. OnDiskIds \subseteq OnDiskIds'
      BY <3>2 DEF OnDiskIds
    <3>7. LaunchInv'
      BY <2>1, <3>1, <3>6 DEF DocInv, LaunchInv
    <3>8. QED
      BY <3>4, <3>5, <3>7 DEF DocInv
  <2>6. CASE after = "done"
    <3>1. OnDisk' = OnDisk
      BY <2>1, <2>2, <2>6 DEF DocInv, MemoryInv, Idle, Saving
    <3>2. OnDiskIds' = OnDiskIds
      BY <3>1 DEF OnDiskIds
    <3>3. QED
      BY <2>1, <2>2, <2>3, <2>6, <3>1, <3>2
         DEF DocInv, DiskInv, MemoryInv, LaunchInv, OneRecordEach, Idle,
             Running, Closing, Opening, Saving
  <2>7. QED
    BY <2>1, <2>4, <2>5, <2>6
<1>10. CASE ArmWatchdog
  <2>1. /\ pc = "arm" /\ pc' = "measure" /\ current \in Unsafe
        /\ UNCHANGED <<disk, results, after, current>>
    BY <1>10 DEF ArmWatchdog, TypeInv, ControlInv
  <2>2. OnDisk' = OnDisk /\ OnDiskIds' = OnDiskIds
    BY <2>1, DiskUnchanged
  <2>3. \A c \in Unsafe : launches'[c] =
          IF c = current THEN launches[c] + 1 ELSE launches[c]
    BY <1>10 DEF ArmWatchdog, TypeInv, TypeOK
  <2>4. current \in OnDiskIds
    BY <2>1 DEF DocInv, DiskInv, Running, OnDiskIds
  <2>5. LaunchInv'
    BY <2>1, <2>2, <2>3, <2>4 DEF DocInv, LaunchInv
  <2>6. QED
    BY <2>1, <2>2, <2>5 DEF DocInv, DiskInv, MemoryInv, DiskReadable,
       OneRecordEach, Idle, Running, Closing, Opening, Saving
<1>11. ASSUME NEW s \in {"ok", "error"}, Measured(s)
       PROVE  DocInv'
  <2>1. /\ pc = "measure" /\ pc' = "write" /\ after' = "next"
        /\ UNCHANGED <<disk, current, launches>>
        /\ results \in Results /\ results.candidates = OnDisk
    BY <1>11 DEF Measured, Appends, history, TypeInv, TypeOK, ControlInv,
       DocInv,
                 MemoryInv, Running
  <2>2. PICK secs \in Seconds : results' = [results EXCEPT
          !.candidates =
             (IF current \in Unsafe THEN Without(results, current) ELSE @)
             \cup {Record(current, s, secs)},
          !.total_gpu_seconds = elapsed + secs]
    BY <1>11 DEF Measured, Appends
  <2> DEFINE new == Record(current, s, secs)
  <2>3. new.id = current /\ new.status # "timeout"
    BY DEF Record
  <2>4. results'.candidates =
          (IF current \in Unsafe THEN Without(results, current)
           ELSE results.candidates) \cup {new}
    BY <2>1, <2>2 DEF Results
  <2> HIDE DEF new
  <2>5. results'.candidates = {x \in OnDisk : x.id # current} \cup {new}
    BY <2>1, <2>4 DEF Without, DocInv, DiskInv, Running, OnDiskIds
  <2>6. OnDisk' = OnDisk /\ OnDiskIds' = OnDiskIds
    BY <2>1, DiskUnchanged
  <2>7. MemoryInv'
    BY <2>1, <2>3, <2>5, <2>6
       DEF MemoryInv, Idle, Running, Closing, Opening, Saving
  <2>8. QED
    BY <2>1, <2>6, <2>7 DEF DocInv, DiskInv, LaunchInv,
       DiskReadable, OneRecordEach, Running, Closing, Opening, Saving
<1>12. CASE Hang
  <2>1. /\ pc = "measure" /\ pc' = "hung"
        /\ UNCHANGED <<disk, results, after, current, launches>>
    BY <1>12 DEF Hang, history
  <2>2. OnDisk' = OnDisk /\ OnDiskIds' = OnDiskIds
    BY <2>1, DiskUnchanged
  <2>3. QED
    BY <2>1, <2>2 DEF DocInv, DiskInv, MemoryInv, LaunchInv, DiskReadable,
       OneRecordEach, Idle, Running, Closing, Opening, Saving
<1>13. QED
  BY <1>1, <1>2, <1>3, <1>4, <1>5, <1>6, <1>7, <1>8, <1>9, <1>10, <1>11,
     <1>12 DEF Next, Operator, Loop, Checkpoint, Measure, Watchdog, Fault

(* Every variable keeps its type, with any number of candidates, machines, *)
(* faults and reruns.                                                      *)
THEOREM Types == Spec => []TypeOK
<1>1. TypeInv => TypeOK
  BY DEF TypeInv
<1>2. QED
  BY <1>1, TypeCorrect, PTL

(* The inductive invariant holds in every reachable state: disk and memory *)
(* agree up to the record being saved, one record per candidate, and no    *)
(* refused candidate is launched before its timeout record is on disk.     *)
THEOREM Invariance == Spec => []IndInv
<1>1. Init => DocInv
  BY SweepAssumption
     DEF SweepAssumption, Init, DocInv, DiskInv, MemoryInv, LaunchInv,
         DiskReadable, OneRecordEach, OnDisk, OnDiskIds, Idle, Running,
         Closing, Opening, Saving
<1>2. TypeInv /\ DocInv => IndInv
  BY DEF TypeInv, DocInv, IndInv
<1>3. QED
  BY <1>1, <1>2, TypeCorrect, DocInvStep, PTL DEF Spec

(* results.json is at every moment absent or a whole document.             *)
THEOREM AlwaysReadable == Spec => []DiskReadable
<1>1. IndInv => DiskReadable
  BY DEF IndInv, DiskInv
<1>2. QED
  BY <1>1, Invariance, PTL

(* No resume, retain or late watchdog leaves two records of a candidate.   *)
THEOREM OneRecord == Spec => []OneRecordEach
<1>1. IndInv => OneRecordEach
  BY DEF IndInv, DiskInv
<1>2. QED
  BY <1>1, Invariance, PTL

(* While a refused candidate may run, the disk already says timeout.       *)
THEOREM CrashLeavesTimeout == Spec => []TimeoutBeforeLaunch
<1>1. IndInv => TimeoutBeforeLaunch
  BY DEF IndInv, DiskInv, TimeoutBeforeLaunch, Running
<1>2. QED
  BY <1>1, Invariance, PTL

(* No sequence of crashes and reruns launches a refused candidate twice.   *)
THEOREM UnsafeOnce == Spec => []UnsafeLaunchedOnce
<1>1. IndInv => UnsafeLaunchedOnce
  BY DEF IndInv, LaunchInv, UnsafeLaunchedOnce
<1>2. QED
  BY <1>1, Invariance, PTL

(* At most one measurement exists only in memory.                          *)
THEOREM OneUnsaved == Spec => []AtMostOneUnsaved
<1>1. TypeInv /\ IndInv => AtMostOneUnsaved
  <2> SUFFICES ASSUME TypeInv, IndInv, results # NoDoc
               PROVE  \A r, s \in Settled(results.candidates) \ OnDisk : r = s
    BY DEF AtMostOneUnsaved
  <2> USE DEF IndInv, MemoryInv, Settled
  <2>1. pc # "down"
    BY DEF TypeInv, ControlInv
  <2>2. CASE Idle \/ Running
    BY <2>1, <2>2
  <2>3. CASE Opening
    BY <2>3
  <2>4. CASE Closing
    BY <2>4
  <2>5. QED
    BY <2>1, <2>2, <2>3, <2>4
       DEF TypeInv, TypeOK, ControlInv, Idle, Running, Opening, Closing, Saving
<1>2. QED
  BY <1>1, TypeCorrect, Invariance, PTL

-----------------------------------------------------------------------------
(* Sweep implements Measurements.                                          *)

(* What a step does to the disk: nothing, unless it is the rename.         *)
LEMMA OnlyRenameWrites ==
  ASSUME [Next]_vars, disk' # disk
  PROVE  CheckpointRename
BY DEF Next, Operator, Loop, Checkpoint, Measure, Watchdog, Fault, Start,
   Begins,
   StartFails, Crash, Skip, StopOnBudget, VisitSafe, VisitUnsafe, FinishLoop,
   Return, CheckpointWrite, CheckpointFails, ArmWatchdog, Measured, Appends,
   Hang,
   WatchdogExpires, WatchdogExits, vars

(* What the rename does to the records on disk.                            *)
LEMMA RenameWrites ==
  ASSUME TypeInv, IndInv, CheckpointRename
  PROVE  \/ /\ after = "arm" /\ current' = current
            /\ current \in Unsafe /\ current \notin OnDiskIds
            /\ \E r : /\ r.id = current /\ r.status = "timeout"
                     /\ OnDisk' = OnDisk \cup {r}
         \/ /\ after = "next" /\ current' = None /\ current \in Candidates
            /\ IF current \in Unsafe
               THEN \E r \in OnDisk : r.id = current /\ r.status = "timeout"
               ELSE current \notin OnDiskIds
            /\ \E r : /\ r.id = current /\ r.status \in {"ok", "error"}
                     /\ OnDisk' = {x \in OnDisk : x.id # current} \cup {r}
         \/ /\ after = "done" /\ OnDisk' = OnDisk
            /\ current = None /\ current' = None
<1>0. /\ pc = "rename" /\ Saving /\ after \in {"arm", "next", "done"}
      /\ disk' = results /\ results \in Results
  BY DEF CheckpointRename, TypeInv, TypeOK, ControlInv, Saving
<1>1. OnDisk' = results.candidates
  BY <1>0, SweepAssumption DEF OnDisk, SweepAssumption
<1>2. \A r \in results.candidates : r.status \in Statuses
  BY <1>0 DEF Results, CandidateResult
<1>3. QED
  BY <1>0, <1>1, <1>2 DEF CheckpointRename, TypeInv, ControlInv, IndInv,
     DiskInv,
     MemoryInv, Idle, Running, Opening, Closing, Saving, Statuses

(* A measurement on disk is never lost or rewritten.                       *)
THEOREM Durable == Spec => MeasurementsDurable
<1>1. TypeInv /\ IndInv /\ [Next]_vars
        => [Settled(OnDisk) \subseteq OnDisk']_vars
  <2> SUFFICES ASSUME TypeInv, IndInv, [Next]_vars
               PROVE  Settled(OnDisk) \subseteq OnDisk'
    OBVIOUS
  <2>1. CASE disk' = disk
    BY <2>1, DiskUnchanged DEF Settled
  <2>2. CASE disk' # disk
    <3>1. CheckpointRename
      BY <2>2, OnlyRenameWrites
    <3>2. OneRecordEach
      BY DEF IndInv, DiskInv
    <3>3. QED
      BY <3>1, <3>2, RenameWrites DEF Settled, OneRecordEach, OnDiskIds
  <2>3. QED
    BY <2>1, <2>2
<1>2. QED
  BY <1>1, TypeCorrect, Invariance, PTL DEF Spec, MeasurementsDurable

(* The abstract outcome of a candidate, read off its record.               *)
LEMMA OutcomeOfRecord ==
  ASSUME OneRecordEach, NEW r \in OnDisk
  PROVE  OutcomeOf(r.id) =
           IF r.status = "timeout" /\ r.id = current THEN "open" ELSE r.status
BY DEF OutcomeOf, OneRecordEach, OnDiskIds

(* A candidate whose one record is r after a step has the outcome of r.    *)
LEMMA OutcomeAfter ==
  ASSUME OneRecordEach', NEW r, r \in OnDisk'
  PROVE  OutcomeOf(r.id)' = IF r.status = "timeout" /\ r.id = current'
                            THEN "open" ELSE r.status
<1>1. r.id \in OnDiskIds'
  BY DEF OnDiskIds
<1>2. (CHOOSE x \in OnDisk' : x.id = r.id) = r
  BY DEF OneRecordEach
<1>3. QED
  BY <1>1, <1>2 DEF OutcomeOf

(* A candidate with no record has no outcome yet.                          *)
LEMMA OutcomeOfNone ==
  ASSUME NEW c, c \notin OnDiskIds
  PROVE  OutcomeOf(c) = "none"
BY DEF OutcomeOf

(* A step that leaves the disk alone changes no outcome, except that the   *)
(* end of the process running an open candidate abandons it.               *)
LEMMA QuietStep ==
  ASSUME TypeInv, IndInv, [Next]_vars, disk' = disk
  PROVE  Abstract!Next \/ UNCHANGED Outcome
<1>1. OnDisk' = OnDisk /\ OnDiskIds' = OnDiskIds /\ OneRecordEach
  BY DiskUnchanged DEF IndInv, DiskInv
<1>2. CASE current' = current
  BY <1>1, <1>2 DEF Outcome, OutcomeOf
<1>3. CASE current = None
  <2>1. ASSUME NEW r \in OnDisk, r.id \in Candidates
        PROVE  r.id # current'
    <3>1. current' = current \/ current' \notin OnDiskIds
      <4>1. CASE \E c \in Candidates : VisitSafe(c) \/ VisitUnsafe(c)
        BY <4>1, IdsInLoop DEF VisitSafe, VisitUnsafe, Visits, DocInv, IndInv
      <4>2. CASE ~\E c \in Candidates : VisitSafe(c) \/ VisitUnsafe(c)
        BY <1>3, <4>2
           DEF Next, Operator, Loop, Checkpoint, Measure, Watchdog, Fault,
               Start, Begins, StartFails, Crash, Skip, StopOnBudget,
               FinishLoop,
               Return, CheckpointWrite, CheckpointRename, CheckpointFails,
               ArmWatchdog, Measured, Appends, Hang, WatchdogExpires,
               WatchdogExits,
               Ended, vars, process
      <4>3. QED
        BY <4>1, <4>2
    <3>2. QED
      BY <1>3, <2>1, <3>1, SweepAssumption DEF OnDiskIds, SweepAssumption
  <2>2. ASSUME NEW c \in Candidates
        PROVE  OutcomeOf(c)' = OutcomeOf(c)
    <3>1. CASE c \notin OnDiskIds
      BY <1>1, <3>1 DEF OutcomeOf
    <3>2. CASE c \in OnDiskIds
      <4>1. PICK r \in OnDisk : r.id = c
        BY <3>2 DEF OnDiskIds
      <4>2. c # current /\ c # current'
        BY <1>3, <2>1, <4>1, SweepAssumption DEF SweepAssumption
      <4>3. QED
        BY <1>1, <4>2 DEF OutcomeOf
    <3>3. QED
      BY <3>1, <3>2
  <2>3. QED
    BY <2>2 DEF Outcome
<1>4. CASE current # None /\ current' # current
  <2>1. current' = None /\ pc # "next"
    BY <1>4 DEF Next, Operator, Loop, Checkpoint, Measure, Watchdog, Fault,
       Start, Begins, StartFails, Crash, Skip, StopOnBudget, VisitSafe,
       VisitUnsafe,
       Visits, FinishLoop, Return, CheckpointWrite, CheckpointRename,
       CheckpointFails, ArmWatchdog, Measured, Appends, Hang, WatchdogExpires,
       WatchdogExits, Ended, vars, process, TypeInv, ControlInv, Idle
  <2>2. PICK c \in Candidates : c = current
    BY <1>4 DEF TypeInv, TypeOK
  <2>3. c # current'
    BY <2>1, <2>2, SweepAssumption DEF SweepAssumption
  <2>4. ASSUME NEW d \in Candidates,
               d # c \/ ~\E r \in OnDisk : r.id = c /\ r.status = "timeout"
        PROVE  OutcomeOf(d)' = OutcomeOf(d)
    <3>1. CASE d \notin OnDiskIds
      BY <1>1, <3>1 DEF OutcomeOf
    <3>2. CASE d \in OnDiskIds
      <4>1. PICK r \in OnDisk : r.id = d
        BY <3>2 DEF OnDiskIds
      <4>2. d # current'
        BY <2>1, SweepAssumption DEF SweepAssumption
      <4>3. r.status # "timeout" \/ d # current
        BY <2>2, <2>4, <4>1
      <4>4. OutcomeOf(d) = r.status
        BY <1>1, <4>1, <4>3, OutcomeOfRecord
      <4>5. OutcomeOf(d)' = r.status
        <5>1. OneRecordEach' /\ r \in OnDisk'
          BY <1>1 DEF OneRecordEach
        <5>2. QED
          BY <4>1, <4>2, <5>1, OutcomeAfter
      <4>6. QED
        BY <4>4, <4>5
    <3>3. QED
      BY <3>1, <3>2
  <2>5. CASE \E r \in OnDisk : r.id = c /\ r.status = "timeout"
    <3>1. PICK r \in OnDisk : r.id = c /\ r.status = "timeout"
      BY <2>5
    <3>2. OutcomeOf(c) = "open"
      BY <1>1, <2>2, <3>1, OutcomeOfRecord
    <3>3. OutcomeOf(c)' = "timeout"
      <4>1. OneRecordEach' /\ r \in OnDisk'
        BY <1>1 DEF OneRecordEach
      <4>2. QED
        BY <2>3, <3>1, <4>1, OutcomeAfter
    <3>4. Outcome' = [Outcome EXCEPT ![c] = "timeout"]
      BY <2>4, <3>3 DEF Outcome
    <3>5. Abstract!Abandon(c)
      BY <3>2, <3>4 DEF Abstract!Abandon, Outcome
    <3>6. QED
      BY <3>5 DEF Abstract!Next
  <2>6. CASE ~\E r \in OnDisk : r.id = c /\ r.status = "timeout"
    BY <2>4, <2>6 DEF Outcome
  <2>7. QED
    BY <2>5, <2>6
<1>5. QED
  BY <1>2, <1>3, <1>4

(* The rename opens a refused candidate, settles a measured one, or        *)
(* changes no record.                                                      *)
LEMMA RenameStep ==
  ASSUME TypeInv, IndInv, IndInv', CheckpointRename
  PROVE  Abstract!Next \/ UNCHANGED Outcome
<1> USE SweepAssumption DEF SweepAssumption
<1>1. OneRecordEach /\ OneRecordEach'
  BY DEF IndInv, DiskInv
<1>2. CASE /\ after = "arm" /\ current' = current
           /\ current \in Unsafe /\ current \notin OnDiskIds
           /\ \E r : /\ r.id = current /\ r.status = "timeout"
                    /\ OnDisk' = OnDisk \cup {r}
  <2>1. PICK r : /\ r.id = current /\ r.status = "timeout"
                 /\ OnDisk' = OnDisk \cup {r}
    BY <1>2
  <2>2. PICK c \in Candidates : c = current
    BY <1>2
  <2>3. OutcomeOf(c)' = "open"
    BY <1>1, <1>2, <2>1, <2>2, OutcomeAfter
  <2>4. OutcomeOf(c) = "none"
    BY <1>2, <2>2, OutcomeOfNone
  <2>5. ASSUME NEW d \in Candidates, d # c
        PROVE  OutcomeOf(d)' = OutcomeOf(d) /\ OutcomeOf(d) # "open"
    <3>1. CASE d \notin OnDiskIds
      <4>1. d \notin OnDiskIds'
        BY <2>1, <2>2, <2>5, <3>1 DEF OnDiskIds
      <4>2. QED
        BY <3>1, <4>1 DEF OutcomeOf
    <3>2. CASE d \in OnDiskIds
      <4>1. PICK x \in OnDisk : x.id = d
        BY <3>2 DEF OnDiskIds
      <4>2. OutcomeOf(d) = x.status
        BY <1>1, <2>2, <2>5, <4>1, OutcomeOfRecord
      <4>3. OutcomeOf(d)' = x.status
        BY <1>1, <1>2, <2>1, <2>2, <2>5, <4>1, OutcomeAfter
      <4>4. x.status # "open"
        BY DEF TypeInv, TypeOK, Documents, Results, CandidateResult, Statuses,
               OnDisk
      <4>5. QED
        BY <4>2, <4>3, <4>4
    <3>3. QED
      BY <3>1, <3>2
  <2>6. Outcome' = [Outcome EXCEPT ![c] = "open"]
    BY <2>3, <2>5 DEF Outcome
  <2>7. Abstract!Open(c)
    BY <1>2, <2>2, <2>4, <2>5, <2>6 DEF Abstract!Open, Outcome
  <2>8. QED
    BY <2>7 DEF Abstract!Next
<1>3. CASE /\ after = "next" /\ current' = None /\ current \in Candidates
           /\ IF current \in Unsafe
              THEN \E r \in OnDisk : r.id = current /\ r.status = "timeout"
              ELSE current \notin OnDiskIds
           /\ \E r : /\ r.id = current /\ r.status \in {"ok", "error"}
                    /\ OnDisk' = {x \in OnDisk : x.id # current} \cup {r}
  <2>1. PICK r : /\ r.id = current /\ r.status \in {"ok", "error"}
                 /\ OnDisk' = {x \in OnDisk : x.id # current} \cup {r}
    BY <1>3
  <2>2. PICK c \in Candidates : c = current
    BY <1>3
  <2>3. OutcomeOf(c)' = r.status
    BY <1>1, <2>1, <2>2, OutcomeAfter
  <2>4. OutcomeOf(c) = IF c \in Unsafe THEN "open" ELSE "none"
    BY <1>1, <1>3, <2>2, OutcomeOfNone, OutcomeOfRecord
  <2>5. ASSUME NEW d \in Candidates, d # c
        PROVE  OutcomeOf(d)' = OutcomeOf(d)
    <3>1. CASE d \notin OnDiskIds
      <4>1. d \notin OnDiskIds'
        BY <2>1, <2>2, <2>5, <3>1 DEF OnDiskIds
      <4>2. QED
        BY <3>1, <4>1 DEF OutcomeOf
    <3>2. CASE d \in OnDiskIds
      <4>1. PICK x \in OnDisk : x.id = d
        BY <3>2 DEF OnDiskIds
      <4>2. OutcomeOf(d) = x.status
        BY <1>1, <2>2, <2>5, <4>1, OutcomeOfRecord
      <4>3. OutcomeOf(d)' = x.status
        BY <1>1, <1>3, <2>1, <2>2, <2>5, <4>1, OutcomeAfter
      <4>4. QED
        BY <4>2, <4>3
    <3>3. QED
      BY <3>1, <3>2
  <2>6. Outcome' = [Outcome EXCEPT ![c] = r.status]
    BY <2>3, <2>5 DEF Outcome
  <2>7. Abstract!Settle(c)
    BY <2>1, <2>4, <2>6 DEF Abstract!Settle, Outcome
  <2>8. QED
    BY <2>7 DEF Abstract!Next
<1>4. CASE after = "done" /\ OnDisk' = OnDisk /\ current = None /\ current' =
   None
  BY <1>4 DEF Outcome, OutcomeOf, OnDiskIds
<1>5. QED
  BY <1>2, <1>3, <1>4, RenameWrites

(* Sweep implements Measurements: every outcome moves only forward, nothing *)
(* is measured twice, and an abandoned candidate stays abandoned.          *)
THEOREM Refinement == Spec => ImplementsMeasurements
<1>1. Init => Abstract!Init
  BY DEF Init, Abstract!Init, Outcome, OutcomeOf, OnDiskIds, OnDisk
<1>2. TypeInv /\ IndInv /\ IndInv' /\ [Next]_vars => [Abstract!Next]_Outcome
  BY OnlyRenameWrites, QuietStep, RenameStep
<1>3. QED
  BY <1>1, <1>2, TypeCorrect, Invariance, PTL
     DEF Spec, ImplementsMeasurements, Abstract!Spec

-----------------------------------------------------------------------------
(* What needs more than IndInv: what a finished process has visited, and   *)
(* how many launches a death costs.                                        *)

Ending == Saving /\ after = "done"

FlagExact(doc) == doc.budget_exhausted <=> Ids(doc) # Candidates

(* What the running process left behind it in the order: every candidate   *)
(* it passed has a record, except the one it is measuring; the flag is     *)
(* raised by nothing but the end of the loop.                              *)
VisitInv ==
  /\ exit = "running" <=> pc # "down"
  /\ exit = "ok" => FlagExact(disk)
  /\ pc # "down" => Candidates \ (pending \cup {current}) \subseteq Ids(results)
  /\ pc = "next" \/ Opening \/ Closing =>
       Candidates \ pending \subseteq Ids(results)
  /\ pc = "next" \/ Opening \/ Closing \/ Running => ~results.budget_exhausted
  /\ Ending \/ pc = "done" => FlagExact(results)
  /\ pc = "done" => disk = results

(* The end of a process, unless it returned Ok, says nothing of the flag.  *)
LEMMA EndKeepsVisitInv ==
  ASSUME VisitInv, UNCHANGED disk, NEW how, Ended(how),
         how = "ok" => FlagExact(disk), how # "running"
  PROVE  VisitInv'
<1>1. FlagExact(disk)' <=> FlagExact(disk)
  BY DEF FlagExact, Ids
<1>2. QED
  BY <1>1 DEF VisitInv, Ended, Opening, Closing, Running, Ending, Saving

(* A record is one of the candidate it was made for.                       *)
LEMMA RecordId ==
  ASSUME NEW c, NEW status, NEW secs
  PROVE  Record(c, status, secs).id = c
BY DEF Record

(* Every step preserves what the order and the flag say of the document.   *)
LEMMA VisitInvStep ==
  TypeInv /\ TypeInv' /\ DocInv /\ VisitInv /\ [Next]_vars => VisitInv'
<1> SUFFICES ASSUME TypeInv, TypeInv', DocInv, VisitInv, [Next]_vars
             PROVE  VisitInv'
  OBVIOUS
<1> USE SweepAssumption DEF SweepAssumption
<1>1. ASSUME NEW h \in Hosts, NEW b \in Budgets, Start(h, b)
      PROVE  VisitInv'
  <2>1. ~results'.budget_exhausted
    BY <1>1 DEF Start, Begins, Fresh, TypeInv, TypeOK, Documents, Results
  <2>2. QED
    BY <1>1, <2>1 DEF Start, Begins, VisitInv, Opening, Closing, Running,
       Ending, Saving
<1>2. CASE StartFails \/ WatchdogExpires \/ Hang \/ UNCHANGED vars
  <2>1. /\ UNCHANGED <<disk, results, after, pending, current>>
        /\ \/ UNCHANGED <<pc, exit>>
           \/ pc = "measure" /\ pc' = "hung" /\ UNCHANGED exit
           \/ pc = "down" /\ pc' = "down" /\ exit' = "error"
    BY <1>2 DEF StartFails, WatchdogExpires, Hang, vars, process, history,
       TypeInv, ControlInv
  <2>2. QED
    BY <2>1 DEF VisitInv, FlagExact, Ids, Opening, Closing, Running, Ending,
       Saving
<1>3. CASE Crash \/ CheckpointFails \/ WatchdogExits
  BY <1>3, EndKeepsVisitInv DEF Crash, CheckpointFails, WatchdogExits, history
<1>4. CASE Return
  <2>1. FlagExact(disk)
    BY <1>4 DEF Return, VisitInv
  <2>2. QED
    BY <1>4, <2>1, EndKeepsVisitInv DEF Return
<1>5. ASSUME NEW c \in Candidates, Skip(c)
      PROVE  VisitInv'
  BY <1>5 DEF Skip, history, VisitInv, FlagExact, Ids, Opening, Closing,
     Running, Ending, Saving
<1>6. CASE FinishLoop
  <2>1. results \in Results
    BY <1>6 DEF FinishLoop, TypeInv, TypeOK, ControlInv
  <2>2. Ids(results) = Candidates /\ ~results.budget_exhausted
    BY <1>6, <2>1 DEF FinishLoop, VisitInv, Ids, Results, CandidateResult
  <2>3. Ids(results)' = Candidates /\ ~results'.budget_exhausted
    BY <1>6, <2>1, <2>2 DEF FinishLoop, Ids, Results
  <2>4. QED
    BY <1>6, <2>3 DEF FinishLoop, VisitInv, FlagExact, Ids, Opening, Closing,
       Running, Ending, Saving
<1>7. ASSUME NEW c \in Candidates, StopOnBudget(c)
      PROVE  VisitInv'
  <2>1. results \in Results
    BY <1>7 DEF StopOnBudget, TypeInv, TypeOK, ControlInv
  <2>2. Ids(results)' = Ids(results) /\ results'.budget_exhausted
    BY <1>7, <2>1 DEF StopOnBudget, Ids, Results
  <2>3. FlagExact(results)'
    BY <1>7, <2>2 DEF StopOnBudget, FlagExact
  <2>4. QED
    BY <1>7, <2>2, <2>3 DEF StopOnBudget, VisitInv, FlagExact, Ids, Opening,
       Closing, Running, Ending, Saving
<1>8. ASSUME NEW c \in Candidates, VisitSafe(c)
      PROVE  VisitInv'
  BY <1>8 DEF VisitSafe, Visits, VisitInv, FlagExact, Ids, Opening, Closing,
     Running, Ending, Saving
<1>9. ASSUME NEW c \in Candidates, VisitUnsafe(c)
      PROVE  VisitInv'
  <2>1. results \in Results
    BY <1>9 DEF VisitUnsafe, Visits, TypeInv, TypeOK, ControlInv
  <2>2. /\ results'.candidates =
             results.candidates \cup {Record(c, "timeout", UnsafeTimeout)}
        /\ results'.budget_exhausted = results.budget_exhausted
    BY <1>9, <2>1 DEF VisitUnsafe, Results
  <2>3. Ids(results)' = Ids(results) \cup {c}
    BY <2>2, RecordId DEF Ids
  <2>4. QED
    BY <1>9, <2>2, <2>3 DEF VisitUnsafe, Visits, VisitInv, FlagExact, Opening,
       Closing, Running, Ending, Saving
<1>10. CASE CheckpointWrite
  BY <1>10 DEF CheckpointWrite, history, VisitInv, FlagExact, Ids, Opening,
     Closing, Running, Ending, Saving
<1>11. CASE CheckpointRename
  <2>1. /\ pc = "rename" /\ pc' = after /\ after \in {"arm", "next", "done"}
        /\ disk' = results /\ exit = "running"
        /\ UNCHANGED <<results, after, pending, exit>>
        /\ after = "arm" => current' = current
    BY <1>11 DEF CheckpointRename, history, TypeInv, ControlInv, Saving,
       VisitInv
  <2>2. FlagExact(results)' <=> FlagExact(results)
    BY <2>1 DEF FlagExact, Ids
  <2>3. Ids(results)' = Ids(results)
    BY <2>1 DEF Ids
  <2>4. after = "done" =>
          Candidates \ (pending \cup {current'}) \subseteq Ids(results)
    BY <1>11, <2>1 DEF CheckpointRename, VisitInv, TypeInv, ControlInv, Idle,
       Saving
  <2>5. QED
    BY <2>1, <2>2, <2>3, <2>4 DEF VisitInv, Opening, Closing, Running, Ending,
       Saving
<1>12. CASE ArmWatchdog
  BY <1>12 DEF ArmWatchdog, VisitInv, FlagExact, Ids, Opening, Closing,
     Running, Ending, Saving
<1>13. ASSUME NEW s \in {"ok", "error"}, Measured(s)
       PROVE  VisitInv'
  <2>1. results \in Results
    BY <1>13 DEF Measured, Appends, TypeInv, TypeOK, ControlInv
  <2>2. PICK secs \in Seconds : results' = [results EXCEPT
          !.candidates =
             (IF current \in Unsafe THEN Without(results, current) ELSE @)
             \cup {Record(current, s, secs)},
          !.total_gpu_seconds = elapsed + secs]
    BY <1>13 DEF Measured, Appends
  <2>3. /\ results'.candidates =
             (IF current \in Unsafe THEN Without(results, current)
              ELSE results.candidates) \cup {Record(current, s, secs)}
        /\ results'.budget_exhausted = results.budget_exhausted
    BY <2>1, <2>2 DEF Results
  <2>4. Ids(results) \cup {current} \subseteq Ids(results)'
    <3>1. \A d \in Ids(results) \ {current} : d \in Ids(results)'
      BY <2>3 DEF Ids, Without
    <3>2. current \in Ids(results)'
      BY <2>3, RecordId DEF Ids
    <3>3. QED
      BY <3>1, <3>2
  <2>5. QED
    BY <1>13, <2>3, <2>4 DEF Measured, Appends, history, VisitInv, Opening,
       Closing, Running, Ending, Saving
<1>14. QED
  BY <1>1, <1>2, <1>3, <1>4, <1>5, <1>6, <1>7, <1>8, <1>9, <1>10, <1>11,
     <1>12, <1>13 DEF Next, Operator, Loop, Checkpoint, Measure, Watchdog,
     Fault

(* When run_plan returned Ok, budget_exhausted on disk says exactly whether *)
(* some candidate of the plan has no record: in every order, after any     *)
(* resumes, and with any budget.                                           *)
THEOREM ExhaustedExact == Spec => []ExhaustedIsExact
<1>1. Init => VisitInv
  BY DEF Init, VisitInv, Opening, Closing, Running, Ending, Saving
<1>2. VisitInv => ExhaustedIsExact
  BY DEF VisitInv, ExhaustedIsExact, FlagExact
<1>3. IndInv => DocInv
  BY DEF IndInv, DocInv
<1>4. QED
  BY <1>1, <1>2, <1>3, TypeCorrect, Invariance, VisitInvStep, PTL DEF Spec

-----------------------------------------------------------------------------
(* The launches of an admitted candidate against the deaths that cost one. *)

One(b) == IF b THEN 1 ELSE 0

(* The last launch of the candidate is paid for: its outcome is on disk,   *)
(* or still in the memory of the process that runs it.                     *)
Held(c) == c \in OnDiskIds \/ (c = current /\ (pc = "measure" \/ Closing))

Deaths == faults + Cardinality(fired)

(* A watchdog that found its deadline passed is counted in fired already   *)
(* and has not ended its process yet: that death is still owed.            *)
Paid(c) == launches[c] + One(firing) <= One(Held(c)) + Deaths

CountInv ==
  /\ IsFiniteSet(fired)
  /\ \A c \in fired : launches[c] # 0
  /\ armed => launches[current] # 0 /\ (firing \/ current \notin fired)
  /\ \A c \in Candidates \ Unsafe : Paid(c)

(* A step that only gains records, launches nothing admitted and counts    *)
(* every death it causes keeps each admitted candidate paid for.           *)
LEMMA StaysPaid ==
  ASSUME TypeInv, TypeInv', CountInv, NEW c \in Candidates \ Unsafe,
         launches'[c] = launches[c], UNCHANGED <<fired, firing>>,
         faults' >= faults, Held(c) => Held(c)'
  PROVE  Paid(c)'
<1>1. /\ launches[c] \in Nat /\ faults \in Nat /\ faults' \in Nat
      /\ Cardinality(fired) \in Nat
  BY FS_CardinalityType, SweepAssumption
     DEF TypeInv, TypeOK, CountInv, SweepAssumption
<1>2. Paid(c)
  BY DEF CountInv
<1>3. QED
  BY <1>1, <1>2 DEF Paid, Deaths, One

(* The death of a process costs an admitted candidate at most the launch   *)
(* in progress: the fault is counted, or the watchdog was counted when it  *)
(* found its deadline passed.                                              *)
LEMMA EndKeepsCountInv ==
  ASSUME TypeInv, TypeInv', CountInv, UNCHANGED <<disk, launches, fired>>,
         NEW how, Ended(how),
         \/ faults' = faults + 1
         \/ faults' = faults /\ firing
         \/ faults' = faults /\ pc = "done"
  PROVE  CountInv'
<1>1. OnDiskIds' = OnDiskIds
  BY DiskUnchanged
<1>2. ASSUME NEW c \in Candidates \ Unsafe
      PROVE  Paid(c)'
  <2>1. /\ launches[c] \in Nat /\ faults \in Nat
        /\ Cardinality(fired) \in Nat
    BY FS_CardinalityType, SweepAssumption
       DEF TypeInv, TypeOK, CountInv, SweepAssumption
  <2>2. Paid(c)
    BY DEF CountInv
  <2>3. ~firing' /\ (pc = "done" /\ Held(c) => Held(c)')
    BY <1>1 DEF Ended, Held, Closing, Saving
  <2>4. QED
    BY <2>1, <2>2, <2>3 DEF Paid, Deaths, One
<1>3. QED
  BY <1>2 DEF CountInv, Ended

(* Every step preserves the count.                                         *)
LEMMA CountInvStep ==
  TypeInv /\ TypeInv' /\ IndInv /\ CountInv /\ [Next]_vars => CountInv'
<1> SUFFICES ASSUME TypeInv, TypeInv', IndInv, CountInv, [Next]_vars
             PROVE  CountInv'
  OBVIOUS
<1> USE SweepAssumption DEF SweepAssumption
<1>0. launches \in [Candidates -> Nat] /\ faults \in Nat /\ DocInv
  BY DEF TypeInv, TypeOK, IndInv, DocInv
<1>1. CASE \/ Operator \/ StartFails \/ FinishLoop \/ CheckpointWrite \/ Hang
           \/ Measured("ok") \/ Measured("error") \/ UNCHANGED vars
           \/ \E c \in Candidates :
                Skip(c) \/ StopOnBudget(c) \/ VisitUnsafe(c)
  <2>1. /\ UNCHANGED <<disk, launches, fired, firing>> /\ faults' >= faults
        /\ armed' => armed /\ current' = current
        /\ \/ pc = "measure" /\ UNCHANGED current /\ pc' = "hung"
              /\ current \in Unsafe
           \/ pc = "measure" /\ UNCHANGED current /\ Closing'
           \/ pc # "measure" /\ UNCHANGED current /\ (Closing => Closing')
           \/ pc = "next"
           \/ UNCHANGED <<pc, current, after>>
    <3>1. CASE Operator
      <4>1. PICK h \in Hosts, b \in Budgets : Start(h, b)
        BY <3>1 DEF Operator
      <4>2. /\ UNCHANGED <<disk, launches, fired, firing, faults, armed>>
            /\ UNCHANGED current /\ pc = "down"
        BY <4>1 DEF Start, Begins, history
      <4>3. QED
        BY <1>0, <4>2 DEF Closing, Saving
    <3>2. CASE Measured("ok") \/ Measured("error")
      <4>1. /\ pc = "measure" /\ UNCHANGED current
            /\ pc' = "write" /\ after' = "next"
            /\ UNCHANGED <<disk, launches, fired, firing, faults>>
        BY <3>2 DEF Measured, Appends, history
      <4>2. ~armed'
        BY <3>2 DEF Measured, Appends
      <4>3. QED
        BY <1>0, <4>1, <4>2 DEF Closing, Saving
    <3>3. CASE \E c \in Candidates :
                 Skip(c) \/ StopOnBudget(c) \/ VisitUnsafe(c)
      BY <1>0, <3>3
         DEF Skip, StopOnBudget, VisitUnsafe, Visits, history, TypeInv,
             ControlInv
    <3>4. CASE StartFails \/ UNCHANGED vars
      BY <1>0, <3>4 DEF StartFails, vars, process, history
    <3>5. CASE FinishLoop \/ CheckpointWrite \/ Hang
      BY <1>0, <3>5
         DEF FinishLoop, CheckpointWrite, Hang, history, TypeInv, ControlInv,
             Closing, Saving
    <3>6. QED
      BY <1>1, <3>1, <3>2, <3>3, <3>4, <3>5
  <2>2. OnDiskIds' = OnDiskIds
    BY <2>1, DiskUnchanged
  <2>3. ASSUME NEW c \in Candidates \ Unsafe, Held(c)
        PROVE  Held(c)'
    <3>1. pc = "next" => current = None /\ c # None
      BY DEF TypeInv, ControlInv, Idle
    <3>2. QED
      BY <2>1, <2>2, <2>3, <3>1 DEF Held, Closing, Saving
  <2>4. \A c \in Candidates \ Unsafe : Paid(c)'
    BY <2>1, <2>3, StaysPaid
  <2>5. QED
    BY <2>1, <2>4 DEF CountInv
<1>2. CASE Crash \/ CheckpointFails \/ Return \/ WatchdogExits
  BY <1>2, EndKeepsCountInv
     DEF Crash, CheckpointFails, Return, WatchdogExits, history
<1>3. ASSUME NEW c \in Candidates, VisitSafe(c)
      PROVE  CountInv'
  <2>1. /\ pc = "next" /\ current = None /\ ~armed
        /\ c \notin Unsafe /\ c \notin OnDiskIds
        /\ current' = c /\ pc' = "measure"
        /\ UNCHANGED <<disk, armed, firing, fired, faults>>
        /\ launches' = [launches EXCEPT ![c] = @ + 1]
    BY <1>3, <1>0, IdsInLoop
       DEF VisitSafe, Visits, TypeInv, ControlInv, Idle
  <2>2. OnDiskIds' = OnDiskIds
    BY <2>1, DiskUnchanged
  <2>3. ASSUME NEW d \in Candidates \ Unsafe, d # c
        PROVE  Paid(d)'
    <3>1. Held(d) => Held(d)'
      BY <2>1, <2>2 DEF Held
    <3>2. launches'[d] = launches[d]
      BY <1>0, <2>1, <2>3
    <3>3. QED
      BY <1>0, <2>1, <3>1, <3>2, StaysPaid
  <2>4. Paid(c)'
    <3>1. ~Held(c) /\ Held(c)'
      BY <2>1 DEF Held
    <3>2. launches'[c] = launches[c] + 1 /\ launches[c] \in Nat
      BY <1>0, <2>1
    <3>3. Cardinality(fired) \in Nat
      BY FS_CardinalityType DEF CountInv
    <3>4. Paid(c)
      BY <2>1 DEF CountInv
    <3>5. QED
      BY <1>0, <2>1, <3>1, <3>2, <3>3, <3>4 DEF Paid, Deaths, One
  <2>5. \A d \in fired : launches'[d] # 0
    BY <1>0, <2>1 DEF CountInv, TypeInv, TypeOK
  <2>6. QED
    BY <2>1, <2>3, <2>4, <2>5 DEF CountInv
<1>4. CASE CheckpointRename
  <2>1. /\ pc = "rename" /\ Saving
        /\ UNCHANGED <<launches, fired, firing, faults>> /\ ~armed /\ ~armed'
    BY <1>4 DEF CheckpointRename, history, Saving, TypeInv, ControlInv
  <2>2. ASSUME NEW c \in Candidates \ Unsafe, Held(c)
        PROVE  c \in OnDiskIds'
    BY <1>4, <2>1, <2>2, RenameWrites
       DEF Held, Closing, OnDiskIds, Saving
  <2>3. \A c \in Candidates \ Unsafe : Paid(c)'
    BY <1>0, <2>1, <2>2, StaysPaid DEF Held
  <2>4. QED
    BY <2>1, <2>3 DEF CountInv
<1>5. CASE ArmWatchdog
  <2>1. /\ pc = "arm" /\ current \in Unsafe /\ current' = current
        /\ launches[current] = 0
        /\ UNCHANGED <<disk, firing, fired, faults>>
        /\ launches' = [launches EXCEPT ![current] = @ + 1]
    BY <1>5, <1>0
       DEF ArmWatchdog, TypeInv, ControlInv, DocInv, LaunchInv
  <2>2. OnDiskIds' = OnDiskIds
    BY <2>1, DiskUnchanged
  <2>3. ASSUME NEW c \in Candidates \ Unsafe
        PROVE  Paid(c)'
    <3>1. launches'[c] = launches[c] /\ (Held(c) => Held(c)')
      BY <1>0, <2>1, <2>2 DEF Held, Closing, Saving
    <3>2. QED
      BY <1>0, <2>1, <3>1, StaysPaid
  <2>4. current \notin fired /\ launches'[current] = 1
    BY <1>0, <2>1 DEF CountInv
  <2>5. \A c \in fired : launches'[c] # 0
    BY <1>0, <2>1, <2>4 DEF CountInv, TypeInv, TypeOK
  <2>6. QED
    BY <2>1, <2>3, <2>4, <2>5 DEF CountInv
<1>6. CASE WatchdogExpires
  <2>1. /\ armed /\ ~firing /\ current \notin fired /\ launches[current] # 0
        /\ firing' /\ fired' = fired \cup {current}
        /\ UNCHANGED <<disk, pc, after, current, armed, launches, faults>>
    BY <1>6 DEF WatchdogExpires, CountInv
  <2>2. /\ IsFiniteSet(fired') /\ Cardinality(fired) \in Nat
        /\ Cardinality(fired') = Cardinality(fired) + 1
    BY <2>1, FS_AddElement, FS_CardinalityType DEF CountInv
  <2>3. ASSUME NEW c \in Candidates \ Unsafe
        PROVE  Paid(c)'
    <3>1. Held(c)' <=> Held(c)
      BY <2>1, DiskUnchanged DEF Held, Closing, Saving
    <3>2. Paid(c)
      BY DEF CountInv
    <3>3. QED
      BY <1>0, <2>1, <2>2, <3>1, <3>2 DEF Paid, Deaths, One
  <2>4. QED
    BY <2>1, <2>2, <2>3 DEF CountInv
<1>7. QED
  BY <1>1, <1>2, <1>3, <1>4, <1>5, <1>6
     DEF Next, Loop, Checkpoint, Measure, Watchdog, Fault

(* An admitted candidate is launched once, and once more for each death of *)
(* a process: through a fault, or through a watchdog that gave up on a     *)
(* refused candidate.  The watchdog that fires late, when its candidate    *)
(* has already returned, is the case that makes the count delicate.        *)
THEOREM RelaunchedAfterDeath == Spec => []RelaunchedOnlyAfterDeath
<1>1. Init => CountInv
  BY FS_EmptySet, SweepAssumption
     DEF Init, CountInv, Paid, Deaths, One, Held, Closing, Saving,
         SweepAssumption, OnDiskIds, OnDisk
<1>2. TypeInv /\ CountInv => RelaunchedOnlyAfterDeath
  <2> SUFFICES ASSUME TypeInv, CountInv, NEW c \in Candidates \ Unsafe
               PROVE  launches[c] <= 1 + faults + Cardinality(fired)
    BY DEF RelaunchedOnlyAfterDeath
  <2>1. launches[c] \in Nat /\ faults \in Nat /\ Cardinality(fired) \in Nat
    BY FS_CardinalityType, SweepAssumption
       DEF TypeInv, TypeOK, CountInv, SweepAssumption
  <2>2. QED
    BY <2>1 DEF CountInv, Paid, Deaths, One
<1>3. QED
  BY <1>1, <1>2, TypeCorrect, Invariance, CountInvStep, PTL DEF Spec
=============================================================================
