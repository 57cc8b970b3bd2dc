---------------------------- MODULE RunDirProofs ----------------------------
(* Proofs about the run directory, for every space of configurations,      *)
(* every sequence of versions and any number of commands and deaths.       *)
EXTENDS RunDir, WellFoundedInduction, TLAPS

USE RunDirAssumption DEF RunDirAssumption

(* A set of numbers that is not empty has a least member.                  *)
LEMMA Least ==
  ASSUME NEW T \in SUBSET Nat, T # {}
  PROVE  \E m \in T : \A n \in T : m <= n
<1>1. PICK x \in T : \A y \in T : <<y, x>> \notin OpToRel(<, Nat)
  BY NatLessThanWellFounded, WFMin
<1>2. \A y \in T : ~(y < x)
  BY <1>1 DEF OpToRel
<1> QED
  BY <1>2

(* The fastest eligible row exists, and no eligible row has a smaller      *)
(* median.                                                                 *)
LEMMA FastestIsOne ==
  ASSUME NEW g, NEW rows \in SUBSET Rows, Eligible(g, rows) # {}
  PROVE  LET f == Fastest(Eligible(g, rows))
         IN  /\ f \in Eligible(g, rows)
             /\ \A r \in Eligible(g, rows) : f.summary.med <= r.summary.med
<1> DEFINE E == Eligible(g, rows)
           meds == {r.summary.med : r \in E}
<1>1. /\ E \in SUBSET Rows
      /\ \A r \in E : r.id \in Nat /\ r.summary.med \in Nat
  BY DEF Eligible, Timed, Rows
<1> HIDE DEF E
<1>2. meds \in SUBSET Nat /\ meds # {}
  BY <1>1 DEF E
<1>3. PICK m \in meds : \A n \in meds : m <= n
  BY <1>2, Least
<1> DEFINE ids == {r.id : r \in {q \in E : q.summary.med = m}}
<1>4. ids \in SUBSET Nat /\ ids # {}
  BY <1>1, <1>3
<1>5. PICK i \in ids : \A n \in ids : i <= n
  BY <1>4, Least
<1>6. PICK r \in E : r.summary.med = m /\ r.id = i
  BY <1>5
<1>7. \A q \in E : \/ r.summary.med < q.summary.med
                   \/ r.summary.med = q.summary.med /\ r.id <= q.id
  <2> SUFFICES ASSUME NEW q \in E
               PROVE  \/ r.summary.med < q.summary.med
                      \/ r.summary.med = q.summary.med /\ r.id <= q.id
    OBVIOUS
  <2>1. r.summary.med <= q.summary.med
    BY <1>3, <1>6
  <2>2. ASSUME r.summary.med = q.summary.med PROVE r.id <= q.id
    BY <1>5, <1>6, <2>2
  <2>3. r.summary.med \in Nat /\ q.summary.med \in Nat
    BY <1>1, <1>6
  <2>4. CASE r.summary.med = q.summary.med
    BY <2>2, <2>4, Zenon
  <2>5. CASE r.summary.med # q.summary.med
    <3> DEFINE x == r.summary.med
               y == q.summary.med
    <3>1. x <= y /\ x \in Nat /\ y \in Nat /\ x # y
      BY <2>1, <2>3, <2>5
    <3> HIDE DEF x, y
    <3>2. x < y
      BY <3>1
    <3> QED
      BY <3>2, Zenon DEF x, y
  <2> QED
    BY <2>4, <2>5, Zenon
<1>8. \E f \in E : \A q \in E :
        \/ f.summary.med < q.summary.med
        \/ f.summary.med = q.summary.med /\ f.id <= q.id
  BY <1>6, <1>7
<1>9. Fastest(E) \in E /\ \A q \in E :
        \/ Fastest(E).summary.med < q.summary.med
        \/ Fastest(E).summary.med = q.summary.med /\ Fastest(E).id <= q.id
  BY <1>8 DEF Fastest
<1> QED
  BY <1>1, <1>9 DEF E

(* The chosen row is an eligible one of the document.                      *)
LEMMA ChosenIsEligible ==
  ASSUME NEW g, NEW rows \in SUBSET Rows, NEW c \in Chosen(g, rows)
  PROVE  /\ c \in Eligible(g, rows) /\ c \in rows /\ c \in Rows
         /\ c.status = "ok" /\ c.id \in Ids
         /\ \A r \in Eligible(g, rows) : c.summary.med <= r.summary.med
<1>1. Eligible(g, rows) # {} /\ c = Fastest(Eligible(g, rows))
  BY DEF Chosen
<1>2. /\ c \in Eligible(g, rows)
      /\ \A r \in Eligible(g, rows) : c.summary.med <= r.summary.med
  BY <1>1, FastestIsOne
<1> QED
  BY <1>2 DEF Eligible, Timed, Rows

(* What a record of a launch is made of.                                   *)
LEMMA RowType ==
  ASSUME NEW i \in Ids, NEW refused \in BOOLEAN, NEW seq \in Nat,
         NEW o, \/ o \in Outcomes
                \/ o = [status |-> "timeout", summary |-> NoSummary]
  PROVE  /\ Row(i, refused, seq, o) \in Rows
         /\ Row(i, refused, seq, o).id = i
         /\ Row(i, refused, seq, o).seq = seq
         /\ Row(i, refused, seq, o).refused = refused
BY DEF Row, Rows, Outcomes

(* A new gate record leaves the earlier ones where they are.               *)
LEMMA GateAppended ==
  ASSUME gates \in Seq(Gates), NEW g \in Gates, gates' = Append(gates, g)
  PROVE  /\ gates' \in Seq(Gates)
         /\ Len(gates) \in Nat
         /\ Len(gates') = Len(gates) + 1
         /\ gates'[Len(gates')] = g
         /\ \A k \in 1..Len(gates) : gates'[k] = gates[k]
OBVIOUS

(* What the gate answers is a gate record.                                 *)
LEMMA GateType ==
  ASSUME TypeOK
  PROVE  /\ [gate |-> "full", of |-> verdictAt[version]] \in Gates
         /\ [gate |-> "none",
             of |-> [i \in Ids |-> IF verdictAt[version][i] = "absent"
                                   THEN "absent" ELSE "ungated"]] \in Gates
BY DEF TypeOK, Gates, Verdicts

(* Every candidate has the name of a file.                                 *)
LEMMA FileType ==
  ASSUME TypeOK, NEW i \in Ids, NEW v \in Versions
  PROVE  File(i, v) \in Names
BY DEF TypeOK, File

(* A process that holds a plan has a plan.                                 *)
Planned == /\ sweep.pc = "running" => sweep.plan \in Plans
           /\ job.pc = "copying" => job.copy \in Ids \X Versions
           /\ job.pc # "idle" => Len(gates) \in Nat \ {0}
           /\ reader.pc = "rendering" => params \in Ids
           /\ reader.pc = "verifying" => reader.read \in Ids
           /\ reader.pc # "idle" => reader.gate \in 1..Len(gates)

TypeInv == TypeOK /\ Planned

USE DEF IdleJob, IdleSweep, IdleReader, world, files, bounds, Readable

(* The first state of the directory is well formed.                        *)
LEMMA TypeInit == Init => TypeInv
BY DEF Init, TypeInv, TypeOK, Planned, Artifacts, Jobs, Sweeps, Readers

(* Every step keeps the types.                                             *)
LEMMA TypeStep == TypeInv /\ [Next]_vars => TypeInv'
<1> SUFFICES ASSUME TypeInv, [Next]_vars PROVE TypeInv'
  OBVIOUS
<1> USE DEF TypeInv, Planned
<1>0. Len(gates) \in Nat
  BY DEF TypeOK
<1>a. /\ IdleJob \in Jobs /\ IdleSweep \in Sweeps /\ IdleReader \in Readers
      /\ job \in Jobs /\ sweep \in Sweeps /\ reader \in Readers
  BY DEF Jobs, Sweeps, Readers, TypeOK
<1>b. /\ reader.rows \in SUBSET Rows /\ sweep.doc \in SUBSET Rows
      /\ job.todo \in SUBSET Ids
  BY <1>a DEF Jobs, Sweeps, Readers
<1>1. ASSUME NEW allow \in BOOLEAN, Stage(allow) PROVE TypeInv'
  <2> DEFINE g == [gate |-> "full", of |-> verdictAt[version]]
  <2>1. g \in Gates /\ gates' = Append(gates, g)
    BY <1>1, GateType DEF Stage
  <2> HIDE DEF g
  <2>2. gates' \in Seq(Gates) /\ Len(gates') = Len(gates) + 1
    BY <2>1, GateAppended DEF TypeOK
  <2>3. ToStage(verdictAt[version], allow) \in SUBSET Ids
    BY DEF ToStage
  <2>4. job' \in Jobs /\ job'.pc = "staging"
    BY <1>1, <2>3 DEF Stage, Jobs
  <2> QED
    BY <1>0, <1>1, <2>2, <2>4 DEF Stage, StartsCommand, TypeOK
<1>2. CASE StageVerdicts
  <2>1. job' \in Jobs /\ job'.pc = "compiling" /\ job.pc = "staging"
    BY <1>a, <1>2 DEF StageVerdicts, Jobs
  <2> QED
    BY <1>0, <1>2, <2>1 DEF StageVerdicts, TypeOK
<1>3. ASSUME NEW i \in Ids, NEW v \in Versions, Accepts(i, v)
      PROVE  job' \in Jobs /\ job'.pc = "compiling"
  <2>1. Entry(i, v) \in Entries
    BY DEF Entry, Entries
  <2> QED
    BY <1>a, <1>3, <2>1 DEF Accepts, Jobs
<1>4. ASSUME NEW i \in job.todo, Compile(i) PROVE TypeInv'
  <2>1. i \in Ids /\ version \in Versions
    BY <1>b DEF TypeOK
  <2>2. /\ params' \in Ids \cup {None} /\ reader' \in Readers
        /\ reader'.pc = reader.pc /\ reader'.gate = reader.gate
        /\ reader'.pc = "rendering" => params' \in Ids
        /\ reader'.read = reader.read
    <3>1. CASE reader.pc = "rendering"
      <4>1. params' = i /\ reader' = [reader EXCEPT !.disturbed = TRUE]
        BY <1>4, <3>1 DEF Compile, WritesParams
      <4> QED
        BY <1>a, <2>1, <4>1 DEF Readers
    <3>2. CASE reader.pc # "rendering"
      <4>1. UNCHANGED <<params, reader>>
        BY <1>4, <3>2 DEF Compile, WritesParams
      <4> QED
        BY <1>a, <4>1 DEF TypeOK
    <3> QED
      BY <3>1, <3>2
  <2>3. ptx' \in [Names -> Artifacts]
    <3>1. ptx' = ptx \/ ptx' = [ptx EXCEPT ![File(i, version)] = "no entry"]
      BY <1>4 DEF Compile
    <3> QED
      BY <3>1 DEF Artifacts, TypeOK
  <2>4. /\ job' \in Jobs /\ job.pc = "compiling"
        /\ job'.pc = "copying" => job'.copy \in Ids \X Versions
    <3>1. CASE job' = [job EXCEPT !.pc = "copying", !.copy = <<i, version>>]
      BY <1>4, <1>a, <2>1, <3>1 DEF Compile, Jobs
    <3>2. CASE job' = IdleJob
      BY <1>4, <1>a, <3>2 DEF Compile
    <3>3. CASE Accepts(i, version)
      BY <1>4, <1>3, <2>1, <3>3 DEF Compile
    <3> QED
      BY <1>4, <3>1, <3>2, <3>3 DEF Compile
  <2> QED
    BY <1>0, <1>4, <2>2, <2>3, <2>4 DEF Compile, TypeOK
<1>5. CASE CopyDone
  <2>1. job.copy[1] \in Ids /\ job.copy[2] \in Versions /\ job.pc = "copying"
    BY <1>5 DEF CopyDone
  <2>2. job' \in Jobs /\ job'.pc # "copying"
    <3>1. CASE Accepts(job.copy[1], job.copy[2])
      BY <1>3, <2>1, <3>1
    <3>2. CASE job' = IdleJob
      BY <1>a, <3>2
    <3> QED
      BY <1>5, <3>1, <3>2 DEF CopyDone
  <2>3. ptx' \in [Names -> Artifacts]
    BY <1>5 DEF CopyDone, Copied, Artifacts, TypeOK
  <2> QED
    BY <1>0, <1>5, <2>1, <2>2, <2>3 DEF CopyDone, TypeOK
<1>5a. ASSUME NEW q \in CutCopies PROVE q \in [Names -> Artifacts]
  <2>1. q = ptx \/ q = Copied("torn")
    BY <1>5a DEF CutCopies
  <2> QED
    BY <2>1 DEF Copied, Artifacts, TypeOK
<1>5b. CASE CopyFails
  <2>1. ptx' \in [Names -> Artifacts]
    BY <1>5a, <1>5b DEF CopyFails
  <2>2. faults' \in Nat /\ job' = IdleJob
    BY <1>5b DEF CopyFails, TypeOK
  <2>3. UNCHANGED <<world, gates, verdicts, plan, results, params, sweep,
                    reader, emitted, commands>>
    BY <1>5b DEF CopyFails
  <2>4. TypeOK'
    BY <1>a, <2>1, <2>2, <2>3 DEF TypeOK
  <2>5. Planned'
    BY <1>0, <2>2, <2>3
  <2> QED
    BY <2>4, <2>5
<1>6. CASE CompileFails \/ OpenPlan \/ MetalFails
  <2>1. job' \in Jobs /\ job'.pc # "copying" /\ job.pc # "idle"
    BY <1>a, <1>6 DEF CompileFails, OpenPlan, MetalFails, Jobs
  <2> QED
    BY <1>0, <1>6, <2>1 DEF CompileFails, OpenPlan, MetalFails, TypeOK
<1>7. CASE StagePlan
  <2>1. plan' \in Plans
    BY <1>0, <1>a, <1>7 DEF StagePlan, Plans, Jobs
  <2> QED
    BY <1>0, <1>a, <1>7, <2>1 DEF StagePlan, TypeOK
<1>8. CASE Metal
  <2> DEFINE g == [gate |-> "none",
                   of |-> [i \in Ids |-> IF verdictAt[version][i] = "absent"
                                         THEN "absent" ELSE "ungated"]]
  <2>1. g \in Gates /\ gates' = Append(gates, g)
    BY <1>8, GateType DEF Metal
  <2> HIDE DEF g
  <2>2. gates' \in Seq(Gates) /\ Len(gates') = Len(gates) + 1
    BY <2>1, GateAppended DEF TypeOK
  <2>3. job' \in Jobs /\ job'.pc = "metal"
    BY <1>8 DEF Metal, Jobs
  <2> QED
    BY <1>0, <1>8, <2>2, <2>3 DEF Metal, StartsCommand, TypeOK
<1>9. CASE MetalVerdicts
  <2>1. job' \in Jobs /\ job'.pc = "measuring" /\ job.pc = "metal"
    BY <1>a, <1>9 DEF MetalVerdicts, Jobs
  <2> QED
    BY <1>0, <1>9, <2>1 DEF MetalVerdicts, TypeOK
<1>10. CASE MetalEnd
  <2>0. PICK measured \in SUBSET job.todo :
          \E o \in [measured -> Outcomes] :
            results' = {Row(i, FALSE, Len(gates), o[i]) : i \in measured}
    BY <1>10 DEF MetalEnd
  <2>1. PICK o \in [measured -> Outcomes] :
          results' = {Row(i, FALSE, Len(gates), o[i]) : i \in measured}
    BY <2>0
  <2>2. \A i \in measured : Row(i, FALSE, Len(gates), o[i]) \in Rows
    BY <1>0, <1>b, RowType
  <2>3. results' \in SUBSET Rows
    BY <2>1, <2>2
  <2> QED
    BY <1>0, <1>a, <1>10, <2>3 DEF MetalEnd, TypeOK
<1>11. CASE SweepStart
  <2>1. plan \in Plans
    BY <1>11 DEF SweepStart, TypeOK
  <2>2. sweep' \in Sweeps /\ sweep'.plan \in Plans
    BY <1>11, <2>1 DEF SweepStart, Sweeps, TypeOK
  <2> QED
    BY <1>0, <1>11, <2>2 DEF SweepStart, StartsCommand, TypeOK
<1>12. ASSUME sweep.pc = "running", NEW c \in Remaining(sweep), Launch(c)
       PROVE  TypeInv'
  <2>1. c \in Entries /\ sweep.plan.seq \in Nat
    BY <1>12 DEF Remaining, Plans
  <2>2. PICK row \in Rows :
          /\ results' = sweep.doc \cup {row}
          /\ \/ sweep' = [sweep EXCEPT !.doc = @ \cup {row}]
             \/ sweep' = IdleSweep
    <3>1. \A o \in Outcomes : Row(c.id, c.refused, sweep.plan.seq, o) \in Rows
      BY <2>1, RowType DEF Entries
    <3>2. Row(c.id, TRUE, sweep.plan.seq,
              [status |-> "timeout", summary |-> NoSummary]) \in Rows
      BY <2>1, RowType DEF Entries
    <3> QED
      BY <1>12, <3>1, <3>2 DEF Launch
  <2>3. /\ results' \in SUBSET Rows /\ sweep' \in Sweeps
        /\ sweep'.pc = "running" => sweep'.plan \in Plans
    BY <1>a, <1>b, <1>12, <2>2 DEF Sweeps
  <2> QED
    BY <1>0, <1>12, <2>3 DEF Launch, TypeOK
<1>13. CASE SweepEnd
  <2>1. results' \in SUBSET Rows /\ sweep' = IdleSweep
    BY <1>b, <1>13 DEF SweepEnd
  <2>2. UNCHANGED <<world, gates, verdicts, plan, ptx, params, job, reader,
                    emitted, bounds>>
    BY <1>13 DEF SweepEnd
  <2>3. TypeOK'
    BY <1>a, <2>1, <2>2 DEF TypeOK
  <2>4. Planned'
    BY <1>0, <2>1, <2>2
  <2> QED
    BY <2>3, <2>4
<1>14. CASE ReadVerdicts
  <2>1. verdicts \in 1..Len(gates)
    BY <1>14 DEF ReadVerdicts, TypeOK
  <2>a. /\ verdicts \in Nat
        /\ reader' = [pc |-> "results", gate |-> verdicts, rows |-> {},
                      verify |-> FALSE, read |-> None, disturbed |-> FALSE]
    BY <1>0, <1>14, <2>1 DEF ReadVerdicts
  <2>2. /\ reader' \in Readers /\ reader'.gate = verdicts
        /\ reader'.pc \notin {"rendering", "verifying"}
    BY <2>a DEF Readers
  <2> QED
    BY <1>0, <1>14, <2>1, <2>2 DEF ReadVerdicts, StartsCommand, TypeOK
<1>15. CASE ReadResults
  <2>1. /\ reader' \in Readers /\ reader'.pc = "built"
        /\ reader'.gate = reader.gate /\ reader.pc # "idle"
    BY <1>a, <1>15 DEF ReadResults, Readers, TypeOK
  <2> QED
    BY <1>0, <1>15, <2>1 DEF ReadResults, TypeOK
<1>15a. CASE ReaderDone
  BY <1>0, <1>a, <1>15a DEF ReaderDone, TypeOK
<1>16. ASSUME NEW verify \in BOOLEAN, Apply(verify) PROVE TypeInv'
  <2>1. PICK c \in Chosen(GateRead, reader.rows) : params' = c.id
    BY <1>16 DEF Apply
  <2>2. params' \in Ids
    BY <1>b, <2>1, ChosenIsEligible
  <2>3. /\ reader' \in Readers /\ reader'.gate = reader.gate
        /\ reader.pc # "idle" /\ reader'.pc = "rendering"
    BY <1>a, <1>16 DEF Apply, Readers
  <2> QED
    BY <1>0, <1>16, <2>2, <2>3 DEF Apply, TypeOK
<1>16a. CASE ApplyRead
  <2>1. reader.pc = "rendering" /\ params \in Ids
    BY <1>16a DEF ApplyRead
  <2>2. /\ reader' \in Readers /\ reader'.gate = reader.gate
        /\ reader'.pc = "verifying" /\ reader'.read \in Ids
    BY <1>a, <1>16a, <2>1 DEF ApplyRead, Readers
  <2> QED
    BY <1>0, <1>16a, <2>1, <2>2 DEF ApplyRead, TypeOK
<1>17. CASE ApplyEmit
  <2>1. reader.pc = "verifying" /\ reader' = IdleReader
        /\ UNCHANGED <<world, gates, files, params, job, sweep, bounds>>
        /\ (Emits \/ UNCHANGED emitted)
    BY <1>17 DEF ApplyEmit
  <2>2. ASSUME Emits PROVE emitted' \in Emissions
    <3>1. PICK c \in Chosen(GateRead, reader.rows) :
            emitted' = [id |-> c.id, params |-> reader.read,
                        verified |-> reader.verify,
                        gate |-> GateRead.gate, version |-> version,
                        disturbed |-> reader.disturbed]
      BY <2>2 DEF Emits
    <3>2. c.id \in Ids
      BY <1>b, <3>1, ChosenIsEligible
    <3>3. GateRead \in Gates
      BY <2>1 DEF GateRead, TypeOK
    <3>4. GateRead.gate \in {"full", "none"}
      BY <3>3 DEF Gates
    <3>5. /\ reader.verify \in BOOLEAN /\ reader.disturbed \in BOOLEAN
          /\ reader.read \in Ids /\ version \in Versions
      BY <1>a, <2>1 DEF Readers, TypeOK
    <3> QED
      BY <3>1, <3>2, <3>4, <3>5 DEF Emissions
  <2> QED
    BY <1>0, <1>a, <2>1, <2>2 DEF TypeOK
<1>18. CASE Edit
  BY <1>0, <1>18 DEF Edit, TypeOK
<1>19. CASE Dies
  <2>1. ptx' \in [Names -> Artifacts]
    <3>1. ptx' = ptx \/ ptx' \in CutCopies
      BY <1>19 DEF Dies
    <3> QED
      BY <1>5a, <3>1 DEF TypeOK
  <2>2. /\ job' = IdleJob \/ job' = job
        /\ sweep' = IdleSweep \/ sweep' = sweep
        /\ faults' \in Nat
    BY <1>19 DEF Dies, TypeOK
  <2>3. UNCHANGED <<world, gates, verdicts, plan, results, params, reader,
                    emitted, commands>>
    BY <1>19 DEF Dies
  <2>4. job' \in Jobs /\ sweep' \in Sweeps
    BY <1>a, <2>2
  <2>5. TypeOK'
    BY <2>1, <2>2, <2>3, <2>4 DEF TypeOK
  <2>6. Planned'
    BY <1>0, <2>2, <2>3
  <2> QED
    BY <2>5, <2>6
<1>20. CASE UNCHANGED vars
  BY <1>0, <1>20 DEF vars, TypeOK
<1> QED
  BY <1>1, <1>2, <1>4, <1>5, <1>5b, <1>6, <1>7, <1>8, <1>9, <1>10, <1>11,
     <1>12, <1>13, <1>14, <1>15, <1>15a, <1>16, <1>16a, <1>17, <1>18, <1>19,
     <1>20
     DEF Next, Writer, Runner, Reader

(* Every variable keeps its type, for every space of configurations and    *)
(* any number of commands, edits and deaths.                               *)
THEOREM RunDirTypes == Spec => []TypeOK
<1>1. Spec => []TypeInv
  BY TypeInit, TypeStep, PTL DEF Spec
<1>2. TypeInv => TypeOK
  BY DEF TypeInv
<1> QED
  BY <1>1, <1>2, PTL

-----------------------------------------------------------------------------
(* The inductive invariant.  Documents carry the index of the gate record  *)
(* they were made from, and records are never changed, so each part says   *)
(* of a document, wherever a process holds it, that it agrees with its own *)
(* record.                                                                 *)

(* Rows were launched as refused exactly when their record refused them.   *)
RowsOK(S, G) ==
  \A r \in S : /\ r.seq \in 1..Len(G)
               /\ r.refused <=> G[r.seq].of[r.id] = "disqualified"

EntriesOK(S, k, allow, G) ==
  \A c \in S : /\ c.id \in ToStage(G[k].of, allow)
               /\ c.refused <=> G[k].of[c.id] = "disqualified"

(* A plan has an entry for each candidate to stage, and no other.          *)
PlanOK(p, G) ==
  /\ p.seq \in 1..Len(G)
  /\ EntriesOK(p.candidates, p.seq, p.reason, G)
  /\ ToStage(G[p.seq].of, p.reason) \subseteq IdsOf(p.candidates)

Staging == {"staging", "compiling", "copying", "planning"}

(* stage has compiled and has still to compile what its record asks for.   *)
StageOK ==
  job.pc \in Staging =>
    /\ EntriesOK(job.cands, Len(gates), job.reason, gates)
    /\ ToStage(gates[Len(gates)].of, job.reason)
          \subseteq job.todo \cup IdsOf(job.cands)
    /\ job.todo \subseteq ToStage(gates[Len(gates)].of, job.reason)
    /\ job.pc = "planning" => job.todo = {}
    /\ job.pc = "copying" => job.copy[1] \in job.todo

PlansInv ==
  /\ Readable(plan) => PlanOK(plan, gates)
  /\ sweep.pc = "running" => PlanOK(sweep.plan, gates)
  /\ StageOK

(* Gate records are kept, and new ones come behind them.                   *)
Grows == /\ Len(gates) \in Nat /\ Len(gates') \in Nat
         /\ Len(gates) <= Len(gates')
         /\ \A k \in 1..Len(gates) : gates'[k] = gates[k]

(* A gate record once made stays at its place.                             *)
LEMMA GatesGrow == TypeInv /\ [Next]_vars => Grows
<1> SUFFICES ASSUME TypeInv, [Next]_vars PROVE Grows
  OBVIOUS
<1>1. gates \in Seq(Gates) /\ Len(gates) \in Nat
  BY DEF TypeInv, TypeOK
<1>2. CASE gates' = gates
  BY <1>1, <1>2 DEF Grows
<1>3. ASSUME NEW g \in Gates, gates' = Append(gates, g) PROVE Grows
  BY <1>1, <1>3, GateAppended DEF Grows
<1>4. ASSUME NEW allow \in BOOLEAN, Stage(allow) PROVE Grows
  BY <1>3, <1>4, GateType DEF Stage, TypeInv
<1>5. CASE Metal
  BY <1>3, <1>5, GateType DEF Metal, TypeInv
<1>6. QED
  BY <1>2, <1>4, <1>5
     DEF Next, Writer, Runner, Reader, vars, StageVerdicts, Compile, CopyDone,
         CopyFails, CompileFails, OpenPlan, StagePlan, MetalVerdicts, MetalEnd,
         MetalFails, SweepStart, Launch, SweepEnd, ReadVerdicts, ReadResults,
         ReaderDone, Apply, ApplyRead, ApplyEmit, Edit, Dies

(* What agrees with its record goes on agreeing with it.                   *)
LEMMA RowsKept ==
  ASSUME Grows, NEW S, RowsOK(S, gates) PROVE RowsOK(S, gates')
<1> SUFFICES ASSUME NEW r \in S
             PROVE  /\ r.seq \in 1..Len(gates')
                    /\ r.refused <=> gates'[r.seq].of[r.id] = "disqualified"
  BY DEF RowsOK
<1>1. r.seq \in 1..Len(gates)
  BY DEF RowsOK
<1>2. r.seq \in 1..Len(gates') /\ gates'[r.seq] = gates[r.seq]
  BY <1>1 DEF Grows
<1> QED
  BY <1>2 DEF RowsOK

(* A plan stays what its gate record says while records are added.         *)
LEMMA PlanKept ==
  ASSUME Grows, NEW p, PlanOK(p, gates) PROVE PlanOK(p, gates')
<1>1. p.seq \in 1..Len(gates)
  BY DEF PlanOK
<1>2. p.seq \in 1..Len(gates') /\ gates'[p.seq] = gates[p.seq]
  BY <1>1 DEF Grows
<1> QED
  BY <1>2 DEF PlanOK, EntriesOK

(* Every step keeps plans and the work of stage in agreement with the gate.*)
LEMMA PlansStep == TypeInv /\ PlansInv /\ [Next]_vars => PlansInv'
<1> SUFFICES ASSUME TypeInv, PlansInv, [Next]_vars PROVE PlansInv'
  OBVIOUS
<1>1. Grows /\ Len(gates) \in Nat
  BY GatesGrow DEF TypeInv, TypeOK
<1>2. ASSUME plan' = plan, sweep' = sweep \/ sweep' = IdleSweep, StageOK'
      PROVE  PlansInv'
  BY <1>1, <1>2, PlanKept DEF PlansInv
<1>3. ASSUME job' = job, gates' = gates PROVE StageOK'
  BY <1>3 DEF PlansInv, StageOK
<1>4. ASSUME job' = IdleJob PROVE StageOK'
  BY <1>4 DEF StageOK, Staging
<1>5. ASSUME NEW allow \in BOOLEAN, Stage(allow) PROVE PlansInv'
  <2> DEFINE g == [gate |-> "full", of |-> verdictAt[version]]
  <2>1. g \in Gates /\ gates' = Append(gates, g) /\ g.of = verdictAt[version]
    BY <1>5, GateType DEF Stage, TypeInv
  <2> HIDE DEF g
  <2>2. gates'[Len(gates')].of = verdictAt[version]
    BY <2>1, GateAppended DEF TypeInv, TypeOK
  <2>3. /\ job'.cands = {} /\ job'.pc = "staging" /\ job'.reason = allow
        /\ job'.todo = ToStage(verdictAt[version], allow)
    BY <1>5 DEF Stage
  <2>4. StageOK'
    BY <2>2, <2>3 DEF StageOK, EntriesOK
  <2> QED
    BY <1>2, <1>5, <2>4 DEF Stage
<1>6. ASSUME StageVerdicts \/ MetalVerdicts PROVE PlansInv'
  <2>1. /\ gates' = gates /\ plan' = plan /\ sweep' = sweep
        /\ \/ job'.pc = "compiling" /\ job.pc = "staging"
           \/ job'.pc = "measuring"
        /\ job'.cands = job.cands /\ job'.todo = job.todo
        /\ job'.reason = job.reason
    BY <1>6 DEF StageVerdicts, MetalVerdicts, TypeInv, TypeOK, Jobs
  <2>2. StageOK'
    BY <2>1 DEF PlansInv, StageOK, Staging
  <2> QED
    BY <1>2, <2>1, <2>2
<1>7. ASSUME job.pc \in Staging, NEW i \in job.todo, NEW v, Accepts(i, v),
             gates' = gates
      PROVE  StageOK'
  <2>1. /\ job'.pc = "compiling" /\ job'.todo = job.todo \ {i}
        /\ job'.cands = job.cands \cup {Entry(i, v)}
        /\ job'.reason = job.reason
    BY <1>7 DEF Accepts, TypeInv, TypeOK, Jobs
  <2>2. /\ Entry(i, v).id = i
        /\ Entry(i, v).refused <=> gates[Len(gates)].of[i] = "disqualified"
    BY DEF Entry
  <2>3. EntriesOK(job'.cands, Len(gates), job.reason, gates)
    BY <1>7, <2>1, <2>2 DEF PlansInv, StageOK, EntriesOK
  <2>4. i \in IdsOf(job'.cands) /\ IdsOf(job.cands) \subseteq IdsOf(job'.cands)
    BY <2>1, <2>2 DEF IdsOf
  <2> QED
    BY <1>7, <2>1, <2>3, <2>4 DEF PlansInv, StageOK
<1>8. ASSUME NEW i \in job.todo, Compile(i) PROVE PlansInv'
  <2>1. /\ gates' = gates /\ plan' = plan /\ sweep' = sweep
        /\ job.pc = "compiling"
    BY <1>8 DEF Compile
  <2>2. CASE job' = [job EXCEPT !.pc = "copying", !.copy = <<i, version>>]
    <3>1. /\ job'.pc = "copying" /\ job'.copy = <<i, version>>
          /\ job'.cands = job.cands /\ job'.todo = job.todo
          /\ job'.reason = job.reason
      BY <2>2 DEF TypeInv, TypeOK, Jobs
    <3>2. StageOK'
      BY <2>1, <3>1 DEF PlansInv, StageOK, Staging
    <3> QED
      BY <1>2, <2>1, <3>2
  <2>3. CASE job' = IdleJob
    BY <1>2, <1>4, <2>1, <2>3
  <2>4. CASE Accepts(i, version)
    BY <1>2, <1>7, <2>1, <2>4 DEF Staging
  <2> QED
    BY <1>8, <2>2, <2>3, <2>4 DEF Compile
<1>9. CASE CopyDone
  <2>1. /\ job.pc = "copying" /\ gates' = gates /\ plan' = plan
        /\ sweep' = sweep
        /\ Accepts(job.copy[1], job.copy[2]) \/ job' = IdleJob
    BY <1>9 DEF CopyDone
  <2>2. job.copy[1] \in job.todo
    BY <2>1 DEF PlansInv, StageOK, Staging
  <2> QED
    BY <1>2, <1>4, <1>7, <2>1, <2>2 DEF Staging
<1>10. CASE OpenPlan
  <2>1. /\ job'.pc = "planning" /\ job.pc = "compiling" /\ job.todo = {}
        /\ job'.cands = job.cands /\ job'.todo = job.todo
        /\ job'.reason = job.reason /\ gates' = gates
        /\ plan' = Torn /\ sweep' = sweep
    BY <1>10 DEF OpenPlan, TypeInv, TypeOK, Jobs
  <2>2. StageOK'
    BY <2>1 DEF PlansInv, StageOK, Staging
  <2> QED
    BY <2>1, <2>2 DEF PlansInv
<1>11. CASE StagePlan
  <2>1. /\ job.pc = "planning" /\ job' = IdleJob /\ sweep' = sweep
        /\ gates' = gates
        /\ plan' = [reason |-> job.reason, seq |-> Len(gates),
                    candidates |-> job.cands]
    BY <1>11 DEF StagePlan
  <2>2. Len(gates) \in Nat \ {0}
    BY <2>1 DEF TypeInv, Planned
  <2>3. PlanOK(plan', gates)
    BY <2>1, <2>2 DEF PlansInv, StageOK, Staging, PlanOK
  <2> QED
    BY <1>4, <2>1, <2>3 DEF PlansInv
<1>12. CASE CopyFails \/ CompileFails \/ MetalFails \/ MetalEnd
  BY <1>2, <1>4, <1>12 DEF CopyFails, CompileFails, MetalFails, MetalEnd
<1>13. CASE Metal
  <2>1. job'.pc = "metal"
    BY <1>13 DEF Metal
  <2>2. StageOK'
    BY <2>1 DEF StageOK, Staging
  <2> QED
    BY <1>2, <1>13, <2>2 DEF Metal
<1>14. CASE SweepStart
  <2>1. /\ sweep'.plan = plan /\ Readable(plan)
        /\ UNCHANGED <<plan, gates, job>>
    BY <1>14 DEF SweepStart
  <2> QED
    BY <1>3, <2>1 DEF PlansInv
<1>15. ASSUME sweep.pc = "running", NEW c \in Remaining(sweep), Launch(c)
       PROVE  PlansInv'
  <2>1. /\ UNCHANGED <<plan, gates, job>>
        /\ \/ \E d : sweep' = [sweep EXCEPT !.doc = d]
           \/ sweep' = IdleSweep
    BY <1>15 DEF Launch
  <2>2. sweep \in Sweeps
    BY DEF TypeInv, TypeOK
  <2>3. sweep'.pc = "running" => sweep'.plan = sweep.plan
    BY <2>1, <2>2 DEF Sweeps, IdleSweep
  <2> QED
    BY <1>3, <1>15, <2>1, <2>3 DEF PlansInv
<1>16. CASE SweepEnd \/ ReadVerdicts \/ ReadResults \/ ReaderDone
              \/ (\E verify \in BOOLEAN : Apply(verify))
              \/ ApplyRead \/ ApplyEmit \/ Edit
  BY <1>2, <1>3, <1>16
     DEF SweepEnd, ReadVerdicts, ReadResults, ReaderDone, Apply, ApplyRead,
         ApplyEmit, Edit
<1>17. CASE Dies
  <2>1. /\ plan' = plan /\ gates' = gates
        /\ \/ job' = IdleJob /\ sweep' = sweep
           \/ job' = job /\ sweep' = IdleSweep
    BY <1>17 DEF Dies
  <2> QED
    BY <1>2, <1>3, <1>4, <2>1
<1>18. CASE UNCHANGED vars
  BY <1>2, <1>3, <1>18 DEF vars
<1> QED
  BY <1>5, <1>6, <1>8, <1>9, <1>10, <1>11, <1>12, <1>13, <1>14, <1>15, <1>16,
     <1>17, <1>18 DEF Next, Writer, Runner, Reader

(* A readable plan and its gate record agree at the start and ever after.  *)
LEMMA PlansAlways == Spec => [](TypeInv /\ PlansInv)
<1>1. Init => TypeInv /\ PlansInv
  BY TypeInit DEF Init, PlansInv, StageOK, Staging
<1>2. TypeInv /\ PlansInv /\ [Next]_vars => (TypeInv /\ PlansInv)'
  BY TypeStep, PlansStep
<1> QED
  BY <1>1, <1>2, PTL DEF Spec

(* A plan that can be read is the gate's, for every crate, any number of   *)
(* candidates and whatever dies: its refused candidates are marked.        *)
THEOREM PlansAreTheGates == Spec => []PlanIsTheGates
<1>1. TypeInv /\ PlansInv => PlanIsTheGates
  <2> SUFFICES ASSUME TypeInv, PlansInv, Readable(plan) PROVE PlanIsTheGates
    BY DEF PlanIsTheGates
  <2> DEFINE of == gates[plan.seq].of
  <2>1. PlanOK(plan, gates)
    BY DEF PlansInv
  <2>2. {i \in Ids : of[i] = "clean"} \subseteq IdsOf(plan.candidates)
    BY <2>1 DEF PlanOK, ToStage
  <2>3. \A c \in plan.candidates :
          \/ of[c.id] = "clean" /\ ~c.refused
          \/ of[c.id] = "disqualified" /\ c.refused /\ plan.reason
    BY <2>1 DEF PlanOK, EntriesOK, ToStage
  <2> QED
    BY <2>2, <2>3 DEF PlanIsTheGates
<1> QED
  BY <1>1, PlansAlways, PTL
-----------------------------------------------------------------------------
(* Rows, wherever they are, agree with their record and have one id each.  *)
OneEach(S) == \A r \in S, q \in S : r.id = q.id => r = q

UngatedOK ==
  job.pc \in {"metal", "measuring"} =>
    \A i \in Ids : gates[Len(gates)].of[i] # "disqualified"

RowsInv ==
  /\ results # NoDoc => RowsOK(results, gates) /\ OneEach(results)
  /\ RowsOK(sweep.doc, gates) /\ OneEach(sweep.doc)
  /\ RowsOK(reader.rows, gates) /\ OneEach(reader.rows)
  /\ UngatedOK

(* A step that makes no rows, and leaves the work of Metal as it is or     *)
(* ends it, keeps every row in order.                                      *)
LEMMA RowsUntouched ==
  ASSUME TypeInv, RowsInv, Grows, results' = results,
         sweep'.doc = sweep.doc \/ sweep'.doc = {},
         reader'.rows = reader.rows \/ reader'.rows = {}, UngatedOK'
  PROVE  RowsInv'
<1>1. results' # NoDoc => RowsOK(results', gates') /\ OneEach(results')
  BY RowsKept DEF RowsInv
<1>2. RowsOK(sweep'.doc, gates') /\ OneEach(sweep'.doc)
  BY RowsKept DEF RowsInv, RowsOK, OneEach
<1>3. RowsOK(reader'.rows, gates') /\ OneEach(reader'.rows)
  BY RowsKept DEF RowsInv, RowsOK, OneEach
<1> QED
  BY <1>1, <1>2, <1>3 DEF RowsInv

(* A row keeps the mark its record gave it.                                *)
LEMMA RowsStep == TypeInv /\ PlansInv /\ RowsInv /\ [Next]_vars => RowsInv'
<1> SUFFICES ASSUME TypeInv, PlansInv, RowsInv, [Next]_vars PROVE RowsInv'
  OBVIOUS
<1>1. Grows
  BY GatesGrow DEF TypeInv
<1>2. ASSUME job'.pc \notin {"metal", "measuring"} PROVE UngatedOK'
  BY <1>2 DEF UngatedOK
<1>3. ASSUME job' = job, gates' = gates PROVE UngatedOK'
  BY <1>3 DEF RowsInv, UngatedOK
<1>a. /\ job \in Jobs /\ sweep \in Sweeps /\ reader \in Readers
      /\ IdleJob.pc = "idle"
  BY DEF TypeInv, TypeOK
<1>4. ASSUME job'.pc \notin {"metal", "measuring"} \/
                (job' = job /\ gates' = gates),
             results' = results, sweep' = sweep,
             reader'.rows = reader.rows \/ reader'.rows = {}
      PROVE  RowsInv'
  BY <1>1, <1>2, <1>3, <1>4, RowsUntouched
<1>5. ASSUME NEW allow \in BOOLEAN, Stage(allow) PROVE RowsInv'
  <2>1. job'.pc = "staging" /\ UNCHANGED <<results, sweep, reader>>
    BY <1>5 DEF Stage
  <2> QED
    BY <1>4, <2>1
<1>6. CASE StageVerdicts
  <2>1. job'.pc = "compiling" /\ UNCHANGED <<results, sweep, reader>>
    BY <1>a, <1>6 DEF StageVerdicts, Jobs
  <2> QED
    BY <1>4, <2>1
<1>7. ASSUME NEW i, NEW v, Accepts(i, v) PROVE job'.pc = "compiling"
  BY <1>a, <1>7 DEF Accepts, Jobs
<1>8. ASSUME NEW i \in job.todo, Compile(i) PROVE RowsInv'
  <2>1. results' = results /\ sweep' = sweep /\ reader'.rows = reader.rows
    BY <1>a, <1>8 DEF Compile, WritesParams, Readers
  <2>2. job'.pc \notin {"metal", "measuring"}
    BY <1>7, <1>a, <1>8 DEF Compile, Jobs
  <2> QED
    BY <1>4, <2>1, <2>2
<1>9. CASE CopyDone
  <2>1. /\ job'.pc \in {"idle", "compiling"}
        /\ UNCHANGED <<results, sweep, reader>>
    BY <1>7, <1>9 DEF CopyDone
  <2> QED
    BY <1>4, <2>1
<1>10. CASE CopyFails \/ CompileFails \/ OpenPlan \/ StagePlan \/ MetalFails
  <2>1. /\ job'.pc \in {"idle", "planning"}
        /\ UNCHANGED <<results, sweep, reader>>
    BY <1>a, <1>10 DEF CopyFails, CompileFails, OpenPlan, StagePlan,
                       MetalFails, Jobs
  <2> QED
    BY <1>4, <2>1
<1>11. CASE Metal
  <2> DEFINE g == [gate |-> "none",
                   of |-> [i \in Ids |-> IF verdictAt[version][i] = "absent"
                                         THEN "absent" ELSE "ungated"]]
  <2>1. g \in Gates /\ gates' = Append(gates, g)
    BY <1>11, GateType DEF Metal, TypeInv
  <2>2. \A i \in Ids : g.of[i] # "disqualified"
    OBVIOUS
  <2> HIDE DEF g
  <2>3. gates'[Len(gates')] = g
    BY <2>1, GateAppended DEF TypeInv, TypeOK
  <2>4. UngatedOK'
    BY <2>2, <2>3 DEF UngatedOK
  <2> QED
    BY <1>1, <1>11, <2>4, RowsUntouched DEF Metal
<1>12. CASE MetalVerdicts
  <2>1. job.pc = "metal" /\ gates' = gates
    BY <1>12 DEF MetalVerdicts
  <2>2. UngatedOK'
    BY <2>1 DEF RowsInv, UngatedOK
  <2> QED
    BY <1>1, <1>12, <2>2, RowsUntouched DEF MetalVerdicts
<1>13. CASE MetalEnd
  <2>0. PICK measured \in SUBSET job.todo :
          \E o \in [measured -> Outcomes] :
            results' = {Row(i, FALSE, Len(gates), o[i]) : i \in measured}
    BY <1>13 DEF MetalEnd
  <2>1. PICK o \in [measured -> Outcomes] :
          results' = {Row(i, FALSE, Len(gates), o[i]) : i \in measured}
    BY <2>0
  <2>2. /\ gates' = gates /\ job' = IdleJob /\ sweep' = sweep
        /\ reader' = reader /\ job.pc = "measuring"
    BY <1>13 DEF MetalEnd
  <2>3. /\ \A i \in Ids : gates[Len(gates)].of[i] # "disqualified"
        /\ Len(gates) \in Nat \ {0} /\ measured \subseteq Ids
    BY <1>a, <2>2 DEF RowsInv, UngatedOK, TypeInv, Planned, Jobs
  <2> DEFINE R(i) == Row(i, FALSE, Len(gates), o[i])
  <2>4. \A i : R(i).id = i /\ R(i).refused = FALSE /\ R(i).seq = Len(gates)
    BY DEF Row
  <2>5. results' = {R(i) : i \in measured}
    BY <2>1
  <2> HIDE DEF R
  <2>6. RowsOK(results', gates')
    <3> SUFFICES ASSUME NEW i \in measured
                 PROVE  /\ R(i).seq \in 1..Len(gates)
                        /\ R(i).refused <=>
                             gates[R(i).seq].of[R(i).id] = "disqualified"
      BY <2>2, <2>5 DEF RowsOK
    <3> QED
      BY <2>3, <2>4
  <2>7. OneEach(results')
    <3> SUFFICES ASSUME NEW i \in measured, NEW k \in measured,
                        R(i).id = R(k).id
                 PROVE  R(i) = R(k)
      BY <2>5 DEF OneEach
    <3> QED
      BY <2>4
  <2> QED
    BY <1>2, <2>2, <2>6, <2>7 DEF RowsInv
<1>14. CASE SweepStart
  <2>1. /\ UNCHANGED <<results, reader, job, gates>>
        /\ sweep'.doc = IF results = NoDoc THEN {} ELSE results
    BY <1>14 DEF SweepStart
  <2>2. RowsOK(sweep'.doc, gates) /\ OneEach(sweep'.doc)
    BY <2>1 DEF RowsInv, RowsOK, OneEach
  <2> QED
    BY <1>3, <2>1, <2>2 DEF RowsInv
<1>15. ASSUME sweep.pc = "running", NEW c \in Remaining(sweep), Launch(c)
       PROVE  RowsInv'
  <2>1. /\ UNCHANGED <<gates, job, reader>>
        /\ \E o : \E f \in {c.refused, TRUE} :
             /\ f = c.refused
             /\ LET row == Row(c.id, f, sweep.plan.seq, o)
                IN  /\ results' = sweep.doc \cup {row}
                    /\ \/ sweep' = [sweep EXCEPT !.doc = @ \cup {row}]
                       \/ sweep' = IdleSweep
    <3>1. c \in sweep.plan.candidates /\ sweep.plan \in Plans
      BY <1>15 DEF Remaining, TypeInv, Planned
    <3>2. c.refused \in BOOLEAN
      BY <3>1 DEF Plans, Entries
    <3> QED
      BY <1>15, <3>2 DEF Launch
  <2>2. PICK row : /\ row.id = c.id /\ row.refused = c.refused
                   /\ row.seq = sweep.plan.seq
                   /\ results' = sweep.doc \cup {row}
                   /\ \/ sweep' = [sweep EXCEPT !.doc = @ \cup {row}]
                      \/ sweep' = IdleSweep
    BY <2>1 DEF Row
  <2>3. sweep'.doc \in {results', {}}
    BY <1>a, <2>2 DEF Sweeps
  <2>4. /\ c \in sweep.plan.candidates /\ PlanOK(sweep.plan, gates)
        /\ \A r \in sweep.doc : r.id # c.id
    BY <1>15 DEF Remaining, PlansInv, IdsOf
  <2>5. RowsOK(results', gates)
    BY <2>2, <2>4 DEF RowsInv, RowsOK, PlanOK, EntriesOK
  <2>6. OneEach(results')
    BY <2>2, <2>4 DEF RowsInv, OneEach
  <2>7. RowsOK({}, gates) /\ OneEach({})
    BY DEF RowsOK, OneEach
  <2>8. RowsOK(sweep'.doc, gates) /\ OneEach(sweep'.doc)
    BY <2>3, <2>5, <2>6, <2>7
  <2> QED
    BY <1>3, <2>1, <2>5, <2>6, <2>8 DEF RowsInv
<1>16. CASE SweepEnd
  <2>1. /\ UNCHANGED <<gates, job, reader>> /\ sweep'.doc = {}
        /\ results' = sweep.doc
    BY <1>16 DEF SweepEnd
  <2>2. RowsOK({}, gates) /\ OneEach({})
    BY DEF RowsOK, OneEach
  <2> QED
    BY <1>3, <2>1, <2>2 DEF RowsInv
<1>17. CASE ReadResults
  <2>1. /\ UNCHANGED <<gates, job, sweep, results>>
        /\ reader'.rows = IF results = NoDoc THEN {} ELSE results
    BY <1>a, <1>17 DEF ReadResults, Readers
  <2>2. RowsOK(reader'.rows, gates) /\ OneEach(reader'.rows)
    BY <2>1 DEF RowsInv, RowsOK, OneEach
  <2> QED
    BY <1>3, <2>1, <2>2 DEF RowsInv
<1>18. CASE ReadVerdicts \/ ReaderDone \/ ApplyRead \/ ApplyEmit \/ Edit
  <2>1. /\ UNCHANGED <<gates, job, sweep, results>>
        /\ reader'.rows \in {reader.rows, {}}
    <3>1. CASE ApplyRead
      BY <1>a, <3>1 DEF ApplyRead, Readers
    <3>2. CASE ReadVerdicts \/ ReaderDone \/ ApplyEmit \/ Edit
      BY <3>2 DEF ReadVerdicts, ReaderDone, ApplyEmit, Edit
    <3> QED
      BY <1>18, <3>1, <3>2
  <2> QED
    BY <1>4, <2>1
<1>19. ASSUME NEW verify \in BOOLEAN, Apply(verify) PROVE RowsInv'
  <2>1. /\ UNCHANGED <<gates, job, sweep, results>>
        /\ reader'.rows = reader.rows
    BY <1>a, <1>19 DEF Apply, Readers
  <2> QED
    BY <1>4, <2>1
<1>20. CASE Dies
  <2>1. /\ UNCHANGED <<gates, results, reader>>
        /\ job' = IdleJob \/ job' = job
        /\ sweep' = sweep \/ sweep' = IdleSweep
    BY <1>20 DEF Dies
  <2>2. UngatedOK'
    BY <1>2, <1>3, <2>1
  <2> QED
    BY <1>1, <2>1, <2>2, RowsUntouched
<1>21. CASE UNCHANGED vars
  BY <1>4, <1>21 DEF vars
<1> QED
  BY <1>5, <1>6, <1>8, <1>9, <1>10, <1>11, <1>12, <1>13, <1>14, <1>15, <1>16,
     <1>17, <1>18, <1>19, <1>20, <1>21 DEF Next, Writer, Runner, Reader

(* So it is in every state.                                                *)
LEMMA RowsAlways == Spec => [](TypeInv /\ RowsInv)
<1>1. Init => RowsInv
  BY DEF Init, RowsInv, RowsOK, OneEach, UngatedOK
<1>2. TypeInv /\ PlansInv /\ RowsInv /\ [Next]_vars => RowsInv'
  BY RowsStep
<1> QED
  BY <1>1, <1>2, PlansAlways, PTL DEF Spec

(* For every directory history: measurements joined with their own record  *)
(* make the report choose nothing that was refused and blame nothing that  *)
(* was not.                                                                *)
THEOREM JoinsAreSound == Spec => []JoinIsSound
<1>1. TypeInv /\ RowsInv => JoinIsSound
  <2> SUFFICES ASSUME TypeInv, RowsInv, reader.pc = "built" PROVE JoinIsSound
    BY DEF JoinIsSound
  <2> DEFINE own == {r \in reader.rows : r.seq = reader.gate}
             rows == reader.rows
  <2>1. RowsOK(rows, gates) /\ rows \in SUBSET Rows
    BY DEF RowsInv, TypeInv, TypeOK, Readers
  <2>2. \A r \in own \cap Chosen(GateRead, rows) : ~r.refused
    <3> SUFFICES ASSUME NEW r \in own, r \in Chosen(GateRead, rows)
                 PROVE  ~r.refused
      OBVIOUS
    <3>1. GateRead.of[r.id] \in {"clean", "ungated"}
      BY <2>1, ChosenIsEligible DEF Eligible, Admitted
    <3> QED
      BY <2>1, <3>1 DEF RowsOK, GateRead
  <2>3. \A r \in own \cap RejectedFaster(GateRead, rows) : r.refused
    BY <2>1 DEF RejectedFaster, Refused, RowsOK, GateRead
  <2>4. ASSUME own = rows, ReportExit(GateRead, rows) = 1
        PROVE  \E r \in rows : r.refused /\ r.status = "ok"
    <3>1. RejectedFaster(GateRead, rows) # {}
      BY <2>4 DEF ReportExit
    <3>2. PICK r \in rows : r \in RejectedFaster(GateRead, rows)
      BY <3>1 DEF RejectedFaster, Timed
    <3>3. r.status = "ok" /\ r \in own
      BY <2>4, <3>2 DEF RejectedFaster, Timed
    <3> QED
      BY <2>3, <3>2, <3>3
  <2> QED
    BY <2>2, <2>3, <2>4 DEF JoinIsSound
<1> QED
  BY <1>1, RowsAlways, PTL

(* An admitted candidate that is neither chosen nor indistinguishable is   *)
(* measurably slower, for any number of candidates and any timings.        *)
THEOREM AdmittedRanked == Spec => []AdmittedAreRanked
<1>1. TypeInv /\ RowsInv => AdmittedAreRanked
  <2> SUFFICES ASSUME TypeInv, RowsInv, reader.pc = "built",
                      NEW r \in Eligible(GateRead, reader.rows),
                      r \notin Chosen(GateRead, reader.rows),
                      r \notin Indistinguishable(GateRead, reader.rows),
                      NEW c \in Chosen(GateRead, reader.rows)
               PROVE  c.summary.hi < r.summary.lo
    BY DEF AdmittedAreRanked
  <2> DEFINE E == Eligible(GateRead, reader.rows)
  <2>1. reader.rows \in SUBSET Rows /\ OneEach(reader.rows)
    BY DEF RowsInv, TypeInv, TypeOK, Readers
  <2>2. c = Fastest(E) /\ E # {}
    BY DEF Chosen
  <2>3. c \in E /\ c.summary.med <= r.summary.med
    BY <2>1, <2>2, FastestIsOne
  <2>4. r \in reader.rows /\ c \in reader.rows
    BY <2>3 DEF Eligible, Timed
  <2>5. r.id # c.id
    BY <2>1, <2>4 DEF OneEach
  <2>6. ~Overlap(r.summary, c.summary)
    BY <2>5 DEF Indistinguishable
  <2>7. r.summary \in Summaries /\ c.summary \in Summaries
    BY <2>1, <2>3 DEF Eligible, Timed, Rows
  <2>8. /\ r.summary.lo \in Nat /\ r.summary.med \in Nat
        /\ r.summary.hi \in Nat /\ r.summary.med <= r.summary.hi
        /\ c.summary.lo \in Nat /\ c.summary.med \in Nat
        /\ c.summary.hi \in Nat /\ c.summary.lo <= c.summary.med
    BY <2>7
  <2> QED
    BY <2>3, <2>6, <2>8 DEF Overlap
<1> QED
  BY <1>1, RowsAlways, PTL
-----------------------------------------------------------------------------
(* Nothing beside the verdicts is of a later record than theirs, and what  *)
(* a sweep carries is of a record not later than what lies on disk.        *)
UpTo(k) ==
  /\ Readable(plan) => plan.seq <= k
  /\ results # NoDoc => \A r \in results : r.seq <= k
  /\ sweep.pc = "running" => sweep.plan.seq <= k
  /\ \A r \in sweep.doc : r.seq <= k

Behind == {"compiling", "copying", "planning", "measuring"}

OrderInv ==
  /\ Readable(verdicts) => UpTo(verdicts)
  /\ job.pc \in Behind => verdicts = Len(gates)

(* A record that has been made is not later than the last one.             *)
LEMMA AllMade == TypeInv /\ PlansInv /\ RowsInv => UpTo(Len(gates))
<1> SUFFICES ASSUME TypeInv, PlansInv, RowsInv PROVE UpTo(Len(gates))
  OBVIOUS
<1>1. Readable(plan) => plan.seq <= Len(gates)
  BY DEF PlansInv, PlanOK
<1>2. results # NoDoc => \A r \in results : r.seq <= Len(gates)
  BY DEF RowsInv, RowsOK
<1>3. sweep.pc = "running" => sweep.plan.seq <= Len(gates)
  BY DEF PlansInv, PlanOK
<1>4. \A r \in sweep.doc : r.seq <= Len(gates)
  BY DEF RowsInv, RowsOK
<1> QED
  BY <1>1, <1>2, <1>3, <1>4 DEF UpTo

(* No step writes a document ahead of the record it belongs to.            *)
LEMMA OrderStep ==
  TypeInv /\ PlansInv /\ RowsInv /\ OrderInv /\ [Next]_vars => OrderInv'
<1> SUFFICES ASSUME TypeInv, PlansInv, RowsInv, OrderInv, [Next]_vars
             PROVE  OrderInv'
  OBVIOUS
<1>a. /\ job \in Jobs /\ sweep \in Sweeps /\ Len(gates) \in Nat
      /\ Torn \notin Nat
  BY DEF TypeInv, TypeOK
<1>1. ASSUME job'.pc \notin Behind \/ (job' = job /\ gates' = gates),
             verdicts' = verdicts \/ verdicts' = Torn,
             UNCHANGED <<plan, results, sweep>>,
             job' = job => verdicts' = verdicts
      PROVE  OrderInv'
  BY <1>1 DEF OrderInv, UpTo
<1>2. ASSUME NEW allow \in BOOLEAN, Stage(allow) PROVE OrderInv'
  <2>1. job'.pc = "staging" /\ job.pc = "idle" /\ verdicts' = Torn
        /\ UNCHANGED <<plan, results, sweep>>
    BY <1>2 DEF Stage
  <2> QED
    BY <1>1, <2>1 DEF Behind
<1>3. CASE Metal
  <2>1. job'.pc = "metal" /\ job.pc = "idle" /\ verdicts' = Torn
        /\ UNCHANGED <<plan, results, sweep>>
    BY <1>3 DEF Metal
  <2> QED
    BY <1>1, <2>1 DEF Behind
<1>4. CASE StageVerdicts \/ MetalVerdicts
  <2>1. /\ verdicts' = Len(gates)
        /\ UNCHANGED <<gates, plan, results, sweep>>
    BY <1>4 DEF StageVerdicts, MetalVerdicts
  <2>2. UpTo(Len(gates))
    BY AllMade
  <2>3. UpTo(verdicts)'
    BY <2>1, <2>2 DEF UpTo
  <2> QED
    BY <2>1, <2>3 DEF OrderInv
<1>5. ASSUME job.pc \in Behind, UNCHANGED <<gates, verdicts, plan, results>>,
             UNCHANGED sweep
      PROVE  OrderInv'
  BY <1>5 DEF OrderInv, UpTo
<1>6. ASSUME NEW i \in job.todo, Compile(i) PROVE OrderInv'
  <2>1. /\ job.pc \in Behind
        /\ UNCHANGED <<gates, verdicts, plan, results, sweep>>
    BY <1>6 DEF Compile, Behind
  <2> QED
    BY <1>5, <2>1
<1>7. CASE CopyDone \/ CopyFails \/ CompileFails \/ MetalFails
  <2>1. /\ job.pc \in Behind
        /\ UNCHANGED <<gates, verdicts, plan, results, sweep>>
    BY <1>7 DEF CopyDone, CopyFails, CompileFails, MetalFails, Behind
  <2> QED
    BY <1>5, <2>1
<1>8. CASE OpenPlan
  <2>1. /\ job.pc \in Behind /\ plan' = Torn
        /\ UNCHANGED <<gates, verdicts, results, sweep>>
    BY <1>8 DEF OpenPlan, Behind
  <2> QED
    BY <2>1 DEF OrderInv, UpTo
<1>9. CASE StagePlan
  <2>1. /\ job.pc \in Behind /\ plan'.seq = Len(gates) /\ job' = IdleJob
        /\ UNCHANGED <<gates, verdicts, results, sweep>>
    BY <1>9 DEF StagePlan, Behind
  <2>2. verdicts = Len(gates)
    BY <2>1 DEF OrderInv
  <2> QED
    BY <1>a, <2>1, <2>2 DEF OrderInv, UpTo, Behind
<1>10. CASE MetalEnd
  <2>1. /\ job.pc \in Behind /\ job' = IdleJob
        /\ UNCHANGED <<gates, verdicts, plan, sweep>>
        /\ \E measured \in SUBSET job.todo : \E o \in [measured -> Outcomes] :
             results' = {Row(i, FALSE, Len(gates), o[i]) : i \in measured}
    BY <1>10 DEF MetalEnd, Behind
  <2>2. \A r \in results' : r.seq = Len(gates)
    BY <2>1 DEF Row
  <2>2a. plan' = plan /\ sweep' = sweep /\ verdicts' = verdicts
    BY <2>1
  <2>3. verdicts = Len(gates)
    BY <2>1 DEF OrderInv
  <2>4. UpTo(verdicts)
    BY <2>3, AllMade
  <2>5. UpTo(verdicts)'
    BY <1>a, <2>2, <2>2a, <2>3, <2>4 DEF UpTo
  <2>6. job'.pc \notin Behind
    BY <2>1 DEF Behind
  <2> QED
    BY <2>5, <2>6 DEF OrderInv
<1>11. CASE SweepStart
  <2>1. /\ Readable(plan) /\ sweep'.plan = plan
        /\ sweep'.doc = (IF results = NoDoc THEN {} ELSE results)
        /\ UNCHANGED <<gates, verdicts, plan, results, job>>
    BY <1>11 DEF SweepStart
  <2> QED
    BY <2>1 DEF OrderInv, UpTo
<1>12. ASSUME sweep.pc = "running", NEW c \in Remaining(sweep), Launch(c)
       PROVE  OrderInv'
  <2>1. /\ UNCHANGED <<gates, verdicts, plan, job>>
        /\ \E row : /\ row.seq = sweep.plan.seq
                    /\ results' = sweep.doc \cup {row}
                    /\ \/ sweep' = [sweep EXCEPT !.doc = @ \cup {row}]
                       \/ sweep' = IdleSweep
    BY <1>12 DEF Launch, Row
  <2>2. /\ sweep'.doc \in {results', {}}
        /\ sweep'.pc = "running" => sweep'.plan = sweep.plan
    BY <1>a, <2>1 DEF Sweeps
  <2>3. \A r \in results' : r \in sweep.doc \/ r.seq = sweep.plan.seq
    BY <2>1
  <2> QED
    BY <1>12, <2>1, <2>2, <2>3 DEF OrderInv, UpTo
<1>13. CASE SweepEnd
  <2>1. /\ UNCHANGED <<gates, verdicts, plan, job>> /\ sweep' = IdleSweep
        /\ results' = sweep.doc
    BY <1>13 DEF SweepEnd
  <2> QED
    BY <2>1 DEF OrderInv, UpTo
<1>14. ASSUME UNCHANGED <<gates, verdicts, plan, results, job, sweep>>
       PROVE  OrderInv'
  BY <1>14 DEF OrderInv, UpTo
<1>15. CASE \/ ReadVerdicts \/ ReadResults \/ ReaderDone \/ ApplyRead
            \/ ApplyEmit \/ Edit
            \/ \E verify \in BOOLEAN : Apply(verify)
            \/ UNCHANGED vars
  BY <1>14, <1>15
     DEF ReadVerdicts, ReadResults, ReaderDone, Apply, ApplyRead, ApplyEmit,
         Edit, vars
<1>16. CASE Dies
  <2>1. /\ UNCHANGED <<gates, verdicts, plan, results>>
        /\ job' = IdleJob \/ job' = job
        /\ sweep' = sweep \/ sweep' = IdleSweep
    BY <1>16 DEF Dies
  <2> QED
    BY <2>1 DEF OrderInv, UpTo, Behind
<1> QED
  BY <1>2, <1>3, <1>4, <1>6, <1>7, <1>8, <1>9, <1>10, <1>11, <1>12, <1>13,
     <1>15, <1>16 DEF Next, Writer, Runner, Reader

(* For any number of commands, edits and deaths, nothing in the directory  *)
(* is newer than verdicts that can be read.                                *)
THEOREM VerdictsAreFirst == Spec => []VerdictsFirst
<1>1. Init => OrderInv
  BY DEF Init, OrderInv, Behind
<1>2. TypeInv /\ PlansInv /\ RowsInv /\ OrderInv /\ [Next]_vars => OrderInv'
  BY OrderStep
<1>3. OrderInv => VerdictsFirst
  BY DEF OrderInv, UpTo, VerdictsFirst
<1> QED
  BY <1>1, <1>2, <1>3, PlansAlways, RowsAlways, PTL DEF Spec

-----------------------------------------------------------------------------
(* The artifacts of a set of entries are in the directory.                 *)
Shipped(S, held, name, cut) ==
  \A c \in S :
    /\ name[<<c.id, c.built>>] \in Names
    /\ held[name[<<c.id, c.built>>]] \in IF cut = 0 THEN {"whole"}
                                                   ELSE {"torn", "whole"}

Naming == NameOf[verdictAt]

ShipInv ==
  /\ Readable(plan) => Shipped(plan.candidates, ptx, Naming, faults)
  /\ Shipped(job.cands, ptx, Naming, faults)
  /\ job.pc = "copying" => ptx[Naming[job.copy]] = "no entry"
  /\ faults = 0 =>
       \A n \in Names :
         \/ ptx[n] \in {"absent", "whole"}
         \/ job.pc = "copying" /\ Naming[job.copy] = n

(* Artifacts that change only from no artifact or an unfinished copy leave *)
(* what is shipped as it is, and a cut copy only widens what may be found. *)
LEMMA ShippedKept ==
  ASSUME NEW S, NEW p, NEW q, NEW j, NEW k, NEW name,
         Shipped(S, p, name, j), j # 0 => k # 0,
         \A n \in Names :
           q[n] = p[n] \/ p[n] \in {"absent", "no entry"}
  PROVE  Shipped(S, q, name, k)
<1> SUFFICES ASSUME NEW c \in S
             PROVE  /\ name[<<c.id, c.built>>] \in Names
                    /\ q[name[<<c.id, c.built>>]] \in
                         IF k = 0 THEN {"whole"} ELSE {"torn", "whole"}
  BY DEF Shipped
<1> DEFINE n == name[<<c.id, c.built>>]
<1>1. /\ n \in Names
      /\ p[n] \in IF j = 0 THEN {"whole"} ELSE {"torn", "whole"}
  BY DEF Shipped
<1> HIDE DEF n
<1>2. q[n] = p[n]
  BY <1>1
<1>3. q[n] \in IF k = 0 THEN {"whole"} ELSE {"torn", "whole"}
  <2>1. CASE j = 0
    <3>1. q[n] = "whole"
      BY <1>1, <1>2, <2>1
    <3> QED
      BY <3>1
  <2>2. CASE j # 0
    <3>1. k # 0
      BY <2>2
    <3>2. q[n] \in {"torn", "whole"}
      BY <1>1, <1>2, <2>2
    <3> QED
      BY <3>1, <3>2
  <2> QED
    BY <2>1, <2>2
<1> QED
  BY <1>1, <1>3, Zenon DEF n

(* No step changes what the gate would answer.                             *)
LEMMA TruthStays == [Next]_vars => verdictAt' = verdictAt
BY DEF Next, Writer, Runner, Reader, vars, Stage, StageVerdicts, Compile,
       CopyDone, CopyFails, CompileFails, OpenPlan, StagePlan, Metal,
       MetalVerdicts, MetalEnd, MetalFails, SweepStart, Launch, SweepEnd,
       ReadVerdicts, ReadResults, ReaderDone, Apply, ApplyRead, ApplyEmit,
       Edit, Dies

(* An entry stays in the plan with its file, and whole unless a process    *)
(* died or a copy failed.                                                  *)
LEMMA ShipStep == TypeInv /\ ShipInv /\ [Next]_vars => ShipInv'
<1> SUFFICES ASSUME TypeInv, ShipInv, [Next]_vars PROVE ShipInv'
  OBVIOUS
<1>a. /\ job \in Jobs /\ ptx \in [Names -> Artifacts]
      /\ faults \in Nat /\ version \in Versions
      /\ job.pc = "copying" => job.copy \in Ids \X Versions
      /\ IdleJob.pc = "idle" /\ IdleJob.cands = {}
  BY DEF TypeInv, TypeOK, Planned
<1>b. Naming' = Naming /\ Naming \in [Ids \X Versions -> Names]
  BY TruthStays DEF Naming, TypeInv, TypeOK
<1>c. \A i, v : File(i, v) = Naming[<<i, v>>]
  BY DEF File, Naming
<1>d. ASSUME job.pc = "copying", NEW how
      PROVE  Copied(how) = [ptx EXCEPT ![Naming[job.copy]] = how]
  <2>1. job.copy = <<job.copy[1], job.copy[2]>>
    BY <1>a, <1>d
  <2>2. File(job.copy[1], job.copy[2]) = Naming[job.copy]
    BY <1>c, <2>1, Zenon
  <2> QED
    BY <2>2 DEF Copied
<1> HIDE DEF Naming
<1>1. ASSUME UNCHANGED <<plan, ptx, faults>>, job'.cands \in {{}, job.cands},
             job.pc # "copying", job'.pc # "copying"
      PROVE  ShipInv'
  BY <1>1, <1>b DEF ShipInv, Shipped
<1>2. ASSUME NEW allow \in BOOLEAN, Stage(allow) PROVE ShipInv'
  <2>1. /\ job'.cands = {} /\ job.pc = "idle" /\ job'.pc = "staging"
        /\ UNCHANGED <<plan, ptx, faults>>
    BY <1>2 DEF Stage
  <2> QED
    BY <1>1, <2>1
<1>3. CASE Metal
  <2>1. /\ job'.cands = {} /\ job.pc = "idle" /\ job'.pc = "metal"
        /\ UNCHANGED <<plan, ptx, faults>>
    BY <1>3 DEF Metal
  <2> QED
    BY <1>1, <2>1
<1>4. CASE StageVerdicts \/ MetalVerdicts
  <2>1. /\ job'.cands = job.cands /\ job.pc \in {"staging", "metal"}
        /\ job'.pc \in {"compiling", "measuring"}
        /\ UNCHANGED <<plan, ptx, faults>>
    BY <1>a, <1>4 DEF StageVerdicts, MetalVerdicts, Jobs
  <2> QED
    BY <1>1, <2>1
<1>5. ASSUME NEW i \in Ids, NEW v \in Versions, Accepts(i, v),
             ptx'[Naming[<<i, v>>]] \in IF faults = 0 THEN {"whole"}
                                                      ELSE {"torn", "whole"},
             Shipped(job.cands, ptx', Naming, faults)
      PROVE  Shipped(job'.cands, ptx', Naming, faults) /\ job'.pc = "compiling"
  <2>1. job'.cands = job.cands \cup {Entry(i, v)} /\ job'.pc = "compiling"
    BY <1>a, <1>5 DEF Accepts, Jobs
  <2>2. Entry(i, v).id = i /\ Entry(i, v).built = v
    BY DEF Entry
  <2>3. \A c \in job'.cands : c \in job.cands \/ (c.id = i /\ c.built = v)
    BY <2>1, <2>2
  <2>4. Naming[<<i, v>>] \in Names
    BY <1>b
  <2>5. ASSUME NEW c \in job'.cands
        PROVE  /\ Naming[<<c.id, c.built>>] \in Names
               /\ ptx'[Naming[<<c.id, c.built>>]] \in
                     IF faults = 0 THEN {"whole"} ELSE {"torn", "whole"}
    <3>1. CASE c \in job.cands
      BY <1>5, <3>1 DEF Shipped
    <3>2. CASE c.id = i /\ c.built = v
      BY <1>5, <2>4, <3>2
    <3> QED
      BY <2>3, <3>1, <3>2
  <2> QED
    BY <2>1, <2>5 DEF Shipped
<1>5a. ASSUME NEW q, NEW k, faults # 0 => k # 0,
              \A n \in Names :
                q[n] = ptx[n] \/ ptx[n] \in {"absent", "no entry"}
       PROVE  /\ Readable(plan) => Shipped(plan.candidates, q, Naming, k)
              /\ Shipped(job.cands, q, Naming, k)
  BY <1>5a, ShippedKept DEF ShipInv
<1>6. ASSUME NEW i \in job.todo, Compile(i) PROVE ShipInv'
  <2> DEFINE f == Naming[<<i, version>>]
  <2>1. /\ i \in Ids /\ job.pc = "compiling" /\ plan' = plan
        /\ faults' = faults /\ f \in Names
    BY <1>a, <1>b, <1>6 DEF Compile, Jobs
  <2>2. CASE /\ ptx[f] = "absent"
             /\ ptx' = [ptx EXCEPT ![f] = "no entry"]
             /\ job' = [job EXCEPT !.pc = "copying", !.copy = <<i, version>>]
    <3> HIDE DEF f
    <3>1. /\ ptx'[f] = "no entry"
          /\ \A n \in Names : n # f => ptx'[n] = ptx[n]
      BY <1>a, <2>1, <2>2
    <3>2. /\ job'.pc = "copying" /\ job'.copy = <<i, version>>
          /\ job'.cands = job.cands
      BY <1>a, <2>2 DEF Jobs
    <3>3. /\ Readable(plan) => Shipped(plan.candidates, ptx', Naming, faults)
          /\ Shipped(job.cands, ptx', Naming, faults)
      BY <1>5a, <2>2, <3>1
    <3>4. faults = 0 => \A n \in Names :
                          ptx'[n] \in {"absent", "whole"} \/ n = f
      BY <2>1, <3>1 DEF ShipInv
    <3>5. Naming'[job'.copy] = f
      BY <1>b, <3>2 DEF f
    <3> QED
      BY <1>b, <2>1, <3>1, <3>2, <3>3, <3>4, <3>5 DEF ShipInv
  <2>3. CASE job' = IdleJob /\ ptx' = ptx
    BY <1>1, <1>a, <2>1, <2>3
  <2>4. CASE ptx[f] \in {"torn", "whole"} /\ Accepts(i, version) /\ ptx' = ptx
    <3>1. ptx'[f] \in IF faults = 0 THEN {"whole"} ELSE {"torn", "whole"}
      BY <2>1, <2>4 DEF ShipInv
    <3>2. Shipped(job.cands, ptx', Naming, faults)
      BY <2>4 DEF ShipInv
    <3>3. Shipped(job'.cands, ptx', Naming, faults) /\ job'.pc = "compiling"
      BY <1>5, <1>a, <2>1, <2>4, <3>1, <3>2
    <3> QED
      BY <1>b, <2>1, <2>4, <3>3 DEF ShipInv
  <2> QED
    BY <1>6, <1>c, <2>2, <2>3, <2>4 DEF Compile
<1>7. CASE CopyDone
  <2> DEFINE i == job.copy[1]
             v == job.copy[2]
             f == Naming[job.copy]
  <2>1. /\ job.pc = "copying" /\ plan' = plan /\ faults' = faults
        /\ ptx' = [ptx EXCEPT ![f] = "whole"]
        /\ Accepts(i, v) \/ job' = IdleJob
        /\ i \in Ids /\ v \in Versions /\ job.copy = <<i, v>>
    BY <1>a, <1>d, <1>7 DEF CopyDone
  <2>1a. f \in Names /\ Naming[job.copy] = f /\ Naming[<<i, v>>] = f
    BY <1>b, <2>1
  <2> HIDE DEF i, v, f
  <2>2. /\ ptx'[f] = "whole" /\ ptx[f] = "no entry"
        /\ \A n \in Names : n # f => ptx'[n] = ptx[n]
    BY <1>a, <2>1, <2>1a DEF ShipInv
  <2>3. /\ Readable(plan) => Shipped(plan.candidates, ptx', Naming, faults)
        /\ Shipped(job.cands, ptx', Naming, faults)
    BY <1>5a, <2>2
  <2>4. ptx'[f] \in IF faults = 0 THEN {"whole"} ELSE {"torn", "whole"}
    BY <2>2
  <2>5. Shipped(job'.cands, ptx', Naming, faults) /\ job'.pc # "copying"
    <3>1. CASE Accepts(i, v)
      BY <1>5, <2>1, <2>1a, <2>3, <2>4, <3>1
    <3>2. CASE job' = IdleJob
      BY <1>a, <3>2 DEF Shipped
    <3> QED
      BY <2>1, <3>1, <3>2
  <2>6. faults = 0 => \A n \in Names : ptx'[n] \in {"absent", "whole"}
    BY <2>1, <2>1a, <2>2 DEF ShipInv
  <2> QED
    BY <1>b, <2>1, <2>3, <2>5, <2>6 DEF ShipInv
<1>8. CASE CompileFails \/ MetalFails \/ MetalEnd
  <2>1. /\ job' = IdleJob /\ job.pc \in {"compiling", "measuring"}
        /\ UNCHANGED <<plan, ptx, faults>>
    BY <1>8 DEF CompileFails, MetalFails, MetalEnd
  <2> QED
    BY <1>1, <1>a, <2>1
<1>9. CASE OpenPlan
  <2>1. /\ job.pc = "compiling" /\ job'.pc = "planning" /\ plan' = Torn
        /\ job'.cands = job.cands /\ UNCHANGED <<ptx, faults>>
    BY <1>a, <1>9 DEF OpenPlan, Jobs
  <2> QED
    BY <1>b, <2>1 DEF ShipInv
<1>10. CASE StagePlan
  <2>1. /\ job.pc = "planning" /\ job' = IdleJob
        /\ plan'.candidates = job.cands /\ UNCHANGED <<ptx, faults>>
    BY <1>10 DEF StagePlan
  <2> QED
    BY <1>a, <1>b, <2>1 DEF ShipInv, Shipped
<1>11. ASSUME UNCHANGED <<plan, ptx, faults, job>> PROVE ShipInv'
  BY <1>b, <1>11 DEF ShipInv
<1>12. ASSUME sweep.pc = "running", NEW c \in Remaining(sweep), Launch(c)
       PROVE  ShipInv'
  BY <1>11, <1>12 DEF Launch
<1>13. CASE \/ SweepStart \/ SweepEnd \/ ReadVerdicts \/ ReadResults
            \/ ReaderDone \/ ApplyRead \/ ApplyEmit \/ Edit
            \/ \E verify \in BOOLEAN : Apply(verify)
            \/ UNCHANGED vars
  BY <1>11, <1>13 DEF SweepStart, SweepEnd, ReadVerdicts, ReadResults,
                      ReaderDone, Apply, ApplyRead, ApplyEmit, Edit, vars
<1>14. CASE CopyFails \/ Dies
  <2>1. /\ faults' = faults + 1 /\ plan' = plan
        /\ job' = IdleJob \/ (job' = job /\ ptx' = ptx)
        /\ ptx' \in CutCopies
    BY <1>14 DEF CopyFails, Dies, CutCopies
  <2>2. \A n \in Names : ptx'[n] = ptx[n] \/ ptx[n] = "no entry"
    <3>1. CASE ptx' = ptx
      BY <3>1
    <3>2. CASE job.pc = "copying" /\ ptx' = Copied("torn")
      <4> DEFINE f == Naming[job.copy]
      <4>1. ptx' = [ptx EXCEPT ![f] = "torn"] /\ f \in Names
        BY <1>a, <1>b, <1>d, <3>2
      <4>2. ptx[f] = "no entry"
        BY <3>2 DEF ShipInv
      <4> HIDE DEF f
      <4> QED
        BY <1>a, <4>1, <4>2
    <3> QED
      BY <2>1, <3>1, <3>2 DEF CutCopies
  <2>3. faults' # 0
    BY <1>a, <2>1
  <2>4. /\ Readable(plan) => Shipped(plan.candidates, ptx', Naming, faults')
        /\ Shipped(job.cands, ptx', Naming, faults')
    BY <1>5a, <2>2, <2>3
  <2>5. Shipped(job'.cands, ptx', Naming, faults')
    BY <1>a, <2>1, <2>4 DEF Shipped
  <2>6. job'.pc = "copying" => ptx'[Naming[job'.copy]] = "no entry"
    BY <1>a, <2>1 DEF ShipInv
  <2> QED
    BY <1>b, <2>1, <2>3, <2>4, <2>5, <2>6 DEF ShipInv
<1> QED
  BY <1>2, <1>3, <1>4, <1>6, <1>7, <1>8, <1>9, <1>10, <1>12, <1>13, <1>14
     DEF Next, Writer, Runner, Reader

(* Every entry of a readable plan has its artifact, whole unless something *)
(* died or a copy failed, for any number of commands, edits and candidates *)
(* and however the artifacts are named.                                    *)
THEOREM ArtifactsAreShipped == Spec => []ArtifactsShipped
<1>1. Init => ShipInv
  BY DEF Init, ShipInv, Shipped
<1>2. TypeInv /\ ShipInv /\ [Next]_vars => ShipInv'
  BY ShipStep
<1>3. ShipInv => ArtifactsShipped
  BY DEF ShipInv, Shipped, ArtifactsShipped, File, Naming
<1> QED
  BY <1>1, <1>2, <1>3, PlansAlways, PTL DEF Spec

-----------------------------------------------------------------------------
(* What apply has in hand while it waits for its verification, and what it *)
(* has printed.                                                            *)
Applying == {"rendering", "verifying"}

Rendering ==
  reader.pc \in Applying =>
    /\ reader.verify => GateRead.gate = "full"
    /\ ~reader.disturbed =>
         \A c \in Chosen(GateRead, reader.rows) :
           c.id = IF reader.pc = "rendering" THEN params ELSE reader.read

EmitInv == Rendering /\ AppliedIsChosen

(* What is printed stays what was verified.                                *)
LEMMA EmitStep == TypeInv /\ EmitInv /\ [Next]_vars => EmitInv'
<1> SUFFICES ASSUME TypeInv, EmitInv, [Next]_vars PROVE EmitInv'
  OBVIOUS
<1>a. reader \in Readers /\ gates \in Seq(Gates)
  BY DEF TypeInv, TypeOK
<1>b. reader.pc # "idle" => GateRead \in Gates
  BY DEF TypeInv, TypeOK, Planned, GateRead
<1>1. verdictAt' = verdictAt
  BY TruthStays
<1>2. ASSUME emitted' = emitted PROVE AppliedIsChosen'
  BY <1>1, <1>2 DEF EmitInv, AppliedIsChosen
<1>3. ASSUME reader'.pc \notin Applying, emitted' = emitted PROVE EmitInv'
  BY <1>2, <1>3 DEF EmitInv, Rendering
<1>4. ASSUME reader' = reader, params' = params, emitted' = emitted
      PROVE  EmitInv'
  <2>1. CASE reader.pc \in Applying
    <3>1. reader.gate \in 1..Len(gates) /\ Grows
      BY <2>1, GatesGrow DEF TypeInv, Planned, Applying
    <3>2. GateRead' = GateRead
      BY <1>4, <3>1 DEF Grows, GateRead
    <3>3. Rendering'
      BY <1>4, <3>2 DEF EmitInv, Rendering
    <3> QED
      BY <1>2, <1>4, <3>3 DEF EmitInv
  <2>2. CASE reader.pc \notin Applying
    BY <1>3, <1>4, <2>2
  <2> QED
    BY <2>1, <2>2
<1>5. ASSUME NEW i \in job.todo, Compile(i) PROVE EmitInv'
  <2>1. emitted' = emitted /\ gates' = gates
    BY <1>5 DEF Compile
  <2>2. CASE reader.pc = "rendering"
    <3>1. reader' = [reader EXCEPT !.disturbed = TRUE]
      BY <1>5, <2>2 DEF Compile, WritesParams
    <3>2. /\ reader'.disturbed /\ reader'.verify = reader.verify
          /\ reader'.gate = reader.gate
      BY <1>a, <3>1 DEF Readers
    <3>3. Rendering'
      BY <2>1, <2>2, <3>2 DEF EmitInv, Rendering, Applying, GateRead
    <3> QED
      BY <1>2, <2>1, <3>3 DEF EmitInv
  <2>3. CASE reader.pc # "rendering"
    BY <1>4, <1>5, <2>3 DEF Compile, WritesParams
  <2> QED
    BY <2>2, <2>3
<1>6. ASSUME NEW verify \in BOOLEAN, Apply(verify) PROVE EmitInv'
  <2>1. /\ emitted' = emitted /\ gates' = gates /\ reader.pc = "built"
        /\ reader' = [reader EXCEPT !.pc = "rendering", !.verify = verify]
    BY <1>6 DEF Apply
  <2>2. PICK c \in Chosen(GateRead, reader.rows) :
          /\ verify => GateRead.gate # "none"
          /\ params' = c.id
    BY <1>6 DEF Apply
  <2>3. \A d \in Chosen(GateRead, reader.rows) : d = c
    BY DEF Chosen
  <2>4. /\ reader'.gate = reader.gate /\ reader'.rows = reader.rows
        /\ reader'.verify = verify
    BY <1>a, <2>1 DEF Readers
  <2>5. GateRead.gate \in {"full", "none"}
    BY <1>b, <2>1 DEF Gates
  <2>6. GateRead' = GateRead
    BY <2>1, <2>4 DEF GateRead
  <2>7. Rendering'
    BY <2>1, <2>2, <2>3, <2>4, <2>5, <2>6 DEF Rendering, Applying
  <2> QED
    BY <1>2, <2>1, <2>7 DEF EmitInv
<1>6a. CASE ApplyRead
  <2>1. /\ emitted' = emitted /\ gates' = gates /\ reader.pc = "rendering"
        /\ reader' = [reader EXCEPT !.pc = "verifying", !.read = params]
    BY <1>6a DEF ApplyRead
  <2>2. /\ reader'.gate = reader.gate /\ reader'.rows = reader.rows
        /\ reader'.verify = reader.verify /\ reader'.read = params
        /\ reader'.disturbed = reader.disturbed /\ reader'.pc = "verifying"
    BY <1>a, <2>1 DEF Readers
  <2>3. GateRead' = GateRead
    BY <2>1, <2>2 DEF GateRead
  <2>4. Rendering'
    BY <2>1, <2>2, <2>3 DEF EmitInv, Rendering, Applying
  <2> QED
    BY <1>2, <2>1, <2>4 DEF EmitInv
<1>7. CASE ApplyEmit
  <2>1. reader.pc = "verifying" /\ reader'.pc = "idle"
    BY <1>7 DEF ApplyEmit
  <2>2. CASE emitted' = emitted
    BY <1>3, <2>1, <2>2 DEF Applying
  <2>3. CASE Emits /\ (reader.verify =>
               \E c \in Chosen(GateRead, reader.rows) :
                 "clean" \in Answers(c.id))
    <3>1. PICK c \in Chosen(GateRead, reader.rows) :
            emitted' = [id |-> c.id, params |-> reader.read,
                        verified |-> reader.verify,
                        gate |-> GateRead.gate, version |-> version,
                        disturbed |-> reader.disturbed]
      BY <2>3 DEF Emits
    <3>2. \A d \in Chosen(GateRead, reader.rows) : d = c
      BY DEF Chosen
    <3>3. reader.verify => verdictAt[version][c.id] \in {"clean", "absent"}
      BY <2>3, <3>2 DEF Answers
    <3>4. /\ reader.verify => GateRead.gate = "full"
          /\ ~reader.disturbed => reader.read = c.id
      BY <2>1, <3>1 DEF EmitInv, Rendering, Applying
    <3>5. AppliedIsChosen'
      BY <1>1, <3>1, <3>3, <3>4 DEF AppliedIsChosen
    <3> QED
      BY <2>1, <3>5 DEF EmitInv, Rendering, Applying
  <2> QED
    BY <1>7, <2>2, <2>3 DEF ApplyEmit
<1>8. CASE ReadVerdicts \/ ReadResults \/ ReaderDone
  <2>1. emitted' = emitted
    BY <1>8 DEF ReadVerdicts, ReadResults, ReaderDone
  <2>2. CASE ReadVerdicts \/ ReaderDone
    <3>1. reader'.pc \in {"idle", "results"}
      BY <2>2 DEF ReadVerdicts, ReaderDone
    <3> QED
      BY <1>3, <2>1, <3>1 DEF Applying
  <2>3. CASE ReadResults
    <3>1. reader'.pc = "built"
      BY <1>a, <2>3 DEF ReadResults, Readers
    <3> QED
      BY <1>3, <2>1, <3>1 DEF Applying
  <2> QED
    BY <1>8, <2>2, <2>3
<1>9. ASSUME sweep.pc = "running", NEW c \in Remaining(sweep), Launch(c)
      PROVE  EmitInv'
  BY <1>4, <1>9 DEF Launch
<1>10. CASE \/ \E allow \in BOOLEAN : Stage(allow)
            \/ StageVerdicts \/ CopyDone \/ CopyFails \/ CompileFails
            \/ OpenPlan \/ StagePlan \/ Metal \/ MetalVerdicts
            \/ MetalEnd \/ MetalFails \/ SweepStart \/ SweepEnd \/ Edit \/ Dies \/ UNCHANGED vars
  <2>1. reader' = reader /\ params' = params /\ emitted' = emitted
    BY <1>10 DEF Stage, StageVerdicts, CopyDone, CopyFails, CompileFails,
                 OpenPlan, StagePlan, Metal, MetalVerdicts, MetalEnd,
                 MetalFails, SweepStart, SweepEnd, Edit, Dies, vars
  <2> QED
    BY <1>4, <2>1
<1> QED
  BY <1>5, <1>6, <1>6a, <1>7, <1>8, <1>9, <1>10
     DEF Next, Writer, Runner, Reader

(* apply prints what it chose, verified on the crate of that moment, for   *)
(* any interleaving with stage, the sweep and the author.                  *)
THEOREM AppliesTheChosen == Spec => []AppliedIsChosen
<1>1. Init => EmitInv
  BY DEF Init, EmitInv, Rendering, Applying, AppliedIsChosen
<1>2. TypeInv /\ EmitInv /\ [Next]_vars => EmitInv'
  BY EmitStep
<1>3. EmitInv => AppliedIsChosen
  BY DEF EmitInv
<1> QED
  BY <1>1, <1>2, <1>3, PlansAlways, PTL DEF Spec
=============================================================================
