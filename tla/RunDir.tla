------------------------------- MODULE RunDir -------------------------------
(***************************************************************************)
(* One run directory and the commands that hand it on: stage and tune      *)
(* (launchbound-cli) write verdicts.json, the PTX files and plan.json; the *)
(* runner's sweep turns the plan into results.json; tune --backend metal   *)
(* writes ungated verdicts and its own results; report and apply join the  *)
(* three documents by candidate id.                                        *)
(*                                                                         *)
(* No command holds a lock.  The model runs one writer (stage or metal),   *)
(* one sweep and one reader (report or apply) at a time, interleaved with  *)
(* each other and with the author of the crate, and any of them may die.   *)
(* The documents are written in place, except results.json.                *)
(*                                                                         *)
(* What a gate run answers depends on the crate and on --cc; a version     *)
(* stands for both, and verdictAt gives the answer for each.  `gates' is   *)
(* history: the gate records in the order they were made, so a document    *)
(* names the record it was made from by its index.  The insides of the     *)
(* gate, the build and the sweep are Gate, BuildCache and Sweep.           *)
(***************************************************************************)
EXTENDS Naturals, Sequences, Ranking

CONSTANTS
  Ids,          \* candidate ids, numbered in the order of enumeration
  Versions,     \* what the crate and --cc may be, numbered in time
  Truths,       \* the answers of the gate a behaviour may have
  Summaries,    \* timing summaries a measurement may have
  NoSummary,    \* the summary of a candidate with no times
  NoDoc,        \* the file does not exist
  Torn,         \* the file exists and is not a document
  None,         \* no candidate, no emission
  MaxCommands,  \* bound: how many commands a behaviour starts
  MaxFaults,    \* bound: how many of them die, or fail to fill a file
  Names,        \* file names of artifacts
  NameOf        \* the name of each candidate's artifact at each version

(* `clean' stands for admitted_with_caveats too; `absent' for an id that   *)
(* the enumeration of this version does not give.                          *)
Verdicts == {"clean", "disqualified", "tool_error", "absent"}

ASSUME RunDirAssumption ==
  /\ Ids \subseteq Nat /\ Versions \subseteq Nat /\ 0 \in Versions
  /\ Truths \subseteq [Versions -> [Ids -> Verdicts]]
  /\ Summaries \subseteq {s \in [lo : Nat, med : Nat, hi : Nat] :
                              s.lo <= s.med /\ s.med <= s.hi}
  /\ NoDoc # Torn /\ NoDoc \notin Nat /\ Torn \notin Nat
  /\ None \notin Nat
  /\ MaxCommands \in Nat /\ MaxFaults \in Nat
  /\ NameOf \in [Truths -> [Ids \X Versions -> Names]]

VARIABLES
  version,    \* the crate and the target as they are
  verdictAt,  \* what the gate answers at each version
  gates,      \* history: the gate records, in order
  verdicts,   \* verdicts.json: the index of its record
  plan,       \* plan.json
  results,    \* results.json: its candidates
  ptx,        \* the artifacts in the directory, by file name
  params,     \* src/params.rs in the kernel's scratch copy: whose it is,
              \* while apply is between its write and its read of it
  job,        \* the writer: stage or metal
  sweep,      \* the runner
  reader,     \* report or apply
  emitted,    \* what apply printed
  commands, faults

files == <<verdicts, plan, results, ptx>>
world == <<version, verdictAt>>
bounds == <<commands, faults>>
vars == <<world, gates, files, params, job, sweep, reader, emitted, bounds>>

(* An artifact is named by the hash of its source, so another --cc, which  *)
(* changes no source, and another candidate may find the file there.       *)
File(i, v) == NameOf[verdictAt][<<i, v>>]

Readable(doc) == doc \notin {NoDoc, Torn}

IdsOf(rows) == {r.id : r \in rows}

IdleJob == [pc |-> "idle", reason |-> FALSE, todo |-> {}, cands |-> {},
            copy |-> None]
IdleSweep == [pc |-> "idle", plan |-> NoDoc, doc |-> {}]
IdleReader == [pc |-> "idle", gate |-> 0, rows |-> {}, verify |-> FALSE,
               read |-> None, disturbed |-> FALSE]

Init ==
  /\ version = 0 /\ verdictAt \in Truths /\ gates = <<>>
  /\ verdicts = NoDoc /\ plan = NoDoc /\ results = NoDoc
  /\ ptx = [n \in Names |-> "absent"]
  /\ params = None
  /\ job = IdleJob /\ sweep = IdleSweep /\ reader = IdleReader
  /\ emitted = None
  /\ commands = 0 /\ faults = 0

StartsCommand == commands < MaxCommands /\ commands' = commands + 1

-----------------------------------------------------------------------------
(* stage.                                                                  *)

(* Mutant: the refused candidates are always staged.                       *)
ToStageAll(answer, allow) ==
  {i \in Ids : answer[i] \in {"clean", "disqualified"}}

(* The candidates stage compiles: the admitted ones and, under             *)
(* --allow-unsafe, those the gate refused.                                 *)
ToStage(answer, allow) ==
  {i \in Ids : \/ answer[i] = "clean"
               \/ allow /\ answer[i] = "disqualified"}

(* Mutant: a verdicts.json that is there is kept, like an artifact.        *)
StageKeepingVerdicts(allow) ==
  /\ StartsCommand
  /\ job.pc = "idle"
  /\ \A i \in Ids : verdictAt[version][i] # "tool_error"
  /\ gates' = Append(gates, [gate |-> "full", of |-> verdictAt[version]])
  /\ verdicts' = IF verdicts = NoDoc THEN Torn ELSE verdicts
  /\ job' = [IdleJob EXCEPT
               !.pc = IF verdicts = NoDoc THEN "staging" ELSE "compiling",
               !.reason = allow, !.todo = ToStage(verdictAt[version], allow)]
  /\ UNCHANGED <<world, plan, results, ptx, params, sweep, reader, emitted,
                 faults>>

(* The flags are checked, the gate runs on the crate as it is, a tool      *)
(* error refuses, and verdicts.json is truncated.  allow_unsafe comes with *)
(* a reason or not at all, so one flag stands for both.                    *)
Stage(allow) ==
  /\ StartsCommand
  /\ job.pc = "idle"
  /\ \A i \in Ids : verdictAt[version][i] # "tool_error"
  /\ gates' = Append(gates, [gate |-> "full", of |-> verdictAt[version]])
  /\ verdicts' = Torn
  /\ job' = [IdleJob EXCEPT !.pc = "staging", !.reason = allow,
                            !.todo = ToStage(verdictAt[version], allow)]
  /\ UNCHANGED <<world, plan, results, ptx, params, sweep, reader, emitted,
                 faults>>

(* verdicts.json is whole.                                                 *)
StageVerdicts ==
  /\ job.pc = "staging"
  /\ verdicts' = Len(gates)
  /\ job' = [job EXCEPT !.pc = "compiling"]
  /\ UNCHANGED <<world, gates, plan, results, ptx, params, sweep, reader,
                 emitted, bounds>>

(* Mutant: the entry does not say that the gate refused it.                *)
EntryUnmarked(i, v) == [id |-> i, built |-> v, refused |-> FALSE]

(* The plan entry of candidate i, whose artifact is that of version v.     *)
Entry(i, v) ==
  [id |-> i, built |-> v,
   refused |-> gates[Len(gates)].of[i] = "disqualified"]

Accepts(i, v) ==
  job' = [job EXCEPT !.pc = "compiling", !.copy = None,
                     !.todo = @ \ {i}, !.cands = @ \cup {Entry(i, v)}]

(* stage specializes the scratch copy; apply may be rendering from it.     *)
WritesParams(i) ==
  IF reader.pc = "rendering"
  THEN params' = i /\ reader' = [reader EXCEPT !.disturbed = TRUE]
  ELSE UNCHANGED <<params, reader>>

(* Mutant: an artifact that is already there is not looked at.             *)
CompileUnread(i) ==
  /\ job.pc = "compiling" /\ i \in job.todo
  /\ WritesParams(i)
  /\ IF ptx[File(i, version)] = "absent"
     THEN /\ ptx' = [ptx EXCEPT ![File(i, version)] = "no entry"]
          /\ job' = [job EXCEPT !.pc = "copying", !.copy = <<i, version>>]
     ELSE /\ Accepts(i, version)
          /\ UNCHANGED ptx
  /\ UNCHANGED <<world, gates, verdicts, plan, results, sweep, emitted,
                 bounds>>

(* Candidate i is specialized from the crate as it is now and compiled; an *)
(* artifact of that name in the directory is kept, whole or not, and stage *)
(* gives up on one whose entry cannot be found.                            *)
Compile(i) ==
  /\ job.pc = "compiling" /\ i \in job.todo
  /\ WritesParams(i)
  /\ \/ /\ ptx[File(i, version)] = "absent"
        /\ ptx' = [ptx EXCEPT ![File(i, version)] = "no entry"]
        /\ job' = [job EXCEPT !.pc = "copying", !.copy = <<i, version>>]
     \/ /\ ptx[File(i, version)] = "no entry"
        /\ job' = IdleJob
        /\ UNCHANGED ptx
     \/ /\ ptx[File(i, version)] \in {"torn", "whole"}
        /\ Accepts(i, version)
        /\ UNCHANGED ptx
  /\ UNCHANGED <<world, gates, verdicts, plan, results, sweep, emitted,
                 bounds>>

Copied(how) == [ptx EXCEPT ![File(job.copy[1], job.copy[2])] = how]

(* The copy of an artifact is complete.  Its parameters are counted, and   *)
(* stage gives up unless they are as many as kernel.toml declares.         *)
CopyDone ==
  /\ job.pc = "copying"
  /\ ptx' = Copied("whole")
  /\ Accepts(job.copy[1], job.copy[2]) \/ job' = IdleJob
  /\ UNCHANGED <<world, gates, verdicts, plan, results, params, sweep, reader,
                 emitted, bounds>>

(* A copy that is cut is cut before the entry or behind it.                *)
CutCopies == IF job.pc = "copying" THEN {ptx, Copied("torn")} ELSE {ptx}

(* The disk is full: stage ends, and what was copied stays.                *)
CopyFails ==
  /\ faults < MaxFaults /\ faults' = faults + 1
  /\ job.pc = "copying"
  /\ job' = IdleJob
  /\ ptx' \in CutCopies
  /\ UNCHANGED <<world, gates, verdicts, plan, results, params, sweep, reader,
                 emitted, commands>>

(* A compile fails, or the artifact has another number of parameters than  *)
(* kernel.toml declares: stage ends, and what it wrote stays.              *)
CompileFails ==
  /\ job.pc = "compiling" /\ job.todo # {}
  /\ job' = IdleJob
  /\ UNCHANGED <<world, gates, files, params, sweep, reader, emitted, bounds>>

(* plan.json is truncated once every candidate is compiled.                *)
OpenPlan ==
  /\ job.pc = "compiling" /\ job.todo = {}
  /\ plan' = Torn
  /\ job' = [job EXCEPT !.pc = "planning"]
  /\ UNCHANGED <<world, gates, verdicts, results, ptx, params, sweep, reader,
                 emitted, bounds>>

(* plan.json is whole.                                                     *)
StagePlan ==
  /\ job.pc = "planning"
  /\ plan' = [reason |-> job.reason, seq |-> Len(gates),
              candidates |-> job.cands]
  /\ job' = IdleJob
  /\ UNCHANGED <<world, gates, verdicts, results, ptx, params, sweep, reader,
                 emitted, bounds>>

-----------------------------------------------------------------------------
(* tune --backend metal: every configuration is `ungated', the sweep keeps *)
(* its results in memory, and results.json is replaced once at the end.    *)

Metal ==
  /\ StartsCommand
  /\ job.pc = "idle"
  /\ gates' = Append(gates,
       [gate |-> "none",
        of |-> [i \in Ids |-> IF verdictAt[version][i] = "absent"
                              THEN "absent" ELSE "ungated"]])
  /\ verdicts' = Torn
  /\ job' = [IdleJob EXCEPT !.pc = "metal",
               !.todo = {i \in Ids : verdictAt[version][i] # "absent"}]
  /\ UNCHANGED <<world, plan, results, ptx, params, sweep, reader, emitted,
                 faults>>

MetalVerdicts ==
  /\ job.pc = "metal"
  /\ verdicts' = Len(gates)
  /\ job' = [job EXCEPT !.pc = "measuring"]
  /\ UNCHANGED <<world, gates, plan, results, ptx, params, sweep, reader,
                 emitted, bounds>>

Outcomes == {[status |-> "ok", summary |-> s] : s \in Summaries}
              \cup {[status |-> "error", summary |-> NoSummary]}

Row(i, refused, seq, outcome) ==
  [id |-> i, refused |-> refused, seq |-> seq,
   status |-> outcome.status, summary |-> outcome.summary]

(* Some of the configurations are measured before the budget is spent, in  *)
(* memory; then comes the one checkpoint, over whatever results there are. *)
MetalEnd ==
  /\ job.pc = "measuring"
  /\ \E measured \in SUBSET job.todo :
       \E o \in [measured -> Outcomes] :
         results' = {Row(i, FALSE, Len(gates), o[i]) : i \in measured}
  /\ job' = IdleJob
  /\ UNCHANGED <<world, gates, verdicts, plan, ptx, params, sweep, reader,
                 emitted, bounds>>

(* No Metal device, or no kernel.metal: the new verdicts stay.             *)
MetalFails ==
  /\ job.pc = "measuring"
  /\ job' = IdleJob
  /\ UNCHANGED <<world, gates, files, params, sweep, reader, emitted, bounds>>

-----------------------------------------------------------------------------
(* The sweep of launchbound-runner, one step per candidate (Sweep.tla has  *)
(* the steps inside): the plan is read once, resuming is by id alone.      *)

SweepStart ==
  /\ StartsCommand
  /\ sweep.pc = "idle" /\ Readable(plan)
  /\ sweep' = [pc |-> "running", plan |-> plan,
               doc |-> IF results = NoDoc THEN {} ELSE results]
  /\ UNCHANGED <<world, gates, files, params, job, reader, emitted, faults>>

Remaining(s) == {c \in s.plan.candidates : c.id \notin IdsOf(s.doc)}

(* Candidate c ran: its record is in the document and on disk.  A torn     *)
(* artifact does not load, and a refused candidate that hangs ends the     *)
(* process with its timeout record on disk.                                *)
Launch(c) ==
  /\ c \in Remaining(sweep)
  /\ \/ \E o \in Outcomes :
          /\ o.status = "ok" => ptx[File(c.id, c.built)] = "whole"
          /\ LET row == Row(c.id, c.refused, sweep.plan.seq, o)
             IN  /\ results' = sweep.doc \cup {row}
                 /\ sweep' = [sweep EXCEPT !.doc = @ \cup {row}]
     \/ /\ c.refused
        /\ LET row == Row(c.id, TRUE, sweep.plan.seq,
                          [status |-> "timeout", summary |-> NoSummary])
           IN  results' = sweep.doc \cup {row}
        /\ sweep' = IdleSweep
  /\ UNCHANGED <<world, gates, verdicts, plan, ptx, params, job, reader,
                 emitted, bounds>>

(* The order is exhausted or the budget is spent: the last checkpoint.     *)
SweepEnd ==
  /\ sweep.pc = "running"
  /\ results' = sweep.doc
  /\ sweep' = IdleSweep
  /\ UNCHANGED <<world, gates, verdicts, plan, ptx, params, job, reader,
                 emitted, bounds>>
-----------------------------------------------------------------------------
(* What build_report makes of a gate record g and the rows of results.json.*)

Admitted(g) == {i \in Ids : g.of[i] \in {"clean", "ungated"}}
Refused(g) == {i \in Ids : g.of[i] = "disqualified"}

Eligible(g, rows) == {r \in Timed(rows) : r.id \in Admitted(g)}

(* The chosen row, as a set with at most one member.                       *)
Chosen(g, rows) ==
  IF Eligible(g, rows) = {} THEN {} ELSE {Fastest(Eligible(g, rows))}

Indistinguishable(g, rows) ==
  {r \in Eligible(g, rows) :
     \E c \in Chosen(g, rows) : r.id # c.id /\ Overlap(r.summary, c.summary)}

RejectedFaster(g, rows) ==
  {r \in Timed(rows) :
     /\ r.id \in Refused(g)
     /\ \E c \in Chosen(g, rows) : r.summary.hi < c.summary.lo}

(* The exit status of report: 1 if a refused candidate measured faster.    *)
ReportExit(g, rows) == IF RejectedFaster(g, rows) # {} THEN 1 ELSE 0

-----------------------------------------------------------------------------
(* RunDir::load reads one document after the other.  plan.json gives the   *)
(* report nothing but the text of its reason, and is left out.             *)

(* Mutant: the verdicts are not checked to be a document.                  *)
ReadAnyVerdicts ==
  /\ StartsCommand
  /\ reader.pc = "idle"
  /\ reader' = [pc |-> "results", gate |-> verdicts, rows |-> {},
                verify |-> FALSE, read |-> None, disturbed |-> FALSE]
  /\ UNCHANGED <<world, gates, files, params, job, sweep, emitted, faults>>

(* No verdicts.json, or one that does not parse, is an error.              *)
ReadVerdicts ==
  /\ StartsCommand
  /\ reader.pc = "idle" /\ Readable(verdicts)
  /\ reader' = [pc |-> "results", gate |-> verdicts, rows |-> {},
                verify |-> FALSE, read |-> None, disturbed |-> FALSE]
  /\ UNCHANGED <<world, gates, files, params, job, sweep, emitted, faults>>

ReadResults ==
  /\ reader.pc = "results"
  /\ reader' = [reader EXCEPT !.pc = "built",
                              !.rows = IF results = NoDoc THEN {} ELSE results]
  /\ UNCHANGED <<world, gates, files, params, job, sweep, emitted, bounds>>

(* report prints and exits; so does apply when it refuses.                 *)
ReaderDone ==
  /\ reader.pc = "built"
  /\ reader' = IdleReader
  /\ UNCHANGED <<world, gates, files, params, job, sweep, emitted, bounds>>

GateRead == gates[reader.gate]

(* apply loads the spec as it is now, finds the chosen id in its space,    *)
(* refuses to verify a run that had no gate, and writes the params.        *)
Apply(verify) ==
  /\ reader.pc = "built"
  /\ \E c \in Chosen(GateRead, reader.rows) :
       /\ verdictAt[version][c.id] # "absent"
       /\ verify => GateRead.gate # "none"
       /\ params' = c.id
  /\ reader' = [reader EXCEPT !.pc = "rendering", !.verify = verify]
  /\ UNCHANGED <<world, gates, files, job, sweep, emitted, bounds>>

(* params.rs is read back.                                                 *)
ApplyRead ==
  /\ reader.pc = "rendering"
  /\ reader' = [reader EXCEPT !.pc = "verifying", !.read = params]
  /\ params' = None
  /\ UNCHANGED <<world, gates, files, job, sweep, emitted, bounds>>

(* The gate on the crate as it is now.  It takes the configurations of the *)
(* spec that was loaded, so an id the crate no longer has gets any answer. *)
Answers(i) ==
  IF verdictAt[version][i] = "absent" THEN {"clean", "disqualified"}
                                      ELSE {verdictAt[version][i]}

Emits ==
  \E c \in Chosen(GateRead, reader.rows) :
    emitted' = [id |-> c.id, params |-> reader.read,
                verified |-> reader.verify,
                gate |-> GateRead.gate, version |-> version,
                disturbed |-> reader.disturbed]

(* Mutant: what is printed does not wait for the verification.             *)
ApplyUnverified ==
  /\ reader.pc = "verifying"
  /\ reader' = IdleReader
  /\ Emits
  /\ UNCHANGED <<world, gates, files, params, job, sweep, bounds>>

(* What was read is printed, if the gate admits it or is not asked.        *)
ApplyEmit ==
  /\ reader.pc = "verifying"
  /\ reader' = IdleReader
  /\ \/ /\ reader.verify
        /\ \E c \in Chosen(GateRead, reader.rows) : "clean" \in Answers(c.id)
        /\ Emits
     \/ ~reader.verify /\ Emits
     \/ /\ reader.verify
        /\ \E c \in Chosen(GateRead, reader.rows) : Answers(c.id) # {"clean"}
        /\ UNCHANGED emitted
  /\ UNCHANGED <<world, gates, files, params, job, sweep, bounds>>

-----------------------------------------------------------------------------
(* The author, and processes that die, a copy cut in the middle.           *)

Edit ==
  /\ version + 1 \in Versions
  /\ version' = version + 1
  /\ UNCHANGED <<verdictAt, gates, files, params, job, sweep, reader, emitted,
                 bounds>>

Dies ==
  /\ faults < MaxFaults /\ faults' = faults + 1
  /\ \/ /\ job.pc # "idle" /\ job' = IdleJob
        /\ ptx' \in CutCopies
        /\ UNCHANGED sweep
     \/ /\ sweep.pc # "idle" /\ sweep' = IdleSweep
        /\ UNCHANGED <<job, ptx>>
  /\ UNCHANGED <<world, gates, verdicts, plan, results, params, reader,
                 emitted, commands>>

Writer ==
  \/ \E allow \in BOOLEAN : Stage(allow)
  \/ StageVerdicts
  \/ \E i \in job.todo : Compile(i)
  \/ CopyDone
  \/ CopyFails
  \/ CompileFails
  \/ OpenPlan
  \/ StagePlan
  \/ Metal
  \/ MetalVerdicts
  \/ MetalEnd
  \/ MetalFails

Runner ==
  \/ SweepStart
  \/ sweep.pc = "running" /\ \E c \in Remaining(sweep) : Launch(c)
  \/ SweepEnd

Reader ==
  \/ ReadVerdicts
  \/ ReadResults
  \/ ReaderDone
  \/ \E verify \in BOOLEAN : Apply(verify)
  \/ ApplyRead
  \/ ApplyEmit

Next == Writer \/ Runner \/ Reader \/ Edit \/ Dies

Spec == Init /\ [][Next]_vars

-----------------------------------------------------------------------------
(* Types.                                                                  *)

Gates == [gate : {"full", "none"}, of : [Ids -> Verdicts \cup {"ungated"}]]
Entries == [id : Ids, built : Versions, refused : BOOLEAN]
Plans == [reason : BOOLEAN, seq : Nat, candidates : SUBSET Entries]
Rows == {r \in [id : Ids, refused : BOOLEAN, seq : Nat,
                status : {"ok", "error", "timeout"},
                summary : Summaries \cup {NoSummary}] :
           r.status = "ok" => r.summary \in Summaries}
Artifacts == {"absent", "no entry", "torn", "whole"}

Jobs ==
  [pc : {"idle", "staging", "compiling", "copying", "planning",
         "metal", "measuring"},
   reason : BOOLEAN, todo : SUBSET Ids, cands : SUBSET Entries,
   copy : (Ids \X Versions) \cup {None}]

Sweeps ==
  [pc : {"idle", "running"}, plan : Plans \cup {NoDoc}, doc : SUBSET Rows]

Readers ==
  [pc : {"idle", "results", "built", "rendering", "verifying"}, gate : Nat,
   rows : SUBSET Rows, verify : BOOLEAN, read : Ids \cup {None},
   disturbed : BOOLEAN]

Emissions ==
  [id : Ids, params : Ids, verified : BOOLEAN, gate : {"full", "none"},
   version : Versions, disturbed : BOOLEAN]

(* Every document, every process and what apply printed keep their shape;  *)
(* verdicts.json is absent, torn or one of the records the gate has made.  *)
TypeOK ==
  /\ version \in Versions /\ verdictAt \in Truths
  /\ gates \in Seq(Gates)
  /\ verdicts \in {NoDoc, Torn} \cup (1..Len(gates))
  /\ plan \in {NoDoc, Torn} \cup Plans
  /\ results \in {NoDoc} \cup SUBSET Rows
  /\ ptx \in [Names -> Artifacts]
  /\ params \in Ids \cup {None}
  /\ job \in Jobs /\ sweep \in Sweeps /\ reader \in Readers
  /\ emitted \in Emissions \cup {None}
  /\ commands \in Nat /\ faults \in Nat

-----------------------------------------------------------------------------
(* Properties.                                                             *)

(* cmd_stage writes plan.json last and whole: a plan that can be read has  *)
(* every candidate its gate record admitted, no candidate it refused       *)
(* unless it carries a reason, and none of any other verdict, whatever     *)
(* failed or died on the way.                                              *)
PlanIsTheGates ==
  Readable(plan) =>
    LET of == gates[plan.seq].of
        planned == IdsOf(plan.candidates)
    IN  /\ {i \in Ids : of[i] = "clean"} \subseteq planned
        /\ \A c \in plan.candidates :
             \/ of[c.id] = "clean" /\ ~c.refused
             \/ of[c.id] = "disqualified" /\ c.refused /\ plan.reason

(* What a directory holds is never older than the gate record beside it:   *)
(* verdicts.json is written before the plan and the results made under it, *)
(* so a failed or dead stage leaves new verdicts with an old plan and old  *)
(* results, and never the reverse.                                         *)
VerdictsFirst ==
  Readable(verdicts) =>
    /\ Readable(plan) => plan.seq <= verdicts
    /\ results # NoDoc => \A r \in results : r.seq <= verdicts

(* Every candidate of a plan that can be read has its artifact in the      *)
(* directory, with its entry in it, and whole unless a process died or a   *)
(* copy failed: the `exists' shortcut never ships a file without an entry. *)
ArtifactsShipped ==
  Readable(plan) =>
    \A c \in plan.candidates :
      ptx[File(c.id, c.built)] \in
        IF faults = 0 THEN {"whole"} ELSE {"torn", "whole"}

(* Where the measurements come from the plan of the very verdicts they are *)
(* joined with, the report chooses no candidate that was measured as       *)
(* refused, and exits 1 only for one that was.                             *)
JoinIsSound ==
  reader.pc = "built" =>
    LET own == {r \in reader.rows : r.seq = reader.gate}
    IN  /\ \A r \in own \cap Chosen(GateRead, reader.rows) : ~r.refused
        /\ \A r \in own \cap RejectedFaster(GateRead, reader.rows) : r.refused
        /\ own = reader.rows /\ ReportExit(GateRead, reader.rows) = 1 =>
             \E r \in reader.rows : r.refused /\ r.status = "ok"

(* An admitted candidate the report neither chooses nor calls              *)
(* indistinguishable is measurably slower: its whole interval is above the *)
(* chosen one's.  No candidate is left out of the ranking by a boundary.   *)
AdmittedAreRanked ==
  reader.pc = "built" =>
    \A r \in Eligible(GateRead, reader.rows) :
      \/ r \in Chosen(GateRead, reader.rows)
      \/ r \in Indistinguishable(GateRead, reader.rows)
      \/ \A c \in Chosen(GateRead, reader.rows) : c.summary.hi < r.summary.lo

(* apply prints the parameters of the configuration it names, unless       *)
(* another command rewrote the scratch copy under it, and what it printed  *)
(* as verified was gated and admitted on the crate of that moment.         *)
AppliedIsChosen ==
  emitted # None =>
    /\ ~emitted.disturbed => emitted.params = emitted.id
    /\ emitted.verified =>
         /\ emitted.gate = "full"
         /\ verdictAt[emitted.version][emitted.id] \in {"clean", "absent"}
=============================================================================
