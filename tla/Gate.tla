-------------------------------- MODULE Gate --------------------------------
(***************************************************************************)
(* The safety gate (launchbound-prune): prune_kernel runs the analyzer     *)
(* once per specialization key, in a scratch copy of the kernel crate      *)
(* whose params.rs it rewrites for that key, and evaluates the decision    *)
(* rule for every configuration of the space.                              *)
(*                                                                         *)
(* The analyzer (reconverge) is external: answer[k] is what a run over the *)
(* source specialized for k does, the exit status and the lines it prints. *)
(* It is a function of the source, as decide.rs says it was measured to    *)
(* be; a run may also be killed.  Lines are a set: their order and their   *)
(* repetition reach only the wording of an error.                          *)
(***************************************************************************)
EXTENDS Naturals, FiniteSets

CONSTANTS
  Configs,        \* the enumerated configurations of the space
  Keys,           \* specialization keys
  SpecKey,        \* Config::spec_key
  BlockThreads,   \* Config::block_threads
  Findings,       \* findings an analyzer may print
  Answers,        \* what an analyzer run may do: see Answer
  None            \* nothing yet: no configuration, outcome or verdict

WarpSize == 32

(* A finding: its rule, its confidence, and the sources its provenance     *)
(* names.                                                                  *)
Finding ==
  [code : {"RC001", "RC002", "RC004"},
   confidence : {"warning", "deny", "confirmed"},
   provenance : SUBSET {"warp_id()", "threadIdx"}]

(* A line of stdout that is not blank: not a findings document (no JSON,   *)
(* or another schema), one without the field `findings' (serde's default   *)
(* reads it as none), or one with its findings.                            *)
Line ==
  [kind : {"foreign", "bare", "document"}, findings : SUBSET Findings]

(* The exit status (negative statuses stand for a signal and for a command *)
(* that could not be spawned; here: any other number) and the lines.       *)
Answer == [exit : Nat, stdout : SUBSET Line]

ASSUME GateAssumption ==
  /\ SpecKey \in [Configs -> Keys]
  /\ BlockThreads \in [Configs -> Nat]
  /\ Findings \subseteq Finding
  /\ Answers \subseteq Answer
  /\ None \notin Configs \cup Keys

-----------------------------------------------------------------------------
(* Reading the analyzer: run_reconverge and read_stream.                   *)

ToolError == [kind |-> "tool_error", exit |-> 0, findings |-> {}]

(* The union of the documents' findings; a foreign line, or no document at *)
(* all, is an error.                                                       *)
Documents(stdout) == {l \in stdout : l.kind \in {"bare", "document"}}

(* Mutant: no document reads as no findings.                               *)
EmptyIsClean(exit, stdout) ==
  IF \E l \in stdout : l.kind = "foreign"
  THEN ToolError
  ELSE [kind |-> "findings", exit |-> exit,
        findings |-> UNION {l.findings : l \in Documents(stdout)}]

ReadStream(exit, stdout) ==
  IF (\E l \in stdout : l.kind = "foreign") \/ Documents(stdout) = {}
  THEN ToolError
  ELSE [kind |-> "findings", exit |-> exit,
        findings |-> UNION {l.findings : l \in Documents(stdout)}]

(* Mutant: the output is read whatever the exit status.                    *)
AnyExit(a) == ReadStream(a.exit, a.stdout)

Outcome(a) ==
  IF a.exit \in {0, 1} THEN ReadStream(a.exit, a.stdout) ELSE ToolError

Outcomes ==
  {ToolError} \cup
  [kind : {"findings"}, exit : {0, 1}, findings : SUBSET Findings]

ASSUME NoneAssumption == None \notin Outcomes

-----------------------------------------------------------------------------
(* The decision rule: decide.                                              *)

DenyTier(f) == f.confidence \in {"deny", "confirmed"}

IsConvergenceRule(f) == f.code \in {"RC001", "RC002"}

LaunchShapeDependent(f) == "warp_id()" \in f.provenance

ShapeHazard(f) == IsConvergenceRule(f) /\ LaunchShapeDependent(f)

(* Mutants: the launch shape counts from a third warp on, or is compared   *)
(* the wrong way round.                                                    *)
RejectAboveTwoWarps(findings, threads) ==
  {f \in findings :
     DenyTier(f) \/ (ShapeHazard(f) /\ threads > 2 * WarpSize)}

RejectOneWarp(findings, threads) ==
  {f \in findings : DenyTier(f) \/ (ShapeHazard(f) /\ threads <= WarpSize)}

Rejections(findings, threads) ==
  {f \in findings : DenyTier(f) \/ (ShapeHazard(f) /\ threads > WarpSize)}

Caveats(findings) == {f \in findings : ~DenyTier(f) /\ ~ShapeHazard(f)}

Decide(outcome, threads) ==
  LET rejections == Rejections(outcome.findings, threads)
      caveats == Caveats(outcome.findings)
  IN IF outcome.kind = "tool_error"
     THEN [verdict |-> "tool_error", caveats |-> {}]
     ELSE IF rejections # {} \/ outcome.exit = 1
     THEN [verdict |-> "disqualified", caveats |-> {}]
     ELSE IF caveats # {}
     THEN [verdict |-> "admitted_with_caveats", caveats |-> caveats]
     ELSE [verdict |-> "clean", caveats |-> {}]

Verdicts ==
  [verdict : {"clean", "admitted_with_caveats", "disqualified", "tool_error"},
   caveats : SUBSET Findings]

Admitted(v) == v.verdict \in {"clean", "admitted_with_caveats"}

-----------------------------------------------------------------------------
(* prune_kernel.  The order of the configurations is left open.            *)

VARIABLES
  answer,     \* what the analyzer does on each specialized source
  scratch,    \* the key params.rs of the scratch copy is written for
  outcomes,   \* the memo: outcome per key, None before its run
  verdicts,   \* verdict per configuration, None before its turn
  pc,         \* "next", "analyze", "decide", "done", "failed"
  config,     \* the configuration whose turn it is
  runs,       \* history: analyzer runs per key
  disturbed   \* history: another command used the scratch copy

history == <<runs, disturbed>>
vars == <<answer, scratch, outcomes, verdicts, pc, config, history>>

Init ==
  /\ answer \in [Keys -> Answers]
  /\ scratch \in Keys
  /\ outcomes = [k \in Keys |-> None]
  /\ verdicts = [c \in Configs |-> None]
  /\ pc = "next" /\ config = None
  /\ runs = [k \in Keys |-> 0] /\ disturbed = FALSE

(* The next configuration; the analyzer runs only for a key not seen yet,  *)
(* after params.rs has been written for it.                                *)
Recall(c) ==
  /\ pc = "next" /\ verdicts[c] = None
  /\ outcomes[SpecKey[c]] # None
  /\ config' = c /\ pc' = "decide"
  /\ UNCHANGED <<answer, scratch, outcomes, verdicts, history>>

(* Mutants: the analyzer runs for every configuration, or runs before      *)
(* params.rs is written.                                                   *)
RunPerConfig(c) ==
  /\ pc = "next" /\ verdicts[c] = None
  /\ config' = c /\ pc' = "analyze"
  /\ scratch' = SpecKey[c]
  /\ UNCHANGED <<answer, outcomes, verdicts, history>>

RunUnwritten(c) ==
  /\ pc = "next" /\ verdicts[c] = None
  /\ outcomes[SpecKey[c]] = None
  /\ config' = c /\ pc' = "analyze"
  /\ UNCHANGED <<answer, scratch, outcomes, verdicts, history>>

WriteParams(c) ==
  /\ pc = "next" /\ verdicts[c] = None
  /\ outcomes[SpecKey[c]] = None
  /\ config' = c /\ pc' = "analyze"
  /\ scratch' = SpecKey[c]
  /\ UNCHANGED <<answer, outcomes, verdicts, history>>

(* write_params fails (params.rs and kernel.toml have drifted), and the    *)
(* whole run ends with the error.                                          *)
ParamsFail(c) ==
  /\ pc = "next" /\ verdicts[c] = None
  /\ outcomes[SpecKey[c]] = None
  /\ pc' = "failed"
  /\ UNCHANGED <<answer, scratch, outcomes, verdicts, config, history>>

(* cargo reconverge check reads whatever the scratch copy now holds, and   *)
(* may be killed or fail to start.                                         *)
RunReconverge ==
  /\ pc = "analyze"
  /\ \E o \in {Outcome(answer[scratch]), ToolError} :
       outcomes' = [outcomes EXCEPT ![SpecKey[config]] = o]
  /\ runs' = [runs EXCEPT ![SpecKey[config]] = @ + 1]
  /\ pc' = "decide"
  /\ UNCHANGED <<answer, scratch, verdicts, config, disturbed>>

(* Mutant: a configuration that cannot be analyzed gets no verdict.        *)
DecideUnlessError ==
  /\ pc = "decide"
  /\ verdicts' = IF outcomes[SpecKey[config]] = ToolError THEN verdicts
                 ELSE [verdicts EXCEPT
       ![config] = Decide(outcomes[SpecKey[config]], BlockThreads[config])]
  /\ pc' = "next"
  /\ UNCHANGED <<answer, scratch, outcomes, config, history>>

DecideConfig ==
  /\ pc = "decide"
  /\ verdicts' = [verdicts EXCEPT
       ![config] = Decide(outcomes[SpecKey[config]], BlockThreads[config])]
  /\ pc' = "next"
  /\ UNCHANGED <<answer, scratch, outcomes, config, history>>

Finish ==
  /\ pc = "next" /\ \A c \in Configs : verdicts[c] # None
  /\ pc' = "done"
  /\ UNCHANGED <<answer, scratch, outcomes, verdicts, config, history>>

(* Another command (prune, stage, apply or tune) specializes the same      *)
(* scratch copy: default_scratch_root is one directory per kernel.         *)
OtherCommand ==
  /\ pc \notin {"done", "failed"}
  /\ scratch' \in Keys
  /\ disturbed' = TRUE
  /\ UNCHANGED <<answer, outcomes, verdicts, pc, config, runs>>

Prune ==
  \/ \E c \in Configs : Recall(c) \/ WriteParams(c) \/ ParamsFail(c)
  \/ RunReconverge
  \/ DecideConfig
  \/ Finish

Next == Prune \/ OtherCommand

Spec == Init /\ [][Next]_vars

(* prune_kernel is a loop of one thread that waits only for the analyzer.  *)
FairSpec == Spec /\ WF_vars(Prune)

-----------------------------------------------------------------------------
(* Properties.                                                             *)

TypeOK ==
  /\ answer \in [Keys -> Answers]
  /\ scratch \in Keys
  /\ outcomes \in [Keys -> Outcomes \cup {None}]
  /\ verdicts \in [Configs -> Verdicts \cup {None}]
  /\ pc \in {"next", "analyze", "decide", "done", "failed"}
  /\ config \in Configs \cup {None}
  /\ runs \in [Keys -> Nat] /\ disturbed \in BOOLEAN

Decided(c) == verdicts[c] # None

(* The findings the analyzer prints for the source of c, in any document.  *)
Printed(c) == UNION {l.findings : l \in Documents(answer[SpecKey[c]].stdout)}

(* Unless another command used the scratch copy meanwhile, a configuration *)
(* is admitted only when the analyzer ran on its own source, exited 0 and  *)
(* printed nothing unreadable: an exit 1, an exit 2, a crash, a foreign    *)
(* line or an empty output is never a pass.                                *)
NeverAPassByOmission ==
  \A c \in Configs : ~disturbed /\ Decided(c) /\ Admitted(verdicts[c]) =>
    LET a == answer[SpecKey[c]]
    IN /\ a.exit = 0
       /\ Documents(a.stdout) # {}
       /\ \A l \in a.stdout : l.kind # "foreign"

(* Under the same proviso, no admitted configuration has a deny finding in *)
(* any document of its own source, or a warp_id() convergence finding with *)
(* more than one warp.                                                     *)
AdmittedHasNoHazard ==
  \A c \in Configs : ~disturbed /\ Decided(c) /\ Admitted(verdicts[c]) =>
    \A f \in Printed(c) :
      ~DenyTier(f) /\ (ShapeHazard(f) => BlockThreads[c] <= WarpSize)

(* The launch shape only ever counts against a larger block: of two        *)
(* configurations that share a source, admitting the larger block means    *)
(* admitting the smaller, whatever order they were decided in.             *)
SmallerBlockIsNoWorse ==
  \A c, d \in Configs :
    /\ Decided(c) /\ Decided(d)
    /\ SpecKey[c] = SpecKey[d] /\ BlockThreads[c] <= BlockThreads[d]
    /\ Admitted(verdicts[d])
    => Admitted(verdicts[c])

(* One analyzer run serves every configuration of its key.                 *)
OneRunPerKey == \A k \in Keys : runs[k] <= 1

(* One unanalyzable configuration does not keep the others from a verdict. *)
EveryConfigDecided ==
  <>(pc = "failed" \/ \A c \in Configs : Decided(c))

(* The inductive part.  Whatever else uses the scratch copy, the memo is   *)
(* written once per key and every verdict is the rule applied to it.       *)
MemoInv ==
  /\ pc \in {"analyze", "decide"} =>
       config \in Configs /\ verdicts[config] = None
  /\ pc = "analyze" => outcomes[SpecKey[config]] = None
  /\ pc = "decide" => outcomes[SpecKey[config]] # None
  /\ \A k \in Keys : runs[k] = IF outcomes[k] = None THEN 0 ELSE 1
  /\ \A c \in Configs : Decided(c) =>
       /\ outcomes[SpecKey[c]] # None
       /\ verdicts[c] = Decide(outcomes[SpecKey[c]], BlockThreads[c])

(* While nothing else uses it, what the memo holds is the outcome of the   *)
(* key's own source, or an error.                                          *)
SourceInv ==
  /\ pc = "analyze" => scratch = SpecKey[config]
  /\ \A k \in Keys : outcomes[k] \in {None, Outcome(answer[k]), ToolError}

GateInv == MemoInv /\ (~disturbed => SourceInv)
=============================================================================
