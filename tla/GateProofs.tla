----------------------------- MODULE GateProofs -----------------------------
(* Proofs about the safety gate, for every space of configurations, every  *)
(* set of analyzer answers and every block size.                           *)
EXTENDS Gate, TLAPS

USE GateAssumption, NoneAssumption DEF GateAssumption, NoneAssumption

(* Reading any answer gives an outcome, with findings of the analyzer.     *)
LEMMA OutcomeType ==
  ASSUME NEW a \in Answers
  PROVE  Outcome(a) \in Outcomes
<1>1. a.exit \in Nat /\ a.stdout \in SUBSET Line
  BY DEF Answer
<1>2. UNION {l.findings : l \in Documents(a.stdout)} \subseteq Findings
  <2>1. \A l \in Documents(a.stdout) : l.findings \subseteq Findings
    BY <1>1 DEF Documents, Line
  <2>2. QED
    BY <2>1, Zenon
<1>3. ToolError \in Outcomes
  BY DEF Outcomes
<1>4. CASE a.exit \in {0, 1} /\ Outcome(a) # ToolError
  <2> DEFINE printed == UNION {l.findings : l \in Documents(a.stdout)}
  <2>1. Outcome(a) = [kind |-> "findings", exit |-> a.exit,
                      findings |-> printed]
    BY <1>4 DEF Outcome, ReadStream
  <2>2. printed \in SUBSET Findings
    BY <1>2
  <2> HIDE DEF printed
  <2>3. QED
    BY <2>1, <2>2, <1>4 DEF Outcomes
<1>5. CASE a.exit \notin {0, 1} \/ Outcome(a) = ToolError
  BY <1>3, <1>5 DEF Outcome
<1>6. QED
  BY <1>4, <1>5

(* The decision rule gives a verdict for every outcome and block size.     *)
LEMMA DecideType ==
  ASSUME NEW o \in Outcomes, NEW threads \in Nat
  PROVE  Decide(o, threads) \in Verdicts
<1>1. o.findings \subseteq Findings
  BY DEF Outcomes, ToolError
<1>2. Caveats(o.findings) \in SUBSET Findings
  BY <1>1 DEF Caveats
<1>3. QED
  BY <1>2 DEF Decide, Verdicts

(* The inductive invariant: types, the memo and, in a scratch copy of its  *)
(* own, the source behind every outcome.                                   *)
IndInv == TypeOK /\ GateInv

(* It holds before the first configuration.                                *)
LEMMA InitInv == Init => IndInv
<1> SUFFICES ASSUME Init PROVE IndInv
  OBVIOUS
<1>1. TypeOK
  BY DEF Init, TypeOK
<1>2. MemoInv /\ SourceInv
  BY DEF Init, MemoInv, SourceInv, Decided
<1>3. QED
  BY <1>1, <1>2 DEF IndInv, GateInv

(* The analyzer's run: its outcome enters the memo of the current key.     *)
LEMMA RunInv == IndInv /\ RunReconverge => IndInv'
<1> SUFFICES ASSUME IndInv, RunReconverge PROVE IndInv'
  OBVIOUS
<1> USE DEF IndInv, GateInv
<1>1. PICK o \in {Outcome(answer[scratch]), ToolError} :
        outcomes' = [outcomes EXCEPT ![SpecKey[config]] = o]
  BY DEF RunReconverge
<1>2. o \in Outcomes
  <2>1. Outcome(answer[scratch]) \in Outcomes
    BY OutcomeType DEF TypeOK
  <2>2. ToolError \in Outcomes
    BY DEF Outcomes
  <2>3. QED
    BY <2>1, <2>2
<1>3. config \in Configs /\ outcomes[SpecKey[config]] = None
  BY DEF RunReconverge, MemoInv
<1> DEFINE key == SpecKey[config]
<1>4. /\ key \in Keys /\ runs[key] = 0
      /\ runs' = [runs EXCEPT ![key] = 1]
      /\ outcomes' = [outcomes EXCEPT ![key] = o]
      /\ outcomes[key] = None
  <2>1. key \in Keys /\ outcomes[key] = None
    BY <1>3
  <2>2. runs[key] = 0
    BY <2>1 DEF MemoInv
  <2>3. runs' = [runs EXCEPT ![key] = 0 + 1]
    BY <2>2 DEF RunReconverge
  <2>4. QED
    BY <2>1, <2>2, <2>3, <1>1
<1>5. o # None
  BY <1>2
<1>6. TypeOK'
  <2>1. runs' \in [Keys -> Nat] /\ outcomes' \in [Keys -> Outcomes \cup {None}]
    BY <1>2, <1>4 DEF TypeOK
  <2>2. QED
    BY <2>1, <1>3 DEF TypeOK, RunReconverge
<1>7. MemoInv'
  <2>1. \A k \in Keys : runs'[k] = IF outcomes'[k] = None THEN 0 ELSE 1
    BY <1>4, <1>5 DEF MemoInv, TypeOK
  <2>2. /\ pc' = "decide" /\ config' = config /\ verdicts' = verdicts
        /\ outcomes'[SpecKey[config]] # None /\ verdicts[config] = None
    BY <1>4, <1>5 DEF RunReconverge, MemoInv, TypeOK
  <2>3. ASSUME NEW c \in Configs, Decided(c)'
        PROVE  /\ outcomes'[SpecKey[c]] # None
               /\ verdicts'[c] = Decide(outcomes'[SpecKey[c]], BlockThreads[c])
    <3>1. /\ outcomes[SpecKey[c]] # None
          /\ verdicts[c] = Decide(outcomes[SpecKey[c]], BlockThreads[c])
      BY <2>2, <2>3 DEF MemoInv, Decided
    <3>2. SpecKey[c] # key
      BY <3>1, <1>4
    <3>3. outcomes'[SpecKey[c]] = outcomes[SpecKey[c]]
      BY <3>2, <1>4 DEF TypeOK
    <3>4. QED
      BY <3>1, <3>3, <2>2
  <2>4. QED
    BY <2>1, <2>2, <2>3, <1>3 DEF MemoInv
<1>8. ASSUME ~disturbed' PROVE SourceInv'
  <2>1. o \in {Outcome(answer[key]), ToolError}
    BY <1>1, <1>8 DEF SourceInv, RunReconverge
  <2>2. answer' = answer /\ pc' = "decide"
    BY DEF RunReconverge
  <2>3. \A k \in Keys :
          outcomes'[k] \in {None, Outcome(answer[k]), ToolError}
    BY <2>1, <1>4, <1>8 DEF SourceInv, TypeOK, RunReconverge
  <2>4. QED
    BY <2>2, <2>3 DEF SourceInv
<1>9. QED
  BY <1>6, <1>7, <1>8

(* The rule is applied to what the memo holds.                             *)
LEMMA DecideInv == IndInv /\ DecideConfig => IndInv'
<1> SUFFICES ASSUME IndInv, DecideConfig PROVE IndInv'
  OBVIOUS
<1> USE DEF IndInv, GateInv
<1> DEFINE o == outcomes[SpecKey[config]]
           v == Decide(o, BlockThreads[config])
<1>1. config \in Configs /\ o \in Outcomes /\ o # None
  BY DEF DecideConfig, MemoInv, TypeOK
<1>2. v \in Verdicts
  BY <1>1, DecideType
<1>3. verdicts' = [verdicts EXCEPT ![config] = v] /\ pc' = "next"
      /\ UNCHANGED <<answer, scratch, outcomes, config, runs, disturbed>>
  BY DEF DecideConfig, history
<1>4. /\ verdicts' \in [Configs -> Verdicts \cup {None}]
      /\ verdicts'[config] = v
      /\ \A c \in Configs : c # config => verdicts'[c] = verdicts[c]
  <2> HIDE DEF v
  <2>1. QED
    BY <1>1, <1>2, <1>3 DEF TypeOK
<1> HIDE DEF v
<1>5. TypeOK'
  BY <1>3, <1>4 DEF TypeOK
<1>6. \A c \in Configs : Decided(c)' =>
        /\ outcomes[SpecKey[c]] # None
        /\ verdicts'[c] = Decide(outcomes[SpecKey[c]], BlockThreads[c])
  <2> TAKE c \in Configs
  <2>1. CASE c = config
    BY <2>1, <1>1, <1>4 DEF v
  <2>2. CASE c # config
    BY <2>2, <1>4 DEF MemoInv, Decided
  <2>3. QED
    BY <2>1, <2>2
<1>7. MemoInv'
  BY <1>3, <1>6 DEF MemoInv
<1>8. SourceInv => SourceInv'
  BY <1>3 DEF SourceInv
<1>9. QED
  BY <1>3, <1>5, <1>7, <1>8

(* Every step preserves it, the steps of another command included.         *)
LEMMA StepInv == IndInv /\ [Next]_vars => IndInv'
<1> SUFFICES ASSUME IndInv, [Next]_vars PROVE IndInv'
  OBVIOUS
<1> USE DEF IndInv, GateInv, TypeOK, MemoInv, SourceInv, Decided, history
<1>1. ASSUME NEW c \in Configs, Recall(c) PROVE IndInv'
  BY <1>1 DEF Recall
<1>2. ASSUME NEW c \in Configs, WriteParams(c) PROVE IndInv'
  BY <1>2 DEF WriteParams
<1>3. ASSUME NEW c \in Configs, ParamsFail(c) PROVE IndInv'
  BY <1>3 DEF ParamsFail
<1>4. CASE RunReconverge
  BY <1>4, RunInv
<1>5. CASE DecideConfig
  BY <1>5, DecideInv
<1>6. CASE Finish
  BY <1>6 DEF Finish
<1>7. CASE OtherCommand
  BY <1>7 DEF OtherCommand
<1>8. CASE UNCHANGED vars
  BY <1>8 DEF vars
<1>9. QED
  BY <1>1, <1>2, <1>3, <1>4, <1>5, <1>6, <1>7, <1>8 DEF Next, Prune

(* The types and the memo invariant hold in every reachable state.         *)
THEOREM GateInvariance == Spec => [](TypeOK /\ GateInv)
<1>1. Spec => []IndInv
  BY InitInv, StepInv, PTL DEF Spec
<1>2. QED
  BY <1>1, PTL DEF IndInv

-----------------------------------------------------------------------------
(* What follows from the invariant.                                        *)

(* The gate keeps its memo, its verdicts and its place well formed: a      *)
(* verdict is one of Decide's, and only a configuration of the space gets  *)
(* one.                                                                    *)
THEOREM GateTypes == Spec => []TypeOK
BY GateInvariance, PTL

(* One analyzer run serves every configuration of its key.                 *)
THEOREM OneRun == Spec => []OneRunPerKey
<1>1. TypeOK /\ GateInv => OneRunPerKey
  BY DEF GateInv, MemoInv, OneRunPerKey
<1>2. QED
  BY <1>1, GateInvariance, PTL

(* A larger block has at least the rejections of a smaller one.            *)
LEMMA DecideMonotone ==
  ASSUME NEW o \in Outcomes, NEW m \in Nat, NEW n \in Nat, m <= n,
         Admitted(Decide(o, n))
  PROVE  Admitted(Decide(o, m))
<1>1. Rejections(o.findings, m) \subseteq Rejections(o.findings, n)
  BY DEF Rejections, WarpSize
<1>2. o.kind # "tool_error" /\ Rejections(o.findings, n) = {} /\ o.exit # 1
  BY DEF Decide, Admitted
<1>3. QED
  BY <1>1, <1>2 DEF Decide, Admitted

(* The launch shape only ever counts against a larger block, whatever the  *)
(* order of the decisions and whoever else uses the scratch copy.          *)
THEOREM SmallerBlock == Spec => []SmallerBlockIsNoWorse
<1>1. TypeOK /\ GateInv => SmallerBlockIsNoWorse
  <2> SUFFICES ASSUME TypeOK, GateInv,
                      NEW c \in Configs, NEW d \in Configs,
                      Decided(c), Decided(d), SpecKey[c] = SpecKey[d],
                      BlockThreads[c] <= BlockThreads[d],
                      Admitted(verdicts[d])
               PROVE  Admitted(verdicts[c])
    BY DEF SmallerBlockIsNoWorse
  <2>1. outcomes[SpecKey[d]] \in Outcomes
    BY DEF TypeOK, GateInv, MemoInv
  <2>2. /\ verdicts[c] = Decide(outcomes[SpecKey[d]], BlockThreads[c])
        /\ verdicts[d] = Decide(outcomes[SpecKey[d]], BlockThreads[d])
    BY DEF GateInv, MemoInv
  <2>3. QED
    BY <2>1, <2>2, DecideMonotone
<1>2. QED
  BY <1>1, GateInvariance, PTL

(* What an admitted verdict says of the outcome it was decided from.       *)
LEMMA AdmittedOutcome ==
  ASSUME NEW o \in Outcomes, NEW n \in Nat, Admitted(Decide(o, n))
  PROVE  /\ o # ToolError /\ o.exit = 0
         /\ \A f \in o.findings :
              ~DenyTier(f) /\ (ShapeHazard(f) => n <= WarpSize)
<1>1. o.kind # "tool_error" /\ Rejections(o.findings, n) = {} /\ o.exit # 1
  BY DEF Decide, Admitted
<1>2. o # ToolError /\ o.exit \in {0, 1}
  BY <1>1 DEF Outcomes, ToolError
<1>3. QED
  BY <1>1, <1>2 DEF Rejections, WarpSize

(* An outcome other than an error is what the run printed.                 *)
LEMMA OutcomeOfRun ==
  ASSUME NEW a \in Answers, Outcome(a) # ToolError
  PROVE  /\ Outcome(a).exit = a.exit
         /\ Outcome(a).findings = UNION {l.findings : l \in Documents(a.stdout)}
         /\ Documents(a.stdout) # {}
         /\ \A l \in a.stdout : l.kind # "foreign"
BY DEF Outcome, ReadStream

(* While nothing else uses the scratch copy, an admitted configuration was *)
(* decided from what the analyzer does on its own source.                  *)
LEMMA AdmittedSource ==
  ASSUME TypeOK, GateInv, ~disturbed,
         NEW c \in Configs, Decided(c), Admitted(verdicts[c])
  PROVE  LET a == answer[SpecKey[c]]
         IN /\ a \in Answers
            /\ Outcome(a) \in Outcomes /\ Outcome(a) # ToolError
            /\ verdicts[c] = Decide(Outcome(a), BlockThreads[c])
<1> DEFINE o == outcomes[SpecKey[c]]
<1>1. /\ o \in Outcomes /\ verdicts[c] = Decide(o, BlockThreads[c])
      /\ o # None
  BY DEF TypeOK, GateInv, MemoInv
<1>2. answer[SpecKey[c]] \in Answers
  BY DEF TypeOK
<1>3. o # ToolError
  BY <1>1, AdmittedOutcome
<1>4. o = Outcome(answer[SpecKey[c]])
  BY <1>1, <1>3 DEF GateInv, SourceInv
<1>5. QED
  BY <1>1, <1>2, <1>3, <1>4

(* Unless another command used the scratch copy, an exit 1, an exit 2, a   *)
(* crash, a foreign line or an empty output is never a pass.               *)
THEOREM NoPassByOmission ==
  Spec => []NeverAPassByOmission
<1>1. TypeOK /\ GateInv => NeverAPassByOmission
  <2> SUFFICES ASSUME TypeOK, GateInv, ~disturbed,
                      NEW c \in Configs, Decided(c), Admitted(verdicts[c])
               PROVE  LET a == answer[SpecKey[c]]
                      IN /\ a.exit = 0
                         /\ Documents(a.stdout) # {}
                         /\ \A l \in a.stdout : l.kind # "foreign"
    BY DEF NeverAPassByOmission
  <2>1. QED
    BY AdmittedSource, AdmittedOutcome, OutcomeOfRun
<1>2. QED
  BY <1>1, GateInvariance, PTL

(* Under the same proviso no admitted configuration has a deny finding on  *)
(* its own source, or a warp_id() convergence finding and several warps.   *)
THEOREM NoHazardAdmitted ==
  Spec => []AdmittedHasNoHazard
<1>1. TypeOK /\ GateInv => AdmittedHasNoHazard
  <2> SUFFICES ASSUME TypeOK, GateInv, ~disturbed,
                      NEW c \in Configs, Decided(c), Admitted(verdicts[c]),
                      NEW f \in Printed(c)
               PROVE  /\ ~DenyTier(f)
                      /\ ShapeHazard(f) => BlockThreads[c] <= WarpSize
    BY DEF AdmittedHasNoHazard
  <2> DEFINE a == answer[SpecKey[c]]
  <2>1. /\ a \in Answers /\ Outcome(a) # ToolError
        /\ Outcome(a) \in Outcomes
        /\ Admitted(Decide(Outcome(a), BlockThreads[c]))
    BY AdmittedSource
  <2>2. Outcome(a).findings = UNION {l.findings : l \in Documents(a.stdout)}
    BY <2>1, OutcomeOfRun
  <2>3. Printed(c) = Outcome(a).findings
    BY <2>2 DEF Printed
  <2>4. QED
    BY <2>1, <2>3, AdmittedOutcome
<1>2. QED
  BY <1>1, GateInvariance, PTL
=============================================================================
