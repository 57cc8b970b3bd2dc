------------------------------- MODULE MCGate -------------------------------
(* Instances of Gate for TLC.                                              *)
EXTENDS Gate, TLC

CONSTANTS k1, k2, c32, c64, d64

ThreeConfigs == {c32, c64, d64}
TwoKeys == {k1, k2}
KeyOf == c32 :> k1 @@ c64 :> k1 @@ d64 :> k2
ThreadsOf == c32 :> 32 @@ c64 :> 64 @@ d64 :> 64

F(code, confidence, sources) ==
  [code |-> code, confidence |-> confidence, provenance |-> sources]

WarpWarning == F("RC001", "warning", {"warp_id()"})
Denied == F("RC002", "deny", {"warp_id()"})
OtherWarp == F("RC004", "warning", {"warp_id()"})
MixedWarning == F("RC002", "warning", {"warp_id()", "threadIdx"})

SomeFindings == {WarpWarning, OtherWarp, Denied}
WithMixed == {WarpWarning, MixedWarning}

Text(kind) == [kind |-> kind, findings |-> {}]
Doc(findings) == [kind |-> "document", findings |-> findings]

(* Up to two lines: documents with at most one finding, bare, foreign.     *)
Lines ==
  {Text("foreign"), Text("bare"), Doc({})} \cup {Doc({f}) : f \in Findings}

SomeAnswers ==
  [exit : {0, 1}, stdout : {s \in SUBSET Lines : Cardinality(s) <= 2}]
  \cup {[exit |-> 2, stdout |-> {Doc({})}]}

(* decide.rs, in the test of the rule: a threadIdx-sourced warning is a    *)
(* caveat at any shape.  A warning with two sources, one of them           *)
(* warp_id(), vanishes from the verdict of a one-warp block.               *)
ThreadIdxIsACaveatAtAnyShape ==
  \A c \in Configs : ~disturbed /\ Decided(c) /\ Admitted(verdicts[c]) =>
    \A f \in Printed(c) :
      "threadIdx" \in f.provenance => f \in verdicts[c].caveats
=============================================================================
