------------------------------ MODULE PtxStore ------------------------------
(***************************************************************************)
(* What the artifact cache promises (the doc comment of ArtifactCache): a  *)
(* content-addressed store.  An entry is the PTX of a source with that     *)
(* hash, and once there it is never invalidated or replaced.               *)
(*                                                                         *)
(* BuildCache.tla is the detailed specification that implements this one.  *)
(***************************************************************************)
CONSTANTS
  Sources,   \* sources; cargo oxide maps a source to one PTX, named by it
  Hashes,
  HashOf(_), \* the hash of a source
  Absent     \* no entry

VARIABLE entry

Init == entry = [h \in Hashes |-> Absent]

Add(s) ==
  /\ entry[HashOf(s)] = Absent
  /\ entry' = [entry EXCEPT ![HashOf(s)] = s]

Next == \E s \in Sources : Add(s)

Spec == Init /\ [][Next]_entry
=============================================================================
