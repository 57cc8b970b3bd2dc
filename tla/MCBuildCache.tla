---------------------------- MODULE MCBuildCache ----------------------------
(* Instances of BuildCache for TLC.                                        *)
EXTENDS BuildCache, TLC

CONSTANTS p1, lib, util, lock, dep, v1, v2, k1, k2

OneProc == {p1}
(* A file of src/, a nested one, Cargo.lock and a path dependency.         *)
Crate == {lib, lock}
LockFile == {lock}
Hidden == {util, lock, dep}
Dependency == {dep}
Plain == {lib}
NoFile == {}
TwoVersions == {v1, v2}
TwoKeys == {k1, k2}

(* Contents and keys are compared and copied, never told apart.            *)
Symmetry == Permutations(TwoVersions) \cup Permutations(TwoKeys)
=============================================================================
