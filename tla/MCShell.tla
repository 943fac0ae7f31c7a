-------------------------------- MODULE MCShell --------------------------------
(* Instances of Shell for TLC. *)
EXTENDS Shell, TLC

CONSTANTS f1, f2, f3

ThreeFiles == {f1, f2, f3}
\* Symmetry: which stream fopen returns is of no consequence.
ThreeSymmetry == Permutations(ThreeFiles)
=============================================================================
