-------------------------------- MODULE MCVars ---------------------------------
(* Instances of Vars for TLC. *)
EXTENDS Vars, TLC

CONSTANTS t1, t2, a1, a2, a3, a4

TwoThreads == {t1, t2}
FourAddrs == {a1, a2, a3, a4}
ThreeNames == 1..3
\* Addresses are compared for equality only, and all threads may do the same.
AllAlike == Permutations(TwoThreads) \cup Permutations(FourAddrs)
=============================================================================
