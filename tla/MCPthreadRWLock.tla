---------------------------- MODULE MCPthreadRWLock ----------------------------
(***************************************************************************)
(* Instances of PthreadRWLock for TLC.                                     *)
(***************************************************************************)
EXTENDS PthreadRWLock, TLC

CONSTANTS t1, t2, t3

ThreeThreads == {t1, t2, t3}
ThreadSymmetry == Permutations(ThreeThreads)
=============================================================================
