------------------------------- MODULE MCRWLock -------------------------------
(***************************************************************************)
(* Instances of RWLock for TLC.                                            *)
(***************************************************************************)
EXTENDS RWLock

CONSTANTS r1, r2, w1, w2

ThreeThreads == {r1, r2, w1}
TwoWriters == {w1, w2}
TwoWritersReader == {r1, w1, w2}
=============================================================================
