---------------------------- MODULE AbstractRWLock ----------------------------
(***************************************************************************)
(* What the comment above cexpReadLock in cexplock.h promises: any number  *)
(* of read locks, or one writer, who may nest read locks of its own.       *)
(* held[t] is the number of read locks thread t has, writing[t] whether it *)
(* has the write lock.                                                     *)
(***************************************************************************)
EXTENDS Naturals

CONSTANTS Threads, Writers, MaxNest

VARIABLES held, writing

vars == <<held, writing>>

Init ==
    /\ held = [t \in Threads |-> 0]
    /\ writing = [t \in Threads |-> FALSE]

AcquireRead(t) ==
    /\ \A u \in Threads \ {t} : ~writing[u]
    /\ held[t] < MaxNest
    /\ held' = [held EXCEPT ![t] = @ + 1]
    /\ UNCHANGED writing

ReleaseRead(t) ==
    /\ held[t] > 0
    /\ held' = [held EXCEPT ![t] = @ - 1]
    /\ UNCHANGED writing

AcquireWrite(t) ==
    /\ t \in Writers
    /\ \A u \in Threads : held[u] = 0 /\ ~writing[u]
    /\ writing' = [writing EXCEPT ![t] = TRUE]
    /\ UNCHANGED held

ReleaseWrite(t) ==
    /\ writing[t] /\ held[t] = 0
    /\ writing' = [writing EXCEPT ![t] = FALSE]
    /\ UNCHANGED held

Next ==
    \E t \in Threads :
        \/ AcquireRead(t) \/ ReleaseRead(t)
        \/ AcquireWrite(t) \/ ReleaseWrite(t)

Spec == Init /\ [][Next]_vars
=============================================================================
