----------------------------- MODULE PthreadRWLock -----------------------------
(***************************************************************************)
(* The readers/writer lock of cexplock.h in a build with HAVE_PTHREADS:    *)
(* the four operations are macros over one pthread_rwlock_t, both unlocks  *)
(* are pthread_rwlock_unlock, and every return code is dropped.            *)
(*                                                                         *)
(* The library is external; its lock is the set of threads that hold it    *)
(* for reading (a bag: rdCount) and the one that holds it for writing.     *)
(* POSIX lets pthread_rwlock_rdlock by the thread that holds the write     *)
(* lock either fail with EDEADLK, taking nothing, or deadlock; the first   *)
(* is what glibc does and is modelled.  pthread_rwlock_unlock by a thread  *)
(* that holds nothing is undefined; it is not modelled further than that   *)
(* it is reached (misuse).                                                 *)
(***************************************************************************)
EXTENDS Naturals, FiniteSets

CONSTANTS
    Threads,    \* the threads that use the lock
    MaxCalls,   \* bound: locks one thread takes
    NoOne       \* nobody has the write lock

VARIABLES
    curWriter, rdCount,  \* the pthread_rwlock_t
    inRead, inWrite,     \* what each thread believes it holds
    misuse,              \* an unlock of a lock not held has happened
    calls

vars == <<curWriter, rdCount, inRead, inWrite, misuse, calls>>

Init ==
    /\ curWriter = NoOne
    /\ rdCount = [t \in Threads |-> 0]
    /\ inRead = [t \in Threads |-> FALSE]
    /\ inWrite = [t \in Threads |-> FALSE]
    /\ misuse = FALSE
    /\ calls = [t \in Threads |-> 0]

-----------------------------------------------------------------------------
(* The library *)

\* pthread_rwlock_rdlock: returns with a read lock when there is no writer;
\* fails at once when the caller is the writer.
rdlock(t) ==
    \/ curWriter = NoOne /\ rdCount' = [rdCount EXCEPT ![t] = @ + 1] /\ UNCHANGED curWriter
    \/ curWriter = t /\ UNCHANGED <<rdCount, curWriter>>

\* pthread_rwlock_wrlock by a thread that holds nothing.
wrlock(t) ==
    /\ curWriter = NoOne /\ \A u \in Threads : rdCount[u] = 0
    /\ curWriter' = t
    /\ UNCHANGED rdCount

\* pthread_rwlock_unlock: gives back the write lock if the caller has it, a
\* read lock otherwise.
unlock(t) ==
    \/ /\ curWriter = t
       /\ curWriter' = NoOne
       /\ UNCHANGED <<rdCount, misuse>>
    \/ /\ curWriter # t /\ rdCount[t] > 0
       /\ rdCount' = [rdCount EXCEPT ![t] = @ - 1]
       /\ UNCHANGED <<curWriter, misuse>>
    \/ /\ curWriter # t /\ rdCount[t] = 0
       /\ misuse' = TRUE
       /\ UNCHANGED <<curWriter, rdCount>>

-----------------------------------------------------------------------------
(* The macros, as cexpmod.c calls them *)

Call(t) == calls[t] < MaxCalls /\ calls' = [calls EXCEPT ![t] = @ + 1]

\* __RLOCK: by a thread outside, or nested in cexpModuleLoad (cexpSymLookup
\* from resolve_syms, s_reloc, s_eliminate_linkonce).
cexpReadLock(t) ==
    /\ ~inRead[t]
    /\ Call(t)
    /\ rdlock(t)
    /\ inRead' = [inRead EXCEPT ![t] = TRUE]
    /\ UNCHANGED <<inWrite, misuse>>

cexpReadUnlock(t) ==
    /\ inRead[t]
    /\ unlock(t)
    /\ inRead' = [inRead EXCEPT ![t] = FALSE]
    /\ UNCHANGED <<inWrite, calls>>

cexpWriteLock(t) ==
    /\ ~inRead[t] /\ ~inWrite[t]
    /\ Call(t)
    /\ wrlock(t)
    /\ inWrite' = [inWrite EXCEPT ![t] = TRUE]
    /\ UNCHANGED <<inRead, misuse>>

cexpWriteUnlock(t) ==
    /\ inWrite[t] /\ ~inRead[t]
    /\ unlock(t)
    /\ inWrite' = [inWrite EXCEPT ![t] = FALSE]
    /\ UNCHANGED <<inRead, calls>>

Terminating ==
    /\ \A t \in Threads : ~inRead[t] /\ ~inWrite[t]
    /\ UNCHANGED vars

\* After a misuse the library's state is undefined: nothing more is modelled.
Next ==
    \/ /\ ~misuse
       /\ \E t \in Threads : \/ cexpReadLock(t) \/ cexpReadUnlock(t)
                             \/ cexpWriteLock(t) \/ cexpWriteUnlock(t)
    \/ Terminating

Spec == Init /\ [][Next]_vars

-----------------------------------------------------------------------------

\* "the entire cexpLoadFile() routine is called with the WRITE_LOCK held, so
\* mutex is guaranteed" (bfdstuff.c): between cexpWriteLock and
\* cexpWriteUnlock of one thread, no other is between a lock and its unlock.
WriteExcludes ==
    \A t, u \in Threads : inWrite[t] /\ u # t => ~inWrite[u] /\ ~inRead[u]
=============================================================================
