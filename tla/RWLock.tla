-------------------------------- MODULE RWLock --------------------------------
(***************************************************************************)
(* The readers/writer lock of cexplock.h (the branch built without         *)
(* pthreads: RTEMS semaphores or EPICS mutex and event), which guards the  *)
(* list of modules.  The lock record is                                    *)
(*                                                                         *)
(*   mutex             a recursive binary semaphore (owner and nesting)    *)
(*   readers           number of read locks held                           *)
(*   nap               a simple binary semaphore, created empty, on which  *)
(*                     writers sleep; FIFO, and a release finds it full    *)
(*                     without effect                                      *)
(*   sleeping_writers  writers that announced that they go to sleep        *)
(*                                                                         *)
(* Every statement of the four routines is a step.  A thread obeys the     *)
(* rule of the comment above them: it never asks for the write lock while  *)
(* it reads, but may nest read locks under either lock.                    *)
(***************************************************************************)
EXTENDS Naturals, Sequences, FiniteSets

CONSTANTS
    Threads,    \* the threads that use the lock
    Writers,    \* those among them that ever ask for the write lock
    MaxNest,    \* bound: read locks one thread holds at a time
    MaxCalls,   \* bound: lock requests one thread makes
    NoOne       \* the owner of a free mutex

ASSUME ThreadsFinite == IsFiniteSet(Threads)
ASSUME WritersAreThreads == Writers \subseteq Threads
ASSUME BoundsAreNat == MaxNest \in Nat /\ MaxCalls \in Nat
ASSUME NoOneIsNoThread == NoOne \notin Threads

VARIABLES
    owner, depth,       \* l->mutex
    readers,            \* l->readers
    napFull, napQueue,  \* l->nap: its count and the writers blocked on it
    sleeping_writers,   \* l->sleeping_writers
    pc,                 \* the statement each thread is at
    held,               \* read locks each thread holds
    writing,            \* whether a thread has the write lock
    calls               \* lock requests each thread has made

lockVars == <<owner, depth, readers, napFull, napQueue, sleeping_writers>>
vars == <<lockVars, pc, held, writing, calls>>

\* "run": outside the lock routines; the others name a statement of
\* cexpReadLock (rl), cexpReadUnlock (ru) or cexpWriteLock (wl).
Labels == {"run", "rl_lock", "rl_inc", "rl_unlock",
           "ru_lock", "ru_dec", "ru_send", "ru_unlock",
           "wl_lock", "wl_test", "wl_unlock", "wl_wait", "wl_nap", "wl_relock"}

\* Statements executed between cexpLock(l->mutex) and cexpUnlock(l->mutex).
Inner == {"rl_inc", "rl_unlock", "ru_dec", "ru_send", "ru_unlock",
          "wl_test", "wl_unlock"}

\* A writer that has announced itself and has not been woken.
Sleepy == {"wl_unlock", "wl_wait", "wl_nap"}

Init ==
    /\ owner = NoOne /\ depth = 0
    /\ readers = 0
    /\ napFull = FALSE /\ napQueue = <<>>
    /\ sleeping_writers = 0
    /\ pc = [t \in Threads |-> "run"]
    /\ held = [t \in Threads |-> 0]
    /\ writing = [t \in Threads |-> FALSE]
    /\ calls = [t \in Threads |-> 0]

-----------------------------------------------------------------------------
(* The mutex and the event. *)

Goto(t, from, to) == pc[t] = from /\ pc' = [pc EXCEPT ![t] = to]

\* Mutant: the semaphore does not exclude other threads.
cexpLockIgnoringOwner(t) ==
    /\ owner' = t
    /\ depth' = depth + 1

cexpLock(t) ==
    /\ owner \in {NoOne, t}
    /\ owner' = t
    /\ depth' = depth + 1

cexpUnlock(t) ==
    /\ depth' = depth - 1
    /\ owner' = IF depth = 1 THEN NoOne ELSE owner

-----------------------------------------------------------------------------
(* cexpReadLock *)

ReadLockCall(t) ==
    /\ calls[t] < MaxCalls /\ held[t] < MaxNest
    /\ Goto(t, "run", "rl_lock")
    /\ calls' = [calls EXCEPT ![t] = @ + 1]
    /\ UNCHANGED <<lockVars, held, writing>>

ReadLockObtain(t) ==
    /\ Goto(t, "rl_lock", "rl_inc")
    /\ cexpLock(t)
    /\ UNCHANGED <<readers, napFull, napQueue, sleeping_writers, held, writing, calls>>

ReadLockCount(t) ==
    /\ Goto(t, "rl_inc", "rl_unlock")
    /\ readers' = readers + 1
    /\ held' = [held EXCEPT ![t] = @ + 1]
    /\ UNCHANGED <<owner, depth, napFull, napQueue, sleeping_writers, writing, calls>>

\* Mutant: cexpReadLock returns without giving the mutex back.
ReadLockKeepsMutex(t) ==
    /\ Goto(t, "rl_unlock", "run")
    /\ UNCHANGED <<lockVars, held, writing, calls>>

ReadLockRelease(t) ==
    /\ Goto(t, "rl_unlock", "run")
    /\ cexpUnlock(t)
    /\ UNCHANGED <<readers, napFull, napQueue, sleeping_writers, held, writing, calls>>

-----------------------------------------------------------------------------
(* cexpReadUnlock *)

ReadUnlockCall(t) ==
    /\ held[t] > 0
    /\ Goto(t, "run", "ru_lock")
    /\ UNCHANGED <<lockVars, held, writing, calls>>

ReadUnlockObtain(t) ==
    /\ Goto(t, "ru_lock", "ru_dec")
    /\ cexpLock(t)
    /\ UNCHANGED <<readers, napFull, napQueue, sleeping_writers, held, writing, calls>>

\* The last reader owes the sleeping writers a wake-up.
ReadUnlockCount(t) ==
    LET wake == readers = 1 /\ sleeping_writers > 0 IN
    /\ Goto(t, "ru_dec", IF wake THEN "ru_send" ELSE "ru_unlock")
    /\ readers' = readers - 1
    /\ sleeping_writers' = IF wake THEN sleeping_writers - 1 ELSE sleeping_writers
    /\ held' = [held EXCEPT ![t] = @ - 1]
    /\ UNCHANGED <<owner, depth, napFull, napQueue, writing, calls>>

\* Mutant: a wake-up sent before anybody sleeps is forgotten.
ReadUnlockSendForgotten(t) ==
    /\ pc[t] = "ru_send"
    /\ \/ /\ napQueue # <<>>
          /\ pc' = [pc EXCEPT ![t] = "ru_unlock", ![Head(napQueue)] = "wl_relock"]
          /\ napQueue' = Tail(napQueue)
       \/ /\ napQueue = <<>>
          /\ pc' = [pc EXCEPT ![t] = "ru_unlock"]
          /\ UNCHANGED napQueue
    /\ UNCHANGED <<owner, depth, readers, napFull, sleeping_writers, held, writing, calls>>

\* cexpEventSend(l->nap): hands over to the first blocked writer, otherwise
\* fills the semaphore, which stays full if it is full already.
ReadUnlockSend(t) ==
    /\ pc[t] = "ru_send"
    /\ \/ /\ napQueue # <<>>
          /\ pc' = [pc EXCEPT ![t] = "ru_unlock", ![Head(napQueue)] = "wl_relock"]
          /\ napQueue' = Tail(napQueue)
          /\ UNCHANGED napFull
       \/ /\ napQueue = <<>>
          /\ pc' = [pc EXCEPT ![t] = "ru_unlock"]
          /\ napFull' = TRUE
          /\ UNCHANGED napQueue
    /\ UNCHANGED <<owner, depth, readers, sleeping_writers, held, writing, calls>>

ReadUnlockRelease(t) ==
    /\ Goto(t, "ru_unlock", "run")
    /\ cexpUnlock(t)
    /\ UNCHANGED <<readers, napFull, napQueue, sleeping_writers, held, writing, calls>>

-----------------------------------------------------------------------------
(* cexpWriteLock and cexpWriteUnlock *)

WriteLockCall(t) ==
    /\ t \in Writers /\ calls[t] < MaxCalls
    /\ held[t] = 0 /\ ~writing[t]
    /\ Goto(t, "run", "wl_lock")
    /\ calls' = [calls EXCEPT ![t] = @ + 1]
    /\ UNCHANGED <<lockVars, held, writing>>

WriteLockObtain(t) ==
    /\ Goto(t, "wl_lock", "wl_test")
    /\ cexpLock(t)
    /\ UNCHANGED <<readers, napFull, napQueue, sleeping_writers, held, writing, calls>>

\* Mutant: the writer does not wait for the readers.
WriteLockEnterAnyway(t) ==
    /\ Goto(t, "wl_test", "run")
    /\ writing' = [writing EXCEPT ![t] = TRUE]
    /\ UNCHANGED <<lockVars, held, calls>>

\* while (l->readers) fails: the routine returns with the mutex held.
WriteLockEnter(t) ==
    /\ readers = 0
    /\ Goto(t, "wl_test", "run")
    /\ writing' = [writing EXCEPT ![t] = TRUE]
    /\ UNCHANGED <<lockVars, held, calls>>

\* Mutant: the writer goes to sleep unannounced.
WriteLockAnnounceNothing(t) ==
    /\ readers > 0
    /\ Goto(t, "wl_test", "wl_unlock")
    /\ UNCHANGED <<lockVars, held, writing, calls>>

WriteLockAnnounce(t) ==
    /\ readers > 0
    /\ Goto(t, "wl_test", "wl_unlock")
    /\ sleeping_writers' = sleeping_writers + 1
    /\ UNCHANGED <<owner, depth, readers, napFull, napQueue, held, writing, calls>>

WriteLockRelease(t) ==
    /\ Goto(t, "wl_unlock", "wl_wait")
    /\ cexpUnlock(t)
    /\ UNCHANGED <<readers, napFull, napQueue, sleeping_writers, held, writing, calls>>

\* cexpEventWait(l->nap): takes a full semaphore, blocks on an empty one.
WriteLockWait(t) ==
    /\ \/ /\ napFull
          /\ Goto(t, "wl_wait", "wl_relock")
          /\ napFull' = FALSE
          /\ UNCHANGED napQueue
       \/ /\ ~napFull
          /\ Goto(t, "wl_wait", "wl_nap")
          /\ napQueue' = Append(napQueue, t)
          /\ UNCHANGED napFull
    /\ UNCHANGED <<owner, depth, readers, sleeping_writers, held, writing, calls>>

WriteLockRelock(t) ==
    /\ Goto(t, "wl_relock", "wl_test")
    /\ cexpLock(t)
    /\ UNCHANGED <<readers, napFull, napQueue, sleeping_writers, held, writing, calls>>

\* Mutant: the mutex is not given back by the writer.
WriteUnlockForgotten(t) ==
    /\ writing[t] /\ held[t] = 0
    /\ Goto(t, "run", "run")
    /\ writing' = [writing EXCEPT ![t] = FALSE]
    /\ UNCHANGED <<lockVars, held, calls>>

WriteUnlock(t) ==
    /\ writing[t] /\ held[t] = 0
    /\ Goto(t, "run", "run")
    /\ writing' = [writing EXCEPT ![t] = FALSE]
    /\ cexpUnlock(t)
    /\ UNCHANGED <<readers, napFull, napQueue, sleeping_writers, held, calls>>

-----------------------------------------------------------------------------

\* Steps inside the lock routines, and the calls that give a lock back.
Progress(t) ==
    \/ ReadLockObtain(t) \/ ReadLockCount(t) \/ ReadLockRelease(t)
    \/ ReadUnlockCall(t) \/ ReadUnlockObtain(t) \/ ReadUnlockCount(t)
    \/ ReadUnlockSend(t) \/ ReadUnlockRelease(t)
    \/ WriteLockObtain(t) \/ WriteLockEnter(t) \/ WriteLockAnnounce(t)
    \/ WriteLockRelease(t) \/ WriteLockWait(t) \/ WriteLockRelock(t)
    \/ WriteUnlock(t)

Request(t) == ReadLockCall(t) \/ WriteLockCall(t)

\* Every thread has made its calls and given everything back.
Terminating ==
    /\ \A t \in Threads : pc[t] = "run" /\ held[t] = 0 /\ ~writing[t]
    /\ UNCHANGED vars

Next == (\E t \in Threads : Request(t) \/ Progress(t)) \/ Terminating

Spec == Init /\ [][Next]_vars

(***************************************************************************)
(* A thread inside a routine keeps running and a lock that is held is      *)
(* eventually given back.  The mutex is a priority semaphore: a thread     *)
(* that waits for it gets it if it becomes free again and again, as long   *)
(* as no higher-priority thread takes it forever; requests are bounded, so *)
(* strong fairness states that.                                            *)
(***************************************************************************)
Fairness ==
    \A t \in Threads : SF_vars(Progress(t))

FairSpec == Spec /\ Fairness

-----------------------------------------------------------------------------
(* Properties *)

\* Types; the recursive mutex is never nested deeper than a writer's lock and one
\* routine inside it.
TypeOK ==
    /\ owner \in Threads \cup {NoOne} /\ depth \in 0..2
    /\ readers \in Nat /\ sleeping_writers \in Nat
    /\ napFull \in BOOLEAN /\ napQueue \in Seq(Threads)
    /\ pc \in [Threads -> Labels]
    /\ held \in [Threads -> 0..MaxNest]
    /\ writing \in [Threads -> BOOLEAN]
    /\ calls \in [Threads -> 0..MaxCalls]

\* What the lock is for: no thread reads or writes the module list while
\* another one has the write lock (cexpModuleLoad, cexpModuleUnload).
Exclusion ==
    \A t, u \in Threads : writing[t] /\ u # t => ~writing[u] /\ held[u] = 0

\* The lock implements its specification: read and write locks are granted
\* and returned only as AbstractRWLock allows.
Abstract == INSTANCE AbstractRWLock WITH
                Threads <- Threads, Writers <- Writers, MaxNest <- MaxNest,
                held <- held, writing <- writing
LockSpec == Abstract!Spec

\* Wake-ups on their way to a sleeping writer: announced to the readers, about
\* to be sent by one, or stored in the semaphore.
WakeupsOwed ==
    sleeping_writers
    + Cardinality({u \in Threads : pc[u] = "ru_send"})
    + (IF napFull THEN 1 ELSE 0)

\* No wake-up gets lost between cexpUnlock(l->mutex) and
\* cexpEventWait(l->nap) in cexpWriteLock: each writer that has announced
\* itself and still sleeps has one coming.
NoLostWakeup ==
    WakeupsOwed = Cardinality({t \in Threads : pc[t] \in Sleepy})

\* A thread that calls cexpWriteLock gets the write lock.
WriterGetsIn ==
    \A t \in Writers : pc[t] = "wl_lock" ~> writing[t]

\* A thread that calls cexpReadLock gets a read lock.
ReaderGetsIn ==
    \A t \in Threads : pc[t] = "rl_lock" ~> pc[t] = "run" /\ held[t] > 0

\* Nobody who asks for the lock is left asleep.
EverybodyGetsIn == WriterGetsIn /\ ReaderGetsIn

-----------------------------------------------------------------------------
(* The inductive invariant behind Exclusion and LockSpec *)

\* One token per read lock held: the i-th lock of thread t is <<t, i>>.
Tokens == {k \in Threads \X (1..MaxNest) : k[2] <= held[k[1]]}

\* l->readers counts the read locks, nested ones and the writer's included.
ReadersCounted == readers = Cardinality(Tokens)

\* Whoever writes, or is between a cexpLock and its cexpUnlock, owns the
\* mutex, as often as it has obtained it.
MutexOwned ==
    /\ \A t \in Threads : writing[t] \/ pc[t] \in Inner => owner = t
    /\ owner = NoOne => depth = 0
    /\ \A t \in Threads : owner = t =>
         depth = (IF writing[t] THEN 1 ELSE 0) + (IF pc[t] \in Inner THEN 1 ELSE 0)
    /\ owner # NoOne => depth > 0

\* What holds of a thread on its way through a routine.
InWriteLock == {"wl_lock", "wl_test", "wl_unlock", "wl_wait", "wl_nap", "wl_relock"}

Consistent ==
    \A t \in Threads :
        /\ pc[t] \in InWriteLock => t \in Writers /\ ~writing[t] /\ held[t] = 0
        /\ pc[t] \in {"ru_lock", "ru_dec"} => held[t] > 0
        /\ pc[t] \in {"rl_lock", "rl_inc"} => held[t] < MaxNest

\* The queue of the semaphore holds the blocked writers, each once.
QueueOK ==
    /\ \A i \in 1..Len(napQueue) : pc[napQueue[i]] = "wl_nap"
    /\ \A i, j \in 1..Len(napQueue) : napQueue[i] = napQueue[j] => i = j

\* The count of readers, the ownership of the mutex and the queue of the event
\* agree with what the threads hold and where they are, at every statement of
\* the four routines.
IInv ==
    /\ TypeOK
    /\ ReadersCounted
    /\ MutexOwned
    /\ Consistent
    /\ QueueOK
    /\ Exclusion
=============================================================================
