----------------------------- MODULE RWLockProofs -----------------------------
(***************************************************************************)
(* Proofs about RWLock for any finite set of threads and any bounds: the   *)
(* invariant IInv is inductive, it gives Exclusion, and every step of the  *)
(* lock is a step of AbstractRWLock or leaves it alone.                    *)
(***************************************************************************)
EXTENDS RWLock, FiniteSetTheorems, TLAPS

\* The tokens are finite in number, so Cardinality counts them.
LEMMA TokensFinite ==
    /\ IsFiniteSet(Threads \X (1..MaxNest))
    /\ IsFiniteSet(Tokens)
<1>1. IsFiniteSet(1..MaxNest)
  BY BoundsAreNat, FS_Interval
<1>2. IsFiniteSet(Threads \X (1..MaxNest))
  BY <1>1, ThreadsFinite, FS_Product
<1>3. Tokens \subseteq Threads \X (1..MaxNest)
  BY DEF Tokens
<1> QED
  BY <1>2, <1>3, FS_Subset

\* readers is zero only when nobody reads: what cexpWriteLock's loop relies on.
LEMMA NoReaders ==
    ASSUME TypeOK, ReadersCounted
    PROVE  /\ readers = 0 => \A t \in Threads : held[t] = 0
           /\ \A t \in Threads : held[t] > 0 => readers > 0
<1>1. Cardinality(Tokens) \in Nat
  BY TokensFinite, FS_CardinalityType
<1>2. ASSUME NEW t \in Threads, held[t] > 0
      PROVE  <<t, 1>> \in Tokens
  BY <1>2, BoundsAreNat DEF TypeOK, Tokens
<1>3. Cardinality(Tokens) = 0 => Tokens = {}
  BY TokensFinite, FS_EmptySet
<1>4. ASSUME NEW t \in Threads, held[t] > 0
      PROVE  readers > 0
  <2>1. Tokens # {}
    BY <1>2, <1>4
  <2>2. Cardinality(Tokens) # 0
    BY <2>1, <1>3
  <2> QED
    BY <1>1, <2>2 DEF ReadersCounted
<1>5. \A t \in Threads : held[t] \in Nat
  BY BoundsAreNat DEF TypeOK
<1> QED
  BY <1>4, <1>5

\* Taking a read lock adds one token, giving it back removes one.
LEMMA TokenStep ==
    ASSUME TypeOK, NEW t \in Threads
    PROVE  /\ held[t] < MaxNest /\ held' = [held EXCEPT ![t] = @ + 1]
              => Cardinality(Tokens') = Cardinality(Tokens) + 1
           /\ held[t] > 0 /\ held' = [held EXCEPT ![t] = @ - 1]
              => Cardinality(Tokens') = Cardinality(Tokens) - 1
<1> DEFINE here == <<t, held[t]>>
           next == <<t, held[t] + 1>>
<1>0. held[t] \in Nat /\ held[t] <= MaxNest /\ \A u \in Threads : held[u] \in Nat
  BY BoundsAreNat DEF TypeOK
<1>1. ASSUME held[t] < MaxNest, held' = [held EXCEPT ![t] = @ + 1]
      PROVE  Cardinality(Tokens') = Cardinality(Tokens) + 1
  <2>1. Tokens' = Tokens \cup {next}
    <3>1. ASSUME NEW u \in Threads, NEW i \in 1..MaxNest
          PROVE  <<u, i>> \in Tokens' <=> <<u, i>> \in Tokens \cup {next}
      BY <1>0, <1>1, BoundsAreNat DEF Tokens, TypeOK
    <3>2. next \in Threads \X (1..MaxNest)
      BY <1>0, <1>1, BoundsAreNat
    <3> QED
      BY <3>1, <3>2 DEF Tokens
  <2>2. next \notin Tokens
    BY <1>0 DEF Tokens
  <2> QED
    BY <2>1, <2>2, TokensFinite, FS_AddElement
<1>2. ASSUME held[t] > 0, held' = [held EXCEPT ![t] = @ - 1]
      PROVE  Cardinality(Tokens') = Cardinality(Tokens) - 1
  <2>1. Tokens' = Tokens \ {here}
    <3>1. ASSUME NEW u \in Threads, NEW i \in 1..MaxNest
          PROVE  <<u, i>> \in Tokens' <=> <<u, i>> \in Tokens \ {here}
      BY <1>0, <1>2, BoundsAreNat DEF Tokens, TypeOK
    <3> QED
      BY <3>1 DEF Tokens
  <2>2. here \in Tokens
    BY <1>0, <1>2, BoundsAreNat DEF Tokens
  <2> QED
    BY <2>1, <2>2, TokensFinite, FS_RemoveElement
<1> QED
  BY <1>1, <1>2

-----------------------------------------------------------------------------
(* IInv holds initially and every step preserves it. *)

\* The lock as cexpRWLockInit leaves it satisfies the invariant.
LEMMA InitIInv == Init => IInv
<1> SUFFICES ASSUME Init PROVE IInv
  OBVIOUS
<1>1. TypeOK
  <2>1. pc \in [Threads -> Labels]
    BY DEF Init, Labels
  <2>2. napFull \in BOOLEAN /\ writing \in [Threads -> BOOLEAN]
    BY DEF Init
  <2>3. /\ owner \in Threads \cup {NoOne} /\ depth \in 0..2
        /\ readers \in Nat /\ sleeping_writers \in Nat
        /\ held \in [Threads -> 0..MaxNest] /\ calls \in [Threads -> 0..MaxCalls]
    BY BoundsAreNat DEF Init
  <2>4. napQueue \in Seq(Threads)
    BY DEF Init
  <2> QED
    BY <2>1, <2>2, <2>3, <2>4 DEF TypeOK
<1>2. Tokens = {}
  BY BoundsAreNat DEF Init, Tokens
<1>3. ReadersCounted
  BY <1>2, FS_EmptySet DEF Init, ReadersCounted
<1>4. MutexOwned /\ Consistent /\ QueueOK /\ Exclusion
  BY NoOneIsNoThread DEF Init, MutexOwned, Inner, Consistent, InWriteLock, QueueOK, Exclusion
<1> QED
  BY <1>1, <1>3, <1>4 DEF IInv

\* The count of readers is not disturbed by a step that takes and returns
\* no read lock.
LEMMA CountUnchanged ==
    ASSUME ReadersCounted, UNCHANGED <<readers, held>>
    PROVE  ReadersCounted'
BY DEF ReadersCounted, Tokens

\* Moving one thread to another statement keeps pc well typed.
LEMMA PcTyped ==
    ASSUME TypeOK, NEW t \in Threads, NEW from, NEW to \in Labels, Goto(t, from, to)
    PROVE  pc' \in [Threads -> Labels]
BY DEF TypeOK, Goto

\* The writers asleep do not move unless they are woken.
LEMMA QueueKept ==
    ASSUME TypeOK, QueueOK, NEW t \in Threads, NEW from, NEW to, from # "wl_nap",
           Goto(t, from, to), UNCHANGED napQueue
    PROVE  QueueOK'
<1>1. ASSUME NEW i \in 1..Len(napQueue)
      PROVE  pc'[napQueue[i]] = "wl_nap"
  <2>1. napQueue[i] \in Threads
    BY DEF TypeOK
  <2> QED
    BY <2>1 DEF TypeOK, QueueOK, Goto
<1> QED
  BY <1>1 DEF QueueOK

\* Requests: a thread enters one of the routines.
LEMMA RequestIInv ==
    ASSUME IInv, NEW t \in Threads, Request(t)
    PROVE  IInv'
<1> USE DEF IInv, Request, ReadLockCall, WriteLockCall, Goto, lockVars
<1>1. TypeOK'
  <2>1. pc' \in [Threads -> Labels]
    BY PcTyped DEF Labels
  <2>2. calls' = [calls EXCEPT ![t] = calls[t] + 1] /\ calls[t] < MaxCalls
    OBVIOUS
  <2>3. calls' \in [Threads -> 0..MaxCalls]
    BY <2>2, BoundsAreNat DEF TypeOK
  <2> QED
    BY <2>1, <2>3 DEF TypeOK
<1>2. ReadersCounted'
  BY CountUnchanged
<1>3. MutexOwned'
  BY DEF MutexOwned, TypeOK, Inner
<1>4. Consistent'
  BY DEF Consistent, TypeOK, InWriteLock
<1>5. QueueOK'
  BY QueueKept
<1>6. Exclusion'
  BY DEF Exclusion, TypeOK
<1> QED
  BY <1>1, <1>2, <1>3, <1>4, <1>5, <1>6

\* Steps that obtain the mutex.
Obtain(t) ==
    ReadLockObtain(t) \/ ReadUnlockObtain(t) \/ WriteLockObtain(t) \/ WriteLockRelock(t)

\* Obtaining the mutex keeps the invariant: only its owner gets it again, and
\* only the writer is outside a routine with the mutex.
LEMMA ObtainIInv ==
    ASSUME IInv, NEW t \in Threads, Obtain(t)
    PROVE  IInv'
<1> USE DEF IInv, Obtain, ReadLockObtain, ReadUnlockObtain, WriteLockObtain,
            WriteLockRelock, Goto, cexpLock
<1>0. pc[t] \notin Inner /\ pc'[t] \in Inner /\ depth \in {0, 1}
  BY NoOneIsNoThread DEF MutexOwned, Inner, TypeOK
<1>1. TypeOK'
  <2>1. pc' \in [Threads -> Labels]
    BY PcTyped DEF Labels
  <2> QED
    BY <1>0, <2>1 DEF TypeOK
<1>2. ReadersCounted'
  BY CountUnchanged
<1>3. MutexOwned'
  BY <1>0, NoOneIsNoThread DEF MutexOwned, TypeOK
<1>4. Consistent'
  BY DEF Consistent, TypeOK, InWriteLock
<1>5. QueueOK'
  BY QueueKept
<1>6. Exclusion'
  BY DEF Exclusion, TypeOK
<1> QED
  BY <1>1, <1>2, <1>3, <1>4, <1>5, <1>6

\* Steps that release the mutex at the end of a critical section.
Release(t) ==
    ReadLockRelease(t) \/ ReadUnlockRelease(t) \/ WriteLockRelease(t)

\* Releasing the mutex inside a routine keeps the invariant: the writer, who
\* obtained it once more, is still its owner.
LEMMA ReleaseIInv ==
    ASSUME IInv, NEW t \in Threads, Release(t)
    PROVE  IInv'
<1> USE DEF IInv, Release, ReadLockRelease, ReadUnlockRelease, WriteLockRelease,
            Goto, cexpUnlock
<1>0. /\ pc[t] \in Inner /\ pc'[t] \notin Inner /\ owner = t
      /\ depth = IF writing[t] THEN 2 ELSE 1
  BY DEF MutexOwned, Inner, TypeOK
<1>1. TypeOK'
  <2>1. pc' \in [Threads -> Labels]
    BY PcTyped DEF Labels
  <2> QED
    BY <1>0, <2>1 DEF TypeOK
<1>2. ReadersCounted'
  BY CountUnchanged
<1>3. MutexOwned'
  BY <1>0, NoOneIsNoThread DEF MutexOwned, TypeOK
<1>4. Consistent'
  BY DEF Consistent, TypeOK, InWriteLock
<1>5. QueueOK'
  BY QueueKept
<1>6. Exclusion'
  BY DEF Exclusion, TypeOK
<1> QED
  BY <1>1, <1>2, <1>3, <1>4, <1>5, <1>6

\* cexpReadLock counts a reader: nobody else writes, because the mutex is
\* held.
LEMMA ReadLockCountIInv ==
    ASSUME IInv, NEW t \in Threads, ReadLockCount(t)
    PROVE  IInv'
<1> USE DEF IInv, ReadLockCount, Goto
<1>0. held[t] < MaxNest /\ held[t] \in Nat /\ owner = t
  BY BoundsAreNat DEF Consistent, TypeOK, MutexOwned, Inner
<1>1. TypeOK'
  <2>1. pc' \in [Threads -> Labels]
    BY PcTyped DEF Labels
  <2>2. held' \in [Threads -> 0..MaxNest]
    BY <1>0, BoundsAreNat DEF TypeOK
  <2> QED
    BY <2>1, <2>2 DEF TypeOK
<1>2. ReadersCounted'
  BY <1>0, TokenStep DEF ReadersCounted
<1>3. MutexOwned'
  BY DEF MutexOwned, TypeOK, Inner
<1>4. Consistent'
  BY <1>0 DEF Consistent, TypeOK, InWriteLock
<1>5. QueueOK'
  BY QueueKept
<1>6. Exclusion'
  BY <1>0 DEF Exclusion, TypeOK, MutexOwned
<1> QED
  BY <1>1, <1>2, <1>3, <1>4, <1>5, <1>6

\* cexpReadUnlock counts a reader out, and readers was not zero.
LEMMA ReadUnlockCountIInv ==
    ASSUME IInv, NEW t \in Threads, ReadUnlockCount(t)
    PROVE  IInv'
<1> USE DEF IInv, ReadUnlockCount, Goto
<1>0. held[t] > 0 /\ held[t] \in Nat /\ owner = t /\ readers > 0 /\ readers \in Nat
  BY BoundsAreNat, NoReaders DEF Consistent, TypeOK, MutexOwned, Inner
<1>a. pc'[t] \in {"ru_send", "ru_unlock"} /\ \A u \in Threads \ {t} : pc'[u] = pc[u]
  BY DEF TypeOK
<1>1. TypeOK'
  <2>1. pc' \in [Threads -> Labels]
    BY PcTyped DEF Labels
  <2>2. held' \in [Threads -> 0..MaxNest]
    BY <1>0, BoundsAreNat DEF TypeOK
  <2>3. sleeping_writers' \in Nat /\ readers' \in Nat
    BY <1>0 DEF TypeOK
  <2> QED
    BY <2>1, <2>2, <2>3 DEF TypeOK
<1>2. ReadersCounted'
  BY <1>0, TokenStep DEF ReadersCounted
<1>3. MutexOwned'
  BY <1>a DEF MutexOwned, TypeOK, Inner
<1>4. Consistent'
  BY <1>0, <1>a DEF Consistent, TypeOK, InWriteLock
<1>5. QueueOK'
  BY QueueKept
<1>6. Exclusion'
  BY <1>0 DEF Exclusion, TypeOK, MutexOwned
<1> QED
  BY <1>1, <1>2, <1>3, <1>4, <1>5, <1>6

\* The wake-up moves the first sleeping writer out of the queue.
LEMMA ReadUnlockSendIInv ==
    ASSUME IInv, NEW t \in Threads, ReadUnlockSend(t)
    PROVE  IInv'
<1> USE DEF IInv, ReadUnlockSend
<1>1. CASE napQueue = <<>>
  <2>1. TypeOK' /\ QueueOK'
    BY <1>1, PcTyped, QueueKept DEF Goto, Labels, TypeOK
  <2>2. ReadersCounted'
    BY CountUnchanged
  <2>3. MutexOwned'
    BY <1>1 DEF MutexOwned, TypeOK, Inner
  <2>4. Consistent' /\ Exclusion'
    BY <1>1 DEF Consistent, Exclusion, TypeOK, InWriteLock
  <2> QED
    BY <2>1, <2>2, <2>3, <2>4
<1>2. CASE napQueue # <<>>
  <2> DEFINE w == Head(napQueue)
  <2>1. /\ w \in Threads /\ w = napQueue[1] /\ pc[w] = "wl_nap" /\ w # t
        /\ Len(napQueue) \in Nat \ {0}
    BY <1>2 DEF TypeOK, QueueOK
  <2>2. /\ napQueue' \in Seq(Threads) /\ Len(napQueue') = Len(napQueue) - 1
        /\ \A i \in 1..Len(napQueue') : napQueue'[i] = napQueue[i + 1]
    <3>1. napQueue' = Tail(napQueue) /\ napQueue \in Seq(Threads)
      BY <1>2 DEF TypeOK
    <3> QED
      BY <1>2, <3>1
  <2>3. pc' = [pc EXCEPT ![t] = "ru_unlock", ![w] = "wl_relock"] /\ UNCHANGED napFull
    BY <1>2
  <2> HIDE DEF w
  <2>4. TypeOK'
    <3>1. pc' \in [Threads -> Labels]
      BY <2>3, <2>1 DEF TypeOK, Labels
    <3> QED
      BY <3>1, <2>2, <2>3 DEF TypeOK
  <2>5. ReadersCounted'
    BY CountUnchanged
  <2>6. MutexOwned'
    BY <2>1, <2>3 DEF MutexOwned, TypeOK, Inner
  <2>7. Consistent' /\ Exclusion'
    BY <2>1, <2>3 DEF Consistent, Exclusion, TypeOK, InWriteLock
  <2>8. QueueOK'
    <3>1. ASSUME NEW i \in 1..Len(napQueue')
          PROVE  pc'[napQueue'[i]] = "wl_nap"
      <4>1. i + 1 \in 1..Len(napQueue) /\ i + 1 # 1 /\ napQueue'[i] = napQueue[i + 1]
        BY <2>1, <2>2
      <4>2. napQueue[i + 1] # w /\ pc[napQueue[i + 1]] = "wl_nap"
        BY <2>1, <4>1 DEF QueueOK
      <4>3. napQueue[i + 1] \in Threads
        BY <4>1 DEF TypeOK
      <4> QED
        BY <2>3, <4>1, <4>2, <4>3 DEF TypeOK
    <3>2. ASSUME NEW i \in 1..Len(napQueue'), NEW j \in 1..Len(napQueue'),
                 napQueue'[i] = napQueue'[j]
          PROVE  i = j
      BY <2>1, <2>2, <3>2 DEF QueueOK
    <3> QED
      BY <3>1, <3>2 DEF QueueOK
  <2> QED
    BY <2>4, <2>5, <2>6, <2>7, <2>8
<1> QED
  BY <1>1, <1>2

\* cexpWriteLock leaves its loop: readers = 0, so nobody reads, and nobody
\* else has the mutex, so nobody writes.
LEMMA WriteLockEnterIInv ==
    ASSUME IInv, NEW t \in Threads, WriteLockEnter(t)
    PROVE  IInv'
<1> USE DEF IInv, WriteLockEnter, Goto, lockVars
<1>0. /\ \A u \in Threads : held[u] = 0
      /\ owner = t
      /\ \A u \in Threads \ {t} : ~writing[u]
  BY NoReaders DEF MutexOwned, Inner
<1>1. TypeOK'
  <2>1. pc' \in [Threads -> Labels]
    BY PcTyped DEF Labels
  <2>2. writing' \in [Threads -> BOOLEAN]
    BY DEF TypeOK
  <2> QED
    BY <2>1, <2>2 DEF TypeOK
<1>2. ReadersCounted'
  BY CountUnchanged
<1>3. MutexOwned'
  <2>1. writing'[t] /\ ~writing[t] /\ pc[t] \in Inner /\ pc'[t] \notin Inner
    BY DEF TypeOK, Inner, Consistent, InWriteLock
  <2>2. \A u \in Threads \ {t} : pc'[u] = pc[u] /\ writing'[u] = writing[u]
    BY DEF TypeOK
  <2> QED
    BY <1>0, <2>1, <2>2, NoOneIsNoThread DEF MutexOwned
<1>4. Consistent'
  BY DEF Consistent, TypeOK, InWriteLock
<1>5. QueueOK'
  BY QueueKept
<1>6. Exclusion'
  BY <1>0 DEF Exclusion, TypeOK
<1> QED
  BY <1>1, <1>2, <1>3, <1>4, <1>5, <1>6

\* A writer that found readers announces itself.
LEMMA WriteLockAnnounceIInv ==
    ASSUME IInv, NEW t \in Threads, WriteLockAnnounce(t)
    PROVE  IInv'
<1> USE DEF IInv, WriteLockAnnounce, Goto
<1>1. TypeOK'
  <2>1. pc' \in [Threads -> Labels]
    BY PcTyped DEF Labels
  <2> QED
    BY <2>1 DEF TypeOK
<1>2. ReadersCounted'
  BY CountUnchanged
<1>3. MutexOwned'
  BY DEF MutexOwned, TypeOK, Inner
<1>4. Consistent' /\ Exclusion'
  BY DEF Consistent, Exclusion, TypeOK, InWriteLock
<1>5. QueueOK'
  BY QueueKept
<1> QED
  BY <1>1, <1>2, <1>3, <1>4, <1>5

\* A writer takes the stored wake-up or joins the queue, in which it is not yet.
LEMMA WriteLockWaitIInv ==
    ASSUME IInv, NEW t \in Threads, WriteLockWait(t)
    PROVE  IInv'
<1> USE DEF IInv, WriteLockWait, Goto
<1>0. pc[t] = "wl_wait" /\ pc'[t] \in {"wl_relock", "wl_nap"}
  BY DEF TypeOK
<1>1. pc' \in [Threads -> Labels]
  BY PcTyped DEF Labels
<1>2. ReadersCounted'
  BY CountUnchanged
<1>3. MutexOwned'
  BY DEF MutexOwned, TypeOK, Inner
<1>4. Consistent' /\ Exclusion'
  BY DEF Consistent, Exclusion, TypeOK, InWriteLock
<1>5. TypeOK' /\ QueueOK'
  <2>1. CASE napFull
    BY <2>1, <1>1, QueueKept DEF TypeOK
  <2>2. CASE ~napFull
    <3>1. /\ napQueue \in Seq(Threads) /\ napQueue' = Append(napQueue, t)
          /\ pc' = [pc EXCEPT ![t] = "wl_nap"] /\ napFull' = napFull
      BY <2>2 DEF TypeOK
    <3>2. /\ napQueue' \in Seq(Threads) /\ Len(napQueue') = Len(napQueue) + 1
          /\ Len(napQueue) \in Nat
          /\ \A i \in 1..Len(napQueue) : napQueue'[i] = napQueue[i] /\ napQueue[i] \in Threads
          /\ napQueue'[Len(napQueue) + 1] = t
      BY <3>1
    <3>3. \A i \in 1..Len(napQueue) : pc[napQueue[i]] = "wl_nap" /\ napQueue[i] # t
      BY <1>0 DEF QueueOK
    <3>4. \A i \in 1..Len(napQueue') : pc'[napQueue'[i]] = "wl_nap"
      BY <3>1, <3>2, <3>3 DEF TypeOK
    <3>5. \A i, j \in 1..Len(napQueue') : napQueue'[i] = napQueue'[j] => i = j
      BY <3>2, <3>3 DEF QueueOK
    <3>6. TypeOK'
      BY <1>1, <3>1, <3>2 DEF TypeOK
    <3> QED
      BY <3>4, <3>5, <3>6 DEF QueueOK
  <2> QED
    BY <2>1, <2>2
<1> QED
  BY <1>2, <1>3, <1>4, <1>5

\* cexpWriteUnlock gives the mutex back.
LEMMA WriteUnlockIInv ==
    ASSUME IInv, NEW t \in Threads, WriteUnlock(t)
    PROVE  IInv'
<1> USE DEF IInv, WriteUnlock, Goto, cexpUnlock
<1>0. owner = t /\ depth = 1 /\ pc[t] \notin Inner /\ pc' = pc
  BY DEF MutexOwned, Inner, TypeOK
<1>1. TypeOK'
  <2>1. writing' \in [Threads -> BOOLEAN]
    BY DEF TypeOK
  <2> QED
    BY <1>0, <2>1 DEF TypeOK
<1>2. ReadersCounted'
  BY CountUnchanged
<1>3. MutexOwned'
  <2>1. \A u \in Threads \ {t} : ~writing[u] /\ pc[u] \notin Inner
    BY <1>0 DEF MutexOwned
  <2>2. ~writing'[t] /\ \A u \in Threads \ {t} : writing'[u] = writing[u]
    BY DEF TypeOK
  <2>3. owner' = NoOne /\ depth' = 0
    BY <1>0
  <2> QED
    BY <1>0, <2>1, <2>2, <2>3, NoOneIsNoThread DEF MutexOwned
<1>4. Consistent' /\ Exclusion'
  BY <1>0 DEF Consistent, Exclusion, TypeOK, InWriteLock
<1>5. QueueOK'
  BY <1>0 DEF QueueOK
<1> QED
  BY <1>1, <1>2, <1>3, <1>4, <1>5

\* A reader that begins to give its lock back changes nothing but its place.
LEMMA ReadUnlockCallIInv ==
    ASSUME IInv, NEW t \in Threads, ReadUnlockCall(t)
    PROVE  IInv'
<1> USE DEF IInv, ReadUnlockCall, Goto, lockVars
<1>1. TypeOK'
  BY PcTyped DEF TypeOK, Labels
<1>2. ReadersCounted'
  BY CountUnchanged
<1>3. MutexOwned'
  BY DEF MutexOwned, TypeOK, Inner
<1>4. Consistent' /\ Exclusion'
  BY DEF Consistent, Exclusion, TypeOK, InWriteLock
<1>5. QueueOK'
  BY QueueKept
<1> QED
  BY <1>1, <1>2, <1>3, <1>4, <1>5

\* Every step of the specification, stuttering included, preserves IInv.
LEMMA NextIInv == IInv /\ [Next]_vars => IInv'
<1> SUFFICES ASSUME IInv, [Next]_vars PROVE IInv'
  OBVIOUS
<1>1. CASE UNCHANGED vars
  BY <1>1 DEF vars, lockVars, IInv, TypeOK, ReadersCounted, Tokens, MutexOwned,
              Consistent, QueueOK, Exclusion
<1>2. ASSUME NEW t \in Threads, Request(t)
      PROVE  IInv'
  BY <1>2, RequestIInv
<1>3. ASSUME NEW t \in Threads, Progress(t)
      PROVE  IInv'
  BY <1>3, ObtainIInv, ReleaseIInv, ReadLockCountIInv, ReadUnlockCallIInv,
     ReadUnlockCountIInv, ReadUnlockSendIInv, WriteLockEnterIInv,
     WriteLockAnnounceIInv, WriteLockWaitIInv, WriteUnlockIInv
     DEF Progress, Obtain, Release
<1> QED
  BY <1>1, <1>2, <1>3 DEF Next, Terminating

\* IInv is an invariant of the lock.
THEOREM LockInvariant == Spec => []IInv
<1>1. Init => IInv
  BY InitIInv
<1>2. IInv /\ [Next]_vars => IInv'
  BY NextIInv
<1> QED
  BY <1>1, <1>2, PTL DEF Spec

\* The variables of the lock have their types, for every number of threads.
THEOREM LockTypes == Spec => []TypeOK
<1>1. IInv => TypeOK
  BY DEF IInv
<1> QED
  BY <1>1, LockInvariant, PTL

\* No thread reads or writes while another one writes, whatever the number
\* of readers, writers and nested read locks.
THEOREM LockExclusion == Spec => []Exclusion
<1>1. IInv => Exclusion
  BY DEF IInv
<1> QED
  BY <1>1, LockInvariant, PTL

-----------------------------------------------------------------------------
(* NoLostWakeup, when one thread writes *)

Sleepers == {t \in Threads : pc[t] \in Sleepy}
Senders == {t \in Threads : pc[t] = "ru_send"}

\* One thread loads and unloads modules: the semaphore nap holds one wake-up only.
OneWriter == \A t, u \in Writers : t = u

\* Both sets are finite, so a thread that joins or leaves one changes its
\* cardinality by one.
LEMMA SetsFinite ==
    /\ IsFiniteSet(Sleepers) /\ Cardinality(Sleepers) \in Nat
    /\ IsFiniteSet(Senders) /\ Cardinality(Senders) \in Nat
<1>1. Sleepers \in SUBSET Threads /\ Senders \in SUBSET Threads
  BY DEF Sleepers, Senders
<1>2. IsFiniteSet(Sleepers) /\ IsFiniteSet(Senders)
  BY <1>1, ThreadsFinite, FS_Subset
<1> QED
  BY <1>2, FS_CardinalityType

\* Announced writers are writers: at most one sleeps.
LEMMA OneSleeper ==
    ASSUME OneWriter, Consistent
    PROVE  Cardinality(Sleepers) <= 1
<1>1. \A t, u \in Sleepers : t = u
  BY DEF OneWriter, Consistent, Sleepers, Sleepy, InWriteLock
<1>2. CASE Sleepers = {}
  BY <1>2, FS_EmptySet
<1>3. CASE Sleepers # {}
  <2>1. PICK t \in Sleepers : TRUE
    BY <1>3
  <2>2. Sleepers = {t}
    BY <1>1, <2>1
  <2> QED
    BY <2>2, FS_Singleton
<1> QED
  BY <1>2, <1>3

\* The equation between the wake-ups on their way and the writers asleep is kept
\* by every step: the semaphore is empty when a wake-up is stored in it, since that
\* and the one it held would be two, for one sleeper.
LEMMA WakeupStep ==
    ASSUME OneWriter, IInv, NoLostWakeup, [Next]_vars
    PROVE  NoLostWakeup'
<1> DEFINE full == IF napFull THEN 1 ELSE 0
<1>0. /\ sleeping_writers \in Nat
      /\ sleeping_writers + Cardinality(Senders) + full = Cardinality(Sleepers)
      /\ Cardinality(Sleepers) <= 1
  BY OneSleeper DEF IInv, TypeOK, NoLostWakeup, WakeupsOwed, Senders, Sleepers
<1> SUFFICES sleeping_writers' + Cardinality(Senders') + full' = Cardinality(Sleepers')
  BY DEF NoLostWakeup, WakeupsOwed, Senders, Sleepers
<1> USE SetsFinite
<1>1. CASE UNCHANGED vars
  BY <1>0, <1>1 DEF vars, lockVars, Senders, Sleepers
<1>2. ASSUME NEW t \in Threads, NEW from \in Labels \ (Sleepy \cup {"ru_send"}),
             NEW to \in Labels \ (Sleepy \cup {"ru_send"}), Goto(t, from, to),
             UNCHANGED <<sleeping_writers, napFull>>
      PROVE  sleeping_writers' + Cardinality(Senders') + full' = Cardinality(Sleepers')
  <2>1. Senders' = Senders /\ Sleepers' = Sleepers
    BY <1>2 DEF Senders, Sleepers, Goto, IInv, TypeOK, Sleepy
  <2> QED
    BY <1>0, <1>2, <2>1
<1>3. ASSUME NEW t \in Threads, ReadUnlockCount(t)
      PROVE  sleeping_writers' + Cardinality(Senders') + full' = Cardinality(Sleepers')
  <2>1. Sleepers' = Sleepers /\ t \notin Senders
    BY <1>3 DEF ReadUnlockCount, Senders, Sleepers, Goto, IInv, TypeOK, Sleepy
  <2>2. CASE readers = 1 /\ sleeping_writers > 0
    <3>1. Senders' = Senders \cup {t}
      BY <1>3, <2>2 DEF ReadUnlockCount, Senders, Goto, IInv, TypeOK
    <3>2. Cardinality(Senders') = Cardinality(Senders) + 1
      BY <2>1, <3>1, FS_AddElement
    <3>3. sleeping_writers' = sleeping_writers - 1 /\ napFull' = napFull
      BY <1>3, <2>2 DEF ReadUnlockCount
    <3> QED
      BY <1>0, <2>1, <3>2, <3>3
  <2>3. CASE ~(readers = 1 /\ sleeping_writers > 0)
    <3>1. Goto(t, "ru_dec", "ru_unlock") /\ UNCHANGED <<sleeping_writers, napFull>>
      BY <1>3, <2>3 DEF ReadUnlockCount
    <3> QED
      BY <1>2, <3>1 DEF Labels, Sleepy
  <2> QED
    BY <2>2, <2>3
<1>4. ASSUME NEW t \in Threads, ReadUnlockSend(t)
      PROVE  sleeping_writers' + Cardinality(Senders') + full' = Cardinality(Sleepers')
  <2>1. t \in Senders /\ t \notin Sleepers /\ UNCHANGED sleeping_writers
    BY <1>4 DEF ReadUnlockSend, Senders, Sleepers, Sleepy
  <2>2. CASE napQueue = <<>>
    <3>1. Senders' = Senders \ {t} /\ Sleepers' = Sleepers /\ napFull'
      BY <1>4, <2>2 DEF ReadUnlockSend, Senders, Sleepers, Sleepy, IInv, TypeOK
    <3>2. Cardinality(Senders') = Cardinality(Senders) - 1 /\ Cardinality(Senders) # 0
      BY <2>1, <3>1, FS_RemoveElement, FS_EmptySet
    <3> QED
      BY <1>0, <2>1, <3>1, <3>2
  <2>3. CASE napQueue # <<>>
    <3> DEFINE w == Head(napQueue)
    <3>1. w \in Threads /\ pc[w] = "wl_nap"
      BY <2>3 DEF IInv, TypeOK, QueueOK
    <3>2. pc' = [pc EXCEPT ![t] = "ru_unlock", ![w] = "wl_relock"] /\ UNCHANGED napFull
      BY <1>4, <2>3 DEF ReadUnlockSend
    <3> HIDE DEF w
    <3>3. Senders' = Senders \ {t} /\ Sleepers' = Sleepers \ {w} /\ w \in Sleepers
      BY <1>4, <3>1, <3>2 DEF ReadUnlockSend, Senders, Sleepers, Sleepy, IInv, TypeOK
    <3>4. /\ Cardinality(Senders') = Cardinality(Senders) - 1
          /\ Cardinality(Sleepers') = Cardinality(Sleepers) - 1
      BY <2>1, <3>3, FS_RemoveElement
    <3> QED
      BY <1>0, <2>1, <3>2, <3>4
  <2> QED
    BY <2>2, <2>3
<1>5. ASSUME NEW t \in Threads, WriteLockAnnounce(t)
      PROVE  sleeping_writers' + Cardinality(Senders') + full' = Cardinality(Sleepers')
  <2>1. /\ Senders' = Senders /\ Sleepers' = Sleepers \cup {t} /\ t \notin Sleepers
        /\ sleeping_writers' = sleeping_writers + 1 /\ napFull' = napFull
    BY <1>5 DEF WriteLockAnnounce, Goto, Senders, Sleepers, Sleepy, IInv, TypeOK
  <2>2. Cardinality(Sleepers') = Cardinality(Sleepers) + 1
    BY <2>1, FS_AddElement
  <2> QED
    BY <1>0, <2>1, <2>2
<1>6. ASSUME NEW t \in Threads, WriteLockWait(t)
      PROVE  sleeping_writers' + Cardinality(Senders') + full' = Cardinality(Sleepers')
  <2>1. Senders' = Senders /\ t \in Sleepers /\ UNCHANGED sleeping_writers
    BY <1>6 DEF WriteLockWait, Goto, Senders, Sleepers, Sleepy, IInv, TypeOK
  <2>2. CASE napFull
    <3>1. Sleepers' = Sleepers \ {t} /\ ~napFull'
      BY <1>6, <2>2 DEF WriteLockWait, Goto, Sleepers, Sleepy, IInv, TypeOK
    <3>2. Cardinality(Sleepers') = Cardinality(Sleepers) - 1
      BY <2>1, <3>1, FS_RemoveElement
    <3> QED
      BY <1>0, <2>1, <2>2, <3>1, <3>2
  <2>3. CASE ~napFull
    <3>1. Sleepers' = Sleepers /\ napFull' = napFull
      BY <1>6, <2>3 DEF WriteLockWait, Goto, Sleepers, Sleepy, IInv, TypeOK
    <3> QED
      BY <1>0, <2>1, <3>1
  <2> QED
    BY <2>2, <2>3
<1>7. ASSUME NEW t \in Threads, WriteLockRelease(t)
      PROVE  sleeping_writers' + Cardinality(Senders') + full' = Cardinality(Sleepers')
  <2>1. /\ Senders' = Senders /\ Sleepers' = Sleepers
        /\ UNCHANGED <<sleeping_writers, napFull>>
    BY <1>7 DEF WriteLockRelease, Goto, Senders, Sleepers, Sleepy, IInv, TypeOK
  <2> QED
    BY <1>0, <2>1
<1>8. ASSUME NEW t \in Threads, Request(t) \/ Obtain(t) \/ ReadUnlockCall(t) \/ ReadLockCount(t)
                 \/ ReadLockRelease(t) \/ ReadUnlockRelease(t) \/ WriteLockEnter(t) \/ WriteUnlock(t)
      PROVE  sleeping_writers' + Cardinality(Senders') + full' = Cardinality(Sleepers')
  <2>1. UNCHANGED <<sleeping_writers, napFull>>
    BY <1>8 DEF Request, Obtain, ReadLockCall, WriteLockCall, ReadLockObtain, ReadUnlockObtain,
       WriteLockObtain, WriteLockRelock, ReadUnlockCall, ReadLockCount, ReadLockRelease,
       ReadUnlockRelease, WriteLockEnter, WriteUnlock, lockVars
  <2>2. \E from, to \in Labels \ (Sleepy \cup {"ru_send"}) : Goto(t, from, to)
    BY <1>8 DEF Request, Obtain, ReadLockCall, WriteLockCall, ReadLockObtain, ReadUnlockObtain,
       WriteLockObtain, WriteLockRelock, ReadUnlockCall, ReadLockCount, ReadLockRelease,
       ReadUnlockRelease, WriteLockEnter, WriteUnlock, Labels, Sleepy
  <2> QED
    BY <1>2, <2>1, <2>2
<1> QED
  BY <1>1, <1>3, <1>4, <1>5, <1>6, <1>7, <1>8 DEF Next, Terminating, Progress, Obtain

\* No wake-up is lost between cexpUnlock and cexpEventWait of cexpWriteLock, for
\* any number of readers, as long as one thread writes.
THEOREM LockKeepsWakeups == ASSUME OneWriter PROVE Spec => []NoLostWakeup
<1>1. ASSUME Init PROVE NoLostWakeup
  <2>1. Cardinality(Senders) = 0 /\ Cardinality(Sleepers) = 0
    <3>1. Senders = {} /\ Sleepers = {}
      BY <1>1 DEF Init, Senders, Sleepers, Sleepy
    <3> QED
      BY <3>1, FS_EmptySet
  <2>2. sleeping_writers = 0 /\ napFull = FALSE
    BY <1>1 DEF Init
  <2> QED
    BY <2>1, <2>2 DEF NoLostWakeup, WakeupsOwed, Senders, Sleepers
<1>2. IInv /\ NoLostWakeup /\ [Next]_vars => NoLostWakeup'
  BY WakeupStep
<1> QED
  BY <1>1, <1>2, LockInvariant, PTL DEF Spec

-----------------------------------------------------------------------------
(* Refinement *)

\* A step that changes neither held nor writing is a stutter of the abstract
\* lock, the others take or return one lock.
LEMMA StepRefines == IInv /\ [Next]_vars => [Abstract!Next]_(Abstract!vars)
<1> SUFFICES ASSUME IInv, [Next]_vars
             PROVE  [Abstract!Next]_(Abstract!vars)
  OBVIOUS
<1> USE DEF Abstract!vars
<1>1. CASE UNCHANGED vars
  BY <1>1 DEF vars
<1>2. ASSUME NEW t \in Threads, ReadLockCount(t)
      PROVE  Abstract!AcquireRead(t)
  <2>1. held[t] < MaxNest /\ owner = t
    BY <1>2 DEF IInv, Consistent, MutexOwned, Inner, ReadLockCount, Goto
  <2>2. \A u \in Threads \ {t} : ~writing[u]
    BY <2>1 DEF IInv, MutexOwned
  <2> QED
    BY <1>2, <2>1, <2>2 DEF ReadLockCount, Abstract!AcquireRead
<1>3. ASSUME NEW t \in Threads, ReadUnlockCount(t)
      PROVE  Abstract!ReleaseRead(t)
  BY <1>3 DEF IInv, Consistent, ReadUnlockCount, Goto, Abstract!ReleaseRead
<1>4. ASSUME NEW t \in Threads, WriteLockEnter(t)
      PROVE  Abstract!AcquireWrite(t)
  <2>1. t \in Writers /\ ~writing[t] /\ owner = t /\ readers = 0
    BY <1>4 DEF IInv, Consistent, MutexOwned, Inner, InWriteLock, WriteLockEnter, Goto
  <2>2. \A u \in Threads : held[u] = 0
    BY <2>1, NoReaders DEF IInv
  <2>3. \A u \in Threads : ~writing[u]
    BY <2>1 DEF IInv, MutexOwned
  <2> QED
    BY <1>4, <2>1, <2>2, <2>3 DEF WriteLockEnter, Abstract!AcquireWrite
<1>5. ASSUME NEW t \in Threads, WriteUnlock(t)
      PROVE  Abstract!ReleaseWrite(t)
  BY <1>5 DEF WriteUnlock, Abstract!ReleaseWrite
<1>6. ASSUME NEW t \in Threads, Request(t) \/ Progress(t)
      PROVE  \/ ReadLockCount(t) \/ ReadUnlockCount(t)
             \/ WriteLockEnter(t) \/ WriteUnlock(t)
             \/ UNCHANGED <<held, writing>>
  BY <1>6 DEF Request, Progress, ReadLockCall, WriteLockCall, ReadLockObtain,
     ReadLockRelease, ReadUnlockCall, ReadUnlockObtain, ReadUnlockSend,
     ReadUnlockRelease, WriteLockObtain, WriteLockAnnounce, WriteLockRelease,
     WriteLockWait, WriteLockRelock
<1> QED
  BY <1>1, <1>2, <1>3, <1>4, <1>5, <1>6 DEF Next, Terminating, Abstract!Next

\* The code of cexplock.h implements the readers/writer lock its comment
\* describes.
THEOREM LockRefines == Spec => LockSpec
<1>1. Init => Abstract!Init
  BY DEF Init, Abstract!Init
<1>2. IInv /\ [Next]_vars => [Abstract!Next]_(Abstract!vars)
  BY StepRefines
<1> QED
  BY <1>1, <1>2, LockInvariant, PTL DEF Spec, LockSpec, Abstract!Spec
=============================================================================
