--------------------------------- MODULE Vars ----------------------------------
(***************************************************************************)
(* User variables (vars.c): records on the heap in a singly linked list    *)
(* sorted by name, shared by all threads and protected by _varlock.  The   *)
(* lock is not held while a record is allocated or released, nor when      *)
(* cexpVarsFlush reads the head of the list; a walk holds it while it      *)
(* calls the walker.  What happens inside one section under the lock is    *)
(* one step.                                                               *)
(***************************************************************************)
EXTENDS Naturals, FiniteSets

CONSTANTS
    Threads,
    Addrs,        \* addresses of variable records
    Head,         \* the address of gblList
    Names,        \* names of variables: numbers, in the order of strcmp
    FlushAlone,   \* whether nobody else uses variables during cexpVarsFlush
    None          \* a null pointer, a free lock

ASSUME NamesOK == Names \subseteq Nat
ASSUME AddrsOK == None \notin Addrs \cup {Head} \cup Threads /\ Head \notin Addrs
ASSUME AddrsFinite == IsFiniteSet(Addrs)
ASSUME FlushAloneOK == FlushAlone \in BOOLEAN

VARIABLES
    p,        \* the link of the head and of every record
    name,     \* the name of a record
    live,     \* records that are allocated
    strs,     \* the string table: names are kept there for ever
    lock,     \* who has _varlock
    walking,  \* detects walkers that add variables
    job,      \* the call of each thread
    fault     \* a record was released twice

vars == <<p, name, live, strs, lock, walking, job, fault>>

\* n: the record calloc returned; v: the record found, or reached by a walk;
\* str: whether there was memory for the name; seen: what the walker has seen.
Idle == [op |-> "idle", name |-> None, n |-> None, v |-> None, str |-> FALSE, seen |-> {}]

Init ==
    /\ p = [a \in Addrs \cup {Head} |-> None]
    /\ name = [a \in Addrs |-> None]
    /\ live = {}
    /\ strs = {}
    /\ lock = None
    /\ walking = 0
    /\ job = [t \in Threads |-> Idle]
    /\ fault = FALSE

-----------------------------------------------------------------------------
(* The list *)

\* The smallest set of records that has a and whatever a link q of one of its own
\* leads to: what is reached from a, a included.
Reach(q, a) ==
    {x \in Addrs : \A S \in SUBSET Addrs :
        a \in S \cup {None} /\ (\A y \in S : q[y] \in S \cup {None}) => x \in S}

Chain(a) == Reach(p, a)

Listed == Chain(p[Head])

\* lhrFindN_LOCK walks as long as names are smaller; the last record passed is
\* the place to insert after.
FindWhere(nm) ==
    CHOOSE w \in {Head} \cup Listed :
        /\ w = Head \/ name[w] < nm
        /\ p[w] # None => name[p[w]] >= nm

\* Mutant: the comparison never finds equality.
FindNothing(nm) == None

\* The record of that name, if the one after that place is.
Find(nm) ==
    LET v == p[FindWhere(nm)] IN IF v # None /\ name[v] = nm THEN v ELSE None

Free(a) ==
    /\ live' = live \ {a}
    /\ fault' = (fault \/ a \notin live)

\* A thread may begin a call.
MayCall(t) ==
    /\ job[t] = Idle
    /\ FlushAlone => \A u \in Threads : job[u].op # "flush"

Goto(t, j) == job' = [job EXCEPT ![t] = j]

-----------------------------------------------------------------------------
(* cexpVarLookup *)

\* With creat, record and name are allocated before the lock is taken; either
\* allocation may fail.
LookupAlloc(t, nm) ==
    /\ MayCall(t)
    /\ \E str \in BOOLEAN, n \in (Addrs \ live) \cup {None} :
          /\ Goto(t, [Idle EXCEPT !.op = "lookup", !.name = nm, !.n = n, !.str = str])
          /\ live' = live \cup ({n} \ {None})
          /\ p' = IF n = None THEN p ELSE [p EXCEPT ![n] = None]
    /\ UNCHANGED <<name, strs, lock, walking, fault>>

\* The record, or a null pointer, is returned; an allocation that was not
\* needed is released after the lock.
Returned(t, unused) ==
    Goto(t, IF unused = None THEN Idle ELSE [Idle EXCEPT !.op = "release", !.n = unused])

\* Mutant: the record is released although it has been added.
FindOrAddRelease(t, nm, n) ==
    /\ IF Find(nm) = None /\ n # None /\ job[t].str
         THEN /\ p' = [p EXCEPT ![n] = p[FindWhere(nm)], ![FindWhere(nm)] = n]
              /\ name' = [name EXCEPT ![n] = nm]
              /\ strs' = strs \cup {nm}
         ELSE UNCHANGED <<p, name, strs>>
    /\ Returned(t, n)
    /\ UNCHANGED <<live, lock, walking, fault>>

\* Find the variable, or add it (lhrAdd, which asserts that nobody is walking),
\* its name in the string table.
FindOrAdd(t, nm, n) ==
    /\ IF Find(nm) = None /\ n # None /\ job[t].str
         THEN /\ p' = [p EXCEPT ![n] = p[FindWhere(nm)], ![FindWhere(nm)] = n]
              /\ name' = [name EXCEPT ![n] = nm]
              /\ strs' = strs \cup {nm}
              /\ Returned(t, None)
         ELSE /\ Returned(t, n)
              /\ UNCHANGED <<p, name, strs>>
    /\ UNCHANGED <<live, lock, walking, fault>>

\* Mutant: the section is entered although another thread walks the list.
LookupFindUnlocked(t) ==
    /\ job[t].op = "lookup"
    /\ FindOrAdd(t, job[t].name, job[t].n)

\* The section under the lock.
LookupFind(t) ==
    /\ job[t].op = "lookup"
    /\ lock = None
    /\ FindOrAdd(t, job[t].name, job[t].n)

\* Mutant: the record is forgotten.
LookupForget(t) ==
    /\ job[t].op = "release"
    /\ Goto(t, Idle)
    /\ UNCHANGED <<p, name, live, strs, lock, walking, fault>>

LookupRelease(t) ==
    /\ job[t].op = "release"
    /\ Free(job[t].n)
    /\ Goto(t, Idle)
    /\ UNCHANGED <<p, name, strs, lock, walking>>

\* cexpStrLookup: the string is found or added, under the lock; there is no way
\* to remove one.
StrLookup(t, nm) ==
    /\ MayCall(t)
    /\ lock = None
    /\ strs' = strs \cup {nm}
    /\ UNCHANGED <<p, name, live, lock, walking, job, fault>>

-----------------------------------------------------------------------------
(* cexpVarDelete *)

\* The record is taken out of the list under the lock.
DeleteFind(t, nm) ==
    /\ MayCall(t)
    /\ lock = None
    /\ Find(nm) # None
    /\ p' = [p EXCEPT ![FindWhere(nm)] = p[Find(nm)]]
    /\ Goto(t, [Idle EXCEPT !.op = "delete", !.v = Find(nm)])
    /\ UNCHANGED <<name, live, strs, lock, walking, fault>>

\* Cleared and released without it.
DeleteRelease(t) ==
    /\ job[t].op = "delete"
    /\ p' = [p EXCEPT ![job[t].v] = None]
    /\ name' = [name EXCEPT ![job[t].v] = None]
    /\ Free(job[t].v)
    /\ Goto(t, Idle)
    /\ UNCHANGED <<strs, lock, walking>>

-----------------------------------------------------------------------------
(* cexpVarsFlush *)

\* The head of the list is read as an argument, before the lock is taken.
FlushRead(t) ==
    /\ MayCall(t)
    /\ FlushAlone => \A u \in Threads : job[u] = Idle
    /\ Goto(t, [Idle EXCEPT !.op = "flush", !.v = p[Head]])
    /\ UNCHANGED <<p, name, live, strs, lock, walking, fault>>

\* What released records held is gone.
Cleared(q, chain) == [a \in DOMAIN q |-> IF a \in chain THEN None ELSE q[a]]

\* Mutant: the head is not cleared.
FlushKeepHead(t) ==
    /\ job[t].op = "flush"
    /\ lock = None
    /\ live' = live \ Chain(job[t].v)
    /\ fault' = (fault \/ ~(Chain(job[t].v) \subseteq live))
    /\ p' = Cleared(p, Chain(job[t].v))
    /\ name' = Cleared(name, Chain(job[t].v))
    /\ Goto(t, Idle)
    /\ UNCHANGED <<strs, lock, walking>>

\* Under the lock all records from there on are released.
FlushRelease(t) ==
    /\ job[t].op = "flush"
    /\ lock = None
    /\ live' = live \ Chain(job[t].v)
    /\ fault' = (fault \/ ~(Chain(job[t].v) \subseteq live))
    /\ p' = Cleared(p, Chain(job[t].v) \cup {Head})
    /\ name' = Cleared(name, Chain(job[t].v))
    /\ Goto(t, Idle)
    /\ UNCHANGED <<strs, lock, walking>>

-----------------------------------------------------------------------------
(* cexpVarWalk *)

WalkBegin(t) ==
    /\ MayCall(t)
    /\ lock = None
    /\ lock' = t
    /\ walking' = walking + 1
    /\ Goto(t, [Idle EXCEPT !.op = "walk", !.v = p[Head]])
    /\ UNCHANGED <<p, name, live, strs, fault>>

\* The walker is called for a variable.
WalkStep(t) ==
    /\ job[t].op = "walk"
    /\ job[t].v # None
    /\ Goto(t, [job[t] EXCEPT !.seen = @ \cup {name[job[t].v]}, !.v = p[@]])
    /\ UNCHANGED <<p, name, live, strs, lock, walking, fault>>

\* Mutant: the count of walkers is not taken back.
WalkEndCounted(t) ==
    /\ job[t].op = "walk"
    /\ lock' = None
    /\ Goto(t, Idle)
    /\ UNCHANGED <<p, name, live, strs, walking, fault>>

\* It returns nonzero, or there is no other variable.
WalkEnd(t) ==
    /\ job[t].op = "walk"
    /\ lock' = None
    /\ walking' = walking - 1
    /\ Goto(t, Idle)
    /\ UNCHANGED <<p, name, live, strs, fault>>

Next ==
    \E t \in Threads :
        \/ \E nm \in Names : LookupAlloc(t, nm) \/ StrLookup(t, nm) \/ DeleteFind(t, nm)
        \/ LookupFind(t) \/ LookupRelease(t)
        \/ DeleteRelease(t)
        \/ FlushRead(t) \/ FlushRelease(t)
        \/ WalkBegin(t) \/ WalkStep(t) \/ WalkEnd(t)

Spec == Init /\ [][Next]_vars

-----------------------------------------------------------------------------
(* Properties *)

\* Types; with lhrAdd's assertion: nobody walks while the lock is free.
Jobs == [op : {"idle", "lookup", "release", "delete", "flush", "walk"},
         name : Names \cup {None}, n : Addrs \cup {None}, v : Addrs \cup {None},
         str : BOOLEAN, seen : SUBSET Names]

TypeOK ==
    /\ p \in [Addrs \cup {Head} -> Addrs \cup {None}]
    /\ name \in [Addrs -> Names \cup {None}]
    /\ live \subseteq Addrs /\ strs \subseteq Names
    /\ lock \in Threads \cup {None} /\ walking = IF lock = None THEN 0 ELSE 1
    /\ job \in [Threads -> Jobs] /\ fault \in BOOLEAN

\* The list is in strictly ascending order: no variable is in it twice, however
\* lookups that create it race, and a walk sees the lexical order that vars.h
\* promises.
Sorted ==
    \A a \in Listed : p[a] # None => name[a] < name[p[a]]

\* The list is one that the searches can rely on.
WellFormed == TypeOK /\ Sorted

\* Every variable in the list is allocated and has its name in the string
\* table; nobody who is about to release a record releases one of those.
ListedLive ==
    /\ \A a \in Listed : a \in live /\ name[a] \in strs
    /\ \A t \in Threads : job[t].op \in {"lookup", "release"} => job[t].n \notin Listed
    /\ \A t \in Threads : job[t].op = "delete" => job[t].v \notin Listed

\* No record is lost: what is allocated is in the list or in the hands of a call
\* that will add or release it.
Accounted ==
    live \subseteq Listed \cup {job[t].n : t \in Threads} \cup {job[t].v : t \in Threads}

\* No record is released twice.
NoDoubleFree == ~fault

\* A record is listed, or some call has it, or it is free, and never two of
\* these, whichever two calls create or delete the same variable.
RecordsOwned == ListedLive /\ Accounted /\ NoDoubleFree

\* "nobody can access variables while this routine is active": what a walk has
\* seen and what it has before it are the variables, whatever others call.
WalkComplete ==
    \A t \in Threads : job[t].op = "walk" =>
        job[t].seen \cup {name[a] : a \in Chain(job[t].v)} = {name[a] : a \in Listed}

-----------------------------------------------------------------------------
(* The inductive invariant behind these, when nobody else is at the list *)
(* while it is flushed *)

\* The record that a call has to itself.
Own(t) ==
    CASE job[t].op \in {"lookup", "release"} -> job[t].n
      [] job[t].op = "delete" -> job[t].v
      [] OTHER -> None

\* An allocated record is in the list or belongs to exactly one call.
OneOwner ==
    /\ \A t \in Threads : Own(t) # None => Own(t) \in live \ Listed
    /\ \A t, u \in Threads : Own(t) # None /\ Own(t) = Own(u) => t = u
    /\ live \subseteq Listed \cup {Own(t) : t \in Threads}

\* Each call has what the code it is about to run needs.
JobReady(t) ==
    /\ job[t].op = "lookup" => job[t].name \in Names
    /\ job[t].op = "release" => job[t].n # None
    /\ job[t].op = "delete" => job[t].v # None
    /\ job[t].op = "walk" => job[t].v \in Listed \cup {None}
    /\ job[t].op = "flush" => job[t].v = p[Head]
    /\ lock = t <=> job[t].op = "walk"

\* While a thread flushes it is alone.
FlushesAlone ==
    \A t, u \in Threads : job[t].op = "flush" /\ u # t => job[u] = Idle

\* Records have one owner, listed ones are named and in order, and a walk, which
\* has the lock, has seen what is not before it.
IInv ==
    /\ TypeOK /\ Sorted /\ OneOwner /\ FlushesAlone /\ \A t \in Threads : JobReady(t)
    /\ \A a \in Listed : a \in live /\ name[a] \in strs
    /\ WalkComplete /\ ~fault
=============================================================================
