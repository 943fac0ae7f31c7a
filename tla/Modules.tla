-------------------------------- MODULE Modules --------------------------------
(***************************************************************************)
(* The module manager (cexpmod.c) together with the symbol resolution of   *)
(* the run-time linker (bfdstuff.c): loading and unloading of object files *)
(* by several threads, the list of modules, their ids and dependency       *)
(* bitmaps, and the life of the module records on the heap.                *)
(*                                                                         *)
(* cexpModuleLoad and cexpModuleUnload do everything that matters under    *)
(* the write lock, which excludes all others (AbstractRWLock, implemented  *)
(* by RWLock); what they do before taking it and after giving it back      *)
(* interleaves.  Under the lock, constructors, initializers, finalizers    *)
(* and destructors of a module run, and these may call back (Nested): the  *)
(* mutex of the lock is recursive.                                         *)
(***************************************************************************)
EXTENDS Naturals, Sequences, FiniteSets

CONSTANTS
    Threads,      \* the threads that load and unload
    Addrs,        \* addresses malloc returns for module records
    Files,        \* object files: see FileOK
    SysFile,      \* the file loaded first, the system symbol table
    MaxModules,   \* MAX_NUM_MODULES
    Nested,       \* whether module code called by the loader calls it back
    None          \* a null pointer, a free lock

\* What a file holds of a symbol.
Kinds == {"undef", "weakundef", "common", "def", "weakdef", "linkonce"}

\* A file: the name of its module, its global symbols with kind and size, the
\* symbols its relocations refer to, and whether it has a finalizer.
FileOK(f) ==
    /\ \A n \in DOMAIN f.syms : f.syms[n] \in Kinds /\ f.size[n] \in Nat
    /\ f.refs \subseteq DOMAIN f.syms
    /\ f.fini \in BOOLEAN

ASSUME FilesOK == \A f \in Files : FileOK(f)
ASSUME SysIsFile == SysFile \in Files
ASSUME MaxModulesOK == MaxModules \in Nat \ {0}
ASSUME NestedIsBool == Nested \in BOOLEAN
ASSUME NoneIsNothing == None \notin Threads \cup Addrs

VARIABLES
    list,     \* cexpSystemModule and the modules chained to it by next
    rec,      \* the module records
    live,     \* the addresses malloc has given out and free not taken back
    id,       \* static ModuleId id of idAlloc
    writer,   \* the thread that has the write lock
    frame,    \* the call each thread is in
    outer     \* the call whose module code made that call

vars == <<list, rec, live, id, writer, frame, outer>>

Loaded == {list[i] : i \in DOMAIN list}

\* A record after memset(nmod, 0, sizeof(*nmod)).
Blank == [name |-> None, file |-> None, id |-> 0, needs |-> {}, neededby |-> {},
          exports |-> {}, bound |-> <<>>, sects |-> {}, att |-> "none"]

\* No call in progress.
Idle == [op |-> "idle", mod |-> None, file |-> None, at |-> None]

Init ==
    /\ list = <<>>
    /\ rec = [a \in Addrs |-> Blank]
    /\ live = {}
    /\ id = MaxModules - 1
    /\ writer = None
    /\ frame = [t \in Threads |-> Idle]
    /\ outer = [t \in Threads |-> Idle]

-----------------------------------------------------------------------------
(* Calls and the lock *)

\* Module code runs between these steps and may call the loader again.
InModuleCode(t) == frame[t].op \in {"ctors", "fini", "dtors"}

MayCall(t) == frame[t] = Idle \/ (Nested /\ InModuleCode(t) /\ outer[t] = Idle)

Enter(t, f) ==
    /\ frame' = [frame EXCEPT ![t] = f]
    /\ outer' = [outer EXCEPT ![t] = frame[t]]

Step(t, op) ==
    /\ frame' = [frame EXCEPT ![t].op = op]
    /\ UNCHANGED outer

Return(t) ==
    /\ frame' = [frame EXCEPT ![t] = outer[t]]
    /\ outer' = [outer EXCEPT ![t] = Idle]

WLOCK(t) == writer \in {None, t} /\ writer' = t
\* The nested call's unlock leaves the lock to the outer call.
WUNLOCK(t) == writer' = IF outer[t] = Idle THEN None ELSE t

-----------------------------------------------------------------------------
(* Symbol lookup and linking *)

\* cexpSymLookup: the first module of the list that has the symbol.
SymLookup(n) ==
    LET has(i) == n \in rec[list[i]].exports IN
    IF \E i \in DOMAIN list : has(i)
      THEN list[CHOOSE i \in DOMAIN list : has(i) /\ \A j \in 1..(i - 1) : ~has(j)]
      ELSE None

\* The size assign() recorded for a symbol: a weak undefined symbol that became
\* a new common has none.
SymSize(a, n) ==
    IF rec[a].file.syms[n] = "weakundef" THEN 0 ELSE rec[a].file.size[n]

\* resolve_syms counts an error: a strong definition of a symbol that exists,
\* or a common larger than the existing one.
ResolveError(f) ==
    \E n \in DOMAIN f.syms :
        /\ SymLookup(n) # None
        /\ \/ f.syms[n] = "def"
           \/ f.syms[n] = "common" /\ SymSize(SymLookup(n), n) < f.size[n]

\* Symbols resolve_syms keeps for the new module's table: what the file defines
\* and no other module has; a weak undefined symbol is made a new common.
Exports(f) ==
    {n \in DOMAIN f.syms : f.syms[n] # "undef" /\ SymLookup(n) = None}

\* Mutant: a weak symbol bound to an existing one raises no bit.
BoundByResolveCommon(f) ==
    {n \in DOMAIN f.syms : f.syms[n] = "common" /\ SymLookup(n) # None}

\* Symbols that resolve_syms binds to an existing definition.
BoundByResolve(f) ==
    {n \in DOMAIN f.syms : f.syms[n] \in {"common", "weakdef"} /\ SymLookup(n) # None}

\* Undefined symbols that s_reloc looks up; those that remain without a
\* definition are errors.
BoundByReloc(f) ==
    {n \in f.refs : \/ f.syms[n] = "undef"
                    \/ f.syms[n] = "weakundef" /\ SymLookup(n) # None}

RelocError(f) == \E n \in BoundByReloc(f) : SymLookup(n) = None

\* The modules section_syms points into: a linkonce section that is loaded
\* already is discarded (s_eliminate_linkonce), its name taken from there.
SectionSyms(f) ==
    {SymLookup(n) : n \in {m \in DOMAIN f.syms : f.syms[m] = "linkonce"}} \ {None}

\* cexpLoadFile finds no error in the file.  The system table, loaded first, is
\* neither given memory nor relocated.
Links(f) == ~ResolveError(f) /\ (list # <<>> => ~RelocError(f))

\* The record cexpLoadFile fills in: asymFromCexpSym raises the bit of the
\* defining module in needs for every symbol bound to it.
Linked(f, i) ==
    LET names == BoundByResolve(f) \cup (IF list # <<>> THEN BoundByReloc(f) ELSE {}) IN
    [name |-> f.name, file |-> f, id |-> i,
     needs |-> {rec[SymLookup(n)].id : n \in names},
     neededby |-> {},
     exports |-> Exports(f),
     bound |-> [n \in names |-> SymLookup(n)],
     sects |-> SectionSyms(f),
     att |-> "live"]

-----------------------------------------------------------------------------
(* cexpModuleLoad *)

\* Mutant: the ids of loaded modules are not left out.
FreeIdsAll == 1..(MaxModules - 1)

\* The ids idAlloc tries, as distances from the last one given out.
FreeIds ==
    {k \in 1..(MaxModules - 1) :
        \A a \in Loaded : rec[a].id # (id + k) % MaxModules}

\* Mutant: the modulo is forgotten.
NextIdNoWrap ==
    id + (CHOOSE k \in FreeIds : \A j \in FreeIds : k <= j)

\* idAlloc: the first unused id after the last one given out.
NextId ==
    (id + (CHOOSE k \in FreeIds : \A j \in FreeIds : k <= j)) % MaxModules

NameTaken(f) == \E a \in Loaded : rec[a].name = f.name

\* nmod = malloc(); memset(): before the lock is taken.  The first module is
\* the system symbol table, loaded when the shell starts.
LoadMalloc(t, f) ==
    /\ MayCall(t)
    /\ list = <<>> => f = SysFile /\ \A u \in Threads : frame[u] = Idle
    /\ \E a \in Addrs \ live :
        /\ live' = live \cup {a}
        /\ rec' = [rec EXCEPT ![a] = Blank]
        /\ Enter(t, [op |-> "load", mod |-> a, file |-> f, at |-> None])
    /\ UNCHANGED <<list, id, writer>>

\* Mutant: the refused load returns without freeing the record.
LoadRefuseLeak(t) ==
    /\ frame[t].op = "load" /\ writer \in {None, t}
    /\ NameTaken(frame[t].file) \/ FreeIds = {}
    /\ WUNLOCK(t)
    /\ Return(t)
    /\ UNCHANGED <<list, rec, live, id>>

\* A module of that name is loaded, or there is no id.
LoadRefuse(t) ==
    /\ frame[t].op = "load" /\ writer \in {None, t}
    /\ NameTaken(frame[t].file) \/ FreeIds = {}
    /\ WUNLOCK(t)
    /\ Step(t, "free")
    /\ UNCHANGED <<list, rec, live, id>>

\* cexpLoadFile fails: unresolved or duplicate symbols, or for a reason outside
\* the model (no such file, wrong format or attributes, no memory).
LoadFail(t) ==
    /\ frame[t].op = "load" /\ writer \in {None, t}
    /\ ~NameTaken(frame[t].file) /\ FreeIds # {}
    /\ list # <<>>
    /\ id' = NextId
    /\ rec' = [rec EXCEPT ![frame[t].mod] =
                 [Blank EXCEPT !.name = frame[t].file.name, !.id = NextId]]
    /\ WUNLOCK(t)
    /\ Step(t, "free")
    /\ UNCHANGED <<list, live>>

\* cexpLoadFile succeeds; tail is the module the new one will be chained to.
LoadLink(t) ==
    LET f == frame[t].file IN
    /\ frame[t].op = "load"
    /\ WLOCK(t)
    /\ ~NameTaken(f) /\ FreeIds # {}
    /\ Links(f)
    /\ id' = NextId
    /\ rec' = [rec EXCEPT ![frame[t].mod] = Linked(f, NextId)]
    /\ frame' = [frame EXCEPT ![t].op = "ctors",
                              ![t].at = IF list = <<>> THEN None ELSE list[Len(list)]]
    /\ UNCHANGED <<list, live, outer>>

Position(a) == CHOOSE i \in DOMAIN list : list[i] = a

\* The list up to and including module a, and what follows it.
UpTo(a) == SubSeq(list, 1, Position(a))
After(a) == IF a \in Loaded THEN SubSeq(list, Position(a) + 1, Len(list)) ELSE <<>>

\* a->next = the first of rest: nothing in the list changes if a has left it.
SetNext(a, rest) == IF a \in Loaded THEN UpTo(a) \o rest ELSE list

\* Mutant: addDependencies is not called.
LoadChainOnly(t) ==
    LET m == frame[t].mod IN
    /\ frame[t].op = "ctors"
    /\ list' = IF frame[t].at = None THEN <<m>> ELSE SetNext(frame[t].at, <<m>>)
    /\ WUNLOCK(t)
    /\ Return(t)
    /\ UNCHANGED <<rec, live, id>>

\* Mutant: the new module becomes the first of the list.
LoadChainFirst(t) ==
    LET m == frame[t].mod IN
    /\ frame[t].op = "ctors"
    /\ rec' = [a \in Addrs |->
                 IF a \in Loaded /\ rec[a].id \in rec[m].needs
                   THEN [rec[a] EXCEPT !.neededby = @ \cup {rec[m].id}]
                   ELSE rec[a]]
    /\ list' = <<m>> \o list
    /\ WUNLOCK(t)
    /\ Return(t)
    /\ UNCHANGED <<live, id>>

\* Constructors and initializer have returned: addDependencies(nmod), then
\* tail->next = nmod.
LoadChain(t) ==
    LET m == frame[t].mod IN
    /\ frame[t].op = "ctors"
    /\ rec' = [a \in Addrs |->
                 IF a \in Loaded /\ rec[a].id \in rec[m].needs
                   THEN [rec[a] EXCEPT !.neededby = @ \cup {rec[m].id}]
                   ELSE rec[a]]
    /\ list' = IF frame[t].at = None THEN <<m>> ELSE SetNext(frame[t].at, <<m>>)
    /\ WUNLOCK(t)
    /\ Return(t)
    /\ UNCHANGED <<live, id>>

-----------------------------------------------------------------------------
(* cexpModuleUnload *)

\* Mutant: a module that others need is unloaded.
UnloadCheckNoNeed(t, m) ==
    /\ MayCall(t)
    /\ WLOCK(t)
    /\ m \in Loaded /\ m # list[1]
    /\ Enter(t, [op |-> "fini", mod |-> m, file |-> None, at |-> list[Position(m) - 1]])
    /\ UNCHANGED <<list, rec, live, id>>

\* The handle is good and nobody needs the module: its finalizer is called.
\* (A handle that is null, stale or of the system module, or a module that is
\* needed, is refused without any effect.)
UnloadCheck(t, m) ==
    /\ MayCall(t)
    /\ WLOCK(t)
    /\ m \in Loaded /\ m # list[1]
    /\ rec[m].neededby = {}
    /\ Enter(t, [op |-> "fini", mod |-> m, file |-> None, at |-> list[Position(m) - 1]])
    /\ UNCHANGED <<list, rec, live, id>>

\* The finalizer returns nonzero: the module is left untouched.
UnloadReject(t) ==
    /\ frame[t].op = "fini" /\ rec[frame[t].mod].file.fini
    /\ WUNLOCK(t)
    /\ Return(t)
    /\ UNCHANGED <<list, rec, live, id>>

\* Mutant: the bits of the module stay set in its providers.
UnloadClearNothing(t) ==
    /\ frame[t].op = "fini"
    /\ Step(t, "dtors")
    /\ UNCHANGED <<list, rec, live, id, writer>>

\* Remove the module from the dependency bitmaps; call the destructors.
UnloadClear(t) ==
    LET m == frame[t].mod IN
    /\ frame[t].op = "fini"
    /\ rec' = [a \in Addrs |->
                 IF a \in Loaded THEN [rec[a] EXCEPT !.neededby = @ \ {rec[m].id}]
                                 ELSE rec[a]]
    /\ Step(t, "dtors")
    /\ UNCHANGED <<list, live, id, writer>>

\* pred->next = mod->next.
UnloadUnlink(t) ==
    LET m == frame[t].mod IN
    /\ frame[t].op = "dtors"
    /\ list' = SetNext(frame[t].at, After(m))
    /\ WUNLOCK(t)
    /\ Step(t, "free")
    /\ UNCHANGED <<rec, live, id>>

-----------------------------------------------------------------------------
(* cexpModuleFree, after the lock has been given back *)

\* Everything up to and including free(mod).  The memory keeps the attribute
\* pointer; nothing reads the rest of it again.
FreeRecord(t) ==
    LET m == frame[t].mod IN
    /\ frame[t].op = "free"
    /\ live' = live \ {m}
    /\ rec' = [rec EXCEPT ![m] = [Blank EXCEPT !.att = rec[m].att]]
    /\ Step(t, "att")
    /\ UNCHANGED <<list, id, writer>>

\* if (mod->fileAttributes) pmelf_destroy_attribute_set(mod->fileAttributes):
\* destroys the set that the memory of the record refers to by then.
FreeAttributes(t) ==
    LET m == frame[t].mod IN
    /\ frame[t].op = "att"
    /\ rec' = IF rec[m].att = "none" THEN rec ELSE [rec EXCEPT ![m].att = "destroyed"]
    /\ Return(t)
    /\ UNCHANGED <<list, live, id, writer>>

-----------------------------------------------------------------------------

Load(t) ==
    \/ \E f \in Files : LoadMalloc(t, f)
    \/ LoadRefuse(t) \/ LoadFail(t) \/ LoadLink(t) \/ LoadChain(t)

Unload(t) ==
    \/ \E m \in Addrs : UnloadCheck(t, m)
    \/ UnloadReject(t) \/ UnloadClear(t) \/ UnloadUnlink(t)

Free(t) == FreeRecord(t) \/ FreeAttributes(t)

Next == \E t \in Threads : Load(t) \/ Unload(t) \/ Free(t)

Spec == Init /\ [][Next]_vars

-----------------------------------------------------------------------------
(* Properties *)

\* Types; ids and the bits of both bitmaps are below MAX_NUM_MODULES, the size
\* of the bitmaps.
Ids == 0..(MaxModules - 1)
FileNames == {f.name : f \in Files}
Symbols == UNION {DOMAIN f.syms : f \in Files}
Bindings == UNION {[D -> Addrs] : D \in SUBSET Symbols}
Records == [name : FileNames \cup {None}, file : Files \cup {None}, id : Ids,
            needs : SUBSET Ids, neededby : SUBSET Ids, exports : SUBSET Symbols,
            bound : Bindings, sects : SUBSET Addrs, att : {"none", "live", "destroyed"}]
Ops == {"idle", "load", "ctors", "fini", "dtors", "free", "att"}
Frames == [op : Ops, mod : Addrs \cup {None}, file : Files \cup {None}, at : Addrs \cup {None}]

TypeOK ==
    /\ list \in Seq(Addrs) /\ live \in SUBSET Addrs /\ id \in Ids
    /\ writer \in Threads \cup {None}
    /\ rec \in [Addrs -> Records]
    /\ frame \in [Threads -> Frames] /\ outer \in [Threads -> Frames]

\* Modules that are not being taken apart by cexpModuleUnload.
Settled == Loaded \ {frame[t].mod : t \in {u \in Threads : frame[u].op = "dtors"}}

\* "Cexp rejects unloading a module 'A' if there is still another module, 'B'
\* loaded which had undefined symbols resolved against 'A's symbols" (README):
\* every symbol a loaded module was bound to is still defined where it was.
ReferencesLive ==
    \A a \in Settled : \A n \in DOMAIN rec[a].bound :
        /\ rec[a].bound[n] \in Loaded
        /\ n \in rec[rec[a].bound[n]].exports

\* The two bitmaps agree: a module is in the neededby map of exactly the
\* modules whose bits cexpLoadFile raised in its needs map.
DependenciesMutual ==
    \A a, b \in Settled :
        rec[b].id \in rec[a].needs <=> rec[a].id \in rec[b].neededby

\* No bit of a neededby map outlives its module (it would block the unloading
\* of a module nobody needs, or belong to a later module of the same id).
NoStaleBits ==
    \A a \in Loaded : \A i \in rec[a].neededby :
        \E b \in Settled : rec[b].id = i /\ rec[a].id \in rec[b].needs

\* What a module needs is recorded with both, and with nobody else, after any
\* sequence of loads and unloads that reuses ids.
DependenciesAgree == DependenciesMutual /\ NoStaleBits

\* Ids, names and symbols identify a module of the list: the bitmaps are indexed
\* by id, and cexpSymLookup takes the first definition it meets.
NoTwins ==
    \A a, b \in Loaded : a # b =>
        /\ rec[a].id # rec[b].id
        /\ rec[a].name # rec[b].name
        /\ rec[a].exports \cap rec[b].exports = {}

\* The list and its records are what the searches and the bitmaps rely on.
WellFormed == TypeOK /\ NoTwins

\* No module record is lost: each allocated one is in the list or in the hands
\* of a call that will chain it or free it; and the list holds no freed one.
RecordsAccounted ==
    /\ Loaded \subseteq live
    /\ live = Loaded \cup
         {frame[t].mod : t \in {u \in Threads : frame[u].op \in {"load", "ctors", "free"}}}
         \cup
         {outer[t].mod : t \in {u \in Threads : outer[u].op \in {"load", "ctors", "free"}}}

\* A module whose symbol table the section_syms of another one point into (a
\* linkonce section found there) stays loaded as long as that one: cexpLoadFile
\* raises no bit for the section, but does for the weak symbols it holds, and
\* modPrintInfo follows these pointers.
SectionNamesLive ==
    \A a \in Settled : rec[a].sects \subseteq Loaded

\* The first module, the system symbol table, never moves, and the order of the
\* modules, in which cexpSymLookup searches them, never changes.
OrderKept ==
    [][/\ list # <<>> => list' # <<>> /\ list'[1] = list[1]
       /\ \A i, j \in DOMAIN list : i < j =>
            \A k, l \in DOMAIN list' :
                list'[k] = list[i] /\ list'[l] = list[j] => k < l]_vars
-----------------------------------------------------------------------------
(* The inductive invariant behind these, for module code that does not call *)
(* the loader back *)

\* Calls that have the write lock, and calls whose record nobody else knows.
Holding == {"ctors", "fini", "dtors"}
Owning == {"load", "ctors", "free"}

\* Nobody is between the checks and the end of a load or unload without the lock.
LockHeld == \A t \in Threads : frame[t].op \in Holding <=> writer = t

NoRepeats == \A i, j \in DOMAIN list : list[i] = list[j] => i = j

\* Every allocated record has one owner: the list, or one call.
Owned ==
    /\ Loaded \subseteq live
    /\ \A t \in Threads : frame[t].op \in Owning => frame[t].mod \in live \ Loaded
    /\ \A t, u \in Threads :
         frame[t].op \in Owning /\ frame[u].op \in Owning /\ frame[t].mod = frame[u].mod => t = u
    /\ \A a \in live \ Loaded : \E t \in Threads : frame[t].op \in Owning /\ frame[t].mod = a

\* What a module is bound to is defined by modules that are not about to go, and
\* each of them has its bit in needs; every bit has such a module.
Resolved(a) ==
    /\ \A n \in DOMAIN rec[a].bound :
         /\ rec[a].bound[n] \in Settled
         /\ n \in rec[rec[a].bound[n]].exports
         /\ rec[rec[a].bound[n]].id \in rec[a].needs
    /\ \A i \in rec[a].needs : \E b \in Settled : rec[b].id = i

\* A module that is not in the list yet shares nothing with those in it.
Apart(m) ==
    /\ rec[m].neededby = {}
    /\ \A b \in Loaded : /\ rec[b].id # rec[m].id
                         /\ rec[b].name # rec[m].name
                         /\ rec[b].exports \cap rec[m].exports = {}

\* What a call has found out stays true until it uses it: the tail of the list and
\* the new module's bindings, or the predecessor and that nobody needs the module.
CallValid(t) ==
    /\ frame[t].op = "load" => frame[t].file \in Files
    /\ frame[t].op = "ctors" =>
         /\ frame[t].at = IF list = <<>> THEN None ELSE list[Len(list)]
         /\ Apart(frame[t].mod) /\ Resolved(frame[t].mod)
    /\ frame[t].op \in {"fini", "dtors"} =>
         /\ \E k \in 2..Len(list) : frame[t].mod = list[k] /\ frame[t].at = list[k - 1]
         /\ rec[frame[t].mod].neededby = {}
    /\ frame[t].op = "att" => frame[t].mod \in Addrs

CallsValid == \A t \in Threads : CallValid(t)

AllResolved == \A a \in Settled : Resolved(a)

\* Records have one owner each, what calls have found out stays true while they have
\* the lock, and the bitmaps, ids and bindings agree, at every step of all calls.
IInv ==
    /\ TypeOK /\ outer = [t \in Threads |-> Idle]
    /\ LockHeld /\ NoRepeats /\ Owned /\ CallsValid
    /\ NoTwins /\ AllResolved /\ DependenciesMutual /\ NoStaleBits

\* A linkonce section is named after a symbol that it holds
\* (.gnu.linkonce.t.<symbol>), and a file that has the one has the other.
Defined(f) == {n \in DOMAIN f.syms : f.syms[n] # "undef"}
Together(n, w) == \A f \in Files : n \in Defined(f) <=> w \in Defined(f)
LinkonceNamed ==
    \A f \in Files : \A n \in DOMAIN f.syms : f.syms[n] = "linkonce" =>
        \E w \in DOMAIN f.syms : f.syms[w] \in {"def", "weakdef"} /\ Together(n, w)

\* A module that has a linkonce section has its symbol, and the modules whose
\* sections another one shares are modules it is bound to.
Sectioned(a) ==
    /\ \A n, w \in Symbols : Together(n, w) =>
         (n \in rec[a].exports <=> w \in rec[a].exports)
    /\ \A b \in rec[a].sects : \E n \in DOMAIN rec[a].bound : rec[a].bound[n] = b

\* The modules of the list and the ones about to be chained to it.
Linking == Loaded \cup {frame[t].mod : t \in {u \in Threads : frame[u].op = "ctors"}}

\* With IInv, the inductive invariant behind SectionNamesLive.
AllSectioned == \A a \in Linking : Sectioned(a)
=============================================================================
