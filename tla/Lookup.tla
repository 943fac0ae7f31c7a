--------------------------------- MODULE Lookup ---------------------------------
(***************************************************************************)
(* The searches over all modules (cexpmod.c): by address, by regular        *)
(* expression, which lkup (cexp.c) pages through with a handle that it      *)
(* keeps from one call to the next, and the listing of modules, while other *)
(* threads load and unload modules.                                         *)
(*                                                                          *)
(* The table of a new module is built by SymTbl, under the write lock; the  *)
(* searches have the read lock, so that each call is one step, but for what *)
(* _cexpSymLookupRegex does before it takes the lock.                       *)
(***************************************************************************)
EXTENDS SymTbl, SequencesExt

CONSTANTS
    Heap,       \* addresses of module records
    Chunks,     \* segments a module may have: sets of addresses
    Matching,   \* the names that the regular expression matches
    Lines,      \* numbers of lines on a page: values of *pmax
    Margins,    \* margins of searches by address
    MaxLoads,   \* bound on the modules that are loaded
    MaxUsed,    \* bound on the entries of all their tables
    None        \* the null pointer

ASSUME LookupOK ==
    /\ Matching \subseteq Names /\ Lines \subseteq Nat \ {0} /\ Margins \subseteq Nat
    /\ MaxLoads \in Nat /\ MaxUsed \in Nat /\ \A c \in Chunks : c \subseteq Addresses
\* Nor is it a symbol, given by the places of its module and in its index.
ASSUME NoneOK == None \notin Nat \X Nat

VARIABLES
    mods,     \* the modules from cexpSystemModule on; born tells apart the ones
              \* that had the same address
    search,   \* a search or listing and the handle its caller has
    loads     \* modules loaded so far

lookupVars == <<mods, search, loads>>
allVars == <<vars, lookupVars>>

NoSearch == [op |-> "none", kind |-> None, at |-> None, born |-> 0, pos |-> 0,
             seen |-> {}, exact |-> TRUE]

LookupInit == Init /\ mods = <<>> /\ search = NoSearch /\ loads = 0

\* Nobody has the write lock, and a search that ended was looked at.
Unlocked == pc = "add" /\ nentries = 0
Ended == search.op \in {"done", "refused", "walked", "fault"}

Used == FoldLeft(LAMBDA n, m : n + m.last, 0, mods)

-----------------------------------------------------------------------------
(* Loading and unloading *)

Build ==
    /\ ~Ended /\ loads < MaxLoads
    /\ Next
    /\ mods # <<>> => Used + nentries' <= MaxUsed
    /\ UNCHANGED lookupVars

\* Segments come from one allocator: no address is in two of them.  The system
\* module has none.
FreeChunks ==
    IF mods = <<>> THEN {{}} ELSE {c \in Chunks : \A i \in DOMAIN mods : c \cap mods[i].chunk = {}}

\* The module of a complete table is chained to the list; the next table is new.
\* A table has n entries, but names up to the null name behind the last ones that
\* it had before entries were dropped.
Load ==
    /\ pc = "indexed" /\ nentries > 0 /\ Used + Walked <= MaxUsed
    /\ \E a \in Heap \ {mods[i].at : i \in DOMAIN mods}, c \in FreeChunks :
         mods' = Append(mods, [at |-> a, born |-> loads + 1, n |-> nentries, last |-> Walked,
                               syms |-> [i \in 0..(Walked - 1) |-> syms[i]], aindex |-> aindex, chunk |-> c])
    /\ loads' = loads + 1
    /\ syms' = [i \in 0..MaxSyms |-> Unset(CHOOSE a \in Addresses : TRUE)]
    /\ nentries' = 0 /\ aindex' = <<>> /\ given' = {} /\ pc' = "add" /\ fr' = 0 /\ to' = 0
    /\ UNCHANGED search

\* pred->next = mod->next; mod->next = 0; cexpFreeSymTbl.
Unload(i) ==
    /\ Unlocked /\ ~Ended /\ i \in DOMAIN mods \ {1}
    /\ mods' = RemoveAt(mods, i)
    /\ UNCHANGED <<vars, search, loads>>

-----------------------------------------------------------------------------
(* Search by address *)

\* A symbol of a module: k is the module's place, i the one in its aindex.
gaddr(x) == LET m == mods[x[1]] IN m.syms[m.aindex[x[2]]].ptv

\* The system module has no segment: all between its lowest and highest symbol.
addrInModule(addr, k) ==
    IF k = 1 THEN gaddr(<<1, 0>>) <= addr /\ addr <= gaddr(<<1, mods[1].n - 1>>)
             ELSE addr \in mods[k].chunk

\* Mutant: a symbol further away than all that were found takes a place, too.
BelowFarther(w, x, addr, margin) ==
    LET here(j) == j = margin + 1 \/ (w.ar[j] # None /\ gaddr(x) <= gaddr(w.ar[j]))
        j == CHOOSE j \in 1..(margin + 1) : here(j) /\ \A i \in 1..(j - 1) : ~here(i) IN
    IF w.ends \/ gaddr(x) > addr
      THEN [w EXCEPT !.ends = TRUE]
      ELSE [w EXCEPT !.ar = [k \in DOMAIN w.ar |->
              IF k < j - 1 THEN w.ar[k + 1] ELSE IF k = j - 1 THEN x ELSE w.ar[k]]]

\* An array of 2 * margin + 1 entries around the address, in ascending order.
\* A symbol not above the address goes in front of the first that is not lower,
\* entry margin being the last; ends tells that the loop was left.
Below(w, x, addr, margin) ==
    LET here(j) == j = margin + 1 \/ (w.ar[j] # None /\ gaddr(x) <= gaddr(w.ar[j]))
        j == CHOOSE j \in 1..(margin + 1) : here(j) /\ \A i \in 1..(j - 1) : ~here(i) IN
    IF w.ends \/ gaddr(x) > addr \/ (w.ar[0] # None /\ gaddr(x) < gaddr(w.ar[0]))
      THEN [w EXCEPT !.ends = TRUE]
      ELSE [w EXCEPT !.ar = [k \in DOMAIN w.ar |->
              IF k < j - 1 THEN w.ar[k + 1] ELSE IF k = j - 1 THEN x ELSE w.ar[k]]]

\* The same above the address; without a margin there is but one entry.
Above(w, x, addr, margin) ==
    LET last == 2 * margin
        here(j) == j <= margin \/ (w.ar[j] # None /\ gaddr(x) >= gaddr(w.ar[j]))
        from == (margin - 1)..(last - 1)
        j == CHOOSE j \in from : here(j) /\ j <= last - 1 /\ \A i \in (j + 1)..(last - 1) : ~here(i) IN
    IF w.ends \/ gaddr(x) <= addr \/ (w.ar[last] # None /\ gaddr(x) > gaddr(w.ar[last]))
      THEN [w EXCEPT !.ends = TRUE]
      ELSE [w EXCEPT !.ar = [k \in DOMAIN w.ar |->
              IF k > j + 1 THEN w.ar[k - 1] ELSE IF k = j + 1 THEN x ELSE w.ar[k]]]

Table(m) == [syms |-> m.syms, nentries |-> m.n, aindex |-> m.aindex]

\* What one module adds to the array.
Around(ar, k, addr, margin) ==
    LET cli == cexpSymTblLkAddrIdx(Table(mods[k]), addr)
        down == [j \in 1..(cli + 1) |-> <<k, cli + 1 - j>>]
        up == [j \in 1..(mods[k].n - cli - 1) |-> <<k, cli + j>>]
        low == FoldLeft(LAMBDA w, x : Below(w, x, addr, margin), [ar |-> ar, ends |-> FALSE], down) IN
    FoldLeft(LAMBDA w, x : Above(w, x, addr, margin), [ar |-> low.ar, ends |-> FALSE], up).ar

cexpSymLkAddrRange(addr, margin) ==
    FoldLeft(LAMBDA ar, k : IF addrInModule(addr, k) THEN Around(ar, k, addr, margin) ELSE ar,
             [j \in 0..(2 * margin) |-> None], [k \in DOMAIN mods |-> k])

-----------------------------------------------------------------------------
(* Search with a regular expression *)

\* The module the handle was made for is in the list.
Alive == \E i \in DOMAIN mods : mods[i].at = search.at /\ mods[i].born = search.born
PlaceOf(at) == CHOOSE i \in DOMAIN mods : mods[i].at = at

InList(at) == at \in {mods[i].at : i \in DOMAIN mods}

\* Mutant: no check.
modIsStaleNever(at) == FALSE

modIsStale(at) == ~InList(at)

\* The handle leads into memory that is free: a symbol of the module that is
\* gone, or its record.
Dangling == ~Alive /\ (search.pos > 0 \/ ~InList(search.at))

Begin(kind) ==
    /\ search.op = "none" /\ mods # <<>> /\ Unlocked
    /\ search' = [NoSearch EXCEPT !.op = "entered", !.kind = kind, !.at = mods[1].at,
                                  !.born = mods[1].born]
    /\ UNCHANGED <<vars, mods, loads>>

\* Before the lock is taken: the symbol after the last one, and the next module
\* if that has a null name.  When the module is gone this reads memory that is free: it
\* may still hold what it held, the null pointer of unloading included, or not.
ReadHandle ==
    /\ search.op = "held" /\ Unlocked
    /\ LET k == PlaceOf(search.at) IN
       search' \in
         IF ~Alive THEN {[search EXCEPT !.op = o, !.exact = FALSE, !.pos = search.pos + 1] :
                           o \in {"entered", "done", "fault"}}
         ELSE IF search.pos + 1 < mods[k].last
           THEN {[search EXCEPT !.op = "entered", !.pos = @ + 1]}
         ELSE IF k = Len(mods) THEN {[search EXCEPT !.op = "done"]}
         ELSE {[search EXCEPT !.op = "entered", !.at = mods[k + 1].at, !.born = mods[k + 1].born,
                              !.pos = 0]}
    /\ UNCHANGED <<vars, mods, loads>>

Before(x, y) == x[1] < y[1] \/ (x[1] = y[1] /\ x[2] <= y[2])

\* Mutant: in the modules that follow the search starts at the same place.
MatchesFromSame(start) ==
    {x \in UNION {{k} \X (0..(mods[k].last - 1)) : k \in DOMAIN mods} :
        Before(start, x) /\ x[2] >= start[2] /\ mods[x[1]].syms[x[2]].name \in Matching}

\* The places that match, from one on: in each table up to the null name, so
\* that entries behind the table's symbols match, too.
MatchesFrom(start) ==
    {x \in UNION {{k} \X (0..(mods[k].last - 1)) : k \in DOMAIN mods} :
        Before(start, x) /\ mods[x[1]].syms[x[2]].name \in Matching}

\* The lines that are printed up to x: its module's name is one, too.
LinesUpTo(found, x) ==
    LET printed == {y \in found : Before(y, x)} IN
    Cardinality(printed) + Cardinality({y[1] : y \in printed})

Seen(xs) == {<<mods[x[1]].born, x[2]>> : x \in xs}

\* What is printed until there is no line left.
Page(found, lines) ==
    {x \in found : \A y \in found : Before(y, x) /\ y # x => LinesUpTo(found, y) < lines}

\* With the lock: a handle that is not in the list is refused; one whose record
\* belongs to another module by now is not noticed, and a symbol of the old
\* one's table is followed.
LookupRegex(lines) ==
    /\ search.op = "entered" /\ search.kind = "lkup" /\ Unlocked
    /\ LET k == PlaceOf(search.at)
           found == MatchesFrom(<<k, search.pos>>)
           page == Page(found, lines)
           last == CHOOSE x \in page : \A y \in page : Before(y, x) IN
       search' =
         IF modIsStale(search.at) THEN [search EXCEPT !.op = "refused"]
         ELSE IF Dangling THEN [search EXCEPT !.op = "walked"]
         ELSE IF page = {} \/ LinesUpTo(found, last) < lines
           THEN [search EXCEPT !.op = "done", !.seen = @ \cup Seen(page), !.exact = @ /\ Alive]
         ELSE [search EXCEPT !.op = "held", !.at = mods[last[1]].at, !.born = mods[last[1]].born,
                             !.pos = last[2], !.seen = @ \cup Seen(page), !.exact = @ /\ Alive]
    /\ UNCHANGED <<vars, mods, loads>>

\* cexpModIterate: one module, and the handle of the next one.
cexpModIterate ==
    /\ search.op = "entered" /\ search.kind = "list" /\ Unlocked
    /\ LET k == PlaceOf(search.at) IN
       search' =
         IF modIsStale(search.at) THEN [search EXCEPT !.op = "refused"]
         ELSE IF Dangling THEN [search EXCEPT !.op = "walked"]
         ELSE IF k = Len(mods)
           THEN [search EXCEPT !.op = "done", !.seen = @ \cup {<<mods[k].born, 0>>}, !.exact = @ /\ Alive]
         ELSE [search EXCEPT !.at = mods[k + 1].at, !.born = mods[k + 1].born,
                             !.seen = @ \cup {<<mods[k].born, 0>>}, !.exact = @ /\ Alive]
    /\ UNCHANGED <<vars, mods, loads>>

\* The caller has its answer, or asks no more.
End ==
    /\ search.op # "none" /\ Unlocked
    /\ search' = NoSearch
    /\ UNCHANGED <<vars, mods, loads>>

LookupNext ==
    \/ Build \/ Load
    \/ \E i \in DOMAIN mods : Unload(i)
    \/ \E kind \in {"lkup", "list"} : Begin(kind)
    \/ ReadHandle
    \/ \E lines \in Lines : LookupRegex(lines)
    \/ cexpModIterate \/ End

LookupSpec == LookupInit /\ [][LookupNext]_allVars

-----------------------------------------------------------------------------
(* Properties *)

\* Every symbol or module that is loaded and not behind the handle has been
\* reported when the handle is used again, and all when the search ends; no place
\* is reported twice, and none that is still to come.  Modules that come and go
\* meanwhile make no difference, unless the one of the handle goes.  Places are
\* those up to the null name: what the sort has left behind a table's n symbols
\* is walked, too, and a name reported once more (TailsRepeat).
SearchComplete ==
    search.op \in {"held", "entered", "done"} /\ search.exact /\ (search.op # "done" => Alive) =>
      LET k == PlaceOf(search.at)
          passed(x) ==
            \/ search.op = "done" \/ x[1] < k
            \/ x[1] = k /\ search.kind = "lkup" /\
                 (x[2] < search.pos \/ (search.op = "held" /\ x[2] = search.pos))
          all == IF search.kind = "lkup"
                   THEN UNION {{q} \X {i \in 0..(mods[q].last - 1) : mods[q].syms[i].name \in Matching} :
                                 q \in DOMAIN mods}
                   ELSE (DOMAIN mods) \X {0} IN
      \A x \in all : passed(x) <=> <<mods[x[1]].born, x[2]>> \in search.seen

\* "verify the validity of a handle": a search that was continued after its
\* module was unloaded follows none of its symbols, unless another module has
\* got the address of its record.
StaleRefused ==
    search.op = "walked" => ~Alive /\ InList(search.at)

\* A module whose table is complete.
LoadedModule ==
    [at : Heap, born : 1..MaxLoads, n : 1..MaxSyms, last : 1..MaxSyms,
     syms : UNION {[0..(n - 1) -> Entry] : n \in 1..MaxSyms},
     aindex : UNION {Permuted(n) : n \in 1..MaxSyms}, chunk : SUBSET Addresses]

\* The list is in the order of loading, no two records have the same address,
\* and no two segments an address.
ModulesKept ==
    /\ loads \in 0..MaxLoads /\ (Unlocked \/ loads < MaxLoads)
    /\ mods \in Seq(LoadedModule)
    /\ \A i \in DOMAIN mods : LET m == mods[i] IN
          /\ m.born <= loads /\ m.n <= m.last
          /\ DOMAIN m.syms = 0..(m.last - 1) /\ m.aindex \in Permuted(m.n)
    /\ \A i, j \in DOMAIN mods : i < j =>
          /\ mods[i].born < mods[j].born /\ mods[i].at # mods[j].at
          /\ mods[i].chunk \cap mods[j].chunk = {}

\* Each module's index is in the order of addresses.
IndicesAscend ==
    \A k \in DOMAIN mods : \A i \in 0..(mods[k].n - 2) : gaddr(<<k, i>>) <= gaddr(<<k, i + 1>>)

\* What a walk meets behind the symbols of a table has, up to a version, the name
\* of one of them.
TailsRepeat ==
    \A k \in DOMAIN mods : LET m == mods[k] IN
        \A i \in m.n..(m.last - 1) : \E j \in 0..(m.n - 1) :
            Unversioned(m.syms[j].name) = Unversioned(m.syms[i].name)

\* A handle is one of a module that was loaded, and so is what was reported;
\* while an answer is looked at, nobody has the lock.
HandleKept ==
    /\ search \in [op : {"none", "entered", "held", "done", "refused", "walked", "fault"},
                   kind : {"lkup", "list", None}, at : Heap \cup {None}, born : 0..loads,
                   pos : Nat, seen : SUBSET ((1..loads) \X Nat), exact : BOOLEAN]
    /\ search.op = "entered" => search.kind \in {"lkup", "list"}
    /\ search.op = "held" => search.kind = "lkup"
    /\ Ended => Unlocked

\* The inductive invariant.
IInv ==
    /\ TableInv /\ ModulesKept /\ IndicesAscend /\ TailsRepeat
    /\ HandleKept /\ SearchComplete /\ StaleRefused

\* "Look for all addresses in this module which are lower than the one we are
\* looking for and which are closer than what we already have": the search by
\* address gives, from all modules that contain the address, the nearest symbols
\* below and above, in their order, whatever modules were loaded in whatever
\* order.  Without a margin it is the nearest below.  (The lowest symbol of a
\* module is never given for an address below it.)  The same modules are met
\* while no other search is under way, and that is when they are looked at.
AddressClosest ==
    Unlocked /\ search = NoSearch /\ mods # <<>> => \A addr \in Addresses, margin \in Margins :
      LET ar == cexpSymLkAddrRange(addr, margin)
          all == UNION {{k} \X (0..(mods[k].n - 1)) :
                          k \in {k \in DOMAIN mods : addrInModule(addr, k)}}
          low == {x \in all : gaddr(x) <= addr}
          high == {x \in all \ low : x[2] > 0}
          \* x is the entry at distance d of those in xs, nearer(y, x) of its order
          nth(j, xs, d, nearer(_, _)) ==
            IF Cardinality(xs) <= d THEN ar[j] = None
            ELSE /\ ar[j] \in xs
                 /\ Cardinality({y \in xs : nearer(y, ar[j])}) <= d
                 /\ Cardinality({y \in xs : ~nearer(ar[j], y)}) > d
          closerLow(y, x) == gaddr(y) > gaddr(x)
          closerHigh(y, x) == gaddr(y) < gaddr(x) IN
      /\ \A i, j \in DOMAIN ar : i # j => ar[i] = None \/ ar[i] # ar[j]
      /\ margin > 0 \/ low # {} => \A j \in 0..margin : nth(j, low, margin - j, closerLow)
      /\ \A j \in (margin + 1)..(2 * margin) : nth(j, high, j - margin - 1, closerHigh)
      /\ margin = 0 /\ low = {} => nth(0, high, 0, closerHigh)

\* Both searches by address, in one table and over all.
AddressesFound == AddressFound /\ AddressClosest
=============================================================================
