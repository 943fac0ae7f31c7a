-------------------------------- MODULE SymTbl ---------------------------------
(***************************************************************************)
(* Symbol tables (cexpsyms.c): symbols are added in the order of the       *)
(* object file, sorted by name, entries of equal name dropped, an index by *)
(* address built, and then searched by name and by address.  A name is a   *)
(* sequence of characters, of which only the linker's version separator    *)
(* and the marker of the sort are special; arrays start at 0.              *)
(***************************************************************************)
EXTENDS Integers, Sequences, FiniteSets

CONSTANTS
    Names,       \* names of symbols
    Addresses,   \* their values
    At,          \* LINKER_VERSION_SEPARATOR
    Marker,      \* the invalid name that ends the table during the sort
    MaxSyms,     \* bound: entries of the table
    LastUnique   \* whether inputs have no two symbols of the greatest name

ASSUME NamesOK == \A n \in Names \cup {Marker} : n \in Seq(Nat \ {0}) /\ n # <<>>
ASSUME MarkerInvalid == Marker \notin Names
ASSUME MaxSymsOK == MaxSyms \in Nat \ {0} /\ Addresses \subseteq Nat /\ LastUnique \in BOOLEAN

\* No name continues another's with a character below the separator where that
\* one's version starts.
Unshadowed ==
    \A a, b \in Names : \A k \in DOMAIN a \cap DOMAIN b :
        a[k] = At /\ (\A i \in 1..(k - 1) : b[i] = a[i] /\ a[i] # At) => b[k] >= At

VARIABLES
    syms,      \* the entries; there is room for one more than MaxSyms
    nentries,
    aindex,    \* indices of entries in the order of their addresses
    given,     \* the entries the object file had
    pc, fr, to \* the loop that drops entries

vars == <<syms, nentries, aindex, given, pc, fr, to>>

Entry == [name : Names, ptv : Addresses]

\* What an entry holds that was never assigned, except for its name.
Unset(a) == [name |-> <<>>, ptv |-> a]

-----------------------------------------------------------------------------
(* Comparison of names *)

\* The character of a C string at a position, 0 at its end.
Char(s, i) == IF i \in 1..Len(s) THEN s[i] ELSE 0

\* Mutant: versions are compared like any other characters.
_cexp_namecompPlain(k, c) ==
    LET differ == {i \in 1..(Len(k) + 1) : Char(k, i) # Char(c, i)}
        i == CHOOSE j \in differ : \A m \in differ : j <= m
    IN IF differ = {} THEN 0 ELSE Char(k, i) - Char(c, i)

\* The key k is compared with c up to its end; what c has from a separator on
\* is its version, which does not count.
_cexp_namecomp(k, c) ==
    LET differ == {i \in 1..Len(k) : Char(k, i) # Char(c, i)}
        i == CHOOSE j \in differ : \A m \in differ : j <= m
    IN IF differ # {} THEN Char(k, i) - Char(c, i)
       ELSE IF Char(c, Len(k) + 1) \in {0, At} THEN 0 ELSE -1

-----------------------------------------------------------------------------
(* Construction *)

Init ==
    /\ \E a \in Addresses : syms = [i \in 0..MaxSyms |-> Unset(a)]
    /\ nentries = 0
    /\ aindex = <<>>
    /\ given = {}
    /\ pc = "add" /\ fr = 0 /\ to = 0

\* cexpAddSymTbl copies a symbol that passed the filter.
Add(e) ==
    /\ pc = "add" /\ nentries < MaxSyms
    /\ syms' = [syms EXCEPT ![nentries] = e]
    /\ nentries' = nentries + 1
    /\ given' = given \cup {e}
    /\ UNCHANGED <<aindex, pc, fr, to>>

\* Where a walk that ends at a null name ends: as many entries are passed.
Walked == CHOOSE i \in 0..MaxSyms : syms[i].name = <<>> /\ \A j \in 0..(i - 1) : syms[j].name # <<>>

Permuted(n) == {q \in [0..(n - 1) -> 0..(n - 1)] : \A i, j \in 0..(n - 1) : i # j => q[i] # q[j]}

\* qsort: entries that compare equal end in any order.
Sorted(s, n) ==
    {r \in {[i \in 0..MaxSyms |-> IF i < n THEN s[q[i]] ELSE s[i]] : q \in Permuted(n)} :
        \A i \in 0..(n - 2) : _cexp_namecomp(r[i].name, r[i + 1].name) <= 0}

LastDiffers(r, n) == \A i \in 0..(n - 2) : _cexp_namecomp(r[i].name, r[n - 1].name) # 0

\* cexpSortSymTbl up to the loop.
SortBegin ==
    /\ pc = "add"
    /\ IF nentries = 0
         THEN pc' = "sorted" /\ UNCHANGED <<syms, fr, to>>
         ELSE /\ \E r \in Sorted(syms, nentries) :
                    /\ LastUnique => LastDiffers(r, nentries)
                    /\ syms' = [r EXCEPT ![nentries].name = Marker]
              /\ pc' = "for" /\ fr' = 1 /\ to' = 0
    /\ UNCHANGED <<nentries, aindex, given>>

\* Mutant: entries of equal name are not noticed.
SameNever == FALSE

\* Mutant: the wrong index, an entry is compared with itself.
SameSelf == _cexp_namecomp(syms[to].name, syms[to].name) = 0

\* The test of the inner loop.
Same == _cexp_namecomp(syms[to].name, syms[fr].name) = 0

\* Entries that compare equal to the last one kept are passed over.
SortSkip ==
    /\ pc = "while" \/ (pc = "for" /\ fr < nentries)
    /\ Same
    /\ fr' = fr + 1
    /\ pc' = "while"
    /\ UNCHANGED <<syms, nentries, aindex, given, to>>

\* The next one is kept, be it the marker.
SortKeep ==
    /\ pc = "while" \/ (pc = "for" /\ fr < nentries)
    /\ ~Same
    /\ syms' = [syms EXCEPT ![to + 1] = syms[fr]]
    /\ to' = to + 1
    /\ fr' = fr + 1
    /\ pc' = "for"
    /\ UNCHANGED <<nentries, aindex, given>>

\* Mutant: one entry too many.
SortEndOneMore ==
    /\ pc = "for" /\ fr >= nentries
    /\ syms' = [syms EXCEPT ![nentries].name = <<>>]
    /\ nentries' = to + 2
    /\ pc' = "sorted"
    /\ UNCHANGED <<aindex, given, fr, to>>

\* The loop is over: the end of the table gets its name back.
SortEnd ==
    /\ pc = "for" /\ fr >= nentries
    /\ syms' = [syms EXCEPT ![nentries].name = <<>>]
    /\ nentries' = to + 1
    /\ pc' = "sorted"
    /\ UNCHANGED <<aindex, given, fr, to>>

\* cexpIndexSymTbl.
Index ==
    /\ pc = "sorted"
    /\ \E q \in Permuted(nentries) :
          /\ \A i \in 0..(nentries - 2) : syms[q[i]].ptv <= syms[q[i + 1]].ptv
          /\ aindex' = q
    /\ pc' = "indexed"
    /\ UNCHANGED <<syms, nentries, given, fr, to>>

Next ==
    \/ \E e \in Entry : Add(e)
    \/ SortBegin \/ SortSkip \/ SortKeep \/ SortEnd \/ Index

Spec == Init /\ [][Next]_vars

-----------------------------------------------------------------------------
(* Search *)

\* The C library's bsearch; -1 stands for a null pointer.
bsearch(key) ==
    LET find[b \in (0..nentries) \X (0..nentries)] ==
          LET mid == (b[1] + b[2]) \div 2
              cmp == _cexp_namecomp(key, syms[mid].name)
          IN IF b[1] >= b[2] THEN -1
             ELSE IF cmp < 0 THEN find[<<b[1], mid>>]
             ELSE IF cmp > 0 THEN find[<<mid + 1, b[2]>>]
             ELSE mid
    IN find[<<0, nentries>>]

cexpSymTblLookup(name) == bsearch(name)

\* Mutant: an address that is in the table is not its own predecessor.
LkAddrIdxBelow(t, addr) ==
    LET find[b \in (0..t.nentries) \X (-1..t.nentries)] ==
          LET mid == (b[1] + b[2] + 1) \div 2
          IN IF b[1] >= b[2] THEN b[1]
             ELSE IF addr <= t.syms[t.aindex[mid]].ptv THEN find[<<b[1], mid - 1>>]
             ELSE find[<<mid, b[2]>>]
    IN find[<<0, t.nentries - 1>>]

\* cexpSymTblLkAddrIdx, on a table t.
cexpSymTblLkAddrIdx(t, addr) ==
    LET find[b \in (0..t.nentries) \X (-1..t.nentries)] ==
          LET mid == (b[1] + b[2] + 1) \div 2
          IN IF b[1] >= b[2] THEN b[1]
             ELSE IF addr < t.syms[t.aindex[mid]].ptv THEN find[<<b[1], mid - 1>>]
             ELSE find[<<mid, b[2]>>]
    IN find[<<0, t.nentries - 1>>]

-----------------------------------------------------------------------------
(* Properties *)

\* Types; the loop that drops entries stays inside the array.
TypeOK ==
    /\ syms \in [0..MaxSyms -> [name : Names \cup {Marker, <<>>}, ptv : Addresses]]
    /\ nentries \in 0..MaxSyms
    /\ fr \in 0..(MaxSyms + 1) /\ to \in 0..MaxSyms
    /\ pc \in {"add", "for", "while", "sorted", "indexed"}

Complete == pc \in {"sorted", "indexed"}

\* The name without its version.
Unversioned(n) ==
    IF \E i \in DOMAIN n : n[i] = At
      THEN SubSeq(n, 1, (CHOOSE i \in DOMAIN n : n[i] = At /\ \A j \in 1..(i - 1) : n[j] # At) - 1)
      ELSE n

\* The table that a search works on is "sorted in ascending order", and no name
\* is in it twice although executable and dynamic tables overlap.
Ascending ==
    Complete => \A i \in 0..(nentries - 2) :
        /\ _cexp_namecomp(syms[i].name, syms[i + 1].name) < 0
        /\ _cexp_namecomp(syms[i + 1].name, syms[i].name) > 0

\* The table is one that bsearch can rely on.
WellFormed == TypeOK /\ Ascending

\* "Eliminate redundant entries": what is left are entries of the object file,
\* each name of which is still there, with or without its version.
OnlyRedundantDropped ==
    Complete =>
        /\ \A i \in 0..(nentries - 1) : syms[i] \in given
        /\ \A e \in given : \E i \in 0..(nentries - 1) :
              Unversioned(syms[i].name) = Unversioned(e.name)

Dropping == pc \in {"for", "while"}

\* The entries that are not dropped so far.
Left == IF Dropping THEN 0..to \cup fr..(nentries - 1) ELSE 0..(nentries - 1)

\* The loop: what it kept ascends, what it has not seen is sorted and follows
\* the last one kept, and is there, the greatest name, once.  It never takes the
\* marker.
LoopOrdered ==
    Dropping =>
        /\ to < fr /\ fr <= nentries /\ (pc = "while" => fr < nentries)
        /\ \A i \in 0..(to - 1) :
              /\ _cexp_namecomp(syms[i].name, syms[i + 1].name) < 0
              /\ _cexp_namecomp(syms[i + 1].name, syms[i].name) > 0
        /\ \A i \in fr..(nentries - 2) : _cexp_namecomp(syms[i].name, syms[i + 1].name) <= 0
        /\ fr < nentries => _cexp_namecomp(syms[to].name, syms[fr].name) <= 0
        /\ \A i \in {to} \cup fr..(nentries - 2) :
              fr < nentries => _cexp_namecomp(syms[i].name, syms[nentries - 1].name) # 0

\* At any time the names of the object file are among the entries that are left.
GivenLeft ==
    /\ given \subseteq Entry
    /\ \A i \in Left : syms[i] \in given
    /\ \A e \in given : \E i \in Left : Unversioned(syms[i].name) = Unversioned(e.name)

\* Behind the entries is none that has a name while symbols are added, none but
\* the marker during the loop, and then what the loop left there, which is
\* entries of the object file, up to a null name.
NullFrom(i) == \A j \in i..MaxSyms : syms[j].name = <<>>

TailKept ==
    /\ pc = "add" => NullFrom(nentries)
    /\ Dropping => NullFrom(nentries + 1) /\ \A i \in 0..(nentries - 1) : syms[i] \in given
    /\ Complete => \E e \in nentries..MaxSyms : NullFrom(e) /\ \A i \in 0..(e - 1) : syms[i] \in given

AddressesAscend ==
    pc = "indexed" =>
        /\ aindex \in Permuted(nentries)
        /\ \A i \in 0..(nentries - 2) : syms[aindex[i]].ptv <= syms[aindex[i + 1]].ptv

\* The inductive invariant of the construction.
TableInv == WellFormed /\ LoopOrdered /\ GivenLeft /\ TailKept /\ AddressesAscend

\* "handle the symbol versioning in an appropriate way": whatever symbols the
\* object file has, a name that one of them has up to a version is found, and
\* what is found has that name.
LookupFinds ==
    Complete => \A e \in given :
        LET key == Unversioned(e.name)  i == cexpSymTblLookup(key) IN
        i \in 0..(nentries - 1) /\ Unversioned(syms[i].name) = key

\* The search by address returns the highest entry of the index that is not
\* above the address, the lowest if all are.
AddressFound ==
    pc = "indexed" /\ nentries > 0 => \A addr \in Addresses :
        LET below == {i \in 0..(nentries - 1) : syms[aindex[i]].ptv <= addr}
            i == cexpSymTblLkAddrIdx([syms |-> syms, nentries |-> nentries, aindex |-> aindex], addr)
        IN IF below = {} THEN i = 0 ELSE i \in below /\ \A j \in below : j <= i
=============================================================================
