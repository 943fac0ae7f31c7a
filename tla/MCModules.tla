------------------------------- MODULE MCModules -------------------------------
(***************************************************************************)
(* Instances of Modules for TLC.  The files are chosen so that every kind  *)
(* of symbol meets every situation: the system table defines "s", library  *)
(* A uses it and defines "a" and a linkonce section; B uses "a", and "w"   *)
(* if there is one, and shares the common "c" with C, whose weak "a" and   *)
(* linkonce section give way to A's and bar A when C comes first.          *)
(***************************************************************************)
EXTENDS Modules, TLC

CONSTANTS t1, t2, m1, m2, m3, m4

File(name, syms, refs, fini) ==
    [name |-> name, syms |-> syms, size |-> [n \in DOMAIN syms |-> 1],
     refs |-> refs, fini |-> fini]

Sys == File("sys", [s |-> "def"], {}, FALSE)
A == File("A", [a |-> "def", s |-> "undef", o |-> "linkonce"], {"s"}, FALSE)
B == File("B", [a |-> "undef", c |-> "common", w |-> "weakundef"], {"a", "c", "w"}, FALSE)
C == File("C", [c |-> "common", a |-> "weakdef", o |-> "linkonce", w |-> "common"], {"c"}, TRUE)

MCFiles == {Sys, A, B, C}

\* "o" is the section of "a", as the proof of SectionNamesLive requires.
ASSUME SectionsOfSymbols == LinkonceNamed

TwoThreads == {t1, t2}
FourAddrs == {m1, m2, m3, m4}

\* Threads and addresses play no part of their own.
Interchangeable ==
    Permutations(TwoThreads) \cup Permutations(FourAddrs)
=============================================================================
