----------------------------- MODULE LookupProofs ------------------------------
(***************************************************************************)
(* Theorems about the searches over all modules, while other threads load   *)
(* and unload modules, for any number of modules, symbols, lines and        *)
(* addresses: a search that is continued with its handle reports every      *)
(* symbol once it is behind the handle and nothing else (SearchComplete),   *)
(* and one whose module is gone follows none of its symbols, unless the     *)
(* address of the record was given out again (StaleRefused).                *)
(*                                                                         *)
(* SearchComplete is about one state; it is inductive with what makes a     *)
(* handle mean the same module later: records have different addresses, and *)
(* the list is in the order of loading, so that a handle whose module is    *)
(* gone never becomes valid again (ModulesKept), and what was reported was  *)
(* loaded (HandleKept).                                                     *)
(*                                                                         *)
(* The search by address gives the nearest symbols (AddressClosest): each   *)
(* module's two walks meet its symbols in the order of their distance, so   *)
(* that a symbol takes the entry where it belongs among the nearest that    *)
(* were met (NearestInserted) until one is not nearer than the last, and    *)
(* then all that follow are not (WalkNearest).                              *)
(*                                                                         *)
(* The first part is about the construction of the tables that are searched *)
(* (SymTbl), the second about the searches.                                 *)
(***************************************************************************)
EXTENDS Lookup, FiniteSetTheorems, SequenceTheorems, TLAPS

\* A set of numbers up to n has a least element.
LEMMA LeastNumber ==
    ASSUME NEW n \in Nat, NEW T \in SUBSET (0..n), T # {}
    PROVE  \E k \in T : \A j \in T : k <= j
<1> DEFINE Lower == {p \in Nat \X Nat : p[1] < p[2]}
<1>1. IsWellFoundedOn(Lower, Nat)
  BY NatLessThanWellFounded DEF OpToRel
<1>2. T \subseteq Nat
  OBVIOUS
<1>3. PICK k \in T : \A j \in T : <<j, k>> \notin Lower
  <2> HIDE DEF Lower
  <2> QED
    BY <1>1, <1>2, WFMin
<1>4. \A j \in T : ~(j < k)
  BY <1>2, <1>3
<1> QED
  BY <1>2, <1>4

\* And a greatest.
LEMMA GreatestNumber ==
    ASSUME NEW n \in Nat, NEW T \in SUBSET (0..n), T # {}
    PROVE  \E k \in T : \A j \in T : j <= k
<1> DEFINE U == {n - k : k \in T}
<1>1. U \in SUBSET (0..n) /\ U # {}
  <2>1. \A k \in T : n - k \in 0..n
    OBVIOUS
  <2>2. PICK k \in T : TRUE
    OBVIOUS
  <2>3. n - k \in U
    OBVIOUS
  <2> QED
    BY <2>1, <2>3
<1>2. PICK u \in U : \A v \in U : u <= v
  <2> HIDE DEF U
  <2> QED
    BY <1>1, LeastNumber
<1>3. PICK k \in T : u = n - k
  BY <1>2
<1>4. ASSUME NEW j \in T
      PROVE  j <= k
  <2>1. n - j \in U /\ j \in Int /\ k \in Int
    OBVIOUS
  <2>2. u <= n - j
    <3> HIDE DEF U
    <3> QED
      BY <1>2, <2>1
  <2> QED
    BY <1>3, <2>1, <2>2
<1> QED
  BY <1>4

\* A map of a finite set into itself that takes no value twice takes them all.
LEMMA InjectiveOnto ==
    ASSUME NEW S, IsFiniteSet(S), NEW q \in [S -> S], \A i, j \in S : q[i] = q[j] => i = j
    PROVE  \A j \in S : \E i \in S : q[i] = j
<1>1. q \in Injection(S, S)
  BY DEF Injection, IsInjective
<1>2. q \in Surjection(S, S)
  BY <1>1, FS_Injection
<1> QED
  BY <1>2 DEF Surjection

(***************************************************************************)
(* Theorems about the construction of symbol tables, for all names, and     *)
(* tables of all sizes, in which the greatest name is there once            *)
(* (LastUnique): the loop that drops entries by comparing names in one      *)
(* direction only, with a comparison that is no order, leaves a table that  *)
(* a binary search can rely on, and loses no name.                          *)
(*                                                                         *)
(* First what the comparison _cexp_namecomp is: it is positive in one       *)
(* direction where it is negative in the other (OtherDirection), an entry   *)
(* that is passed over may be skipped in a chain (SkippedInChain), and only *)
(* names that differ in their version compare equal (EqualButVersion).      *)
(* The names of a table are in an order all the same (Follows), and where   *)
(* no name hides another's version (Unshadowed) it is also the order in     *)
(* which a name without a version is compared with them.                    *)
(***************************************************************************)

Name == Seq(Nat \ {0})

-----------------------------------------------------------------------------
(* The comparison of names *)

\* A character of a name that has none there is 0.
LEMMA CharType ==
    ASSUME NEW s \in Name, NEW i \in Int
    PROVE  /\ Char(s, i) \in Nat
           /\ Char(s, i) = 0 <=> i \notin 1..Len(s)
           /\ i \in 1..Len(s) => Char(s, i) = s[i]
BY DEF Char, Name

\* Names agree before a place.
Agree(k, c, i) == \A j \in 1..(i - 1) : Char(k, j) = Char(c, j)

\* The comparison takes the first character that differs, or the end of the key.
LEMMA Compared ==
    ASSUME NEW k \in Name, NEW c \in Name
    PROVE  \/ \E i \in 1..Len(k) : /\ Agree(k, c, i) /\ Char(k, i) # Char(c, i)
                                   /\ _cexp_namecomp(k, c) = Char(k, i) - Char(c, i)
           \/ /\ Agree(k, c, Len(k) + 1)
              /\ \/ Char(c, Len(k) + 1) \in {0, At} /\ _cexp_namecomp(k, c) = 0
                 \/ Char(c, Len(k) + 1) # 0 /\ _cexp_namecomp(k, c) = -1
<1> DEFINE differ == {i \in 1..Len(k) : Char(k, i) # Char(c, i)}
           first == CHOOSE j \in differ : \A m \in differ : j <= m
<1>1. Len(k) \in Nat
  BY DEF Name
<1>2. CASE differ = {}
  <2>1. _cexp_namecomp(k, c) = IF Char(c, Len(k) + 1) \in {0, At} THEN 0 ELSE -1
    BY <1>2 DEF _cexp_namecomp
  <2>2. Agree(k, c, Len(k) + 1)
    BY <1>1, <1>2 DEF Agree
  <2> QED
    BY <2>1, <2>2
<1>3. CASE differ # {}
  <2>1. \E j \in differ : \A m \in differ : j <= m
    <3>1. differ \in SUBSET (0..Len(k))
      BY <1>1
    <3> HIDE DEF differ
    <3> QED
      BY <1>1, <1>3, <3>1, LeastNumber
  <2>2. first \in differ /\ \A m \in differ : first <= m
    BY <2>1
  <2>3. _cexp_namecomp(k, c) = Char(k, first) - Char(c, first)
    BY <1>3 DEF _cexp_namecomp
  <2>4. Agree(k, c, first)
    <3>1. \A j \in 1..(first - 1) : j \in 1..Len(k) /\ j \notin differ
      BY <1>1, <2>2
    <3> QED
      BY <3>1 DEF Agree
  <2> QED
    BY <2>2, <2>3, <2>4
<1> QED
  BY <1>2, <1>3

LEMMA ComparedType ==
    ASSUME NEW k \in Name, NEW c \in Name
    PROVE  _cexp_namecomp(k, c) \in Int
<1>1. \A i \in Int : Char(k, i) \in Nat /\ Char(c, i) \in Nat
  BY CharType
<1>2. CASE \E i \in 1..Len(k) : _cexp_namecomp(k, c) = Char(k, i) - Char(c, i)
  <2>1. PICK i \in 1..Len(k) : _cexp_namecomp(k, c) = Char(k, i) - Char(c, i)
    BY <1>2
  <2>2. Char(k, i) \in Nat /\ Char(c, i) \in Nat
    BY <1>1
  <2> QED
    BY <2>1, <2>2
<1>3. CASE _cexp_namecomp(k, c) \in {0, -1}
  BY <1>3
<1> QED
  BY <1>2, <1>3, Compared

\* What is below in one direction is above in the other.
LEMMA OtherDirection ==
    ASSUME NEW k \in Name, NEW c \in Name, _cexp_namecomp(k, c) < 0
    PROVE  _cexp_namecomp(c, k) > 0
<1> DEFINE K == Len(k)
           C == Len(c)
<1>1. K \in Nat /\ C \in Nat
  BY DEF Name
<1>2. \A i \in Int : /\ Char(k, i) \in Nat /\ Char(c, i) \in Nat
                     /\ Char(k, i) = 0 <=> i \notin 1..K
                     /\ Char(c, i) = 0 <=> i \notin 1..C
  BY CharType
\* The first place that differs, where the key is lower, maybe at its end.
<1>3. PICK i \in 1..(K + 1) : i \in 1..C /\ Agree(k, c, i) /\ Char(k, i) < Char(c, i)
  <2>1. CASE \E i \in 1..K : /\ Agree(k, c, i) /\ Char(k, i) # Char(c, i)
                             /\ _cexp_namecomp(k, c) = Char(k, i) - Char(c, i)
    <3>1. PICK i \in 1..K : /\ Agree(k, c, i) /\ Char(k, i) # Char(c, i)
                            /\ _cexp_namecomp(k, c) = Char(k, i) - Char(c, i)
      BY <2>1
    <3>2. Char(k, i) \in Nat /\ Char(c, i) \in Nat /\ i \in Int /\ i \in 1..(K + 1)
      BY <1>1, <1>2
    <3>3. Char(k, i) < Char(c, i)
      BY <3>1, <3>2
    <3>4. i \in 1..C
      BY <1>2, <3>2, <3>3
    <3> QED
      BY <3>1, <3>2, <3>3, <3>4
  <2>2. CASE Agree(k, c, K + 1) /\ Char(c, K + 1) # 0
    <3> DEFINE i == K + 1
    <3>1. i \in Int /\ i \notin 1..K /\ i \in 1..(K + 1)
      BY <1>1
    <3>2. Char(k, i) = 0 /\ Char(c, i) \in Nat /\ i \in 1..C
      BY <1>2, <2>2, <3>1
    <3>3. Char(k, i) < Char(c, i)
      BY <2>2, <3>2
    <3>4. Agree(k, c, i)
      BY <2>2
    <3> QED
      BY <3>1, <3>2, <3>3, <3>4
  <2> QED
    BY <2>1, <2>2, Compared
<1>4. CASE \E m \in 1..C : /\ Agree(c, k, m) /\ Char(c, m) # Char(k, m)
                           /\ _cexp_namecomp(c, k) = Char(c, m) - Char(k, m)
  <2>1. PICK m \in 1..C : /\ Agree(c, k, m) /\ Char(c, m) # Char(k, m)
                          /\ _cexp_namecomp(c, k) = Char(c, m) - Char(k, m)
    BY <1>4
  <2>2. m = i
    BY <1>1, <1>2, <1>3, <2>1 DEF Agree
  <2> QED
    BY <1>1, <1>2, <1>3, <2>1, <2>2
<1>5. ~Agree(c, k, C + 1)
  BY <1>1, <1>2, <1>3 DEF Agree
<1> HIDE DEF K, C
<1> QED
  BY <1>4, <1>5, Compared DEF K, C

\* A name that compares equal to the one before may be taken out of a chain.
LEMMA SkippedInChain ==
    ASSUME NEW t \in Name, NEW x \in Name, NEW y \in Name,
           _cexp_namecomp(t, x) = 0, _cexp_namecomp(x, y) <= 0
    PROVE  _cexp_namecomp(t, y) <= 0
<1> DEFINE T == Len(t)
           X == Len(x)
<1>1. T \in Nat /\ X \in Nat
  BY DEF Name
<1>2. \A i \in Int : /\ Char(t, i) \in Nat /\ Char(x, i) \in Nat /\ Char(y, i) \in Nat
                     /\ Char(t, i) = 0 <=> i \notin 1..T
                     /\ Char(x, i) = 0 <=> i \notin 1..X
  BY CharType
<1>3. Agree(t, x, T + 1)
  <2>1. ASSUME NEW i \in 1..T, Char(t, i) # Char(x, i),
               _cexp_namecomp(t, x) = Char(t, i) - Char(x, i)
        PROVE  FALSE
    <3>1. Char(t, i) \in Nat /\ Char(x, i) \in Nat
      BY <1>1, <1>2
    <3> QED
      BY <2>1, <3>1
  <2> QED
    BY <2>1, Compared
<1>4. CASE \E i \in 1..T : /\ Agree(t, y, i) /\ Char(t, i) # Char(y, i)
                           /\ _cexp_namecomp(t, y) = Char(t, i) - Char(y, i)
  <2>1. PICK i \in 1..T : /\ Agree(t, y, i) /\ Char(t, i) # Char(y, i)
                          /\ _cexp_namecomp(t, y) = Char(t, i) - Char(y, i)
    BY <1>4
  <2>2. /\ i \in 1..X /\ Char(x, i) = Char(t, i) /\ Char(x, i) # Char(y, i)
        /\ Agree(x, y, i)
    BY <1>1, <1>2, <1>3, <2>1 DEF Agree
  <2>3. PICK m \in 1..X : /\ Agree(x, y, m) /\ Char(x, m) # Char(y, m)
                          /\ _cexp_namecomp(x, y) = Char(x, m) - Char(y, m)
    <3>1. ~Agree(x, y, X + 1)
      BY <1>1, <2>2 DEF Agree
    <3> HIDE DEF X
    <3> QED
      BY <3>1, Compared DEF X
  <2>4. m = i
    BY <1>1, <2>2, <2>3 DEF Agree
  <2> QED
    BY <1>1, <1>2, <2>1, <2>2, <2>3, <2>4
<1>5. CASE _cexp_namecomp(t, y) \in {0, -1}
  BY <1>5
<1> QED
  BY <1>4, <1>5, Compared

-----------------------------------------------------------------------------
(* Names without their version *)

\* The place of the first separator.
FirstAt(n, i) == i \in DOMAIN n /\ n[i] = At /\ \A j \in 1..(i - 1) : n[j] # At

LEMMA FirstAtExists ==
    ASSUME NEW n \in Name, \E i \in DOMAIN n : n[i] = At
    PROVE  \E i \in 1..Len(n) : FirstAt(n, i)
<1> DEFINE ats == {i \in 1..Len(n) : n[i] = At}
<1>1. Len(n) \in Nat /\ DOMAIN n = 1..Len(n)
  BY DEF Name
<1>2. PICK k \in ats : \A j \in ats : k <= j
  <2>1. ats \in SUBSET (0..Len(n)) /\ ats # {}
    BY <1>1
  <2> HIDE DEF ats
  <2> QED
    BY <1>1, <2>1, LeastNumber
<1>3. \A j \in 1..(k - 1) : n[j] # At
  BY <1>1, <1>2
<1> QED
  BY <1>1, <1>2, <1>3 DEF FirstAt

\* Unversioned cuts there.
LEMMA CutAtFirst ==
    ASSUME NEW n \in Name, NEW i \in 1..Len(n), FirstAt(n, i)
    PROVE  Unversioned(n) = SubSeq(n, 1, i - 1)
<1>1. Len(n) \in Nat /\ DOMAIN n = 1..Len(n)
  BY DEF Name
<1> DEFINE first == CHOOSE m \in DOMAIN n : n[m] = At /\ \A j \in 1..(m - 1) : n[j] # At
<1>2. first \in DOMAIN n /\ n[first] = At /\ \A j \in 1..(first - 1) : n[j] # At
  BY DEF FirstAt
<1>3. first = i
  BY <1>1, <1>2 DEF FirstAt
<1> QED
  BY <1>3 DEF Unversioned, FirstAt

\* Names that compare equal are the same up to their version.
LEMMA EqualButVersion ==
    ASSUME NEW k \in Name, NEW c \in Name, _cexp_namecomp(k, c) = 0
    PROVE  Unversioned(k) = Unversioned(c)
<1> DEFINE K == Len(k)
           C == Len(c)
<1>1. K \in Nat /\ C \in Nat /\ DOMAIN k = 1..K /\ DOMAIN c = 1..C
  BY DEF Name
<1>2. /\ \A i \in Int : /\ Char(k, i) \in Nat /\ Char(c, i) \in Nat
                        /\ Char(k, i) = 0 <=> i \notin 1..K
                        /\ Char(c, i) = 0 <=> i \notin 1..C
      /\ \A i \in 1..K : Char(k, i) = k[i]
      /\ \A i \in 1..C : Char(c, i) = c[i]
  BY CharType
<1>3. Agree(k, c, K + 1) /\ Char(c, K + 1) \in {0, At}
  <2>1. ASSUME NEW i \in 1..K, Char(k, i) # Char(c, i),
               _cexp_namecomp(k, c) = Char(k, i) - Char(c, i)
        PROVE  FALSE
    <3>1. Char(k, i) \in Nat /\ Char(c, i) \in Nat
      BY <1>1, <1>2
    <3> QED
      BY <2>1, <3>1
  <2> QED
    BY <2>1, Compared
<1>4. \A i \in 1..K : i \in 1..C /\ c[i] = k[i]
  <2>1. ASSUME NEW i \in 1..K
        PROVE  i \in 1..C /\ c[i] = k[i]
    <3>1. Char(k, i) = Char(c, i) /\ Char(k, i) # 0
      BY <1>1, <1>2, <1>3 DEF Agree
    <3> QED
      BY <1>1, <1>2, <3>1
  <2> QED
    BY <2>1
<1>5. K <= C
  BY <1>1, <1>4
<1>6. CASE \E i \in DOMAIN k : k[i] = At
  <2>1. PICK i \in 1..K : FirstAt(k, i)
    BY <1>6, FirstAtExists
  <2>2. i \in 1..C /\ FirstAt(c, i)
    BY <1>1, <1>4, <2>1 DEF FirstAt
  <2>3. SubSeq(k, 1, i - 1) = SubSeq(c, 1, i - 1)
    BY <1>1, <1>4, <2>1, <2>2 DEF Name
  <2> QED
    BY <2>1, <2>2, <2>3, CutAtFirst
<1>7. CASE ~\E i \in DOMAIN k : k[i] = At
  <2>1. Unversioned(k) = k
    BY <1>7 DEF Unversioned
  <2>2. CASE K = C
    <3>1. k = c
      BY <1>1, <1>4, <2>2 DEF Name
    <3> QED
      BY <3>1
  <2>3. CASE K < C
    <3>1. K + 1 \in 1..C /\ c[K + 1] = At
      <4>1. K + 1 \in 1..C
        BY <1>1, <2>3
      <4>2. Char(c, K + 1) # 0 /\ Char(c, K + 1) = c[K + 1]
        BY <1>1, <1>2, <4>1
      <4> QED
        BY <1>3, <4>1, <4>2
    <3>2. FirstAt(c, K + 1)
      BY <1>1, <1>4, <1>7, <3>1 DEF FirstAt
    <3>3. SubSeq(c, 1, K) = k
      <4>1. /\ SubSeq(c, 1, K) \in Seq(Nat) /\ Len(SubSeq(c, 1, K)) = K
            /\ \A i \in 1..K : SubSeq(c, 1, K)[i] = c[i]
        BY <1>1, <1>5 DEF Name
      <4>2. k \in Seq(Nat)
        BY DEF Name
      <4> HIDE DEF C
      <4> QED
        BY <1>1, <1>4, <4>1, <4>2
    <3>4. Unversioned(c) = SubSeq(c, 1, K)
      <4> DEFINE i == K + 1
      <4>1. i \in 1..Len(c) /\ FirstAt(c, i)
        BY <3>1, <3>2
      <4> HIDE DEF i
      <4>2. Unversioned(c) = SubSeq(c, 1, i - 1)
        BY <4>1, CutAtFirst
      <4>3. i - 1 = K
        BY <1>1 DEF i
      <4> QED
        BY <4>2, <4>3
    <3> QED
      BY <2>1, <3>3, <3>4
  <2> QED
    <3>1. K = C \/ K < C
      <4> HIDE DEF K, C
      <4> QED
        BY <1>1, <1>5
    <3> QED
      BY <2>2, <2>3, <3>1
<1> QED
  BY <1>6, <1>7

-----------------------------------------------------------------------------
(* The sort *)

Row == [name : Names \cup {Marker, <<>>}, ptv : Addresses]

LEMMA RowNames ==
    ASSUME NEW r \in Row
    PROVE  r.name \in Name
<1>1. r.name \in Names \cup {Marker, <<>>}
  BY DEF Row
<1>2. <<>> \in Seq(Nat \ {0})
  OBVIOUS
<1> QED
  BY <1>1, <1>2, NamesOK DEF Name

LEMMA EntriesAreRows == Entry \subseteq Row
BY DEF Entry, Row

\* A permutation leaves nothing out.
LEMMA PermutedOnto ==
    ASSUME NEW n \in Nat, NEW q \in Permuted(n), NEW j \in 0..(n - 1)
    PROVE  \E i \in 0..(n - 1) : q[i] = j
<1> DEFINE S == 0..(n - 1)
<1>1. IsFiniteSet(S)
  BY FS_Interval
<1>2. q \in [S -> S] /\ \A i, k \in S : q[i] = q[k] => i = k
  BY DEF Permuted
<1> HIDE DEF S
<1>3. \A k \in S : \E i \in S : q[i] = k
  BY <1>1, <1>2, InjectiveOnto
<1> QED
  BY <1>3 DEF S

\* What the sort gives: rows, in order, the same entries as before.
LEMMA SortedRows ==
    ASSUME MaxSyms \in Nat, NEW s \in [0..MaxSyms -> Row], NEW n \in 0..MaxSyms,
           NEW r \in Sorted(s, n)
    PROVE  /\ r \in [0..MaxSyms -> Row]
           /\ \A i \in 0..(n - 2) : _cexp_namecomp(r[i].name, r[i + 1].name) <= 0
           /\ \A i \in 0..(n - 1) : \E j \in 0..(n - 1) : r[i] = s[j]
           /\ \A j \in 0..(n - 1) : \E i \in 0..(n - 1) : r[i] = s[j]
           /\ \A j \in n..MaxSyms : r[j] = s[j]
<1>1. PICK q \in Permuted(n) : r = [i \in 0..MaxSyms |-> IF i < n THEN s[q[i]] ELSE s[i]]
  BY DEF Sorted
<1>2. \A i \in 0..(n - 1) : q[i] \in 0..(n - 1) /\ q[i] \in 0..MaxSyms /\ r[i] = s[q[i]]
  BY <1>1 DEF Permuted
<1>3. r \in [0..MaxSyms -> Row]
  BY <1>1, <1>2
<1>4. \A i \in 0..(n - 2) : _cexp_namecomp(r[i].name, r[i + 1].name) <= 0
  BY DEF Sorted
<1>5. \A j \in 0..(n - 1) : \E i \in 0..(n - 1) : r[i] = s[j]
  <2>1. \A j \in 0..(n - 1) : \E i \in 0..(n - 1) : q[i] = j
    BY PermutedOnto
  <2>2. ASSUME NEW j \in 0..(n - 1)
        PROVE  \E i \in 0..(n - 1) : r[i] = s[j]
    <3>1. PICK i \in 0..(n - 1) : q[i] = j
      BY <2>1
    <3> QED
      BY <1>2, <3>1
  <2> QED
    BY <2>2
<1>6. \A j \in n..MaxSyms : r[j] = s[j]
  BY <1>1
<1> QED
  BY <1>2, <1>3, <1>4, <1>5, <1>6

-----------------------------------------------------------------------------
(* The inductive invariant *)

\* An empty table.
LEMMA EmptyTable ==
    ASSUME NEW a \in Addresses, syms = [i \in 0..MaxSyms |-> Unset(a)], nentries = 0,
           given = {}, pc = "add", fr = 0, to = 0
    PROVE  TableInv
<1>1. syms \in [0..MaxSyms -> Row]
  BY DEF Unset, Row
<1>2. WellFormed
  BY <1>1, MaxSymsOK DEF WellFormed, TypeOK, Row, Ascending, Complete
<1>3. LoopOrdered /\ GivenLeft /\ AddressesAscend
  BY DEF LoopOrdered, GivenLeft, AddressesAscend, Dropping, Left
<1>4. TailKept
  BY MaxSymsOK DEF TailKept, NullFrom, Dropping, Complete, Unset
<1> QED
  BY <1>2, <1>3, <1>4 DEF TableInv

\* A symbol is added.
LEMMA AddKeeps ==
    ASSUME TableInv, NEW e \in Entry, Add(e)
    PROVE  TableInv'
<1>1. /\ MaxSyms \in Nat /\ syms \in [0..MaxSyms -> Row] /\ nentries \in 0..(MaxSyms - 1)
      /\ e \in Row
  BY MaxSymsOK, EntriesAreRows DEF TableInv, WellFormed, TypeOK, Row, Add
<1>2. /\ syms' = [syms EXCEPT ![nentries] = e] /\ nentries' = nentries + 1
      /\ given' = given \cup {e} /\ pc = "add" /\ pc' = "add"
  BY DEF Add
<1>3. syms' \in [0..MaxSyms -> Row]
  BY <1>1, <1>2
<1>4. WellFormed'
  BY <1>1, <1>2, <1>3 DEF TableInv, WellFormed, TypeOK, Row, Ascending, Complete, Add
<1>5. LoopOrdered' /\ AddressesAscend'
  BY <1>2 DEF LoopOrdered, AddressesAscend, Dropping
<1>6. GivenLeft'
  <2>1. Left = 0..(nentries - 1) /\ Left' = 0..nentries
    BY <1>1, <1>2 DEF Left, Dropping
  <2>2. \A i \in 0..(nentries - 1) : syms'[i] = syms[i]
    BY <1>1, <1>2
  <2>3. syms'[nentries] = e
    BY <1>1, <1>2
  <2>4. \A i \in Left' : i \in Left \/ i = nentries
    BY <1>1, <2>1
  <2>5. Left \subseteq Left' /\ nentries \in Left'
    BY <1>1, <2>1
  <2> QED
    BY <1>2, <2>1, <2>2, <2>3, <2>4, <2>5 DEF TableInv, GivenLeft
<1>7. TailKept'
  <2>1. NullFrom(nentries)
    BY <1>2 DEF TableInv, TailKept
  <2>2. \A j \in (nentries + 1)..MaxSyms : j \in nentries..MaxSyms /\ syms'[j] = syms[j]
    BY <1>1, <1>2
  <2>3. \A j \in (nentries + 1)..MaxSyms : syms'[j].name = <<>>
    BY <2>1, <2>2 DEF NullFrom
  <2> QED
    BY <1>2, <2>3 DEF TailKept, NullFrom, Dropping, Complete
<1> QED
  BY <1>4, <1>5, <1>6, <1>7 DEF TableInv

\* The sort itself; what the loop starts with.
LEMMA SortBeginKeeps ==
    ASSUME LastUnique, TableInv, SortBegin
    PROVE  TableInv'
<1> DEFINE n == nentries
<1>1. /\ MaxSyms \in Nat /\ syms \in [0..MaxSyms -> Row] /\ n \in 0..MaxSyms
      /\ pc = "add" /\ nentries' = n /\ given' = given /\ aindex' = aindex
      /\ fr \in 0..(MaxSyms + 1) /\ to \in 0..MaxSyms
  BY MaxSymsOK DEF TableInv, WellFormed, TypeOK, Row, SortBegin
<1>2. CASE n = 0
  <2>1. pc' = "sorted" /\ syms' = syms /\ fr' = fr /\ to' = to
    BY <1>2 DEF SortBegin
  <2>2. WellFormed'
    BY <1>1, <1>2, <2>1 DEF WellFormed, TypeOK, Ascending, Complete, Row
  <2>3. LoopOrdered' /\ AddressesAscend' /\ GivenLeft'
    BY <1>1, <2>1 DEF TableInv, LoopOrdered, AddressesAscend, GivenLeft, Left, Dropping
  <2>4. TailKept'
    <3>1. NullFrom(0)
      BY <1>1, <1>2 DEF TableInv, TailKept
    <3>2. 0 \in nentries'..MaxSyms /\ NullFrom(0)' /\ 0..(0 - 1) = {}
      BY <1>1, <1>2, <2>1, <3>1 DEF NullFrom
    <3>3. \E e \in nentries'..MaxSyms : NullFrom(e)' /\ \A i \in 0..(e - 1) : syms'[i] \in given'
      BY <3>2
    <3> QED
      BY <2>1, <3>3 DEF TailKept, Dropping, Complete
  <2> QED
    BY <2>2, <2>3, <2>4 DEF TableInv
<1>3. CASE n # 0
  <2>1. PICK r \in Sorted(syms, n) :
           LastDiffers(r, n) /\ syms' = [r EXCEPT ![n].name = Marker]
    BY <1>3 DEF SortBegin
  <2>2. pc' = "for" /\ fr' = 1 /\ to' = 0
    BY <1>3 DEF SortBegin
  <2>3. /\ r \in [0..MaxSyms -> Row]
        /\ \A i \in 0..(n - 2) : _cexp_namecomp(r[i].name, r[i + 1].name) <= 0
        /\ \A i \in 0..(n - 1) : \E j \in 0..(n - 1) : r[i] = syms[j]
        /\ \A j \in 0..(n - 1) : \E i \in 0..(n - 1) : r[i] = syms[j]
        /\ \A j \in n..MaxSyms : r[j] = syms[j]
    BY <1>1, SortedRows
  <2>4. /\ syms' \in [0..MaxSyms -> Row]
        /\ \A i \in 0..(n - 1) : syms'[i] = r[i]
    <3>1. [r[n] EXCEPT !.name = Marker] \in Row
      BY <1>1, <2>3 DEF Row
    <3>2. syms' = [r EXCEPT ![n] = [r[n] EXCEPT !.name = Marker]]
      BY <2>1
    <3> HIDE DEF n
    <3> QED
      BY <1>1, <2>3, <3>1, <3>2
  <2>5. WellFormed'
    BY <1>1, <2>2, <2>4 DEF WellFormed, TypeOK, Ascending, Complete, Row
  <2>6. LoopOrdered'
    <3>1. \A i \in 0..(n - 2) :
             /\ _cexp_namecomp(syms'[i].name, syms'[i + 1].name) <= 0
             /\ _cexp_namecomp(syms'[i].name, syms'[n - 1].name) # 0
      BY <1>1, <2>1, <2>3, <2>4 DEF LastDiffers
    <3>2. 1 < n => _cexp_namecomp(syms'[0].name, syms'[1].name) <= 0
      BY <1>1, <3>1
    <3>3. ASSUME NEW i \in {0} \cup 1..(n - 2), 1 < n
          PROVE  _cexp_namecomp(syms'[i].name, syms'[n - 1].name) # 0
      BY <1>1, <3>1, <3>3
    <3> QED
      BY <1>1, <1>3, <2>2, <3>1, <3>2, <3>3 DEF LoopOrdered, Dropping
  <2>7. GivenLeft'
    <3>1. Left = 0..(n - 1) /\ Left' = 0..(n - 1)
      BY <1>1, <1>3, <2>2 DEF Left, Dropping
    <3>2. \A i \in Left' : syms'[i] \in given
      BY <2>3, <2>4, <3>1 DEF TableInv, GivenLeft
    <3>3. ASSUME NEW e \in given
          PROVE  \E i \in Left' : Unversioned(syms'[i].name) = Unversioned(e.name)
      <4>1. PICK j \in 0..(n - 1) : Unversioned(syms[j].name) = Unversioned(e.name)
        BY <3>1 DEF TableInv, GivenLeft
      <4>2. PICK i \in 0..(n - 1) : r[i] = syms[j]
        BY <2>3
      <4> QED
        BY <2>4, <3>1, <4>1, <4>2
    <3> QED
      BY <1>1, <3>2, <3>3 DEF TableInv, GivenLeft
  <2>8. AddressesAscend'
    BY <2>2 DEF AddressesAscend
  <2>9. TailKept'
    <3>1. NullFrom(n)
      BY <1>1 DEF TableInv, TailKept
    <3>2. \A j \in (n + 1)..MaxSyms : j \in n..MaxSyms /\ syms'[j] = r[j]
      BY <1>1, <2>1, <2>3
    <3>3. \A j \in (n + 1)..MaxSyms : syms'[j].name = <<>>
      BY <2>3, <3>1, <3>2 DEF NullFrom
    <3>4. \A j \in 0..(n - 1) : syms[j] \in given
      BY <1>1 DEF TableInv, GivenLeft, Left, Dropping
    <3>5. \A i \in 0..(n - 1) : syms'[i] \in given
      BY <2>3, <2>4, <3>4
    <3> QED
      BY <1>1, <2>2, <3>3, <3>5 DEF TailKept, NullFrom, Dropping, Complete
  <2> QED
    BY <2>5, <2>6, <2>7, <2>8, <2>9 DEF TableInv
<1> QED
  BY <1>2, <1>3

\* What the loop has at hand.
LEMMA Looping ==
    ASSUME TableInv, Dropping, fr < nentries
    PROVE  /\ MaxSyms \in Nat /\ syms \in [0..MaxSyms -> Row]
           /\ nentries \in 0..MaxSyms /\ to \in Nat /\ fr \in Nat /\ to < fr
           /\ \A i \in 0..(nentries - 1) : syms[i].name \in Name
<1>1. /\ MaxSyms \in Nat /\ syms \in [0..MaxSyms -> Row] /\ nentries \in 0..MaxSyms
      /\ to \in Nat /\ fr \in Nat /\ to < fr
  BY MaxSymsOK DEF TableInv, WellFormed, TypeOK, Row, LoopOrdered
<1>2. \A i \in 0..(nentries - 1) : syms[i] \in Row
  BY <1>1
<1> QED
  BY <1>1, <1>2, RowNames

\* An entry is passed over.
LEMMA SkipKeeps ==
    ASSUME TableInv, SortSkip
    PROVE  TableInv'
<1> DEFINE n == nentries
<1>1. fr < n /\ Dropping
  BY DEF SortSkip, TableInv, LoopOrdered, Dropping
<1>2. /\ MaxSyms \in Nat /\ syms \in [0..MaxSyms -> Row] /\ n \in 0..MaxSyms
      /\ to \in Nat /\ fr \in Nat /\ to < fr
      /\ \A i \in 0..(n - 1) : syms[i].name \in Name
  BY <1>1, Looping
<1>3. /\ syms' = syms /\ nentries' = n /\ given' = given /\ to' = to /\ fr' = fr + 1
      /\ pc' = "while" /\ _cexp_namecomp(syms[to].name, syms[fr].name) = 0
  BY DEF SortSkip, Same
<1>4. fr < n - 1
  <2>1. fr # n - 1
    BY <1>1, <1>3 DEF TableInv, LoopOrdered
  <2> QED
    BY <1>1, <1>2, <2>1
<1>5. WellFormed'
  BY <1>2, <1>3, <1>4 DEF TableInv, WellFormed, TypeOK, Ascending, Complete
<1>6. LoopOrdered'
  <2>1. _cexp_namecomp(syms[to].name, syms[fr + 1].name) <= 0
    <3>1. /\ to \in 0..(n - 1) /\ fr \in 0..(n - 1) /\ fr + 1 \in 0..(n - 1)
          /\ fr \in fr..(n - 2)
      BY <1>2, <1>4
    <3>2. _cexp_namecomp(syms[fr].name, syms[fr + 1].name) <= 0
      BY <1>1, <3>1 DEF TableInv, LoopOrdered
    <3> QED
      BY <1>2, <1>3, <3>1, <3>2, SkippedInChain
  <2>2. (fr + 1)..(n - 2) \subseteq fr..(n - 2)
    BY <1>2
  <2> QED
    BY <1>1, <1>2, <1>3, <1>4, <2>1, <2>2 DEF TableInv, LoopOrdered, Dropping
<1>7. GivenLeft'
  <2>1. Left = 0..to \cup fr..(n - 1) /\ Left' = 0..to \cup (fr + 1)..(n - 1)
    BY <1>1, <1>3 DEF Left, Dropping
  <2>2. Left' \subseteq Left /\ \A i \in Left : i = fr \/ i \in Left'
    BY <1>2, <2>1
  <2>3. to \in Left' /\ Unversioned(syms[fr].name) = Unversioned(syms[to].name)
    <3>1. to \in 0..(n - 1) /\ fr \in 0..(n - 1) /\ to \in 0..to
      BY <1>1, <1>2
    <3> QED
      BY <1>2, <1>3, <2>1, <3>1, EqualButVersion
  <2> QED
    BY <1>3, <2>2, <2>3 DEF TableInv, GivenLeft
<1>8. AddressesAscend'
  BY <1>3 DEF AddressesAscend
<1>9. TailKept'
  BY <1>1, <1>3 DEF TableInv, TailKept, NullFrom, Dropping, Complete
<1> QED
  BY <1>5, <1>6, <1>7, <1>8, <1>9 DEF TableInv

\* An entry is kept: it moves to the end of those that were.
LEMMA KeepKeeps ==
    ASSUME TableInv, SortKeep
    PROVE  TableInv'
<1> DEFINE n == nentries
<1>1. fr < n /\ Dropping
  BY DEF SortKeep, TableInv, LoopOrdered, Dropping
<1>2. /\ MaxSyms \in Nat /\ syms \in [0..MaxSyms -> Row] /\ n \in 0..MaxSyms
      /\ to \in Nat /\ fr \in Nat /\ to < fr
      /\ \A i \in 0..(n - 1) : syms[i].name \in Name
  BY <1>1, Looping
<1>3. /\ syms' = [syms EXCEPT ![to + 1] = syms[fr]] /\ nentries' = n /\ given' = given
      /\ to' = to + 1 /\ fr' = fr + 1 /\ pc' = "for"
      /\ _cexp_namecomp(syms[to].name, syms[fr].name) # 0
  BY DEF SortKeep, Same
<1>4. /\ to + 1 \in 0..MaxSyms /\ fr \in 0..MaxSyms /\ syms[fr] \in Row
      /\ syms' \in [0..MaxSyms -> Row] /\ syms'[to + 1] = syms[fr]
      /\ \A i \in 0..MaxSyms : i # to + 1 => syms'[i] = syms[i]
  BY <1>1, <1>2, <1>3
<1>5. WellFormed'
  BY <1>1, <1>2, <1>3, <1>4 DEF WellFormed, TypeOK, Ascending, Complete, Row
<1>6. LoopOrdered'
  <2>1. /\ _cexp_namecomp(syms[to].name, syms[fr].name) < 0
        /\ _cexp_namecomp(syms[fr].name, syms[to].name) > 0
    <3>1. to \in 0..(n - 1) /\ fr \in 0..(n - 1)
      BY <1>1, <1>2
    <3>2. /\ _cexp_namecomp(syms[to].name, syms[fr].name) <= 0
          /\ _cexp_namecomp(syms[to].name, syms[fr].name) \in Int
      BY <1>1, <1>2, <3>1, ComparedType DEF TableInv, LoopOrdered
    <3>3. _cexp_namecomp(syms[to].name, syms[fr].name) < 0
      BY <1>3, <3>2
    <3> QED
      BY <1>2, <3>1, <3>3, OtherDirection
  <2>2. ASSUME NEW i \in 0..to
        PROVE  /\ _cexp_namecomp(syms'[i].name, syms'[i + 1].name) < 0
               /\ _cexp_namecomp(syms'[i + 1].name, syms'[i].name) > 0
    <3>1. CASE i = to
      <4>1. syms'[to] = syms[to]
        BY <1>2, <1>4
      <4> QED
        BY <1>4, <2>1, <3>1, <4>1
    <3>2. CASE i # to
      <4>1. i \in 0..(to - 1) /\ syms'[i] = syms[i] /\ syms'[i + 1] = syms[i + 1]
        BY <1>2, <1>4, <3>2
      <4> QED
        BY <1>1, <4>1 DEF TableInv, LoopOrdered
    <3> QED
      BY <3>1, <3>2
  <2>3. \A i \in (fr + 1)..(n - 1) : syms'[i] = syms[i]
    BY <1>2, <1>4
  <2>4. ASSUME NEW i \in (fr + 1)..(n - 2)
        PROVE  /\ _cexp_namecomp(syms'[i].name, syms'[i + 1].name) <= 0
               /\ _cexp_namecomp(syms'[i].name, syms'[n - 1].name) # 0
    <3>1. /\ i \in fr..(n - 2) /\ i \in (fr + 1)..(n - 1) /\ i + 1 \in (fr + 1)..(n - 1)
          /\ n - 1 \in (fr + 1)..(n - 1)
      BY <1>2
    <3> QED
      BY <1>1, <2>3, <3>1 DEF TableInv, LoopOrdered
  <2>5. ASSUME fr + 1 < n
        PROVE  /\ _cexp_namecomp(syms'[to + 1].name, syms'[fr + 1].name) <= 0
               /\ _cexp_namecomp(syms'[to + 1].name, syms'[n - 1].name) # 0
    <3>1. fr \in fr..(n - 2) /\ fr + 1 \in (fr + 1)..(n - 1) /\ n - 1 \in (fr + 1)..(n - 1)
      BY <1>2, <2>5
    <3> QED
      BY <1>1, <1>4, <2>3, <3>1 DEF TableInv, LoopOrdered
  <2>6. to + 1 < fr + 1 /\ fr + 1 <= n /\ (to + 1) - 1 = to
    BY <1>1, <1>2
  <2> QED
    BY <1>3, <2>2, <2>4, <2>5, <2>6 DEF LoopOrdered, Dropping
<1>7. GivenLeft'
  <2>1. Left = 0..to \cup fr..(n - 1) /\ Left' = 0..(to + 1) \cup (fr + 1)..(n - 1)
    BY <1>1, <1>3 DEF Left, Dropping
  <2>2. fr \in Left /\ to + 1 \in Left'
    BY <1>1, <1>2, <2>1
  <2>3. \A i \in Left' : i = to + 1 \/ (i \in Left /\ syms'[i] = syms[i])
    BY <1>1, <1>2, <1>4, <2>1
  <2>4. \A i \in Left : i = fr \/ (i \in Left' /\ syms'[i] = syms[i])
    BY <1>1, <1>2, <1>4, <2>1
  <2>5. \A i \in Left' : syms'[i] \in given
    BY <1>4, <2>2, <2>3 DEF TableInv, GivenLeft
  <2>6. ASSUME NEW e \in given
        PROVE  \E i \in Left' : Unversioned(syms'[i].name) = Unversioned(e.name)
    <3>1. PICK i \in Left : Unversioned(syms[i].name) = Unversioned(e.name)
      BY DEF TableInv, GivenLeft
    <3>2. CASE i = fr
      BY <1>4, <2>2, <3>1, <3>2
    <3>3. CASE i # fr
      BY <2>4, <3>1, <3>3
    <3> QED
      BY <3>2, <3>3
  <2>7. given \subseteq Entry
    BY DEF TableInv, GivenLeft
  <2> QED
    BY <1>3, <2>5, <2>6, <2>7 DEF GivenLeft
<1>8. AddressesAscend'
  BY <1>3 DEF AddressesAscend
<1>9. TailKept'
  <2>1. NullFrom(n + 1) /\ \A i \in 0..(n - 1) : syms[i] \in given
    BY <1>1 DEF TableInv, TailKept
  <2>2. \A j \in (n + 1)..MaxSyms : syms'[j] = syms[j]
    BY <1>1, <1>2, <1>4
  <2>3. ASSUME NEW i \in 0..(n - 1)
        PROVE  syms'[i] \in given
    <3>1. fr \in 0..(n - 1) /\ i \in 0..MaxSyms
      BY <1>1, <1>2
    <3>2. CASE i = to + 1
      BY <1>4, <2>1, <3>1, <3>2
    <3>3. CASE i # to + 1
      BY <1>4, <2>1, <3>1, <3>3
    <3> QED
      BY <3>2, <3>3
  <2>4. \A j \in (n + 1)..MaxSyms : syms'[j].name = <<>>
    BY <2>1, <2>2 DEF NullFrom
  <2> QED
    BY <1>3, <2>3, <2>4 DEF TailKept, NullFrom, Dropping, Complete
<1> QED
  BY <1>5, <1>6, <1>7, <1>8, <1>9 DEF TableInv

\* The loop ends: the entries kept are the table.
LEMMA EndKeeps ==
    ASSUME TableInv, SortEnd
    PROVE  TableInv'
<1>1. /\ Dropping /\ pc = "for" /\ pc' = "sorted" /\ nentries' = to + 1 /\ given' = given
      /\ syms' = [syms EXCEPT ![nentries].name = <<>>] /\ fr' = fr /\ to' = to
  BY DEF SortEnd, Dropping
<1>2. /\ MaxSyms \in Nat /\ syms \in [0..MaxSyms -> Row] /\ nentries \in 0..MaxSyms
      /\ to \in Nat /\ fr = nentries /\ to < fr /\ fr \in 0..(MaxSyms + 1) /\ to \in 0..MaxSyms
  BY <1>1, MaxSymsOK DEF TableInv, WellFormed, TypeOK, Row, LoopOrdered, SortEnd
<1>3. syms' \in [0..MaxSyms -> Row] /\ \A i \in 0..to : syms'[i] = syms[i]
  <2>1. [syms[nentries] EXCEPT !.name = <<>>] \in Row
    BY <1>2 DEF Row
  <2> QED
    BY <1>1, <1>2, <2>1
<1>4. WellFormed'
  <2>1. TypeOK'
    BY <1>1, <1>2, <1>3 DEF TypeOK, Row
  <2>2. ASSUME NEW i \in 0..(to - 1)
        PROVE  /\ _cexp_namecomp(syms'[i].name, syms'[i + 1].name) < 0
               /\ _cexp_namecomp(syms'[i + 1].name, syms'[i].name) > 0
    <3>1. i \in 0..to /\ i + 1 \in 0..to
      BY <1>2
    <3> QED
      BY <1>1, <1>3, <3>1 DEF TableInv, LoopOrdered
  <2>3. nentries' - 2 = to - 1
    BY <1>1, <1>2
  <2> QED
    BY <2>1, <2>2, <2>3 DEF WellFormed, Ascending
<1>5. GivenLeft'
  <2>1. Left = 0..to \cup fr..(nentries - 1) /\ Left' = 0..(nentries' - 1)
    BY <1>1 DEF Left, Dropping
  <2>2. Left = 0..to /\ Left' = 0..to
    BY <1>1, <1>2, <2>1
  <2>3. \A i \in 0..to : syms[i] \in given
    BY <2>2 DEF TableInv, GivenLeft
  <2>4. \A e \in given : \E i \in 0..to : Unversioned(syms[i].name) = Unversioned(e.name)
    BY <2>2 DEF TableInv, GivenLeft
  <2>5. given \subseteq Entry
    BY DEF TableInv, GivenLeft
  <2>6. \A e \in given : \E i \in 0..to : Unversioned(syms'[i].name) = Unversioned(e.name)
    BY <1>3, <2>4
  <2>7. \A i \in 0..to : syms'[i] \in given
    BY <1>3, <2>3
  <2> QED
    BY <1>1, <2>2, <2>5, <2>6, <2>7 DEF GivenLeft
<1>6. LoopOrdered' /\ AddressesAscend'
  BY <1>1 DEF LoopOrdered, AddressesAscend, Dropping
<1>7. TailKept'
  <2>1. NullFrom(nentries + 1) /\ \A i \in 0..(nentries - 1) : syms[i] \in given
    BY <1>1 DEF TableInv, TailKept
  <2>2. /\ syms'[nentries].name = <<>>
        /\ \A j \in 0..MaxSyms : j # nentries => syms'[j] = syms[j]
    BY <1>1, <1>2
  <2>3. \A j \in nentries..MaxSyms : syms'[j].name = <<>>
    <3>1. \A j \in nentries..MaxSyms : j = nentries \/ (j \in (nentries + 1)..MaxSyms /\ syms'[j] = syms[j])
      BY <1>2, <2>2
    <3> QED
      BY <2>1, <2>2, <3>1 DEF NullFrom
  <2>4. \A i \in 0..(nentries - 1) : syms'[i] \in given'
    <3>1. \A i \in 0..(nentries - 1) : i \in 0..MaxSyms /\ i # nentries
      BY <1>2
    <3> QED
      BY <1>1, <2>1, <2>2, <3>1
  <2>5. nentries \in nentries'..MaxSyms
    BY <1>1, <1>2
  <2>6. \E e \in nentries'..MaxSyms : NullFrom(e)' /\ \A i \in 0..(e - 1) : syms'[i] \in given'
    BY <2>3, <2>4, <2>5 DEF NullFrom
  <2> QED
    BY <1>1, <2>6 DEF TailKept, Dropping, Complete
<1> QED
  BY <1>4, <1>5, <1>6, <1>7 DEF TableInv

\* The index by address.
LEMMA IndexKeeps ==
    ASSUME TableInv, Index
    PROVE  TableInv'
<1>1. /\ pc = "sorted" /\ pc' = "indexed" /\ nentries' = nentries /\ given' = given
      /\ syms' = syms /\ fr' = fr /\ to' = to
  BY DEF Index
<1>2. WellFormed'
  BY <1>1 DEF TableInv, WellFormed, TypeOK, Ascending, Complete
<1>3. LoopOrdered' /\ GivenLeft'
  BY <1>1 DEF TableInv, LoopOrdered, GivenLeft, Left, Dropping
<1>4. AddressesAscend'
  <2>1. PICK q \in Permuted(nentries) :
           /\ \A i \in 0..(nentries - 2) : syms[q[i]].ptv <= syms[q[i + 1]].ptv
           /\ aindex' = q
    BY DEF Index
  <2>2. Permuted(nentries)' = Permuted(nentries)
    BY <1>1 DEF Permuted
  <2> QED
    BY <1>1, <2>1, <2>2 DEF AddressesAscend
<1>5. TailKept'
  <2>1. \E e \in nentries..MaxSyms : NullFrom(e) /\ \A i \in 0..(e - 1) : syms[i] \in given
    BY <1>1 DEF TableInv, TailKept, Complete
  <2> QED
    BY <1>1, <2>1 DEF TailKept, NullFrom, Dropping, Complete
<1> QED
  BY <1>2, <1>3, <1>4, <1>5 DEF TableInv

LEMMA TableStutters ==
    ASSUME TableInv, UNCHANGED vars
    PROVE  TableInv'
BY DEF TableInv, WellFormed, TypeOK, Ascending, Complete, LoopOrdered, GivenLeft, Left, Dropping,
       TailKept, NullFrom, AddressesAscend, Permuted, vars

LEMMA TableStep ==
    ASSUME LastUnique, TableInv, Next
    PROVE  TableInv'
BY AddKeeps, SortBeginKeeps, SkipKeeps, KeepKeeps, EndKeeps, IndexKeeps DEF Next

\* The construction of a table keeps the inductive invariant.
THEOREM TableInvariant ==
    ASSUME LastUnique
    PROVE  Spec => []TableInv
<1>1. Init => TableInv
  BY EmptyTable DEF Init
<1>2. TableInv /\ [Next]_vars => TableInv'
  BY TableStep, TableStutters
<1> QED
  BY <1>1, <1>2, PTL DEF Spec

\* Whatever symbols the object file has, as long as it has one of the greatest
\* name: the table ends sorted strictly, in both directions of the comparison,
\* and the loop of cexpSortSymTbl stays inside the array.
THEOREM TablesWellFormed ==
    ASSUME LastUnique
    PROVE  Spec => []WellFormed
<1>1. TableInv => WellFormed
  BY DEF TableInv
<1> QED
  BY <1>1, TableInvariant, PTL

LEMMA LeftComplete ==
    ASSUME TableInv
    PROVE  OnlyRedundantDropped
BY DEF TableInv, GivenLeft, Left, Dropping, OnlyRedundantDropped, Complete

\* "Eliminate redundant entries": no name of the object file is lost but for its
\* version, and nothing is in the table that was not in the file.
THEOREM OnlyRedundantEntriesDropped ==
    ASSUME LastUnique
    PROVE  Spec => []OnlyRedundantDropped
BY LeftComplete, TableInvariant, PTL

-----------------------------------------------------------------------------
(* The search by address *)

\* The pairs of bounds, and what the search does with one: cexpSymTblLkAddrIdx is
\* the function f on them with f[b] = Halves(t, addr, f, b).
Bounds(n) == (0..n) \X (-1..n)
Mid(b) == (b[1] + b[2] + 1) \div 2
Value(t, i) == t.syms[t.aindex[i]].ptv
Halves(t, addr, f, b) ==
    IF b[1] >= b[2] THEN b[1]
    ELSE IF addr < Value(t, Mid(b)) THEN f[<<b[1], Mid(b) - 1>>]
    ELSE f[<<Mid(b), b[2]>>]

LEMMA SearchIs ==
    ASSUME NEW t, NEW addr
    PROVE  cexpSymTblLkAddrIdx(t, addr) =
             (CHOOSE f : f = [b \in Bounds(t.nentries) |-> Halves(t, addr, f, b)])[<<0, t.nentries - 1>>]
BY DEF cexpSymTblLkAddrIdx, Bounds, Halves, Mid, Value

\* Both halves are bounds, and smaller.
LEMMA Halving ==
    ASSUME NEW n \in Nat, NEW b \in Bounds(n), b[1] < b[2]
    PROVE  /\ b[1] \in 0..n /\ b[2] \in -1..n /\ Mid(b) \in Nat /\ b[1] < Mid(b) /\ Mid(b) <= b[2]
           /\ <<b[1], Mid(b) - 1>> \in Bounds(n) /\ <<Mid(b), b[2]>> \in Bounds(n)
<1>1. b[1] \in 0..n /\ b[2] \in -1..n
  BY DEF Bounds
<1>2. \A lo, hi \in Int : lo < hi =>
        (lo + hi + 1) \div 2 \in Int /\ lo < (lo + hi + 1) \div 2 /\ (lo + hi + 1) \div 2 <= hi
  OBVIOUS
<1>3. Mid(b) \in Int /\ b[1] < Mid(b) /\ Mid(b) <= b[2]
  BY <1>1, <1>2 DEF Mid
<1> QED
  BY <1>1, <1>3 DEF Bounds

\* The search is defined: there is a function that halves as it says.  A function
\* that does so up to some distance of the bounds is extended to the next one.
LEMMA SearchDefined ==
    ASSUME NEW t, NEW addr, NEW n \in Nat
    PROVE  \E f : f = [b \in Bounds(n) |-> Halves(t, addr, f, b)]
<1> DEFINE D == Bounds(n)
           Solves(f, m) == \A b \in D : b[2] - b[1] <= m => f[b] = Halves(t, addr, f, b)
           T == {m \in 0..(n + 1) : ~\E f \in [D -> 0..n] : Solves(f, m)}
<1>1. \A b \in D : b[1] \in 0..n /\ b[2] \in -1..n
  BY DEF Bounds
<1>2. T = {}
  <2>1. SUFFICES ASSUME T # {}
                 PROVE  FALSE
    OBVIOUS
  <2>2. PICK m \in T : \A j \in T : m <= j
    <3>1. T \in SUBSET (0..(n + 1)) /\ n + 1 \in Nat
      OBVIOUS
    <3> HIDE DEF T
    <3> QED
      BY <2>1, <3>1, LeastNumber
  <2>3. CASE m = 0
    <3> DEFINE f == [b \in D |-> b[1]]
    <3>1. f \in [D -> 0..n]
      BY <1>1
    <3>2. Solves(f, 0)
      <4>1. ASSUME NEW b \in D, b[2] - b[1] <= 0
            PROVE  f[b] = Halves(t, addr, f, b)
        <5>1. b[1] >= b[2]
          BY <1>1, <4>1
        <5> QED
          BY <5>1 DEF Halves
      <4> QED
        BY <4>1
    <3> QED
      BY <2>2, <2>3, <3>1, <3>2
  <2>4. CASE m # 0
    <3>1. m - 1 \in 0..(n + 1) /\ m - 1 \notin T /\ m \in Nat
      BY <2>2, <2>4
    <3>2. PICK f \in [D -> 0..n] : Solves(f, m - 1)
      BY <3>1
    <3> DEFINE g == [b \in D |-> IF b[2] - b[1] <= m - 1 THEN f[b] ELSE Halves(t, addr, f, b)]
    <3>3. g \in [D -> 0..n]
      <4>1. ASSUME NEW b \in D
            PROVE  Halves(t, addr, f, b) \in 0..n
        <5>1. CASE b[1] >= b[2]
          BY <1>1, <5>1 DEF Halves
        <5>2. CASE ~(b[1] >= b[2])
          <6>1. <<b[1], Mid(b) - 1>> \in D /\ <<Mid(b), b[2]>> \in D
            BY <1>1, <5>2, Halving
          <6> QED
            BY <5>2, <6>1 DEF Halves
        <5> QED
          BY <5>1, <5>2
      <4> QED
        BY <4>1
    <3>4. ASSUME NEW b \in D, b[2] - b[1] <= m
          PROVE  g[b] = Halves(t, addr, g, b)
      <4>1. g[b] = Halves(t, addr, f, b)
        BY <3>2, <3>4
      <4>2. CASE b[1] >= b[2]
        BY <4>1, <4>2 DEF Halves
      <4>3. CASE ~(b[1] >= b[2])
        <5> DEFINE low == <<b[1], Mid(b) - 1>>
                   high == <<Mid(b), b[2]>>
        <5>1. low \in D /\ high \in D /\ low[2] - low[1] <= m - 1 /\ high[2] - high[1] <= m - 1
          BY <1>1, <3>1, <3>4, <4>3, Halving
        <5>2. g[low] = f[low] /\ g[high] = f[high]
          <6> HIDE DEF low, high
          <6> QED
            BY <5>1
        <5> HIDE DEF g
        <5> QED
          BY <4>1, <4>3, <5>2 DEF Halves
      <4> QED
        BY <4>2, <4>3
    <3>5. Solves(g, m)
      BY <3>4
    <3> HIDE DEF g, Solves
    <3> QED
      BY <2>2, <3>3, <3>5
  <2> QED
    BY <2>3, <2>4
<1>3. PICK f \in [D -> 0..n] : Solves(f, n + 1)
  <2>1. n + 1 \in 0..(n + 1)
    OBVIOUS
  <2>2. n + 1 \notin T
    <3> HIDE DEF T
    <3> QED
      BY <1>2
  <2> QED
    BY <2>1, <2>2
<1>4. \A b \in D : f[b] = Halves(t, addr, f, b)
  BY <1>1, <1>3
<1>5. f = [b \in D |-> Halves(t, addr, f, b)]
  BY <1>4
<1> QED
  BY <1>5

\* What it finds: an entry between the bounds where it must be.
LEMMA SearchFinds ==
    ASSUME NEW t, NEW addr \in Int, NEW n \in Nat, \A i \in 0..(n - 1) : Value(t, i) \in Int,
           NEW f, f = [b \in Bounds(n) |-> Halves(t, addr, f, b)],
           NEW b \in Bounds(n), b[1] <= b[2], b[2] <= n - 1
    PROVE  /\ f[b] \in b[1]..b[2]
           /\ f[b] = b[1] \/ Value(t, f[b]) <= addr
           /\ f[b] = b[2] \/ addr < Value(t, f[b] + 1)
<1> DEFINE D == {c \in Bounds(n) : c[1] <= c[2] /\ c[2] <= n - 1}
           Finds(c) == /\ f[c] \in c[1]..c[2]
                       /\ f[c] = c[1] \/ Value(t, f[c]) <= addr
                       /\ f[c] = c[2] \/ addr < Value(t, f[c] + 1)
           T == {w \in 0..n : \E c \in D : c[2] - c[1] = w /\ ~Finds(c)}
<1>1. \A c \in D : c[1] \in 0..(n - 1) /\ c[2] \in 0..(n - 1) /\ c[2] - c[1] \in 0..n
  BY DEF Bounds
<1>2. T = {}
  <2>1. SUFFICES ASSUME T # {}
                 PROVE  FALSE
    OBVIOUS
  <2>2. PICK w \in T : \A j \in T : w <= j
    <3>1. T \in SUBSET (0..n)
      OBVIOUS
    <3> HIDE DEF T
    <3> QED
      BY <2>1, <3>1, LeastNumber
  <2>3. PICK c \in D : c[2] - c[1] = w /\ ~Finds(c)
    BY <2>2
  <2>4. \A d \in D : d[2] - d[1] < w => Finds(d)
    BY <1>1, <2>2
  <2>5. f[c] = Halves(t, addr, f, c)
    OBVIOUS
  <2>6. CASE c[1] >= c[2]
    <3>1. f[c] = c[1] /\ c[1] = c[2]
      BY <1>1, <2>5, <2>6 DEF Halves
    <3> QED
      BY <1>1, <2>3, <3>1
  <2>7. CASE ~(c[1] >= c[2])
    <3> DEFINE low == <<c[1], Mid(c) - 1>>
               high == <<Mid(c), c[2]>>
    <3>1. /\ low \in D /\ high \in D /\ low[2] - low[1] < w /\ high[2] - high[1] < w
          /\ Mid(c) \in 0..(n - 1) /\ c[1] < Mid(c) /\ Mid(c) <= c[2]
          /\ low[1] = c[1] /\ low[2] = Mid(c) - 1 /\ high[1] = Mid(c) /\ high[2] = c[2]
      BY <1>1, <2>3, <2>7, Halving
    <3>2. Finds(low) /\ Finds(high)
      <4> HIDE DEF low, high, Finds, D
      <4> QED
        BY <2>4, <3>1
    <3>3. f[c] = IF addr < Value(t, Mid(c)) THEN f[low] ELSE f[high]
      BY <2>5, <2>7 DEF Halves
    <3> HIDE DEF low, high
    <3>4. CASE addr < Value(t, Mid(c))
      <4>1. f[c] = f[low]
        BY <3>3, <3>4
      <4>2. f[low] \in c[1]..c[2] /\ (f[low] = c[1] \/ Value(t, f[low]) <= addr)
        BY <1>1, <3>1, <3>2
      <4>3. addr < Value(t, f[low] + 1)
        <5>1. CASE f[low] = low[2]
          <6>1. f[low] + 1 = Mid(c)
            BY <1>1, <3>1, <5>1
          <6> QED
            BY <3>4, <6>1
        <5> QED
          BY <3>2, <5>1
      <4> QED
        BY <2>3, <4>1, <4>2, <4>3
    <3>5. CASE ~(addr < Value(t, Mid(c)))
      <4>1. f[c] = f[high]
        BY <3>3, <3>5
      <4>2. f[high] \in c[1]..c[2] /\ (f[high] = c[2] \/ addr < Value(t, f[high] + 1))
        BY <1>1, <3>1, <3>2
      <4>3. Value(t, f[high]) <= addr
        <5>1. Value(t, Mid(c)) <= addr
          BY <3>1, <3>5
        <5> QED
          BY <3>1, <3>2, <5>1
      <4> QED
        BY <2>3, <4>1, <4>2, <4>3
    <3> QED
      BY <3>4, <3>5
  <2> QED
    BY <2>6, <2>7
<1>3. b \in D /\ b[2] - b[1] \in 0..n
  BY <1>1
<1> QED
  BY <1>2, <1>3

\* What ascends from each place to the next ascends over any distance.
LEMMA AscendsFar ==
    ASSUME NEW v, NEW n \in Nat, \A i \in 0..(n - 1) : v[i] \in Int,
           \A i \in 0..(n - 2) : v[i] <= v[i + 1],
           NEW i \in 0..(n - 1), NEW j \in 0..(n - 1), i <= j
    PROVE  v[i] <= v[j]
<1> DEFINE T == {d \in 0..n : i + d <= n - 1 /\ ~(v[i] <= v[i + d])}
<1>1. T = {}
  <2>1. SUFFICES ASSUME T # {}
                 PROVE  FALSE
    OBVIOUS
  <2>2. PICK d \in T : \A e \in T : d <= e
    <3>1. T \in SUBSET (0..n)
      OBVIOUS
    <3> HIDE DEF T
    <3> QED
      BY <2>1, <3>1, LeastNumber
  <2>3. d # 0
    BY <2>2
  <2>4. v[i] <= v[i + (d - 1)]
    <3>1. d - 1 \in 0..n /\ d - 1 \notin T /\ i + (d - 1) <= n - 1
      BY <2>2, <2>3
    <3> QED
      BY <3>1
  <2>5. v[i + (d - 1)] <= v[i + d]
    <3> DEFINE q == i + (d - 1)
    <3>1. q \in 0..(n - 2) /\ q + 1 = i + d
      BY <2>2, <2>3
    <3> HIDE DEF q
    <3>2. v[q] <= v[q + 1]
      BY <3>1
    <3> QED
      BY <3>1, <3>2 DEF q
  <2>6. v[i] \in Int /\ v[i + (d - 1)] \in Int /\ v[i + d] \in Int
    BY <2>2, <2>3
  <2> QED
    BY <2>2, <2>4, <2>5, <2>6
<1>2. j - i \in 0..n /\ i + (j - i) = j
  OBVIOUS
<1>3. j - i \notin T
  BY <1>1
<1> QED
  BY <1>2, <1>3

\* An index in the order of addresses is searched right.
LEMMA AddressSearched ==
    ASSUME TableInv
    PROVE  AddressFound
<1> SUFFICES ASSUME pc = "indexed", nentries > 0, NEW addr \in Addresses
             PROVE  LET below == {i \in 0..(nentries - 1) : syms[aindex[i]].ptv <= addr}
                        i == cexpSymTblLkAddrIdx([syms |-> syms, nentries |-> nentries, aindex |-> aindex], addr)
                    IN IF below = {} THEN i = 0 ELSE i \in below /\ \A j \in below : j <= i
  BY DEF AddressFound
<1>1. PICK n \in Nat : n = nentries /\ n > 0 /\ n <= MaxSyms
  BY MaxSymsOK DEF TableInv, WellFormed, TypeOK
<1>2. PICK t : t = [syms |-> syms, nentries |-> nentries, aindex |-> aindex]
  OBVIOUS
<1>3. t.nentries = n /\ \A i : Value(t, i) = syms[aindex[i]].ptv
  BY <1>1, <1>2 DEF Value
<1>4. addr \in Int /\ \A i \in 0..(n - 1) : Value(t, i) \in Int
  <2>1. syms \in [0..MaxSyms -> Row] /\ \A r \in Row : r.ptv \in Int
    <3>1. \A a \in Addresses : a \in Int
      BY MaxSymsOK
    <3>2. \A r \in Row : r.ptv \in Addresses
      BY DEF Row
    <3>3. syms \in [0..MaxSyms -> Row]
      BY DEF TableInv, WellFormed, TypeOK, Row
    <3> QED
      BY <3>1, <3>2, <3>3
  <2>2. \A i \in 0..(n - 1) : aindex[i] \in 0..(n - 1) /\ aindex[i] \in 0..MaxSyms
    BY <1>1, MaxSymsOK DEF TableInv, AddressesAscend, Permuted
  <2> QED
    BY <1>3, <2>1, <2>2, MaxSymsOK
<1> DEFINE v == [i \in 0..(n - 1) |-> Value(t, i)]
<1>5. \A i, j \in 0..(n - 1) : i <= j => Value(t, i) <= Value(t, j)
  <2>1. \A i \in 0..(n - 2) : Value(t, i) <= Value(t, i + 1)
    BY <1>1, <1>3 DEF TableInv, AddressesAscend
  <2>2. \A i \in 0..(n - 1) : v[i] = Value(t, i)
    OBVIOUS
  <2>3. \A i \in 0..(n - 2) : v[i] <= v[i + 1]
    BY <2>1
  <2>4. \A i \in 0..(n - 1) : v[i] \in Int
    BY <1>4
  <2> HIDE DEF v
  <2>5. \A i, j \in 0..(n - 1) : i <= j => v[i] <= v[j]
    BY <2>3, <2>4, AscendsFar
  <2> QED
    BY <2>2, <2>5
<1> DEFINE f == CHOOSE f : f = [b \in Bounds(n) |-> Halves(t, addr, f, b)]
           b == <<0, n - 1>>
<1>6. f = [c \in Bounds(n) |-> Halves(t, addr, f, c)]
  BY SearchDefined
<1>7. cexpSymTblLkAddrIdx(t, addr) = f[b]
  BY <1>3, SearchIs
<1>8. b \in Bounds(n) /\ b[1] = 0 /\ b[2] = n - 1
  BY <1>1 DEF Bounds
<1> HIDE DEF f, b, v
<1>9. /\ f[b] \in 0..(n - 1)
      /\ f[b] = 0 \/ Value(t, f[b]) <= addr
      /\ f[b] = n - 1 \/ addr < Value(t, f[b] + 1)
  <2>1. b[1] <= b[2] /\ b[2] <= n - 1 /\ b \in Bounds(n)
    BY <1>1, <1>8
  <2>2. /\ f[b] \in b[1]..b[2]
        /\ f[b] = b[1] \/ Value(t, f[b]) <= addr
        /\ f[b] = b[2] \/ addr < Value(t, f[b] + 1)
    BY <1>4, <1>6, <2>1, SearchFinds
  <2> QED
    BY <1>8, <2>2
<1> DEFINE below == {i \in 0..(n - 1) : Value(t, i) <= addr}
<1>10. CASE below = {}
  <2>1. f[b] = 0
    BY <1>9, <1>10
  <2> QED
    BY <1>1, <1>2, <1>3, <1>7, <1>10, <2>1
<1>11. CASE below # {}
  <2>1. f[b] \in below
    <3>1. PICK j \in 0..(n - 1) : Value(t, j) <= addr
      BY <1>11
    <3>2. Value(t, 0) <= Value(t, j) /\ 0 \in 0..(n - 1)
      BY <1>1, <1>5
    <3>3. Value(t, 0) <= addr
      BY <1>4, <3>1, <3>2
    <3> QED
      BY <1>9, <3>3
  <2>2. ASSUME NEW j \in below
        PROVE  j <= f[b]
    <3>1. SUFFICES ASSUME j > f[b]
                   PROVE  FALSE
      BY <1>9
    <3>2. f[b] + 1 \in 0..(n - 1) /\ f[b] + 1 <= j /\ f[b] # n - 1
      BY <1>9, <3>1
    <3>3. addr < Value(t, f[b] + 1) /\ Value(t, f[b] + 1) <= Value(t, j) /\ Value(t, j) <= addr
      BY <1>5, <1>9, <3>2
    <3> QED
      BY <1>4, <3>2, <3>3
  <2> QED
    BY <1>1, <1>2, <1>3, <1>7, <1>11, <2>1, <2>2
<1> QED
  BY <1>10, <1>11

\* The binary search by address, in tables of any size, finds the last entry of
\* the index that is not above the address.
THEOREM AddressesLookedUp ==
    ASSUME LastUnique
    PROVE  Spec => []AddressFound
BY AddressSearched, TableInvariant, PTL

-----------------------------------------------------------------------------
(* The search by name *)

\* Name b has a greater character where it first differs from a.
Follows(b, a) == \E p \in 1..Len(b) : Agree(b, a, p) /\ Char(b, p) > Char(a, p)

\* This is what the comparison says with b as the key.
LEMMA FollowsIs ==
    ASSUME NEW a \in Name, NEW b \in Name
    PROVE  _cexp_namecomp(b, a) > 0 <=> Follows(b, a)
<1>1. Len(b) \in Nat
  BY DEF Name
<1>2. \A i \in Int : Char(a, i) \in Nat /\ Char(b, i) \in Nat
  BY CharType
<1>3. ASSUME _cexp_namecomp(b, a) > 0
      PROVE  Follows(b, a)
  <2>1. PICK i \in 1..Len(b) : /\ Agree(b, a, i) /\ Char(b, i) # Char(a, i)
                               /\ _cexp_namecomp(b, a) = Char(b, i) - Char(a, i)
    BY <1>3, Compared
  <2>2. Char(b, i) \in Nat /\ Char(a, i) \in Nat
    BY <1>1, <1>2
  <2> QED
    BY <1>3, <2>1, <2>2 DEF Follows
<1>4. ASSUME Follows(b, a)
      PROVE  _cexp_namecomp(b, a) > 0
  <2>1. PICK p \in 1..Len(b) : Agree(b, a, p) /\ Char(b, p) > Char(a, p)
    BY <1>4 DEF Follows
  <2>2. Char(b, p) \in Nat /\ Char(a, p) \in Nat
    BY <1>1, <1>2
  <2>3. ~Agree(b, a, Len(b) + 1)
    BY <1>1, <2>1, <2>2 DEF Agree
  <2>4. PICK i \in 1..Len(b) : /\ Agree(b, a, i) /\ Char(b, i) # Char(a, i)
                               /\ _cexp_namecomp(b, a) = Char(b, i) - Char(a, i)
    BY <2>3, Compared
  <2>5. i = p
    BY <1>1, <2>1, <2>2, <2>4 DEF Agree
  <2> QED
    BY <2>1, <2>2, <2>4, <2>5
<1> QED
  BY <1>3, <1>4

\* Names that follow each other are in an order.
LEMMA FollowsFar ==
    ASSUME NEW a \in Name, NEW b \in Name, NEW c \in Name, Follows(b, a), Follows(c, b)
    PROVE  Follows(c, a)
<1>1. Len(b) \in Nat /\ Len(c) \in Nat
  BY DEF Name
<1>2. \A i \in Int : /\ Char(a, i) \in Nat /\ Char(b, i) \in Nat /\ Char(c, i) \in Nat
                     /\ Char(c, i) = 0 <=> i \notin 1..Len(c)
  BY CharType
<1>3. PICK p \in 1..Len(b) : Agree(b, a, p) /\ Char(b, p) > Char(a, p)
  BY DEF Follows
<1>4. PICK q \in 1..Len(c) : Agree(c, b, q) /\ Char(c, q) > Char(b, q)
  BY DEF Follows
<1>5. CASE p < q
  <2>1. Agree(c, a, p) /\ Char(c, p) = Char(b, p)
    BY <1>1, <1>3, <1>4, <1>5 DEF Agree
  <2>2. p \in 1..Len(c)
    BY <1>1, <1>4, <1>5
  <2> QED
    BY <1>3, <2>1, <2>2 DEF Follows
<1>6. CASE q <= p
  <2>1. Agree(c, a, q)
    BY <1>1, <1>3, <1>4, <1>6 DEF Agree
  <2>2. Char(b, q) >= Char(a, q)
    <3>1. CASE q = p
      BY <1>1, <1>2, <1>3, <3>1
    <3>2. CASE q # p
      <4>1. q \in 1..(p - 1)
        BY <1>1, <1>6, <3>2
      <4>2. Char(b, q) = Char(a, q) /\ Char(b, q) \in Nat
        BY <1>1, <1>2, <1>3, <4>1 DEF Agree
      <4> QED
        BY <4>2
    <3> QED
      BY <3>1, <3>2
  <2>3. Char(b, q) \in Nat /\ Char(a, q) \in Nat /\ Char(c, q) \in Nat
    BY <1>1, <1>2
  <2>4. Char(c, q) > Char(a, q)
    BY <1>4, <2>2, <2>3
  <2> QED
    BY <2>1, <2>4 DEF Follows
<1> QED
  BY <1>1, <1>5, <1>6

\* A key without a version equals the names that are it up to their version.
LEMMA KeyEquals ==
    ASSUME NEW n \in Name, NEW c \in Name
    PROVE  LET key == Unversioned(n) IN
           /\ \A i \in 1..Len(key) : Char(key, i) # At
           /\ key \in Seq(Nat \ {0}) /\ Len(key) <= Len(n) /\ Agree(key, n, Len(key) + 1)
           /\ Len(key) < Len(n) => Char(n, Len(key) + 1) = At
<1>1. Len(n) \in Nat /\ DOMAIN n = 1..Len(n) /\ n \in Seq(Nat \ {0})
  BY DEF Name
<1>2. CASE \E i \in DOMAIN n : n[i] = At
  <2>1. PICK i \in 1..Len(n) : FirstAt(n, i)
    BY <1>2, FirstAtExists
  <2>2. Unversioned(n) = SubSeq(n, 1, i - 1)
    BY <2>1, CutAtFirst
  <2>3. PICK key : key = SubSeq(n, 1, i - 1)
    OBVIOUS
  <2>4. key \in Seq(Nat \ {0}) /\ Len(key) = i - 1 /\ \A j \in 1..(i - 1) : key[j] = n[j]
    BY <1>1, <2>1, <2>3
  <2>5. \A j \in 1..(i - 1) : n[j] # At
    BY <2>1 DEF FirstAt
  <2>6. \A j \in 1..(i - 1) : Char(key, j) = n[j] /\ Char(n, j) = n[j]
    BY <1>1, <2>1, <2>4 DEF Char
  <2>7. Char(n, i) = At
    BY <1>1, <2>1 DEF FirstAt, Char
  <2> QED
    BY <1>1, <2>1, <2>2, <2>3, <2>4, <2>5, <2>6, <2>7 DEF Agree
<1>3. CASE ~\E i \in DOMAIN n : n[i] = At
  <2>1. Unversioned(n) = n
    BY <1>3 DEF Unversioned
  <2>2. \A i \in 1..Len(n) : Char(n, i) = n[i] /\ n[i] # At
    BY <1>1, <1>3 DEF Char
  <2> QED
    BY <1>1, <2>1, <2>2 DEF Agree
<1> QED
  BY <1>2, <1>3

\* A name without a version, and one that is it up to its own.
Bare(key) == key \in Name /\ \A i \in 1..Len(key) : Char(key, i) # At
Match(key, c) == Agree(key, c, Len(key) + 1) /\ Char(c, Len(key) + 1) \in {0, At}

LEMMA MatchIs ==
    ASSUME NEW key \in Name, NEW c \in Name
    PROVE  _cexp_namecomp(key, c) = 0 <=> Match(key, c)
<1>1. Len(key) \in Nat
  BY DEF Name
<1>2. \A i \in Int : Char(key, i) \in Nat /\ Char(c, i) \in Nat
  BY CharType
<1>3. ASSUME NEW i \in 1..Len(key), Char(key, i) # Char(c, i),
             _cexp_namecomp(key, c) = Char(key, i) - Char(c, i)
      PROVE  _cexp_namecomp(key, c) # 0 /\ ~Match(key, c)
  <2>1. Char(key, i) \in Nat /\ Char(c, i) \in Nat
    BY <1>1, <1>2
  <2>2. ~Agree(key, c, Len(key) + 1)
    BY <1>1, <1>3 DEF Agree
  <2> QED
    BY <1>3, <2>1, <2>2 DEF Match
<1>4. CASE /\ Agree(key, c, Len(key) + 1)
           /\ \/ Char(c, Len(key) + 1) \in {0, At} /\ _cexp_namecomp(key, c) = 0
              \/ Char(c, Len(key) + 1) # 0 /\ _cexp_namecomp(key, c) = -1
  <2>1. _cexp_namecomp(key, c) = IF Char(c, Len(key) + 1) \in {0, At} THEN 0 ELSE -1
    <3> DEFINE differ == {i \in 1..Len(key) : Char(key, i) # Char(c, i)}
    <3>1. differ = {}
      BY <1>1, <1>4 DEF Agree
    <3> QED
      BY <3>1 DEF _cexp_namecomp
  <2> QED
    BY <1>4, <2>1 DEF Match
<1> QED
  BY <1>3, <1>4, Compared

\* A name without its version matches the name.
LEMMA BareMatches ==
    ASSUME NEW c \in Name
    PROVE  Bare(Unversioned(c)) /\ Match(Unversioned(c), c)
<1>1. PICK key : key = Unversioned(c)
  OBVIOUS
<1>2. /\ \A i \in 1..Len(key) : Char(key, i) # At
      /\ key \in Seq(Nat \ {0}) /\ Len(key) <= Len(c) /\ Agree(key, c, Len(key) + 1)
      /\ Len(key) < Len(c) => Char(c, Len(key) + 1) = At
  BY <1>1, KeyEquals
<1>3. Len(c) \in Nat /\ Len(key) \in Nat
  BY <1>2 DEF Name
<1>4. Char(c, Len(key) + 1) \in {0, At}
  <2>1. CASE Len(key) < Len(c)
    BY <1>2, <2>1
  <2>2. CASE Len(key) = Len(c)
    <3>1. Len(key) + 1 \in Int /\ Len(key) + 1 \notin 1..Len(c)
      BY <1>3, <2>2
    <3> QED
      BY <3>1, CharType
  <2> QED
    BY <1>2, <1>3, <2>1, <2>2
<1> QED
  BY <1>1, <1>2, <1>4 DEF Bare, Match, Name

\* What it matches, it is the name of.
LEMMA MatchNames ==
    ASSUME NEW key, Bare(key), NEW c \in Name, _cexp_namecomp(key, c) = 0
    PROVE  Unversioned(c) = key
<1>1. key \in Name /\ \A i \in 1..Len(key) : Char(key, i) # At
  BY DEF Bare
<1>2. DOMAIN key = 1..Len(key) /\ Len(key) \in Nat
  BY <1>1 DEF Name
<1>3. ~\E i \in DOMAIN key : key[i] = At
  BY <1>1, <1>2 DEF Char
<1>4. Unversioned(key) = key
  BY <1>3 DEF Unversioned
<1> QED
  BY <1>1, <1>4, EqualButVersion

\* Nothing in front of a match is above the key: this is where names with a
\* character below the separator would hide those with a version.
LEMMA NothingAboveInFront ==
    ASSUME NEW key, Bare(key), NEW a \in Names, NEW c \in Names, Match(key, a),
           Follows(a, c), Unshadowed
    PROVE  ~(_cexp_namecomp(key, c) < 0)
<1>1. a \in Name /\ c \in Name /\ key \in Name
  BY NamesOK DEF Bare, Name
<1>2. Len(a) \in Nat /\ Len(c) \in Nat /\ Len(key) \in Nat
  BY <1>1 DEF Name
<1>3. \A i \in Int : /\ Char(key, i) \in Nat /\ Char(a, i) \in Nat /\ Char(c, i) \in Nat
                     /\ Char(key, i) = 0 <=> i \notin 1..Len(key)
                     /\ Char(a, i) = 0 <=> i \notin 1..Len(a)
                     /\ Char(c, i) = 0 <=> i \notin 1..Len(c)
  BY <1>1, CharType
<1>4. PICK p \in 1..Len(a) : Agree(a, c, p) /\ Char(a, p) > Char(c, p)
  BY DEF Follows
<1>5. Agree(key, a, Len(key) + 1) /\ Char(a, Len(key) + 1) \in {0, At}
  BY DEF Match
<1>6. SUFFICES ASSUME _cexp_namecomp(key, c) < 0
               PROVE  FALSE
  OBVIOUS
<1>7. ASSUME NEW i \in 1..Len(key), Agree(key, c, i), Char(key, i) # Char(c, i),
             _cexp_namecomp(key, c) = Char(key, i) - Char(c, i)
      PROVE  FALSE
  <2>1. Char(key, i) = Char(a, i) /\ Char(key, i) < Char(c, i)
    <3>1. Char(key, i) \in Nat /\ Char(c, i) \in Nat
      BY <1>2, <1>3
    <3>2. Char(key, i) < Char(c, i)
      BY <1>6, <1>7, <3>1
    <3> QED
      BY <1>2, <1>5, <3>2 DEF Agree
  <2>2. i \in Int /\ Char(a, i) \in Nat /\ Char(c, i) \in Nat /\ Char(a, p) \in Nat /\ Char(c, p) \in Nat
    BY <1>2, <1>3
  <2>3. \A j \in 1..(i - 1) : Char(a, j) = Char(c, j)
    BY <1>2, <1>5, <1>7 DEF Agree
  <2>4. CASE p < i
    BY <1>2, <1>4, <2>2, <2>3, <2>4
  <2>5. CASE p = i
    BY <1>4, <2>1, <2>2, <2>5
  <2>6. CASE i < p
    <3>1. Char(a, i) = Char(c, i)
      BY <1>2, <1>4, <2>6 DEF Agree
    <3> QED
      BY <2>1, <2>2, <3>1
  <2> QED
    BY <1>2, <2>4, <2>5, <2>6
<1>8. ASSUME Agree(key, c, Len(key) + 1), Char(c, Len(key) + 1) \notin {0, At}
      PROVE  FALSE
  <2>1. PICK k \in Nat : k = Len(key) + 1 /\ k \in 1..(Len(key) + 1)
    BY <1>2
  <2>2. \A j \in 1..(k - 1) : Char(a, j) = Char(key, j) /\ Char(c, j) = Char(key, j)
    BY <1>2, <1>5, <1>8, <2>1 DEF Agree
  <2>3. \A j \in 1..(k - 1) : Char(key, j) # At /\ Char(key, j) # 0
    BY <1>2, <1>3, <2>1 DEF Bare
  <2>4. Char(a, k) \in {0, At} /\ Char(c, k) \notin {0, At}
    BY <1>5, <1>8, <2>1
  <2>5. /\ Char(a, k) \in Nat /\ Char(c, k) \in Nat /\ Char(a, p) \in Nat /\ Char(c, p) \in Nat
        /\ k \in 1..Len(c)
    BY <1>2, <1>3, <2>1, <2>4
  <2>6. Char(c, k) <= Char(a, k)
    <3>1. CASE p < k
      <4>1. p \in 1..(k - 1)
        BY <1>2, <2>1, <3>1
      <4> QED
        BY <1>4, <2>2, <2>5, <4>1
    <3>2. CASE p = k
      BY <1>4, <2>5, <3>2
    <3>3. CASE k < p
      <4>1. Char(a, k) = Char(c, k)
        BY <1>2, <1>4, <2>1, <3>3 DEF Agree
      <4> QED
        BY <2>5, <4>1
    <3> QED
      BY <1>2, <2>1, <3>1, <3>2, <3>3
  <2>7. Char(a, k) = At /\ Char(a, k) # 0
    BY <2>4, <2>5, <2>6
  <2>8. k \in 1..Len(a) /\ a[k] = At /\ c[k] = Char(c, k)
    BY <1>2, <1>3, <2>5, <2>7 DEF Char
  <2>9. \A j \in 1..(k - 1) : c[j] = a[j] /\ a[j] # At
    <3>1. ASSUME NEW j \in 1..(k - 1)
          PROVE  c[j] = a[j] /\ a[j] # At
      <4>1. j \in 1..Len(a) /\ j \in 1..Len(c)
        BY <1>2, <2>5, <2>8
      <4> QED
        BY <2>2, <2>3, <4>1 DEF Char
    <3> QED
      BY <3>1
  <2>10. c[k] >= At
    BY <2>5, <2>8, <2>9 DEF Unshadowed
  <2> QED
    BY <2>4, <2>5, <2>6, <2>7, <2>8, <2>10
<1>9. \/ \E i \in 1..Len(key) : /\ Agree(key, c, i) /\ Char(key, i) # Char(c, i)
                                /\ _cexp_namecomp(key, c) = Char(key, i) - Char(c, i)
      \/ /\ Agree(key, c, Len(key) + 1)
         /\ \/ Char(c, Len(key) + 1) \in {0, At} /\ _cexp_namecomp(key, c) = 0
            \/ Char(c, Len(key) + 1) # 0 /\ _cexp_namecomp(key, c) = -1
  BY <1>1, Compared
<1>10. ~Match(key, c)
  BY <1>1, <1>6, MatchIs
<1> QED
  BY <1>6, <1>7, <1>8, <1>9, <1>10 DEF Match

\* Nothing behind a match is below the key.
LEMMA NothingBelowBehind ==
    ASSUME NEW key, Bare(key), NEW a \in Name, NEW c \in Name, Match(key, a), Follows(c, a)
    PROVE  ~(_cexp_namecomp(key, c) > 0)
<1>1. key \in Name /\ Len(key) \in Nat /\ Len(a) \in Nat
  BY DEF Bare, Name
<1>2. \A i \in Int : /\ Char(key, i) \in Nat /\ Char(a, i) \in Nat /\ Char(c, i) \in Nat
                     /\ Char(key, i) = 0 <=> i \notin 1..Len(key)
                     /\ Char(a, i) = 0 <=> i \notin 1..Len(a)
  BY <1>1, CharType
<1>3. SUFFICES ASSUME _cexp_namecomp(key, c) > 0
               PROVE  FALSE
  OBVIOUS
<1>4. PICK i \in 1..Len(key) : Agree(key, c, i) /\ Char(key, i) > Char(c, i)
  BY <1>1, <1>3, FollowsIs DEF Follows
<1>5. Agree(key, a, Len(key) + 1)
  BY DEF Match
<1>6. Char(a, i) = Char(key, i) /\ \A j \in 1..(i - 1) : Char(a, j) = Char(c, j)
  BY <1>1, <1>4, <1>5 DEF Agree
<1>7. i \in 1..Len(a) /\ Char(a, i) > Char(c, i)
  BY <1>1, <1>2, <1>4, <1>6
<1>8. Follows(a, c)
  BY <1>6, <1>7 DEF Follows, Agree
<1>9. PICK p \in 1..Len(a) : Char(a, p) > Char(a, p)
  <2>1. Follows(a, a)
    BY <1>8, FollowsFar
  <2> QED
    BY <2>1 DEF Follows
<1>10. Char(a, p) \in Nat
  BY <1>1, <1>2
<1> QED
  BY <1>9, <1>10

\* In a complete table each name follows all in front of it.
LEMMA TableFollows ==
    ASSUME TableInv, Complete, NEW i \in 0..(nentries - 1), NEW j \in 0..(nentries - 1), i < j
    PROVE  Follows(syms[j].name, syms[i].name)
<1>1. PICK n \in Nat : n = nentries /\ n <= MaxSyms
  BY MaxSymsOK DEF TableInv, WellFormed, TypeOK
<1> DEFINE v == [x \in 0..(n - 1) |-> syms[x].name]
<1>2. \A x \in 0..(n - 1) : v[x] \in Name
  <2>1. ASSUME NEW x \in 0..(n - 1)
        PROVE  syms[x].name \in Name
    <3>1. syms \in [0..MaxSyms -> Row]
      BY DEF TableInv, WellFormed, TypeOK, Row
    <3>2. x \in 0..MaxSyms
      BY <1>1, MaxSymsOK
    <3>3. syms[x] \in Row
      BY <3>1, <3>2
    <3> QED
      BY <3>3, RowNames
  <2> QED
    BY <2>1
<1>3. \A x \in 0..(n - 2) : Follows(v[x + 1], v[x])
  <2>1. ASSUME NEW x \in 0..(n - 2)
        PROVE  Follows(v[x + 1], v[x])
    <3>1. x \in 0..(n - 1) /\ x + 1 \in 0..(n - 1)
      BY <1>1
    <3>2. _cexp_namecomp(syms[x + 1].name, syms[x].name) > 0
      BY <1>1 DEF TableInv, WellFormed, Ascending
    <3>3. v[x] = syms[x].name /\ v[x + 1] = syms[x + 1].name
      BY <3>1
    <3>4. v[x] \in Name /\ v[x + 1] \in Name
      BY <1>2, <3>1
    <3> HIDE DEF v
    <3> QED
      BY <3>2, <3>3, <3>4, FollowsIs
  <2> QED
    BY <2>1
<1>4. v[i] = syms[i].name /\ v[j] = syms[j].name
  BY <1>1
<1>5. i \in 0..(n - 1) /\ j \in 0..(n - 1)
  BY <1>1
<1> HIDE DEF v
<1> DEFINE T == {d \in 0..n : i + 1 + d <= n - 1 /\ ~Follows(v[i + 1 + d], v[i])}
<1>6. T = {}
  <2>1. SUFFICES ASSUME T # {}
                 PROVE  FALSE
    OBVIOUS
  <2>2. PICK d \in T : \A e \in T : d <= e
    <3>1. T \in SUBSET (0..n)
      OBVIOUS
    <3> HIDE DEF T
    <3> QED
      BY <1>1, <2>1, <3>1, LeastNumber
  <2>3. d # 0
    <3>1. SUFFICES ASSUME d = 0
                   PROVE  FALSE
      OBVIOUS
    <3>2. i \in 0..(n - 2) /\ i + 1 + d = i + 1
      BY <1>5, <2>2, <3>1
    <3> QED
      BY <1>3, <2>2, <3>2
  <2>4. PICK q \in 0..(n - 2) : q = i + d
    BY <1>5, <2>2
  <2>5. Follows(v[q], v[i])
    <3>1. d - 1 \in 0..n /\ d - 1 \notin T /\ i + 1 + (d - 1) <= n - 1 /\ i + 1 + (d - 1) = q
      BY <1>5, <2>2, <2>3, <2>4
    <3> QED
      BY <3>1
  <2>6. Follows(v[q + 1], v[q])
    BY <1>3, <2>4
  <2>7. v[i] \in Name /\ v[q] \in Name /\ v[q + 1] \in Name
    BY <1>2, <1>5, <2>4
  <2>8. Follows(v[q + 1], v[i])
    BY <2>5, <2>6, <2>7, FollowsFar
  <2>9. q + 1 = i + 1 + d
    BY <1>5, <2>2, <2>4
  <2> QED
    BY <2>2, <2>8, <2>9
<1>7. PICK d \in 0..n : d = j - i - 1 /\ i + 1 + d = j
  BY <1>1, <1>5
<1>8. d \notin T
  BY <1>6
<1> QED
  BY <1>1, <1>4, <1>5, <1>7, <1>8

\* bsearch is the function f on pairs of bounds with f[b] = Narrows(key, f, b).
Pairs(n) == (0..n) \X (0..n)
Middle(b) == (b[1] + b[2]) \div 2
Probe(key, i) == _cexp_namecomp(key, syms[i].name)
Narrows(key, f, b) ==
    IF b[1] >= b[2] THEN -1
    ELSE IF Probe(key, Middle(b)) < 0 THEN f[<<b[1], Middle(b)>>]
    ELSE IF Probe(key, Middle(b)) > 0 THEN f[<<Middle(b) + 1, b[2]>>]
    ELSE Middle(b)

LEMMA BsearchIs ==
    ASSUME NEW key
    PROVE  bsearch(key) =
             (CHOOSE f : f = [b \in Pairs(nentries) |-> Narrows(key, f, b)])[<<0, nentries>>]
BY DEF bsearch, Pairs, Narrows, Middle, Probe

\* What is left on either side are bounds, and closer.
LEMMA Narrowing ==
    ASSUME NEW n \in Nat, NEW b \in Pairs(n), b[1] < b[2]
    PROVE  /\ b[1] \in 0..n /\ b[2] \in 0..n /\ Middle(b) \in Nat /\ b[1] <= Middle(b) /\ Middle(b) < b[2]
           /\ <<b[1], Middle(b)>> \in Pairs(n) /\ <<Middle(b) + 1, b[2]>> \in Pairs(n)
<1>1. b[1] \in 0..n /\ b[2] \in 0..n
  BY DEF Pairs
<1>2. \A lo, hi \in Int : lo < hi =>
        (lo + hi) \div 2 \in Int /\ lo <= (lo + hi) \div 2 /\ (lo + hi) \div 2 < hi
  OBVIOUS
<1>3. Middle(b) \in Int /\ b[1] <= Middle(b) /\ Middle(b) < b[2]
  BY <1>1, <1>2 DEF Middle
<1> QED
  BY <1>1, <1>3 DEF Pairs

\* bsearch is defined, as the search by address is.
LEMMA BsearchDefined ==
    ASSUME NEW key, NEW n \in Nat
    PROVE  \E f : f = [b \in Pairs(n) |-> Narrows(key, f, b)]
<1> DEFINE D == Pairs(n)
           Solves(f, m) == \A b \in D : b[2] - b[1] <= m => f[b] = Narrows(key, f, b)
           T == {m \in 0..n : ~\E f \in [D -> -1..n] : Solves(f, m)}
<1>1. \A b \in D : b[1] \in 0..n /\ b[2] \in 0..n
  BY DEF Pairs
<1>2. T = {}
  <2>1. SUFFICES ASSUME T # {}
                 PROVE  FALSE
    OBVIOUS
  <2>2. PICK m \in T : \A j \in T : m <= j
    <3>1. T \in SUBSET (0..n)
      OBVIOUS
    <3> HIDE DEF T
    <3> QED
      BY <2>1, <3>1, LeastNumber
  <2>3. CASE m = 0
    <3> DEFINE f == [b \in D |-> -1]
    <3>1. f \in [D -> -1..n]
      OBVIOUS
    <3>2. Solves(f, 0)
      <4>1. ASSUME NEW b \in D, b[2] - b[1] <= 0
            PROVE  f[b] = Narrows(key, f, b)
        <5>1. b[1] >= b[2]
          BY <1>1, <4>1
        <5> QED
          BY <5>1 DEF Narrows
      <4> QED
        BY <4>1
    <3> QED
      BY <2>2, <2>3, <3>1, <3>2
  <2>4. CASE m # 0
    <3>1. m - 1 \in 0..n /\ m - 1 \notin T /\ m \in Nat
      BY <2>2, <2>4
    <3>2. PICK f \in [D -> -1..n] : Solves(f, m - 1)
      BY <3>1
    <3> DEFINE g == [b \in D |-> IF b[2] - b[1] <= m - 1 THEN f[b] ELSE Narrows(key, f, b)]
    <3>3. g \in [D -> -1..n]
      <4>1. ASSUME NEW b \in D
            PROVE  Narrows(key, f, b) \in -1..n
        <5>1. CASE b[1] >= b[2]
          BY <1>1, <5>1 DEF Narrows
        <5>2. CASE ~(b[1] >= b[2])
          <6>1. /\ <<b[1], Middle(b)>> \in D /\ <<Middle(b) + 1, b[2]>> \in D
                /\ Middle(b) \in -1..n
            BY <1>1, <5>2, Narrowing
          <6> QED
            BY <5>2, <6>1 DEF Narrows
        <5> QED
          BY <5>1, <5>2
      <4> QED
        BY <4>1
    <3>4. ASSUME NEW b \in D, b[2] - b[1] <= m
          PROVE  g[b] = Narrows(key, g, b)
      <4>1. g[b] = Narrows(key, f, b)
        BY <3>2, <3>4
      <4>2. CASE b[1] >= b[2]
        BY <4>1, <4>2 DEF Narrows
      <4>3. CASE ~(b[1] >= b[2])
        <5> DEFINE low == <<b[1], Middle(b)>>
                   high == <<Middle(b) + 1, b[2]>>
        <5>1. low \in D /\ high \in D /\ low[2] - low[1] <= m - 1 /\ high[2] - high[1] <= m - 1
          BY <1>1, <3>1, <3>4, <4>3, Narrowing
        <5>2. g[low] = f[low] /\ g[high] = f[high]
          <6> HIDE DEF low, high
          <6> QED
            BY <5>1
        <5> HIDE DEF g
        <5> QED
          BY <4>1, <4>3, <5>2 DEF Narrows
      <4> QED
        BY <4>2, <4>3
    <3>5. Solves(g, m)
      BY <3>4
    <3> HIDE DEF g, Solves
    <3> QED
      BY <2>2, <3>3, <3>5
  <2> QED
    BY <2>3, <2>4
<1>3. PICK f \in [D -> -1..n] : Solves(f, n)
  <2>1. n \in 0..n
    OBVIOUS
  <2>2. n \notin T
    <3> HIDE DEF T
    <3> QED
      BY <1>2
  <2> QED
    BY <2>1, <2>2
<1>4. \A b \in D : f[b] = Narrows(key, f, b)
  BY <1>1, <1>3
<1>5. f = [b \in D |-> Narrows(key, f, b)]
  BY <1>4
<1> QED
  BY <1>5

\* It ends at an entry that is equal to the key, if one between the bounds is and
\* the others are not on the wrong side of it.
LEMMA BsearchFinds ==
    ASSUME NEW key, NEW n \in Nat, \A i \in 0..(n - 1) : Probe(key, i) \in Int,
           NEW s \in 0..(n - 1), Probe(key, s) = 0,
           \A i \in 0..(n - 1) : /\ i < s => ~(Probe(key, i) < 0)
                                 /\ i > s => ~(Probe(key, i) > 0),
           NEW f, f = [b \in Pairs(n) |-> Narrows(key, f, b)],
           NEW b \in Pairs(n), b[1] <= s, s < b[2]
    PROVE  f[b] \in 0..(n - 1) /\ Probe(key, f[b]) = 0
<1> DEFINE D == {c \in Pairs(n) : c[1] <= s /\ s < c[2]}
           Finds(c) == f[c] \in 0..(n - 1) /\ Probe(key, f[c]) = 0
           T == {w \in 0..n : \E c \in D : c[2] - c[1] = w /\ ~Finds(c)}
<1>1. \A c \in D : c[1] \in 0..n /\ c[2] \in 0..n /\ c[2] - c[1] \in 0..n /\ c[1] < c[2]
  BY DEF Pairs
<1>2. T = {}
  <2>1. SUFFICES ASSUME T # {}
                 PROVE  FALSE
    OBVIOUS
  <2>2. PICK w \in T : \A j \in T : w <= j
    <3>1. T \in SUBSET (0..n)
      OBVIOUS
    <3> HIDE DEF T
    <3> QED
      BY <2>1, <3>1, LeastNumber
  <2>3. PICK c \in D : c[2] - c[1] = w /\ ~Finds(c)
    BY <2>2
  <2>4. \A d \in D : d[2] - d[1] < w => Finds(d)
    BY <1>1, <2>2
  <2>5. f[c] = Narrows(key, f, c)
    OBVIOUS
  <2>6. c[1] < c[2] /\ ~(c[1] >= c[2])
    BY <1>1
  <2>7. /\ c[1] \in 0..n /\ c[2] \in 0..n /\ Middle(c) \in Nat /\ c[1] <= Middle(c) /\ Middle(c) < c[2]
         /\ <<c[1], Middle(c)>> \in Pairs(n) /\ <<Middle(c) + 1, c[2]>> \in Pairs(n)
    <3>1. c \in Pairs(n)
      OBVIOUS
    <3> HIDE DEF D, Finds, T
    <3> QED
      BY <2>6, <3>1, Narrowing
  <2>8. PICK m \in 0..(n - 1) : m = Middle(c)
    BY <2>7
  <2>9. Probe(key, m) \in Int /\ (m < s => ~(Probe(key, m) < 0)) /\ (m > s => ~(Probe(key, m) > 0))
    BY <2>8
  <2>10. CASE Probe(key, m) < 0
    <3> DEFINE low == <<c[1], m>>
    <3>1. s < m
      <4>1. m # s
        BY <2>10
      <4> QED
        BY <2>8, <2>9, <2>10, <4>1
    <3>2. low \in D /\ low[2] - low[1] < w
      <4>1. low \in Pairs(n) /\ low[1] = c[1] /\ low[2] = m
        BY <2>8, <2>7
      <4>2. c[1] <= s /\ c[2] - c[1] = w
        BY <2>3
      <4> HIDE DEF low
      <4> QED
        BY <2>8, <2>7, <3>1, <4>1, <4>2
    <3>3. f[c] = f[low]
      BY <2>5, <2>8, <2>10, <2>6 DEF Narrows
    <3> HIDE DEF low
    <3> QED
      BY <2>3, <2>4, <3>2, <3>3
  <2>11. CASE Probe(key, m) > 0
    <3> DEFINE high == <<m + 1, c[2]>>
    <3>1. m < s
      <4>1. m # s
        BY <2>11
      <4> QED
        BY <2>8, <2>9, <2>11, <4>1
    <3>2. high \in D /\ high[2] - high[1] < w
      <4>1. high \in Pairs(n) /\ high[1] = m + 1 /\ high[2] = c[2]
        BY <2>8, <2>7
      <4>2. s < c[2] /\ c[2] - c[1] = w
        BY <2>3
      <4> HIDE DEF high
      <4> QED
        BY <2>8, <2>7, <3>1, <4>1, <4>2
    <3>3. f[c] = f[high]
      BY <2>5, <2>8, <2>9, <2>11, <2>6 DEF Narrows
    <3> HIDE DEF high
    <3> QED
      BY <2>3, <2>4, <3>2, <3>3
  <2>12. CASE Probe(key, m) = 0
    <3>1. f[c] = m
      BY <2>5, <2>8, <2>12, <2>6 DEF Narrows
    <3> QED
      BY <2>3, <2>8, <2>12, <3>1
  <2> QED
    BY <2>9, <2>10, <2>11, <2>12
<1>3. b \in D /\ b[2] - b[1] \in 0..n
  BY <1>1
<1> QED
  BY <1>2, <1>3

\* A table that is sorted, and has all names, is searched right.
LEMMA NameSearched ==
    ASSUME TableInv, Unshadowed
    PROVE  LookupFinds
<1> SUFFICES ASSUME Complete, NEW e \in given
             PROVE  LET key == Unversioned(e.name)  i == cexpSymTblLookup(key) IN
                    i \in 0..(nentries - 1) /\ Unversioned(syms[i].name) = key
  BY DEF LookupFinds
<1>1. PICK n \in Nat : n = nentries /\ n <= MaxSyms
  BY MaxSymsOK DEF TableInv, WellFormed, TypeOK
<1>2. \A i \in 0..(n - 1) : syms[i] \in given /\ syms[i].name \in Names
  <2>1. OnlyRedundantDropped
    BY LeftComplete
  <2>2. given \subseteq Entry
    BY DEF TableInv, GivenLeft
  <2>3. \A i \in 0..(n - 1) : syms[i] \in given
    BY <1>1, <2>1 DEF OnlyRedundantDropped
  <2> QED
    BY <2>2, <2>3 DEF Entry
<1>3. \A x \in Names : x \in Name
  BY NamesOK DEF Name
<1>4. PICK key : key = Unversioned(e.name)
  OBVIOUS
<1>5. PICK s \in 0..(n - 1) : Unversioned(syms[s].name) = key
  <2>1. OnlyRedundantDropped
    BY LeftComplete
  <2> QED
    BY <1>1, <1>4, <2>1 DEF OnlyRedundantDropped
<1>6. Bare(key) /\ Match(key, syms[s].name)
  BY <1>2, <1>3, <1>5, BareMatches
<1>7. key \in Name
  BY <1>6 DEF Bare
<1>8. \A i \in 0..(n - 1) : Probe(key, i) \in Int
  BY <1>2, <1>3, <1>7, ComparedType DEF Probe
<1>9. Probe(key, s) = 0
  BY <1>2, <1>3, <1>6, <1>7, MatchIs DEF Probe
<1>10. ASSUME NEW i \in 0..(n - 1)
       PROVE  /\ i < s => ~(Probe(key, i) < 0)
              /\ i > s => ~(Probe(key, i) > 0)
  <2>1. ASSUME i < s
        PROVE  ~(Probe(key, i) < 0)
    <3>1. Follows(syms[s].name, syms[i].name)
      BY <1>1, <2>1, TableFollows
    <3> QED
      BY <1>2, <1>6, <3>1, NothingAboveInFront DEF Probe
  <2>2. ASSUME i > s
        PROVE  ~(Probe(key, i) > 0)
    <3>1. Follows(syms[i].name, syms[s].name)
      <4>1. s < i
        BY <2>2
      <4> QED
        BY <1>1, <4>1, TableFollows
    <3> QED
      BY <1>2, <1>3, <1>6, <3>1, NothingBelowBehind DEF Probe
  <2> QED
    BY <2>1, <2>2
<1> DEFINE f == CHOOSE f : f = [b \in Pairs(n) |-> Narrows(key, f, b)]
           all == <<0, n>>
<1>11. f = [b \in Pairs(n) |-> Narrows(key, f, b)]
  BY BsearchDefined
<1>12. cexpSymTblLookup(key) = f[all]
  BY <1>1, BsearchIs DEF cexpSymTblLookup
<1>13. all \in Pairs(n) /\ all[1] <= s /\ s < all[2]
  BY DEF Pairs
<1> HIDE DEF f, all
<1>14. f[all] \in 0..(n - 1) /\ Probe(key, f[all]) = 0
  BY <1>8, <1>9, <1>10, <1>11, <1>13, BsearchFinds
<1>15. Unversioned(syms[f[all]].name) = key
  BY <1>2, <1>3, <1>6, <1>14, MatchNames DEF Probe
<1> QED
  BY <1>1, <1>4, <1>12, <1>14, <1>15

\* Whatever symbols the object file has, a name that one of them has up to a
\* version is found by bsearch, in tables of any size, and what is found has that
\* name.  It is the comparison, another than the one the table is sorted by when
\* versions are left out, that needs names to be Unshadowed.
THEOREM NamesFound ==
    ASSUME LastUnique, Unshadowed
    PROVE  Spec => []LookupFinds
BY NameSearched, TableInvariant, PTL

-----------------------------------------------------------------------------
(* Places in the list *)

\* The places that a walk over the tables meets.
Spots == UNION {{k} \X (0..(mods[k].last - 1)) : k \in DOMAIN mods}

LEMMA ModulesType ==
    ASSUME ModulesKept
    PROVE  /\ Len(mods) \in Nat /\ DOMAIN mods = 1..Len(mods)
           /\ loads \in Nat /\ loads <= MaxLoads /\ MaxLoads \in Nat
           /\ \A i \in DOMAIN mods : /\ mods[i].last \in 1..MaxSyms /\ mods[i].last \in Nat /\ mods[i].last > 0
                                     /\ mods[i].n \in 1..MaxSyms /\ mods[i].n \in Nat /\ mods[i].n > 0
                                     /\ mods[i].born \in 1..loads /\ mods[i].at \in Heap
           /\ \A i, j \in DOMAIN mods :
                i # j => mods[i].at # mods[j].at /\ mods[i].born # mods[j].born
<1>1. Len(mods) \in Nat /\ DOMAIN mods = 1..Len(mods) /\ \A i \in DOMAIN mods : mods[i] \in LoadedModule
  BY DEF ModulesKept
<1>2. loads \in Nat /\ loads <= MaxLoads /\ MaxLoads \in Nat
  BY LookupOK DEF ModulesKept
<1>3. \A i \in DOMAIN mods : /\ mods[i].last \in 1..MaxSyms /\ mods[i].last \in Nat /\ mods[i].last > 0
                             /\ mods[i].n \in 1..MaxSyms /\ mods[i].n \in Nat /\ mods[i].n > 0
                             /\ mods[i].born \in 1..loads /\ mods[i].at \in Heap
  <2>1. \A m \in LoadedModule : /\ m.last \in 1..MaxSyms /\ m.n \in 1..MaxSyms
                                /\ m.born \in 1..MaxLoads /\ m.at \in Heap
    BY DEF LoadedModule
  <2> QED
    BY <1>1, <1>2, <2>1, MaxSymsOK, LookupOK DEF ModulesKept
<1>4. ASSUME NEW i \in DOMAIN mods, NEW j \in DOMAIN mods, i # j
      PROVE  mods[i].at # mods[j].at /\ mods[i].born # mods[j].born
  <2>1. i < j \/ j < i
    BY <1>1, <1>4
  <2>2. mods[i].born \in Nat /\ mods[j].born \in Nat
    BY <1>3, <1>2
  <2> QED
    BY <2>1, <2>2 DEF ModulesKept
<1> QED
  BY <1>1, <1>2, <1>3, <1>4

\* The place of a record is the one it was taken from.
LEMMA PlaceUnique ==
    ASSUME ModulesKept, NEW i \in DOMAIN mods
    PROVE  PlaceOf(mods[i].at) = i
BY ModulesType DEF PlaceOf

LEMMA SpotsType ==
    ASSUME ModulesKept, NEW x
    PROVE  x \in Spots <=>
             x = <<x[1], x[2]>> /\ x[1] \in DOMAIN mods /\ x[2] \in 0..(mods[x[1]].last - 1)
BY DEF Spots

LEMMA BeforeOrder ==
    ASSUME ModulesKept, NEW x \in Spots, NEW y \in Spots, NEW z \in Spots
    PROVE  /\ Before(x, x)
           /\ Before(x, y) \/ Before(y, x)
           /\ Before(x, y) /\ Before(y, x) => x = y
           /\ Before(x, y) /\ Before(y, z) => Before(x, z)
<1>1. /\ x = <<x[1], x[2]>> /\ x[1] \in Int /\ x[2] \in Int
      /\ y = <<y[1], y[2]>> /\ y[1] \in Int /\ y[2] \in Int
      /\ z = <<z[1], z[2]>> /\ z[1] \in Int /\ z[2] \in Int
  <2>1. \A i \in DOMAIN mods : mods[i].last \in Nat /\ i \in Int
    BY ModulesType
  <2> QED
    BY <2>1, SpotsType
<1> QED
  BY <1>1 DEF Before

\* Some of the places have a first and a last.
LEMMA FirstPlace ==
    ASSUME ModulesKept, NEW P \in SUBSET Spots, P # {}
    PROVE  \E x \in P : \A y \in P : Before(x, y)
<1>0. Len(mods) \in Nat /\ DOMAIN mods = 1..Len(mods) /\ \A i \in DOMAIN mods : mods[i].last \in Nat
  BY ModulesType
<1>1. \A x \in P : x = <<x[1], x[2]>> /\ x[1] \in DOMAIN mods /\ x[2] \in 0..(mods[x[1]].last - 1)
  BY SpotsType
<1> DEFINE ks == {x[1] : x \in P}
<1>2. PICK k \in ks : \A j \in ks : k <= j
  <2>1. ks \in SUBSET (0..Len(mods)) /\ ks # {}
    BY <1>0, <1>1
  <2> HIDE DEF ks
  <2> QED
    BY <1>0, <2>1, LeastNumber
<1> DEFINE is == {i \in 0..mods[k].last : <<k, i>> \in P}
<1>3. PICK i \in is : \A j \in is : i <= j
  <2>1. k \in DOMAIN mods /\ mods[k].last \in Nat
    BY <1>0, <1>1, <1>2
  <2>2. is \in SUBSET (0..mods[k].last) /\ is # {}
    <3>1. PICK x \in P : x[1] = k
      BY <1>2
    <3>2. x = <<k, x[2]>> /\ x[2] \in 0..mods[k].last
      BY <1>1, <2>1, <3>1
    <3> QED
      BY <3>2
  <2> HIDE DEF is
  <2> QED
    BY <2>1, <2>2, LeastNumber
<1>4. ASSUME NEW y \in P
      PROVE  Before(<<k, i>>, y)
  <2>1. y[1] \in ks /\ k <= y[1]
    BY <1>2
  <2>2. y[1] = k => y[2] \in is
    <3>1. y = <<y[1], y[2]>> /\ y[2] \in 0..(mods[y[1]].last - 1) /\ mods[y[1]].last \in Nat
      BY <1>0, <1>1
    <3> QED
      BY <3>1
  <2>3. y[1] \in Int /\ k \in Int
    BY <1>0, <1>1, <1>2
  <2> QED
    BY <1>3, <2>1, <2>2, <2>3 DEF Before
<1> QED
  BY <1>3, <1>4

LEMMA LastPlace ==
    ASSUME ModulesKept, NEW P \in SUBSET Spots, P # {}
    PROVE  \E x \in P : \A y \in P : Before(y, x)
<1>0. Len(mods) \in Nat /\ DOMAIN mods = 1..Len(mods) /\ \A i \in DOMAIN mods : mods[i].last \in Nat
  BY ModulesType
<1>1. \A x \in P : x = <<x[1], x[2]>> /\ x[1] \in DOMAIN mods /\ x[2] \in 0..(mods[x[1]].last - 1)
  BY SpotsType
<1> DEFINE ks == {x[1] : x \in P}
<1>2. PICK k \in ks : \A j \in ks : j <= k
  <2>1. ks \in SUBSET (0..Len(mods)) /\ ks # {}
    BY <1>0, <1>1
  <2> HIDE DEF ks
  <2> QED
    BY <1>0, <2>1, GreatestNumber
<1> DEFINE is == {i \in 0..mods[k].last : <<k, i>> \in P}
<1>3. PICK i \in is : \A j \in is : j <= i
  <2>1. k \in DOMAIN mods /\ mods[k].last \in Nat
    BY <1>0, <1>1, <1>2
  <2>2. is \in SUBSET (0..mods[k].last) /\ is # {}
    <3>1. PICK x \in P : x[1] = k
      BY <1>2
    <3>2. x = <<k, x[2]>> /\ x[2] \in 0..mods[k].last
      BY <1>1, <2>1, <3>1
    <3> QED
      BY <3>2
  <2> HIDE DEF is
  <2> QED
    BY <2>1, <2>2, GreatestNumber
<1>4. ASSUME NEW y \in P
      PROVE  Before(y, <<k, i>>)
  <2>1. y[1] \in ks /\ y[1] <= k
    BY <1>2
  <2>2. y[1] = k => y[2] \in is
    <3>1. y = <<y[1], y[2]>> /\ y[2] \in 0..(mods[y[1]].last - 1) /\ mods[y[1]].last \in Nat
      BY <1>0, <1>1
    <3> QED
      BY <3>1
  <2>3. y[1] \in Int /\ k \in Int
    BY <1>0, <1>1, <1>2
  <2> QED
    BY <1>3, <2>1, <2>2, <2>3 DEF Before
<1> QED
  BY <1>3, <1>4

-----------------------------------------------------------------------------
(* Pages *)

\* A page is not left out of in the middle: it is all that was found up to the
\* last place printed.
LEMMA PageUpToLast ==
    ASSUME ModulesKept, NEW found \in SUBSET Spots, NEW lines,
           NEW last \in Page(found, lines), \A y \in Page(found, lines) : Before(y, last),
           NEW x \in found
    PROVE  x \in Page(found, lines) <=> Before(x, last)
<1> DEFINE page == Page(found, lines)
<1>1. ASSUME Before(x, last)
      PROVE  x \in page
  <2>1. ASSUME NEW y \in found, Before(y, x), y # x
        PROVE  LinesUpTo(found, y) < lines
    <3>1. last \in found
      BY DEF Page
    <3>2. Before(y, last) /\ y # last
      BY <1>1, <2>1, <3>1, BeforeOrder
    <3> QED
      BY <3>2 DEF Page
  <2> QED
    BY <2>1 DEF Page
<1> QED
  BY <1>1

\* If there is a line left, all that was found is on it.
LEMMA PageWhole ==
    ASSUME ModulesKept, NEW found \in SUBSET Spots, NEW lines,
           \A x \in Page(found, lines) :
              (\A y \in Page(found, lines) : Before(y, x)) => ~(LinesUpTo(found, x) >= lines),
           \A x \in found : LinesUpTo(found, x) \in Int, lines \in Int
    PROVE  Page(found, lines) = found
<1> DEFINE page == Page(found, lines)
<1>1. page \subseteq found
  BY DEF Page
<1>2. ASSUME found \ page # {}
      PROVE  FALSE
  <2>1. PICK w \in found \ page : \A y \in found \ page : Before(w, y)
    <3>1. found \ page \in SUBSET Spots
      OBVIOUS
    <3> HIDE DEF page
    <3> QED
      BY <1>2, <3>1, FirstPlace
  <2>2. PICK y \in found : Before(y, w) /\ y # w /\ ~(LinesUpTo(found, y) < lines)
    BY DEF Page
  <2>3. y \in page
    BY <1>1, <2>1, <2>2, BeforeOrder
  <2>4. PICK last \in page : \A z \in page : Before(z, last)
    <3>1. page \in SUBSET Spots /\ page # {}
      BY <1>1, <2>3
    <3> HIDE DEF page
    <3> QED
      BY <3>1, LastPlace
  <2>5. CASE y = last
    BY <2>2, <2>4, <2>5
  <2>6. CASE y # last
    <3>1. LinesUpTo(found, y) < lines
      BY <2>3, <2>4, <2>6 DEF Page
    <3> QED
      BY <2>2, <3>1
  <2> QED
    BY <2>5, <2>6
<1> QED
  BY <1>1, <1>2

\* The number of lines is one.
LEMMA LinesType ==
    ASSUME ModulesKept, NEW found \in SUBSET Spots, NEW x
    PROVE  LinesUpTo(found, x) \in Nat
<1> DEFINE printed == {y \in found : Before(y, x)}
           ks == {y[1] : y \in printed}
<1>1. /\ Len(mods) \in Nat /\ DOMAIN mods = 1..Len(mods) /\ MaxSyms \in Nat
      /\ \A i \in DOMAIN mods : mods[i].last \in 1..MaxSyms
  BY ModulesType, MaxSymsOK
<1>2. IsFiniteSet(1..Len(mods)) /\ IsFiniteSet(0..MaxSyms)
  BY <1>1, FS_Interval
<1>3. printed \in SUBSET ((1..Len(mods)) \X (0..MaxSyms))
  BY <1>1, SpotsType
<1>4. ks \in SUBSET (1..Len(mods))
  BY <1>3
<1>5. IsFiniteSet(printed) /\ IsFiniteSet(ks)
  <2> HIDE DEF printed, ks
  <2> QED
    BY <1>2, <1>3, <1>4, FS_Product, FS_Subset
<1>6. Cardinality(printed) \in Nat /\ Cardinality(ks) \in Nat
  BY <1>5, FS_CardinalityType
<1> QED
  BY <1>6 DEF LinesUpTo

-----------------------------------------------------------------------------
(* The handle *)

\* What a search is for, and what its handle is behind.
Sought ==
    IF search.kind = "lkup"
      THEN UNION {{q} \X {i \in 0..(mods[q].last - 1) : mods[q].syms[i].name \in Matching} : q \in DOMAIN mods}
      ELSE (DOMAIN mods) \X {0}

Passed(x) ==
    \/ search.op = "done" \/ x[1] < PlaceOf(search.at)
    \/ x[1] = PlaceOf(search.at) /\ search.kind = "lkup" /\
         (x[2] < search.pos \/ (search.op = "held" /\ x[2] = search.pos))

\* The symbols of which SearchComplete speaks.
Speaks == search.op \in {"held", "entered", "done"} /\ search.exact /\ (search.op # "done" => Alive)

Reported == Speaks => \A x \in Sought : Passed(x) <=> <<mods[x[1]].born, x[2]>> \in search.seen

LEMMA CompleteMeans == SearchComplete <=> Reported
BY DEF SearchComplete, Reported, Speaks, Sought, Passed

LEMMA SoughtPlaces ==
    ASSUME ModulesKept
    PROVE  /\ Sought \subseteq Spots
           /\ search.kind = "lkup" => Sought = {x \in Spots : mods[x[1]].syms[x[2]].name \in Matching}
           /\ search.kind # "lkup" => \A x : x \in Sought <=> x \in Spots /\ x[2] = 0
<1>1. \A i \in DOMAIN mods : mods[i].last \in Nat /\ mods[i].last > 0
  BY ModulesType
<1>2. CASE search.kind = "lkup"
  <2>1. Sought = {x \in Spots : mods[x[1]].syms[x[2]].name \in Matching}
    BY <1>2 DEF Sought, Spots
  <2> QED
    BY <1>2, <2>1
<1>3. CASE search.kind # "lkup"
  <2>1. Sought = (DOMAIN mods) \X {0}
    BY <1>3 DEF Sought
  <2>2. \A x : x \in Sought <=> x \in Spots /\ x[2] = 0
    BY <1>1, <2>1, SpotsType
  <2> QED
    BY <1>3, <2>2
<1> QED
  BY <1>2, <1>3

\* The module of a valid handle.
LEMMA AlivePlace ==
    ASSUME ModulesKept, Alive
    PROVE  /\ PlaceOf(search.at) \in DOMAIN mods
           /\ mods[PlaceOf(search.at)].at = search.at
           /\ mods[PlaceOf(search.at)].born = search.born
<1>1. PICK i \in DOMAIN mods : mods[i].at = search.at /\ mods[i].born = search.born
  BY DEF Alive
<1> QED
  BY <1>1, PlaceUnique

Handles(n) ==
    [op : {"none", "entered", "held", "done", "refused", "walked", "fault"},
     kind : {"lkup", "list", None}, at : Heap \cup {None}, born : 0..n,
     pos : Nat, seen : SUBSET ((1..n) \X Nat), exact : BOOLEAN]

LEMMA HandleKeptMeans ==
    HandleKept <=> /\ search \in Handles(loads)
                   /\ search.op = "entered" => search.kind \in {"lkup", "list"}
                   /\ search.op = "held" => search.kind = "lkup"
                   /\ Ended => Unlocked
BY DEF HandleKept, Handles

\* Its fields have their sets; what is in them is all that the proofs use.
LEMMA HandleSets ==
    ASSUME NEW n \in Nat
    PROVE  \E O, K, A, B, S :
             /\ Handles(n) = [op : O, kind : K, at : A, born : B, pos : Nat, seen : S, exact : BOOLEAN]
             /\ "none" \in O /\ "entered" \in O /\ "held" \in O /\ "done" \in O /\ "refused" \in O
             /\ "walked" \in O /\ "fault" \in O
             /\ "lkup" \in K /\ "list" \in K /\ None \in K
             /\ None \in A /\ \A a \in Heap : a \in A
             /\ 0 \in B /\ \A b \in 1..n : b \in B
             /\ {} \in S /\ \A s \in S, q \in SUBSET ((1..n) \X Nat) : s \cup q \in S
<1> DEFINE O == {"none", "entered", "held", "done", "refused", "walked", "fault"}
           K == {"lkup", "list", None}
           A == Heap \cup {None}
           B == 0..n
           S == SUBSET ((1..n) \X Nat)
<1>1. Handles(n) = [op : O, kind : K, at : A, born : B, pos : Nat, seen : S, exact : BOOLEAN]
  BY DEF Handles
<1>2. /\ "none" \in O /\ "entered" \in O /\ "held" \in O /\ "done" \in O /\ "refused" \in O
      /\ "walked" \in O /\ "fault" \in O
      /\ "lkup" \in K /\ "list" \in K /\ None \in K
      /\ None \in A /\ \A a \in Heap : a \in A
      /\ 0 \in B /\ \A b \in 1..n : b \in B
      /\ {} \in S /\ \A s \in S, q \in SUBSET ((1..n) \X Nat) : s \cup q \in S
  OBVIOUS
<1> HIDE DEF O, K, A, B, S
<1> QED
  BY <1>1, <1>2

LEMMA NoSearchType ==
    ASSUME NEW n \in Nat
    PROVE  /\ NoSearch \in Handles(n) /\ NoSearch.op = "none" /\ NoSearch.pos = 0
           /\ NoSearch.seen = {} /\ NoSearch.exact = TRUE
<1>1. PICK O, K, A, B, S :
             /\ Handles(n) = [op : O, kind : K, at : A, born : B, pos : Nat, seen : S, exact : BOOLEAN]
             /\ "none" \in O /\ None \in K /\ None \in A /\ 0 \in B /\ {} \in S
  BY HandleSets
<1>2. NoSearch \in [op : O, kind : K, at : A, born : B, pos : Nat, seen : S, exact : BOOLEAN]
  BY <1>1 DEF NoSearch
<1> QED
  BY <1>1, <1>2 DEF NoSearch

LEMMA HandleType ==
    ASSUME HandleKept, loads \in Nat
    PROVE  /\ search.pos \in Nat /\ search.born \in 0..loads /\ search.exact \in BOOLEAN
           /\ \A s \in search.seen : s = <<s[1], s[2]>> /\ s[1] \in 1..loads /\ s[2] \in Nat
BY DEF HandleKept

-----------------------------------------------------------------------------
(* Tables and modules *)

\* A step in the construction of a table.
\* The index of a module is in the order of addresses.
Ascends(m) == \A i \in 0..(m.n - 2) : m.syms[m.aindex[i]].ptv <= m.syms[m.aindex[i + 1]].ptv

LEMMA AscendMeans == IndicesAscend <=> \A k \in DOMAIN mods : Ascends(mods[k])
BY DEF IndicesAscend, Ascends, gaddr

LEMMA AscendStays ==
    ASSUME IndicesAscend, mods' = mods
    PROVE  IndicesAscend'
BY DEF IndicesAscend, gaddr

LEMMA BuildKeeps ==
    ASSUME LastUnique, IInv, Build
    PROVE  IInv'
<1>1. TableInv'
  BY TableStep DEF IInv, Build
<1>2. mods' = mods /\ search' = search /\ loads' = loads /\ ~Ended
  BY DEF Build, lookupVars
<1>3. ModulesKept' /\ HandleKept'
  BY <1>2 DEF IInv, ModulesKept, HandleKept, Ended, Build
<1>4. SearchComplete' /\ StaleRefused'
  BY <1>2 DEF IInv, SearchComplete, StaleRefused, Alive, PlaceOf, InList
<1>5. IndicesAscend' /\ TailsRepeat'
  BY <1>2, AscendStays DEF IInv, TailsRepeat
<1> QED
  BY <1>1, <1>3, <1>4, <1>5 DEF IInv

\* A walk over a complete table to a null name meets entries of the object file
\* only, and all that are in the table.
LEMMA WalkEnds ==
    ASSUME TableInv, Complete
    PROVE  /\ Walked \in nentries..MaxSyms /\ MaxSyms \in Nat /\ nentries \in 0..MaxSyms
           /\ \A i \in 0..(Walked - 1) : syms[i] \in given
<1>1. PICK e \in nentries..MaxSyms : NullFrom(e) /\ \A i \in 0..(e - 1) : syms[i] \in given
  BY DEF TableInv, TailKept
<1>2. MaxSyms \in Nat /\ nentries \in 0..MaxSyms /\ e \in 0..MaxSyms
  BY MaxSymsOK DEF TableInv, WellFormed, TypeOK
<1>3. \A i \in 0..(e - 1) : syms[i].name # <<>>
  <2>1. \A s \in given : s.name \in Names
    BY DEF TableInv, GivenLeft, Entry
  <2> QED
    BY <1>1, <2>1, NamesOK
<1>4. syms[e].name = <<>>
  BY <1>1, <1>2 DEF NullFrom
<1>5. \A i \in 0..MaxSyms : syms[i].name = <<>> /\ (\A j \in 0..(i - 1) : syms[j].name # <<>>) <=> i = e
  <2>1. ASSUME NEW i \in 0..MaxSyms, syms[i].name = <<>>, \A j \in 0..(i - 1) : syms[j].name # <<>>
        PROVE  i = e
    <3>1. ~(e < i)
      BY <1>2, <1>4, <2>1
    <3>2. ~(i < e)
      BY <1>2, <1>3, <2>1
    <3> QED
      BY <1>2, <3>1, <3>2
  <2> QED
    BY <1>2, <1>3, <1>4, <2>1
<1>6. Walked = e
  BY <1>2, <1>5 DEF Walked
<1> QED
  BY <1>1, <1>2, <1>6

\* What is behind the symbols of a module has a name of theirs.
Repeats(m) ==
    \A i \in m.n..(m.last - 1) : \E j \in 0..(m.n - 1) :
        Unversioned(m.syms[j].name) = Unversioned(m.syms[i].name)

LEMMA RepeatsMeans == TailsRepeat <=> \A k \in DOMAIN mods : Repeats(mods[k])
BY DEF TailsRepeat, Repeats

\* The table of a module that is loaded.
LEMMA CompleteTable ==
    ASSUME TableInv, pc = "indexed", nentries > 0, ModulesKept, loads < MaxLoads,
           NEW a \in Heap, NEW c \in SUBSET Addresses, NEW m,
           m = [at |-> a, born |-> loads + 1, n |-> nentries, last |-> Walked,
                syms |-> [i \in 0..(Walked - 1) |-> syms[i]], aindex |-> aindex, chunk |-> c]
    PROVE  /\ m \in LoadedModule /\ m.at = a /\ m.born = loads + 1 /\ m.chunk = c
           /\ m.n <= m.last /\ DOMAIN m.syms = 0..(m.last - 1) /\ m.aindex \in Permuted(m.n)
           /\ Ascends(m) /\ Repeats(m)
<1>0. /\ Walked \in nentries..MaxSyms /\ MaxSyms \in Nat /\ nentries \in 0..MaxSyms
      /\ \A i \in 0..(Walked - 1) : syms[i] \in given
  BY WalkEnds DEF Complete
<1>1. /\ nentries \in 1..MaxSyms /\ MaxSyms \in Nat /\ Walked \in 1..MaxSyms /\ nentries <= Walked
      /\ 0..(nentries - 1) \subseteq 0..(Walked - 1)
  BY <1>0
<1>2. [i \in 0..(Walked - 1) |-> syms[i]] \in [0..(Walked - 1) -> Entry]
  <2>1. \A i \in 0..(Walked - 1) : syms[i] \in Entry
    BY <1>0 DEF TableInv, GivenLeft
  <2> QED
    BY <2>1
<1>3. aindex \in Permuted(nentries)
  BY DEF TableInv, AddressesAscend
<1> DEFINE S == UNION {[0..(n - 1) -> Entry] : n \in 1..MaxSyms}
           A == UNION {Permuted(n) : n \in 1..MaxSyms}
<1>4. [i \in 0..(Walked - 1) |-> syms[i]] \in S /\ aindex \in A
  <2>1. [0..(Walked - 1) -> Entry] \in {[0..(n - 1) -> Entry] : n \in 1..MaxSyms}
    BY <1>1
  <2> QED
    BY <1>1, <1>2, <1>3, <2>1
<1>5. loads + 1 \in 1..MaxLoads
  BY ModulesType, LookupOK
<1>6. m \in LoadedModule
  <2>1. LoadedModule = [at : Heap, born : 1..MaxLoads, n : 1..MaxSyms, last : 1..MaxSyms, syms : S,
                        aindex : A, chunk : SUBSET Addresses]
    BY DEF LoadedModule
  <2> HIDE DEF S, A
  <2> QED
    BY <1>1, <1>4, <1>5, <2>1
<1>7. Ascends(m)
  <2>1. aindex \in [0..(nentries - 1) -> 0..(nentries - 1)]
    BY <1>3 DEF Permuted
  <2>2. ASSUME NEW i \in 0..(nentries - 2)
        PROVE  m.syms[m.aindex[i]].ptv <= m.syms[m.aindex[i + 1]].ptv
    <3>1. i \in 0..(nentries - 1) /\ i + 1 \in 0..(nentries - 1)
      BY <1>1
    <3>2. aindex[i] \in 0..(nentries - 1) /\ aindex[i + 1] \in 0..(nentries - 1)
      BY <2>1, <3>1
    <3>3. m.syms[m.aindex[i]] = syms[aindex[i]] /\ m.syms[m.aindex[i + 1]] = syms[aindex[i + 1]]
      BY <1>1, <3>2
    <3>4. syms[aindex[i]].ptv <= syms[aindex[i + 1]].ptv
      BY DEF TableInv, AddressesAscend
    <3> QED
      BY <3>3, <3>4
  <2> QED
    BY <2>2 DEF Ascends
<1>8. Repeats(m)
  <2>1. ASSUME NEW i \in nentries..(Walked - 1)
        PROVE  \E j \in 0..(nentries - 1) : Unversioned(m.syms[j].name) = Unversioned(m.syms[i].name)
    <3>1. i \in 0..(Walked - 1) /\ m.syms[i] = syms[i] /\ syms[i] \in given
      BY <1>0, <1>1
    <3>2. Left = 0..(nentries - 1)
      BY DEF Left, Dropping
    <3>3. PICK j \in 0..(nentries - 1) : Unversioned(syms[j].name) = Unversioned(syms[i].name)
      BY <3>1, <3>2 DEF TableInv, GivenLeft
    <3>4. m.syms[j] = syms[j]
      BY <1>1
    <3> QED
      BY <3>1, <3>3, <3>4
  <2> QED
    BY <2>1 DEF Repeats
<1> QED
  BY <1>1, <1>3, <1>6, <1>7, <1>8

\* What the proofs of single steps use of the list, before a step and after it.
ListFacts ==
    /\ Len(mods) \in Nat /\ DOMAIN mods = 1..Len(mods)
    /\ \A i \in DOMAIN mods : /\ mods[i].last \in Nat /\ mods[i].last > 0
                              /\ mods[i].born \in 1..loads /\ PlaceOf(mods[i].at) = i
    /\ \A i, j \in DOMAIN mods : i # j => mods[i].at # mods[j].at /\ mods[i].born # mods[j].born
    /\ Alive => LET k == PlaceOf(search.at) IN
         k \in DOMAIN mods /\ mods[k].at = search.at /\ mods[k].born = search.born
    /\ \A x : x \in Sought <=>
         /\ x = <<x[1], x[2]>> /\ x[1] \in DOMAIN mods /\ x[2] \in 0..(mods[x[1]].last - 1)
         /\ IF search.kind = "lkup" THEN mods[x[1]].syms[x[2]].name \in Matching ELSE x[2] = 0

LEMMA ListKept == ModulesKept => ListFacts
<1> SUFFICES ASSUME ModulesKept
             PROVE  ListFacts
  OBVIOUS
<1>1. \A x : x \in Sought <=>
         /\ x = <<x[1], x[2]>> /\ x[1] \in DOMAIN mods /\ x[2] \in 0..(mods[x[1]].last - 1)
         /\ IF search.kind = "lkup" THEN mods[x[1]].syms[x[2]].name \in Matching ELSE x[2] = 0
  <2>1. \A x : x \in Spots <=>
           x = <<x[1], x[2]>> /\ x[1] \in DOMAIN mods /\ x[2] \in 0..(mods[x[1]].last - 1)
    BY SpotsType
  <2> QED
    BY <2>1, SoughtPlaces
<1>2. \A i \in DOMAIN mods : PlaceOf(mods[i].at) = i
  BY PlaceUnique
<1> QED
  BY <1>1, <1>2, ModulesType, AlivePlace DEF ListFacts

LEMMA InitTable == Init => TableInv
BY EmptyTable DEF Init

\* A module is chained to the list.
LEMMA LoadKeeps ==
    ASSUME IInv, Load
    PROVE  IInv'
<1>1. /\ pc = "indexed" /\ nentries > 0 /\ loads' = loads + 1 /\ search' = search
      /\ ~Unlocked /\ loads < MaxLoads /\ ~Ended
      /\ ModulesKept /\ TableInv /\ HandleKept
  BY DEF Load, Unlocked, IInv, ModulesKept, HandleKept
<1>2. PICK a \in Heap \ {mods[i].at : i \in DOMAIN mods}, c \in FreeChunks :
         mods' = Append(mods, [at |-> a, born |-> loads + 1, n |-> nentries, last |-> Walked,
                               syms |-> [i \in 0..(Walked - 1) |-> syms[i]], aindex |-> aindex,
                               chunk |-> c])
  BY DEF Load
<1>3. c \in SUBSET Addresses /\ \A i \in DOMAIN mods : c \cap mods[i].chunk = {}
  BY LookupOK DEF FreeChunks
<1>4. PICK m \in LoadedModule :
         /\ mods' = Append(mods, m) /\ m.at = a /\ m.born = loads + 1 /\ m.chunk = c
         /\ m.n <= m.last /\ DOMAIN m.syms = 0..(m.last - 1) /\ m.aindex \in Permuted(m.n)
         /\ Ascends(m) /\ Repeats(m)
  <2> DEFINE m == [at |-> a, born |-> loads + 1, n |-> nentries, last |-> Walked,
                   syms |-> [i \in 0..(Walked - 1) |-> syms[i]], aindex |-> aindex, chunk |-> c]
  <2>1. /\ m \in LoadedModule /\ m.at = a /\ m.born = loads + 1 /\ m.chunk = c
        /\ m.n <= m.last /\ DOMAIN m.syms = 0..(m.last - 1) /\ m.aindex \in Permuted(m.n)
        /\ Ascends(m) /\ Repeats(m)
    <3>1. \A q : q = m => /\ q \in LoadedModule /\ q.at = a /\ q.born = loads + 1 /\ q.chunk = c
                         /\ q.n <= q.last /\ DOMAIN q.syms = 0..(q.last - 1)
                         /\ q.aindex \in Permuted(q.n) /\ Ascends(q) /\ Repeats(q)
      BY <1>1, <1>3, CompleteTable
    <3> HIDE DEF m
    <3> QED
      BY <3>1
  <2>2. mods' = Append(mods, m)
    BY <1>2
  <2> HIDE DEF m
  <2> QED
    BY <2>1, <2>2
<1>5. ListFacts /\ Len(mods) \in Nat /\ DOMAIN mods = 1..Len(mods) /\ loads \in Nat
  BY <1>1, ListKept, ModulesType
<1>6. /\ mods' \in Seq(LoadedModule) /\ Len(mods') = Len(mods) + 1
      /\ DOMAIN mods' = 1..(Len(mods) + 1)
      /\ \A i \in DOMAIN mods : mods'[i] = mods[i] /\ i \in DOMAIN mods'
      /\ mods'[Len(mods) + 1] = m
  BY <1>1, <1>4, <1>5 DEF ModulesKept
<1>7. TableInv'
  <2>1. Addresses # {}
    <3>1. syms \in [0..MaxSyms -> Row] /\ 0 \in 0..MaxSyms
      BY <1>1, MaxSymsOK DEF TableInv, WellFormed, TypeOK, Row
    <3>2. syms[0] \in Row
      BY <3>1
    <3> QED
      BY <3>2 DEF Row
  <2>2. Init'
    BY <2>1 DEF Load, Init
  <2> QED
    BY <2>2, InitTable, PTL
<1>8. ModulesKept'
  <2>1. loads' \in 0..MaxLoads /\ Unlocked'
    BY <1>1, <1>5, LookupOK DEF Load, Unlocked
  <2>2. ASSUME NEW i \in DOMAIN mods'
        PROVE  /\ mods'[i].born <= loads' /\ mods'[i].n <= mods'[i].last
               /\ DOMAIN mods'[i].syms = 0..(mods'[i].last - 1)
               /\ mods'[i].aindex \in Permuted(mods'[i].n)
    <3>1. CASE i = Len(mods) + 1
      BY <1>1, <1>4, <1>5, <1>6, <3>1
    <3>2. CASE i # Len(mods) + 1
      <4>1. i \in DOMAIN mods /\ mods'[i] = mods[i]
        BY <1>5, <1>6, <3>2
      <4>2. mods[i].born \in 1..loads
        BY <1>5, <4>1 DEF ListFacts
      <4> QED
        BY <1>1, <1>5, <4>1, <4>2 DEF ModulesKept
    <3> QED
      BY <3>1, <3>2
  <2>3. ASSUME NEW i \in DOMAIN mods', NEW j \in DOMAIN mods', i < j
        PROVE  /\ mods'[i].born < mods'[j].born /\ mods'[i].at # mods'[j].at
               /\ mods'[i].chunk \cap mods'[j].chunk = {}
    <3>1. i \in DOMAIN mods /\ mods'[i] = mods[i] /\ mods[i].born \in 1..loads
      BY <1>5, <1>6, <2>3 DEF ListFacts
    <3>2. CASE j = Len(mods) + 1
      BY <1>2, <1>3, <1>4, <1>5, <1>6, <3>1, <3>2
    <3>3. CASE j # Len(mods) + 1
      <4>1. j \in DOMAIN mods /\ mods'[j] = mods[j]
        BY <1>5, <1>6, <3>3
      <4> QED
        BY <1>1, <2>3, <3>1, <4>1 DEF ModulesKept
    <3> QED
      BY <3>2, <3>3
  <2> QED
    BY <1>6, <2>1, <2>2, <2>3 DEF ModulesKept, LoadedModule, Entry, Permuted
<1>9. HandleKept'
  BY <1>1, <1>5 DEF HandleKept, Ended
<1>10. StaleRefused'
  BY <1>1 DEF StaleRefused, Ended
<1>11. SearchComplete'
  <2>1. ListFacts'
    BY <1>8, ListKept, PTL
  <2>2. ASSUME Speaks', NEW x \in Sought'
        PROVE  Passed(x)' <=> <<mods'[x[1]].born, x[2]>> \in search'.seen
    <3>1. search.op \in {"entered", "held"} /\ search.exact /\ Alive' /\ search.born \in 0..loads
      BY <1>1, <1>5, <2>2, HandleType DEF Speaks, Ended
    <3>2. Alive
      <4>1. PICK i \in DOMAIN mods' : mods'[i].at = search.at /\ mods'[i].born = search.born
        BY <1>1, <3>1 DEF Alive
      <4>2. i # Len(mods) + 1
        BY <1>4, <1>5, <1>6, <3>1, <4>1
      <4>3. i \in DOMAIN mods /\ mods'[i] = mods[i]
        BY <1>5, <1>6, <4>1, <4>2
      <4> QED
        BY <4>1, <4>3 DEF Alive
    <3> DEFINE k == PlaceOf(search.at)
    <3>3. /\ k \in DOMAIN mods /\ mods[k].at = search.at /\ mods[k].born = search.born
      BY <1>5, <3>2 DEF ListFacts
    <3>4. PlaceOf(search.at)' = k
      <4>1. k \in DOMAIN mods' /\ mods'[k].at = search.at
        BY <1>6, <3>3
      <4> HIDE DEF k
      <4> QED
        BY <1>1, <2>1, <4>1 DEF ListFacts
    <3>5. x = <<x[1], x[2]>> /\ x[1] \in DOMAIN mods'
      BY <2>1, <2>2 DEF ListFacts
    <3>6. CASE x[1] = Len(mods) + 1
      <4>1. ~Passed(x)'
        BY <1>1, <1>5, <3>1, <3>3, <3>4, <3>6 DEF Passed
      <4>2. mods'[x[1]].born = loads + 1
        BY <1>4, <1>6, <3>6
      <4>3. \A s \in search.seen : s[1] \in 1..loads
        BY <1>1, <1>5, HandleType
      <4> QED
        BY <1>1, <1>5, <4>1, <4>2, <4>3
    <3>7. CASE x[1] # Len(mods) + 1
      <4>1. x[1] \in DOMAIN mods /\ mods'[x[1]] = mods[x[1]]
        BY <1>5, <1>6, <3>5, <3>7
      <4>2. x \in Sought
        BY <1>1, <1>5, <2>1, <2>2, <4>1 DEF ListFacts
      <4>3. Passed(x)' <=> Passed(x)
        BY <1>1, <3>4 DEF Passed
      <4>4. Passed(x) <=> <<mods[x[1]].born, x[2]>> \in search.seen
        BY <3>1, <3>2, <4>2, CompleteMeans DEF IInv, Reported, Speaks
      <4> QED
        BY <1>1, <4>1, <4>3, <4>4
    <3> QED
      BY <3>6, <3>7
  <2>3. Reported'
    BY <2>2 DEF Reported
  <2> QED
    BY <2>3, CompleteMeans, PTL
<1>12. IndicesAscend'
  <2>1. ASSUME NEW k \in DOMAIN mods'
        PROVE  Ascends(mods'[k])
    <3>1. CASE k = Len(mods) + 1
      BY <1>4, <1>6, <3>1
    <3>2. CASE k # Len(mods) + 1
      <4>1. k \in DOMAIN mods /\ mods'[k] = mods[k]
        BY <1>5, <1>6, <3>2
      <4> QED
        BY <4>1, AscendMeans DEF IInv
    <3> QED
      BY <3>1, <3>2
  <2>2. (\A k \in DOMAIN mods : Ascends(mods[k]))'
    BY <2>1 DEF Ascends
  <2> QED
    BY <2>2, AscendMeans, PTL
<1>13. TailsRepeat'
  <2>1. ASSUME NEW k \in DOMAIN mods'
        PROVE  Repeats(mods'[k])
    <3>1. CASE k = Len(mods) + 1
      BY <1>4, <1>6, <3>1
    <3>2. CASE k # Len(mods) + 1
      <4>1. k \in DOMAIN mods /\ mods'[k] = mods[k]
        BY <1>5, <1>6, <3>2
      <4> QED
        BY <4>1, RepeatsMeans DEF IInv
    <3> QED
      BY <3>1, <3>2
  <2>2. (\A k \in DOMAIN mods : Repeats(mods[k]))'
    BY <2>1 DEF Repeats
  <2> QED
    BY <2>2, RepeatsMeans, PTL
<1> QED
  BY <1>7, <1>8, <1>9, <1>10, <1>11, <1>12, <1>13 DEF IInv

LEMMA Removed ==
    ASSUME NEW S, NEW s \in Seq(S), NEW i \in 1..Len(s)
    PROVE  /\ RemoveAt(s, i) \in Seq(S) /\ Len(RemoveAt(s, i)) = Len(s) - 1
           /\ \A j \in 1..(Len(s) - 1) : RemoveAt(s, i)[j] = s[IF j < i THEN j ELSE j + 1]
<1> DEFINE low == SubSeq(s, 1, i - 1)
           high == SubSeq(s, i + 1, Len(s))
<1>1. Len(s) \in Nat
  OBVIOUS
<1>2. low \in Seq(S) /\ Len(low) = i - 1 /\ \A j \in 1..(i - 1) : low[j] = s[j]
  BY <1>1
<1>3. high \in Seq(S) /\ Len(high) = Len(s) - i /\ \A j \in 1..(Len(s) - i) : high[j] = s[i + j]
  BY <1>1
<1>4. RemoveAt(s, i) = low \o high
  BY DEF RemoveAt
<1> HIDE DEF low, high
<1>5. /\ low \o high \in Seq(S) /\ Len(low \o high) = Len(s) - 1
      /\ \A j \in 1..(Len(s) - 1) :
            (low \o high)[j] = IF j < i THEN low[j] ELSE high[j - (i - 1)]
  <2>1. /\ low \o high \in Seq(S) /\ Len(low \o high) = Len(low) + Len(high)
        /\ \A j \in 1..(Len(low) + Len(high)) :
              (low \o high)[j] = IF j <= Len(low) THEN low[j] ELSE high[j - Len(low)]
    BY <1>2, <1>3, ConcatProperties
  <2>2. Len(low) + Len(high) = Len(s) - 1 /\ \A j \in Int : j <= Len(low) <=> j < i
    BY <1>1, <1>2, <1>3
  <2> QED
    BY <1>2, <2>1, <2>2
<1>6. ASSUME NEW j \in 1..(Len(s) - 1)
      PROVE  (low \o high)[j] = s[IF j < i THEN j ELSE j + 1]
  <2>1. CASE j < i
    BY <1>1, <1>2, <1>5, <2>1
  <2>2. CASE ~(j < i)
    <3>1. j - (i - 1) \in 1..(Len(s) - i) /\ i + (j - (i - 1)) = j + 1
      BY <1>1, <2>2
    <3> QED
      BY <1>3, <1>5, <2>2, <3>1
  <2> QED
    BY <2>1, <2>2
<1> QED
  BY <1>4, <1>5, <1>6

\* A module is taken out of the list.
LEMMA UnloadKeeps ==
    ASSUME IInv, NEW i \in DOMAIN mods, Unload(i)
    PROVE  IInv'
<1>1. /\ search' = search /\ loads' = loads /\ vars' = vars /\ ~Ended /\ Unlocked
      /\ ModulesKept /\ TableInv /\ HandleKept /\ mods' = RemoveAt(mods, i)
  BY DEF Unload, IInv
<1>2. ListFacts /\ Len(mods) \in Nat /\ DOMAIN mods = 1..Len(mods) /\ loads \in Nat
  BY <1>1, ListKept, ModulesType
<1> DEFINE old(j) == IF j < i THEN j ELSE j + 1
<1>3. /\ mods' \in Seq(LoadedModule) /\ DOMAIN mods' = 1..(Len(mods) - 1)
      /\ \A j \in DOMAIN mods' : mods'[j] = mods[old(j)] /\ old(j) \in DOMAIN mods
  <2>1. mods \in Seq(LoadedModule) /\ i \in 1..Len(mods)
    BY <1>1, <1>2 DEF ModulesKept
  <2>2. /\ mods' \in Seq(LoadedModule) /\ Len(mods') = Len(mods) - 1
        /\ \A j \in 1..(Len(mods) - 1) : mods'[j] = mods[old(j)]
    BY <1>1, <2>1, Removed
  <2>3. DOMAIN mods' = 1..(Len(mods) - 1)
    BY <2>2
  <2> QED
    BY <1>2, <2>2, <2>3
<1>4. TableInv'
  BY <1>1, TableStutters
<1>5. ModulesKept'
  <2>1. Unlocked'
    BY <1>1 DEF Unlocked, vars
  <2>2. \A j, q \in DOMAIN mods' : j < q => old(j) < old(q)
    BY <1>2, <1>3
  <2>3. ASSUME NEW j \in DOMAIN mods'
        PROVE  /\ mods'[j].born <= loads' /\ mods'[j].n <= mods'[j].last
               /\ DOMAIN mods'[j].syms = 0..(mods'[j].last - 1)
               /\ mods'[j].aindex \in Permuted(mods'[j].n)
    BY <1>1, <1>3 DEF ModulesKept
  <2>4. ASSUME NEW j \in DOMAIN mods', NEW q \in DOMAIN mods', j < q
        PROVE  /\ mods'[j].born < mods'[q].born /\ mods'[j].at # mods'[q].at
               /\ mods'[j].chunk \cap mods'[q].chunk = {}
    <3>1. old(j) < old(q) /\ old(j) \in DOMAIN mods /\ old(q) \in DOMAIN mods
      BY <1>3, <2>2, <2>4
    <3>2. mods'[j] = mods[old(j)] /\ mods'[q] = mods[old(q)]
      BY <1>3
    <3> HIDE DEF old
    <3> QED
      BY <1>1, <3>1, <3>2 DEF ModulesKept
  <2>5. loads' \in 0..MaxLoads
    BY <1>1 DEF ModulesKept
  <2> HIDE DEF old
  <2> QED
    BY <1>3, <2>1, <2>3, <2>4, <2>5 DEF ModulesKept, LoadedModule, Entry, Permuted
<1>6. HandleKept'
  BY <1>1 DEF HandleKept, Ended
<1>7. StaleRefused'
  BY <1>1 DEF StaleRefused, Ended
<1>8. SearchComplete'
  <2>1. ListFacts'
    BY <1>5, ListKept, PTL
  <2>2. ASSUME Speaks', NEW x \in Sought'
        PROVE  Passed(x)' <=> <<mods'[x[1]].born, x[2]>> \in search'.seen
    <3> DEFINE k == PlaceOf(search.at)'
               y == <<old(x[1]), x[2]>>
    <3>1. search.op \in {"entered", "held"} /\ search.exact /\ Alive'
      BY <1>1, <2>2 DEF Speaks, Ended
    <3>2. k \in DOMAIN mods' /\ mods'[k].at = search.at /\ mods'[k].born = search.born
      BY <1>1, <2>1, <3>1 DEF ListFacts
    <3>3. /\ old(k) \in DOMAIN mods /\ mods[old(k)] = mods'[k]
          /\ Alive /\ PlaceOf(search.at) = old(k)
      <4>1. old(k) \in DOMAIN mods /\ mods[old(k)] = mods'[k]
        BY <1>3, <3>2
      <4> HIDE DEF k, old
      <4> QED
        BY <1>2, <3>2, <4>1 DEF Alive, ListFacts
    <3>4. x = <<x[1], x[2]>> /\ x[1] \in DOMAIN mods'
      BY <2>1, <2>2 DEF ListFacts
    <3>5. /\ old(x[1]) \in DOMAIN mods /\ mods'[x[1]] = mods[old(x[1])]
          /\ y[1] = old(x[1]) /\ y[2] = x[2] /\ y = <<y[1], y[2]>>
      BY <1>3, <3>4
    <3>6. y \in Sought
      <4>1. /\ x[2] \in 0..(mods'[x[1]].last - 1)
            /\ IF search.kind = "lkup" THEN mods'[x[1]].syms[x[2]].name \in Matching ELSE x[2] = 0
        BY <1>1, <2>1, <2>2 DEF ListFacts
      <4> HIDE DEF old, y
      <4>2. /\ y = <<y[1], y[2]>> /\ y[1] \in DOMAIN mods /\ y[2] \in 0..(mods[y[1]].last - 1)
            /\ IF search.kind = "lkup" THEN mods[y[1]].syms[y[2]].name \in Matching ELSE y[2] = 0
        BY <3>5, <4>1
      <4> QED
        BY <1>2, <4>2 DEF ListFacts
    <3>7. /\ x[1] < k <=> old(x[1]) < old(k)
          /\ x[1] = k <=> old(x[1]) = old(k)
      <4>1. x[1] \in Int /\ k \in Int /\ i \in Int
        BY <1>2, <1>3, <3>2, <3>4
      <4> HIDE DEF k
      <4> QED
        BY <4>1
    <3>8. Passed(x)' <=> Passed(y)
      <4> HIDE DEF old, y
      <4> QED
        BY <1>1, <3>3, <3>5, <3>7 DEF Passed
    <3>9. Passed(y) <=> <<mods[y[1]].born, y[2]>> \in search.seen
      BY <3>1, <3>3, <3>6, CompleteMeans DEF IInv, Reported, Speaks
    <3> HIDE DEF old, y
    <3> QED
      BY <1>1, <3>5, <3>8, <3>9
  <2>3. Reported'
    BY <2>2 DEF Reported
  <2> QED
    BY <2>3, CompleteMeans, PTL
<1>9. IndicesAscend'
  <2>1. ASSUME NEW k \in DOMAIN mods'
        PROVE  Ascends(mods'[k])
    <3>1. mods'[k] = mods[old(k)] /\ old(k) \in DOMAIN mods
      BY <1>3
    <3> HIDE DEF old
    <3> QED
      BY <3>1, AscendMeans DEF IInv
  <2>2. (\A k \in DOMAIN mods : Ascends(mods[k]))'
    BY <2>1 DEF Ascends
  <2> QED
    BY <2>2, AscendMeans, PTL
<1>10. TailsRepeat'
  <2>1. ASSUME NEW k \in DOMAIN mods'
        PROVE  Repeats(mods'[k])
    <3>1. mods'[k] = mods[old(k)] /\ old(k) \in DOMAIN mods
      BY <1>3
    <3> HIDE DEF old
    <3> QED
      BY <3>1, RepeatsMeans DEF IInv
  <2>2. (\A k \in DOMAIN mods : Repeats(mods[k]))'
    BY <2>1 DEF Repeats
  <2> QED
    BY <2>2, RepeatsMeans, PTL
<1> QED
  BY <1>4, <1>5, <1>6, <1>7, <1>8, <1>9, <1>10 DEF IInv

-----------------------------------------------------------------------------
(* Steps of the search *)

\* The list stays as it is.
LEMMA ListStays ==
    ASSUME IInv, UNCHANGED <<vars, mods, loads>>
    PROVE  /\ TableInv' /\ ModulesKept' /\ IndicesAscend' /\ TailsRepeat' /\ ListFacts /\ ListFacts'
           /\ vars' = vars /\ mods' = mods /\ loads' = loads
           /\ search'.kind = search.kind => Sought' = Sought
<1>1. vars' = vars /\ mods' = mods /\ loads' = loads
  OBVIOUS
<1>2. TableInv'
  BY <1>1, TableStutters DEF IInv
<1>3. Unlocked' <=> Unlocked
  BY <1>1 DEF Unlocked, vars
<1>4. ModulesKept'
  BY <1>1, <1>3 DEF IInv, ModulesKept
<1>5. ListFacts'
  BY <1>4, ListKept, PTL
<1>6. ListFacts
  BY ListKept DEF IInv
<1>7. search'.kind = search.kind => Sought' = Sought
  BY <1>1 DEF Sought
<1>8. IndicesAscend' /\ TailsRepeat'
  BY <1>1, AscendStays DEF IInv, TailsRepeat
<1> QED
  BY <1>1, <1>2, <1>4, <1>5, <1>6, <1>7, <1>8

\* A search that gives up has nothing to report, and one that begins neither.
LEMMA NothingReported ==
    ASSUME IInv, UNCHANGED <<vars, mods, loads>>, Unlocked,
           search'.op \in {"none", "refused", "walked", "fault"} \/ ~search'.exact,
           search' \in Handles(loads),
           search'.op = "entered" => search'.kind \in {"lkup", "list"},
           search'.op = "held" => search'.kind = "lkup",
           search'.op = "walked" => ~Alive' /\ InList(search.at) /\ search'.at = search.at
    PROVE  IInv'
<1>1. TableInv' /\ ModulesKept' /\ IndicesAscend' /\ TailsRepeat' /\ mods' = mods /\ loads' = loads /\ vars' = vars
  BY ListStays
<1>2. Unlocked'
  BY <1>1 DEF Unlocked, vars
<1>3. HandleKept'
  BY <1>1, <1>2 DEF HandleKept, Handles
<1>4. SearchComplete'
  BY DEF SearchComplete
<1>5. StaleRefused'
  BY <1>1 DEF StaleRefused, InList
<1> QED
  BY <1>1, <1>3, <1>4, <1>5 DEF IInv

LEMMA BeginKeeps ==
    ASSUME IInv, NEW kind \in {"lkup", "list"}, Begin(kind)
    PROVE  IInv'
<1>1. /\ UNCHANGED <<vars, mods, loads>> /\ Unlocked /\ mods # <<>>
      /\ search' = [NoSearch EXCEPT !.op = "entered", !.kind = kind, !.at = mods[1].at,
                                    !.born = mods[1].born]
  BY DEF Begin
<1>2. /\ TableInv' /\ ModulesKept' /\ IndicesAscend' /\ TailsRepeat' /\ mods' = mods /\ loads' = loads /\ vars' = vars
      /\ ListFacts /\ ListFacts'
  BY <1>1, ListStays
<1>3. 1 \in DOMAIN mods /\ mods[1].born \in 1..loads /\ mods[1].at \in Heap /\ loads \in Nat
  <2>1. mods \in Seq(LoadedModule) /\ Len(mods) \in Nat /\ DOMAIN mods = 1..Len(mods)
    BY ModulesType DEF IInv, ModulesKept
  <2>2. Len(mods) # 0
    BY <1>1, <2>1
  <2> QED
    BY <2>1, <2>2, ModulesType DEF IInv
<1>4. /\ search'.op = "entered" /\ search'.kind = kind /\ search'.at = mods[1].at
      /\ search'.born = mods[1].born /\ search'.pos = 0 /\ search'.seen = {}
  BY <1>1 DEF NoSearch
<1>5. HandleKept'
  <2>1. NoSearch \in Handles(loads)
    BY <1>3, NoSearchType
  <2>2. search' \in Handles(loads)
    <3>1. PICK O, K, A, B, S :
             /\ Handles(loads) = [op : O, kind : K, at : A, born : B, pos : Nat, seen : S, exact : BOOLEAN]
             /\ "entered" \in O /\ "lkup" \in K /\ "list" \in K
             /\ \A a \in Heap : a \in A
             /\ \A b \in 1..loads : b \in B
      BY <1>3, HandleSets
    <3>2. kind \in K /\ mods[1].at \in A /\ mods[1].born \in B
      BY <1>3, <3>1
    <3>3. NoSearch \in [op : O, kind : K, at : A, born : B, pos : Nat, seen : S, exact : BOOLEAN]
      BY <2>1, <3>1
    <3>4. search' \in [op : O, kind : K, at : A, born : B, pos : Nat, seen : S, exact : BOOLEAN]
      BY <1>1, <3>1, <3>2, <3>3
    <3> QED
      BY <3>1, <3>4
  <2> QED
    BY <1>2, <1>4, <2>2 DEF HandleKept, Handles, Ended
<1>6. StaleRefused'
  BY <1>4 DEF StaleRefused
<1>7. SearchComplete'
  <2>1. PlaceOf(search.at)' = 1
    BY <1>2, <1>3, <1>4 DEF ListFacts
  <2>2. ASSUME NEW x \in Sought'
        PROVE  ~Passed(x)'
    <3>1. x[1] \in 1..Len(mods) /\ x[2] \in 0..(mods[x[1]].last - 1)
      BY <1>2, <2>2 DEF ListFacts
    <3> QED
      BY <1>4, <2>1, <3>1 DEF Passed
  <2>3. Reported'
    BY <1>4, <2>2 DEF Reported
  <2> QED
    BY <2>3, CompleteMeans, PTL
<1> QED
  BY <1>2, <1>5, <1>6, <1>7 DEF IInv

LEMMA SearchEndKeeps ==
    ASSUME IInv, End
    PROVE  IInv'
<1>1. UNCHANGED <<vars, mods, loads>> /\ Unlocked /\ search' = NoSearch
  BY DEF End
<1>2. loads \in Nat
  BY ModulesType DEF IInv
<1>3. search' \in Handles(loads)
  BY <1>1, <1>2, NoSearchType
<1>4. search'.op = "none"
  BY <1>1 DEF NoSearch
<1> QED
  BY <1>1, <1>3, <1>4, NothingReported

\* A search that goes on or ends has reported what its handle is behind.
LEMMA PassedReported ==
    ASSUME IInv, UNCHANGED <<vars, mods, loads>>, Unlocked, search' \in Handles(loads),
           search'.kind = search.kind, search'.op \in {"entered", "held", "done"},
           search'.op = "entered" => search.kind \in {"lkup", "list"},
           search'.op = "held" => search.kind = "lkup",
           search'.exact =>
             \A x \in Sought : Passed(x)' <=> <<mods[x[1]].born, x[2]>> \in search'.seen
    PROVE  IInv'
<1>1. /\ TableInv' /\ ModulesKept' /\ IndicesAscend' /\ TailsRepeat' /\ mods' = mods /\ loads' = loads /\ vars' = vars
      /\ Sought' = Sought
  BY ListStays
<1>2. Unlocked'
  BY <1>1 DEF Unlocked, vars
<1>3. HandleKept'
  BY <1>1, <1>2 DEF HandleKept, Handles
<1>4. SearchComplete'
  <2>1. Reported'
    BY <1>1 DEF Reported, Speaks
  <2> QED
    BY <2>1, CompleteMeans, PTL
<1>5. StaleRefused'
  BY DEF StaleRefused
<1> QED
  BY <1>1, <1>3, <1>4, <1>5 DEF IInv

\* The handle is moved on before the lock is taken.
LEMMA ReadHandleKeeps ==
    ASSUME IInv, ReadHandle
    PROVE  IInv'
<1> DEFINE k == PlaceOf(search.at)
<1>1. UNCHANGED <<vars, mods, loads>> /\ Unlocked /\ search.op = "held"
  BY DEF ReadHandle
<1>2. /\ mods' = mods /\ loads' = loads /\ ListFacts /\ ListFacts' /\ loads \in Nat
      /\ search \in Handles(loads) /\ search.kind = "lkup" /\ search.pos \in Nat
  BY <1>1, ListStays, HandleKeptMeans, HandleType, ModulesType DEF IInv
<1>3. PICK O, K, A, B, S :
             /\ Handles(loads) = [op : O, kind : K, at : A, born : B, pos : Nat, seen : S, exact : BOOLEAN]
             /\ "entered" \in O /\ "done" \in O /\ "fault" \in O
             /\ \A a \in Heap : a \in A
             /\ \A b \in 1..loads : b \in B
  BY <1>2, HandleSets
<1>4. search \in [op : O, kind : K, at : A, born : B, pos : Nat, seen : S, exact : BOOLEAN]
  BY <1>2, <1>3
<1>5. CASE ~Alive
  <2>1. PICK o \in {"entered", "done", "fault"} :
           search' = [search EXCEPT !.op = o, !.exact = FALSE, !.pos = search.pos + 1]
    BY <1>5 DEF ReadHandle
  <2>2. o \in O /\ search.pos + 1 \in Nat
    BY <1>2, <1>3
  <2>3. /\ search' \in [op : O, kind : K, at : A, born : B, pos : Nat, seen : S, exact : BOOLEAN]
        /\ search'.op = o /\ search'.kind = search.kind /\ search'.exact = FALSE
    BY <1>4, <2>1, <2>2
  <2>4. search' \in Handles(loads)
    BY <1>3, <2>3
  <2> QED
    BY <1>1, <1>2, <2>3, <2>4, NothingReported
<1>6. CASE Alive
  <2>1. k \in DOMAIN mods /\ mods[k].at = search.at /\ mods[k].born = search.born /\ mods[k].last \in Nat
    BY <1>2, <1>6 DEF ListFacts
  <2>2. search.exact => \A x \in Sought : Passed(x) <=> <<mods[x[1]].born, x[2]>> \in search.seen
    BY <1>1, <1>6, CompleteMeans DEF IInv, Reported, Speaks
  <2>3. \A x \in Sought : Passed(x) <=> x[1] < k \/ (x[1] = k /\ x[2] <= search.pos)
    <3>1. \A x \in Sought : x[2] \in Int
      BY <1>2 DEF ListFacts
    <3> QED
      BY <1>1, <1>2, <3>1 DEF Passed
  \* There is a symbol after the last one.
  <2>4. CASE search.pos + 1 < mods[k].last
    <3>1. search' = [search EXCEPT !.op = "entered", !.pos = search.pos + 1]
      BY <1>6, <2>4 DEF ReadHandle
    <3>2. /\ search' \in [op : O, kind : K, at : A, born : B, pos : Nat, seen : S, exact : BOOLEAN]
          /\ search'.op = "entered" /\ search'.kind = search.kind /\ search'.at = search.at
          /\ search'.pos = search.pos + 1 /\ search'.seen = search.seen
          /\ search'.exact = search.exact
      <4>1. PICK q \in Nat : q = search.pos + 1
        BY <1>2
      <4>2. search' = [search EXCEPT !.op = "entered", !.pos = q]
        BY <3>1, <4>1
      <4> QED
        BY <1>3, <1>4, <4>1, <4>2
    <3>3. PlaceOf(search.at)' = k
      BY <1>2, <2>1, <3>2 DEF ListFacts
    <3>4. ASSUME NEW x \in Sought
          PROVE  Passed(x)' <=> Passed(x)
      <4>1. x[2] \in Int
        BY <1>2 DEF ListFacts
      <4> HIDE DEF k
      <4> QED
        BY <1>2, <2>3, <3>2, <3>3, <4>1 DEF Passed
    <3> QED
      BY <1>1, <1>2, <1>3, <2>2, <3>2, <3>4, PassedReported
  \* All modules are behind.
  <2>5. CASE ~(search.pos + 1 < mods[k].last) /\ k = Len(mods)
    <3>1. search' = [search EXCEPT !.op = "done"]
      BY <1>6, <2>5 DEF ReadHandle
    <3>2. /\ search' \in [op : O, kind : K, at : A, born : B, pos : Nat, seen : S, exact : BOOLEAN]
          /\ search'.op = "done" /\ search'.kind = search.kind /\ search'.seen = search.seen
          /\ search'.exact = search.exact
      BY <1>3, <1>4, <3>1
    <3>3. ASSUME NEW x \in Sought
          PROVE  Passed(x)' /\ Passed(x)
      <4>1. x[1] \in 1..Len(mods) /\ x[2] \in 0..(mods[x[1]].last - 1)
        BY <1>2 DEF ListFacts
      <4>2. x[1] < k \/ (x[1] = k /\ x[2] <= search.pos)
        BY <1>2, <2>1, <2>5, <4>1
      <4> QED
        BY <2>3, <3>2, <4>2 DEF Passed
    <3> QED
      BY <1>1, <1>2, <1>3, <2>2, <3>2, <3>3, PassedReported
  \* The next module.
  <2>6. CASE ~(search.pos + 1 < mods[k].last) /\ k # Len(mods)
    <3>1. search' = [search EXCEPT !.op = "entered", !.at = mods[k + 1].at, !.born = mods[k + 1].born,
                                   !.pos = 0]
      BY <1>6, <2>5, <2>6 DEF ReadHandle
    <3>2. k + 1 \in DOMAIN mods /\ mods[k + 1].at \in A /\ mods[k + 1].born \in B
      <4>1. k + 1 \in DOMAIN mods
        BY <1>2, <2>1, <2>6 DEF ListFacts
      <4>2. mods[k + 1].at \in Heap /\ mods[k + 1].born \in 1..loads
        BY <4>1, ModulesType DEF IInv
      <4> QED
        BY <1>3, <4>1, <4>2
    <3>3. /\ search' \in [op : O, kind : K, at : A, born : B, pos : Nat, seen : S, exact : BOOLEAN]
          /\ search'.op = "entered" /\ search'.kind = search.kind /\ search'.at = mods[k + 1].at
          /\ search'.pos = 0 /\ search'.seen = search.seen /\ search'.exact = search.exact
      <4> HIDE DEF k
      <4> QED
        BY <1>3, <1>4, <3>1, <3>2
    <3>4. PlaceOf(search.at)' = k + 1
      BY <1>2, <3>2, <3>3 DEF ListFacts
    <3>5. ASSUME NEW x \in Sought
          PROVE  Passed(x)' <=> Passed(x)
      <4>1. x[1] \in 1..Len(mods) /\ x[2] \in 0..(mods[x[1]].last - 1) /\ k \in Int
        BY <1>2, <2>1 DEF ListFacts
      <4>2. Passed(x)' <=> x[1] < k + 1
        <5>1. ~(x[2] < 0) /\ x[2] \in Int
          BY <4>1
        <5>2. ~(x[2] < search'.pos) /\ search'.op # "done" /\ search'.op # "held"
          BY <3>3, <5>1
        <5> HIDE DEF k
        <5> QED
          BY <3>4, <5>2 DEF Passed
      <4>3. x[1] < k + 1 <=> x[1] < k \/ (x[1] = k /\ x[2] <= search.pos)
        <5> HIDE DEF k
        <5>1. x[1] = k => x[2] <= search.pos
          BY <1>2, <2>1, <2>6, <4>1
        <5> QED
          BY <4>1, <5>1
      <4> QED
        BY <2>3, <4>2, <4>3
    <3> QED
      BY <1>1, <1>2, <1>3, <2>2, <3>3, <3>5, PassedReported
  <2> QED
    BY <2>4, <2>5, <2>6
<1> QED
  BY <1>5, <1>6

\* A handle that is refused, or followed although its module is gone.
LEMMA StaleKeeps ==
    ASSUME IInv, UNCHANGED <<vars, mods, loads>>, Unlocked,
           \/ search' = [search EXCEPT !.op = "refused"]
           \/ Dangling /\ ~modIsStale(search.at) /\ search' = [search EXCEPT !.op = "walked"]
    PROVE  IInv'
<1>1. mods' = mods /\ loads' = loads /\ loads \in Nat /\ search \in Handles(loads)
  BY ListStays, HandleKeptMeans, ModulesType DEF IInv
<1>2. PICK O, K, A, B, S :
             /\ Handles(loads) = [op : O, kind : K, at : A, born : B, pos : Nat, seen : S, exact : BOOLEAN]
             /\ "refused" \in O /\ "walked" \in O
  BY <1>1, HandleSets
<1>3. search \in [op : O, kind : K, at : A, born : B, pos : Nat, seen : S, exact : BOOLEAN]
  BY <1>1, <1>2
<1>4. /\ search' \in [op : O, kind : K, at : A, born : B, pos : Nat, seen : S, exact : BOOLEAN]
      /\ search'.op \in {"refused", "walked"} /\ search'.at = search.at /\ search'.born = search.born
  BY <1>2, <1>3
<1>5. search'.op = "walked" => ~Alive' /\ InList(search.at) /\ search'.at = search.at
  <2>1. CASE search' = [search EXCEPT !.op = "refused"]
    BY <1>3, <2>1
  <2>2. CASE Dangling /\ ~modIsStale(search.at)
    <3>1. ~Alive /\ InList(search.at)
      BY <2>2 DEF Dangling, modIsStale
    <3>2. ~Alive'
      BY <1>1, <1>4, <3>1 DEF Alive
    <3> QED
      BY <1>4, <3>1, <3>2
  <2> QED
    BY <2>1, <2>2
<1>6. search' \in Handles(loads)
  BY <1>2, <1>4
<1> QED
  BY <1>4, <1>5, <1>6, NothingReported

\* A page is printed.
LEMMA LookupRegexKeeps ==
    ASSUME IInv, NEW lines \in Lines, LookupRegex(lines)
    PROVE  IInv'
<1> DEFINE k == PlaceOf(search.at)
           found == MatchesFrom(<<k, search.pos>>)
           page == Page(found, lines)
           last == CHOOSE x \in page : \A y \in page : Before(y, x)
           ended == page = {} \/ LinesUpTo(found, last) < lines
<1>1. UNCHANGED <<vars, mods, loads>> /\ Unlocked /\ search.op = "entered" /\ search.kind = "lkup"
  BY DEF LookupRegex
<1>2. /\ mods' = mods /\ loads' = loads /\ ListFacts /\ ListFacts' /\ loads \in Nat /\ ModulesKept
      /\ search \in Handles(loads) /\ search.pos \in Nat
  BY <1>1, ListStays, HandleKeptMeans, HandleType, ModulesType DEF IInv
<1>3. CASE modIsStale(search.at) \/ Dangling
  <2>1. \/ search' = [search EXCEPT !.op = "refused"]
        \/ Dangling /\ ~modIsStale(search.at) /\ search' = [search EXCEPT !.op = "walked"]
    BY <1>3 DEF LookupRegex
  <2> QED
    BY <1>1, <2>1, StaleKeeps
<1>4. CASE ~modIsStale(search.at) /\ ~Dangling
  <2>1. search' =
          IF ended
            THEN [search EXCEPT !.op = "done", !.seen = @ \cup Seen(page), !.exact = @ /\ Alive]
            ELSE [search EXCEPT !.op = "held", !.at = mods[last[1]].at, !.born = mods[last[1]].born,
                                !.pos = last[2], !.seen = @ \cup Seen(page), !.exact = @ /\ Alive]
    BY <1>4 DEF LookupRegex
  <2>2. PICK O, K, A, B, S :
             /\ Handles(loads) = [op : O, kind : K, at : A, born : B, pos : Nat, seen : S, exact : BOOLEAN]
             /\ "none" \in O /\ "entered" \in O /\ "held" \in O /\ "done" \in O /\ "refused" \in O
             /\ "walked" \in O /\ "fault" \in O
             /\ "lkup" \in K /\ "list" \in K /\ None \in K
             /\ None \in A /\ \A a \in Heap : a \in A
             /\ 0 \in B /\ \A b \in 1..loads : b \in B
             /\ {} \in S /\ \A s \in S, q \in SUBSET ((1..loads) \X Nat) : s \cup q \in S
    <3>1. loads \in Nat
      BY <1>2
    <3> QED
      BY <3>1, HandleSets
  <2>3. search \in [op : O, kind : K, at : A, born : B, pos : Nat, seen : S, exact : BOOLEAN]
    BY <1>2, <2>2
  <2>4. found \in SUBSET Spots /\ page \subseteq found
    BY DEF MatchesFrom, Spots, Page
  <2>5. \A x \in Spots : /\ x = <<x[1], x[2]>> /\ x[1] \in DOMAIN mods /\ x[2] \in Nat
                           /\ mods[x[1]].born \in 1..loads /\ mods[x[1]].at \in Heap
    <3>1. \A i \in DOMAIN mods : mods[i].last \in Nat /\ mods[i].born \in 1..loads /\ mods[i].at \in Heap
      BY <1>2, ModulesType
    <3> QED
      BY <1>2, <3>1, SpotsType
  <2>6. PICK seen \in S : seen = search.seen \cup Seen(page)
    <3>1. Seen(page) \in SUBSET ((1..loads) \X Nat)
      <4> HIDE DEF page, found
      <4> QED
        BY <2>4, <2>5 DEF Seen
    <3>2. search.seen \in S
      BY <2>3
    <3> HIDE DEF page
    <3> QED
      BY <2>2, <3>1, <3>2
  <2>7. PICK exact \in BOOLEAN : exact = (search.exact /\ Alive)
    OBVIOUS
  \* What was behind the handle was reported, the rest of what matches was found.
  <2>8. ASSUME exact
        PROVE  /\ k \in DOMAIN mods
               /\ \A x \in Sought : /\ x \in Spots
                                    /\ <<mods[x[1]].born, x[2]>> \in search.seen <=> ~Before(<<k, search.pos>>, x)
                                    /\ Before(<<k, search.pos>>, x) <=> x \in found
    <3>1. search.exact /\ Alive
      BY <2>7, <2>8
    <3>2. k \in DOMAIN mods /\ \A x \in Sought : Passed(x) <=> <<mods[x[1]].born, x[2]>> \in search.seen
      BY <1>1, <1>2, <3>1, CompleteMeans DEF IInv, Reported, Speaks, ListFacts
    <3>3. ASSUME NEW x \in Sought
          PROVE  /\ x \in Spots /\ mods[x[1]].syms[x[2]].name \in Matching
                 /\ Passed(x) <=> ~Before(<<k, search.pos>>, x)
      <4>1. x \in Spots /\ mods[x[1]].syms[x[2]].name \in Matching
        BY <1>1, <1>2, SoughtPlaces
      <4>2. x[1] \in Int /\ x[2] \in Int /\ k \in Int
        BY <1>2, <2>5, <3>2, <4>1 DEF ListFacts
      <4>3. Passed(x) <=> x[1] < k \/ (x[1] = k /\ x[2] < search.pos)
        BY <1>1 DEF Passed
      <4>4. Before(<<k, search.pos>>, x) <=> k < x[1] \/ (k = x[1] /\ search.pos <= x[2])
        BY DEF Before
      <4> HIDE DEF k
      <4> QED
        BY <1>2, <4>1, <4>2, <4>3, <4>4
    <3>4. \A x \in Sought : Before(<<k, search.pos>>, x) <=> x \in found
      BY <3>3 DEF MatchesFrom, Spots
    <3> QED
      BY <3>2, <3>3, <3>4
  <2>9. \A x \in Spots : <<mods[x[1]].born, x[2]>> \in Seen(page) <=> x \in page
    <3>1. ASSUME NEW x \in Spots, NEW y \in page,
                 <<mods[x[1]].born, x[2]>> = <<mods[y[1]].born, y[2]>>
          PROVE  x = y
      <4>1. /\ y \in Spots /\ x = <<x[1], x[2]>> /\ y = <<y[1], y[2]>>
            /\ x[1] \in DOMAIN mods /\ y[1] \in DOMAIN mods
        BY <2>4, <2>5
      <4>2. x[1] = y[1] /\ x[2] = y[2]
        BY <1>2, <3>1, <4>1 DEF ListFacts
      <4> QED
        BY <4>1, <4>2
    <3> HIDE DEF page, found
    <3> QED
      BY <3>1 DEF Seen
  <2>10. lines \in Int /\ \A x \in found : LinesUpTo(found, x) \in Int
    BY <1>2, <2>4, LinesType, LookupOK
  \* There was a line left.
  <2>11. CASE ended
    <3>1. search' = [search EXCEPT !.op = "done", !.seen = seen, !.exact = exact]
      <4>1. search' = [search EXCEPT !.op = "done", !.seen = search.seen \cup Seen(page),
                                     !.exact = search.exact /\ Alive]
        BY <2>1, <2>11
      <4> HIDE DEF page
      <4> QED
        BY <2>6, <2>7, <4>1
    <3>2. /\ search' \in [op : O, kind : K, at : A, born : B, pos : Nat, seen : S, exact : BOOLEAN]
          /\ search'.op = "done" /\ search'.kind = search.kind /\ search'.seen = seen
          /\ search'.exact = exact
      BY <2>2, <2>3, <3>1
    <3>3. page = found
      <4>1. ASSUME NEW x \in page, \A y \in page : Before(y, x)
            PROVE  ~(LinesUpTo(found, x) >= lines)
        <5>1. last \in page /\ \A y \in page : Before(y, last)
          BY <4>1
        <5>2. last = x
          <6> HIDE DEF last, page, found
          <6> QED
            BY <1>2, <2>4, <4>1, <5>1, BeforeOrder
        <5>3. LinesUpTo(found, x) < lines /\ LinesUpTo(found, x) \in Int
          BY <2>4, <2>10, <2>11, <4>1, <5>2
        <5> HIDE DEF last, page, found
        <5> QED
          BY <2>10, <5>3
      <4> HIDE DEF last, found
      <4> QED
        BY <1>2, <2>4, <2>10, <4>1, PageWhole
    <3>4. ASSUME exact, NEW x \in Sought
          PROVE  Passed(x)' /\ <<mods[x[1]].born, x[2]>> \in search'.seen
      <4> HIDE DEF page, found, k
      <4>1. x \in Spots /\ (<<mods[x[1]].born, x[2]>> \in search.seen \/ x \in found)
        BY <2>8, <3>4
      <4>2. <<mods[x[1]].born, x[2]>> \in seen
        BY <2>6, <2>9, <3>3, <4>1
      <4>3. Passed(x)'
        BY <3>2 DEF Passed
      <4> QED
        BY <3>2, <4>2, <4>3
    <3>5. search' \in Handles(loads)
      BY <2>2, <3>2
    <3> QED
      BY <1>1, <1>2, <3>2, <3>4, <3>5, PassedReported
  \* The handle is the last symbol that was printed.
  <2>12. CASE ~ended
    <3>1. last \in page /\ \A y \in page : Before(y, last)
      <4>1. page # {} /\ page \in SUBSET Spots
        BY <2>4, <2>12
      <4>2. \E x \in page : \A y \in page : Before(y, x)
        <5> HIDE DEF page
        <5> QED
          BY <1>2, <4>1, LastPlace
      <4> HIDE DEF page
      <4> QED
        BY <4>2
    <3>2. /\ last \in found /\ last \in Spots /\ last[1] \in DOMAIN mods
          /\ last[2] \in Nat /\ mods[last[1]].at \in A /\ mods[last[1]].born \in B
      <4> HIDE DEF last, page, found
      <4> QED
        BY <2>2, <2>4, <2>5, <3>1
    <3>3. search' = [search EXCEPT !.op = "held", !.at = mods[last[1]].at, !.born = mods[last[1]].born,
                                   !.pos = last[2], !.seen = seen, !.exact = exact]
      <4>1. search' = [search EXCEPT !.op = "held", !.at = mods[last[1]].at, !.born = mods[last[1]].born,
                                     !.pos = last[2], !.seen = search.seen \cup Seen(page),
                                     !.exact = search.exact /\ Alive]
        BY <2>1, <2>12
      <4> HIDE DEF page, last
      <4> QED
        BY <2>6, <2>7, <4>1
    <3> HIDE DEF last, page, found, k
    <3>4. /\ search' \in [op : O, kind : K, at : A, born : B, pos : Nat, seen : S, exact : BOOLEAN]
          /\ search'.op = "held" /\ search'.kind = search.kind /\ search'.at = mods[last[1]].at
          /\ search'.pos = last[2] /\ search'.seen = seen /\ search'.exact = exact
      BY <2>2, <2>3, <3>2, <3>3
    <3>5. PlaceOf(search.at)' = last[1]
      BY <1>2, <3>2, <3>4 DEF ListFacts
    <3>6. ASSUME exact, NEW x \in Sought
          PROVE  Passed(x)' <=> <<mods[x[1]].born, x[2]>> \in search'.seen
      <4>1. /\ x \in Spots
            /\ <<mods[x[1]].born, x[2]>> \in search.seen <=> ~Before(<<k, search.pos>>, x)
            /\ Before(<<k, search.pos>>, x) <=> x \in found
        BY <2>8, <3>6
      <4>2. Passed(x)' <=> Before(x, last)
        <5>1. x[1] \in Int /\ x[2] \in Int /\ last[1] \in Int /\ last[2] \in Int
          BY <1>2, <2>5, <3>2, <4>1 DEF ListFacts
        <5>2. Passed(x)' <=> x[1] < last[1] \/ (x[1] = last[1] /\ (x[2] < last[2] \/ x[2] = last[2]))
          BY <1>1, <3>4, <3>5 DEF Passed
        <5> QED
          BY <5>1, <5>2 DEF Before
      <4>3. CASE x \in found
        <5>1. x \in page <=> Before(x, last)
          BY <1>2, <2>4, <3>1, <4>3, PageUpToLast DEF page
        <5>2. <<mods[x[1]].born, x[2]>> \in seen <=> x \in page
          BY <2>6, <2>9, <4>1, <4>3
        <5> QED
          BY <3>4, <4>2, <5>1, <5>2
      <4>4. CASE x \notin found
        <5>1. ~Before(<<k, search.pos>>, x) /\ <<mods[x[1]].born, x[2]>> \in seen
          BY <2>6, <4>1, <4>4
        <5>2. Before(<<k, search.pos>>, last)
          BY <3>2 DEF found, MatchesFrom
        <5>3. Before(x, last)
          <6>1. /\ x[1] \in Int /\ x[2] \in Int /\ last[1] \in Int /\ last[2] \in Int
                /\ k \in Int /\ search.pos \in Int
            BY <1>2, <2>5, <2>8, <3>2, <3>6, <4>1 DEF ListFacts
          <6> QED
            BY <5>1, <5>2, <6>1 DEF Before
        <5> QED
          BY <3>4, <4>2, <5>1, <5>3
      <4> QED
        BY <4>3, <4>4
    <3>7. search' \in Handles(loads)
      BY <2>2, <3>4
    <3> QED
      BY <1>1, <1>2, <3>4, <3>6, <3>7, PassedReported
  <2> QED
    BY <2>11, <2>12
<1> QED
  BY <1>3, <1>4

\* One module is listed.
LEMMA IterateKeeps ==
    ASSUME IInv, cexpModIterate
    PROVE  IInv'
<1> DEFINE k == PlaceOf(search.at)
<1>1. UNCHANGED <<vars, mods, loads>> /\ Unlocked /\ search.op = "entered" /\ search.kind = "list"
  BY DEF cexpModIterate
<1>2. /\ mods' = mods /\ loads' = loads /\ ListFacts /\ ListFacts' /\ loads \in Nat /\ ModulesKept
      /\ search \in Handles(loads)
  BY <1>1, ListStays, HandleKeptMeans, ModulesType DEF IInv
<1>3. CASE modIsStale(search.at) \/ Dangling
  <2>1. \/ search' = [search EXCEPT !.op = "refused"]
        \/ Dangling /\ ~modIsStale(search.at) /\ search' = [search EXCEPT !.op = "walked"]
    BY <1>3 DEF cexpModIterate
  <2> QED
    BY <1>1, <2>1, StaleKeeps
<1>4. CASE ~modIsStale(search.at) /\ ~Dangling
  <2>1. search' =
          IF k = Len(mods)
            THEN [search EXCEPT !.op = "done", !.seen = @ \cup {<<mods[k].born, 0>>}, !.exact = @ /\ Alive]
            ELSE [search EXCEPT !.at = mods[k + 1].at, !.born = mods[k + 1].born,
                                !.seen = @ \cup {<<mods[k].born, 0>>}, !.exact = @ /\ Alive]
    BY <1>4 DEF cexpModIterate
  <2>2. PICK O, K, A, B, S :
             /\ Handles(loads) = [op : O, kind : K, at : A, born : B, pos : Nat, seen : S, exact : BOOLEAN]
             /\ "none" \in O /\ "entered" \in O /\ "held" \in O /\ "done" \in O /\ "refused" \in O
             /\ "walked" \in O /\ "fault" \in O
             /\ "lkup" \in K /\ "list" \in K /\ None \in K
             /\ None \in A /\ \A a \in Heap : a \in A
             /\ 0 \in B /\ \A b \in 1..loads : b \in B
             /\ {} \in S /\ \A s \in S, q \in SUBSET ((1..loads) \X Nat) : s \cup q \in S
    <3>1. loads \in Nat
      BY <1>2
    <3> QED
      BY <3>1, HandleSets
  <2>3. search \in [op : O, kind : K, at : A, born : B, pos : Nat, seen : S, exact : BOOLEAN]
    BY <1>2, <2>2
  \* The module's record is in the list, be it that of the handle or another's.
  <2>4. k \in DOMAIN mods /\ mods[k].at = search.at
    <3>1. PICK i \in DOMAIN mods : mods[i].at = search.at
      BY <1>4 DEF modIsStale, InList
    <3> QED
      BY <1>2, <3>1 DEF ListFacts
  <2> HIDE DEF k
  <2>5. PICK seen \in S : seen = search.seen \cup {<<mods[k].born, 0>>}
    <3>1. {<<mods[k].born, 0>>} \in SUBSET ((1..loads) \X Nat)
      BY <1>2, <2>4 DEF ListFacts
    <3>2. search.seen \in S
      BY <2>3
    <3> QED
      BY <2>2, <3>1, <3>2
  <2>6. PICK exact \in BOOLEAN : exact = (search.exact /\ Alive)
    OBVIOUS
  <2>7. ASSUME exact, NEW x \in Sought
        PROVE  /\ x[1] \in DOMAIN mods /\ x[2] = 0
               /\ <<mods[x[1]].born, x[2]>> \in seen <=> x[1] <= k
    <3>1. Alive /\ search.exact
      BY <2>6, <2>7
    <3>2. Passed(x) <=> <<mods[x[1]].born, x[2]>> \in search.seen
      BY <1>1, <3>1, CompleteMeans DEF IInv, Reported, Speaks
    <3>3. x[1] \in DOMAIN mods /\ x[2] = 0
      BY <1>1, <1>2 DEF ListFacts
    <3>4. Passed(x) <=> x[1] < k
      BY <1>1 DEF Passed, k
    <3>5. <<mods[x[1]].born, x[2]>> = <<mods[k].born, 0>> <=> x[1] = k
      BY <1>2, <2>4, <3>3 DEF ListFacts
    <3>6. x[1] \in Int /\ k \in Int
      BY <1>2, <2>4, <3>3 DEF ListFacts
    <3> QED
      BY <2>5, <3>2, <3>3, <3>4, <3>5, <3>6
  \* The last module.
  <2>8. CASE k = Len(mods)
    <3>1. search' = [search EXCEPT !.op = "done", !.seen = seen, !.exact = exact]
      BY <2>1, <2>5, <2>6, <2>8
    <3>2. /\ search' \in [op : O, kind : K, at : A, born : B, pos : Nat, seen : S, exact : BOOLEAN]
          /\ search'.op = "done" /\ search'.kind = search.kind /\ search'.seen = seen
          /\ search'.exact = exact
      BY <2>2, <2>3, <3>1
    <3>3. ASSUME exact, NEW x \in Sought
          PROVE  Passed(x)' /\ <<mods[x[1]].born, x[2]>> \in search'.seen
      <4>1. x[1] <= k
        BY <1>2, <2>7, <2>8, <3>3 DEF ListFacts
      <4> QED
        BY <2>7, <3>2, <3>3, <4>1 DEF Passed
    <3>4. search' \in Handles(loads)
      BY <2>2, <3>2
    <3> QED
      BY <1>1, <1>2, <3>2, <3>3, <3>4, PassedReported
  \* There is a next one.
  <2>9. CASE k # Len(mods)
    <3>1. k + 1 \in DOMAIN mods /\ mods[k + 1].at \in A /\ mods[k + 1].born \in B
      <4>1. k + 1 \in DOMAIN mods
        BY <1>2, <2>4, <2>9 DEF ListFacts
      <4>2. mods[k + 1].at \in Heap /\ mods[k + 1].born \in 1..loads
        BY <1>2, <4>1, ModulesType
      <4> QED
        BY <2>2, <4>1, <4>2
    <3>2. search' = [search EXCEPT !.at = mods[k + 1].at, !.born = mods[k + 1].born, !.seen = seen,
                                   !.exact = exact]
      BY <2>1, <2>5, <2>6, <2>9
    <3>3. /\ search' \in [op : O, kind : K, at : A, born : B, pos : Nat, seen : S, exact : BOOLEAN]
          /\ search'.op = "entered" /\ search'.kind = search.kind /\ search'.at = mods[k + 1].at
          /\ search'.seen = seen /\ search'.exact = exact
      BY <1>1, <2>2, <2>3, <3>1, <3>2
    <3>4. PlaceOf(search.at)' = k + 1
      BY <1>2, <3>1, <3>3 DEF ListFacts
    <3>5. ASSUME exact, NEW x \in Sought
          PROVE  Passed(x)' <=> <<mods[x[1]].born, x[2]>> \in search'.seen
      <4>1. Passed(x)' <=> x[1] < k + 1
        BY <1>1, <3>3, <3>4 DEF Passed
      <4>2. x[1] \in Int /\ k \in Int
        BY <1>2, <2>4, <2>7, <3>5 DEF ListFacts
      <4> QED
        BY <2>7, <3>3, <3>5, <4>1, <4>2
    <3>6. search' \in Handles(loads)
      BY <2>2, <3>3
    <3> QED
      BY <1>1, <1>2, <3>3, <3>5, <3>6, PassedReported
  <2> QED
    BY <2>8, <2>9
<1> QED
  BY <1>3, <1>4

-----------------------------------------------------------------------------
(* The nearest of a set *)

\* The places of all symbols.
Places == UNION {{k} \X (0..(mods[k].n - 1)) : k \in DOMAIN mods}

LEMMA PlacesType ==
    ASSUME ModulesKept, NEW x
    PROVE  x \in Places <=>
             x = <<x[1], x[2]>> /\ x[1] \in DOMAIN mods /\ x[2] \in 0..(mods[x[1]].n - 1)
BY DEF Places

\* Among D entries the nearest of a set S by the distances f, the nearest first
\* and what is missing last; what is not among them is not nearer than the last.
Nearest(b, D, S, f) ==
    /\ \A d \in 0..(D - 1) : b[d] = None \/ b[d] \in S
    /\ \A d, e \in 0..(D - 1) : d < e /\ b[e] # None =>
          b[d] # None /\ b[d] # b[e] /\ f[b[d]] <= f[b[e]]
    /\ \A y \in S : (\E d \in 0..(D - 1) : b[d] = y) \/ (b[D - 1] # None /\ f[b[D - 1]] <= f[y])

\* The entry p is where an element belongs, and what the entries are with it.
Fits(b, p, x, f) ==
    /\ \A e \in 0..(p - 1) : b[e] # None /\ f[b[e]] <= f[x]
    /\ b[p] = None \/ f[x] <= f[b[p]]

Shifts(c, b, D, p, x) ==
    \A e \in 0..(D - 1) : c[e] = IF e < p THEN b[e] ELSE IF e = p THEN x ELSE b[e - 1]

\* An element that was not met takes the entry where it belongs.
LEMMA NearestInserted ==
    ASSUME NEW D \in Nat \ {0}, NEW S, NEW x, None \notin S, x # None, x \notin S,
           NEW f, \A y \in S \cup {x} : f[y] \in Int,
           NEW b, Nearest(b, D, S, f), NEW p \in 0..(D - 1), Fits(b, p, x, f),
           NEW c, Shifts(c, b, D, p, x)
    PROVE  Nearest(c, D, S \cup {x}, f)
<1>1. \A d \in 0..(D - 1) : b[d] = None \/ b[d] \in S
  BY DEF Nearest
<1>2. \A d, e \in 0..(D - 1) : d < e /\ b[e] # None =>
        b[d] # None /\ b[d] # b[e] /\ f[b[d]] <= f[b[e]]
  BY DEF Nearest
<1>3. /\ \A e \in 0..(D - 1) : e < p => c[e] = b[e]
      /\ c[p] = x
      /\ \A e \in 0..(D - 1) : e > p => c[e] = b[e - 1] /\ e - 1 \in 0..(D - 1)
  BY DEF Shifts
<1>4. \A e \in 0..(D - 1) : e < p => b[e] # None /\ f[b[e]] <= f[x]
  BY DEF Fits
<1>5. b[p] = None \/ f[x] <= f[b[p]]
  BY DEF Fits
<1>6. ASSUME NEW d \in 0..(D - 1)
      PROVE  c[d] = None \/ c[d] \in S \cup {x}
  <2>1. d < p \/ d = p \/ d > p
    OBVIOUS
  <2> QED
    BY <1>1, <1>3, <2>1
<1>7. ASSUME NEW d \in 0..(D - 1), NEW e \in 0..(D - 1), d < e, c[e] # None
      PROVE  c[d] # None /\ c[d] # c[e] /\ f[c[d]] <= f[c[e]]
  <2>1. CASE e < p
    <3>1. d < p
      BY <1>7, <2>1
    <3> QED
      BY <1>2, <1>3, <1>7, <2>1, <3>1
  <2>2. CASE e = p
    <3>1. d < p /\ c[d] = b[d] /\ c[e] = x
      BY <1>3, <1>7, <2>2
    <3> QED
      BY <1>1, <1>4, <3>1
  <2>3. CASE e > p /\ d < p
    <3>1. c[d] = b[d] /\ c[e] = b[e - 1] /\ e - 1 \in 0..(D - 1) /\ d < e - 1
      BY <1>3, <1>7, <2>3
    <3> QED
      BY <1>2, <1>7, <3>1
  <2>4. CASE e > p /\ d = p
    <3>1. c[d] = x /\ c[e] = b[e - 1] /\ e - 1 \in 0..(D - 1) /\ p <= e - 1
      BY <1>3, <2>4
    <3>2. b[e - 1] \in S /\ b[e - 1] # None
      BY <1>1, <1>7, <3>1
    <3>3. b[p] # None /\ f[b[p]] <= f[b[e - 1]]
      <4>1. CASE p = e - 1
        BY <3>2, <4>1
      <4>2. CASE p < e - 1
        BY <1>2, <3>1, <3>2, <4>2
      <4> QED
        BY <3>1, <4>1, <4>2
    <3>4. b[p] \in S
      BY <1>1, <3>3
    <3>5. f[x] \in Int /\ f[b[p]] \in Int /\ f[b[e - 1]] \in Int
      BY <3>2, <3>4
    <3> QED
      BY <1>5, <3>1, <3>2, <3>3, <3>5
  <2>5. CASE e > p /\ d > p
    <3>1. /\ c[d] = b[d - 1] /\ c[e] = b[e - 1] /\ d - 1 < e - 1
          /\ d - 1 \in 0..(D - 1) /\ e - 1 \in 0..(D - 1)
      BY <1>3, <1>7, <2>5
    <3> QED
      BY <1>2, <1>7, <3>1
  <2> QED
    BY <1>7, <2>1, <2>2, <2>3, <2>4, <2>5
<1>8. ASSUME NEW y \in S \cup {x}
      PROVE  (\E d \in 0..(D - 1) : c[d] = y) \/ (c[D - 1] # None /\ f[c[D - 1]] <= f[y])
  <2>1. CASE y = x
    BY <1>3, <2>1
  <2>2. CASE \E d \in 0..(D - 2) : b[d] = y
    <3>1. PICK d \in 0..(D - 2) : b[d] = y
      BY <2>2
    <3>2. d < p => c[d] = y
      BY <1>3, <3>1
    <3>3. d >= p => d + 1 \in 0..(D - 1) /\ c[d + 1] = y
      <4>1. SUFFICES ASSUME d >= p
                     PROVE  d + 1 \in 0..(D - 1) /\ c[d + 1] = y
        OBVIOUS
      <4>2. PICK e \in 0..(D - 1) : e = d + 1 /\ e > p /\ e - 1 = d
        BY <3>1, <4>1
      <4> QED
        BY <1>3, <3>1, <4>2
    <3> QED
      BY <3>1, <3>2, <3>3
  <2>3. CASE y \in S /\ ((b[D - 1] # None /\ f[b[D - 1]] <= f[y]) \/ b[D - 1] = y)
    <3>1. b[D - 1] # None /\ b[D - 1] \in S /\ f[b[D - 1]] <= f[y]
      BY <1>1, <2>3
    <3>2. f[y] \in Int /\ f[x] \in Int /\ f[b[D - 1]] \in Int
      BY <2>3, <3>1
    <3>3. CASE p = D - 1
      <4>1. c[D - 1] = x /\ f[x] <= f[b[D - 1]]
        BY <1>3, <1>5, <3>1, <3>3
      <4> QED
        BY <3>1, <3>2, <4>1
    <3>4. CASE p < D - 1
      <4>1. PICK q \in 0..(D - 1) : q = D - 1 - 1 /\ q < D - 1
        BY <3>4
      <4>2. c[D - 1] = b[q]
        BY <1>3, <3>4, <4>1
      <4>3. b[q] # None /\ f[b[q]] <= f[b[D - 1]]
        BY <1>2, <3>1, <4>1
      <4>4. b[q] \in S /\ f[b[q]] \in Int
        BY <1>1, <4>1, <4>3
      <4> QED
        BY <3>1, <3>2, <4>2, <4>3, <4>4
    <3> QED
      BY <3>3, <3>4
  <2>4. y \in S => (\E d \in 0..(D - 1) : b[d] = y) \/ (b[D - 1] # None /\ f[b[D - 1]] <= f[y])
    BY DEF Nearest
  <2>5. \A d \in 0..(D - 1) : d \in 0..(D - 2) \/ d = D - 1
    OBVIOUS
  <2> QED
    BY <2>1, <2>2, <2>3, <2>4, <2>5
<1> QED
  BY <1>6, <1>7, <1>8 DEF Nearest

\* What is not nearer than the last needs no place.
LEMMA NearestPassed ==
    ASSUME NEW D \in Nat \ {0}, NEW S, NEW R, NEW f, NEW b, Nearest(b, D, S, f),
           \A y \in R : b[D - 1] # None /\ f[b[D - 1]] <= f[y]
    PROVE  Nearest(b, D, S \cup R, f)
BY DEF Nearest

\* What is among n entries has at most n elements, and at least n when each of
\* them is another one.
LEMMA AtMost ==
    ASSUME NEW n \in Nat, NEW T, NEW b, \A y \in T : \E e \in 0..(n - 1) : b[e] = y
    PROVE  IsFiniteSet(T) /\ Cardinality(T) <= n
<1> DEFINE E == {e \in 0..(n - 1) : b[e] \in T}
           g == [e \in E |-> b[e]]
<1>1. IsFiniteSet(0..(n - 1)) /\ Cardinality(0..(n - 1)) = n
  BY FS_Interval
<1>2. IsFiniteSet(E) /\ Cardinality(E) <= n /\ Cardinality(E) \in Nat
  BY <1>1, FS_Subset, FS_CardinalityType
<1>3. g \in Surjection(E, T)
  BY DEF Surjection
<1>4. IsFiniteSet(T) /\ Cardinality(T) <= Cardinality(E) /\ Cardinality(T) \in Nat
  BY <1>2, <1>3, FS_Surjection, FS_CardinalityType
<1> QED
  BY <1>2, <1>4

LEMMA AtLeast ==
    ASSUME NEW n \in Nat, NEW T, IsFiniteSet(T), NEW b, \A e \in 0..(n - 1) : b[e] \in T,
           \A d, e \in 0..(n - 1) : d < e => b[d] # b[e]
    PROVE  Cardinality(T) >= n
<1> DEFINE g == [e \in 0..(n - 1) |-> b[e]]
<1>1. IsFiniteSet(0..(n - 1)) /\ Cardinality(0..(n - 1)) = n
  BY FS_Interval
<1>2. ASSUME NEW d \in 0..(n - 1), NEW e \in 0..(n - 1), g[d] = g[e]
      PROVE  d = e
  <2>1. d < e \/ e < d \/ d = e
    OBVIOUS
  <2> QED
    BY <1>2, <2>1
<1>3. g \in Injection(0..(n - 1), T)
  BY <1>2 DEF Injection, IsInjective
<1>4. Cardinality(0..(n - 1)) <= Cardinality(T) /\ Cardinality(T) \in Nat
  BY <1>3, FS_Injection, FS_CardinalityType
<1> QED
  BY <1>1, <1>4

\* The entry at each distance is what it should be.
Nth(x, S, d, f) ==
    IF Cardinality(S) <= d THEN x = None
    ELSE /\ x \in S
         /\ Cardinality({y \in S : f[y] < f[x]}) <= d
         /\ Cardinality({y \in S : f[y] <= f[x]}) > d

\* Each of the nearest is at its distance.
LEMMA NearestIsNth ==
    ASSUME NEW D \in Nat, NEW S, IsFiniteSet(S), None \notin S, NEW f, \A y \in S : f[y] \in Int,
           NEW b, Nearest(b, D, S, f), NEW d \in 0..(D - 1)
    PROVE  Nth(b[d], S, d, f)
<1>1. \A e \in 0..(D - 1) : b[e] = None \/ b[e] \in S
  BY DEF Nearest
<1>2. \A c, e \in 0..(D - 1) : c < e /\ b[e] # None =>
        b[c] # None /\ b[c] # b[e] /\ f[b[c]] <= f[b[e]]
  BY DEF Nearest
<1>3. \A y \in S : (\E e \in 0..(D - 1) : b[e] = y) \/ (b[D - 1] # None /\ f[b[D - 1]] <= f[y])
  BY DEF Nearest
<1>4. Cardinality(S) \in Nat
  BY FS_CardinalityType
<1>5. CASE b[d] = None
  <2>1. b[D - 1] = None
    <3>1. CASE d = D - 1
      BY <1>5, <3>1
    <3>2. CASE d < D - 1
      BY <1>2, <1>5, <3>2
    <3> QED
      BY <3>1, <3>2
  <2>2. \A y \in S : \E e \in 0..(d - 1) : b[e] = y
    <3>1. ASSUME NEW y \in S
          PROVE  \E e \in 0..(d - 1) : b[e] = y
      <4>1. PICK e \in 0..(D - 1) : b[e] = y
        BY <1>3, <2>1
      <4>2. e # d /\ ~(d < e)
        BY <1>2, <1>5, <4>1
      <4> QED
        BY <4>1, <4>2
    <3> QED
      BY <3>1
  <2>3. Cardinality(S) <= d
    BY <2>2, AtMost
  <2> QED
    BY <1>5, <2>3 DEF Nth
<1>6. CASE b[d] # None
  <2> DEFINE nearer == {y \in S : f[y] < f[b[d]]}
             upto == {y \in S : f[y] <= f[b[d]]}
  <2>1. b[d] \in S /\ f[b[d]] \in Int
    BY <1>1, <1>6
  <2>2. ASSUME NEW e \in 0..d
        PROVE  b[e] \in upto
    <3>1. CASE e = d
      BY <2>1, <3>1
    <3>2. CASE e < d
      <4>1. b[e] # None /\ f[b[e]] <= f[b[d]]
        BY <1>2, <1>6, <3>2
      <4> QED
        BY <1>1, <4>1
    <3> QED
      BY <3>1, <3>2
  <2>3. ASSUME NEW c \in 0..d, NEW e \in 0..d, c < e
        PROVE  b[c] # b[e]
    <3>1. b[e] # None
      BY <2>2
    <3> QED
      BY <1>2, <2>3, <3>1
  <2>4. IsFiniteSet(upto) /\ upto \in SUBSET S
    BY FS_Subset
  <2>5. Cardinality(upto) \in Nat /\ Cardinality(upto) <= Cardinality(S)
    BY <2>4, FS_Subset, FS_CardinalityType
  <2>6. Cardinality(upto) >= d + 1
    <3>1. (d + 1) - 1 = d /\ d + 1 \in Nat
      OBVIOUS
    <3> HIDE DEF upto
    <3>2. PICK n \in Nat : n = d + 1 /\ n - 1 = d
      BY <3>1
    <3>3. /\ \A e \in 0..(n - 1) : b[e] \in upto
          /\ \A c, e \in 0..(n - 1) : c < e => b[c] # b[e]
      BY <2>2, <2>3, <3>2
    <3> QED
      BY <2>4, <3>2, <3>3, AtLeast
  <2>7. ASSUME NEW y \in nearer
        PROVE  \E e \in 0..(d - 1) : b[e] = y
    <3>1. f[y] \in Int /\ y \in S /\ f[y] < f[b[d]]
      OBVIOUS
    <3>2. ~(b[D - 1] # None /\ f[b[D - 1]] <= f[y])
      <4>1. CASE d = D - 1
        BY <2>1, <3>1, <4>1
      <4>2. CASE d < D - 1
        <5>1. SUFFICES ASSUME b[D - 1] # None, f[b[D - 1]] <= f[y]
                       PROVE  FALSE
          OBVIOUS
        <5>2. b[D - 1] \in S /\ f[b[d]] <= f[b[D - 1]]
          BY <1>1, <1>2, <4>2, <5>1
        <5> QED
          BY <2>1, <3>1, <5>1, <5>2
      <4> QED
        BY <4>1, <4>2
    <3>3. PICK e \in 0..(D - 1) : b[e] = y
      BY <1>3, <3>1, <3>2
    <3>4. ~(d < e)
      <4>1. SUFFICES ASSUME d < e
                     PROVE  FALSE
        OBVIOUS
      <4>2. f[b[d]] <= f[y]
        BY <1>2, <3>1, <3>3, <4>1
      <4> QED
        BY <2>1, <3>1, <4>2
    <3>5. e # d
      BY <2>1, <3>1, <3>3
    <3> QED
      BY <3>3, <3>4, <3>5
  <2>8. Cardinality(nearer) <= d
    <3>1. d \in Nat /\ \A y \in nearer : \E e \in 0..(d - 1) : b[e] = y
      BY <2>7
    <3> HIDE DEF nearer
    <3> QED
      BY <3>1, AtMost
  <2>9. ~(Cardinality(S) <= d) /\ Cardinality(upto) > d
    BY <1>4, <2>5, <2>6
  <2> QED
    BY <2>1, <2>8, <2>9 DEF Nth
<1> QED
  BY <1>5, <1>6

-----------------------------------------------------------------------------
(* Folds *)

\* Max of the community modules is the greatest.
LEMMA MaxOf ==
    ASSUME NEW n \in Nat, NEW s \in SUBSET (0..n), s # {}
    PROVE  Max(s) \in s /\ \A x \in s : x <= Max(s)
<1>1. PICK k \in s : \A j \in s : j <= k
  BY GreatestNumber
<1>2. \E x \in s : \A y \in s : x >= y
  BY <1>1
<1>3. Max(s) \in s /\ \A y \in s : Max(s) >= y
  BY <1>2 DEF Max
<1> QED
  BY <1>3

\* The last of a set of places.
LEMMA Lasts ==
    ASSUME NEW n \in Nat, NEW s \in SUBSET (1..n), s # {}
    PROVE  Max(s) \in s /\ Max(s) \in 1..n /\ s \ {Max(s)} \in SUBSET (1..n) /\ \A x \in s : x <= Max(s)
<1>1. s \in SUBSET (0..n)
  OBVIOUS
<1> QED
  BY <1>1, MaxOf

\* Steps of a fold over the places 1..n, and that there is a fold with them.
Steps(n, V) == [(1..n) \X V -> V]
Foldable(n, V, base, g) ==
    \E f \in [SUBSET (1..n) -> V] : \A s \in SUBSET (1..n) :
        f[s] = IF s = {} THEN base ELSE g[<<Max(s), f[s \ {Max(s)}]>>]

\* A fold over the places 1..n goes from a set of places to the one without its
\* last: there is a function that does this, first on the sets up to some place,
\* and then with the next one.
LEMMA FoldExists ==
    ASSUME NEW n \in Nat, NEW V, NEW base \in V, NEW g \in Steps(n, V)
    PROVE  Foldable(n, V, base, g)
<1> DEFINE D == SUBSET (1..n)
           Folds(f, s) == f[s] = IF s = {} THEN base ELSE g[<<Max(s), f[s \ {Max(s)}]>>]
           T == {m \in 0..n : ~\E f \in [D -> V] : \A s \in SUBSET (1..m) : Folds(f, s)}
<1>1. ASSUME NEW s \in D, s # {}
      PROVE  Max(s) \in s /\ Max(s) \in 1..n /\ s \ {Max(s)} \in D /\ \A x \in s : x <= Max(s)
  BY <1>1, Lasts
<1>2. T = {}
  <2>1. SUFFICES ASSUME T # {}
                 PROVE  FALSE
    OBVIOUS
  <2>2. PICK m \in T : \A j \in T : m <= j
    <3>1. T \in SUBSET (0..n)
      OBVIOUS
    <3> HIDE DEF T
    <3> QED
      BY <2>1, <3>1, LeastNumber
  <2>3. CASE m = 0
    <3> DEFINE f == [s \in D |-> base]
    <3>1. f \in [D -> V] /\ f[{}] = base
      OBVIOUS
    <3>2. \A s \in SUBSET (1..0) : s = {}
      OBVIOUS
    <3> QED
      BY <2>2, <2>3, <3>1, <3>2
  <2>4. CASE m # 0
    <3>1. m - 1 \in 0..n /\ m - 1 \notin T /\ m \in 1..n
      <4>1. m \in 0..n
        OBVIOUS
      <4> HIDE DEF T
      <4>2. m - 1 \in T => m <= m - 1
        BY <2>2
      <4> QED
        BY <2>4, <4>1, <4>2
    <3>2. PICK f \in [D -> V] : \A s \in SUBSET (1..(m - 1)) : Folds(f, s)
      BY <3>1
    <3> DEFINE small == SUBSET (1..(m - 1))
               h == [s \in D |-> IF s \in small THEN f[s] ELSE g[<<Max(s), f[s \ {Max(s)}]>>]]
    <3>3. h \in [D -> V]
      <4>1. ASSUME NEW s \in D, s \notin small
            PROVE  g[<<Max(s), f[s \ {Max(s)}]>>] \in V
        <5>1. s # {}
          BY <4>1
        <5>2. Max(s) \in 1..n /\ f[s \ {Max(s)}] \in V
          BY <1>1, <5>1
        <5> QED
          BY <5>2 DEF Steps
      <4> QED
        BY <4>1
    <3>4. ASSUME NEW s \in SUBSET (1..m)
          PROVE  Folds(h, s)
      <4>1. s \in D
        BY <3>1
      <4>2. CASE s \in small
        <5>1. CASE s = {}
          <6>1. h[s] = f[s] /\ Folds(f, s)
            BY <3>2, <4>1, <4>2
          <6> HIDE DEF h
          <6> QED
            BY <5>1, <6>1
        <5>2. CASE s # {}
          <6>1. s \ {Max(s)} \in small /\ s \ {Max(s)} \in D
            BY <1>1, <4>1, <4>2, <5>2
          <6>2. h[s] = f[s] /\ h[s \ {Max(s)}] = f[s \ {Max(s)}] /\ Folds(f, s)
            BY <3>2, <4>1, <4>2, <6>1
          <6> HIDE DEF h
          <6> QED
            BY <5>2, <6>2
        <5> QED
          BY <5>1, <5>2
      <4>3. CASE s \notin small
        <5>1. s # {} /\ m \in s
          <6>1. \A x \in s : x \in 1..m
            OBVIOUS
          <6>2. m \notin s => \A x \in s : x \in 1..(m - 1)
            BY <3>1, <6>1
          <6> QED
            BY <4>3, <6>2
        <5>2. Max(s) = m
          BY <1>1, <3>1, <4>1, <5>1
        <5>3. s \ {m} \in small /\ s \ {m} \in D
          <6>1. \A x \in 1..m : x # m => x \in 1..(m - 1)
            BY <3>1
          <6>2. s \ {m} \in small
            BY <6>1
          <6> QED
            BY <4>1, <6>2
        <5>4. h[s \ {m}] = f[s \ {m}]
          BY <5>3
        <5>5. h[s] = g[<<Max(s), f[s \ {Max(s)}]>>]
          BY <4>1, <4>3
        <5> HIDE DEF h
        <5> QED
          BY <5>1, <5>2, <5>4, <5>5
      <4> QED
        BY <4>2, <4>3
    <3> HIDE DEF h, Folds
    <3> QED
      BY <2>2, <3>3, <3>4
  <2> QED
    BY <2>3, <2>4
<1>3. n \in 0..n /\ n \notin T
  <2> HIDE DEF T
  <2> QED
    BY <1>2
<1> QED
  BY <1>3 DEF Foldable

\* The values that a fold goes through.
Runs(v, n, V, base, g) ==
    v \in [0..n -> V] /\ v[0] = base /\ \A m \in 1..n : v[m] = g[<<m, v[m - 1]>>]

\* A function on sets of places that folds as long as its values are in V.
FoldsBy(f, n, V, base, g) ==
    /\ f[{}] = base
    /\ \A s \in SUBSET (1..n) : s # {} /\ f[s \ {Max(s)}] \in V =>
          f[s] = g[<<Max(s), f[s \ {Max(s)}]>>]

\* Such a fold goes through the values of a run.
LEMMA FoldRuns ==
    ASSUME NEW n \in Nat, NEW V, NEW base \in V, NEW g \in Steps(n, V), NEW f, FoldsBy(f, n, V, base, g)
    PROVE  \E v : Runs(v, n, V, base, g) /\ v[n] = f[1..n]
<1>0. /\ f[{}] = base
      /\ \A s \in SUBSET (1..n) : s # {} /\ f[s \ {Max(s)}] \in V =>
            f[s] = g[<<Max(s), f[s \ {Max(s)}]>>]
  BY DEF FoldsBy
<1> DEFINE v == [m \in 0..n |-> f[1..m]]
<1>1. ASSUME NEW m \in 1..n
      PROVE  /\ 1..m \in SUBSET (1..n) /\ 1..m # {} /\ Max(1..m) = m /\ (1..m) \ {m} = 1..(m - 1)
             /\ 1..(m - 1) \in SUBSET (1..n)
  <2>1. 1..m \in SUBSET (1..n) /\ m \in 1..m
    OBVIOUS
  <2>2. Max(1..m) \in 1..m /\ \A x \in 1..m : x <= Max(1..m)
    BY <2>1, Lasts
  <2>3. Max(1..m) = m
    BY <2>1, <2>2
  <2> QED
    BY <2>1, <2>3
<1>2. v[0] = base
  <2>1. 1..0 = {}
    OBVIOUS
  <2> QED
    BY <1>0, <2>1
<1>3. ASSUME NEW m \in 1..n, v[m - 1] \in V
      PROVE  v[m] = g[<<m, v[m - 1]>>]
  <2>1. v[m] = f[1..m] /\ v[m - 1] = f[1..(m - 1)]
    <3>1. m \in 0..n /\ m - 1 \in 0..n
      OBVIOUS
    <3> QED
      BY <3>1
  <2>2. f[1..m] = g[<<Max(1..m), f[(1..m) \ {Max(1..m)}]>>]
    <3>1. PICK s \in SUBSET (1..n) : s = 1..m /\ s # {}
      BY <1>1
    <3>2. s \ {Max(s)} = 1..(m - 1)
      BY <1>1, <3>1
    <3> HIDE DEF v
    <3>3. f[s \ {Max(s)}] \in V
      BY <1>3, <2>1, <3>2
    <3>4. f[s] = g[<<Max(s), f[s \ {Max(s)}]>>]
      BY <1>0, <3>1, <3>3
    <3> QED
      BY <3>1, <3>4
  <2> HIDE DEF v
  <2> QED
    BY <1>1, <2>1, <2>2
<1>4. v[n] = f[1..n]
  OBVIOUS
<1> HIDE DEF v
<1> DEFINE T == {m \in 0..n : v[m] \notin V}
<1>5. T = {}
  <2>1. SUFFICES ASSUME T # {}
                 PROVE  FALSE
    OBVIOUS
  <2>2. PICK m \in T : \A j \in T : m <= j
    <3>1. T \in SUBSET (0..n)
      OBVIOUS
    <3> HIDE DEF T
    <3> QED
      BY <2>1, <3>1, LeastNumber
  <2>3. m # 0 /\ m \in 0..n
    BY <1>2, <2>2
  <2>4. m \in 1..n /\ m - 1 \in 0..n /\ m - 1 \notin T
    BY <2>2, <2>3
  <2>5. v[m - 1] \in V
    BY <2>4
  <2>6. g[<<m, v[m - 1]>>] \in V
    BY <2>4, <2>5 DEF Steps
  <2> QED
    BY <1>3, <2>2, <2>4, <2>5, <2>6
<1>6. v \in [0..n -> V]
  <2>1. \A m \in 0..n : v[m] \in V
    BY <1>5
  <2>2. v = [m \in 0..n |-> v[m]]
    BY DEF v
  <2> QED
    BY <2>1, <2>2
<1>7. \A m \in 1..n : v[m] = g[<<m, v[m - 1]>>]
  <2>1. ASSUME NEW m \in 1..n
        PROVE  v[m] = g[<<m, v[m - 1]>>]
    <3>1. m - 1 \in 0..n
      OBVIOUS
    <3> QED
      BY <1>3, <1>6, <3>1
  <2> QED
    BY <2>1
<1> QED
  BY <1>2, <1>4, <1>6, <1>7 DEF Runs

\* What holds at the start and is kept by each step holds of all values.
LEMMA RunKeeps ==
    ASSUME NEW n \in Nat, NEW P, 0 \in P, \A m \in 1..n : m - 1 \in P => m \in P
    PROVE  \A m \in 0..n : m \in P
<1> DEFINE T == {m \in 0..n : m \notin P}
<1>1. T = {}
  <2>1. SUFFICES ASSUME T # {}
                 PROVE  FALSE
    OBVIOUS
  <2>2. PICK m \in T : \A j \in T : m <= j
    <3>1. T \in SUBSET (0..n)
      OBVIOUS
    <3> HIDE DEF T
    <3> QED
      BY <2>1, <3>1, LeastNumber
  <2>3. m \in 1..n /\ m - 1 \in 0..n /\ m - 1 \notin T
    BY <2>2
  <2> QED
    BY <2>2, <2>3
<1> QED
  BY <1>1

-----------------------------------------------------------------------------
(* Walks *)

\* A walk that meets elements in the order of their distance gives each its
\* entry, until one is not nearer than the last: from then on nothing changes.
WalkStep(b1, e1, b0, e0, D, x, f) ==
    \/ e0 /\ e1 /\ b1 = b0
    \/ ~e0 /\ ~e1 /\ \E p \in 0..(D - 1) : Fits(b0, p, x, f) /\ Shifts(b1, b0, D, p, x)
    \/ ~e0 /\ e1 /\ b1 = b0 /\ b0[D - 1] # None /\ f[b0[D - 1]] <= f[x]

Met(S, q, m) == S \cup {q[j] : j \in 1..m}

\* Such a walk ends with the nearest of all that it met, too.
LEMMA WalkNearest ==
    ASSUME NEW D \in Nat \ {0}, NEW n \in Nat, NEW S, NEW q, None \notin S,
           \A j \in 1..n : q[j] # None /\ q[j] \notin S,
           \A i, j \in 1..n : i < j => q[i] # q[j],
           NEW f, \A y \in S : f[y] \in Int, \A j \in 1..n : f[q[j]] \in Int,
           \A i, j \in 1..n : i < j => f[q[i]] <= f[q[j]],
           NEW b, NEW e, e[0] = FALSE, Nearest(b[0], D, S, f),
           \A m \in 1..n : Nearest(b[m - 1], D, Met(S, q, m - 1), f) =>
              WalkStep(b[m], e[m], b[m - 1], e[m - 1], D, q[m], f)
    PROVE  Nearest(b[n], D, Met(S, q, n), f)
<1> DEFINE Good(m) == /\ Nearest(b[m], D, Met(S, q, m), f)
                      /\ e[m] => /\ b[m][D - 1] # None
                                 /\ \A j \in (m + 1)..n : f[b[m][D - 1]] <= f[q[j]]
           P == {m \in 0..n : Good(m)}
<1>1. 0 \in P
  <2>1. Met(S, q, 0) = S
    BY DEF Met
  <2> QED
    BY <2>1
<1>2. ASSUME NEW m \in 1..n, m - 1 \in P
      PROVE  m \in P
  <2>1. Good(m - 1)
    BY <1>2
  <2>2. PICK R : R = Met(S, q, m - 1)
    OBVIOUS
  <2>3. Met(S, q, m) = R \cup {q[m]}
    <3>1. 1..m = (1..(m - 1)) \cup {m}
      OBVIOUS
    <3> QED
      BY <2>2, <3>1 DEF Met
  <2>4. None \notin R /\ q[m] # None /\ q[m] \notin R /\ \A y \in R \cup {q[m]} : f[y] \in Int
    <3>1. \A j \in 1..(m - 1) : j \in 1..n /\ j < m
      OBVIOUS
    <3> QED
      BY <2>2, <3>1 DEF Met
  <2>5. Nearest(b[m - 1], D, R, f)
    BY <2>1, <2>2
  <2>6. WalkStep(b[m], e[m], b[m - 1], e[m - 1], D, q[m], f)
    BY <2>2, <2>5
  <2>7. ASSUME e[m - 1] /\ e[m] /\ b[m] = b[m - 1]
        PROVE  Good(m)
    <3>1. b[m - 1][D - 1] # None /\ f[b[m - 1][D - 1]] <= f[q[m]]
      <4>1. m \in ((m - 1) + 1)..n
        OBVIOUS
      <4> QED
        BY <2>1, <2>7, <4>1
    <3>2. Nearest(b[m], D, R \cup {q[m]}, f)
      BY <2>5, <2>7, <3>1, NearestPassed
    <3>3. \A j \in (m + 1)..n : f[b[m][D - 1]] <= f[q[j]]
      <4>1. \A j \in (m + 1)..n : j \in ((m - 1) + 1)..n
        OBVIOUS
      <4> QED
        BY <2>1, <2>7, <4>1
    <3>4. Nearest(b[m], D, Met(S, q, m), f) /\ b[m][D - 1] # None
      BY <2>3, <2>7, <3>1, <3>2
    <3> QED
      BY <3>3, <3>4
  <2>8. ASSUME ~e[m], NEW p \in 0..(D - 1), Fits(b[m - 1], p, q[m], f),
               Shifts(b[m], b[m - 1], D, p, q[m])
        PROVE  Good(m)
    <3>1. Nearest(b[m], D, R \cup {q[m]}, f)
      BY <2>4, <2>5, <2>8, NearestInserted
    <3>2. Nearest(b[m], D, Met(S, q, m), f)
      BY <2>3, <3>1
    <3> QED
      BY <2>8, <3>2
  <2>9. ASSUME b[m] = b[m - 1] /\ b[m - 1][D - 1] # None /\ f[b[m - 1][D - 1]] <= f[q[m]]
        PROVE  Good(m)
    <3>1. Nearest(b[m], D, R \cup {q[m]}, f)
      BY <2>5, <2>9, NearestPassed
    <3>2. ASSUME NEW j \in (m + 1)..n
          PROVE  f[b[m][D - 1]] <= f[q[j]]
      <4>1. b[m][D - 1] \in R
        BY <2>5, <2>9 DEF Nearest
      <4>2. f[b[m][D - 1]] \in Int /\ f[q[m]] \in Int /\ f[q[j]] \in Int
        BY <2>4, <4>1
      <4>3. f[q[m]] <= f[q[j]]
        OBVIOUS
      <4> QED
        BY <2>9, <4>2, <4>3
    <3>3. Nearest(b[m], D, Met(S, q, m), f) /\ b[m][D - 1] # None
      BY <2>3, <2>9, <3>1
    <3> QED
      BY <3>2, <3>3
  <2>10. Good(m)
    <3> HIDE DEF Good
    <3> QED
      BY <2>6, <2>7, <2>8, <2>9 DEF WalkStep
  <2> QED
    BY <2>10
<1>3. n \in P
  <2>1. n \in 0..n /\ 0 \in P /\ \A m \in 1..n : m - 1 \in P => m \in P
    BY <1>1, <1>2
  <2> HIDE DEF P
  <2> QED
    BY <2>1, RunKeeps
<1> QED
  BY <1>3

\* The search in the table of a module parts its symbols.
LEMMA TableParts ==
    ASSUME NEW t, NEW addr \in Int, NEW n \in Nat \ {0}, t.nentries = n,
           \A i \in 0..(n - 1) : Value(t, i) \in Int,
           \A i \in 0..(n - 2) : Value(t, i) <= Value(t, i + 1)
    PROVE  \E c \in 0..(n - 1) :
              /\ cexpSymTblLkAddrIdx(t, addr) = c
              /\ \A i \in (c + 1)..(n - 1) : addr < Value(t, i)
              /\ (\A i \in 0..c : Value(t, i) <= addr) \/ (c = 0 /\ addr < Value(t, 0))
<1> DEFINE v == [i \in 0..(n - 1) |-> Value(t, i)]
<1>1. ASSUME NEW i \in 0..(n - 1), NEW j \in 0..(n - 1), i <= j
      PROVE  Value(t, i) <= Value(t, j)
  <2>1. \A k \in 0..(n - 1) : v[k] = Value(t, k) /\ v[k] \in Int
    OBVIOUS
  <2>2. \A k \in 0..(n - 2) : v[k] <= v[k + 1]
    OBVIOUS
  <2> HIDE DEF v
  <2>3. v[i] <= v[j]
    BY <1>1, <2>1, <2>2, AscendsFar
  <2> QED
    BY <2>1, <2>3
<1> DEFINE f == CHOOSE f : f = [b \in Bounds(n) |-> Halves(t, addr, f, b)]
           b == <<0, n - 1>>
<1>2. f = [c \in Bounds(n) |-> Halves(t, addr, f, c)]
  BY SearchDefined
<1>3. cexpSymTblLkAddrIdx(t, addr) = f[b]
  BY SearchIs
<1>4. b \in Bounds(n) /\ b[1] = 0 /\ b[2] = n - 1 /\ b[1] <= b[2] /\ b[2] <= n - 1
  BY DEF Bounds
<1> HIDE DEF f, b, v
<1>5. /\ f[b] \in b[1]..b[2]
      /\ f[b] = b[1] \/ Value(t, f[b]) <= addr
      /\ f[b] = b[2] \/ addr < Value(t, f[b] + 1)
  BY <1>2, <1>4, SearchFinds
<1>6. PICK c \in 0..(n - 1) : c = f[b]
  BY <1>4, <1>5
<1>7. c = 0 \/ Value(t, c) <= addr
  BY <1>4, <1>5, <1>6
<1>8. ASSUME NEW i \in (c + 1)..(n - 1)
      PROVE  addr < Value(t, i)
  <2>1. c # n - 1 /\ c + 1 \in 0..(n - 1) /\ i \in 0..(n - 1) /\ c + 1 <= i
    OBVIOUS
  <2>2. addr < Value(t, c + 1)
    BY <1>4, <1>5, <1>6, <2>1
  <2>3. Value(t, c + 1) <= Value(t, i)
    BY <1>1, <2>1
  <2>4. Value(t, c + 1) \in Int /\ Value(t, i) \in Int
    BY <2>1
  <2> QED
    BY <2>2, <2>3, <2>4
<1>9. CASE Value(t, c) <= addr
  <2>1. ASSUME NEW i \in 0..c
        PROVE  Value(t, i) <= addr
    <3>1. i \in 0..(n - 1) /\ i <= c
      OBVIOUS
    <3>2. Value(t, i) <= Value(t, c) /\ Value(t, i) \in Int /\ Value(t, c) \in Int
      BY <1>1, <3>1
    <3> QED
      BY <1>9, <3>2
  <2> QED
    BY <1>3, <1>6, <1>8, <2>1
<1>10. CASE ~(Value(t, c) <= addr)
  <2>1. c = 0 /\ Value(t, c) \in Int
    BY <1>7, <1>10
  <2>2. addr < Value(t, 0)
    BY <1>10, <2>1
  <2> QED
    BY <1>3, <1>6, <1>8, <2>1, <2>2
<1> QED
  BY <1>9, <1>10

-----------------------------------------------------------------------------
(* Arrays and their steps *)

\* A place of a module has an address, and is not the null pointer.
LEMMA PlaceAddress ==
    ASSUME ModulesKept, NEW x \in Places
    PROVE  /\ gaddr(x) \in Int /\ x # None /\ x = <<x[1], x[2]>>
           /\ x[1] \in DOMAIN mods /\ x[2] \in 0..(mods[x[1]].n - 1)
<1>1. x = <<x[1], x[2]>> /\ x[1] \in DOMAIN mods /\ x[2] \in 0..(mods[x[1]].n - 1)
  BY PlacesType
<1>2. PICK m : m = mods[x[1]]
  OBVIOUS
<1>3. m.n \in Nat /\ x[1] \in Nat /\ x[2] \in Nat /\ m \in LoadedModule
  <2>1. mods[x[1]] \in LoadedModule
    BY <1>1 DEF ModulesKept
  <2> QED
    BY <1>1, <1>2, <2>1, ModulesType
<1>4. m.aindex[x[2]] \in DOMAIN m.syms
  <2>1. m.aindex \in Permuted(m.n) /\ m.n <= m.last /\ DOMAIN m.syms = 0..(m.last - 1)
    BY <1>1, <1>2 DEF ModulesKept
  <2>2. m.aindex \in [0..(m.n - 1) -> 0..(m.n - 1)]
    BY <2>1 DEF Permuted
  <2>3. m.last \in Nat
    BY <1>1, <1>2, ModulesType
  <2>4. m.aindex[x[2]] \in 0..(m.n - 1)
    BY <1>1, <1>2, <2>2
  <2> QED
    BY <1>3, <2>1, <2>3, <2>4
<1>5. m.syms[m.aindex[x[2]]] \in Entry
  <2>1. PICK n \in 1..MaxSyms : m.syms \in [0..(n - 1) -> Entry]
    BY <1>3 DEF LoadedModule
  <2> QED
    BY <1>4, <2>1
<1>6. gaddr(x) \in Int
  <2>1. m.syms[m.aindex[x[2]]].ptv \in Addresses
    BY <1>5 DEF Entry
  <2>2. gaddr(x) = m.syms[m.aindex[x[2]]].ptv
    BY <1>2 DEF gaddr
  <2>3. \A a \in Addresses : a \in Int
    BY MaxSymsOK
  <2> QED
    BY <2>1, <2>2, <2>3
<1>7. x # None
  <2>1. x \in Nat \X Nat
    BY <1>1, <1>3
  <2> QED
    BY <2>1, NoneOK
<1> QED
  BY <1>1, <1>6, <1>7

LEMMA NoneNoPlace ==
    ASSUME ModulesKept
    PROVE  None \notin Places
BY PlaceAddress

\* The array of a search, what goes with it on a walk, and distances.
Arrays(M) == [0..(2 * M) -> Places \cup {None}]
Walks(M) == [ar : Arrays(M), ends : BOOLEAN]
Dists(addr) == [x \in Places |-> IF gaddr(x) <= addr THEN addr - gaddr(x) ELSE gaddr(x) - addr]

\* The entries below the address and above it, by their distance.  Without a
\* margin they are the same one.
Highs(M) == IF M = 0 THEN 1 ELSE M
LowPart(ar, M) == [d \in 0..M |-> ar[M - d]]
HighPart(ar, M) == [d \in 0..(Highs(M) - 1) |-> ar[IF M = 0 THEN 0 ELSE M + 1 + d]]

\* The place that Below finds.
BelowHere(w, x, M, j) == j = M + 1 \/ (w.ar[j] # None /\ gaddr(x) <= gaddr(w.ar[j]))
BelowTakes(w, x, addr) == ~(w.ends \/ gaddr(x) > addr \/ (w.ar[0] # None /\ gaddr(x) < gaddr(w.ar[0])))
BelowIs(w, x, M, v, j) ==
    /\ v.ends = w.ends /\ v.ar = [k \in DOMAIN w.ar |-> v.ar[k]]
    /\ \A k \in DOMAIN w.ar : v.ar[k] = IF k < j - 1 THEN w.ar[k + 1] ELSE IF k = j - 1 THEN x ELSE w.ar[k]
    /\ BelowHere(w, x, M, j) /\ \A i \in 1..(j - 1) : ~BelowHere(w, x, M, i)

BelowGives(w, x, addr, M, v) ==
    /\ v = [ar |-> v.ar, ends |-> v.ends]
    /\ ~BelowTakes(w, x, addr) => v.ar = w.ar /\ v.ends = TRUE
    /\ BelowTakes(w, x, addr) => \E j \in 1..(M + 1) : BelowIs(w, x, M, v, j)

\* Below finds such a place.
LEMMA BelowPlace ==
    ASSUME NEW M \in Nat, NEW w \in Walks(M), NEW x, NEW addr
    PROVE  BelowGives(w, x, addr, M, Below(w, x, addr, M))
<1> DEFINE here(j) == j = M + 1 \/ (w.ar[j] # None /\ gaddr(x) <= gaddr(w.ar[j]))
           T == {i \in 1..(M + 1) : here(i)}
           j0 == CHOOSE j \in 1..(M + 1) : here(j) /\ \A i \in 1..(j - 1) : ~here(i)
<1>0. w = [ar |-> w.ar, ends |-> w.ends]
  BY DEF Walks
<1>1. \E j \in 1..(M + 1) : here(j) /\ \A i \in 1..(j - 1) : ~here(i)
  <2>1. T \in SUBSET (0..(M + 1)) /\ M + 1 \in T /\ M + 1 \in Nat
    OBVIOUS
  <2>2. PICK k \in T : \A i \in T : k <= i
    <3> HIDE DEF T
    <3> QED
      BY <2>1, LeastNumber
  <2>3. k \in 1..(M + 1) /\ here(k)
    BY <2>2
  <2>4. \A i \in 1..(k - 1) : i \in 1..(M + 1) /\ i \notin T
    BY <2>2, <2>3
  <2> QED
    BY <2>3, <2>4
<1>2. j0 \in 1..(M + 1) /\ here(j0) /\ \A i \in 1..(j0 - 1) : ~here(i)
  <2> HIDE DEF here
  <2> QED
    BY <1>1
<1>3. Below(w, x, addr, M) =
        IF ~BelowTakes(w, x, addr) THEN [w EXCEPT !.ends = TRUE]
        ELSE [w EXCEPT !.ar = [k \in DOMAIN w.ar |->
                IF k < j0 - 1 THEN w.ar[k + 1] ELSE IF k = j0 - 1 THEN x ELSE w.ar[k]]]
  BY DEF Below, BelowTakes
<1>4. CASE ~BelowTakes(w, x, addr)
  <2>1. Below(w, x, addr, M) = [ar |-> w.ar, ends |-> TRUE]
    BY <1>0, <1>3, <1>4
  <2> QED
    BY <1>4, <2>1 DEF BelowGives
<1>5. CASE BelowTakes(w, x, addr)
  <2> HIDE DEF j0, here
  <2>1. PICK ar : ar = [k \in DOMAIN w.ar |->
            IF k < j0 - 1 THEN w.ar[k + 1] ELSE IF k = j0 - 1 THEN x ELSE w.ar[k]]
    OBVIOUS
  <2>2. Below(w, x, addr, M) = [ar |-> ar, ends |-> w.ends]
    BY <1>0, <1>3, <1>5, <2>1
  <2>3. BelowHere(w, x, M, j0) /\ \A i \in 1..(j0 - 1) : ~BelowHere(w, x, M, i)
    BY <1>2 DEF BelowHere, here
  <2>4. BelowIs(w, x, M, Below(w, x, addr, M), j0)
    BY <2>1, <2>2, <2>3 DEF BelowIs
  <2> QED
    BY <1>2, <1>5, <2>2, <2>4 DEF BelowGives
<1> QED
  BY <1>4, <1>5

\* What Below makes of an array is one, and only differs below the middle.
LEMMA BelowType ==
    ASSUME NEW M \in Nat, NEW w \in Walks(M), NEW x \in Places, NEW addr
    PROVE  LET v == Below(w, x, addr, M) IN
           v \in Walks(M) /\ \A k \in (M + 1)..(2 * M) : v.ar[k] = w.ar[k]
<1>1. PICK v : v = Below(w, x, addr, M)
  OBVIOUS
<1>2. BelowGives(w, x, addr, M, v)
  BY <1>1, BelowPlace
<1>3. /\ w.ar \in Arrays(M) /\ w.ends \in BOOLEAN /\ DOMAIN w.ar = 0..(2 * M)
      /\ \A k \in 0..(2 * M) : w.ar[k] \in Places \cup {None}
  BY DEF Walks, Arrays
<1>4. CASE ~BelowTakes(w, x, addr)
  <2>1. v \in Walks(M)
    BY <1>2, <1>3, <1>4 DEF Walks, BelowGives
  <2> QED
    BY <1>1, <1>2, <1>4, <2>1 DEF BelowGives
<1>5. CASE BelowTakes(w, x, addr)
  <2>1. PICK j \in 1..(M + 1) : BelowIs(w, x, M, v, j)
    BY <1>2, <1>5 DEF BelowGives
  <2>2. /\ v.ends = w.ends /\ v.ar = [k \in 0..(2 * M) |-> v.ar[k]]
        /\ \A k \in 0..(2 * M) : v.ar[k] = IF k < j - 1 THEN w.ar[k + 1] ELSE IF k = j - 1 THEN x ELSE w.ar[k]
    BY <1>3, <2>1 DEF BelowIs
  <2>3. ASSUME NEW k \in 0..(2 * M)
        PROVE  v.ar[k] \in Places \cup {None} /\ (k > M => v.ar[k] = w.ar[k])
    <3>1. CASE k < j - 1
      <4>1. k + 1 \in 0..(2 * M) /\ ~(k > M)
        BY <3>1
      <4> QED
        BY <1>3, <2>2, <3>1, <4>1
    <3>2. CASE k = j - 1
      BY <2>2, <3>2
    <3>3. CASE k > j - 1
      BY <1>3, <2>2, <3>3
    <3> QED
      BY <3>1, <3>2, <3>3
  <2>5. v.ar \in Arrays(M)
    BY <2>2, <2>3 DEF Arrays
  <2>6. v \in Walks(M)
    BY <1>2, <1>3, <2>2, <2>5 DEF Walks, BelowGives
  <2> QED
    BY <1>1, <2>3, <2>6
<1> QED
  BY <1>4, <1>5

\* Below the address, Below takes a step of the walk.
LEMMA BelowWalks ==
    ASSUME ModulesKept, NEW M \in Nat, NEW addr \in Int, NEW w \in Walks(M), NEW x \in Places,
           gaddr(x) <= addr, NEW S \in SUBSET Places, \A y \in S : gaddr(y) <= addr,
           Nearest(LowPart(w.ar, M), M + 1, S, Dists(addr))
    PROVE  LET v == Below(w, x, addr, M) IN
           WalkStep(LowPart(v.ar, M), v.ends, LowPart(w.ar, M), w.ends, M + 1, x, Dists(addr))
<1>1. PICK v : v = Below(w, x, addr, M)
  OBVIOUS
<1>2. BelowGives(w, x, addr, M, v)
  BY <1>1, BelowPlace
<1>3. PICK f : f = Dists(addr)
  OBVIOUS
<1>4. \A y \in S \cup {x} : f[y] = addr - gaddr(y) /\ f[y] \in Int /\ gaddr(y) \in Int
  BY <1>3, PlaceAddress DEF Dists
<1>5. PICK b0 : b0 = LowPart(w.ar, M)
  OBVIOUS
<1>6. PICK b1 : b1 = LowPart(v.ar, M)
  OBVIOUS
<1>7. \A d \in 0..M : b0[d] = w.ar[M - d] /\ b1[d] = v.ar[M - d]
  BY <1>5, <1>6 DEF LowPart
<1>8. PICK D \in Nat : D = M + 1
  OBVIOUS
<1>9. D - 1 = M /\ b0[D - 1] = w.ar[0] /\ 0..(D - 1) = 0..M
  BY <1>7, <1>8
<1>10. /\ \A d \in 0..M : b0[d] = None \/ b0[d] \in S
       /\ \A d, e \in 0..M : d < e /\ b0[e] # None => b0[d] # None /\ f[b0[d]] <= f[b0[e]]
  BY <1>3, <1>5, <1>8, <1>9 DEF Nearest
<1>11. w.ends \in BOOLEAN
  BY DEF Walks
<1>12. CASE w.ends
  <2>1. v.ar = w.ar /\ v.ends = TRUE
    BY <1>2, <1>12 DEF BelowGives, BelowTakes
  <2> QED
    BY <1>1, <1>12, <2>1 DEF WalkStep
<1>13. CASE ~w.ends /\ w.ar[0] # None /\ gaddr(x) < gaddr(w.ar[0])
  <2>1. v.ar = w.ar /\ v.ends = TRUE
    BY <1>2, <1>13 DEF BelowGives, BelowTakes
  <2>2. b0[D - 1] \in S
    BY <1>9, <1>10, <1>13
  <2>3. f[b0[D - 1]] <= f[x]
    BY <1>4, <1>9, <1>13, <2>2
  <2>4. WalkStep(b1, v.ends, b0, w.ends, D, x, f)
    BY <1>5, <1>6, <1>9, <1>13, <2>1, <2>3 DEF WalkStep
  <2> QED
    BY <1>1, <1>3, <1>5, <1>6, <1>8, <2>4
<1>14. CASE ~w.ends /\ ~(w.ar[0] # None /\ gaddr(x) < gaddr(w.ar[0]))
  <2>1. gaddr(x) \in Int /\ BelowTakes(w, x, addr)
    BY <1>4, <1>14 DEF BelowTakes
  <2>2. PICK j \in 1..(M + 1) : BelowIs(w, x, M, v, j)
    BY <1>2, <2>1 DEF BelowGives
  <2>3. PICK p \in 0..M : p = M + 1 - j /\ M - p = j - 1
    OBVIOUS
  <2>4. BelowHere(w, x, M, j) /\ \A i \in 1..(j - 1) : ~BelowHere(w, x, M, i)
    BY <2>2 DEF BelowIs
  <2>5. ASSUME NEW e \in 0..(p - 1)
        PROVE  b0[e] # None /\ f[b0[e]] <= f[x]
    <3>1. j \in 1..M /\ M - j \in 0..M /\ b0[M - j] = w.ar[j] /\ e \in 0..M /\ e <= M - j
      <4>1. j \in 1..M /\ M - j \in 0..M /\ M - (M - j) = j /\ e \in 0..M /\ e <= M - j
        BY <2>3
      <4> QED
        BY <1>7, <4>1
    <3>2. w.ar[j] # None /\ gaddr(x) <= gaddr(w.ar[j])
      BY <2>4, <3>1 DEF BelowHere
    <3>3. b0[M - j] \in S /\ f[b0[M - j]] <= f[x]
      BY <1>4, <1>10, <3>1, <3>2
    <3>4. b0[e] # None /\ f[b0[e]] <= f[b0[M - j]]
      <4>1. CASE e = M - j
        BY <1>4, <3>2, <3>3, <3>1, <4>1
      <4>2. CASE e < M - j
        BY <1>10, <3>1, <3>2, <4>2
      <4> QED
        BY <3>1, <4>1, <4>2
    <3>5. b0[e] \in S
      BY <1>10, <3>1, <3>4
    <3>6. f[b0[e]] \in Int /\ f[b0[M - j]] \in Int /\ f[x] \in Int
      BY <1>4, <3>3, <3>5
    <3> QED
      BY <3>3, <3>4, <3>6
  <2>6. b0[p] = None \/ f[x] <= f[b0[p]]
    <3>1. SUFFICES ASSUME b0[p] # None
                   PROVE  f[x] <= f[b0[p]]
      OBVIOUS
    <3>2. b0[p] \in S /\ b0[p] = w.ar[j - 1]
      BY <1>7, <1>10, <2>3, <3>1
    <3>3. gaddr(w.ar[j - 1]) <= gaddr(x)
      <4>1. gaddr(w.ar[j - 1]) \in Int /\ gaddr(x) \in Int
        BY <1>4, <3>2
      <4>2. CASE j = 1
        <5>1. j - 1 = 0
          BY <4>2
        <5> QED
          BY <1>14, <3>1, <3>2, <4>1, <5>1
      <4>3. CASE j # 1
        <5>1. j - 1 \in 1..(j - 1)
          BY <4>3
        <5>2. ~BelowHere(w, x, M, j - 1)
          BY <2>4, <5>1
        <5> QED
          BY <3>1, <3>2, <4>1, <5>2 DEF BelowHere
      <4> QED
        BY <4>2, <4>3
    <3> QED
      BY <1>4, <3>2, <3>3
  <2>7. ASSUME NEW e \in 0..M
        PROVE  b1[e] = IF e < p THEN b0[e] ELSE IF e = p THEN x ELSE b0[e - 1]
    <3>1. PICK k \in 0..M : k = M - e
      OBVIOUS
    <3>2. v.ar[k] = IF k < j - 1 THEN w.ar[k + 1] ELSE IF k = j - 1 THEN x ELSE w.ar[k]
      <4>1. k \in DOMAIN w.ar
        <5>1. k \in 0..(2 * M)
          OBVIOUS
        <5> QED
          BY <5>1 DEF Walks, Arrays
      <4> QED
        BY <2>2, <4>1 DEF BelowIs
    <3>3. b1[e] = v.ar[k] /\ b0[e] = w.ar[k]
      BY <1>7, <3>1
    <3>4. CASE e < p
      <4>1. k > j - 1
        BY <2>3, <3>1, <3>4
      <4> QED
        BY <3>2, <3>3, <3>4, <4>1
    <3>5. CASE e = p
      <4>1. k = j - 1
        BY <2>3, <3>1, <3>5
      <4> QED
        BY <3>2, <3>3, <3>5, <4>1
    <3>6. CASE e > p
      <4>1. k < j - 1 /\ e - 1 \in 0..M /\ M - (e - 1) = k + 1
        BY <2>3, <3>1, <3>6
      <4>2. b0[e - 1] = w.ar[k + 1]
        BY <1>7, <4>1
      <4> QED
        BY <3>2, <3>3, <3>6, <4>1, <4>2
    <3> QED
      BY <3>4, <3>5, <3>6
  <2>8. v.ends = w.ends
    BY <2>2 DEF BelowIs
  <2>9. p \in 0..(D - 1) /\ Fits(b0, p, x, f) /\ Shifts(b1, b0, D, p, x)
    BY <1>9, <2>5, <2>6, <2>7 DEF Fits, Shifts
  <2>10. WalkStep(b1, v.ends, b0, w.ends, D, x, f)
    BY <1>14, <2>8, <2>9 DEF WalkStep
  <2> QED
    BY <1>1, <1>3, <1>5, <1>6, <1>8, <2>10
<1> QED
  BY <1>11, <1>12, <1>13, <1>14

\* The place that Above finds.
AboveHere(w, x, M, j) == j <= M \/ (w.ar[j] # None /\ gaddr(x) >= gaddr(w.ar[j]))
AboveTakes(w, x, addr, M) ==
    ~(w.ends \/ gaddr(x) <= addr \/ (w.ar[2 * M] # None /\ gaddr(x) > gaddr(w.ar[2 * M])))
AboveIs(w, x, M, v, j) ==
    /\ v.ends = w.ends /\ v.ar = [k \in DOMAIN w.ar |-> v.ar[k]]
    /\ \A k \in DOMAIN w.ar : v.ar[k] = IF k > j + 1 THEN w.ar[k - 1] ELSE IF k = j + 1 THEN x ELSE w.ar[k]
    /\ AboveHere(w, x, M, j) /\ \A i \in (j + 1)..(2 * M - 1) : ~AboveHere(w, x, M, i)
AboveGives(w, x, addr, M, v) ==
    /\ v = [ar |-> v.ar, ends |-> v.ends]
    /\ ~AboveTakes(w, x, addr, M) => v.ar = w.ar /\ v.ends = TRUE
    /\ AboveTakes(w, x, addr, M) => \E j \in (M - 1)..(2 * M - 1) : AboveIs(w, x, M, v, j)

\* Above finds such a place.
LEMMA AbovePlace ==
    ASSUME NEW M \in Nat, NEW w \in Walks(M), NEW x, NEW addr
    PROVE  AboveGives(w, x, addr, M, Above(w, x, addr, M))
<1> DEFINE last == 2 * M
           here(j) == j <= M \/ (w.ar[j] # None /\ gaddr(x) >= gaddr(w.ar[j]))
           from == (M - 1)..(last - 1)
           T == {i \in 0..M : here(M - 1 + i)}
           j0 == CHOOSE j \in from : here(j) /\ j <= last - 1 /\ \A i \in (j + 1)..(last - 1) : ~here(i)
<1>0. w = [ar |-> w.ar, ends |-> w.ends]
  BY DEF Walks
<1>1. \E j \in from : here(j) /\ j <= last - 1 /\ \A i \in (j + 1)..(last - 1) : ~here(i)
  <2>1. T \in SUBSET (0..M) /\ 0 \in T
    OBVIOUS
  <2>2. PICK k \in T : \A i \in T : i <= k
    <3> HIDE DEF T
    <3> QED
      BY <2>1, GreatestNumber
  <2>3. PICK j \in from : j = M - 1 + k
    BY <2>2
  <2>4. here(j) /\ j <= last - 1
    BY <2>2, <2>3
  <2>5. ASSUME NEW i \in (j + 1)..(last - 1)
        PROVE  ~here(i)
    <3>1. PICK d \in 0..M : d = i - (M - 1) /\ M - 1 + d = i /\ d > k
      BY <2>2, <2>3
    <3>2. d \notin T
      BY <2>2, <3>1
    <3> HIDE DEF here
    <3> QED
      BY <3>1, <3>2
  <2> QED
    BY <2>4, <2>5
<1>2. j0 \in from /\ here(j0) /\ \A i \in (j0 + 1)..(last - 1) : ~here(i)
  <2> HIDE DEF here, from
  <2> QED
    BY <1>1
<1>3. Above(w, x, addr, M) =
        IF ~AboveTakes(w, x, addr, M) THEN [w EXCEPT !.ends = TRUE]
        ELSE [w EXCEPT !.ar = [k \in DOMAIN w.ar |->
                IF k > j0 + 1 THEN w.ar[k - 1] ELSE IF k = j0 + 1 THEN x ELSE w.ar[k]]]
  BY DEF Above, AboveTakes
<1>4. CASE ~AboveTakes(w, x, addr, M)
  <2>1. Above(w, x, addr, M) = [ar |-> w.ar, ends |-> TRUE]
    BY <1>0, <1>3, <1>4
  <2> QED
    BY <1>4, <2>1 DEF AboveGives
<1>5. CASE AboveTakes(w, x, addr, M)
  <2> HIDE DEF j0, here
  <2>1. PICK ar : ar = [k \in DOMAIN w.ar |->
            IF k > j0 + 1 THEN w.ar[k - 1] ELSE IF k = j0 + 1 THEN x ELSE w.ar[k]]
    OBVIOUS
  <2>2. Above(w, x, addr, M) = [ar |-> ar, ends |-> w.ends]
    BY <1>0, <1>3, <1>5, <2>1
  <2>3. AboveHere(w, x, M, j0) /\ \A i \in (j0 + 1)..(2 * M - 1) : ~AboveHere(w, x, M, i)
    BY <1>2 DEF AboveHere, here
  <2>4. AboveIs(w, x, M, Above(w, x, addr, M), j0)
    BY <2>1, <2>2, <2>3 DEF AboveIs
  <2> QED
    BY <1>2, <1>5, <2>2, <2>4 DEF AboveGives
<1> QED
  BY <1>4, <1>5

\* What Above makes of an array is one; with a margin, it leaves the entries for
\* symbols below the address alone.
LEMMA AboveType ==
    ASSUME NEW M \in Nat, NEW w \in Walks(M), NEW x \in Places, NEW addr
    PROVE  LET v == Above(w, x, addr, M) IN
           v \in Walks(M) /\ (M > 0 => \A k \in 0..M : v.ar[k] = w.ar[k])
<1>1. PICK v : v = Above(w, x, addr, M)
  OBVIOUS
<1>2. AboveGives(w, x, addr, M, v)
  BY <1>1, AbovePlace
<1>3. /\ w.ar \in Arrays(M) /\ w.ends \in BOOLEAN /\ DOMAIN w.ar = 0..(2 * M)
      /\ \A k \in 0..(2 * M) : w.ar[k] \in Places \cup {None}
  BY DEF Walks, Arrays
<1>4. CASE ~AboveTakes(w, x, addr, M)
  <2>1. v \in Walks(M)
    BY <1>2, <1>3, <1>4 DEF Walks, AboveGives
  <2> QED
    BY <1>1, <1>2, <1>4, <2>1 DEF AboveGives
<1>5. CASE AboveTakes(w, x, addr, M)
  <2>1. PICK j \in (M - 1)..(2 * M - 1) : AboveIs(w, x, M, v, j)
    BY <1>2, <1>5 DEF AboveGives
  <2>2. /\ v.ends = w.ends /\ v.ar = [k \in 0..(2 * M) |-> v.ar[k]]
        /\ \A k \in 0..(2 * M) : v.ar[k] = IF k > j + 1 THEN w.ar[k - 1] ELSE IF k = j + 1 THEN x ELSE w.ar[k]
    BY <1>3, <2>1 DEF AboveIs
  <2>3. M > 0 => j >= M
    <3>1. SUFFICES ASSUME M > 0, j = M - 1
                   PROVE  FALSE
      OBVIOUS
    <3>2. M \in (j + 1)..(2 * M - 1)
      BY <3>1
    <3>3. ~AboveHere(w, x, M, M)
      BY <2>1, <3>2 DEF AboveIs
    <3> QED
      BY <3>3 DEF AboveHere
  <2>4. ASSUME NEW k \in 0..(2 * M)
        PROVE  v.ar[k] \in Places \cup {None} /\ (M > 0 /\ k <= M => v.ar[k] = w.ar[k])
    <3>1. CASE k > j + 1
      <4>1. k - 1 \in 0..(2 * M) /\ ~(M > 0 /\ k <= M)
        BY <2>3, <3>1
      <4> QED
        BY <1>3, <2>2, <3>1, <4>1
    <3>2. CASE k = j + 1
      BY <2>2, <2>3, <3>2
    <3>3. CASE k < j + 1
      BY <1>3, <2>2, <3>3
    <3> QED
      BY <3>1, <3>2, <3>3
  <2>5. v.ar \in Arrays(M)
    BY <2>2, <2>4 DEF Arrays
  <2>6. v \in Walks(M)
    BY <1>2, <1>3, <2>2, <2>5 DEF Walks, AboveGives
  <2>7. M > 0 => \A k \in 0..M : v.ar[k] = w.ar[k]
    <3>1. \A k \in 0..M : k \in 0..(2 * M)
      OBVIOUS
    <3> QED
      BY <2>4, <3>1
  <2> QED
    BY <1>1, <2>6, <2>7
<1> QED
  BY <1>4, <1>5

\* Above the address, Above takes a step of the walk.
LEMMA AboveWalks ==
    ASSUME ModulesKept, NEW M \in Nat, NEW addr \in Int, NEW w \in Walks(M), NEW x \in Places,
           gaddr(x) > addr, NEW S \in SUBSET Places, \A y \in S : gaddr(y) > addr,
           Nearest(HighPart(w.ar, M), Highs(M), S, Dists(addr))
    PROVE  LET v == Above(w, x, addr, M) IN
           WalkStep(HighPart(v.ar, M), v.ends, HighPart(w.ar, M), w.ends, Highs(M), x, Dists(addr))
<1>1. PICK v : v = Above(w, x, addr, M)
  OBVIOUS
<1>2. AboveGives(w, x, addr, M, v)
  BY <1>1, AbovePlace
<1>3. PICK f : f = Dists(addr)
  OBVIOUS
<1>4. \A y \in S \cup {x} : f[y] = gaddr(y) - addr /\ f[y] \in Int /\ gaddr(y) \in Int
  <2>1. ASSUME NEW y \in S \cup {x}
        PROVE  f[y] = gaddr(y) - addr /\ f[y] \in Int /\ gaddr(y) \in Int
    <3>1. y \in Places /\ gaddr(y) \in Int /\ gaddr(y) > addr
      BY PlaceAddress
    <3> QED
      BY <1>3, <3>1 DEF Dists
  <2> QED
    BY <2>1
<1>5. PICK b0 : b0 = HighPart(w.ar, M)
  OBVIOUS
<1>6. PICK b1 : b1 = HighPart(v.ar, M)
  OBVIOUS
<1>7. PICK D \in Nat \ {0} : D = Highs(M)
  BY DEF Highs
<1>8. PICK H \in Nat : H = (IF M = 0 THEN 0 ELSE M + 1) /\ H + (D - 1) = 2 * M
  BY <1>7 DEF Highs
<1>9. \A d \in 0..(D - 1) : b0[d] = w.ar[H + d] /\ b1[d] = v.ar[H + d]
  BY <1>5, <1>6, <1>7, <1>8 DEF HighPart, Highs
<1>10. b0[D - 1] = w.ar[2 * M]
  BY <1>8, <1>9
<1>11. /\ \A d \in 0..(D - 1) : b0[d] = None \/ b0[d] \in S
       /\ \A d, e \in 0..(D - 1) : d < e /\ b0[e] # None => b0[d] # None /\ f[b0[d]] <= f[b0[e]]
  BY <1>3, <1>5, <1>7 DEF Nearest
<1>12. w.ends \in BOOLEAN
  BY DEF Walks
<1>13. CASE w.ends
  <2>1. v.ar = w.ar /\ v.ends = TRUE
    BY <1>2, <1>13 DEF AboveGives, AboveTakes
  <2> QED
    BY <1>1, <1>13, <2>1 DEF WalkStep
<1>14. CASE ~w.ends /\ w.ar[2 * M] # None /\ gaddr(x) > gaddr(w.ar[2 * M])
  <2>1. v.ar = w.ar /\ v.ends = TRUE
    BY <1>2, <1>14 DEF AboveGives, AboveTakes
  <2>2. b0[D - 1] \in S /\ D - 1 \in 0..(D - 1)
    BY <1>10, <1>11, <1>14
  <2>3. f[b0[D - 1]] <= f[x]
    BY <1>4, <1>10, <1>14, <2>2
  <2>4. WalkStep(b1, v.ends, b0, w.ends, D, x, f)
    BY <1>5, <1>6, <1>10, <1>14, <2>1, <2>3 DEF WalkStep
  <2> QED
    BY <1>1, <1>3, <1>5, <1>6, <1>7, <2>4
<1>15. CASE ~w.ends /\ ~(w.ar[2 * M] # None /\ gaddr(x) > gaddr(w.ar[2 * M]))
  <2>1. gaddr(x) \in Int /\ AboveTakes(w, x, addr, M)
    BY <1>4, <1>15 DEF AboveTakes
  <2>2. PICK j \in (M - 1)..(2 * M - 1) : AboveIs(w, x, M, v, j)
    BY <1>2, <2>1 DEF AboveGives
  <2>3. AboveHere(w, x, M, j) /\ \A i \in (j + 1)..(2 * M - 1) : ~AboveHere(w, x, M, i)
    BY <2>2 DEF AboveIs
  <2>4. M > 0 => j >= M
    <3>1. SUFFICES ASSUME M > 0, j = M - 1
                   PROVE  FALSE
      OBVIOUS
    <3>2. M \in (j + 1)..(2 * M - 1)
      BY <3>1
    <3>3. ~AboveHere(w, x, M, M)
      BY <2>3, <3>2
    <3> QED
      BY <3>3 DEF AboveHere
  <2>5. PICK p \in 0..(D - 1) : p = j + 1 - H /\ H + p = j + 1
    <3>1. CASE M = 0
      <4>1. H = 0 /\ j = -1 /\ D = 1
        BY <1>8, <3>1
      <4> QED
        BY <4>1
    <3>2. CASE M > 0
      <4>1. H = M + 1 /\ j >= M /\ j <= 2 * M - 1
        BY <1>8, <2>4, <3>2
      <4>2. D - 1 = M - 1 /\ j + 1 - H = j - M /\ j - M \in 0..(M - 1)
        BY <1>8, <3>2, <4>1
      <4>3. j + 1 - H \in 0..(D - 1) /\ H + (j + 1 - H) = j + 1
        BY <4>1, <4>2
      <4> QED
        BY <4>3
    <3> QED
      BY <3>1, <3>2
  <2>6. ASSUME NEW e \in 0..(p - 1)
        PROVE  b0[e] # None /\ f[b0[e]] <= f[x]
    <3>1. PICK i \in 0..(D - 1) : i = p - 1 /\ H + i = j /\ e \in 0..(D - 1) /\ e <= i
      BY <2>5
    <3>2. M > 0 /\ j > M
      <4>1. CASE M = 0
        <5>1. p = 0
          BY <1>7, <2>5, <4>1 DEF Highs
        <5> QED
          BY <5>1
      <4>2. CASE M > 0
        BY <1>8, <3>1, <4>2
      <4> QED
        BY <4>1, <4>2
    <3>3. w.ar[j] # None /\ gaddr(x) >= gaddr(w.ar[j])
      BY <2>3, <3>2 DEF AboveHere
    <3>4. b0[i] = w.ar[j]
      BY <1>9, <3>1
    <3>5. b0[i] \in S /\ f[b0[i]] <= f[x]
      BY <1>4, <1>11, <3>3, <3>4
    <3>6. b0[e] # None /\ f[b0[e]] <= f[b0[i]]
      <4>1. CASE e = i
        BY <1>4, <3>3, <3>4, <3>5, <4>1
      <4>2. CASE e < i
        BY <1>11, <3>1, <3>3, <3>4, <4>2
      <4> QED
        BY <3>1, <4>1, <4>2
    <3>7. b0[e] \in S
      BY <1>11, <3>1, <3>6
    <3>8. f[b0[e]] \in Int /\ f[b0[i]] \in Int /\ f[x] \in Int
      BY <1>4, <3>5, <3>7
    <3> QED
      BY <3>5, <3>6, <3>8
  <2>7. b0[p] = None \/ f[x] <= f[b0[p]]
    <3>1. SUFFICES ASSUME b0[p] # None
                   PROVE  f[x] <= f[b0[p]]
      OBVIOUS
    <3>2. b0[p] \in S /\ b0[p] = w.ar[j + 1]
      BY <1>9, <1>11, <2>5, <3>1
    <3>3. gaddr(x) <= gaddr(w.ar[j + 1])
      <4>1. gaddr(w.ar[j + 1]) \in Int /\ gaddr(x) \in Int
        BY <1>4, <3>2
      <4>2. CASE j = 2 * M - 1
        <5>1. j + 1 = 2 * M
          BY <4>2
        <5> QED
          BY <1>15, <3>1, <3>2, <4>1, <5>1
      <4>3. CASE j # 2 * M - 1
        <5>1. j + 1 \in (j + 1)..(2 * M - 1)
          BY <4>3
        <5>2. ~AboveHere(w, x, M, j + 1)
          BY <2>3, <5>1
        <5> QED
          BY <3>1, <3>2, <4>1, <5>2 DEF AboveHere
      <4> QED
        BY <4>2, <4>3
    <3> QED
      BY <1>4, <3>2, <3>3
  <2>8. ASSUME NEW e \in 0..(D - 1)
        PROVE  b1[e] = IF e < p THEN b0[e] ELSE IF e = p THEN x ELSE b0[e - 1]
    <3>1. PICK k \in 0..(2 * M) : k = H + e
      BY <1>8
    <3>2. v.ar[k] = IF k > j + 1 THEN w.ar[k - 1] ELSE IF k = j + 1 THEN x ELSE w.ar[k]
      <4>1. k \in DOMAIN w.ar
        BY DEF Walks, Arrays
      <4> QED
        BY <2>2, <4>1 DEF AboveIs
    <3>3. b1[e] = v.ar[k] /\ b0[e] = w.ar[k]
      BY <1>9, <3>1
    <3>4. CASE e < p
      <4>1. k < j + 1
        BY <2>5, <3>1, <3>4
      <4> QED
        BY <3>2, <3>3, <3>4, <4>1
    <3>5. CASE e = p
      <4>1. k = j + 1
        BY <2>5, <3>1, <3>5
      <4> QED
        BY <3>2, <3>3, <3>5, <4>1
    <3>6. CASE e > p
      <4>1. k > j + 1 /\ e - 1 \in 0..(D - 1) /\ H + (e - 1) = k - 1
        BY <2>5, <3>1, <3>6
      <4>2. b0[e - 1] = w.ar[k - 1]
        BY <1>9, <4>1
      <4> QED
        BY <3>2, <3>3, <3>6, <4>1, <4>2
    <3> QED
      BY <3>4, <3>5, <3>6
  <2>9. v.ends = w.ends
    BY <2>2 DEF AboveIs
  <2>10. Fits(b0, p, x, f) /\ Shifts(b1, b0, D, p, x)
    BY <2>6, <2>7, <2>8 DEF Fits, Shifts
  <2>11. WalkStep(b1, v.ends, b0, w.ends, D, x, f)
    BY <1>15, <2>9, <2>10 DEF WalkStep
  <2> QED
    BY <1>1, <1>3, <1>5, <1>6, <1>7, <2>11
<1> QED
  BY <1>12, <1>13, <1>14, <1>15

-----------------------------------------------------------------------------
(* The walks as folds *)

\* The values that the walks go through.
BelowRun(v, n, q, w0, addr, M) ==
    v \in [0..n -> Walks(M)] /\ v[0] = w0 /\ \A m \in 1..n : v[m] = Below(v[m - 1], q[m], addr, M)
AboveRun(v, n, q, w0, addr, M) ==
    v \in [0..n -> Walks(M)] /\ v[0] = w0 /\ \A m \in 1..n : v[m] = Above(v[m - 1], q[m], addr, M)

BelowFold(q, w0, addr, M) == FoldLeft(LAMBDA w, x : Below(w, x, addr, M), w0, q)
AboveFold(q, w0, addr, M) == FoldLeft(LAMBDA w, x : Above(w, x, addr, M), w0, q)

LEMMA BelowRuns ==
    ASSUME NEW M \in Nat, NEW addr, NEW n \in Nat, NEW q \in [1..n -> Places], NEW w0 \in Walks(M)
    PROVE  \E v : BelowRun(v, n, q, w0, addr, M) /\
                  BelowFold(q, w0, addr, M) = v[n]
<1> DEFINE V == Walks(M)
           g == [z \in (1..n) \X V |-> Below(z[2], q[z[1]], addr, M)]
           folds(f) == f = [s \in SUBSET (DOMAIN q) |->
                              IF s = {} THEN w0 ELSE Below(f[s \ {Max(s)}], q[Max(s)], addr, M)]
<1>1. g \in Steps(n, V)
  <2>1. ASSUME NEW m \in 1..n, NEW w \in V
        PROVE  Below(w, q[m], addr, M) \in V
    BY BelowType
  <2> HIDE DEF V
  <2> QED
    BY <2>1 DEF Steps
<1>2. PICK f \in [SUBSET (1..n) -> V] : \A s \in SUBSET (1..n) :
        f[s] = IF s = {} THEN w0 ELSE g[<<Max(s), f[s \ {Max(s)}]>>]
  <2> HIDE DEF g
  <2>1. Foldable(n, V, w0, g)
    BY <1>1, FoldExists
  <2> QED
    BY <2>1 DEF Foldable
<1>3. \A s \in SUBSET (1..n) : s # {} => g[<<Max(s), f[s \ {Max(s)}]>>] = Below(f[s \ {Max(s)}], q[Max(s)], addr, M)
  <2>1. ASSUME NEW s \in SUBSET (1..n), s # {}
        PROVE  g[<<Max(s), f[s \ {Max(s)}]>>] = Below(f[s \ {Max(s)}], q[Max(s)], addr, M)
    <3>1. Max(s) \in 1..n /\ s \ {Max(s)} \in SUBSET (1..n)
      BY <2>1, Lasts
    <3>2. PICK m \in 1..n, w \in V : m = Max(s) /\ w = f[s \ {Max(s)}]
      BY <1>2, <3>1
    <3>3. g[<<m, w>>] = Below(w, q[m], addr, M)
      <4> HIDE DEF V
      <4> QED
        OBVIOUS
    <3> QED
      BY <3>2, <3>3
  <2> QED
    BY <2>1
<1>4. folds(f)
  <2>1. DOMAIN q = 1..n
    OBVIOUS
  <2>2. f = [s \in SUBSET (1..n) |-> IF s = {} THEN w0 ELSE Below(f[s \ {Max(s)}], q[Max(s)], addr, M)]
    <3> HIDE DEF g, V
    <3> QED
      BY <1>2, <1>3
  <2> QED
    BY <2>1, <2>2
<1> DEFINE c == CHOOSE h : folds(h)
<1>5. BelowFold(q, w0, addr, M) = c[1..n]
  BY DEF BelowFold, FoldLeft, MapThenFoldSet
<1>6. folds(c)
  <2>1. \E h : folds(h)
    BY <1>4
  <2> HIDE DEF folds
  <2> QED
    BY <2>1
<1>7. /\ c[{}] = w0
      /\ \A s \in SUBSET (1..n) : s # {} => c[s] = Below(c[s \ {Max(s)}], q[Max(s)], addr, M)
  <2> HIDE DEF c
  <2>1. c = [s \in SUBSET (1..n) |-> IF s = {} THEN w0 ELSE Below(c[s \ {Max(s)}], q[Max(s)], addr, M)]
    BY <1>6
  <2> QED
    BY <2>1
<1> HIDE DEF c
<1>8. ASSUME NEW s \in SUBSET (1..n), s # {}, c[s \ {Max(s)}] \in V
      PROVE  c[s] = g[<<Max(s), c[s \ {Max(s)}]>>]
  <2>1. Max(s) \in 1..n
    BY <1>8, Lasts
  <2>2. PICK m \in 1..n, w \in V : m = Max(s) /\ w = c[s \ {Max(s)}]
    BY <1>8, <2>1
  <2>3. g[<<m, w>>] = Below(w, q[m], addr, M)
    <3> HIDE DEF V
    <3> QED
      OBVIOUS
  <2> QED
    BY <1>7, <1>8, <2>2, <2>3
<1>9. PICK v : Runs(v, n, V, w0, g) /\ v[n] = c[1..n]
  <2>1. w0 \in V
    OBVIOUS
  <2> HIDE DEF g, V, folds
  <2>2. \A s \in SUBSET (1..n) : s # {} /\ c[s \ {Max(s)}] \in V => c[s] = g[<<Max(s), c[s \ {Max(s)}]>>]
    BY <1>8
  <2>3. FoldsBy(c, n, V, w0, g)
    BY <1>7, <2>2 DEF FoldsBy
  <2> QED
    BY <1>1, <2>1, <2>3, FoldRuns
<1>10. ASSUME NEW m \in 1..n
       PROVE  v[m] = Below(v[m - 1], q[m], addr, M)
  <2>1. v[m - 1] \in V /\ v[m] = g[<<m, v[m - 1]>>]
    <3>1. m - 1 \in 0..n
      OBVIOUS
    <3> HIDE DEF g, V
    <3> QED
      BY <1>9, <3>1 DEF Runs
  <2> HIDE DEF V
  <2> QED
    BY <2>1
<1>11. v \in [0..n -> V] /\ v[0] = w0 /\ v[n] = c[1..n]
  <2> HIDE DEF g, V
  <2> QED
    BY <1>9 DEF Runs
<1> QED
  BY <1>5, <1>10, <1>11 DEF BelowRun

LEMMA AboveRuns ==
    ASSUME NEW M \in Nat, NEW addr, NEW n \in Nat, NEW q \in [1..n -> Places], NEW w0 \in Walks(M)
    PROVE  \E v : AboveRun(v, n, q, w0, addr, M) /\
                  AboveFold(q, w0, addr, M) = v[n]
<1> DEFINE V == Walks(M)
           g == [z \in (1..n) \X V |-> Above(z[2], q[z[1]], addr, M)]
           folds(f) == f = [s \in SUBSET (DOMAIN q) |->
                              IF s = {} THEN w0 ELSE Above(f[s \ {Max(s)}], q[Max(s)], addr, M)]
<1>1. g \in Steps(n, V)
  <2>1. ASSUME NEW m \in 1..n, NEW w \in V
        PROVE  Above(w, q[m], addr, M) \in V
    BY AboveType
  <2> HIDE DEF V
  <2> QED
    BY <2>1 DEF Steps
<1>2. PICK f \in [SUBSET (1..n) -> V] : \A s \in SUBSET (1..n) :
        f[s] = IF s = {} THEN w0 ELSE g[<<Max(s), f[s \ {Max(s)}]>>]
  <2> HIDE DEF g
  <2>1. Foldable(n, V, w0, g)
    BY <1>1, FoldExists
  <2> QED
    BY <2>1 DEF Foldable
<1>3. \A s \in SUBSET (1..n) : s # {} => g[<<Max(s), f[s \ {Max(s)}]>>] = Above(f[s \ {Max(s)}], q[Max(s)], addr, M)
  <2>1. ASSUME NEW s \in SUBSET (1..n), s # {}
        PROVE  g[<<Max(s), f[s \ {Max(s)}]>>] = Above(f[s \ {Max(s)}], q[Max(s)], addr, M)
    <3>1. Max(s) \in 1..n /\ s \ {Max(s)} \in SUBSET (1..n)
      BY <2>1, Lasts
    <3>2. PICK m \in 1..n, w \in V : m = Max(s) /\ w = f[s \ {Max(s)}]
      BY <1>2, <3>1
    <3>3. g[<<m, w>>] = Above(w, q[m], addr, M)
      <4> HIDE DEF V
      <4> QED
        OBVIOUS
    <3> QED
      BY <3>2, <3>3
  <2> QED
    BY <2>1
<1>4. folds(f)
  <2>1. DOMAIN q = 1..n
    OBVIOUS
  <2>2. f = [s \in SUBSET (1..n) |-> IF s = {} THEN w0 ELSE Above(f[s \ {Max(s)}], q[Max(s)], addr, M)]
    <3> HIDE DEF g, V
    <3> QED
      BY <1>2, <1>3
  <2> QED
    BY <2>1, <2>2
<1> DEFINE c == CHOOSE h : folds(h)
<1>5. AboveFold(q, w0, addr, M) = c[1..n]
  BY DEF AboveFold, FoldLeft, MapThenFoldSet
<1>6. folds(c)
  <2>1. \E h : folds(h)
    BY <1>4
  <2> HIDE DEF folds
  <2> QED
    BY <2>1
<1>7. /\ c[{}] = w0
      /\ \A s \in SUBSET (1..n) : s # {} => c[s] = Above(c[s \ {Max(s)}], q[Max(s)], addr, M)
  <2> HIDE DEF c
  <2>1. c = [s \in SUBSET (1..n) |-> IF s = {} THEN w0 ELSE Above(c[s \ {Max(s)}], q[Max(s)], addr, M)]
    BY <1>6
  <2> QED
    BY <2>1
<1> HIDE DEF c
<1>8. ASSUME NEW s \in SUBSET (1..n), s # {}, c[s \ {Max(s)}] \in V
      PROVE  c[s] = g[<<Max(s), c[s \ {Max(s)}]>>]
  <2>1. Max(s) \in 1..n
    BY <1>8, Lasts
  <2>2. PICK m \in 1..n, w \in V : m = Max(s) /\ w = c[s \ {Max(s)}]
    BY <1>8, <2>1
  <2>3. g[<<m, w>>] = Above(w, q[m], addr, M)
    <3> HIDE DEF V
    <3> QED
      OBVIOUS
  <2> QED
    BY <1>7, <1>8, <2>2, <2>3
<1>9. PICK v : Runs(v, n, V, w0, g) /\ v[n] = c[1..n]
  <2>1. w0 \in V
    OBVIOUS
  <2> HIDE DEF g, V, folds
  <2>2. \A s \in SUBSET (1..n) : s # {} /\ c[s \ {Max(s)}] \in V => c[s] = g[<<Max(s), c[s \ {Max(s)}]>>]
    BY <1>8
  <2>3. FoldsBy(c, n, V, w0, g)
    BY <1>7, <2>2 DEF FoldsBy
  <2> QED
    BY <1>1, <2>1, <2>3, FoldRuns
<1>10. ASSUME NEW m \in 1..n
       PROVE  v[m] = Above(v[m - 1], q[m], addr, M)
  <2>1. v[m - 1] \in V /\ v[m] = g[<<m, v[m - 1]>>]
    <3>1. m - 1 \in 0..n
      OBVIOUS
    <3> HIDE DEF g, V
    <3> QED
      BY <1>9, <3>1 DEF Runs
  <2> HIDE DEF V
  <2> QED
    BY <2>1
<1>11. v \in [0..n -> V] /\ v[0] = w0 /\ v[n] = c[1..n]
  <2> HIDE DEF g, V
  <2> QED
    BY <1>9 DEF Runs
<1> QED
  BY <1>5, <1>10, <1>11 DEF AboveRun

\* The places of module k from c on down, and those above c.
Down(k, c) == [j \in 1..(c + 1) |-> <<k, c + 1 - j>>]
Up(k, c) == [j \in 1..(mods[k].n - c - 1) |-> <<k, c + j>>]

\* What a module adds to the array is what the two walks do.
AroundRun(v, u, ar, k, c, addr, M) ==
    /\ BelowRun(v, c + 1, Down(k, c), [ar |-> ar, ends |-> FALSE], addr, M)
    /\ AboveRun(u, mods[k].n - c - 1, Up(k, c), [ar |-> v[c + 1].ar, ends |-> FALSE], addr, M)
    /\ Around(ar, k, addr, M) = u[mods[k].n - c - 1].ar

LEMMA AroundRuns ==
    ASSUME ModulesKept, NEW M \in Nat, NEW addr \in Int, NEW k \in DOMAIN mods, NEW ar \in Arrays(M),
           NEW c \in 0..(mods[k].n - 1), cexpSymTblLkAddrIdx(Table(mods[k]), addr) = c
    PROVE  \E v, u : AroundRun(v, u, ar, k, c, addr, M)
<1>1. mods[k].n \in Nat /\ mods[k] \in LoadedModule
  <2>1. mods[k] \in LoadedModule
    BY DEF ModulesKept
  <2> QED
    BY <2>1, ModulesType
<1>2. PICK n \in Nat : n = mods[k].n - c - 1
  BY <1>1
<1>3. \A i \in 0..(mods[k].n - 1) : <<k, i>> \in Places
  BY <1>1, PlacesType
<1>4. Down(k, c) \in [1..(c + 1) -> Places]
  <2>1. \A j \in 1..(c + 1) : c + 1 - j \in 0..(mods[k].n - 1)
    BY <1>1
  <2> QED
    BY <1>3, <2>1 DEF Down
<1>5. Up(k, c) \in [1..n -> Places]
  <2>1. \A j \in 1..n : c + j \in 0..(mods[k].n - 1)
    BY <1>1, <1>2
  <2> QED
    BY <1>2, <1>3, <2>1 DEF Up
<1>6. PICK w0 \in Walks(M) : w0 = [ar |-> ar, ends |-> FALSE]
  BY DEF Walks
<1>7. PICK v : BelowRun(v, c + 1, Down(k, c), w0, addr, M) /\
          BelowFold(Down(k, c), w0, addr, M) = v[c + 1]
  <2>1. c + 1 \in Nat
    OBVIOUS
  <2> QED
    BY <1>4, <2>1, BelowRuns
<1>8. PICK w1 \in Walks(M) : w1 = [ar |-> v[c + 1].ar, ends |-> FALSE]
  <2>1. v[c + 1] \in Walks(M)
    BY <1>7 DEF BelowRun
  <2> QED
    BY <2>1 DEF Walks
<1>9. PICK u : AboveRun(u, n, Up(k, c), w1, addr, M) /\
          AboveFold(Up(k, c), w1, addr, M) = u[n]
  BY <1>5, AboveRuns
<1>10. Around(ar, k, addr, M) = u[n].ar
  BY <1>2, <1>6, <1>7, <1>8, <1>9 DEF Around, Down, Up, BelowFold, AboveFold
<1> QED
  BY <1>2, <1>6, <1>7, <1>8, <1>9, <1>10 DEF AroundRun

\* Around gives an array.
LEMMA AroundType ==
    ASSUME NEW M \in Nat, NEW ar, NEW k, NEW c \in Nat, NEW addr, NEW v, NEW u,
           mods[k].n - c - 1 \in Nat, AroundRun(v, u, ar, k, c, addr, M)
    PROVE  Around(ar, k, addr, M) \in Arrays(M)
<1>1. u[mods[k].n - c - 1] \in Walks(M)
  BY DEF AroundRun, AboveRun
<1> QED
  BY <1>1 DEF AroundRun, Walks

-----------------------------------------------------------------------------
(* Modules around an address *)

\* Where the search in the table of a module parts its symbols.
PartedAt(k, c, addr) ==
    /\ c \in 0..(mods[k].n - 1) /\ cexpSymTblLkAddrIdx(Table(mods[k]), addr) = c
    /\ \A i \in (c + 1)..(mods[k].n - 1) : gaddr(<<k, i>>) > addr
    /\ (\A i \in 0..c : gaddr(<<k, i>>) <= addr) \/ (c = 0 /\ gaddr(<<k, 0>>) > addr)

\* The places of a module.
LEMMA PlaceIn ==
    ASSUME ModulesKept, NEW k \in DOMAIN mods, NEW i \in 0..(mods[k].n - 1)
    PROVE  <<k, i>> \in Places /\ gaddr(<<k, i>>) \in Int /\ mods[k].n \in Nat \ {0} /\ i \in Nat
<1>1. mods[k].n \in 1..MaxSyms
  <2>1. mods[k] \in LoadedModule
    BY DEF ModulesKept
  <2> QED
    BY <2>1, ModulesType
<1>2. <<k, i>> \in Places
  BY PlacesType
<1> QED
  BY <1>1, <1>2, PlaceAddress, MaxSymsOK

\* The search in the table finds where to part them.
LEMMA ModuleParts ==
    ASSUME ModulesKept, IndicesAscend, NEW k \in DOMAIN mods, NEW addr \in Int
    PROVE  \E c : PartedAt(k, c, addr)
<1>1. PICK t : t = Table(mods[k])
  OBVIOUS
<1>2. mods[k].n \in 1..MaxSyms
  <2>1. mods[k] \in LoadedModule
    BY DEF ModulesKept
  <2> QED
    BY <2>1, ModulesType
<1>3. PICK n \in Nat \ {0} : n = mods[k].n
  BY <1>2, MaxSymsOK
<1>4. t.nentries = n /\ \A i : Value(t, i) = gaddr(<<k, i>>)
  BY <1>1, <1>3 DEF Table, Value, gaddr
<1>5. \A i \in 0..(n - 1) : Value(t, i) \in Int
  BY <1>3, <1>4, PlaceIn
<1>6. \A i \in 0..(n - 2) : Value(t, i) <= Value(t, i + 1)
  BY <1>3, <1>4 DEF IndicesAscend
<1>7. PICK c \in 0..(n - 1) :
        /\ cexpSymTblLkAddrIdx(t, addr) = c
        /\ \A i \in (c + 1)..(n - 1) : addr < Value(t, i)
        /\ (\A i \in 0..c : Value(t, i) <= addr) \/ (c = 0 /\ addr < Value(t, 0))
  BY <1>4, <1>5, <1>6, TableParts
<1>8. \A i \in (c + 1)..(n - 1) : gaddr(<<k, i>>) > addr
  <2>1. \A i \in (c + 1)..(n - 1) : i \in 0..(n - 1)
    OBVIOUS
  <2> QED
    BY <1>4, <1>5, <1>7, <2>1
<1>9. (\A i \in 0..c : gaddr(<<k, i>>) <= addr) \/ (c = 0 /\ gaddr(<<k, 0>>) > addr)
  <2>1. 0 \in 0..(n - 1)
    OBVIOUS
  <2> QED
    BY <1>4, <1>5, <1>7, <2>1
<1> QED
  BY <1>1, <1>3, <1>7, <1>8, <1>9 DEF PartedAt

\* The symbols of a module that a search may give.
LowOf(k, addr) == {x \in {k} \X (0..(mods[k].n - 1)) : gaddr(x) <= addr}
HighOf(k, addr) == {x \in {k} \X (0..(mods[k].n - 1)) : gaddr(x) > addr /\ x[2] > 0}

\* The walk down meets the symbols below the address, and the walk up those above.
LEMMA DownMeets ==
    ASSUME ModulesKept, NEW addr \in Int, NEW k \in DOMAIN mods, NEW c,
           PartedAt(k, c, addr), \A i \in 0..c : gaddr(<<k, i>>) <= addr
    PROVE  LowOf(k, addr) = {Down(k, c)[j] : j \in 1..(c + 1)}
<1>1. PICK n \in Nat \ {0} : n = mods[k].n
  <2>1. c \in 0..(mods[k].n - 1)
    BY DEF PartedAt
  <2> QED
    BY <2>1, PlaceIn
<1>2. c \in 0..(n - 1) /\ \A i \in (c + 1)..(n - 1) : gaddr(<<k, i>>) > addr
  BY <1>1 DEF PartedAt
<1>3. \A i \in 0..(n - 1) : gaddr(<<k, i>>) \in Int
  BY <1>1, PlaceIn
<1>4. ASSUME NEW i \in 0..(n - 1), gaddr(<<k, i>>) <= addr
      PROVE  i \in 0..c
  <2>1. ~(i \in (c + 1)..(n - 1))
    BY <1>2, <1>3, <1>4
  <2> QED
    BY <1>2, <2>1
<1>5. \A x : x \in LowOf(k, addr) <=> \E i \in 0..c : x = <<k, i>>
  <2>1. ASSUME NEW x \in LowOf(k, addr)
        PROVE  \E i \in 0..c : x = <<k, i>>
    <3>1. PICK i \in 0..(n - 1) : x = <<k, i>> /\ gaddr(x) <= addr
      BY <1>1 DEF LowOf
    <3> QED
      BY <1>4, <3>1
  <2>2. ASSUME NEW i \in 0..c
        PROVE  <<k, i>> \in LowOf(k, addr)
    <3>1. i \in 0..(mods[k].n - 1)
      BY <1>1, <1>2
    <3> QED
      BY <3>1 DEF LowOf
  <2> QED
    BY <2>1, <2>2
<1>6. \A i \in 0..c : c + 1 - i \in 1..(c + 1) /\ c + 1 - (c + 1 - i) = i
  BY <1>2
<1>7. \A j \in 1..(c + 1) : c + 1 - j \in 0..c /\ Down(k, c)[j] = <<k, c + 1 - j>>
  BY <1>2 DEF Down
<1>8. ASSUME NEW x
      PROVE  x \in LowOf(k, addr) <=> \E j \in 1..(c + 1) : x = Down(k, c)[j]
  <2>1. ASSUME NEW i \in 0..c, x = <<k, i>>
        PROVE  \E j \in 1..(c + 1) : x = Down(k, c)[j]
    <3>1. PICK j \in 1..(c + 1) : j = c + 1 - i /\ c + 1 - j = i
      BY <1>6
    <3> QED
      BY <1>7, <2>1, <3>1
  <2> QED
    BY <1>5, <1>7, <2>1
<1> QED
  BY <1>8

LEMMA UpMeets ==
    ASSUME ModulesKept, NEW addr \in Int, NEW k \in DOMAIN mods, NEW c, PartedAt(k, c, addr)
    PROVE  HighOf(k, addr) = {Up(k, c)[j] : j \in 1..(mods[k].n - c - 1)}
<1>0. c \in 0..(mods[k].n - 1)
  BY DEF PartedAt
<1>1. PICK n \in Nat \ {0} : n = mods[k].n
  BY <1>0, PlaceIn
<1>2. c \in 0..(n - 1) /\ \A i \in (c + 1)..(n - 1) : gaddr(<<k, i>>) > addr
  BY <1>1 DEF PartedAt
<1>3. \A i \in 0..(n - 1) : gaddr(<<k, i>>) \in Int
  BY <1>1, PlaceIn
<1>4. ASSUME NEW i \in 0..(n - 1), gaddr(<<k, i>>) > addr, i > 0
      PROVE  i \in (c + 1)..(n - 1)
  <2>1. CASE \A b \in 0..c : gaddr(<<k, b>>) <= addr
    <3>1. i \notin 0..c
      BY <1>3, <1>4, <2>1
    <3> QED
      BY <1>2, <3>1
  <2>2. CASE c = 0
    BY <1>4, <2>2
  <2> QED
    BY <2>1, <2>2 DEF PartedAt
<1>5. \A x : x \in HighOf(k, addr) <=> \E i \in (c + 1)..(n - 1) : x = <<k, i>>
  <2>1. ASSUME NEW x \in HighOf(k, addr)
        PROVE  \E i \in (c + 1)..(n - 1) : x = <<k, i>>
    <3>1. PICK i \in 0..(n - 1) : x = <<k, i>> /\ gaddr(x) > addr /\ i > 0
      BY <1>1 DEF HighOf
    <3> QED
      BY <1>4, <3>1
  <2>2. ASSUME NEW i \in (c + 1)..(n - 1)
        PROVE  <<k, i>> \in HighOf(k, addr)
    <3>1. i \in 0..(mods[k].n - 1) /\ i > 0
      BY <1>1, <1>2
    <3>2. gaddr(<<k, i>>) > addr
      BY <1>2
    <3> QED
      BY <3>1, <3>2 DEF HighOf
  <2> QED
    BY <2>1, <2>2
<1>6. \A i \in (c + 1)..(n - 1) : i - c \in 1..(n - c - 1) /\ c + (i - c) = i
  BY <1>2
<1>7. \A j \in 1..(n - c - 1) : c + j \in (c + 1)..(n - 1) /\ Up(k, c)[j] = <<k, c + j>>
  BY <1>1, <1>2 DEF Up
<1>8. ASSUME NEW x
      PROVE  x \in HighOf(k, addr) <=> \E j \in 1..(n - c - 1) : x = Up(k, c)[j]
  <2>1. ASSUME NEW i \in (c + 1)..(n - 1), x = <<k, i>>
        PROVE  \E j \in 1..(n - c - 1) : x = Up(k, c)[j]
    <3>1. PICK j \in 1..(n - c - 1) : j = i - c /\ c + j = i
      BY <1>6
    <3> QED
      BY <1>7, <2>1, <3>1
  <2> QED
    BY <1>5, <1>7, <2>1
<1> QED
  BY <1>1, <1>8

\* The order of the places of a module.
LEMMA PlacesAscend ==
    ASSUME ModulesKept, IndicesAscend, NEW k \in DOMAIN mods,
           NEW i \in 0..(mods[k].n - 1), NEW j \in 0..(mods[k].n - 1), i <= j
    PROVE  gaddr(<<k, i>>) <= gaddr(<<k, j>>)
<1>1. PICK n \in Nat \ {0} : n = mods[k].n
  BY PlaceIn
<1> DEFINE v == [b \in 0..(n - 1) |-> gaddr(<<k, b>>)]
<1>2. \A b \in 0..(n - 1) : v[b] = gaddr(<<k, b>>) /\ v[b] \in Int
  BY <1>1, PlaceIn
<1>3. \A b \in 0..(n - 2) : v[b] <= v[b + 1]
  BY <1>1 DEF IndicesAscend
<1> HIDE DEF v
<1>4. v[i] <= v[j]
  BY <1>1, <1>2, <1>3, AscendsFar
<1> QED
  BY <1>1, <1>2, <1>4

\* The walk down gives the nearest below the address, also of this module.
LEMMA DownNearest ==
    ASSUME ModulesKept, IndicesAscend, NEW M \in Nat, NEW addr \in Int, NEW k \in DOMAIN mods,
           NEW c, PartedAt(k, c, addr), \A i \in 0..c : gaddr(<<k, i>>) <= addr,
           NEW w0 \in Walks(M), w0.ends = FALSE, NEW v, BelowRun(v, c + 1, Down(k, c), w0, addr, M),
           NEW S \in SUBSET Places, \A y \in S : gaddr(y) <= addr /\ y[1] # k,
           Nearest(LowPart(w0.ar, M), M + 1, S, Dists(addr))
    PROVE  Nearest(LowPart(v[c + 1].ar, M), M + 1, S \cup LowOf(k, addr), Dists(addr))
<1>1. PICK n \in Nat : n = c + 1
  <2>1. c \in 0..(mods[k].n - 1)
    BY DEF PartedAt
  <2> QED
    BY <2>1, PlaceIn
<1>2. c \in 0..(mods[k].n - 1) /\ c \in Nat /\ c = n - 1 /\ \A i \in 0..c : i \in 0..(mods[k].n - 1)
  <2>1. c \in 0..(mods[k].n - 1)
    BY DEF PartedAt
  <2>2. mods[k].n \in Nat
    BY <2>1, PlaceIn
  <2> QED
    BY <1>1, <2>1, <2>2
<1>3. PICK q : q = Down(k, c)
  OBVIOUS
<1>4. PICK f : f = Dists(addr)
  OBVIOUS
<1>5. PICK D \in Nat \ {0} : D = M + 1
  OBVIOUS
<1>6. \A j \in 1..n : n - j \in 0..c /\ q[j] = <<k, n - j>>
  BY <1>1, <1>2, <1>3 DEF Down
<1>7. \A j \in 1..n : q[j] \in Places /\ gaddr(q[j]) \in Int /\ gaddr(q[j]) <= addr /\ q[j] # None
        /\ q[j] \notin S /\ f[q[j]] = addr - gaddr(q[j]) /\ f[q[j]] \in Int
  <2>1. ASSUME NEW j \in 1..n
        PROVE  /\ q[j] \in Places /\ gaddr(q[j]) \in Int /\ gaddr(q[j]) <= addr /\ q[j] # None
               /\ q[j] \notin S
    <3>1. PICK i \in 0..c : i = n - j /\ q[j] = <<k, i>> /\ i \in 0..(mods[k].n - 1)
      BY <1>2, <1>6
    <3>2. <<k, i>> \in Places /\ gaddr(<<k, i>>) \in Int
      BY <3>1, PlaceIn
    <3>3. q[j] \in Places /\ q[j][1] = k /\ gaddr(q[j]) \in Int
      BY <3>1, <3>2
    <3>4. gaddr(q[j]) <= addr
      BY <3>1
    <3>5. q[j] # None
      BY <3>3, PlaceAddress
    <3> QED
      BY <3>3, <3>4, <3>5
  <2> QED
    BY <1>4, <2>1 DEF Dists
<1>8. \A y \in S : f[y] \in Int /\ gaddr(y) <= addr
  BY <1>4, PlaceAddress DEF Dists
<1>9. None \notin S
  BY NoneNoPlace
<1>10. ASSUME NEW i \in 1..n, NEW j \in 1..n, i < j
       PROVE  q[i] # q[j] /\ f[q[i]] <= f[q[j]]
  <2>1. n - j < n - i /\ n - j \in 0..(mods[k].n - 1) /\ n - i \in 0..(mods[k].n - 1)
    BY <1>2, <1>6, <1>10
  <2>2. gaddr(<<k, n - j>>) <= gaddr(<<k, n - i>>)
    BY <2>1, PlacesAscend
  <2>3. gaddr(q[j]) <= gaddr(q[i]) /\ q[i] # q[j]
    BY <1>6, <2>1, <2>2
  <2> QED
    BY <1>7, <2>3
<1> DEFINE b == [m \in 0..n |-> LowPart(v[m].ar, M)]
           e == [m \in 0..n |-> v[m].ends]
<1>11. /\ \A m \in 0..n : v[m] \in Walks(M)
       /\ v[0] = w0
       /\ \A m \in 1..n : v[m] = Below(v[m - 1], q[m], addr, M)
  BY <1>1, <1>3 DEF BelowRun
<1>12. /\ b[0] = LowPart(w0.ar, M) /\ e[0] = FALSE /\ b[n] = LowPart(v[n].ar, M)
       /\ \A m \in 0..n : b[m] = LowPart(v[m].ar, M) /\ e[m] = v[m].ends
  BY <1>11
<1> HIDE DEF b, e
<1>13. ASSUME NEW m \in 1..n, Nearest(b[m - 1], D, Met(S, q, m - 1), f)
       PROVE  WalkStep(b[m], e[m], b[m - 1], e[m - 1], D, q[m], f)
  <2>1. m - 1 \in 0..n /\ m \in 0..n /\ \A j \in 1..(m - 1) : j \in 1..n
    OBVIOUS
  <2>2. PICK R : R = Met(S, q, m - 1)
    OBVIOUS
  <2>3. R \in SUBSET Places /\ \A y \in R : gaddr(y) <= addr
    BY <1>7, <1>8, <2>1, <2>2 DEF Met
  <2>4. PICK w \in Walks(M) : w = v[m - 1]
    BY <1>11, <2>1
  <2>5. Nearest(LowPart(w.ar, M), M + 1, R, Dists(addr))
    BY <1>4, <1>5, <1>12, <1>13, <2>1, <2>2, <2>4
  <2>6. PICK x \in Places : x = q[m] /\ gaddr(x) <= addr
    BY <1>7
  <2>7. PICK z : z = Below(w, x, addr, M)
    OBVIOUS
  <2>8. WalkStep(LowPart(z.ar, M), z.ends, LowPart(w.ar, M), w.ends, M + 1, x, Dists(addr))
    BY <2>3, <2>5, <2>6, <2>7, BelowWalks
  <2>9. v[m] = z
    BY <1>11, <2>4, <2>6, <2>7
  <2> QED
    BY <1>4, <1>5, <1>12, <2>1, <2>4, <2>6, <2>8, <2>9
<1>14. Nearest(b[0], D, S, f)
  BY <1>4, <1>5, <1>12
<1>15. Nearest(b[n], D, Met(S, q, n), f)
  BY <1>7, <1>8, <1>9, <1>10, <1>12, <1>13, <1>14, WalkNearest
<1>16. Met(S, q, n) = S \cup LowOf(k, addr)
  BY <1>1, <1>3, DownMeets DEF Met
<1> QED
  BY <1>1, <1>4, <1>5, <1>12, <1>15, <1>16

\* Arrays that are the same above the middle, and that are up to it.
SameAbove(a, b, M) == \A j \in (M + 1)..(2 * M) : a[j] = b[j]
SameBelow(a, b, M) == \A j \in 0..M : a[j] = b[j]

\* It changes nothing above the middle.
LEMMA DownKeeps ==
    ASSUME NEW M \in Nat, NEW addr, NEW n \in Nat, NEW q \in [1..n -> Places], NEW w0 \in Walks(M),
           NEW v, BelowRun(v, n, q, w0, addr, M)
    PROVE  SameAbove(v[n].ar, w0.ar, M)
<1> DEFINE P == {m \in 0..n : SameAbove(v[m].ar, w0.ar, M)}
<1>1. /\ \A m \in 0..n : v[m] \in Walks(M)
      /\ v[0] = w0
      /\ \A m \in 1..n : v[m] = Below(v[m - 1], q[m], addr, M)
  BY DEF BelowRun
<1>2. 0 \in P
  BY <1>1 DEF SameAbove
<1>3. ASSUME NEW m \in 1..n, m - 1 \in P
      PROVE  m \in P
  <2>1. m - 1 \in 0..n /\ m \in 0..n
    OBVIOUS
  <2>2. PICK w \in Walks(M), x \in Places : w = v[m - 1] /\ x = q[m]
    BY <1>1, <2>1
  <2>3. v[m] = Below(w, x, addr, M)
    BY <1>1, <2>2
  <2>4. \A j \in (M + 1)..(2 * M) : v[m].ar[j] = w.ar[j]
    BY <2>3, BelowType
  <2> QED
    BY <1>3, <2>1, <2>2, <2>4 DEF SameAbove
<1>4. n \in P
  <2>1. n \in 0..n /\ 0 \in P /\ \A m \in 1..n : m - 1 \in P => m \in P
    BY <1>2, <1>3
  <2> HIDE DEF P
  <2> QED
    BY <2>1, RunKeeps
<1> QED
  BY <1>4

\* The walk up gives the nearest above the address, also of this module.
LEMMA UpNearest ==
    ASSUME ModulesKept, IndicesAscend, NEW M \in Nat, NEW addr \in Int, NEW k \in DOMAIN mods,
           NEW c, PartedAt(k, c, addr),
           NEW w0 \in Walks(M), w0.ends = FALSE,
           NEW u, AboveRun(u, mods[k].n - c - 1, Up(k, c), w0, addr, M),
           NEW S \in SUBSET Places, \A y \in S : gaddr(y) > addr /\ y[1] # k,
           Nearest(HighPart(w0.ar, M), Highs(M), S, Dists(addr))
    PROVE  Nearest(HighPart(u[mods[k].n - c - 1].ar, M), Highs(M), S \cup HighOf(k, addr), Dists(addr))
<1>1. PICK n \in Nat : n = mods[k].n - c - 1
  <2>1. c \in 0..(mods[k].n - 1)
    BY DEF PartedAt
  <2>2. mods[k].n \in Nat
    BY <2>1, PlaceIn
  <2> QED
    BY <2>1, <2>2
<1>2. /\ c \in Nat /\ \A j \in 1..n : c + j \in 0..(mods[k].n - 1)
      /\ \A j \in 1..n : gaddr(<<k, c + j>>) > addr
  <2>1. c \in 0..(mods[k].n - 1) /\ \A i \in (c + 1)..(mods[k].n - 1) : gaddr(<<k, i>>) > addr
    BY DEF PartedAt
  <2>2. mods[k].n \in Nat /\ c \in Nat
    BY <2>1, PlaceIn
  <2>3. \A j \in 1..n : c + j \in 0..(mods[k].n - 1) /\ c + j \in (c + 1)..(mods[k].n - 1)
    BY <1>1, <2>1, <2>2
  <2> QED
    BY <2>1, <2>2, <2>3
<1>3. PICK q : q = Up(k, c)
  OBVIOUS
<1>4. PICK f : f = Dists(addr)
  OBVIOUS
<1>5. PICK D \in Nat \ {0} : D = Highs(M)
  BY DEF Highs
<1>6. \A j \in 1..n : q[j] = <<k, c + j>>
  BY <1>1, <1>3 DEF Up
<1>7. \A j \in 1..n : q[j] \in Places /\ gaddr(q[j]) \in Int /\ gaddr(q[j]) > addr /\ q[j] # None
        /\ q[j] \notin S /\ f[q[j]] = gaddr(q[j]) - addr /\ f[q[j]] \in Int
  <2>1. ASSUME NEW j \in 1..n
        PROVE  /\ q[j] \in Places /\ gaddr(q[j]) \in Int /\ gaddr(q[j]) > addr /\ q[j] # None
               /\ q[j] \notin S
    <3>1. q[j] \in Places /\ q[j] # None /\ gaddr(q[j]) > addr /\ q[j][1] = k
      BY <1>2, <1>6, PlaceIn, PlaceAddress
    <3> QED
      BY <3>1, PlaceAddress
  <2> QED
    BY <1>4, <2>1 DEF Dists
<1>8. \A y \in S : f[y] \in Int /\ gaddr(y) > addr
  BY <1>4, PlaceAddress DEF Dists
<1>9. None \notin S
  BY NoneNoPlace
<1>10. ASSUME NEW i \in 1..n, NEW j \in 1..n, i < j
       PROVE  q[i] # q[j] /\ f[q[i]] <= f[q[j]]
  <2>1. c + i < c + j /\ c + j \in 0..(mods[k].n - 1) /\ c + i \in 0..(mods[k].n - 1)
    BY <1>2, <1>10
  <2>2. gaddr(<<k, c + i>>) <= gaddr(<<k, c + j>>)
    BY <2>1, PlacesAscend
  <2>3. gaddr(q[i]) <= gaddr(q[j]) /\ q[i] # q[j]
    BY <1>6, <2>1, <2>2
  <2> QED
    BY <1>7, <2>3
<1> DEFINE b == [m \in 0..n |-> HighPart(u[m].ar, M)]
           e == [m \in 0..n |-> u[m].ends]
<1>11. /\ \A m \in 0..n : u[m] \in Walks(M)
       /\ u[0] = w0
       /\ \A m \in 1..n : u[m] = Above(u[m - 1], q[m], addr, M)
  BY <1>1, <1>3 DEF AboveRun
<1>12. /\ b[0] = HighPart(w0.ar, M) /\ e[0] = FALSE /\ b[n] = HighPart(u[n].ar, M)
       /\ \A m \in 0..n : b[m] = HighPart(u[m].ar, M) /\ e[m] = u[m].ends
  BY <1>11
<1> HIDE DEF b, e
<1>13. ASSUME NEW m \in 1..n, Nearest(b[m - 1], D, Met(S, q, m - 1), f)
       PROVE  WalkStep(b[m], e[m], b[m - 1], e[m - 1], D, q[m], f)
  <2>1. m - 1 \in 0..n /\ m \in 0..n /\ \A j \in 1..(m - 1) : j \in 1..n
    OBVIOUS
  <2>2. PICK R : R = Met(S, q, m - 1)
    OBVIOUS
  <2>3. R \in SUBSET Places /\ \A y \in R : gaddr(y) > addr
    BY <1>7, <1>8, <2>1, <2>2 DEF Met
  <2>4. PICK w \in Walks(M) : w = u[m - 1]
    BY <1>11, <2>1
  <2>5. Nearest(HighPart(w.ar, M), Highs(M), R, Dists(addr))
    BY <1>4, <1>5, <1>12, <1>13, <2>1, <2>2, <2>4
  <2>6. PICK x \in Places : x = q[m] /\ gaddr(x) > addr
    BY <1>7
  <2>7. PICK z : z = Above(w, x, addr, M)
    OBVIOUS
  <2>8. WalkStep(HighPart(z.ar, M), z.ends, HighPart(w.ar, M), w.ends, Highs(M), x, Dists(addr))
    BY <2>3, <2>5, <2>6, <2>7, AboveWalks
  <2>9. u[m] = z
    BY <1>11, <2>4, <2>6, <2>7
  <2> QED
    BY <1>4, <1>5, <1>12, <2>1, <2>4, <2>6, <2>8, <2>9
<1>14. Nearest(b[0], D, S, f)
  BY <1>4, <1>5, <1>12
<1>15. Nearest(b[n], D, Met(S, q, n), f)
  BY <1>7, <1>8, <1>9, <1>10, <1>12, <1>13, <1>14, WalkNearest
<1>16. Met(S, q, n) = S \cup HighOf(k, addr)
  BY <1>1, <1>3, UpMeets DEF Met
<1> QED
  BY <1>1, <1>4, <1>5, <1>12, <1>15, <1>16

\* With a margin it changes nothing below the address.
LEMMA UpKeeps ==
    ASSUME NEW M \in Nat \ {0}, NEW addr, NEW n \in Nat, NEW q \in [1..n -> Places], NEW w0 \in Walks(M),
           NEW u, AboveRun(u, n, q, w0, addr, M)
    PROVE  SameBelow(u[n].ar, w0.ar, M)
<1> DEFINE P == {m \in 0..n : SameBelow(u[m].ar, w0.ar, M)}
<1>1. /\ \A m \in 0..n : u[m] \in Walks(M)
      /\ u[0] = w0
      /\ \A m \in 1..n : u[m] = Above(u[m - 1], q[m], addr, M)
  BY DEF AboveRun
<1>2. 0 \in P
  BY <1>1 DEF SameBelow
<1>3. ASSUME NEW m \in 1..n, m - 1 \in P
      PROVE  m \in P
  <2>1. m - 1 \in 0..n /\ m \in 0..n
    OBVIOUS
  <2>2. PICK w \in Walks(M), x \in Places : w = u[m - 1] /\ x = q[m]
    BY <1>1, <2>1
  <2>3. u[m] = Above(w, x, addr, M)
    BY <1>1, <2>2
  <2>4. \A j \in 0..M : u[m].ar[j] = w.ar[j]
    <3>1. M \in Nat /\ M > 0
      OBVIOUS
    <3> QED
      BY <2>3, <3>1, AboveType
  <2> QED
    BY <1>3, <2>1, <2>2, <2>4 DEF SameBelow
<1>4. n \in P
  <2>1. n \in 0..n /\ 0 \in P /\ \A m \in 1..n : m - 1 \in P => m \in P
    BY <1>2, <1>3
  <2> HIDE DEF P
  <2> QED
    BY <2>1, RunKeeps
<1> QED
  BY <1>4

\* Without a margin it changes nothing when there is a symbol below the address.
LEMMA UpBlocked ==
    ASSUME ModulesKept, NEW addr \in Int, NEW n \in Nat, NEW q \in [1..n -> Places], NEW w0 \in Walks(0),
           NEW u, AboveRun(u, n, q, w0, addr, 0), w0.ar[0] \in Places, gaddr(w0.ar[0]) <= addr
    PROVE  u[n].ar = w0.ar
<1> DEFINE P == {m \in 0..n : u[m].ar = w0.ar}
<1>1. /\ \A m \in 0..n : u[m] \in Walks(0)
      /\ u[0] = w0
      /\ \A m \in 1..n : u[m] = Above(u[m - 1], q[m], addr, 0)
  BY DEF AboveRun
<1>2. 0 \in P
  BY <1>1
<1>3. ASSUME NEW m \in 1..n, m - 1 \in P
      PROVE  m \in P
  <2>1. m - 1 \in 0..n /\ m \in 0..n
    OBVIOUS
  <2>2. PICK w \in Walks(0), x \in Places : w = u[m - 1] /\ x = q[m]
    BY <1>1, <2>1
  <2>3. u[m] = Above(w, x, addr, 0) /\ w.ar = w0.ar
    BY <1>1, <1>3, <2>2
  <2>4. ~AboveTakes(w, x, addr, 0)
    <3>1. w.ar[2 * 0] # None /\ gaddr(w.ar[2 * 0]) <= addr /\ gaddr(w.ar[2 * 0]) \in Int /\ gaddr(x) \in Int
      BY <2>3, PlaceAddress
    <3> QED
      BY <3>1 DEF AboveTakes
  <2>5. AboveGives(w, x, addr, 0, u[m])
    BY <2>3, AbovePlace
  <2>6. u[m].ar = w.ar
    BY <2>4, <2>5 DEF AboveGives
  <2> QED
    BY <2>1, <2>3, <2>6
<1>4. n \in P
  <2>1. n \in 0..n /\ 0 \in P /\ \A m \in 1..n : m - 1 \in P => m \in P
    BY <1>2, <1>3
  <2> HIDE DEF P
  <2> QED
    BY <2>1, RunKeeps
<1> QED
  BY <1>4

\* A module without a symbol below the address gives none there.
LEMMA DownNone ==
    ASSUME NEW M \in Nat, NEW addr, NEW k, NEW w0 \in Walks(M), gaddr(<<k, 0>>) > addr,
           NEW v, BelowRun(v, 1, Down(k, 0), w0, addr, M)
    PROVE  v[1].ar = w0.ar
<1>1. v[0] = w0 /\ v[1] = Below(v[1 - 1], Down(k, 0)[1], addr, M)
  BY DEF BelowRun
<1>2. Down(k, 0)[1] = <<k, 0>>
  BY DEF Down
<1>3. BelowGives(w0, <<k, 0>>, addr, M, v[1])
  BY <1>1, <1>2, BelowPlace
<1>4. ~BelowTakes(w0, <<k, 0>>, addr)
  BY DEF BelowTakes
<1> QED
  BY <1>3, <1>4 DEF BelowGives

\* The symbols below the address, and above it, of some modules.
LowsOf(T, addr) == {x \in Places : x[1] \in T /\ gaddr(x) <= addr}
HighsOf(T, addr) == {x \in Places : x[1] \in T /\ gaddr(x) > addr /\ x[2] > 0}

\* One more module adds its symbols.
LEMMA LowsType ==
    ASSUME ModulesKept, NEW addr \in Int, NEW T, NEW k \in DOMAIN mods, k \notin T
    PROVE  /\ LowsOf(T, addr) \in SUBSET Places
           /\ \A y \in LowsOf(T, addr) : gaddr(y) <= addr /\ y[1] # k
           /\ LowsOf(T \cup {k}, addr) = LowsOf(T, addr) \cup LowOf(k, addr)
           /\ HighsOf(T, addr) \in SUBSET Places
           /\ \A y \in HighsOf(T, addr) : gaddr(y) > addr /\ y[1] # k
           /\ HighsOf(T \cup {k}, addr) = HighsOf(T, addr) \cup HighOf(k, addr)
<1>1. \A x : x \in Places /\ x[1] = k <=> x \in {k} \X (0..(mods[k].n - 1))
  <2>1. ASSUME NEW x \in Places, x[1] = k
        PROVE  x \in {k} \X (0..(mods[k].n - 1))
    BY <2>1, PlaceAddress
  <2>2. ASSUME NEW x \in {k} \X (0..(mods[k].n - 1))
        PROVE  x \in Places /\ x[1] = k
    <3>1. PICK i \in 0..(mods[k].n - 1) : x = <<k, i>>
      BY <2>2
    <3> QED
      BY <3>1, PlaceIn
  <2> QED
    BY <2>1, <2>2
<1>2. LowsOf(T \cup {k}, addr) = LowsOf(T, addr) \cup LowOf(k, addr)
  <2>1. \A x : x \in LowOf(k, addr) <=> x \in Places /\ x[1] = k /\ gaddr(x) <= addr
    BY <1>1 DEF LowOf
  <2> QED
    BY <2>1 DEF LowsOf
<1>3. HighsOf(T \cup {k}, addr) = HighsOf(T, addr) \cup HighOf(k, addr)
  <2>1. \A x : x \in HighOf(k, addr) <=> x \in Places /\ x[1] = k /\ gaddr(x) > addr /\ x[2] > 0
    BY <1>1 DEF HighOf
  <2> QED
    BY <2>1 DEF HighsOf
<1>4. LowsOf(T, addr) \in SUBSET Places /\ HighsOf(T, addr) \in SUBSET Places
  BY DEF LowsOf, HighsOf
<1>5. \A y \in LowsOf(T, addr) : gaddr(y) <= addr /\ y[1] # k
  BY DEF LowsOf
<1>6. \A y \in HighsOf(T, addr) : gaddr(y) > addr /\ y[1] # k
  BY DEF HighsOf
<1> QED
  BY <1>2, <1>3, <1>4, <1>5, <1>6

LowGood(ar, T, addr, M) == Nearest(LowPart(ar, M), M + 1, LowsOf(T, addr), Dists(addr))
HighGood(ar, T, addr, M) == Nearest(HighPart(ar, M), Highs(M), HighsOf(T, addr), Dists(addr))

\* The walks give the nearest of one more module.
LEMMA LowAround ==
    ASSUME ModulesKept, IndicesAscend, NEW M \in Nat, NEW addr \in Int, NEW k \in DOMAIN mods,
           NEW T, k \notin T, NEW c, PartedAt(k, c, addr),
           NEW ar \in Arrays(M), LowGood(ar, T, addr, M),
           NEW v, BelowRun(v, c + 1, Down(k, c), [ar |-> ar, ends |-> FALSE], addr, M)
    PROVE  LowGood(v[c + 1].ar, T \cup {k}, addr, M)
<1>1. PICK w0 \in Walks(M) : w0 = [ar |-> ar, ends |-> FALSE]
  BY DEF Walks
<1>2. w0.ar = ar /\ w0.ends = FALSE /\ BelowRun(v, c + 1, Down(k, c), w0, addr, M)
  BY <1>1
<1>3. /\ LowsOf(T, addr) \in SUBSET Places
      /\ \A y \in LowsOf(T, addr) : gaddr(y) <= addr /\ y[1] # k
      /\ LowsOf(T \cup {k}, addr) = LowsOf(T, addr) \cup LowOf(k, addr)
  BY LowsType
<1>4. CASE \A i \in 0..c : gaddr(<<k, i>>) <= addr
  <2>1. Nearest(LowPart(w0.ar, M), M + 1, LowsOf(T, addr), Dists(addr))
    BY <1>2 DEF LowGood
  <2>2. Nearest(LowPart(v[c + 1].ar, M), M + 1, LowsOf(T, addr) \cup LowOf(k, addr), Dists(addr))
    BY <1>2, <1>3, <1>4, <2>1, DownNearest
  <2> QED
    BY <1>3, <2>2 DEF LowGood
<1>5. CASE c = 0 /\ gaddr(<<k, 0>>) > addr
  <2>1. v[1].ar = ar /\ c + 1 = 1
    BY <1>2, <1>5, DownNone
  <2>2. LowOf(k, addr) = {}
    <3>1. SUFFICES ASSUME NEW x \in LowOf(k, addr)
                   PROVE  FALSE
      OBVIOUS
    <3>2. PICK i \in 0..(mods[k].n - 1) : x = <<k, i>> /\ gaddr(x) <= addr
      BY DEF LowOf
    <3>3. gaddr(<<k, i>>) \in Int /\ mods[k].n \in Nat \ {0}
      BY <3>2, PlaceIn
    <3>4. 0 \in 0..(mods[k].n - 1) /\ 0 <= i
      BY <3>3
    <3>5. gaddr(<<k, 0>>) <= gaddr(<<k, i>>) /\ gaddr(<<k, 0>>) \in Int
      BY <3>2, <3>4, PlacesAscend, PlaceIn
    <3> QED
      BY <1>5, <3>2, <3>3, <3>5
  <2>3. LowsOf(T \cup {k}, addr) = LowsOf(T, addr)
    BY <1>3, <2>2
  <2>4. v[c + 1].ar = ar
    BY <2>1
  <2> QED
    BY <2>3, <2>4 DEF LowGood
<1> QED
  BY <1>4, <1>5 DEF PartedAt

LEMMA HighAround ==
    ASSUME ModulesKept, IndicesAscend, NEW M \in Nat, NEW addr \in Int, NEW k \in DOMAIN mods,
           NEW T, k \notin T, NEW c, PartedAt(k, c, addr),
           NEW ar \in Arrays(M), HighGood(ar, T, addr, M),
           NEW u, AboveRun(u, mods[k].n - c - 1, Up(k, c), [ar |-> ar, ends |-> FALSE], addr, M)
    PROVE  HighGood(u[mods[k].n - c - 1].ar, T \cup {k}, addr, M)
<1>1. PICK w0 \in Walks(M) : w0 = [ar |-> ar, ends |-> FALSE]
  BY DEF Walks
<1>2. w0.ar = ar /\ w0.ends = FALSE /\ AboveRun(u, mods[k].n - c - 1, Up(k, c), w0, addr, M)
  BY <1>1
<1>3. /\ HighsOf(T, addr) \in SUBSET Places
      /\ \A y \in HighsOf(T, addr) : gaddr(y) > addr /\ y[1] # k
      /\ HighsOf(T \cup {k}, addr) = HighsOf(T, addr) \cup HighOf(k, addr)
  <2>1. HighsOf(T, addr) \in SUBSET Places
    BY LowsType
  <2>2. \A y \in HighsOf(T, addr) : gaddr(y) > addr /\ y[1] # k
    BY DEF HighsOf
  <2>3. HighsOf(T \cup {k}, addr) = HighsOf(T, addr) \cup HighOf(k, addr)
    BY LowsType
  <2> QED
    BY <2>1, <2>2, <2>3
<1>4. Nearest(HighPart(w0.ar, M), Highs(M), HighsOf(T, addr), Dists(addr))
  BY <1>2 DEF HighGood
<1>5. Nearest(HighPart(u[mods[k].n - c - 1].ar, M), Highs(M), HighsOf(T, addr) \cup HighOf(k, addr),
              Dists(addr))
  BY <1>2, <1>3, <1>4, UpNearest
<1> QED
  BY <1>3, <1>5 DEF HighGood

\* The array with the symbols of some modules.  Without a margin its entry is
\* the nearest below the address, and above it as long as there is none below.
Good(ar, T, addr, M) ==
    /\ ar \in Arrays(M)
    /\ M > 0 \/ LowsOf(T, addr) # {} => LowGood(ar, T, addr, M)
    /\ M > 0 \/ LowsOf(T, addr) = {} => HighGood(ar, T, addr, M)

\* One more module that contains the address, with a margin and without.
LEMMA AroundBoth ==
    ASSUME ModulesKept, IndicesAscend, NEW M \in Nat \ {0}, NEW addr \in Int, NEW k \in DOMAIN mods,
           NEW T, k \notin T, NEW ar, Good(ar, T, addr, M)
    PROVE  Good(Around(ar, k, addr, M), T \cup {k}, addr, M)
<1>1. ar \in Arrays(M) /\ LowGood(ar, T, addr, M) /\ HighGood(ar, T, addr, M) /\ M \in Nat
  BY DEF Good
<1>2. PICK c : PartedAt(k, c, addr)
  BY ModuleParts
<1>3. c \in 0..(mods[k].n - 1) /\ cexpSymTblLkAddrIdx(Table(mods[k]), addr) = c
  BY <1>2 DEF PartedAt
<1>4. PICK v, u : AroundRun(v, u, ar, k, c, addr, M)
  BY <1>1, <1>3, AroundRuns
<1>5. PICK n \in Nat : n = mods[k].n - c - 1 /\ c + 1 \in Nat
  <2>1. mods[k].n \in Nat
    BY <1>3, PlaceIn
  <2> QED
    BY <1>3, <2>1
<1>6. /\ BelowRun(v, c + 1, Down(k, c), [ar |-> ar, ends |-> FALSE], addr, M)
      /\ AboveRun(u, n, Up(k, c), [ar |-> v[c + 1].ar, ends |-> FALSE], addr, M)
      /\ Around(ar, k, addr, M) = u[n].ar
  BY <1>4, <1>5 DEF AroundRun
<1>7. PICK a1, a2 : a1 = v[c + 1].ar /\ a2 = u[n].ar
  OBVIOUS
<1>8. a1 \in Arrays(M) /\ a2 \in Arrays(M)
  <2>1. v[c + 1] \in Walks(M) /\ u[n] \in Walks(M)
    BY <1>5, <1>6 DEF BelowRun, AboveRun
  <2> QED
    BY <1>7, <2>1 DEF Walks
<1>9. PICK w0 \in Walks(M), w1 \in Walks(M) :
        w0 = [ar |-> ar, ends |-> FALSE] /\ w1 = [ar |-> a1, ends |-> FALSE]
  BY <1>1, <1>8 DEF Walks
<1>10. Down(k, c) \in [1..(c + 1) -> Places] /\ Up(k, c) \in [1..n -> Places]
  <2>1. mods[k].n \in Nat
    BY <1>3, PlaceIn
  <2>2. \A j \in 1..(c + 1) : <<k, c + 1 - j>> \in Places
    <3>1. \A j \in 1..(c + 1) : c + 1 - j \in 0..(mods[k].n - 1)
      BY <1>3, <2>1
    <3> QED
      BY <3>1, PlaceIn
  <2>3. \A j \in 1..n : <<k, c + j>> \in Places
    <3>1. \A j \in 1..n : c + j \in 0..(mods[k].n - 1)
      BY <1>3, <1>5, <2>1
    <3> QED
      BY <3>1, PlaceIn
  <2> QED
    BY <1>5, <2>2, <2>3 DEF Down, Up
<1>11. LowGood(a1, T \cup {k}, addr, M)
  BY <1>1, <1>2, <1>6, <1>7, LowAround
<1>12. SameAbove(a1, ar, M)
  <2>1. BelowRun(v, c + 1, Down(k, c), w0, addr, M)
    <3>1. w0 = [ar |-> ar, ends |-> FALSE]
      BY <1>9
    <3> QED
      BY <1>6, <3>1
  <2>2. SameAbove(v[c + 1].ar, w0.ar, M)
    <3>1. PICK m \in Nat : m = c + 1
      BY <1>5
    <3>2. PICK q \in [1..m -> Places] : q = Down(k, c)
      BY <1>10, <3>1
    <3>3. BelowRun(v, m, q, w0, addr, M)
      BY <2>1, <3>1, <3>2
    <3>4. SameAbove(v[m].ar, w0.ar, M)
      BY <1>1, <3>3, DownKeeps
    <3> QED
      BY <3>1, <3>4
  <2> QED
    BY <1>7, <1>9, <2>2
<1>13. HighPart(a1, M) = HighPart(ar, M)
  <2>1. \A d \in 0..(Highs(M) - 1) : M + 1 + d \in (M + 1)..(2 * M)
    BY DEF Highs
  <2> QED
    BY <1>12, <2>1 DEF HighPart, SameAbove
<1>14. HighGood(a1, T, addr, M)
  BY <1>1, <1>13 DEF HighGood
<1>15. HighGood(a2, T \cup {k}, addr, M)
  BY <1>1, <1>2, <1>5, <1>6, <1>7, <1>8, <1>14, HighAround
<1>16. SameBelow(a2, a1, M)
  <2>1. AboveRun(u, n, Up(k, c), w1, addr, M)
    <3>1. w1 = [ar |-> v[c + 1].ar, ends |-> FALSE]
      BY <1>7, <1>9
    <3> QED
      BY <1>6, <3>1
  <2>2. SameBelow(u[n].ar, w1.ar, M)
    <3>1. PICK q \in [1..n -> Places] : q = Up(k, c)
      BY <1>10
    <3>2. AboveRun(u, n, q, w1, addr, M)
      BY <2>1, <3>1
    <3> QED
      BY <3>2, UpKeeps
  <2> QED
    BY <1>7, <1>9, <2>2
<1>17. LowPart(a2, M) = LowPart(a1, M)
  BY <1>16 DEF LowPart, SameBelow
<1>18. LowGood(a2, T \cup {k}, addr, M)
  BY <1>11, <1>17 DEF LowGood
<1> QED
  BY <1>6, <1>7, <1>8, <1>15, <1>18 DEF Good

LEMMA AroundOne ==
    ASSUME ModulesKept, IndicesAscend, NEW addr \in Int, NEW k \in DOMAIN mods,
           NEW T, k \notin T, LowsOf(T, addr) = {} => HighsOf(T, addr) = {}, NEW ar, Good(ar, T, addr, 0)
    PROVE  Good(Around(ar, k, addr, 0), T \cup {k}, addr, 0)
<1>1. ar \in Arrays(0) /\ 0 \in Nat
  BY DEF Good
<1>2. PICK c : PartedAt(k, c, addr)
  BY ModuleParts
<1>3. c \in 0..(mods[k].n - 1) /\ cexpSymTblLkAddrIdx(Table(mods[k]), addr) = c
  BY <1>2 DEF PartedAt
<1>4. PICK v, u : AroundRun(v, u, ar, k, c, addr, 0)
  BY <1>1, <1>3, AroundRuns
<1>5. PICK n \in Nat : n = mods[k].n - c - 1 /\ c + 1 \in Nat
  <2>1. mods[k].n \in Nat
    BY <1>3, PlaceIn
  <2> QED
    BY <1>3, <2>1
<1>6. /\ BelowRun(v, c + 1, Down(k, c), [ar |-> ar, ends |-> FALSE], addr, 0)
      /\ AboveRun(u, n, Up(k, c), [ar |-> v[c + 1].ar, ends |-> FALSE], addr, 0)
      /\ Around(ar, k, addr, 0) = u[n].ar
  BY <1>4, <1>5 DEF AroundRun
<1>7. PICK a1, a2 : a1 = v[c + 1].ar /\ a2 = u[n].ar
  OBVIOUS
<1>8. a1 \in Arrays(0) /\ a2 \in Arrays(0)
  <2>1. v[c + 1] \in Walks(0) /\ u[n] \in Walks(0)
    BY <1>5, <1>6 DEF BelowRun, AboveRun
  <2> QED
    BY <1>7, <2>1 DEF Walks
<1>9. PICK w0 \in Walks(0), w1 \in Walks(0) :
        w0 = [ar |-> ar, ends |-> FALSE] /\ w1 = [ar |-> a1, ends |-> FALSE]
  BY <1>1, <1>8 DEF Walks
<1>10. Up(k, c) \in [1..n -> Places]
  <2>1. mods[k].n \in Nat
    BY <1>3, PlaceIn
  <2>2. \A j \in 1..n : <<k, c + j>> \in Places
    <3>1. \A j \in 1..n : c + j \in 0..(mods[k].n - 1)
      BY <1>3, <1>5, <2>1
    <3> QED
      BY <3>1, PlaceIn
  <2> QED
    BY <1>5, <2>2 DEF Up
<1>11. ASSUME LowGood(ar, T, addr, 0), LowsOf(T \cup {k}, addr) # {}
       PROVE  Good(a2, T \cup {k}, addr, 0)
  <2>1. LowGood(a1, T \cup {k}, addr, 0)
    BY <1>1, <1>2, <1>6, <1>7, <1>11, LowAround
  <2>2. PICK S : S = LowsOf(T \cup {k}, addr)
    OBVIOUS
  <2>3. PICK b : b = LowPart(a1, 0)
    OBVIOUS
  <2>4. b[0] = a1[0]
    BY <2>3 DEF LowPart
  <2>5. Nearest(b, 0 + 1, S, Dists(addr))
    BY <2>1, <2>2, <2>3 DEF LowGood
  <2>6. b[0] \in S
    <3>1. b[0] = None \/ b[0] \in S
      BY <2>5 DEF Nearest
    <3>2. PICK y \in S : TRUE
      BY <1>11, <2>2
    <3>3. (\E d \in 0..0 : b[d] = y) \/ b[0] # None
      BY <2>5, <3>2 DEF Nearest
    <3> QED
      BY <3>1, <3>3
  <2>7. a1[0] \in Places /\ gaddr(a1[0]) <= addr
    BY <2>2, <2>4, <2>6 DEF LowsOf
  <2>8. a2 = a1
    <3>1. AboveRun(u, n, Up(k, c), w1, addr, 0) /\ w1.ar = a1
      BY <1>6, <1>7, <1>9
    <3>2. u[n].ar = w1.ar
      BY <1>10, <2>7, <3>1, UpBlocked
    <3> QED
      BY <1>7, <3>1, <3>2
  <2> QED
    BY <1>8, <1>11, <2>1, <2>8 DEF Good
<1>12. ASSUME LowsOf(T, addr) = {}
       PROVE  HighGood(ar, T, addr, 0) /\ LowGood(ar, T, addr, 0)
  <2>1. HighGood(ar, T, addr, 0)
    BY <1>12 DEF Good
  <2>2. PICK b : b = HighPart(ar, 0)
    OBVIOUS
  <2>3. PICK f : f = Dists(addr)
    OBVIOUS
  <2>4. Nearest(b, 1, {}, f)
    BY <1>12, <2>1, <2>2, <2>3 DEF HighGood, Highs
  <2>5. b[0] = None /\ b[0] = ar[0]
    <3>1. b[0] = None
      BY <2>4 DEF Nearest
    <3> QED
      BY <2>2, <3>1 DEF HighPart, Highs
  <2>6. LowPart(ar, 0)[0] = None
    BY <2>5 DEF LowPart
  <2>7. PICK b2 : b2 = LowPart(ar, 0)
    OBVIOUS
  <2>8. Nearest(b2, 1, {}, f)
    BY <2>6, <2>7 DEF Nearest
  <2> QED
    BY <1>12, <2>1, <2>3, <2>7, <2>8 DEF LowGood
<1>13. CASE LowsOf(T \cup {k}, addr) # {}
  <2>1. LowGood(ar, T, addr, 0)
    BY <1>12 DEF Good
  <2> QED
    BY <1>6, <1>7, <1>11, <1>13, <2>1
<1>14. CASE LowsOf(T \cup {k}, addr) = {}
  <2>1. LowsOf(T, addr) = {} /\ LowOf(k, addr) = {}
    <3>1. LowsOf(T \cup {k}, addr) = LowsOf(T, addr) \cup LowOf(k, addr)
      BY LowsType
    <3> QED
      BY <1>14, <3>1
  <2>2. c = 0 /\ gaddr(<<k, 0>>) > addr
    <3>1. c = 0 \/ c > 0
      BY <1>3, PlaceIn
    <3>2. ~(gaddr(<<k, 0>>) <= addr)
      <4>1. 0 \in 0..(mods[k].n - 1)
        <5>1. mods[k].n \in Nat \ {0}
          BY <1>3, PlaceIn
        <5> QED
          BY <5>1
      <4> QED
        BY <2>1, <4>1 DEF LowOf
    <3>3. 0 \in 0..c
      BY <1>3, PlaceIn
    <3> QED
      BY <1>2, <3>2, <3>3 DEF PartedAt
  <2>3. a1 = ar
    <3>1. BelowRun(v, 1, Down(k, 0), w0, addr, 0) /\ c + 1 = 1 /\ w0.ar = ar
      BY <1>6, <1>9, <2>2
    <3>2. v[1].ar = w0.ar
      BY <1>1, <2>2, <3>1, DownNone
    <3> QED
      BY <1>7, <3>1, <3>2
  <2>4. HighGood(a1, T, addr, 0)
    BY <1>12, <2>1, <2>3
  <2>5. HighGood(a2, T \cup {k}, addr, 0)
    BY <1>1, <1>2, <1>5, <1>6, <1>7, <1>8, <2>4, HighAround
  <2>6. PICK R : R = T \cup {k}
    OBVIOUS
  <2>7. LowsOf(R, addr) = {} /\ HighGood(a2, R, addr, 0)
    BY <1>14, <2>5, <2>6
  <2>8. Good(a2, R, addr, 0)
    BY <1>8, <2>7 DEF Good
  <2> QED
    BY <1>6, <1>7, <2>6, <2>8
<1> QED
  BY <1>13, <1>14

-----------------------------------------------------------------------------
(* The search over all modules *)

\* What the search over all modules does with one of them.
RangeStep(ar, k, addr, M) == IF addrInModule(addr, k) THEN Around(ar, k, addr, M) ELSE ar
NoSymbols(M) == [j \in 0..(2 * M) |-> None]
RangeRun(v, addr, M) ==
    /\ v \in [0..Len(mods) -> Arrays(M)] /\ v[0] = NoSymbols(M)
    /\ \A m \in 1..Len(mods) : v[m] = RangeStep(v[m - 1], m, addr, M)

\* Each module leaves an array, and the search goes through them.
LEMMA RangeType ==
    ASSUME ModulesKept, IndicesAscend, NEW M \in Nat, NEW addr \in Int, NEW k \in DOMAIN mods,
           NEW ar \in Arrays(M)
    PROVE  RangeStep(ar, k, addr, M) \in Arrays(M)
<1>1. PICK c : PartedAt(k, c, addr)
  BY ModuleParts
<1>2. c \in 0..(mods[k].n - 1) /\ cexpSymTblLkAddrIdx(Table(mods[k]), addr) = c
  BY <1>1 DEF PartedAt
<1>3. PICK v, u : AroundRun(v, u, ar, k, c, addr, M)
  BY <1>2, AroundRuns
<1>4. c \in Nat /\ mods[k].n - c - 1 \in Nat
  <2>1. mods[k].n \in Nat
    BY <1>2, PlaceIn
  <2> QED
    BY <1>2, <2>1
<1>5. Around(ar, k, addr, M) \in Arrays(M)
  BY <1>3, <1>4, AroundType
<1> QED
  BY <1>5 DEF RangeStep

LEMMA RangeRuns ==
    ASSUME ModulesKept, IndicesAscend, NEW M \in Nat, NEW addr \in Int
    PROVE  \E v : RangeRun(v, addr, M) /\ cexpSymLkAddrRange(addr, M) = v[Len(mods)]
<1>0. PICK n \in Nat : n = Len(mods) /\ DOMAIN mods = 1..n
  BY ModulesType
<1> DEFINE V == Arrays(M)
           q == [k \in DOMAIN mods |-> k]
           w0 == [j \in 0..(2 * M) |-> None]
           g == [z \in (1..n) \X V |-> RangeStep(z[2], z[1], addr, M)]
           folds(f) == f = [s \in SUBSET (DOMAIN q) |->
                              IF s = {} THEN w0
                              ELSE IF addrInModule(addr, q[Max(s)])
                                THEN Around(f[s \ {Max(s)}], q[Max(s)], addr, M)
                                ELSE f[s \ {Max(s)}]]
<1>00. w0 \in V
  BY DEF Arrays
<1>1. g \in Steps(n, V)
  <2>1. ASSUME NEW m \in 1..n, NEW w \in V
        PROVE  RangeStep(w, m, addr, M) \in V
    BY <1>0, RangeType
  <2> HIDE DEF V
  <2> QED
    BY <2>1 DEF Steps
<1>2. PICK f \in [SUBSET (1..n) -> V] : \A s \in SUBSET (1..n) :
        f[s] = IF s = {} THEN w0 ELSE g[<<Max(s), f[s \ {Max(s)}]>>]
  <2> HIDE DEF g, V, w0
  <2>1. Foldable(n, V, w0, g)
    BY <1>00, <1>1, FoldExists
  <2> QED
    BY <2>1 DEF Foldable
<1>3. \A s \in SUBSET (1..n) : s # {} => g[<<Max(s), f[s \ {Max(s)}]>>] = RangeStep(f[s \ {Max(s)}], Max(s), addr, M)
  <2>1. ASSUME NEW s \in SUBSET (1..n), s # {}
        PROVE  g[<<Max(s), f[s \ {Max(s)}]>>] = RangeStep(f[s \ {Max(s)}], Max(s), addr, M)
    <3>1. Max(s) \in 1..n /\ s \ {Max(s)} \in SUBSET (1..n)
      BY <2>1, Lasts
    <3>2. PICK m \in 1..n, w \in V : m = Max(s) /\ w = f[s \ {Max(s)}]
      BY <1>2, <3>1
    <3>3. g[<<m, w>>] = RangeStep(w, m, addr, M)
      <4> HIDE DEF V
      <4> QED
        OBVIOUS
    <3> QED
      BY <3>2, <3>3
  <2> QED
    BY <2>1
<1>4. folds(f)
  <2>2. f = [s \in SUBSET (1..n) |-> IF s = {} THEN w0 ELSE RangeStep(f[s \ {Max(s)}], Max(s), addr, M)]
    <3> HIDE DEF g, V, w0
    <3> QED
      BY <1>2, <1>3
  <2>3. \A s \in SUBSET (1..n) : s # {} => q[Max(s)] = Max(s)
    BY <1>0, Lasts
  <2>4. f = [s \in SUBSET (1..n) |-> IF s = {} THEN w0 ELSE
             IF addrInModule(addr, q[Max(s)]) THEN Around(f[s \ {Max(s)}], q[Max(s)], addr, M)
                                              ELSE f[s \ {Max(s)}]]
    <3> HIDE DEF q, w0, g, V
    <3> QED
      BY <2>2, <2>3 DEF RangeStep
  <2> QED
    BY <1>0, <2>4
<1> DEFINE c == CHOOSE h : folds(h)
<1>5. cexpSymLkAddrRange(addr, M) = c[1..n]
  <2>1. cexpSymLkAddrRange(addr, M) = c[DOMAIN q]
    BY DEF cexpSymLkAddrRange, FoldLeft, MapThenFoldSet
  <2>2. DOMAIN q = 1..n
    BY <1>0
  <2> HIDE DEF c, q
  <2> QED
    BY <2>1, <2>2
<1>6. folds(c)
  <2>1. \E h : folds(h)
    BY <1>4
  <2> HIDE DEF folds
  <2> QED
    BY <2>1
<1>7. /\ c[{}] = w0
      /\ \A s \in SUBSET (1..n) : s # {} => c[s] = RangeStep(c[s \ {Max(s)}], Max(s), addr, M)
  <2> HIDE DEF c, w0
  <2>1. c = [s \in SUBSET (1..n) |-> IF s = {} THEN w0 ELSE
             IF addrInModule(addr, q[Max(s)]) THEN Around(c[s \ {Max(s)}], q[Max(s)], addr, M)
                                              ELSE c[s \ {Max(s)}]]
    BY <1>0, <1>6
  <2>2. \A s \in SUBSET (1..n) : s # {} => q[Max(s)] = Max(s)
    BY <1>0, Lasts
  <2> HIDE DEF q
  <2>3. c[{}] = w0
    BY <2>1
  <2> QED
    BY <2>1, <2>2, <2>3 DEF RangeStep
<1> HIDE DEF c
<1>8. ASSUME NEW s \in SUBSET (1..n), s # {}, c[s \ {Max(s)}] \in V
      PROVE  c[s] = g[<<Max(s), c[s \ {Max(s)}]>>]
  <2>1. Max(s) \in 1..n
    BY <1>8, Lasts
  <2>2. PICK m \in 1..n, w \in V : m = Max(s) /\ w = c[s \ {Max(s)}]
    BY <1>8, <2>1
  <2>3. g[<<m, w>>] = RangeStep(w, m, addr, M)
    <3> HIDE DEF V
    <3> QED
      OBVIOUS
  <2> QED
    BY <1>7, <1>8, <2>2, <2>3
<1>9. PICK v : Runs(v, n, V, w0, g) /\ v[n] = c[1..n]
  <2> HIDE DEF g, V, w0, folds
  <2>2. \A s \in SUBSET (1..n) : s # {} /\ c[s \ {Max(s)}] \in V => c[s] = g[<<Max(s), c[s \ {Max(s)}]>>]
    BY <1>8
  <2>3. FoldsBy(c, n, V, w0, g)
    BY <1>7, <2>2 DEF FoldsBy
  <2> QED
    BY <1>00, <1>1, <2>3, FoldRuns
<1>10. ASSUME NEW m \in 1..n
       PROVE  v[m] = RangeStep(v[m - 1], m, addr, M)
  <2>1. v[m - 1] \in V /\ v[m] = g[<<m, v[m - 1]>>]
    <3>1. m - 1 \in 0..n
      OBVIOUS
    <3> HIDE DEF g, V, w0
    <3> QED
      BY <1>9, <3>1 DEF Runs
  <2> HIDE DEF V
  <2> QED
    BY <2>1
<1>11. v \in [0..n -> V] /\ v[0] = w0 /\ v[n] = c[1..n]
  <2> HIDE DEF g, V, w0
  <2> QED
    BY <1>9 DEF Runs
<1> QED
  BY <1>0, <1>5, <1>10, <1>11 DEF RangeRun, NoSymbols

\* The modules up to m that contain the address.
HitUpTo(m, addr) == {k \in 1..m : addrInModule(addr, k)}

\* Without a margin: a module that contains the address is the only one, or has
\* the system module before it, which has a symbol below the address.
LEMMA FirstIsLow ==
    ASSUME ModulesKept, NEW addr \in Int, NEW m \in DOMAIN mods, addrInModule(addr, m),
           LowsOf(HitUpTo(m - 1, addr), addr) = {}
    PROVE  HighsOf(HitUpTo(m - 1, addr), addr) = {}
<1>1. SUFFICES ASSUME NEW x \in HighsOf(HitUpTo(m - 1, addr), addr)
               PROVE  FALSE
  OBVIOUS
<1>2. DOMAIN mods = 1..Len(mods) /\ Len(mods) \in Nat
  BY ModulesType
<1>3. x \in Places /\ x[1] \in HitUpTo(m - 1, addr)
  BY DEF HighsOf
<1>4. PICK k : k \in DOMAIN mods /\ k \in HitUpTo(m - 1, addr)
  BY <1>3, PlaceAddress
<1>5. k \in 1..(m - 1) /\ addrInModule(addr, k) /\ k \in Int /\ k < m /\ m # 1
  BY <1>2, <1>4 DEF HitUpTo
<1>6. CASE k = 1
  <2>1. gaddr(<<1, 0>>) <= addr
    BY <1>5, <1>6 DEF addrInModule
  <2>2. mods[1].n \in Nat /\ mods[1].n > 0 /\ 1 \in DOMAIN mods
    BY <1>4, <1>6, ModulesType
  <2>3. 0 \in 0..(mods[1].n - 1)
    BY <2>2
  <2>4. <<1, 0>> \in Places
    BY <2>2, <2>3, PlaceIn
  <2>5. <<1, 0>> \in LowsOf(HitUpTo(m - 1, addr), addr)
    BY <1>4, <1>6, <2>1, <2>4 DEF LowsOf
  <2> QED
    BY <2>5
<1>7. CASE k # 1
  <2>1. addr \in mods[k].chunk /\ addr \in mods[m].chunk
    BY <1>5, <1>7 DEF addrInModule
  <2>2. mods[k].chunk \cap mods[m].chunk = {}
    BY <1>4, <1>5 DEF ModulesKept
  <2> QED
    BY <2>1, <2>2
<1> QED
  BY <1>6, <1>7

\* Each module keeps the array good, which it is at first.
LEMMA RangeKeeps ==
    ASSUME ModulesKept, IndicesAscend, NEW M \in Nat, NEW addr \in Int, NEW m \in DOMAIN mods,
           NEW ar, Good(ar, HitUpTo(m - 1, addr), addr, M)
    PROVE  Good(RangeStep(ar, m, addr, M), HitUpTo(m, addr), addr, M)
<1>1. DOMAIN mods = 1..Len(mods) /\ Len(mods) \in Nat /\ m \in Nat /\ m # 0
  BY ModulesType
<1>2. PICK T : T = HitUpTo(m - 1, addr)
  OBVIOUS
<1>3. m \notin T
  BY <1>1, <1>2 DEF HitUpTo
<1>4. CASE ~addrInModule(addr, m)
  <2>1. HitUpTo(m, addr) = T
    <3>1. 1..m = (1..(m - 1)) \cup {m}
      BY <1>1
    <3> QED
      BY <1>2, <1>4, <3>1 DEF HitUpTo
  <2> QED
    BY <1>2, <1>4, <2>1 DEF RangeStep
<1>5. CASE addrInModule(addr, m)
  <2>1. HitUpTo(m, addr) = T \cup {m}
    <3>1. 1..m = (1..(m - 1)) \cup {m}
      BY <1>1
    <3> QED
      BY <1>2, <1>5, <3>1 DEF HitUpTo
  <2>2. CASE M = 0
    <3>1. LowsOf(T, addr) = {} => HighsOf(T, addr) = {}
      BY <1>2, <1>5, FirstIsLow
    <3>2. Good(ar, T, addr, 0)
      BY <1>2, <2>2
    <3>3. Good(Around(ar, m, addr, 0), T \cup {m}, addr, 0)
      BY <1>3, <3>1, <3>2, AroundOne
    <3> QED
      BY <1>5, <2>1, <2>2, <3>3 DEF RangeStep
  <2>3. CASE M # 0
    <3>1. M \in Nat \ {0} /\ Good(ar, T, addr, M)
      BY <1>2, <2>3
    <3>2. Good(Around(ar, m, addr, M), T \cup {m}, addr, M)
      BY <1>3, <3>1, AroundBoth
    <3> QED
      BY <1>5, <2>1, <3>2 DEF RangeStep
  <2> QED
    BY <2>2, <2>3
<1> QED
  BY <1>4, <1>5

LEMMA NoSymbolsGood ==
    ASSUME NEW M \in Nat, NEW addr
    PROVE  Good(NoSymbols(M), {}, addr, M)
<1>1. LowsOf({}, addr) = {} /\ HighsOf({}, addr) = {}
  BY DEF LowsOf, HighsOf
<1>2. \A D \in Nat : \A b, f : (\A d \in 0..(D - 1) : b[d] = None) => Nearest(b, D, {}, f)
  BY DEF Nearest
<1>3. PICK a : a = NoSymbols(M)
  OBVIOUS
<1>4. a \in Arrays(M) /\ \A j \in 0..(2 * M) : a[j] = None
  BY <1>3 DEF NoSymbols, Arrays
<1>5. LowGood(a, {}, addr, M)
  <2>1. \A d \in 0..M : LowPart(a, M)[d] = None
    BY <1>4 DEF LowPart
  <2>2. M + 1 \in Nat /\ 0..((M + 1) - 1) = 0..M
    OBVIOUS
  <2>3. Nearest(LowPart(a, M), M + 1, {}, Dists(addr))
    BY <1>2, <2>1, <2>2
  <2> QED
    BY <1>1, <2>3 DEF LowGood
<1>6. HighGood(a, {}, addr, M)
  <2>1. \A d \in 0..(Highs(M) - 1) : HighPart(a, M)[d] = None
    BY <1>4 DEF HighPart, Highs
  <2>2. Highs(M) \in Nat
    BY DEF Highs
  <2>3. Nearest(HighPart(a, M), Highs(M), {}, Dists(addr))
    BY <1>2, <2>1, <2>2
  <2> QED
    BY <1>1, <2>3 DEF HighGood
<1> QED
  BY <1>3, <1>4, <1>5, <1>6 DEF Good

\* The search over all modules.
Containing(addr) == {k \in DOMAIN mods : addrInModule(addr, k)}

LEMMA RangeGood ==
    ASSUME ModulesKept, IndicesAscend, NEW M \in Nat, NEW addr \in Int
    PROVE  Good(cexpSymLkAddrRange(addr, M), Containing(addr), addr, M)
<1>1. PICK n \in Nat : n = Len(mods) /\ DOMAIN mods = 1..n
  BY ModulesType
<1>2. PICK v : RangeRun(v, addr, M) /\ cexpSymLkAddrRange(addr, M) = v[n]
  BY <1>1, RangeRuns
<1>3. v[0] = NoSymbols(M) /\ \A m \in 1..n : v[m] = RangeStep(v[m - 1], m, addr, M)
  BY <1>1, <1>2 DEF RangeRun
<1> DEFINE P == {m \in 0..n : Good(v[m], HitUpTo(m, addr), addr, M)}
<1>4. 0 \in P
  <2>1. HitUpTo(0, addr) = {}
    BY DEF HitUpTo
  <2> QED
    BY <1>3, <2>1, NoSymbolsGood
<1>5. ASSUME NEW m \in 1..n, m - 1 \in P
      PROVE  m \in P
  <2>1. PICK ar : ar = v[m - 1] /\ Good(ar, HitUpTo(m - 1, addr), addr, M)
    BY <1>5
  <2>2. m \in DOMAIN mods
    BY <1>1
  <2>3. Good(RangeStep(ar, m, addr, M), HitUpTo(m, addr), addr, M)
    BY <2>1, <2>2, RangeKeeps
  <2>4. v[m] = RangeStep(ar, m, addr, M)
    BY <1>3, <2>1
  <2> QED
    BY <2>3, <2>4
<1>6. n \in P
  <2>1. n \in 0..n /\ 0 \in P /\ \A m \in 1..n : m - 1 \in P => m \in P
    BY <1>4, <1>5
  <2> HIDE DEF P
  <2> QED
    BY <2>1, RunKeeps
<1>7. HitUpTo(n, addr) = Containing(addr)
  BY <1>1 DEF HitUpTo, Containing
<1> QED
  BY <1>2, <1>6, <1>7

\* There are finitely many places.
LEMMA PlacesFinite ==
    ASSUME ModulesKept
    PROVE  IsFiniteSet(Places)
<1>1. IsFiniteSet(1..Len(mods)) /\ IsFiniteSet(0..MaxSyms)
  BY ModulesType, MaxSymsOK, FS_Interval
<1>2. IsFiniteSet((1..Len(mods)) \X (0..MaxSyms))
  BY <1>1, FS_Product
<1>3. Places \subseteq (1..Len(mods)) \X (0..MaxSyms)
  <2>1. ASSUME NEW x \in Places
        PROVE  x \in (1..Len(mods)) \X (0..MaxSyms)
    <3>1. x = <<x[1], x[2]>> /\ x[1] \in 1..Len(mods) /\ x[2] \in 0..(mods[x[1]].n - 1)
      BY PlaceAddress, ModulesType
    <3>2. x[2] \in 0..MaxSyms
      <4>1. mods[x[1]].n \in 1..MaxSyms
        BY <3>1, ModulesType
      <4> QED
        BY <3>1, <4>1, MaxSymsOK
    <3> QED
      BY <3>1, <3>2
  <2> QED
    BY <2>1
<1> QED
  BY <1>2, <1>3, FS_Subset

\* What AddressClosest says of one entry: x is the one at distance d, of those
\* below the address or of those above it.
NthBelow(x, S, d) ==
    IF Cardinality(S) <= d THEN x = None
    ELSE /\ x \in S
         /\ Cardinality({y \in S : gaddr(y) > gaddr(x)}) <= d
         /\ Cardinality({y \in S : ~(gaddr(x) > gaddr(y))}) > d
NthAbove(x, S, d) ==
    IF Cardinality(S) <= d THEN x = None
    ELSE /\ x \in S
         /\ Cardinality({y \in S : gaddr(y) < gaddr(x)}) <= d
         /\ Cardinality({y \in S : ~(gaddr(x) < gaddr(y))}) > d

\* The entries of a good array are at their distances.
LEMMA NthLow ==
    ASSUME ModulesKept, NEW addr \in Int, NEW T, NEW M \in Nat, NEW ar, LowGood(ar, T, addr, M),
           NEW j \in 0..M
    PROVE  NthBelow(ar[j], LowsOf(T, addr), M - j)
<1>1. PICK S : S = LowsOf(T, addr)
  OBVIOUS
<1>2. S \in SUBSET Places /\ \A y \in S : gaddr(y) <= addr
  BY <1>1 DEF LowsOf
<1>3. IsFiniteSet(S) /\ None \notin S
  BY <1>2, PlacesFinite, NoneNoPlace, FS_Subset
<1>4. PICK f : f = Dists(addr)
  OBVIOUS
<1>5. \A y \in S : gaddr(y) \in Int /\ f[y] = addr - gaddr(y) /\ f[y] \in Int
  BY <1>2, <1>4, PlaceAddress DEF Dists
<1>6. PICK b : b = LowPart(ar, M)
  OBVIOUS
<1>7. PICK D \in Nat : D = M + 1
  OBVIOUS
<1>8. Nearest(b, D, S, f)
  BY <1>1, <1>4, <1>6, <1>7 DEF LowGood
<1>9. PICK d \in 0..(D - 1) : d = M - j
  BY <1>7
<1>10. Nth(b[d], S, d, f)
  BY <1>3, <1>5, <1>8, NearestIsNth
<1>11. b[d] = ar[j]
  <2>1. d \in 0..M /\ M - d = j
    BY <1>9
  <2> QED
    BY <1>6, <2>1 DEF LowPart
<1>12. ASSUME NEW x \in S
       PROVE  /\ {y \in S : gaddr(y) > gaddr(x)} = {y \in S : f[y] < f[x]}
              /\ {y \in S : ~(gaddr(x) > gaddr(y))} = {y \in S : f[y] <= f[x]}
  BY <1>5
<1>13. NthBelow(ar[j], S, d)
  BY <1>10, <1>11, <1>12 DEF Nth, NthBelow
<1> QED
  BY <1>1, <1>9, <1>13

LEMMA NthHigh ==
    ASSUME ModulesKept, NEW addr \in Int, NEW T, NEW M \in Nat, NEW ar, HighGood(ar, T, addr, M),
           NEW d \in 0..(Highs(M) - 1)
    PROVE  NthAbove(ar[IF M = 0 THEN 0 ELSE M + 1 + d], HighsOf(T, addr), d)
<1>1. PICK S : S = HighsOf(T, addr)
  OBVIOUS
<1>2. S \in SUBSET Places /\ \A y \in S : gaddr(y) > addr
  BY <1>1 DEF HighsOf
<1>3. IsFiniteSet(S) /\ None \notin S
  BY <1>2, PlacesFinite, NoneNoPlace, FS_Subset
<1>4. PICK f : f = Dists(addr)
  OBVIOUS
<1>5. \A y \in S : gaddr(y) \in Int /\ f[y] = gaddr(y) - addr /\ f[y] \in Int
  BY <1>2, <1>4, PlaceAddress DEF Dists
<1>6. PICK b : b = HighPart(ar, M)
  OBVIOUS
<1>7. PICK D \in Nat : D = Highs(M)
  BY DEF Highs
<1>8. Nearest(b, D, S, f)
  BY <1>1, <1>4, <1>6, <1>7 DEF HighGood
<1>10. Nth(b[d], S, d, f)
  BY <1>3, <1>5, <1>7, <1>8, NearestIsNth
<1>11. b[d] = ar[IF M = 0 THEN 0 ELSE M + 1 + d]
  BY <1>6 DEF HighPart
<1>12. ASSUME NEW x \in S
       PROVE  /\ {y \in S : gaddr(y) < gaddr(x)} = {y \in S : f[y] < f[x]}
              /\ {y \in S : ~(gaddr(x) < gaddr(y))} = {y \in S : f[y] <= f[x]}
  BY <1>5
<1>13. NthAbove(b[d], S, d)
  BY <1>10, <1>12 DEF Nth, NthAbove
<1> QED
  BY <1>1, <1>11, <1>13

\* No symbol is given twice.
LEMMA EntriesDistinct ==
    ASSUME ModulesKept, NEW addr \in Int, NEW T, NEW M \in Nat, NEW ar, Good(ar, T, addr, M),
           NEW i \in 0..(2 * M), NEW j \in 0..(2 * M), i < j, ar[i] # None
    PROVE  ar[i] # ar[j]
<1>1. M > 0 /\ M \in Int
  OBVIOUS
<1>2. LowGood(ar, T, addr, M) /\ HighGood(ar, T, addr, M)
  BY <1>1 DEF Good
<1>3. PICK b, c : b = LowPart(ar, M) /\ c = HighPart(ar, M)
  OBVIOUS
<1>4. /\ \A d \in 0..M : b[d] = ar[M - d]
      /\ \A d \in 0..(M - 1) : c[d] = ar[M + 1 + d]
  BY <1>1, <1>3 DEF LowPart, HighPart, Highs
<1>5. /\ \A d \in 0..M : b[d] = None \/ b[d] \in LowsOf(T, addr)
      /\ \A d, e \in 0..M : d < e /\ b[e] # None => b[d] # b[e]
  <2>1. PICK f, S : Nearest(b, M + 1, S, f) /\ S = LowsOf(T, addr)
    BY <1>2, <1>3 DEF LowGood
  <2>2. 0..((M + 1) - 1) = 0..M
    OBVIOUS
  <2> QED
    BY <2>1, <2>2 DEF Nearest
<1>6. /\ \A d \in 0..(M - 1) : c[d] = None \/ c[d] \in HighsOf(T, addr)
      /\ \A d, e \in 0..(M - 1) : d < e /\ c[e] # None => c[d] # c[e]
  <2>1. PICK f, S : Nearest(c, M, S, f) /\ S = HighsOf(T, addr)
    BY <1>1, <1>2, <1>3 DEF HighGood, Highs
  <2> QED
    BY <2>1 DEF Nearest
<1>7. CASE j <= M
  <2>1. M - j \in 0..M /\ M - i \in 0..M /\ M - j < M - i /\ M - (M - j) = j /\ M - (M - i) = i
    BY <1>7
  <2>2. b[M - j] = ar[j] /\ b[M - i] = ar[i]
    BY <1>4, <2>1
  <2> QED
    BY <1>5, <2>1, <2>2
<1>8. CASE i > M
  <2>1. PICK d \in 0..(M - 1), e \in 0..(M - 1) : i = M + 1 + d /\ j = M + 1 + e /\ d < e
    <3>1. i - M - 1 \in 0..(M - 1) /\ j - M - 1 \in 0..(M - 1) /\ i - M - 1 < j - M - 1
      BY <1>8
    <3> QED
      BY <3>1
  <2>2. c[d] = ar[i] /\ c[e] = ar[j]
    BY <1>4, <2>1
  <2>3. ar[j] # None => ar[i] # ar[j]
    BY <1>6, <2>1, <2>2
  <2> QED
    BY <2>3
<1>9. CASE i <= M /\ j > M
  <2>1. PICK d \in 0..M, e \in 0..(M - 1) : i = M - d /\ j = M + 1 + e
    <3>1. M - i \in 0..M /\ M - (M - i) = i /\ j - M - 1 \in 0..(M - 1)
      BY <1>9
    <3> QED
      BY <3>1
  <2>2. ar[i] \in LowsOf(T, addr) /\ (ar[j] = None \/ ar[j] \in HighsOf(T, addr))
    BY <1>4, <1>5, <1>6, <2>1
  <2>3. ar[i] \in Places /\ gaddr(ar[i]) <= addr
    BY <2>2 DEF LowsOf
  <2>4. ar[j] = None \/ gaddr(ar[j]) > addr
    BY <2>2 DEF HighsOf
  <2>5. gaddr(ar[i]) \in Int
    BY <2>3, PlaceAddress
  <2>6. ar[i] = ar[j] => FALSE
    BY <2>3, <2>4, <2>5
  <2> QED
    BY <2>6
<1> QED
  BY <1>7, <1>8, <1>9

\* What AddressClosest says of one array, with the symbols below and above the
\* address that it may have.
ClosestIn(ar, low, high, M) ==
    /\ \A i, j \in DOMAIN ar : i # j => ar[i] = None \/ ar[i] # ar[j]
    /\ M > 0 \/ low # {} => \A j \in 0..M : NthBelow(ar[j], low, M - j)
    /\ \A j \in (M + 1)..(2 * M) : NthAbove(ar[j], high, j - M - 1)
    /\ M = 0 /\ low = {} => NthAbove(ar[0], high, 0)

\* A good array is what AddressClosest asks for.
LEMMA GoodIsClosest ==
    ASSUME ModulesKept, NEW addr \in Int, NEW T, NEW M \in Nat, NEW ar, Good(ar, T, addr, M)
    PROVE  ClosestIn(ar, LowsOf(T, addr), HighsOf(T, addr), M)
<1>1. DOMAIN ar = 0..(2 * M)
  BY DEF Good, Arrays
<1>2. ASSUME NEW i \in 0..(2 * M), NEW j \in 0..(2 * M), i # j
      PROVE  ar[i] = None \/ ar[i] # ar[j]
  <2>1. CASE i < j
    BY <2>1, EntriesDistinct
  <2>2. CASE j < i
    <3>1. ar[j] # None => ar[j] # ar[i]
      BY <2>2, EntriesDistinct
    <3> QED
      BY <3>1
  <2> QED
    BY <1>2, <2>1, <2>2
<1>3. M > 0 \/ LowsOf(T, addr) # {} => \A j \in 0..M : NthBelow(ar[j], LowsOf(T, addr), M - j)
  <2>1. SUFFICES ASSUME M > 0 \/ LowsOf(T, addr) # {}, NEW j \in 0..M
                 PROVE  NthBelow(ar[j], LowsOf(T, addr), M - j)
    OBVIOUS
  <2>2. LowGood(ar, T, addr, M)
    BY <2>1 DEF Good
  <2> QED
    BY <2>2, NthLow
<1>4. ASSUME NEW j \in (M + 1)..(2 * M)
      PROVE  NthAbove(ar[j], HighsOf(T, addr), j - M - 1)
  <2>1. M > 0 /\ HighGood(ar, T, addr, M)
    BY DEF Good
  <2>2. PICK d \in 0..(Highs(M) - 1) : d = j - M - 1 /\ M + 1 + d = j
    BY <2>1 DEF Highs
  <2>3. NthAbove(ar[IF M = 0 THEN 0 ELSE M + 1 + d], HighsOf(T, addr), d)
    BY <2>1, NthHigh
  <2>4. (IF M = 0 THEN 0 ELSE M + 1 + d) = j
    BY <2>1, <2>2
  <2> QED
    BY <2>2, <2>3, <2>4
<1>5. ASSUME M = 0, LowsOf(T, addr) = {}
      PROVE  NthAbove(ar[0], HighsOf(T, addr), 0)
  <2>1. HighGood(ar, T, addr, M)
    BY <1>5 DEF Good
  <2>2. PICK d \in 0..(Highs(M) - 1) : d = 0
    BY <1>5 DEF Highs
  <2>3. NthAbove(ar[IF M = 0 THEN 0 ELSE M + 1 + d], HighsOf(T, addr), d)
    BY <2>1, NthHigh
  <2> QED
    BY <1>5, <2>2, <2>3
<1> QED
  BY <1>1, <1>2, <1>3, <1>4, <1>5 DEF ClosestIn

\* The symbols of the modules that contain the address, as AddressClosest names
\* them.
LEMMA ContainingSymbols ==
    ASSUME ModulesKept, NEW addr \in Int
    PROVE  LET all == UNION {{k} \X (0..(mods[k].n - 1)) :
                               k \in {k \in DOMAIN mods : addrInModule(addr, k)}}
               low == {x \in all : gaddr(x) <= addr}
               high == {x \in all \ low : x[2] > 0} IN
           low = LowsOf(Containing(addr), addr) /\ high = HighsOf(Containing(addr), addr)
<1> DEFINE all == UNION {{k} \X (0..(mods[k].n - 1)) :
                           k \in {k \in DOMAIN mods : addrInModule(addr, k)}}
           low == {x \in all : gaddr(x) <= addr}
           high == {x \in all \ low : x[2] > 0}
<1>1. \A x : x \in all <=> x \in Places /\ x[1] \in Containing(addr)
  <2>1. ASSUME NEW x \in all
        PROVE  x \in Places /\ x[1] \in Containing(addr)
    <3>1. PICK k \in DOMAIN mods : addrInModule(addr, k) /\ x \in {k} \X (0..(mods[k].n - 1))
      OBVIOUS
    <3>2. PICK i \in 0..(mods[k].n - 1) : x = <<k, i>>
      BY <3>1
    <3> QED
      BY <3>1, <3>2, PlaceIn DEF Containing
  <2>2. ASSUME NEW x \in Places, x[1] \in Containing(addr)
        PROVE  x \in all
    <3>1. /\ x = <<x[1], x[2]>> /\ x[2] \in 0..(mods[x[1]].n - 1)
          /\ x[1] \in {k \in DOMAIN mods : addrInModule(addr, k)}
      BY <2>2, PlaceAddress DEF Containing
    <3> QED
      BY <3>1
  <2> HIDE DEF all
  <2> QED
    BY <2>1, <2>2
<1>2. low = LowsOf(Containing(addr), addr)
  <2> HIDE DEF all
  <2> QED
    BY <1>1 DEF LowsOf
<1>3. high = HighsOf(Containing(addr), addr)
  <2>1. ASSUME NEW x
        PROVE  x \in high <=> x \in Places /\ x[1] \in Containing(addr) /\ gaddr(x) > addr /\ x[2] > 0
    <3>1. x \in high <=> x \in all /\ ~(gaddr(x) <= addr) /\ x[2] > 0
      OBVIOUS
    <3>2. x \in Places => gaddr(x) \in Int
      BY PlaceAddress
    <3>3. x \in Places => (~(gaddr(x) <= addr) <=> gaddr(x) > addr)
      BY <3>2
    <3> HIDE DEF high, all
    <3> QED
      BY <1>1, <3>1, <3>3
  <2> HIDE DEF high
  <2> QED
    BY <2>1 DEF HighsOf
<1> QED
  BY <1>2, <1>3

\* The search by address gives the nearest symbols.
LEMMA AddressNear ==
    ASSUME ModulesKept, IndicesAscend
    PROVE  AddressClosest
<1>1. ASSUME NEW addr \in Addresses, NEW M \in Margins
      PROVE  ClosestIn(cexpSymLkAddrRange(addr, M), LowsOf(Containing(addr), addr),
                       HighsOf(Containing(addr), addr), M)
  <2>1. addr \in Int /\ M \in Nat
    <3>1. \A a \in Addresses : a \in Int
      BY MaxSymsOK
    <3> QED
      BY <3>1, LookupOK
  <2>2. Good(cexpSymLkAddrRange(addr, M), Containing(addr), addr, M)
    BY <2>1, RangeGood
  <2> QED
    BY <2>1, <2>2, GoodIsClosest
<1>2. \A a \in Addresses : a \in Int
  BY MaxSymsOK
<1>3. ASSUME NEW addr \in Addresses, NEW margin \in Margins
      PROVE  LET ar == cexpSymLkAddrRange(addr, margin)
                 all == UNION {{k} \X (0..(mods[k].n - 1)) :
                                 k \in {k \in DOMAIN mods : addrInModule(addr, k)}}
                 low == {x \in all : gaddr(x) <= addr}
                 high == {x \in all \ low : x[2] > 0} IN
             ClosestIn(ar, low, high, margin)
  BY <1>1, <1>2, ContainingSymbols
<1> QED
  BY <1>3 DEF AddressClosest, ClosestIn, NthBelow, NthAbove

-----------------------------------------------------------------------------
(* The theorems *)

LEMMA LookupInitial ==
    ASSUME LookupInit
    PROVE  IInv
<1>1. Init /\ mods = <<>> /\ search = NoSearch /\ loads = 0
  BY DEF LookupInit
<1>2. TableInv
  BY <1>1, InitTable
<1>3. Unlocked
  BY <1>1 DEF Init, Unlocked
<1>4. ModulesKept
  BY <1>1, <1>3, LookupOK DEF ModulesKept
<1>5. search \in Handles(loads) /\ search.op = "none"
  BY <1>1, NoSearchType
<1>6. HandleKept
  BY <1>3, <1>5, HandleKeptMeans
<1>7. SearchComplete /\ StaleRefused
  BY <1>5 DEF SearchComplete, StaleRefused
<1>8. IndicesAscend /\ TailsRepeat
  BY <1>1 DEF IndicesAscend, TailsRepeat
<1> QED
  BY <1>2, <1>4, <1>6, <1>7, <1>8 DEF IInv

LEMMA LookupStutters ==
    ASSUME IInv, UNCHANGED allVars
    PROVE  IInv'
<1>1. vars' = vars /\ mods' = mods /\ search' = search /\ loads' = loads
  BY DEF allVars, lookupVars
<1>2. TableInv'
  BY <1>1, TableStutters DEF IInv
<1>3. Unlocked' <=> Unlocked
  BY <1>1 DEF Unlocked, vars
<1>4. ModulesKept' /\ HandleKept'
  BY <1>1, <1>3 DEF IInv, ModulesKept, HandleKept, Ended
<1>5. SearchComplete' /\ StaleRefused'
  BY <1>1 DEF IInv, SearchComplete, StaleRefused, Alive, PlaceOf, InList
<1>6. IndicesAscend' /\ TailsRepeat'
  BY <1>1, AscendStays DEF IInv, TailsRepeat
<1> QED
  BY <1>2, <1>4, <1>5, <1>6 DEF IInv

\* The inductive invariant of the tables, the list and the handle holds whatever
\* is loaded and unloaded between the calls of a search.
THEOREM LookupInvariant ==
    ASSUME LastUnique
    PROVE  LookupSpec => []IInv
<1>1. LookupInit => IInv
  BY LookupInitial
<1>2. IInv /\ [LookupNext]_allVars => IInv'
  BY BuildKeeps, LoadKeeps, UnloadKeeps, BeginKeeps, ReadHandleKeeps, LookupRegexKeeps, IterateKeeps,
     SearchEndKeeps, LookupStutters DEF LookupNext
<1> QED
  BY <1>1, <1>2, PTL DEF LookupSpec

\* lkup and the listing of modules, continued with the handle of the last call,
\* skip no place that has a name and come to none twice, whatever modules come
\* and go meanwhile, unless the one of the handle goes.  What they come to behind
\* the symbols of a table, where they go on to the null name, repeats the name of
\* one of these.
THEOREM SearchesComplete ==
    ASSUME LastUnique
    PROVE  LookupSpec => [](SearchComplete /\ TailsRepeat)
<1>1. IInv => SearchComplete /\ TailsRepeat
  BY DEF IInv
<1> QED
  BY <1>1, LookupInvariant, PTL

\* "verify the validity of a handle": only one whose record's address was given
\* out again is followed when its module is gone.
THEOREM StaleHandlesRefused ==
    ASSUME LastUnique
    PROVE  LookupSpec => []StaleRefused
<1>1. IInv => StaleRefused
  BY DEF IInv
<1> QED
  BY <1>1, LookupInvariant, PTL

\* The tables that searches work on are well formed and complete, and their index
\* is searched right, however many modules are loaded after one another.
THEOREM SearchedTablesSound ==
    ASSUME LastUnique
    PROVE  LookupSpec => [](WellFormed /\ OnlyRedundantDropped /\ AddressFound)
<1>1. IInv => WellFormed /\ OnlyRedundantDropped /\ AddressFound
  BY LeftComplete, AddressSearched DEF IInv, TableInv
<1> QED
  BY <1>1, LookupInvariant, PTL

\* While modules are loaded and unloaded, too, their names are found.
THEOREM SearchedNamesFound ==
    ASSUME LastUnique, Unshadowed
    PROVE  LookupSpec => []LookupFinds
<1>1. IInv => LookupFinds
  BY NameSearched DEF IInv
<1> QED
  BY <1>1, LookupInvariant, PTL

\* "Look for all addresses in this module which are lower than the one we are
\* looking for and which are closer than what we already have": the search by
\* address gives the nearest symbols below the address and above it, from all the
\* modules that contain it, whatever was loaded and unloaded before, for any
\* margin.
THEOREM NearestFound ==
    ASSUME LastUnique
    PROVE  LookupSpec => []AddressesFound
<1>1. IInv => AddressesFound
  BY AddressSearched, AddressNear DEF IInv, TableInv, AddressesFound
<1> QED
  BY <1>1, LookupInvariant, PTL
=============================================================================
