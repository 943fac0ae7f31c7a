------------------------------- MODULE VarsProofs -------------------------------
(***************************************************************************)
(* Proofs about Vars for any threads, records and names, when nobody else  *)
(* uses variables while they are flushed (FlushAlone): the list is sorted  *)
(* and holds no variable twice, every record has one owner and is released *)
(* once, and a walk sees every variable.                                   *)
(***************************************************************************)
EXTENDS Vars, FiniteSetTheorems, TLAPS

\* Among subsets of a finite set there is one that contains no other.
LEMMA MinimalSubset ==
    ASSUME NEW S, IsFiniteSet(S), NEW F \in SUBSET (SUBSET S), F # {}
    PROVE  \E A \in F : \A B \in F : B \subseteq A => B = A
<1>1. IsWellFoundedOn(StrictSubsetOrdering(S), FiniteSubsetsOf(S))
  BY FS_StrictSubsetOrderingWellFounded
<1>2. F \subseteq FiniteSubsetsOf(S)
  BY FS_FiniteSubsetsOfFinite
<1>3. PICK A \in F : \A B \in F : <<B, A>> \notin StrictSubsetOrdering(S)
  BY <1>1, <1>2, WFMin
<1>4. ASSUME NEW B \in F, B \subseteq A
      PROVE  B = A
  BY <1>3, <1>4 DEF StrictSubsetOrdering
<1> QED
  BY <1>3, <1>4

\* A finite set whose elements have numbers has one with the greatest.
LEMMA GreatestElement ==
    ASSUME NEW S, IsFiniteSet(S), S # {}, NEW f, \A x \in S : f[x] \in Nat
    PROVE  \E x \in S : \A y \in S : f[y] <= f[x]
<1> DEFINE above(x) == {y \in S : f[y] >= f[x]}
           F == {above(x) : x \in S}
<1>1. F \in SUBSET (SUBSET S) /\ F # {}
  OBVIOUS
<1>2. PICK A \in F : \A B \in F : B \subseteq A => B = A
  <2> HIDE DEF F
  <2> QED
    BY <1>1, MinimalSubset
<1>3. PICK x \in S : A = above(x)
  BY <1>2
<1>4. ASSUME NEW y \in S
      PROVE  f[y] <= f[x]
  <2>1. CASE f[y] > f[x]
    <3>1. above(y) \subseteq above(x)
      BY <2>1
    <3>2. above(y) = above(x)
      BY <1>2, <1>3, <3>1
    <3> QED
      BY <2>1, <3>2
  <2> QED
    BY <2>1
<1> QED
  BY <1>4

-----------------------------------------------------------------------------
(* What is reached along links *)

Linkage(q) == \A y \in Addrs : q[y] \in Addrs \cup {None}
Closed(q, S) == \A y \in S : q[y] \in S \cup {None}

LEMMA ReachLeast ==
    ASSUME NEW q, NEW a, NEW S \in SUBSET Addrs, Closed(q, S), a \in S \cup {None}
    PROVE  Reach(q, a) \subseteq S
BY DEF Reach, Closed

LEMMA ReachClosed ==
    ASSUME NEW q, Linkage(q), NEW a \in Addrs \cup {None}
    PROVE  /\ Reach(q, a) \in SUBSET Addrs /\ Closed(q, Reach(q, a))
           /\ a \in Reach(q, a) \cup {None}
           /\ a = None => Reach(q, a) = {}
<1>1. ASSUME NEW y \in Reach(q, a)
      PROVE  q[y] \in Reach(q, a) \cup {None}
  <2>1. y \in Addrs /\ q[y] \in Addrs \cup {None}
    BY DEF Reach, Linkage
  <2>2. ASSUME NEW S \in SUBSET Addrs, a \in S \cup {None}, \A x \in S : q[x] \in S \cup {None},
               q[y] # None
        PROVE  q[y] \in S
    BY <2>2 DEF Reach
  <2> QED
    BY <2>1, <2>2 DEF Reach
<1>2. a = None => Reach(q, a) = {}
  <2>1. {} \in SUBSET Addrs /\ Closed(q, {})
    BY DEF Closed
  <2> QED
    BY <2>1, ReachLeast
<1> QED
  BY <1>1, <1>2 DEF Reach, Closed

LEMMA ReachUnfold ==
    ASSUME NEW q, Linkage(q), NEW a \in Addrs
    PROVE  Reach(q, a) = {a} \cup Reach(q, q[a])
<1> DEFINE R == Reach(q, a)
           N == Reach(q, q[a])
<1>1. q[a] \in Addrs \cup {None}
  BY DEF Linkage
<1>2. R \in SUBSET Addrs /\ Closed(q, R) /\ a \in R
  BY AddrsOK, ReachClosed
<1>3. N \in SUBSET Addrs /\ Closed(q, N) /\ q[a] \in N \cup {None}
  BY <1>1, ReachClosed
<1>4. N \subseteq R
  <2>1. q[a] \in R \cup {None}
    BY <1>2 DEF Closed
  <2> HIDE DEF R
  <2> QED
    BY <1>2, <2>1, ReachLeast
<1>5. R \subseteq {a} \cup N
  <2>1. Closed(q, {a} \cup N)
    BY <1>3 DEF Closed
  <2>2. {a} \cup N \in SUBSET Addrs
    BY <1>3
  <2> HIDE DEF N
  <2> QED
    BY <2>1, <2>2, ReachLeast
<1> QED
  BY <1>2, <1>4, <1>5

\* Links that agree where they lead, lead to the same records.
LEMMA ReachSame ==
    ASSUME NEW q, NEW r, Linkage(q), Linkage(r), NEW a \in Addrs \cup {None},
           \A y \in Reach(q, a) : r[y] = q[y]
    PROVE  Reach(r, a) = Reach(q, a)
<1>1. Reach(q, a) \in SUBSET Addrs /\ Closed(q, Reach(q, a)) /\ a \in Reach(q, a) \cup {None}
  BY ReachClosed
<1>2. Reach(r, a) \subseteq Reach(q, a)
  <2>1. Closed(r, Reach(q, a))
    BY <1>1 DEF Closed
  <2> QED
    BY <1>1, <2>1, ReachLeast
<1>3. Reach(r, a) \in SUBSET Addrs /\ Closed(r, Reach(r, a)) /\ a \in Reach(r, a) \cup {None}
  BY ReachClosed
<1>4. Closed(q, Reach(r, a))
  BY <1>2, <1>3 DEF Closed
<1> QED
  BY <1>2, <1>3, <1>4, ReachLeast

-----------------------------------------------------------------------------
(* Chains in ascending order of a number g *)

Ascends(q, g, L) ==
    /\ \A a \in L : g[a] \in Nat
    /\ \A a \in L : q[a] # None => g[a] < g[q[a]]

\* What follows a record has greater numbers.
LEMMA Ahead ==
    ASSUME NEW q, Linkage(q), NEW h \in Addrs \cup {None}, NEW g,
           Ascends(q, g, Reach(q, h)), NEW a \in Reach(q, h)
    PROVE  \A x \in Reach(q, q[a]) : x \in Reach(q, h) /\ g[a] < g[x]
<1> DEFINE L == Reach(q, h)
           T == {x \in L : g[a] < g[x]}
<1>1. L \in SUBSET Addrs /\ Closed(q, L)
  BY ReachClosed
<1> HIDE DEF L
<1>2. Closed(q, T)
  <2>1. ASSUME NEW y \in T, q[y] # None
        PROVE  q[y] \in L /\ g[a] < g[q[y]]
    BY <1>1, <2>1 DEF Closed, Ascends, L
  <2> QED
    BY <2>1 DEF Closed
<1>3. q[a] \in T \cup {None}
  BY <1>1 DEF Closed, Ascends, L
<1>4. T \in SUBSET Addrs
  BY <1>1
<1>5. Reach(q, q[a]) \subseteq T
  <2> HIDE DEF T
  <2> QED
    BY <1>2, <1>3, <1>4, ReachLeast
<1> QED
  BY <1>5 DEF L

\* Of two records one follows the other.
LEMMA OneFollows ==
    ASSUME NEW q, Linkage(q), NEW h \in Addrs \cup {None},
           NEW a \in Reach(q, h), NEW x \in Reach(q, h), a # x
    PROVE  x \in Reach(q, q[a]) \/ a \in Reach(q, q[x])
<1> DEFINE L == Reach(q, h)
           N == Reach(q, q[a])
           T == {y \in L : a \in Reach(q, y)} \cup N
<1>1. L \in SUBSET Addrs /\ Closed(q, L) /\ h \in L \cup {None} /\ (h = None => L = {})
  BY ReachClosed
<1>2. q[a] \in Addrs \cup {None}
  BY <1>1 DEF Linkage
<1>3. N \in SUBSET Addrs /\ Closed(q, N) /\ q[a] \in N \cup {None}
  BY <1>2, ReachClosed
<1>4. \A y \in Addrs : Reach(q, y) = {y} \cup Reach(q, q[y])
  BY ReachUnfold
<1> HIDE DEF N
<1>5. Closed(q, T)
  <2>1. ASSUME NEW y \in L, a \in Reach(q, y), q[y] # None
        PROVE  q[y] \in T
    <3>1. CASE y = a
      BY <1>3, <2>1, <3>1
    <3>2. CASE y # a
      <4>1. a \in Reach(q, q[y])
        BY <1>1, <1>4, <2>1, <3>2
      <4>2. q[y] \in L
        BY <1>1, <2>1 DEF Closed
      <4> QED
        BY <4>1, <4>2
    <3> QED
      BY <3>1, <3>2
  <2>2. ASSUME NEW y \in N, q[y] # None
        PROVE  q[y] \in T
    BY <1>3, <2>2 DEF Closed
  <2> HIDE DEF L
  <2> QED
    BY <2>1, <2>2 DEF Closed
<1>6. h \in T
  <2>1. h \in L /\ a \in L
    BY <1>1
  <2> QED
    BY <2>1
<1>7. T \in SUBSET Addrs
  BY <1>1, <1>3
<1>8. L \subseteq T
  <2> HIDE DEF T
  <2> QED
    BY <1>5, <1>6, <1>7, ReachLeast
<1>9. x \in N \/ a \in Reach(q, x)
  BY <1>8
<1> QED
  BY <1>1, <1>4, <1>9 DEF N

\* The link leads to the next greater number; no number is there twice.
LEMMA NextGreater ==
    ASSUME NEW q, Linkage(q), NEW h \in Addrs \cup {None}, NEW g,
           Ascends(q, g, Reach(q, h)), NEW a \in Reach(q, h), NEW x \in Reach(q, h)
    PROVE  /\ g[a] < g[x] => q[a] # None /\ g[q[a]] <= g[x]
           /\ g[a] = g[x] => a = x
<1>1. Reach(q, h) \in SUBSET Addrs /\ Closed(q, Reach(q, h))
  BY ReachClosed
<1>2. g[a] \in Nat /\ g[x] \in Nat /\ q[a] \in Addrs \cup {None}
  BY <1>1 DEF Ascends, Linkage
<1>3. a # x => \/ x \in Reach(q, q[a]) /\ g[a] < g[x]
               \/ g[x] < g[a]
  BY OneFollows, Ahead
<1>4. ASSUME g[a] < g[x]
      PROVE  q[a] # None /\ g[q[a]] <= g[x]
  <2>1. x \in Reach(q, q[a])
    BY <1>2, <1>3, <1>4
  <2>2. q[a] # None
    BY <1>2, <2>1, ReachClosed
  <2>3. x = q[a] \/ x \in Reach(q, q[q[a]])
    BY <1>2, <2>1, <2>2, ReachUnfold
  <2>4. q[a] \in Reach(q, h)
    BY <1>1, <2>2 DEF Closed
  <2>5. x = q[a] \/ g[q[a]] < g[x]
    BY <2>3, <2>4, Ahead
  <2>6. g[q[a]] \in Nat
    BY <2>4 DEF Ascends
  <2> QED
    BY <1>2, <2>2, <2>5, <2>6
<1> QED
  BY <1>2, <1>3, <1>4

-----------------------------------------------------------------------------
(* Adding to a list and removing from it *)

Links == [Addrs \cup {Head} -> Addrs \cup {None}]

\* q[w] is the first record whose number is not below m.
Place(q, g, m, w) ==
    /\ w = Head \/ g[w] < m
    /\ q[w] # None => g[q[w]] >= m

\* lhrFindN_LOCK stops at such a place.
LEMMA PlaceExists ==
    ASSUME NEW q \in Links, NEW g, Ascends(q, g, Reach(q, q[Head])), NEW m \in Nat
    PROVE  \E w \in {Head} \cup Reach(q, q[Head]) : Place(q, g, m, w)
<1> DEFINE L == Reach(q, q[Head])
           B == {x \in L : g[x] < m}
<1>1. Linkage(q) /\ q[Head] \in Addrs \cup {None}
  BY DEF Links, Linkage
<1>2. L \in SUBSET Addrs /\ Closed(q, L) /\ q[Head] \in L \cup {None}
  BY <1>1, ReachClosed
<1>3. \A x \in L : g[x] \in Nat /\ (q[x] # None => q[x] \in L /\ g[q[x]] \in Nat /\ g[x] < g[q[x]])
  BY <1>2 DEF Ascends, Closed
<1>4. CASE B = {}
  <2>1. q[Head] # None => g[q[Head]] >= m
    BY <1>2, <1>3, <1>4
  <2> QED
    BY <2>1 DEF Place
<1>5. CASE B # {}
  <2>1. IsFiniteSet(B)
    BY <1>2, AddrsFinite, FS_Subset
  <2>2. PICK w \in B : \A y \in B : g[y] <= g[w]
    <3>1. \A x \in B : g[x] \in Nat
      BY <1>3
    <3> HIDE DEF B
    <3> QED
      BY <1>5, <2>1, <3>1, GreatestElement
  <2>3. q[w] # None => g[q[w]] >= m
    BY <1>3, <2>2
  <2> QED
    BY <2>2, <2>3 DEF Place
<1> QED
  BY <1>4, <1>5

\* Only one link leads to a record.
LEMMA OneBefore ==
    ASSUME NEW q \in Links, NEW g, Ascends(q, g, Reach(q, q[Head])),
           NEW w \in {Head} \cup Reach(q, q[Head]), NEW y \in {Head} \cup Reach(q, q[Head]),
           q[w] # None, q[y] = q[w]
    PROVE  y = w
<1> DEFINE L == Reach(q, q[Head])
<1>1. Linkage(q) /\ q[Head] \in Addrs \cup {None}
  BY DEF Links, Linkage
<1>2. L \in SUBSET Addrs /\ Closed(q, L) /\ q[Head] \in L \cup {None}
  BY <1>1, ReachClosed
<1>3. \A a, x \in L : /\ g[a] < g[x] => q[a] # None /\ g[q[a]] <= g[x]
                      /\ g[a] = g[x] => a = x
  BY <1>1, NextGreater
<1>4. \A a \in L : /\ g[a] \in Nat
                   /\ q[a] # None => q[a] \in L /\ g[q[a]] \in Nat /\ g[a] < g[q[a]]
  BY <1>2 DEF Ascends, Closed
<1>5. \A a \in L : q[Head] # None /\ g[q[Head]] <= g[a]
  <2>1. ASSUME NEW a \in L
        PROVE  q[Head] # None /\ g[q[Head]] <= g[a]
    <3>1. q[Head] # None
      BY <1>1, ReachClosed
    <3>2. a = q[Head] \/ a \in Reach(q, q[q[Head]])
      BY <1>1, <3>1, ReachUnfold
    <3>3. a = q[Head] \/ g[q[Head]] < g[a]
      BY <1>1, <1>2, <3>1, <3>2, Ahead
    <3> QED
      BY <1>2, <1>4, <3>1, <3>3
  <2> QED
    BY <2>1
<1>6. CASE w = Head \/ y = Head
  BY <1>2, <1>4, <1>5, <1>6
<1>7. CASE w \in L /\ y \in L
  BY <1>3, <1>4, <1>7
<1> QED
  BY <1>6, <1>7

\* lhrAdd: the new record is linked in behind w.
LEMMA Inserted ==
    ASSUME NEW q \in Links, NEW w \in {Head} \cup Reach(q, q[Head]),
           NEW n \in Addrs \ Reach(q, q[Head]),
           NEW r, r = [q EXCEPT ![n] = q[w], ![w] = n]
    PROVE  r \in Links /\ Reach(r, r[Head]) = Reach(q, q[Head]) \cup {n}
<1> DEFINE L == Reach(q, q[Head])
           M == Reach(r, r[Head])
<1>1. Linkage(q) /\ q[Head] \in Addrs \cup {None}
  BY DEF Links, Linkage
<1>2. L \in SUBSET Addrs /\ Closed(q, L) /\ q[Head] \in L \cup {None}
  BY <1>1, ReachClosed
<1>3. /\ r \in Links /\ n # w /\ n # Head /\ r[w] = n /\ r[n] = q[w]
      /\ \A y \in Addrs \cup {Head} : y # n /\ y # w => r[y] = q[y]
  BY <1>2, AddrsOK DEF Links
<1>4. Linkage(r) /\ r[Head] \in Addrs \cup {None}
  BY <1>3 DEF Links, Linkage
<1>5. M \in SUBSET Addrs /\ Closed(r, M) /\ r[Head] \in M \cup {None}
  BY <1>4, ReachClosed
<1> HIDE DEF L
<1>6. q[w] \in L \cup {None}
  BY <1>2 DEF Closed, L
<1>7. M \subseteq L \cup {n}
  <2>1. ASSUME NEW y \in L \cup {n}
        PROVE  r[y] \in (L \cup {n}) \cup {None}
    BY <1>2, <1>3, <1>6 DEF Closed
  <2>2. r[Head] \in (L \cup {n}) \cup {None}
    BY <1>2, <1>3
  <2>3. Closed(r, L \cup {n}) /\ L \cup {n} \in SUBSET Addrs
    BY <1>2, <2>1 DEF Closed
  <2> QED
    BY <2>2, <2>3, ReachLeast
<1> HIDE DEF M
<1>8. n \notin L
  BY DEF L
<1>9. n # None /\ w \in {Head} \cup L /\ Head \notin Addrs
  BY AddrsOK DEF L
<1>10. n \in M => q[w] \in (M \ {n}) \cup {None}
  BY <1>3, <1>5, <1>6, <1>8 DEF Closed
<1>11. Closed(q, M \ {n})
  <2>1. ASSUME NEW y \in M \ {n}
        PROVE  q[y] \in (M \ {n}) \cup {None}
    <3>1. y \in L /\ q[y] \in L \cup {None} /\ y \in Addrs
      BY <1>2, <1>7 DEF Closed
    <3>2. CASE y = w
      BY <1>3, <1>5, <1>9, <1>10, <3>2 DEF Closed
    <3>3. CASE y # w
      BY <1>3, <1>5, <1>8, <1>9, <3>1, <3>3 DEF Closed
    <3> QED
      BY <3>2, <3>3
  <2> QED
    BY <2>1 DEF Closed
<1>12. q[Head] \in (M \ {n}) \cup {None}
  <2>1. CASE w = Head
    BY <1>3, <1>5, <1>9, <1>10, <2>1
  <2>2. CASE w # Head
    BY <1>2, <1>3, <1>5, <1>8, <1>9, <2>2
  <2> QED
    BY <2>1, <2>2
<1>13. L \subseteq M \ {n}
  <2>1. M \ {n} \in SUBSET Addrs
    BY <1>5
  <2> QED
    BY <1>11, <1>12, <2>1, ReachLeast DEF L
<1>14. n \in M
  <2>1. CASE w = Head
    BY <1>3, <1>5, <1>9, <2>1
  <2>2. CASE w # Head
    BY <1>3, <1>5, <1>9, <1>13, <2>2 DEF Closed
  <2> QED
    BY <2>1, <2>2
<1> QED
  BY <1>3, <1>7, <1>13, <1>14 DEF L, M

\* lh->p = lh->p->p: the record behind w is taken out.
LEMMA Removed ==
    ASSUME NEW q \in Links, NEW g, Ascends(q, g, Reach(q, q[Head])),
           NEW w \in {Head} \cup Reach(q, q[Head]), q[w] # None,
           NEW r, r = [q EXCEPT ![w] = q[q[w]]]
    PROVE  /\ r \in Links /\ q[w] \in Reach(q, q[Head])
           /\ Reach(r, r[Head]) = Reach(q, q[Head]) \ {q[w]}
<1> DEFINE L == Reach(q, q[Head])
           M == Reach(r, r[Head])
           v == q[w]
<1>1. Linkage(q) /\ q[Head] \in Addrs \cup {None}
  BY DEF Links, Linkage
<1>2. L \in SUBSET Addrs /\ Closed(q, L) /\ q[Head] \in L \cup {None}
  BY <1>1, ReachClosed
<1>3. v \in L /\ v \in Addrs
  BY <1>2 DEF Closed
<1>4. q[v] \in L \cup {None} /\ q[v] # v
  <2>1. q[v] \in L \cup {None} /\ (q[v] # None => g[v] < g[q[v]]) /\ g[v] \in Nat
    BY <1>2, <1>3 DEF Closed, Ascends
  <2> QED
    BY <1>3, <2>1, AddrsOK
<1>5. \A y \in {Head} \cup L : q[y] = v => y = w
  BY OneBefore
<1> HIDE DEF L
<1>6. w \in Addrs \cup {Head} /\ w \in {Head} \cup L /\ Head \notin Addrs
  BY <1>2, AddrsOK DEF L
<1>7. /\ r \in Links /\ r[w] = q[v]
      /\ \A y \in Addrs \cup {Head} : y # w => r[y] = q[y]
  BY <1>3, <1>6 DEF Links
<1>8. Linkage(r) /\ r[Head] \in Addrs \cup {None}
  BY <1>7 DEF Links, Linkage
<1>9. M \in SUBSET Addrs /\ Closed(r, M) /\ r[Head] \in M \cup {None}
  BY <1>8, ReachClosed
<1>10. M \subseteq L \ {v}
  <2>1. ASSUME NEW y \in L \ {v}
        PROVE  r[y] \in (L \ {v}) \cup {None}
    BY <1>2, <1>4, <1>5, <1>7 DEF Closed
  <2>2. r[Head] \in (L \ {v}) \cup {None}
    BY <1>2, <1>4, <1>5, <1>7
  <2>3. Closed(r, L \ {v}) /\ L \ {v} \in SUBSET Addrs
    BY <1>2, <2>1 DEF Closed
  <2> QED
    BY <2>2, <2>3, ReachLeast
<1> HIDE DEF M, v
<1>11. w \in {Head} \cup M
  <2> SUFFICES ASSUME w # Head, w \notin M PROVE FALSE
    OBVIOUS
  <2>1. Closed(q, M) /\ q[Head] \in M \cup {None}
    BY <1>7, <1>9 DEF Closed
  <2>2. L \subseteq M
    BY <1>9, <2>1, ReachLeast DEF L
  <2> QED
    BY <1>6, <2>2
<1>12. q[v] \in M \cup {None}
  BY <1>7, <1>9, <1>11 DEF Closed
<1>13. Closed(q, M \cup {v})
  <2>1. ASSUME NEW y \in M
        PROVE  q[y] \in (M \cup {v}) \cup {None}
    BY <1>7, <1>9 DEF Closed, v
  <2> QED
    BY <1>12, <2>1 DEF Closed
<1>14. q[Head] \in (M \cup {v}) \cup {None}
  BY <1>7, <1>9 DEF v
<1>15. L \subseteq M \cup {v}
  <2>1. M \cup {v} \in SUBSET Addrs
    BY <1>3, <1>9
  <2> QED
    BY <1>13, <1>14, <2>1, ReachLeast DEF L
<1> QED
  BY <1>3, <1>7, <1>10, <1>15 DEF L, M, v

-----------------------------------------------------------------------------
(* The list in a state of the invariant *)

LEMMA ListFacts ==
    ASSUME IInv
    PROVE  /\ p \in Links /\ Linkage(p) /\ p[Head] \in Addrs \cup {None}
           /\ Listed = Reach(p, p[Head]) /\ Listed \in SUBSET Addrs /\ Closed(p, Listed)
           /\ p[Head] \in Listed \cup {None}
           /\ \A a \in Listed : a \in live /\ name[a] \in Names /\ name[a] \in Nat
           /\ Ascends(p, name, Listed)
<1>1. p \in Links /\ Linkage(p) /\ p[Head] \in Addrs \cup {None}
  BY DEF IInv, TypeOK, Links, Linkage
<1>2. Listed = Reach(p, p[Head])
  BY DEF Listed, Chain
<1>3. Listed \in SUBSET Addrs /\ Closed(p, Listed) /\ p[Head] \in Listed \cup {None}
  BY <1>1, <1>2, ReachClosed
<1>4. \A a \in Listed : a \in live /\ name[a] \in Names /\ name[a] \in Nat
  BY NamesOK DEF IInv, TypeOK
<1>5. Ascends(p, name, Listed)
  BY <1>4 DEF IInv, Sorted, Ascends
<1> QED
  BY <1>1, <1>2, <1>3, <1>4, <1>5

\* What lhrFindN_LOCK finds.
LEMMA FindFacts ==
    ASSUME IInv, NEW nm \in Names
    PROVE  LET w == FindWhere(nm) IN
           /\ w \in {Head} \cup Listed
           /\ w # Head => name[w] < nm
           /\ Find(nm) # None => Find(nm) = p[w] /\ Find(nm) \in Listed
           /\ Find(nm) = None /\ p[w] # None => name[p[w]] > nm
<1> DEFINE w == FindWhere(nm)
<1>1. nm \in Nat
  BY NamesOK
<1>2. \E x \in {Head} \cup Listed : (x = Head \/ name[x] < nm) /\ (p[x] # None => name[p[x]] >= nm)
  BY <1>1, ListFacts, PlaceExists DEF Place
<1>3. /\ w \in {Head} \cup Listed /\ (w = Head \/ name[w] < nm)
      /\ p[w] # None => name[p[w]] >= nm
  BY <1>2 DEF FindWhere
<1>4. Find(nm) = IF p[w] # None /\ name[p[w]] = nm THEN p[w] ELSE None
  BY DEF Find
<1> HIDE DEF w
<1>5. p[w] # None => p[w] \in Listed /\ name[p[w]] \in Nat
  BY <1>3, ListFacts DEF Closed
<1>6. Find(nm) = None /\ p[w] # None => name[p[w]] > nm
  BY <1>1, <1>3, <1>4, <1>5
<1> QED
  BY <1>3, <1>4, <1>5, <1>6 DEF w

\* Steps that touch only records that are not in the list.
LEMMA SameList ==
    ASSUME IInv, p' \in Links, p'[Head] = p[Head], \A a \in Listed : p'[a] = p[a],
           \A a \in Listed : name'[a] = name[a]
    PROVE  /\ Listed' = Listed /\ Sorted'
           /\ \A v \in Listed \cup {None} : Reach(p', v) = Reach(p, v) /\ Reach(p, v) \subseteq Listed
<1>1. /\ p \in Links /\ Linkage(p) /\ Linkage(p') /\ p[Head] \in Addrs \cup {None}
      /\ Listed \in SUBSET Addrs /\ Closed(p, Listed) /\ Listed = Reach(p, p[Head])
      /\ p[Head] \in Listed \cup {None}
  BY ListFacts DEF Links, Linkage
<1>2. ASSUME NEW v \in Listed \cup {None}
      PROVE  Reach(p', v) = Reach(p, v) /\ Reach(p, v) \subseteq Listed
  <2>1. v \in Addrs \cup {None} /\ Reach(p, v) \subseteq Listed
    BY <1>1, ReachLeast
  <2>2. \A y \in Reach(p, v) : p'[y] = p[y]
    BY <2>1
  <2> DEFINE q == p
             r == p'
  <2>3. Linkage(q) /\ Linkage(r) /\ \A y \in Reach(q, v) : r[y] = q[y]
    BY <1>1, <2>2
  <2> HIDE DEF q, r
  <2>4. Reach(r, v) = Reach(q, v)
    BY <2>1, <2>3, ReachSame
  <2> QED
    BY <2>1, <2>4 DEF q, r
<1>3. Listed' = Listed
  <2>1. Listed' = Reach(p', p'[Head])
    BY DEF Listed, Chain
  <2> QED
    BY <1>1, <1>2, <2>1
<1>4. Sorted'
  <2>1. \A a \in Listed : p[a] # None => name[a] < name[p[a]] /\ p[a] \in Listed
    BY <1>1 DEF IInv, Sorted, Closed
  <2> QED
    BY <1>3, <2>1 DEF Sorted
<1> QED
  BY <1>2, <1>3, <1>4

\* One thread's walk.
WalkGood(t) ==
    job[t].op = "walk" =>
        job[t].seen \cup {name[a] : a \in Chain(job[t].v)} = {name[a] : a \in Listed}

\* The other threads' jobs, after a step that leaves the list as it is.
LEMMA OthersReady ==
    ASSUME IInv, p' \in Links, p'[Head] = p[Head], \A a \in Listed : p'[a] = p[a],
           \A a \in Listed : name'[a] = name[a],
           NEW t \in Threads, NEW u \in Threads \ {t}, job'[u] = job[u], lock' = u <=> lock = u
    PROVE  JobReady(u)' /\ WalkGood(u)'
<1>1. /\ Listed' = Listed
      /\ \A v \in Listed \cup {None} : Reach(p', v) = Reach(p, v) /\ Reach(p, v) \subseteq Listed
  BY SameList
<1>2. JobReady(u) /\ WalkGood(u)
  BY DEF IInv, WalkComplete, WalkGood
<1>3. JobReady(u)'
  BY <1>1, <1>2 DEF JobReady
<1>4. ASSUME job[u].op = "walk"
      PROVE  /\ Reach(p', job[u].v) = Reach(p, job[u].v)
             /\ {name'[a] : a \in Reach(p', job[u].v)} = {name[a] : a \in Reach(p, job[u].v)}
             /\ {name'[a] : a \in Listed} = {name[a] : a \in Listed}
  <2>1. job[u].v \in Listed \cup {None}
    BY <1>2, <1>4 DEF JobReady
  <2> QED
    BY <1>1, <2>1
<1>5. WalkGood(u)'
  BY <1>1, <1>2, <1>4 DEF WalkGood, Chain
<1> QED
  BY <1>3, <1>5

LEMMA GotoFacts ==
    ASSUME TypeOK, NEW t \in Threads, NEW j \in Jobs, job' = [job EXCEPT ![t] = j]
    PROVE  /\ job' \in [Threads -> Jobs] /\ job'[t] = j
           /\ \A u \in Threads \ {t} : job'[u] = job[u] /\ Own(u)' = Own(u)
<1>1. /\ job' \in [Threads -> Jobs] /\ job'[t] = j
      /\ \A u \in Threads \ {t} : job'[u] = job[u]
  BY DEF TypeOK
<1> QED
  BY <1>1 DEF Own

\* The jobs the code makes of an idle one.
LEMMA JobTypes ==
    /\ Idle \in Jobs /\ Idle.op = "idle"
    /\ \A nm \in Names, n \in Addrs \cup {None}, str \in BOOLEAN :
         [Idle EXCEPT !.op = "lookup", !.name = nm, !.n = n, !.str = str] \in Jobs
    /\ \A n \in Addrs : [Idle EXCEPT !.op = "release", !.n = n] \in Jobs
    /\ \A v \in Addrs : [Idle EXCEPT !.op = "delete", !.v = v] \in Jobs
    /\ \A v \in Addrs \cup {None} : [Idle EXCEPT !.op = "flush", !.v = v] \in Jobs
    /\ \A v \in Addrs \cup {None} : [Idle EXCEPT !.op = "walk", !.v = v] \in Jobs
BY DEF Idle, Jobs

\* Nobody flushes while another call is in progress or begins.
LEMMA NobodyFlushes ==
    ASSUME IInv, FlushAlone, NEW t \in Threads,
           MayCall(t) \/ job[t].op \notin {"idle", "flush"}
    PROVE  \A u \in Threads : job[u].op # "flush"
BY JobTypes DEF MayCall, IInv, FlushesAlone

-----------------------------------------------------------------------------
(* Steps outside the list *)

\* The list stays as it is, and so do the jobs of all others.
Outside(t) ==
    /\ p'[Head] = p[Head] /\ \A a \in Listed : p'[a] = p[a] /\ name'[a] = name[a]
    /\ strs \subseteq strs' /\ Listed \subseteq live'
    /\ \A u \in Threads \ {t} : job'[u] = job[u] /\ (lock' = u <=> lock = u)

LEMMA OutsideKeeps ==
    ASSUME IInv, NEW t \in Threads, Outside(t), TypeOK', OneOwner', FlushesAlone',
           JobReady(t)', WalkGood(t)', ~fault'
    PROVE  IInv'
<1>1. p' \in Links
  BY DEF TypeOK, Links
<1>2. Listed' = Listed /\ Sorted'
  BY <1>1, SameList DEF Outside
<1>3. \A u \in Threads \ {t} : JobReady(u)' /\ WalkGood(u)'
  BY <1>1, OthersReady DEF Outside
<1>4. \A u \in Threads : JobReady(u)'
  BY <1>3
<1>5. WalkComplete'
  <2>1. \A u \in Threads : WalkGood(u)'
    BY <1>3
  <2> QED
    BY <2>1 DEF WalkComplete, WalkGood
<1>6. \A a \in Listed' : a \in live' /\ name'[a] \in strs'
  BY <1>2 DEF Outside, IInv
<1> QED
  BY <1>2, <1>4, <1>5, <1>6 DEF IInv

\* The list is the same when links and names in it are.
LEMMA SameOutside ==
    ASSUME IInv, NEW t \in Threads, Outside(t), TypeOK'
    PROVE  Listed' = Listed
<1>1. p' \in Links
  BY DEF TypeOK, Links
<1> QED
  BY <1>1, SameList DEF Outside

LEMMA AllocKeeps ==
    ASSUME IInv, FlushAlone, NEW t \in Threads, NEW nm \in Names, LookupAlloc(t, nm)
    PROVE  IInv'
<1>1. PICK str \in BOOLEAN, n \in (Addrs \ live) \cup {None} :
        /\ job' = [job EXCEPT ![t] = [Idle EXCEPT !.op = "lookup", !.name = nm, !.n = n, !.str = str]]
        /\ live' = live \cup ({n} \ {None})
        /\ p' = IF n = None THEN p ELSE [p EXCEPT ![n] = None]
  BY DEF LookupAlloc, Goto
<1>2. /\ MayCall(t) /\ name' = name /\ strs' = strs /\ lock' = lock /\ walking' = walking
      /\ fault' = fault /\ job[t] = Idle /\ TypeOK /\ OneOwner /\ ~fault
  BY DEF LookupAlloc, MayCall, IInv
<1> DEFINE j == [Idle EXCEPT !.op = "lookup", !.name = nm, !.n = n, !.str = str]
<1>3. j \in Jobs /\ j.op = "lookup" /\ j.name = nm /\ j.n = n
  BY JobTypes DEF Idle
<1> HIDE DEF j
<1>4. /\ job' \in [Threads -> Jobs] /\ job'[t] = j
      /\ \A u \in Threads \ {t} : job'[u] = job[u] /\ Own(u)' = Own(u)
  BY <1>1, <1>2, <1>3, GotoFacts DEF j
<1>5. n \notin Listed /\ n # Head
  BY AddrsOK, ListFacts
<1>6. /\ p' \in [Addrs \cup {Head} -> Addrs \cup {None}] /\ p'[Head] = p[Head]
      /\ \A a \in Listed : p'[a] = p[a]
  BY <1>1, <1>2, <1>5, ListFacts DEF TypeOK
<1>7. TypeOK'
  BY <1>1, <1>2, <1>4, <1>6 DEF TypeOK
<1>8. Outside(t)
  BY <1>1, <1>2, <1>4, <1>6, ListFacts DEF Outside
<1>9. OneOwner'
  <2>1. Listed' = Listed
    BY <1>7, <1>8, SameOutside
  <2>2. Own(t) = None /\ Own(t)' = n
    BY <1>2, <1>3, <1>4, JobTypes DEF Own
  <2>3. \A u \in Threads \ {t} : Own(u) # None => Own(u) \in live
    BY <1>2 DEF OneOwner
  <2>4. n # None => n \in live' \ Listed /\ n \notin live
    BY <1>1, <1>5
  <2>5. live' \subseteq live \cup {n} /\ live \subseteq live'
    BY <1>1
  <2>6. \A u \in Threads : Own(u)' # None => Own(u)' \in live' \ Listed'
    BY <1>2, <1>4, <2>1, <2>2, <2>4, <2>5 DEF OneOwner
  <2>7. \A u, w \in Threads : Own(u)' # None /\ Own(u)' = Own(w)' => u = w
    BY <1>2, <1>4, <2>2, <2>3, <2>4 DEF OneOwner
  <2>8. live' \subseteq Listed' \cup {Own(u)' : u \in Threads}
    <3>1. ASSUME NEW a \in live', a \notin Listed
          PROVE  \E u \in Threads : Own(u)' = a
      <4>1. CASE a \in live
        <5>1. PICK u \in Threads : Own(u) = a
          BY <1>2, <3>1, <4>1 DEF OneOwner
        <5>2. u # t
          BY <2>2, <3>1, <4>1, <5>1, AddrsOK, <1>2 DEF TypeOK
        <5> QED
          BY <1>4, <5>1, <5>2
      <4>2. CASE a \notin live
        BY <2>2, <2>5, <3>1, <4>2
      <4> QED
        BY <4>1, <4>2
    <3> QED
      BY <2>1, <3>1
  <2> QED
    BY <2>6, <2>7, <2>8 DEF OneOwner
<1>10. FlushesAlone' /\ JobReady(t)' /\ WalkGood(t)'
  <2>1. \A u \in Threads : job'[u].op # "flush"
    BY <1>2, <1>3, <1>4, NobodyFlushes
  <2>2. lock' # t
    BY <1>2, JobTypes DEF IInv, JobReady
  <2> QED
    BY <1>3, <1>4, <2>1, <2>2 DEF FlushesAlone, JobReady, WalkGood
<1> QED
  BY <1>2, <1>7, <1>8, <1>9, <1>10, OutsideKeeps

LEMMA LookupReleaseKeeps ==
    ASSUME IInv, FlushAlone, NEW t \in Threads, LookupRelease(t)
    PROVE  IInv'
<1>1. /\ job[t].op = "release" /\ live' = live \ {job[t].n}
      /\ fault' = (fault \/ job[t].n \notin live)
      /\ job' = [job EXCEPT ![t] = Idle]
      /\ p' = p /\ name' = name /\ strs' = strs /\ lock' = lock /\ walking' = walking
  BY DEF LookupRelease, Free, Goto
<1>2. TypeOK /\ OneOwner /\ ~fault /\ JobReady(t) /\ FlushesAlone
  BY DEF IInv
<1>3. /\ job' \in [Threads -> Jobs] /\ job'[t] = Idle
      /\ \A u \in Threads \ {t} : job'[u] = job[u] /\ Own(u)' = Own(u)
  BY <1>1, <1>2, JobTypes, GotoFacts
<1>4. Own(t) = job[t].n /\ Own(t) # None /\ Own(t) \in live \ Listed /\ Own(t)' = None
  BY <1>1, <1>2, <1>3, JobTypes DEF JobReady, Own, OneOwner
<1>5. TypeOK' /\ ~fault'
  BY <1>1, <1>2, <1>3, <1>4 DEF TypeOK
<1>6. Outside(t)
  BY <1>1, <1>3, <1>4, ListFacts DEF Outside
<1>7. OneOwner'
  <2>1. Listed' = Listed
    BY <1>5, <1>6, SameOutside
  <2> QED
    BY <1>1, <1>2, <1>3, <1>4, <2>1 DEF OneOwner
<1>8. FlushesAlone' /\ JobReady(t)' /\ WalkGood(t)'
  BY <1>1, <1>2, <1>3, JobTypes DEF FlushesAlone, JobReady, WalkGood
<1> QED
  BY <1>5, <1>6, <1>7, <1>8, OutsideKeeps

LEMMA StrKeeps ==
    ASSUME IInv, FlushAlone, NEW t \in Threads, NEW nm \in Names, StrLookup(t, nm)
    PROVE  IInv'
<1>1. /\ strs' = strs \cup {nm} /\ p' = p /\ name' = name /\ live' = live /\ lock' = lock
      /\ walking' = walking /\ job' = job /\ fault' = fault
  BY DEF StrLookup
<1>2. TypeOK'
  BY <1>1 DEF IInv, TypeOK
<1>3. Outside(t)
  BY <1>1, ListFacts DEF Outside
<1>4. Listed' = Listed
  BY <1>2, <1>3, SameOutside
<1>5. OneOwner' /\ FlushesAlone' /\ JobReady(t)' /\ ~fault'
  BY <1>1, <1>4 DEF IInv, OneOwner, Own, FlushesAlone, JobReady
<1>6. WalkGood(t)'
  BY <1>1, <1>4 DEF IInv, WalkComplete, WalkGood, Chain
<1> QED
  BY <1>2, <1>3, <1>5, <1>6, OutsideKeeps

LEMMA DeleteReleaseKeeps ==
    ASSUME IInv, FlushAlone, NEW t \in Threads, DeleteRelease(t)
    PROVE  IInv'
<1> DEFINE v == job[t].v
<1>1. /\ job[t].op = "delete" /\ live' = live \ {v} /\ fault' = (fault \/ v \notin live)
      /\ p' = [p EXCEPT ![v] = None] /\ name' = [name EXCEPT ![v] = None]
      /\ job' = [job EXCEPT ![t] = Idle]
      /\ strs' = strs /\ lock' = lock /\ walking' = walking
  BY DEF DeleteRelease, Free, Goto
<1>2. TypeOK /\ OneOwner /\ ~fault /\ JobReady(t) /\ FlushesAlone
  BY DEF IInv
<1>3. /\ job' \in [Threads -> Jobs] /\ job'[t] = Idle
      /\ \A u \in Threads \ {t} : job'[u] = job[u] /\ Own(u)' = Own(u)
  BY <1>1, <1>2, JobTypes, GotoFacts
<1>4. Own(t) = v /\ v # None /\ v \in live \ Listed /\ Own(t)' = None
  BY <1>1, <1>2, <1>3, JobTypes DEF JobReady, Own, OneOwner
<1> HIDE DEF v
<1>5. v \in Addrs /\ v # Head
  BY <1>2, <1>4, AddrsOK DEF TypeOK
<1>6. /\ p' \in [Addrs \cup {Head} -> Addrs \cup {None}] /\ p'[Head] = p[Head]
      /\ name' \in [Addrs -> Names \cup {None}]
      /\ \A a \in Listed : p'[a] = p[a] /\ name'[a] = name[a]
  BY <1>1, <1>2, <1>4, <1>5, ListFacts DEF TypeOK
<1>7. TypeOK' /\ ~fault'
  BY <1>1, <1>2, <1>3, <1>4, <1>6 DEF TypeOK
<1>8. Outside(t)
  BY <1>1, <1>3, <1>4, <1>6, ListFacts DEF Outside
<1>9. OneOwner'
  <2>1. Listed' = Listed
    BY <1>7, <1>8, SameOutside
  <2> QED
    BY <1>1, <1>2, <1>3, <1>4, <2>1 DEF OneOwner
<1>10. FlushesAlone' /\ JobReady(t)' /\ WalkGood(t)'
  BY <1>1, <1>2, <1>3, JobTypes DEF FlushesAlone, JobReady, WalkGood
<1> QED
  BY <1>7, <1>8, <1>9, <1>10, OutsideKeeps

LEMMA FlushReadKeeps ==
    ASSUME IInv, FlushAlone, NEW t \in Threads, FlushRead(t)
    PROVE  IInv'
<1> DEFINE j == [Idle EXCEPT !.op = "flush", !.v = p[Head]]
<1>1. /\ job' = [job EXCEPT ![t] = j] /\ \A u \in Threads : job[u] = Idle
      /\ p' = p /\ name' = name /\ live' = live /\ strs' = strs /\ lock' = lock
      /\ walking' = walking /\ fault' = fault
  BY DEF FlushRead, Goto
<1>2. TypeOK /\ OneOwner /\ ~fault /\ \A u \in Threads : JobReady(u)
  BY DEF IInv
<1>3. j \in Jobs /\ j.op = "flush" /\ j.v = p[Head]
  BY ListFacts, JobTypes DEF Idle
<1> HIDE DEF j
<1>4. /\ job' \in [Threads -> Jobs] /\ job'[t] = j
      /\ \A u \in Threads \ {t} : job'[u] = job[u] /\ Own(u)' = Own(u)
  BY <1>1, <1>2, <1>3, GotoFacts
<1>5. TypeOK'
  BY <1>1, <1>2, <1>4 DEF TypeOK
<1>6. Outside(t)
  BY <1>1, <1>4, ListFacts DEF Outside
<1>7. OneOwner'
  <2>1. Listed' = Listed
    BY <1>5, <1>6, SameOutside
  <2>2. Own(t) = None /\ Own(t)' = None
    BY <1>1, <1>3, <1>4, JobTypes DEF Own
  <2> QED
    BY <1>1, <1>2, <1>4, <2>1, <2>2 DEF OneOwner
<1>8. FlushesAlone'
  BY <1>1, <1>4, JobTypes DEF FlushesAlone
<1>9. JobReady(t)' /\ WalkGood(t)'
  <2>1. lock # t
    BY <1>1, <1>2, JobTypes DEF JobReady
  <2> QED
    BY <1>1, <1>3, <1>4, <2>1 DEF JobReady, WalkGood
<1> QED
  BY <1>1, <1>2, <1>5, <1>6, <1>7, <1>8, <1>9, OutsideKeeps

\* A variable that exists, or cannot be added: its caller releases the record.
LEMMA LookupFoundKeeps ==
    ASSUME IInv, FlushAlone, NEW t \in Threads, LookupFind(t),
           ~(Find(job[t].name) = None /\ job[t].n # None /\ job[t].str)
    PROVE  IInv'
<1> DEFINE n == job[t].n
           j == IF n = None THEN Idle ELSE [Idle EXCEPT !.op = "release", !.n = n]
<1>1. /\ job[t].op = "lookup" /\ lock = None /\ job' = [job EXCEPT ![t] = j]
      /\ p' = p /\ name' = name /\ strs' = strs /\ live' = live /\ lock' = lock
      /\ walking' = walking /\ fault' = fault
  BY DEF LookupFind, FindOrAdd, Returned, Goto
<1>2. TypeOK /\ OneOwner /\ ~fault /\ n \in Addrs \cup {None}
  BY DEF IInv, TypeOK, Jobs
<1>3. /\ j \in Jobs /\ j.op \in {"idle", "release"} /\ (j.op = "idle" <=> n = None)
      /\ j.op = "release" => j.n = n
  BY <1>2, JobTypes DEF Idle
<1> HIDE DEF j
<1>4. /\ job' \in [Threads -> Jobs] /\ job'[t] = j
      /\ \A u \in Threads \ {t} : job'[u] = job[u] /\ Own(u)' = Own(u)
  BY <1>1, <1>2, <1>3, GotoFacts
<1>5. TypeOK'
  BY <1>1, <1>2, <1>4 DEF TypeOK
<1>6. Outside(t)
  BY <1>1, <1>4, ListFacts DEF Outside
<1>7. Own(t) = n /\ Own(t)' = n
  BY <1>1, <1>3, <1>4 DEF Own
<1>8. OneOwner'
  <2>1. Listed' = Listed
    BY <1>5, <1>6, SameOutside
  <2>2. \A u \in Threads : Own(u)' = Own(u)
    BY <1>4, <1>7
  <2> QED
    BY <1>1, <1>2, <2>1, <2>2 DEF OneOwner
<1>9. FlushesAlone' /\ JobReady(t)' /\ WalkGood(t)'
  <2>1. \A u \in Threads : job'[u].op # "flush"
    BY <1>1, <1>3, <1>4, NobodyFlushes
  <2> QED
    BY <1>1, <1>3, <1>4, <2>1, AddrsOK DEF FlushesAlone, JobReady, WalkGood
<1> QED
  BY <1>1, <1>2, <1>5, <1>6, <1>8, <1>9, OutsideKeeps

-----------------------------------------------------------------------------
(* Steps that change the list: nobody walks or flushes *)

\* All jobs but that of t are what they were, and no walk or flush among them.
LEMMA ChangeKeeps ==
    ASSUME IInv, FlushAlone, NEW t \in Threads, lock = None, lock' = None,
           MayCall(t) \/ job[t].op \notin {"idle", "flush"},
           \A u \in Threads \ {t} : job'[u] = job[u],
           job'[t].op \in {"idle", "delete"}, job'[t].op = "delete" => job'[t].v # None,
           TypeOK', Sorted', OneOwner', \A a \in Listed' : a \in live' /\ name'[a] \in strs',
           ~fault'
    PROVE  IInv'
<1>1. \A u \in Threads : job[u].op # "flush" /\ job[u].op # "walk"
  BY NobodyFlushes, AddrsOK DEF IInv, JobReady
<1>2. \A u \in Threads : job'[u].op # "flush" /\ job'[u].op # "walk"
  BY <1>1
<1>3. ASSUME NEW u \in Threads
      PROVE  JobReady(u)'
  <2>1. JobReady(u)
    BY DEF IInv
  <2> QED
    BY <1>2, <2>1, AddrsOK DEF JobReady
<1>4. FlushesAlone' /\ WalkComplete'
  BY <1>2 DEF FlushesAlone, WalkComplete
<1> QED
  BY <1>3, <1>4 DEF IInv

\* The variable does not exist and is added.
LEMMA LookupAddKeeps ==
    ASSUME IInv, FlushAlone, NEW t \in Threads, LookupFind(t),
           Find(job[t].name) = None, job[t].n # None, job[t].str
    PROVE  IInv'
<1> DEFINE n == job[t].n
           nm == job[t].name
           w == FindWhere(nm)
<1>1. /\ job[t].op = "lookup" /\ lock = None /\ job' = [job EXCEPT ![t] = Idle]
      /\ p' = [p EXCEPT ![n] = p[w], ![w] = n] /\ name' = [name EXCEPT ![n] = nm]
      /\ strs' = strs \cup {nm} /\ live' = live /\ lock' = lock
      /\ walking' = walking /\ fault' = fault
  BY DEF LookupFind, FindOrAdd, Returned, Goto
<1>2. TypeOK /\ OneOwner /\ ~fault /\ JobReady(t)
  BY DEF IInv
<1>3. nm \in Names /\ nm \in Nat
  BY <1>1, <1>2, NamesOK DEF JobReady
<1>4. /\ w \in {Head} \cup Listed
      /\ w # Head => name[w] < nm
      /\ p[w] # None => name[p[w]] > nm
  BY <1>3, FindFacts
<1>5. Own(t) = n /\ n \in live \ Listed /\ n \in Addrs
  BY <1>1, <1>2 DEF Own, OneOwner, TypeOK
<1>6. /\ job' \in [Threads -> Jobs] /\ job'[t] = Idle
      /\ \A u \in Threads \ {t} : job'[u] = job[u] /\ Own(u)' = Own(u)
  BY <1>1, <1>2, JobTypes, GotoFacts
<1>7. Own(t)' = None
  BY <1>6, JobTypes DEF Own, Idle
<1> HIDE DEF n, nm, w
<1>8. p' \in Links /\ Listed' = Listed \cup {n}
  <2>1. Listed = Reach(p, p[Head]) /\ p \in Links
    BY ListFacts
  <2> DEFINE q == p
             r == p'
  <2>2. r \in Links /\ Reach(r, r[Head]) = Reach(q, q[Head]) \cup {n}
    <3>1. /\ q \in Links /\ w \in {Head} \cup Reach(q, q[Head])
          /\ n \in Addrs \ Reach(q, q[Head]) /\ r = [q EXCEPT ![n] = q[w], ![w] = n]
      BY <1>1, <1>4, <1>5, <2>1
    <3> HIDE DEF q, r
    <3> QED
      BY <3>1, Inserted
  <2>3. Listed' = Reach(r, r[Head])
    BY DEF Listed, Chain
  <2> QED
    BY <2>1, <2>2, <2>3
<1>9. /\ n # w /\ p'[w] = n /\ p'[n] = p[w]
      /\ \A a \in Listed \ {w} : p'[a] = p[a]
      /\ \A a \in Listed : name'[a] = name[a]
      /\ name'[n] = nm /\ name' \in [Addrs -> Names \cup {None}]
  <2>1. p \in Links /\ Listed \in SUBSET Addrs /\ Head \notin Addrs
    BY ListFacts, AddrsOK
  <2> QED
    BY <1>1, <1>2, <1>3, <1>4, <1>5, <2>1 DEF Links, TypeOK
<1>10. TypeOK'
  BY <1>1, <1>2, <1>3, <1>6, <1>8, <1>9 DEF TypeOK, Links
<1>11. Sorted'
  <2>1. ASSUME NEW a \in Listed', p'[a] # None
        PROVE  name'[a] < name'[p'[a]]
    <3>1. /\ \A b \in Listed : p[b] \in Listed \cup {None} /\ (p[b] # None => name[b] < name[p[b]])
          /\ p[w] \in Listed \cup {None}
          /\ \A b \in Listed : name[b] \in Nat
      BY <1>4, ListFacts DEF Closed, Ascends
    <3>2. CASE a = n
      BY <1>3, <1>4, <1>9, <2>1, <3>1, <3>2
    <3>3. CASE a = w /\ a # n
      <4>1. a \in Listed
        BY <1>8, <3>3
      <4>2. w # Head
        BY <3>3, <4>1, ListFacts, AddrsOK
      <4> QED
        BY <1>4, <1>9, <3>3, <4>1, <4>2
    <3>4. CASE a # n /\ a # w
      <4>1. a \in Listed /\ p'[a] = p[a] /\ name'[a] = name[a]
        BY <1>8, <1>9, <3>4
      <4>2. p[a] \in Listed /\ name[a] < name[p[a]] /\ name'[p[a]] = name[p[a]]
        BY <1>9, <2>1, <3>1, <4>1
      <4> QED
        BY <4>1, <4>2
    <3> QED
      BY <3>2, <3>3, <3>4
  <2> QED
    BY <2>1 DEF Sorted
<1>12. \A a \in Listed' : a \in live' /\ name'[a] \in strs'
  BY <1>1, <1>5, <1>8, <1>9 DEF IInv
<1>13. OneOwner'
  <2>1. \A u \in Threads \ {t} : Own(u) # None => Own(u) # n
    BY <1>2, <1>5 DEF OneOwner
  <2>2. \A u \in Threads : Own(u)' # None => Own(u)' \in live' \ Listed'
    BY <1>1, <1>2, <1>6, <1>7, <1>8, <2>1 DEF OneOwner
  <2>3. \A u, x \in Threads : Own(u)' # None /\ Own(u)' = Own(x)' => u = x
    BY <1>2, <1>6, <1>7 DEF OneOwner
  <2>4. live' \subseteq Listed' \cup {Own(u)' : u \in Threads}
    <3>1. ASSUME NEW a \in live', a \notin Listed'
          PROVE  \E u \in Threads : Own(u)' = a
      <4>1. PICK u \in Threads : Own(u) = a
        BY <1>1, <1>2, <1>8, <3>1 DEF OneOwner
      <4>2. u # t
        BY <1>5, <1>8, <3>1, <4>1
      <4> QED
        BY <1>6, <4>1, <4>2
    <3> QED
      BY <3>1
  <2> QED
    BY <2>2, <2>3, <2>4 DEF OneOwner
<1> QED
  BY <1>1, <1>2, <1>6, <1>10, <1>11, <1>12, <1>13, JobTypes, ChangeKeeps

LEMMA DeleteFindKeeps ==
    ASSUME IInv, FlushAlone, NEW t \in Threads, NEW nm \in Names, DeleteFind(t, nm)
    PROVE  IInv'
<1> DEFINE w == FindWhere(nm)
           v == p[w]
           j == [Idle EXCEPT !.op = "delete", !.v = v]
<1>1. Find(nm) = v /\ v # None /\ v \in Listed /\ w \in {Head} \cup Listed
  BY FindFacts DEF DeleteFind
<1>2. /\ MayCall(t) /\ job[t] = Idle /\ lock = None
      /\ p' = [p EXCEPT ![w] = p[v]] /\ job' = [job EXCEPT ![t] = j]
      /\ name' = name /\ strs' = strs /\ live' = live /\ lock' = lock
      /\ walking' = walking /\ fault' = fault
  BY <1>1 DEF DeleteFind, MayCall, Goto
<1>3. TypeOK /\ OneOwner /\ ~fault
  BY DEF IInv
<1> HIDE DEF w
<1>4. p' \in Links /\ Listed' = Listed \ {v}
  <2>1. Listed = Reach(p, p[Head]) /\ p \in Links /\ Ascends(p, name, Listed)
    BY ListFacts
  <2> DEFINE q == p
             r == p'
  <2>2. r \in Links /\ Reach(r, r[Head]) = Reach(q, q[Head]) \ {q[w]}
    <3>1. /\ q \in Links /\ w \in {Head} \cup Reach(q, q[Head]) /\ q[w] # None
          /\ Ascends(q, name, Reach(q, q[Head])) /\ r = [q EXCEPT ![w] = q[q[w]]]
      BY <1>1, <1>2, <2>1
    <3> DEFINE g == name
    <3>2. Ascends(q, g, Reach(q, q[Head]))
      BY <3>1
    <3> HIDE DEF q, r, g
    <3> QED
      BY <3>1, <3>2, Removed
  <2>3. Listed' = Reach(r, r[Head])
    BY DEF Listed, Chain
  <2> QED
    BY <2>1, <2>2, <2>3
<1>5. /\ p'[w] = p[v] /\ \A a \in Listed \ {w} : p'[a] = p[a]
  BY <1>1, <1>2, ListFacts, AddrsOK DEF Links
<1>6. j \in Jobs /\ j.op = "delete" /\ j.v = v
  BY <1>1, ListFacts, JobTypes DEF Idle
<1> HIDE DEF v, j
<1>7. /\ job' \in [Threads -> Jobs] /\ job'[t] = j
      /\ \A u \in Threads \ {t} : job'[u] = job[u] /\ Own(u)' = Own(u)
  BY <1>2, <1>3, <1>6, GotoFacts
<1>8. Own(t) = None /\ Own(t)' = v
  BY <1>2, <1>6, <1>7, JobTypes DEF Own
<1>9. TypeOK'
  BY <1>2, <1>3, <1>4, <1>7 DEF TypeOK, Links
<1>10. Sorted'
  <2>1. ASSUME NEW a \in Listed', p'[a] # None
        PROVE  name'[a] < name'[p'[a]]
    <3>1. /\ \A b \in Listed : p[b] \in Listed \cup {None} /\ (p[b] # None => name[b] < name[p[b]])
          /\ \A b \in Listed : name[b] \in Nat
      BY ListFacts DEF Closed, Ascends
    <3>2. a \in Listed
      BY <1>4
    <3>3. CASE a = w
      <4>1. p[a] = v /\ name[a] < name[v] /\ p[v] \in Listed /\ name[v] < name[p[v]]
        BY <1>1, <1>5, <2>1, <3>1, <3>2, <3>3 DEF v
      <4>2. name[a] \in Nat /\ name[v] \in Nat /\ name[p[v]] \in Nat
        BY <1>1, <3>1, <3>2, <4>1
      <4> QED
        BY <1>2, <1>5, <3>3, <4>1, <4>2
    <3>4. CASE a # w
      BY <1>2, <1>5, <2>1, <3>1, <3>2, <3>4
    <3> QED
      BY <3>3, <3>4
  <2> QED
    BY <2>1 DEF Sorted
<1>11. \A a \in Listed' : a \in live' /\ name'[a] \in strs'
  BY <1>2, <1>4 DEF IInv
<1>12. OneOwner'
  <2>1. \A u \in Threads : Own(u) # None => Own(u) # v
    BY <1>1, <1>3 DEF OneOwner
  <2>2. \A u \in Threads : Own(u)' # None => Own(u)' \in live' \ Listed'
    BY <1>1, <1>2, <1>3, <1>4, <1>7, <1>8, ListFacts DEF OneOwner
  <2>3. \A u, x \in Threads : Own(u)' # None /\ Own(u)' = Own(x)' => u = x
    BY <1>1, <1>3, <1>7, <1>8, <2>1 DEF OneOwner
  <2>4. live' \subseteq Listed' \cup {Own(u)' : u \in Threads}
    <3>1. ASSUME NEW a \in live', a \notin Listed', a # v
          PROVE  \E u \in Threads : Own(u)' = a
      <4>1. PICK u \in Threads : Own(u) = a
        BY <1>2, <1>3, <1>4, <3>1 DEF OneOwner
      <4>2. u # t
        BY <1>2, <1>3, <1>8, <3>1, <4>1, AddrsOK DEF TypeOK
      <4> QED
        BY <1>7, <4>1, <4>2
    <3> QED
      BY <1>8, <3>1
  <2> QED
    BY <2>2, <2>3, <2>4 DEF OneOwner
<1> QED
  BY <1>1, <1>2, <1>3, <1>6, <1>7, <1>9, <1>10, <1>11, <1>12, ChangeKeeps

\* All variables go at once: the head was read when everybody was idle, and still is
\* the head.
LEMMA FlushReleaseKeeps ==
    ASSUME IInv, FlushAlone, NEW t \in Threads, FlushRelease(t)
    PROVE  IInv'
<1>1. job[t].op = "flush" /\ JobReady(t) /\ TypeOK /\ OneOwner /\ FlushesAlone /\ ~fault
  BY DEF FlushRelease, IInv
<1>2. Chain(job[t].v) = Listed
  BY <1>1 DEF JobReady, Listed
<1>3. /\ lock = None /\ live' = live \ Listed /\ fault' = (fault \/ ~(Listed \subseteq live))
      /\ p' = Cleared(p, Listed \cup {Head}) /\ name' = Cleared(name, Listed)
      /\ job' = [job EXCEPT ![t] = Idle]
      /\ strs' = strs /\ lock' = lock /\ walking' = walking
  BY <1>2 DEF FlushRelease, Goto
<1>4. job' \in [Threads -> Jobs] /\ \A u \in Threads : job'[u] = Idle
  BY <1>1, <1>3, JobTypes, GotoFacts DEF FlushesAlone
<1>5. /\ p' \in [Addrs \cup {Head} -> Addrs \cup {None}] /\ p'[Head] = None
      /\ name' \in [Addrs -> Names \cup {None}]
  BY <1>1, <1>3 DEF TypeOK, Cleared
<1>6. ~fault'
  BY <1>1, <1>3, ListFacts
<1>7. TypeOK'
  BY <1>1, <1>3, <1>4, <1>5, <1>6 DEF TypeOK
<1>8. Listed' = {}
  <2>1. Listed' = Reach(p', p'[Head])
    BY DEF Listed, Chain
  <2> DEFINE r == p'
  <2>2. Linkage(r) /\ None \in Addrs \cup {None}
    BY <1>5 DEF Linkage
  <2> HIDE DEF r
  <2>3. Reach(r, None) = {}
    BY <2>2, ReachClosed
  <2> QED
    BY <1>5, <2>1, <2>3 DEF r
<1>9. live' = {}
  <2>1. \A u \in Threads : Own(u) = None
    BY <1>1, JobTypes DEF FlushesAlone, Own
  <2> QED
    BY <1>1, <1>3, <2>1, AddrsOK DEF OneOwner, TypeOK
<1>10. \A u \in Threads : Own(u)' = None
  BY <1>4, JobTypes DEF Own
<1>11. OneOwner'
  BY <1>9, <1>10 DEF OneOwner
<1>12. Sorted' /\ FlushesAlone' /\ WalkComplete'
  BY <1>4, <1>8, JobTypes DEF Sorted, FlushesAlone, WalkComplete
<1>13. \A u \in Threads : JobReady(u)'
  BY <1>3, <1>4, AddrsOK, JobTypes DEF JobReady
<1> QED
  BY <1>6, <1>7, <1>8, <1>11, <1>12, <1>13 DEF IInv

-----------------------------------------------------------------------------
(* Walks *)

\* A step of a walk changes nothing but the lock and the walker's job.
LEMMA WalkingKeeps ==
    ASSUME IInv, FlushAlone, NEW t \in Threads, NEW j \in Jobs, job' = [job EXCEPT ![t] = j],
           MayCall(t) \/ job[t].op = "walk",
           p' = p, name' = name, live' = live, strs' = strs, fault' = fault,
           lock = None \/ lock = t, lock' = None \/ lock' = t,
           walking' = IF lock' = None THEN 0 ELSE 1,
           lock' = t <=> j.op = "walk", j.op \in {"idle", "walk"},
           j.op = "walk" =>
             /\ j.v \in Listed \cup {None}
             /\ j.seen \cup {name[a] : a \in Chain(j.v)} = {name[a] : a \in Listed}
    PROVE  IInv'
<1>1. TypeOK /\ OneOwner /\ ~fault
  BY DEF IInv
<1>2. /\ job' \in [Threads -> Jobs] /\ job'[t] = j
      /\ \A u \in Threads \ {t} : job'[u] = job[u] /\ Own(u)' = Own(u)
  BY <1>1, GotoFacts
<1>3. TypeOK'
  BY <1>1, <1>2 DEF TypeOK
<1>4. Outside(t)
  BY <1>2, AddrsOK, ListFacts DEF Outside
<1>5. Listed' = Listed
  BY <1>3, <1>4, SameOutside
<1>6. OneOwner'
  <2>1. Own(t) = None /\ Own(t)' = None
    BY <1>2, JobTypes DEF Own, MayCall
  <2>2. \A u \in Threads : Own(u)' = Own(u)
    BY <1>2, <2>1
  <2> QED
    BY <1>1, <1>5, <2>2 DEF OneOwner
<1>7. FlushesAlone'
  <2>1. \A u \in Threads : job[u].op # "flush"
    BY NobodyFlushes
  <2> QED
    BY <1>2, <2>1 DEF FlushesAlone
<1>8. JobReady(t)'
  BY <1>2, <1>5 DEF JobReady
<1>9. WalkGood(t)'
  <2>1. ASSUME j.op = "walk"
        PROVE  j.seen \cup {name'[a] : a \in Reach(p', j.v)} = {name'[a] : a \in Listed}
    BY <2>1 DEF Chain
  <2> QED
    BY <1>2, <1>5, <2>1 DEF WalkGood, Chain
<1> QED
  BY <1>1, <1>3, <1>4, <1>6, <1>7, <1>8, <1>9, OutsideKeeps

LEMMA WalkBeginKeeps ==
    ASSUME IInv, FlushAlone, NEW t \in Threads, WalkBegin(t)
    PROVE  IInv'
<1> DEFINE j == [Idle EXCEPT !.op = "walk", !.v = p[Head]]
<1>1. /\ MayCall(t) /\ lock = None /\ lock' = t /\ walking' = walking + 1
      /\ job' = [job EXCEPT ![t] = j]
      /\ p' = p /\ name' = name /\ live' = live /\ strs' = strs /\ fault' = fault
  BY DEF WalkBegin, Goto
<1>2. j \in Jobs /\ j.op = "walk" /\ j.v = p[Head] /\ j.seen = {}
  BY ListFacts, JobTypes DEF Idle
<1>3. walking' = 1 /\ t # None
  BY <1>1, AddrsOK DEF IInv, TypeOK
<1>4. p[Head] \in Listed \cup {None} /\ Chain(p[Head]) = Listed
  BY ListFacts DEF Listed
<1> HIDE DEF j
<1> QED
  BY <1>1, <1>2, <1>3, <1>4, WalkingKeeps DEF j

LEMMA WalkStepKeeps ==
    ASSUME IInv, FlushAlone, NEW t \in Threads, WalkStep(t)
    PROVE  IInv'
<1> DEFINE v == job[t].v
           j == [job[t] EXCEPT !.seen = @ \cup {name[v]}, !.v = p[@]]
<1>1. /\ job[t].op = "walk" /\ v # None /\ job' = [job EXCEPT ![t] = j]
      /\ p' = p /\ name' = name /\ live' = live /\ strs' = strs /\ fault' = fault
      /\ lock' = lock /\ walking' = walking
  BY DEF WalkStep, Goto
<1>2. TypeOK /\ JobReady(t) /\ job[t] \in Jobs
  BY DEF IInv, TypeOK
<1>3. v \in Listed /\ v \in Addrs /\ name[v] \in Names /\ p[v] \in Listed \cup {None}
  BY <1>1, <1>2, ListFacts DEF JobReady, Closed
<1>4. /\ j \in Jobs /\ j.op = "walk" /\ j.v = p[v] /\ j.seen = job[t].seen \cup {name[v]}
  BY <1>1, <1>2, <1>3, ListFacts DEF Jobs
<1>5. lock = t /\ walking = 1
  BY <1>1, <1>2, AddrsOK DEF JobReady, TypeOK
<1>6. job[t].seen \cup {name[a] : a \in Chain(v)} = {name[a] : a \in Listed}
  BY <1>1 DEF IInv, WalkComplete
<1>7. Chain(v) = {v} \cup Chain(p[v])
  BY <1>3, ListFacts, ReachUnfold DEF Chain
<1>8. j.seen \cup {name[a] : a \in Chain(j.v)} = {name[a] : a \in Listed}
  BY <1>4, <1>6, <1>7
<1> HIDE DEF j
<1>9. lock' = t /\ walking' = 1 /\ t # None
  BY <1>1, <1>5, AddrsOK
<1> QED
  BY <1>1, <1>3, <1>4, <1>5, <1>8, <1>9, WalkingKeeps DEF j

LEMMA WalkEndKeeps ==
    ASSUME IInv, FlushAlone, NEW t \in Threads, WalkEnd(t)
    PROVE  IInv'
<1>1. /\ job[t].op = "walk" /\ lock' = None /\ walking' = walking - 1
      /\ job' = [job EXCEPT ![t] = Idle]
      /\ p' = p /\ name' = name /\ live' = live /\ strs' = strs /\ fault' = fault
  BY DEF WalkEnd, Goto
<1>2. lock = t /\ walking = 1 /\ t # None
  BY <1>1, AddrsOK DEF IInv, JobReady, TypeOK
<1>3. walking' = 0
  BY <1>1, <1>2
<1>4. Idle \in Jobs /\ Idle.op = "idle"
  BY JobTypes
<1> QED
  BY <1>1, <1>2, <1>3, <1>4, WalkingKeeps

-----------------------------------------------------------------------------
(* The invariant and what follows from it *)

LEMMA InitIInv == Init => IInv
<1> SUFFICES ASSUME Init PROVE IInv
  OBVIOUS
<1> USE DEF Init
<1>1. Listed = {}
  <2>1. Linkage(p) /\ p[Head] = None
    BY DEF Linkage
  <2> QED
    BY <2>1, ReachClosed DEF Listed, Chain
<1>2. TypeOK
  BY JobTypes DEF TypeOK
<1>3. \A t \in Threads : job[t] = Idle /\ Own(t) = None
  BY JobTypes DEF Own
<1>4. OneOwner /\ Sorted /\ FlushesAlone /\ WalkComplete
  BY <1>1, <1>3, JobTypes DEF OneOwner, Sorted, FlushesAlone, WalkComplete
<1>5. \A t \in Threads : JobReady(t)
  BY <1>3, JobTypes, AddrsOK DEF JobReady
<1> QED
  BY <1>1, <1>2, <1>4, <1>5 DEF IInv

LEMMA NextIInv ==
    ASSUME IInv, FlushAlone, Next
    PROVE  IInv'
<1>1. PICK t \in Threads :
        \/ \E nm \in Names : LookupAlloc(t, nm) \/ StrLookup(t, nm) \/ DeleteFind(t, nm)
        \/ LookupFind(t) \/ LookupRelease(t)
        \/ DeleteRelease(t)
        \/ FlushRead(t) \/ FlushRelease(t)
        \/ WalkBegin(t) \/ WalkStep(t) \/ WalkEnd(t)
  BY DEF Next
<1>2. ASSUME NEW nm \in Names, LookupAlloc(t, nm) \/ StrLookup(t, nm) \/ DeleteFind(t, nm)
      PROVE  IInv'
  BY <1>2, AllocKeeps, StrKeeps, DeleteFindKeeps
<1>3. CASE LookupFind(t)
  BY <1>3, LookupFoundKeeps, LookupAddKeeps
<1>4. CASE LookupRelease(t) \/ DeleteRelease(t)
  BY <1>4, LookupReleaseKeeps, DeleteReleaseKeeps
<1>5. CASE FlushRead(t) \/ FlushRelease(t)
  BY <1>5, FlushReadKeeps, FlushReleaseKeeps
<1>6. CASE WalkBegin(t) \/ WalkStep(t) \/ WalkEnd(t)
  BY <1>6, WalkBeginKeeps, WalkStepKeeps, WalkEndKeeps
<1> QED
  BY <1>1, <1>2, <1>3, <1>4, <1>5, <1>6

LEMMA StutterIInv == IInv /\ UNCHANGED vars => IInv'
<1> SUFFICES ASSUME IInv, UNCHANGED vars PROVE IInv'
  OBVIOUS
<1>1. /\ p' = p /\ name' = name /\ live' = live /\ strs' = strs /\ lock' = lock
      /\ walking' = walking /\ job' = job /\ fault' = fault
  BY DEF vars
<1>2. TypeOK'
  BY <1>1 DEF IInv, TypeOK
<1>3. Listed' = Listed
  BY <1>1 DEF Listed, Chain
<1>4. Sorted' /\ FlushesAlone' /\ ~fault' /\ \A a \in Listed' : a \in live' /\ name'[a] \in strs'
  BY <1>1, <1>3 DEF IInv, Sorted, FlushesAlone
<1>5. OneOwner'
  <2>1. \A t \in Threads : Own(t)' = Own(t)
    BY <1>1 DEF Own
  <2> QED
    BY <1>1, <1>3, <2>1 DEF IInv, OneOwner
<1>6. \A t \in Threads : JobReady(t)'
  BY <1>1, <1>3 DEF IInv, JobReady
<1>7. WalkComplete'
  BY <1>1, <1>3 DEF IInv, WalkComplete, Chain
<1> QED
  BY <1>2, <1>4, <1>5, <1>6, <1>7 DEF IInv

\* However calls of several threads interleave, each record has one owner, calls
\* have what they rely on, and the list is in order.
THEOREM VarsInvariant == ASSUME FlushAlone PROVE Spec => []IInv
<1>1. Init => IInv
  BY InitIInv
<1>2. IInv /\ [Next]_vars => IInv'
  BY NextIInv, StutterIInv
<1> QED
  BY <1>1, <1>2, PTL DEF Spec

\* The list is sorted, so that no variable is in it twice although lookups that
\* create the same one race (cexpVarLookup), and the assertion of lhrAdd holds.
THEOREM ListWellFormed == ASSUME FlushAlone PROVE Spec => []WellFormed
<1>1. IInv => WellFormed
  BY DEF IInv, WellFormed
<1> QED
  BY <1>1, VarsInvariant, PTL

\* No two variables of the list have one name, and cexpVarLookup finds the one.
THEOREM NamesOnce ==
    ASSUME FlushAlone
    PROVE  Spec => [](\A a, b \in Listed : name[a] = name[b] => a = b)
<1>1. IInv => \A a, b \in Listed : name[a] = name[b] => a = b
  <2> SUFFICES ASSUME IInv PROVE \A a, b \in Listed : name[a] = name[b] => a = b
    OBVIOUS
  <2> DEFINE q == p
             g == name
  <2>1. Linkage(q) /\ q[Head] \in Addrs \cup {None} /\ Listed = Reach(q, q[Head])
        /\ Ascends(q, g, Reach(q, q[Head]))
    BY ListFacts
  <2>2. \A a, b \in Reach(q, q[Head]) : g[a] = g[b] => a = b
    <3> HIDE DEF q, g
    <3> QED
      BY <2>1, NextGreater
  <2> QED
    BY <2>1, <2>2
<1> QED
  BY <1>1, VarsInvariant, PTL

\* No record is lost, released twice or released while it is in the list
\* (cexpVarLookup and cexpVarDelete allocate and release without the lock).
THEOREM VarRecordsOwned == ASSUME FlushAlone PROVE Spec => []RecordsOwned
<1>1. IInv => RecordsOwned
  <2> SUFFICES ASSUME IInv PROVE RecordsOwned
    OBVIOUS
  <2>1. OneOwner /\ \A a \in Listed : a \in live /\ name[a] \in strs
    BY DEF IInv
  <2>2. ListedLive
    <3>1. ASSUME NEW t \in Threads, job[t].op \in {"lookup", "release"}
          PROVE  job[t].n \notin Listed
      BY <2>1, <3>1, ListFacts, AddrsOK DEF OneOwner, Own
    <3>2. ASSUME NEW t \in Threads, job[t].op = "delete"
          PROVE  job[t].v \notin Listed
      BY <2>1, <3>2, ListFacts, AddrsOK DEF OneOwner, Own
    <3> QED
      BY <2>1, <3>1, <3>2 DEF ListedLive
  <2>3. Accounted
    <3>1. ASSUME NEW a \in live, a \notin Listed
          PROVE  \E t \in Threads : a = job[t].n \/ a = job[t].v
      <4>1. PICK t \in Threads : Own(t) = a
        BY <2>1, <3>1 DEF OneOwner
      <4>2. a # None
        BY AddrsOK DEF IInv, TypeOK
      <4> QED
        BY <4>1, <4>2 DEF Own
    <3> QED
      BY <3>1 DEF Accounted
  <2> QED
    BY <2>2, <2>3 DEF RecordsOwned, NoDoubleFree, IInv
<1> QED
  BY <1>1, VarsInvariant, PTL

\* "nobody can access variables while this routine is active" (vars.h): what a walk
\* has seen and what is before it are always all variables.
THEOREM WalksComplete == ASSUME FlushAlone PROVE Spec => []WalkComplete
<1>1. IInv => WalkComplete
  BY DEF IInv
<1> QED
  BY <1>1, VarsInvariant, PTL
=============================================================================
