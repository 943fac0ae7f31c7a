------------------------------- MODULE LinkProofs -------------------------------
(***************************************************************************)
(* Theorems about the run-time linker, for all files, segments, memories    *)
(* and numbers of loads: whatever step of a load fails, it gives back once  *)
(* what it took; and what it places is aligned, inside the memory that was  *)
(* taken for it, and apart from everything that is loaded.                  *)
(*                                                                         *)
(* The invariant says at each step of a load what the steps before it have  *)
(* established: who owns the stream (Owned), that sections are those of the *)
(* file (FileShown), that segments have the size that sections need         *)
(* (SegmentsTaken) and that sections are in them (SectionsPlaced).  Groups  *)
(* that are loaded as a whole and attributes that agree follow at the end.  *)
(***************************************************************************)
EXTENDS Link, FiniteSetTheorems, SequenceTheorems, TLAPS

\* A set of numbers up to n has a least element.
LEMMA LeastNumber ==
    ASSUME NEW n \in Nat, NEW T \in SUBSET (0..n), T # {}
    PROVE  \E k \in T : \A j \in T : k <= j
<1> DEFINE Lower == {p \in Nat \X Nat : p[1] < p[2]}
<1>1. IsWellFoundedOn(Lower, Nat)
  BY NatLessThanWellFounded DEF OpToRel
<1>2. T \subseteq Nat
  OBVIOUS
<1>3. PICK k \in T : \A j \in T : <<j, k>> \notin Lower
  <2> HIDE DEF Lower
  <2> QED
    BY <1>1, <1>2, WFMin
<1>4. \A j \in T : ~(j < k)
  BY <1>2, <1>3
<1> QED
  BY <1>2, <1>4

\* And a greatest.
LEMMA GreatestNumber ==
    ASSUME NEW n \in Nat, NEW T \in SUBSET (0..n), T # {}
    PROVE  \E k \in T : \A j \in T : j <= k
<1> DEFINE U == {n - k : k \in T}
<1>1. U \in SUBSET (0..n) /\ U # {}
  <2>1. \A k \in T : n - k \in 0..n
    OBVIOUS
  <2>2. PICK k \in T : TRUE
    OBVIOUS
  <2>3. n - k \in U
    OBVIOUS
  <2> QED
    BY <2>1, <2>3
<1>2. PICK u \in U : \A v \in U : u <= v
  <2> HIDE DEF U
  <2> QED
    BY <1>1, LeastNumber
<1>3. PICK k \in T : u = n - k
  BY <1>2
<1>4. ASSUME NEW j \in T
      PROVE  j <= k
  <2>1. n - j \in U /\ j \in Int /\ k \in Int
    OBVIOUS
  <2>2. u <= n - j
    <3> HIDE DEF U
    <3> QED
      BY <1>2, <2>1
  <2> QED
    BY <1>3, <2>1, <2>2
<1> QED
  BY <1>4

-----------------------------------------------------------------------------
(* Recursion over numbers, and sums *)

\* Mathematics of quotients: the multiple of q that is next to x.
LEMMA NextMultiple ==
    ASSUME NEW x \in Nat, NEW q \in Nat \ {0}
    PROVE  LET y == ((x + q - 1) \div q) * q IN
           y \in Nat /\ x <= y /\ y <= x + q - 1 /\ y % q = 0
<1> DEFINE d == (x + q - 1) \div q
           r == (x + q - 1) % q
<1>1. d \in Nat /\ r \in 0..(q - 1) /\ x + q - 1 = d * q + r
  OBVIOUS
<1>2. d * q \in Nat
  BY <1>1
<1>3. (d * q) % q = 0
  BY <1>1
<1> HIDE DEF d, r
<1>4. d * q = x + q - 1 - r
  BY <1>1, <1>2
<1> QED
  BY <1>1, <1>2, <1>3, <1>4 DEF d

LEMMA Aligned_power ==
    ASSUME NEW x \in Nat, NEW p, 2^p \in Nat \ {0}
    PROVE  /\ align_power(x, p) \in Nat /\ x <= align_power(x, p)
           /\ align_power(x, p) <= x + 2^p - 1 /\ align_power(x, p) % 2^p = 0
<1>1. PICK q : q = 2^p
  OBVIOUS
<1> DEFINE y == ((x + q - 1) \div q) * q
<1>2. align_power(x, p) = y
  BY <1>1 DEF align_power
<1>3. y \in Nat /\ x <= y /\ y <= x + q - 1 /\ y % q = 0
  BY <1>1, NextMultiple
<1> HIDE DEF y
<1> QED
  BY <1>1, <1>2, <1>3

\* Each value of f is got from the one before it by g.
Iterates(f, n, base, g) == f[0] = base /\ \A i \in 1..n : f[i] = g[<<i, f[i - 1]>>]

\* A function whose values are defined one by one.
LEMMA RecursionIn ==
    ASSUME NEW n \in Nat, NEW S, NEW base \in S, NEW g \in [(1..n) \X S -> S]
    PROVE  \E f \in [0..n -> S] : Iterates(f, n, base, g)
<1> DEFINE Upto(f, m) == f[0] = base /\ \A i \in 1..m : f[i] = g[<<i, f[i - 1]>>]
           T == {m \in 0..n : ~\E f \in [0..n -> S] : Upto(f, m)}
<1>1. T = {}
  <2>1. SUFFICES ASSUME T # {}
                 PROVE  FALSE
    OBVIOUS
  <2>2. PICK m \in T : \A j \in T : m <= j
    <3>1. T \in SUBSET (0..n)
      OBVIOUS
    <3> QED
      BY <2>1, <3>1, LeastNumber
  <2>3. ASSUME m = 0
        PROVE  FALSE
    <3> DEFINE e == [i \in 0..n |-> base]
    <3>1. e \in [0..n -> S] /\ e[0] = base /\ \A i \in 1..m : FALSE
      BY <2>3
    <3>2. Upto(e, m)
      BY <3>1
    <3>3. ~\E f \in [0..n -> S] : Upto(f, m)
      OBVIOUS
    <3> HIDE DEF e, Upto
    <3> QED
      BY <3>1, <3>2, <3>3
  <2>4. m - 1 \in 0..n /\ m - 1 \notin T /\ m \in 1..n
    <3>1. m \in 0..n /\ m # 0
      BY <2>3
    <3>2. m - 1 \in 0..n /\ m \in 1..n /\ ~(m <= m - 1)
      BY <3>1
    <3> HIDE DEF T
    <3> QED
      BY <2>2, <3>2
  <2>5. PICK f \in [0..n -> S] : Upto(f, m - 1)
    BY <2>4
  <2> DEFINE h == [f EXCEPT ![m] = g[<<m, f[m - 1]>>]]
  <2>6. h \in [0..n -> S]
    <3>1. f[m - 1] \in S
      BY <2>4
    <3>2. g[<<m, f[m - 1]>>] \in S
      BY <2>4, <3>1
    <3> QED
      BY <3>2
  <2>7. Upto(h, m)
    <3>1. h[m] = g[<<m, f[m - 1]>>] /\ \A i \in 0..n : i # m => h[i] = f[i]
      BY <2>4
    <3>2. h[0] = base /\ h[m - 1] = f[m - 1]
      BY <2>4, <2>5, <3>1
    <3>3. ASSUME NEW i \in 1..m
          PROVE  h[i] = g[<<i, h[i - 1]>>]
      <4>1. CASE i = m
        BY <3>1, <3>2, <4>1
      <4>2. CASE i # m
        <5>1. i \in 1..(m - 1) /\ i \in 0..n /\ i - 1 \in 0..n /\ i - 1 # m
          BY <2>4, <4>2
        <5> QED
          BY <2>5, <3>1, <4>2, <5>1
      <4> QED
        BY <4>1, <4>2
    <3> QED
      BY <3>2, <3>3
  <2>8. ~\E e \in [0..n -> S] : Upto(e, m)
    OBVIOUS
  <2> HIDE DEF h, Upto
  <2> QED
    BY <2>6, <2>7, <2>8
<1>2. n \in 0..n /\ n \notin T
  <2> HIDE DEF T
  <2> QED
    BY <1>1
<1> QED
  BY <1>2 DEF Iterates

LEMMA Recursion ==
    ASSUME NEW n \in Nat, NEW base \in Nat, NEW g \in [(1..n) \X Nat -> Nat]
    PROVE  \E f \in [0..n -> Nat] : Iterates(f, n, base, g)
BY RecursionIn

\* Numbers that never decrease from one to the next.
LEMMA Monotone ==
    ASSUME NEW n \in Nat, NEW e \in [0..n -> Nat], \A i \in 1..n : e[i - 1] <= e[i],
           NEW i \in 0..n, NEW j \in 0..n, i <= j
    PROVE  e[i] <= e[j]
<1> DEFINE T == {m \in 0..n : i <= m /\ ~(e[i] <= e[m])}
<1>1. T = {}
  <2>1. SUFFICES ASSUME T # {}
                 PROVE  FALSE
    OBVIOUS
  <2>2. T \in SUBSET (0..n)
    OBVIOUS
  <2>3. PICK m \in T : \A l \in T : m <= l
    <3> HIDE DEF T
    <3> QED
      BY <2>1, <2>2, LeastNumber
  <2>4. m \in 0..n /\ i <= m /\ ~(e[i] <= e[m])
    OBVIOUS
  <2>5. m \in 1..n /\ m - 1 \in 0..n /\ i <= m - 1 /\ ~(m <= m - 1)
    <3>1. e[i] <= e[i]
      OBVIOUS
    <3>2. m # i
      BY <2>4, <3>1
    <3> QED
      BY <2>4, <3>2
  <2>6. m - 1 \notin T
    <3> HIDE DEF T
    <3> QED
      BY <2>3, <2>5
  <2>7. e[i] <= e[m - 1]
    BY <2>5, <2>6
  <2>8. e[m - 1] <= e[m] /\ e[i] \in Nat /\ e[m - 1] \in Nat /\ e[m] \in Nat
    BY <2>4, <2>5
  <2> QED
    BY <2>4, <2>7, <2>8
<1> QED
  BY <1>1

LEMMA Quotient ==
    ASSUME NEW x \in Nat, NEW d \in Nat \ {0}, x % d = 0
    PROVE  \E q \in Nat : x = q * d
<1> DEFINE q == x \div d
           r == x % d
<1>1. q \in Nat /\ r \in 0..(d - 1) /\ x = q * d + r
  OBVIOUS
<1>2. r = 0
  OBVIOUS
<1> HIDE DEF q, r
<1>3. q * d \in Nat
  BY <1>1
<1> QED
  BY <1>1, <1>2, <1>3

\* Divisors of divisors, and of sums.
LEMMA Divides ==
    ASSUME NEW x \in Nat, NEW y \in Nat, NEW a \in Nat \ {0}, NEW d \in Nat \ {0},
           x % d = 0, d % a = 0, y % a = 0
    PROVE  (x + y) % a = 0
<1>1. PICK q \in Nat : x = q * d
  BY Quotient
<1>2. PICK r \in Nat : d = r * a
  BY Quotient
<1>3. PICK t \in Nat : y = t * a
  BY Quotient
<1>4. PICK s \in Nat : s = q * r + t
  OBVIOUS
<1>5. x + y = s * a
  BY <1>1, <1>2, <1>3, <1>4
<1>6. (s * a) % a = 0
  OBVIOUS
<1> QED
  BY <1>5, <1>6

\* A sum over a set, in the order in which CHOOSE picks its elements.
Summing(S, w, f) ==
    f = [s \in SUBSET S |-> IF s = {} THEN 0
                            ELSE LET x == CHOOSE x \in s : TRUE IN f[s \ {x}] + w[x]]

\* What CHOOSE picks, and the set without it.
LEMMA Picked ==
    ASSUME NEW S, IsFiniteSet(S), NEW s \in SUBSET S, NEW x \in s
    PROVE  /\ IsFiniteSet(s) /\ Cardinality(s) \in Nat /\ Cardinality(s) \in 0..Cardinality(S)
           /\ s \ {x} \in SUBSET S /\ Cardinality(s \ {x}) = Cardinality(s) - 1
           /\ Cardinality(s \ {x}) \in Nat
<1>1. IsFiniteSet(s) /\ Cardinality(s) \in Nat /\ Cardinality(s) <= Cardinality(S)
  BY FS_Subset, FS_CardinalityType
<1>2. Cardinality(S) \in Nat
  BY FS_CardinalityType
<1>3. Cardinality(s \ {x}) = Cardinality(s) - 1 /\ IsFiniteSet(s \ {x})
  BY <1>1, FS_RemoveElement
<1>4. Cardinality(s \ {x}) \in Nat
  BY <1>3, FS_CardinalityType
<1> QED
  BY <1>1, <1>2, <1>3, <1>4

LEMMA SumExists ==
    ASSUME NEW S, IsFiniteSet(S), NEW w, \A x \in S : w[x] \in Nat
    PROVE  \E f \in [SUBSET S -> Nat] : Summing(S, w, f)
<1> DEFINE c(s) == CHOOSE x \in s : TRUE
           body(f, s) == IF s = {} THEN 0 ELSE f[s \ {c(s)}] + w[c(s)]
           Upto(f, m) == \A s \in SUBSET S : Cardinality(s) <= m => f[s] = body(f, s)
           N == Cardinality(S)
           T == {m \in 0..N : ~\E f \in [SUBSET S -> Nat] : Upto(f, m)}
<1>1. N \in Nat /\ \A s \in SUBSET S : IsFiniteSet(s) /\ Cardinality(s) \in Nat /\ Cardinality(s) <= N
  BY FS_Subset, FS_CardinalityType
<1>2. ASSUME NEW s \in SUBSET S, s # {}
      PROVE  /\ c(s) \in s /\ c(s) \in S /\ s \ {c(s)} \in SUBSET S
             /\ Cardinality(s \ {c(s)}) = Cardinality(s) - 1
  <2>1. c(s) \in s
    BY <1>2
  <2> HIDE DEF c
  <2> QED
    BY <2>1, Picked
<1>3. T = {}
  <2>1. SUFFICES ASSUME T # {}
                 PROVE  FALSE
    OBVIOUS
  <2>2. PICK m \in T : \A j \in T : m <= j
    <3>1. T \in SUBSET (0..N)
      OBVIOUS
    <3> HIDE DEF T, N
    <3> QED
      BY <1>1, <2>1, <3>1, LeastNumber
  <2>3. m \in 0..N /\ ~\E f \in [SUBSET S -> Nat] : Upto(f, m)
    OBVIOUS
  <2>4. ASSUME m = 0
        PROVE  FALSE
    <3> DEFINE e == [s \in SUBSET S |-> 0]
    <3>1. e \in [SUBSET S -> Nat]
      OBVIOUS
    <3>2. ASSUME NEW s \in SUBSET S, Cardinality(s) <= m
          PROVE  e[s] = body(e, s)
      <4>1. Cardinality(s) = 0
        BY <1>1, <2>4, <3>2
      <4>2. s = {}
        BY <1>1, <4>1, FS_EmptySet
      <4> QED
        BY <4>2
    <3> QED
      BY <2>3, <3>1, <3>2
  <2>5. m - 1 \in 0..N /\ m - 1 \notin T /\ m \in Nat
    <3>1. m - 1 \in 0..N /\ m \in Nat /\ ~(m <= m - 1)
      BY <1>1, <2>3, <2>4
    <3> HIDE DEF T
    <3> QED
      BY <2>2, <3>1
  <2>6. PICK f \in [SUBSET S -> Nat] : Upto(f, m - 1)
    BY <2>5
  <2> DEFINE h == [s \in SUBSET S |-> IF Cardinality(s) <= m - 1 THEN f[s] ELSE body(f, s)]
  <2>7. ASSUME NEW s \in SUBSET S
        PROVE  body(f, s) \in Nat
    <3>1. CASE s # {}
      <4>1. f[s \ {c(s)}] \in Nat /\ w[c(s)] \in Nat
        BY <1>2, <3>1
      <4> HIDE DEF c
      <4> QED
        BY <3>1, <4>1
    <3> QED
      BY <3>1
  <2>8. h \in [SUBSET S -> Nat]
    BY <2>7
  <2>9. ASSUME NEW s \in SUBSET S, Cardinality(s) <= m
        PROVE  h[s] = body(h, s)
    <3>1. h[s] = body(f, s)
      BY <2>6
    <3>2. CASE s = {}
      BY <3>1, <3>2
    <3>3. CASE s # {}
      <4>1. Cardinality(s \ {c(s)}) <= m - 1 /\ s \ {c(s)} \in SUBSET S
        BY <1>1, <1>2, <2>5, <2>9, <3>3
      <4>2. h[s \ {c(s)}] = f[s \ {c(s)}]
        BY <4>1
      <4> HIDE DEF h, c
      <4> QED
        BY <3>1, <3>3, <4>2
    <3> QED
      BY <3>2, <3>3
  <2> HIDE DEF h
  <2> QED
    BY <2>3, <2>8, <2>9
<1>4. PICK f \in [SUBSET S -> Nat] : Upto(f, N)
  <2>1. N \in 0..N /\ N \notin T
    <3> HIDE DEF T, N
    <3> QED
      BY <1>1, <1>3
  <2> HIDE DEF N, Upto
  <2> QED
    BY <2>1
<1>5. \A s \in SUBSET S : f[s] = body(f, s)
  BY <1>1, <1>4
<1>6. f = [s \in SUBSET S |-> body(f, s)]
  <2> HIDE DEF body
  <2> QED
    BY <1>5
<1> QED
  BY <1>6 DEF Summing

\* x adds its weight to the sum over s.
Adds(f, s, x, w) == f[s] \in Nat /\ f[s \ {x}] \in Nat /\ f[s] = f[s \ {x}] + w[x]

\* A sum does not depend on the order.
LEMMA SumRemoves ==
    ASSUME NEW S, IsFiniteSet(S), NEW w, \A x \in S : w[x] \in Nat,
           NEW f, Summing(S, w, f), NEW s \in SUBSET S, NEW x \in s
    PROVE  Adds(f, s, x, w)
<1> DEFINE c(r) == CHOOSE y \in r : TRUE
           N == Cardinality(S)
           Holds(r, y) == f[r] = f[r \ {y}] + w[y]
           T == {m \in 0..N : \E r \in SUBSET S : Cardinality(r) = m /\ \E y \in r : ~Holds(r, y)}
<1>1. N \in Nat
  BY FS_CardinalityType
<1>2. \A r \in SUBSET S : f[r] = IF r = {} THEN 0 ELSE f[r \ {c(r)}] + w[c(r)]
  BY DEF Summing
<1>3. \A r \in SUBSET S : r # {} => c(r) \in r
  OBVIOUS
<1> HIDE DEF c
<1>4. \A r \in SUBSET S : f[r] \in Nat
  <2> DEFINE M == {m \in 0..N : \E r \in SUBSET S : Cardinality(r) = m /\ f[r] \notin Nat}
  <2>1. M = {}
    <3>1. SUFFICES ASSUME M # {}
                   PROVE  FALSE
      OBVIOUS
    <3>2. PICK m \in M : \A j \in M : m <= j
      <4>1. M \in SUBSET (0..N)
        OBVIOUS
      <4> HIDE DEF M, N
      <4> QED
        BY <1>1, <3>1, <4>1, LeastNumber
    <3>3. PICK r \in SUBSET S : Cardinality(r) = m /\ f[r] \notin Nat
      OBVIOUS
    <3>4. r # {} /\ c(r) \in r
      BY <1>2, <1>3, <3>3
    <3>5. /\ r \ {c(r)} \in SUBSET S /\ Cardinality(r \ {c(r)}) = m - 1 /\ m - 1 \in 0..N
          /\ w[c(r)] \in Nat
      <4>1. Cardinality(r \ {c(r)}) = m - 1 /\ Cardinality(r \ {c(r)}) \in Nat /\ m \in 0..N
        BY <3>3, <3>4, Picked
      <4> QED
        BY <1>1, <3>4, <4>1
    <3>6. m - 1 \notin M
      <4>1. ~(m <= m - 1)
        BY <1>1
      <4> HIDE DEF M
      <4> QED
        BY <3>2, <4>1
    <3>7. f[r \ {c(r)}] \in Nat
      BY <3>5, <3>6
    <3>8. f[r] = f[r \ {c(r)}] + w[c(r)]
      BY <1>2, <3>4
    <3> QED
      BY <3>3, <3>5, <3>7, <3>8
  <2>2. ASSUME NEW r \in SUBSET S
        PROVE  f[r] \in Nat
    <3>1. Cardinality(r) \in 0..N
      BY <1>1, FS_Subset, FS_CardinalityType
    <3> QED
      BY <2>1, <3>1
  <2> QED
    BY <2>2
<1>5. T = {}
  <2>1. SUFFICES ASSUME T # {}
                 PROVE  FALSE
    OBVIOUS
  <2>2. PICK m \in T : \A j \in T : m <= j
    <3>1. T \in SUBSET (0..N)
      OBVIOUS
    <3> HIDE DEF T, N
    <3> QED
      BY <1>1, <2>1, <3>1, LeastNumber
  <2>3. PICK r \in SUBSET S : Cardinality(r) = m /\ \E y \in r : ~Holds(r, y)
    OBVIOUS
  <2> PICK y \in r : ~Holds(r, y)
    BY <2>3
  <2> DEFINE z == c(r)
  <2>4. z \in r /\ z # y /\ f[r] = f[r \ {z}] + w[z]
    BY <1>2, <1>3, <2>3
  <2>5. m - 1 \in 0..N /\ m - 1 \notin T
    <3>1. Cardinality(r \ {y}) = m - 1 /\ Cardinality(r \ {y}) \in Nat /\ m \in 0..N
      BY <2>3, Picked
    <3>2. m - 1 \in 0..N /\ ~(m <= m - 1)
      BY <1>1, <3>1
    <3> HIDE DEF T
    <3> QED
      BY <2>2, <3>2
  <2>6. ASSUME NEW u \in r, NEW v \in r, u # v
        PROVE  f[r \ {u}] = f[(r \ {u}) \ {v}] + w[v]
    <3>1. Cardinality(r \ {u}) = m - 1 /\ r \ {u} \in SUBSET S /\ v \in r \ {u}
      BY <2>3, <2>6, Picked
    <3>2. Holds(r \ {u}, v)
      <4> HIDE DEF Holds
      <4> QED
        BY <2>5, <3>1
    <3> QED
      BY <3>2
  <2>7. f[r \ {z}] = f[(r \ {z}) \ {y}] + w[y] /\ f[r \ {y}] = f[(r \ {y}) \ {z}] + w[z]
    <3> HIDE DEF z
    <3> QED
      BY <2>4, <2>6
  <2>8. (r \ {z}) \ {y} = (r \ {y}) \ {z} /\ (r \ {z}) \ {y} \in SUBSET S
    OBVIOUS
  <2>9. w[y] \in Nat /\ w[z] \in Nat /\ f[(r \ {z}) \ {y}] \in Nat
    BY <1>4, <2>4, <2>8
  <2> HIDE DEF z
  <2>10. f[r] = f[r \ {y}] + w[y]
    <3>1. f[r] = (f[(r \ {z}) \ {y}] + w[y]) + w[z] /\ f[r \ {y}] = f[(r \ {z}) \ {y}] + w[z]
      BY <2>4, <2>7, <2>8, Zenon
    <3>2. PICK a \in Nat, b \in Nat, d \in Nat : a = f[(r \ {z}) \ {y}] /\ b = w[y] /\ d = w[z]
      BY <2>9
    <3>3. f[r] = (a + b) + d /\ f[r \ {y}] + w[y] = (a + d) + b
      BY <3>1, <3>2, Zenon
    <3>4. (a + b) + d = (a + d) + b
      OBVIOUS
    <3> QED
      BY <3>3, <3>4, Zenon
  <2> QED
    BY <2>3, <2>10
<1>6. Holds(s, x)
  <2>1. Cardinality(s) \in 0..N
    BY Picked
  <2> HIDE DEF Holds
  <2> QED
    BY <1>5, <2>1
<1>7. f[s] \in Nat /\ f[s \ {x}] \in Nat
  BY <1>4
<1> QED
  BY <1>6, <1>7 DEF Adds

-----------------------------------------------------------------------------
(* Who owns what *)

LEMMA PartsAre ==
    /\ BfdOwn = {"strm", "shtab", "strs", "strtabs", "sects", "syms", "symchunks"}
    /\ Len(BfdParts) = 5 /\ \A n \in 0..5 : FirstParts(n) \subseteq BfdOwn
<1>1. Len(BfdParts) = 5 /\ DOMAIN BfdParts = 1..5
  BY DEF BfdParts
<1>2. \A i \in 1..5 : i = 1 \/ i = 2 \/ i = 3 \/ i = 4 \/ i = 5
  OBVIOUS
<1>3. {BfdParts[i] : i \in DOMAIN BfdParts} = {"strm", "shtab", "strs", "strtabs", "sects"}
  BY <1>1, <1>2 DEF BfdParts
<1>4. \A n \in 0..5 : FirstParts(n) \subseteq {BfdParts[i] : i \in DOMAIN BfdParts}
  BY <1>1 DEF FirstParts
<1> QED
  BY <1>1, <1>3, <1>4 DEF BfdOwn

\* What can be held, and what belongs to whom.
All == Released \cup BfdOwn \cup {"scratch", "group"}

LEMMA ThingsAre ==
    /\ Chunks \subseteq {"code memory", "data memory"}
    /\ {"st", "new_commons", "name", "atts", "cst", "bfd", "stream", "dummy name", "segs", "section_syms"}
         \subseteq Released
    /\ Chunks \subseteq Released
    /\ {"bfd", "stream", "scratch", "group"} \cap (BfdOwn \cup Chunks) = {}
    /\ Chunks \cap BfdOwn = {} /\ "group" \notin Released
    /\ \A k \in DOMAIN Segments : ChunkOf[k] \in Chunks
<1>1. \A k \in DOMAIN Segments : ChunkOf[k] \in {"code memory", "data memory"}
  <2>1. \A k \in DOMAIN Segments : k = 1 \/ k = 2
    BY SegmentsOK
  <2>2. ChunkOf[1] = "code memory" /\ ChunkOf[2] = "data memory"
    BY DEF ChunkOf
  <2> QED
    BY <2>1, <2>2
<1>2. Chunks \subseteq {"code memory", "data memory"}
  BY <1>1 DEF Chunks
<1>3. {"bfd", "stream", "scratch", "group"} \cap BfdOwn = {} /\ {"code memory", "data memory"} \cap BfdOwn = {}
  BY PartsAre
<1>4. \A k \in DOMAIN Segments : ChunkOf[k] \in Chunks
  BY DEF Chunks
<1> QED
  BY <1>2, <1>3, <1>4 DEF Released

\* The first segment that has no memory yet is one.
LEMMA FirstSegment ==
    ASSUME NEW todo, todo \subseteq DOMAIN Segments, todo # {}
    PROVE  /\ Min(todo) \in todo /\ Min(todo) \in DOMAIN Segments
           /\ \A k \in todo : Min(todo) <= k
<1>1. todo \in SUBSET (0..2)
  BY SegmentsOK
<1>2. \E k \in todo : \A l \in todo : k <= l
  BY <1>1, LeastNumber
<1>3. Min(todo) \in todo /\ \A k \in todo : Min(todo) <= k
  BY <1>2 DEF Min
<1> QED
  BY <1>3

Places == {"idle", "open", "attributes", "names", "symtab", "count", "alloc", "setvma", "reloc",
           "values", "cleanup", "fault", "hangs"}

Holding ==
    /\ stream \in {"none", "open", "closed", "closed twice"} /\ pc \in Places /\ held \subseteq All
    /\ Owned

\* A step that takes or hands on nothing of the bfd's, but to its end or to clean up.
LEMMA QuietHolding ==
    ASSUME Holding, pc \in Loading, stream' = stream, pc' \in Loading \cup {"cleanup", "hangs", "fault"},
           held' \subseteq All, "bfd" \in held' <=> "bfd" \in held, "stream" \in held' <=> "stream" \in held,
           "group" \in held' => "group" \in held
    PROVE  Holding'
<1>1. Loading \subseteq Places /\ {"idle", "open", "cleanup"} \cap Loading = {}
  BY DEF Loading, AfterNames, AfterSymtab, Places
<1>2. pc' \in Places /\ pc' # "idle" /\ pc' # "open"
  BY <1>1 DEF Places
<1>3. "bfd" \in held /\ "stream" \notin held /\ stream = "open" /\ "group" \notin held'
  BY <1>1 DEF Holding, Owned
<1> QED
  BY <1>2, <1>3 DEF Holding, Owned

LEMMA SearchHolding ==
    ASSUME Holding, NEW o \in Objects, Search(o)
    PROVE  Holding'
<1>1. /\ pc' \in {"cleanup", "open", "fault"} /\ held' \subseteq {"segs", "name", "stream", "scratch"}
      /\ pc' = "open" => "stream" \in held'
      /\ IF "stream" \in held' THEN stream' = "open" ELSE stream' = "none"
  BY DEF Search, Fail
<1>2. held' \subseteq All /\ held' \cap BfdOwn = {} /\ "bfd" \notin held' /\ "group" \notin held'
  BY <1>1, ThingsAre, PartsAre DEF All
<1>3. pc' \in Places /\ pc' \notin Loading /\ pc' # "idle"
  BY <1>1 DEF Places, Loading, AfterNames, AfterSymtab
<1> QED
  BY <1>1, <1>2, <1>3 DEF Holding, Owned

LEMMA OpenHolding ==
    ASSUME Holding, Open
    PROVE  Holding'
<1>1. /\ pc = "open" /\ "stream" \in held /\ "bfd" \notin held /\ stream = "open" /\ held \cap BfdOwn = {}
      /\ "group" \notin held
  BY DEF Open, Holding, Owned
<1>2. held \subseteq All /\ "group" \in All
  BY DEF Holding, All
<1>3. CASE \/ \E n \in 0..MaxParts(obj.elf) : n <= Len(BfdParts) /\ Refused(n, {})
           \/ GroupLost(obj.elf) /\ Refused(Len(BfdParts), {"group"})
  <2>1. PICK n \in 0..5, lost \in {{}, {"group"}} : Refused(n, lost) /\ (lost # {} => GroupLost(obj.elf))
    <3>1. MaxParts(obj.elf) \in Nat
      BY DEF MaxParts
    <3> QED
      BY <1>3, <3>1, PartsAre
  <2>2. /\ pc' = "cleanup" /\ stream' = stream /\ held' = ((held \cup FirstParts(n)) \ BfdOwn) \cup lost
        /\ obj' = obj
    BY <2>1 DEF Refused, Fail, bfd_cleanup, pmelf_delstrm
  <2>3. held' = held \cup lost
    BY <1>1, <2>2, PartsAre
  <2>4. held' \subseteq All /\ held' \cap BfdOwn = {} /\ "bfd" \notin held' /\ "stream" \in held'
    BY <1>1, <1>2, <2>3, ThingsAre
  <2>5. "group" \in held' => GroupLost(obj'.elf)
    BY <1>1, <2>1, <2>2, <2>3
  <2> QED
    BY <1>1, <2>2, <2>4, <2>5 DEF Holding, Owned, Places, Loading, AfterNames, AfterSymtab
<1>4. CASE /\ held' = (held \cup FirstParts(Len(BfdParts)) \cup {"bfd"}) \ {"stream"}
           /\ IF Accepted(obj.elf) THEN pc' = "attributes" ELSE Fail
           /\ UNCHANGED stream
  <2>1. held' \subseteq All /\ "bfd" \in held' /\ "stream" \notin held' /\ stream' = "open" /\ "group" \notin held'
    <3>1. PICK parts \in SUBSET BfdOwn : held' = (held \cup parts \cup {"bfd"}) \ {"stream"}
      BY <1>4, PartsAre
    <3>2. "bfd" \in All /\ BfdOwn \subseteq All /\ "group" \notin BfdOwn
      BY ThingsAre DEF All
    <3> QED
      BY <1>1, <1>2, <1>4, <3>1, <3>2
  <2>2. pc' \in {"attributes", "cleanup"}
    BY <1>4 DEF Fail
  <2> QED
    BY <2>1, <2>2 DEF Holding, Owned, Places
<1> QED
  BY <1>3, <1>4 DEF Open

\* The bfd closes its stream; a stream that no bfd has is closed by the linker.
LEMMA CleanupHolding ==
    ASSUME Holding, Cleanup
    PROVE  Holding'
<1>1. pc' = "idle" /\ held' = (IF "bfd" \in held THEN held \ BfdOwn ELSE held) \ Released
  BY DEF Cleanup, bfd_cleanup
<1>2. held' \subseteq {"scratch", "group"} /\ {"bfd", "stream"} \cap held' = {} /\ held' \cap BfdOwn = {}
  <2>1. held \subseteq All /\ (held \cap BfdOwn # {} => "bfd" \in held)
    BY DEF Holding, Owned
  <2>2. held' \subseteq {"scratch", "group"}
    BY <1>1, <2>1 DEF All
  <2> QED
    BY <2>2, ThingsAre
<1>3. stream' \in {"none", "closed"}
  <2> DEFINE s == IF "bfd" \in held THEN pmelf_delstrm(stream, FALSE) ELSE stream
  <2>1. stream' = IF "stream" \in held THEN Closed(s) ELSE s
    BY DEF Cleanup
  <2>2. CASE "stream" \in held
    <3>1. "bfd" \notin held /\ stream = "open"
      BY <2>2 DEF Holding, Owned
    <3> QED
      BY <2>1, <2>2, <3>1 DEF Closed
  <2>3. CASE "stream" \notin held /\ "bfd" \in held
    <3>1. stream = "open"
      BY <2>3 DEF Holding, Owned
    <3> QED
      BY <2>1, <2>3, <3>1 DEF Closed, pmelf_delstrm
  <2>4. CASE "stream" \notin held /\ "bfd" \notin held
    BY <2>1, <2>4 DEF Holding, Owned
  <2> QED
    BY <2>2, <2>3, <2>4
<1>4. held' \subseteq All /\ pc' \in Places /\ pc' \notin Loading
  BY <1>1, <1>2 DEF All, Places, Loading, AfterNames, AfterSymtab
<1> QED
  BY <1>1, <1>2, <1>3, <1>4 DEF Holding, Owned, Lost

\* Nothing is given back twice, and nothing else is lost, whatever happens to a
\* load.
LEMMA StepHolding ==
    ASSUME Holding, DOMAIN seg = (IF pc = "idle" THEN {} ELSE DOMAIN Segments), [Next]_vars
    PROVE  Holding'
<1>1. CASE UNCHANGED vars
  BY <1>1 DEF Holding, Owned, vars
<1>2. ASSUME NEW o \in Objects, Search(o)
      PROVE  Holding'
  BY <1>2, SearchHolding
<1>3. CASE Open
  BY <1>3, OpenHolding
<1>4. CASE Attributed
  <2>1. pc = "attributes" /\ pc' \in {"hangs", "names", "cleanup"} /\ stream' = stream
        /\ held' \in {held, held \cup {"atts"}}
    BY <1>4 DEF Attributed
  <2> QED
    BY <2>1, QuietHolding, ThingsAre DEF All, Holding, Loading, AfterNames, AfterSymtab
<1>5. CASE Names
  <2>1. pc = "names" /\ pc' \in {"symtab", "cleanup", "hangs"} /\ stream' = stream
        /\ held' \in {held, held \cup {"section_syms"}}
    BY <1>5 DEF Names, Fail
  <2> QED
    BY <2>1, QuietHolding, ThingsAre DEF All, Holding, Loading, AfterNames, AfterSymtab
<1>6. CASE slurp_symtab
  <2>1. PICK table \in {{}, {"cst"}} :
        /\ pc = "symtab" /\ pc' \in {"count", "cleanup", "fault"} /\ stream' = stream
        /\ held' \in {held, held \cup {"syms", "symchunks"}, held \cup {"syms", "symchunks", "new_commons"},
                      held \cup {"st", "syms", "symchunks"} \cup table,
                      held \cup {"syms", "symchunks", "new_commons", "dummy name"} \cup table,
                      held \cup {"syms", "symchunks", "new_commons", "dummy name", "st"} \cup table}
    <3>1. CASE Fail /\ held' \in {held, held \cup {"syms", "symchunks"} \cup
                                            (IF Commons = {} THEN {} ELSE {"new_commons"})}
      BY <1>6, <3>1 DEF slurp_symtab, Fail
    <3>2. CASE TableFault
      BY <1>6, <3>2 DEF slurp_symtab, TableFault
    <3>3. NewTables \subseteq {{}, {"cst"}}
      BY DEF NewTables
    <3>4. CASE pc' = "count" /\ \E table \in NewTables : held' = held \cup {"st", "syms", "symchunks"} \cup table
      BY <1>6, <3>3, <3>4 DEF slurp_symtab
    <3>5. CASE \E table \in NewTables :
               \/ Fail /\ held' = held \cup {"syms", "symchunks", "new_commons", "dummy name"} \cup table
               \/ pc' = "count" /\ held' = held \cup {"syms", "symchunks", "new_commons", "dummy name", "st"} \cup table
      BY <1>6, <3>3, <3>5 DEF slurp_symtab, Fail
    <3> QED
      BY <1>6, <3>1, <3>2, <3>4, <3>5 DEF slurp_symtab
  <2>2. PICK more \in SUBSET {"syms", "symchunks", "new_commons", "cst", "st", "dummy name"} : held' = held \cup more
    <3> DEFINE two == {"syms", "symchunks"}
    <3>1. PICK more \in {{}, two, two \cup {"new_commons"}, {"st"} \cup two \cup table,
                         two \cup {"new_commons", "dummy name"} \cup table,
                         two \cup {"new_commons", "dummy name", "st"} \cup table} : held' = held \cup more
      BY <2>1
    <3> QED
      BY <3>1
  <2>3. more \subseteq All /\ {"bfd", "stream", "group"} \cap more = {}
    BY ThingsAre, PartsAre DEF All
  <2> QED
    BY <2>1, <2>2, <2>3, QuietHolding DEF Holding, Loading, AfterNames, AfterSymtab
<1>7. CASE s_count \/ s_setvma \/ s_reloc
  <2>1. pc \in Loading /\ pc' \in Loading \cup {"cleanup"} /\ stream' = stream /\ held' = held
    BY <1>7 DEF s_count, s_setvma, s_reloc, Fail, Loading, AfterNames, AfterSymtab
  <2> QED
    BY <2>1, QuietHolding DEF Holding
<1>8. CASE cexpSegsAlloc
  <2>1. pc = "alloc" /\ pc' \in {"alloc", "setvma", "cleanup"} /\ stream' = stream
    BY <1>8 DEF cexpSegsAlloc, Fail
  <2>2. \E more \in SUBSET Chunks : held' = held \cup more
    <3> DEFINE todo == {j \in DOMAIN seg : seg[j].chunk = None}
    <3>1. CASE held' = held
      <4>1. held' = held \cup {}
        BY <3>1
      <4> QED
        BY <4>1
    <3>2. CASE todo # {} /\ held' = held \cup {ChunkOf[Min(todo)]}
      <4>1. Min(todo) \in DOMAIN Segments
        BY <2>1, <3>2, FirstSegment
      <4> QED
        BY <3>2, <4>1, ThingsAre
    <3> QED
      BY <1>8, <3>1, <3>2 DEF cexpSegsAlloc
  <2> QED
    BY <2>1, <2>2, QuietHolding, ThingsAre DEF Holding, All, Loading, AfterNames, AfterSymtab
<1>9. CASE Finish
  <2>1. /\ pc = "values" /\ pc' \in {"cleanup", "fault"} /\ stream' = stream
        /\ held' \in {held, held \ (Kept \cup Chunks)}
    BY <1>9 DEF Finish, Fail
  <2>2. {"bfd", "stream"} \cap (Kept \cup Chunks) = {}
    BY ThingsAre DEF Kept
  <2> QED
    BY <2>1, <2>2, QuietHolding DEF Holding, Loading, AfterNames, AfterSymtab
<1>10. CASE Cleanup
  BY <1>10, CleanupHolding
<1>11. CASE SetForced \/ \E i \in DOMAIN mods : Unload(i)
  BY <1>11 DEF SetForced, Unload, Holding, Owned
<1> QED
  BY <1>1, <1>2, <1>3, <1>4, <1>5, <1>6, <1>7, <1>8, <1>9, <1>10, <1>11 DEF Next, LoadStep

-----------------------------------------------------------------------------
(* What files show *)

\* The length of a function that is a sequence.
LEMMA LengthOf ==
    ASSUME NEW n \in Nat, NEW s, s = [i \in 1..n |-> s[i]]
    PROVE  Len(s) = n /\ DOMAIN s = 1..n /\ s \in Seq(ToSet(s))
<1>1. s \in Seq({s[i] : i \in 1..n}) /\ DOMAIN s = 1..n
  OBVIOUS
<1>2. Len(s) \in Nat /\ DOMAIN s = 1..Len(s)
  BY <1>1
<1>3. n \in 1..Len(s) \/ n = 0
  BY <1>1, <1>2
<1>4. Len(s) \in 1..n \/ Len(s) = 0
  BY <1>1, <1>2
<1>5. {s[i] : i \in 1..n} = ToSet(s)
  BY <1>1 DEF ToSet
<1> QED
  BY <1>1, <1>2, <1>3, <1>4, <1>5

\* And its indices.
LEMMA DomainOf ==
    ASSUME NEW s, s \in Seq(ToSet(s))
    PROVE  /\ DOMAIN s = 1..Len(s) /\ Len(s) \in Nat /\ s = [i \in 1..Len(s) |-> s[i]]
           /\ \A i \in DOMAIN s : s[i] \in ToSet(s)
BY DEF ToSet

\* One more element.
LEMMA Appended ==
    ASSUME NEW s, s \in Seq(ToSet(s)), NEW d
    PROVE  LET t == Append(s, d) IN
           /\ Len(t) = Len(s) + 1 /\ t \in Seq(ToSet(t)) /\ DOMAIN t = 1..(Len(s) + 1)
           /\ \A i \in DOMAIN s : t[i] = s[i] /\ i \in DOMAIN t
           /\ t[Len(s) + 1] = d /\ ToSet(t) = ToSet(s) \cup {d}
<1> DEFINE S == ToSet(s) \cup {d}
           t == Append(s, d)
<1>1. /\ DOMAIN s = 1..Len(s) /\ Len(s) \in Nat /\ s \in Seq(S) /\ d \in S
      /\ \A x \in ToSet(s) : \E i \in DOMAIN s : x = s[i]
  <2>1. s \in Seq(S)
    BY DomainOf
  <2> QED
    BY <2>1, DomainOf DEF ToSet
<1> HIDE DEF S
<1>2. /\ t \in Seq(S) /\ Len(t) = Len(s) + 1 /\ DOMAIN t = 1..(Len(s) + 1)
      /\ \A i \in 1..Len(s) : t[i] = s[i]
      /\ t[Len(s) + 1] = d
  BY <1>1
<1>3. t = [i \in 1..(Len(s) + 1) |-> t[i]]
  <2>1. t = [i \in 1..Len(t) |-> t[i]]
    <3> HIDE DEF t
    <3> QED
      BY <1>2
  <2> HIDE DEF t
  <2> QED
    BY <1>2, <2>1
<1>4. t \in Seq(ToSet(t))
  <2> HIDE DEF t
  <2> QED
    BY <1>1, <1>3, LengthOf
<1>5. \A i \in DOMAIN s : i \in DOMAIN t
  BY <1>1, <1>2
<1> HIDE DEF t
<1>6. ToSet(t) = ToSet(s) \cup {d}
  <2>1. ASSUME NEW i \in DOMAIN t
        PROVE  t[i] \in ToSet(s) \cup {d}
    <3>1. i \in DOMAIN s \/ i = Len(s) + 1
      BY <1>1, <1>2
    <3> QED
      BY <1>1, <1>2, <3>1 DEF ToSet
  <2>2. ASSUME NEW x \in ToSet(s) \cup {d}
        PROVE  \E i \in DOMAIN t : x = t[i]
    <3>1. CASE x = d
      <4>1. Len(s) + 1 \in DOMAIN t
        BY <1>1, <1>2
      <4> QED
        BY <1>2, <3>1, <4>1
    <3>2. CASE x \in ToSet(s)
      BY <1>1, <1>2, <1>5, <3>2
    <3> QED
      BY <3>1, <3>2
  <2> QED
    BY <2>1, <2>2 DEF ToSet
<1> QED
  BY <1>1, <1>2, <1>4, <1>5, <1>6 DEF t

\* Numbers of a file are numbers.
LEMMA ObjectFacts ==
    ASSUME NEW o \in Objects
    PROVE  /\ DOMAIN o.shdrs = 1..Len(o.shdrs) /\ Len(o.shdrs) \in Nat
           /\ DOMAIN o.syms = 1..Len(o.syms) /\ Len(o.syms) \in Nat
           /\ \A i \in DOMAIN o.shdrs :
                /\ o.shdrs[i].size \in Nat /\ o.shdrs[i].addr \in Nat
                /\ o.shdrs[i].align \in Alignments(o)
           /\ \A i \in DOMAIN o.syms : o.syms[i].size \in Nat
           /\ Alignments(o) \subseteq Nat /\ 0 \in Alignments(o)
           /\ \A a, b \in Alignments(o) : 2^a \in Nat \ {0} /\ (a <= b => 2^b % 2^a = 0)
<1>1. ObjectOK(o)
  BY ObjectsOK
<1>2. \A i \in DOMAIN o.shdrs : o.shdrs[i] \in ToSet(o.shdrs)
  BY DEF ToSet
<1>3. \A i \in DOMAIN o.syms : o.syms[i] \in ToSet(o.syms)
  BY DEF ToSet
<1>4. /\ DOMAIN o.shdrs = 1..Len(o.shdrs) /\ Len(o.shdrs) \in Nat
      /\ DOMAIN o.syms = 1..Len(o.syms) /\ Len(o.syms) \in Nat
  <2>1. o.shdrs \in Seq(ToSet(o.shdrs)) /\ o.syms \in Seq(ToSet(o.syms))
    BY <1>1 DEF ObjectOK
  <2> QED
    BY <2>1
<1>5. \A i \in DOMAIN o.shdrs : o.shdrs[i].size \in Nat /\ o.shdrs[i].addr \in Nat
  BY <1>1, <1>2 DEF ObjectOK
<1>6. \A i \in DOMAIN o.syms : o.syms[i].size \in Nat
  BY <1>1, <1>3 DEF ObjectOK
<1>7. 0 \in Alignments(o) /\ \A i \in DOMAIN o.shdrs : o.shdrs[i].align \in Alignments(o)
  BY DEF Alignments
<1>8. /\ Alignments(o) \subseteq Nat
      /\ \A a, b \in Alignments(o) : 2^a \in Nat \ {0} /\ (a <= b => 2^b % 2^a = 0)
  BY <1>1 DEF ObjectOK
<1> QED
  BY <1>4, <1>5, <1>6, <1>7, <1>8

\* The alignment of a symbol is one of the file's.
LEMMA SymbolFacts ==
    ASSUME NEW o \in Objects, NEW x, x = ObjectOf(o), NEW i \in DOMAIN o.syms
    PROVE  /\ x.elf = o /\ DOMAIN x.syms = DOMAIN o.syms
           /\ elf_get_align(x.syms[i]) \in Alignments(o) /\ CommonSize(x.syms[i]) \in Nat
<1>1. x.elf = o /\ x.syms = bfd_canonicalize_symtab(o)
  BY DEF ObjectOf
<1>2. DOMAIN x.syms = DOMAIN o.syms
  BY <1>1 DEF bfd_canonicalize_symtab
<1>3. /\ x.syms[i].kind = SymbolKind(o, o.syms[i]) /\ x.syms[i].size = o.syms[i].size
      /\ x.syms[i].align = IF o.syms[i].shndx = SHN_COMMON THEN o.syms[i].value ELSE 0
  BY <1>1 DEF bfd_canonicalize_symtab
<1>4. x.syms[i].align \in Alignments(o)
  BY <1>3, ObjectFacts DEF Alignments
<1>5. elf_get_align(x.syms[i]) \in Alignments(o)
  BY <1>4, ObjectFacts DEF elf_get_align
<1>6. CommonSize(x.syms[i]) \in Nat
  BY <1>3, ObjectFacts DEF CommonSize
<1> QED
  BY <1>1, <1>2, <1>5, <1>6

\* Only flags and address of a section ever change.
LEMMA SectionIs ==
    ASSUME NEW f, NEW i, NEW s, SectionOf(s, elf2bfdsec(f, i))
    PROVE  /\ s = [name |-> s.name, size |-> s.size, align |-> s.align, flags |-> s.flags,
                   members |-> s.members, vma |-> s.vma]
           /\ s.name = SectionName(f, i) /\ s.size = f.shdrs[i].size /\ s.align = f.shdrs[i].align
           /\ s.flags \in {Flags(f, i), Flags(f, i) \ {"alloc"}}
           /\ s.members = elf2bfdsec(f, i).members
<1> DEFINE h == elf2bfdsec(f, i)
<1>1. /\ h = [name |-> h.name, size |-> h.size, align |-> h.align, flags |-> h.flags,
             members |-> h.members, vma |-> h.vma]
      /\ h.name = SectionName(f, i) /\ h.size = f.shdrs[i].size /\ h.align = f.shdrs[i].align
      /\ h.flags = Flags(f, i)
  BY DEF elf2bfdsec
<1>2. s = [h EXCEPT !.flags = s.flags, !.vma = s.vma] /\ s.flags \in {h.flags, h.flags \ {"alloc"}}
  BY DEF SectionOf
<1> HIDE DEF h
<1>3. s = [name |-> h.name, size |-> h.size, align |-> h.align, flags |-> s.flags,
           members |-> h.members, vma |-> s.vma]
  BY <1>1, <1>2
<1> QED
  BY <1>1, <1>2, <1>3 DEF h

\* A section is in a segment that there is.
LEMMA SegmentOf ==
    ASSUME NEW s
    PROVE  segOf(s) \in DOMAIN Segments
BY SegmentsOK DEF segOf

\* Sections of a load have sizes and alignments.
LEMMA SectionFacts ==
    ASSUME FileShown, CommonsKept, pc \in AfterNames, NEW i \in DOMAIN sect
    PROVE  /\ sect[i].size \in Nat /\ 2^sect[i].align \in Nat \ {0}
           /\ i \in DOMAIN obj.elf.shdrs => (Alloc(sect[i]) => sect[i].size > 0)
           /\ i \notin DOMAIN obj.elf.shdrs => i = Len(sect) /\ common # <<>> /\ ~IsEh(sect[i])
<1>1. /\ obj.elf \in Objects /\ sect \in Seq(ToSet(sect))
      /\ Len(sect) = Len(obj.elf.shdrs) + (IF common = <<>> THEN 0 ELSE 1)
      /\ \A j \in DOMAIN obj.elf.shdrs : SectionOf(sect[j], elf2bfdsec(obj.elf, j))
  BY DEF FileShown, Loading, AfterNames, AfterSymtab
<1>2. /\ DOMAIN obj.elf.shdrs = 1..Len(obj.elf.shdrs) /\ Len(obj.elf.shdrs) \in Nat
      /\ DOMAIN sect = 1..Len(sect) /\ Len(sect) \in Nat
  BY <1>1, ObjectFacts, DomainOf
<1>3. CASE i \in DOMAIN obj.elf.shdrs
  <2>1. sect[i].size = obj.elf.shdrs[i].size /\ sect[i].align = obj.elf.shdrs[i].align
    <3>1. SectionOf(sect[i], elf2bfdsec(obj.elf, i))
      BY <1>1, <1>3
    <3> QED
      BY <3>1, SectionIs
  <2>2. Alloc(sect[i]) => sect[i].size > 0
    BY <1>3 DEF FileShown
  <2>3. sect[i].size \in Nat /\ 2^sect[i].align \in Nat \ {0}
    <3>1. obj.elf.shdrs[i].size \in Nat /\ obj.elf.shdrs[i].align \in Alignments(obj.elf)
      BY <1>1, <1>3, ObjectFacts
    <3>2. 2^(obj.elf.shdrs[i].align) \in Nat \ {0}
      BY <1>1, <3>1, ObjectFacts
    <3> QED
      BY <2>1, <3>1, <3>2
  <2> QED
    BY <1>3, <2>2, <2>3
<1>4. CASE i \notin DOMAIN obj.elf.shdrs
  <2>1. i = Len(sect) /\ common # <<>>
    <3>1. PICK n : n = Len(obj.elf.shdrs)
      OBVIOUS
    <3>2. n \in Nat /\ i \in 1..Len(sect) /\ i \notin 1..n
      BY <1>1, <1>2, <1>4, <3>1
    <3>3. CASE common = <<>>
      <4>1. Len(sect) = n + 0
        BY <1>1, <3>1, <3>3
      <4> QED
        BY <3>2, <4>1
    <3>4. CASE common # <<>>
      <4>1. Len(sect) = n + 1
        BY <1>1, <3>1, <3>4
      <4> QED
        BY <3>2, <3>4, <4>1
    <3> QED
      BY <3>3, <3>4
  <2>2. pc \in AfterSymtab
    BY <2>1 DEF FileShown, AfterNames
  <2>3. CommonsRight(obj, sect, common)
    BY <2>1, <2>2 DEF CommonsKept
  <2>4. sect[i].size \in Nat /\ 2^sect[i].align \in Nat \ {0} /\ sect[i].name = ".dummy"
    BY <2>1, <2>3 DEF CommonsRight
  <2> QED
    BY <1>4, <2>1, <2>4 DEF IsEh
<1> QED
  BY <1>3, <1>4

-----------------------------------------------------------------------------
(* FileShown *)

LEMMA OpenShown ==
    ASSUME FileShown, Open
    PROVE  FileShown'
<1>1. pc = "open" /\ obj.elf \in Objects /\ common = <<>> /\ common' = common
  BY DEF Open, FileShown
<1>2. CASE \E n, lost : Refused(n, lost)
  <2>1. pc' = "cleanup" /\ obj' = obj
    BY <1>2 DEF Refused, Fail
  <2> QED
    BY <1>1, <2>1 DEF FileShown, Loading, AfterNames, AfterSymtab
<1>3. CASE /\ MaxParts(obj.elf) > Len(BfdParts)
           /\ pc' \in {"attributes", "cleanup"}
           /\ obj' = ObjectOf(obj.elf) /\ sect' = Sections(obj.elf)
  <2>1. obj'.elf = obj.elf
    BY <1>3 DEF ObjectOf
  <2>2. SectionsFit(obj.elf) /\ MarksFit(obj.elf)
    BY <1>3, PartsAre DEF MaxParts
  <2>3. DOMAIN obj.elf.shdrs = 1..Len(obj.elf.shdrs) /\ Len(obj.elf.shdrs) \in Nat
    BY <1>1, ObjectFacts
  <2>4. DOMAIN sect' = DOMAIN obj.elf.shdrs /\ \A i \in DOMAIN obj.elf.shdrs : sect'[i] = elf2bfdsec(obj.elf, i)
    BY <1>3 DEF Sections
  <2>5. Len(sect') = Len(obj.elf.shdrs) /\ sect' \in Seq(ToSet(sect'))
    <3>1. sect' = [i \in 1..Len(obj.elf.shdrs) |-> sect'[i]]
      BY <1>3, <2>3 DEF Sections
    <3> QED
      BY <2>3, <3>1, LengthOf
  <2>6. \A i \in DOMAIN obj.elf.shdrs : SectionOf(sect'[i], elf2bfdsec(obj.elf, i))
    BY <2>4 DEF SectionOf, elf2bfdsec
  <2>7. pc' # "idle" => obj'.elf \in Objects
    BY <1>1, <2>1
  <2>8. pc' \in Loading =>
         /\ obj' = ObjectOf(obj'.elf) /\ SectionsFit(obj'.elf) /\ MarksFit(obj'.elf)
         /\ sect' \in Seq(ToSet(sect'))
         /\ Len(sect') = Len(obj'.elf.shdrs) + (IF common' = <<>> THEN 0 ELSE 1)
         /\ \A i \in DOMAIN obj'.elf.shdrs : SectionOf(sect'[i], elf2bfdsec(obj'.elf, i))
    BY <1>1, <1>3, <2>1, <2>2, <2>3, <2>4, <2>5, <2>6
  <2>9. pc' \notin AfterNames
    BY <1>3 DEF AfterNames, AfterSymtab
  <2> QED
    BY <1>1, <1>3, <2>1, <2>7, <2>8, <2>9 DEF FileShown, AfterNames
<1> QED
  BY <1>2, <1>3 DEF Open, Fail

\* Dropping sections, which drops the empty ones.
LEMMA NamesShown ==
    ASSUME FileShown, Names
    PROVE  FileShown' /\ DOMAIN sect' = DOMAIN sect /\ \A i \in DOMAIN sect : sect'[i].vma = sect[i].vma
<1> DEFINE f == obj.elf
           ss == [i \in DOMAIN sect |-> s_nsects(sect[i])]
<1>1. /\ pc = "names" /\ f \in Objects /\ common = <<>> /\ common' = common /\ obj' = obj
      /\ pc' \in {"symtab", "cleanup", "hangs"} /\ sect' \in {s_eliminate_linkonce(f, ss), ss}
  BY DEF Names, Fail, FileShown
<1>2. /\ obj = ObjectOf(f) /\ SectionsFit(f) /\ MarksFit(f) /\ sect \in Seq(ToSet(sect))
      /\ Len(sect) = Len(f.shdrs) + (IF common = <<>> THEN 0 ELSE 1)
      /\ sect = Sections(f)
  BY <1>1 DEF FileShown, Loading
<1>3. DOMAIN f.shdrs = 1..Len(f.shdrs) /\ Len(f.shdrs) \in Nat
  BY <1>1, ObjectFacts
<1>4. DOMAIN sect = DOMAIN f.shdrs /\ Len(sect) = Len(f.shdrs)
  BY <1>1, <1>2, <1>3, DomainOf DEF Sections
<1>5. DOMAIN ss = DOMAIN sect /\ \A i \in DOMAIN sect : ss[i] \in {sect[i], Drop(sect[i])} /\ (Alloc(ss[i]) => sect[i].size # 0)
  BY DEF s_nsects, Drop, Alloc
<1> HIDE DEF ss
<1>6. DOMAIN sect' = DOMAIN sect /\ \A i \in DOMAIN sect : sect'[i] \in {ss[i], Drop(ss[i])}
  BY <1>1, <1>5 DEF s_eliminate_linkonce
<1>7. Len(sect') = Len(sect) /\ sect' \in Seq(ToSet(sect'))
  <2>1. sect' = [i \in 1..Len(f.shdrs) |-> sect'[i]]
    <3>1. PICK gone : s_eliminate_linkonce(f, ss) = [i \in DOMAIN ss |-> IF i \in gone THEN Drop(ss[i]) ELSE ss[i]]
      BY DEF s_eliminate_linkonce
    <3>2. ss = [i \in DOMAIN ss |-> ss[i]]
      BY DEF ss
    <3>3. PICK t : t = sect' /\ (t = ss \/ t = [i \in DOMAIN ss |-> IF i \in gone THEN Drop(ss[i]) ELSE ss[i]])
      BY <1>1, <3>1
    <3>4. t = [i \in DOMAIN ss |-> t[i]]
      BY <3>2, <3>3
    <3> QED
      BY <1>3, <1>4, <1>5, <3>3, <3>4
  <2> QED
    BY <1>3, <1>4, <2>1, LengthOf
<1>8. ASSUME NEW i \in DOMAIN f.shdrs
      PROVE  /\ SectionOf(sect'[i], elf2bfdsec(f, i)) /\ (Alloc(sect'[i]) => sect'[i].size > 0)
             /\ sect'[i].vma = sect[i].vma
  <2>1. sect[i] = elf2bfdsec(f, i)
    BY <1>2 DEF Sections
  <2> DEFINE h == elf2bfdsec(f, i)
  <2>2. h = [name |-> h.name, size |-> h.size, align |-> h.align, flags |-> h.flags, members |-> h.members, vma |-> h.vma]
    BY DEF elf2bfdsec
  <2>3. h.size \in Nat
    BY <1>1, ObjectFacts DEF elf2bfdsec
  <2> HIDE DEF h
  <2>4. Drop(h) = [h EXCEPT !.flags = h.flags \ {"alloc"}] /\ Drop(Drop(h)) = Drop(h) /\ ~Alloc(Drop(h))
        /\ Drop(h).size = h.size /\ Drop(h).vma = h.vma
    BY <2>2 DEF Drop, Alloc
  <2>5. SectionOf(Drop(h), h) /\ SectionOf(h, h)
    BY <2>2, <2>4 DEF SectionOf
  <2>6. sect'[i] \in {h, Drop(h)} /\ (Alloc(sect'[i]) => h.size # 0)
    <3>1. i \in DOMAIN sect /\ sect[i] = h
      BY <1>4, <2>1 DEF h
    <3>2. ss[i] \in {h, Drop(h)} /\ sect'[i] \in {ss[i], Drop(ss[i])} /\ (Alloc(ss[i]) => h.size # 0)
      BY <1>5, <1>6, <3>1
    <3>3. CASE ss[i] = h
      BY <2>4, <3>2, <3>3
    <3>4. CASE ss[i] = Drop(h)
      BY <2>4, <3>2, <3>4
    <3> QED
      BY <3>2, <3>3, <3>4
  <2>7. sect'[i].vma = sect[i].vma
    BY <2>1, <2>4, <2>6 DEF h
  <2> QED
    BY <2>3, <2>4, <2>5, <2>6, <2>7 DEF h
<1> HIDE DEF f
<1>9. FileShown'
  <2>1. obj'.elf = f
    BY <1>1 DEF f
  <2>2. pc' \notin AfterSymtab /\ pc' # "idle"
    BY <1>1 DEF AfterSymtab
  <2> QED
    BY <1>1, <1>2, <1>3, <1>4, <1>6, <1>7, <1>8, <2>1, <2>2 DEF FileShown
<1> QED
  BY <1>4, <1>6, <1>8, <1>9

-----------------------------------------------------------------------------
(* The places of commons *)

\* The recursion that places the commons.
PlacedAt(e, n, order) ==
    LET al(i) == elf_get_align(obj.syms[order[i]])
        sz(i) == CommonSize(obj.syms[order[i]]) IN
    /\ e[0] = 0 /\ \A i \in 1..n : e[i] = align_power(e[i - 1], al(i)) + sz(i)
    /\ Placed(order) = [i \in DOMAIN order |-> [sym |-> order[i], off |-> e[i] - sz(i), size |-> sz(i)]]

LEMMA PlacedIs ==
    ASSUME NEW n \in Nat, NEW order, order = [i \in 1..n |-> order[i]],
           \A i \in 1..n : /\ CommonSize(obj.syms[order[i]]) \in Nat
                           /\ 2^elf_get_align(obj.syms[order[i]]) \in Nat \ {0}
    PROVE  \E e \in [0..n -> Nat] : PlacedAt(e, n, order)
<1> DEFINE al(i) == elf_get_align(obj.syms[order[i]])
           sz(i) == CommonSize(obj.syms[order[i]])
           next(x) == align_power(x[2], al(x[1])) + sz(x[1])
           g == [x \in (1..n) \X Nat |-> next(x)]
           F(f) == [i \in 0..n |-> IF i = 0 THEN 0 ELSE align_power(f[i - 1], al(i)) + sz(i)]
           e == CHOOSE f : f = F(f)
<1>1. g \in [(1..n) \X Nat -> Nat]
  <2>1. ASSUME NEW i \in 1..n, NEW x \in Nat
        PROVE  align_power(x, al(i)) + sz(i) \in Nat
    <3>1. align_power(x, al(i)) \in Nat /\ sz(i) \in Nat
      <4> HIDE DEF al, sz
      <4>1. 2^al(i) \in Nat \ {0} /\ sz(i) \in Nat
        BY DEF al, sz
      <4> QED
        BY <4>1, Aligned_power
    <3> QED
      BY <3>1
  <2>2. ASSUME NEW x \in (1..n) \X Nat
        PROVE  next(x) \in Nat
    <3> HIDE DEF al, sz
    <3>1. x[1] \in 1..n /\ x[2] \in Nat
      OBVIOUS
    <3> QED
      BY <2>1, <3>1
  <2> HIDE DEF next
  <2> QED
    BY <2>2
<1>2. ASSUME NEW i \in 1..n, NEW x \in Nat
      PROVE  g[<<i, x>>] = align_power(x, al(i)) + sz(i)
  <2>1. <<i, x>> \in (1..n) \X Nat /\ <<i, x>>[1] = i /\ <<i, x>>[2] = x
    OBVIOUS
  <2>2. g[<<i, x>>] = next(<<i, x>>)
    <3> HIDE DEF next
    <3> QED
      BY <2>1
  <2> HIDE DEF g, al, sz
  <2> QED
    BY <2>1, <2>2
<1> HIDE DEF g, next, al, sz, F, e
<1>3. PICK f \in [0..n -> Nat] : f[0] = 0 /\ \A i \in 1..n : f[i] = g[<<i, f[i - 1]>>]
  <2>1. PICK h \in [(1..n) \X Nat -> Nat] : h = g
    BY <1>1
  <2>2. \E f \in [0..n -> Nat] : Iterates(f, n, 0, h)
    BY Recursion
  <2> QED
    BY <2>1, <2>2 DEF Iterates
<1> USE DEF F, e
<1>4. \A i \in 1..n : f[i] = align_power(f[i - 1], al(i)) + sz(i)
  <2>1. \A i \in 1..n : f[i - 1] \in Nat
    OBVIOUS
  <2> QED
    BY <1>2, <1>3, <2>1
<1>5. f = F(f)
  BY <1>3, <1>4
<1>6. e = F(e)
  <2> HIDE DEF F
  <2> QED
    BY <1>5
<1>7. ASSUME NEW i \in 0..n
      PROVE  e[i] = IF i = 0 THEN 0 ELSE align_power(e[i - 1], al(i)) + sz(i)
  <2> HIDE DEF e
  <2> QED
    BY <1>6
<1>8. e \in [0..n -> Nat]
  <2> HIDE DEF e
  <2> DEFINE T == {m \in 0..n : e[m] \notin Nat}
  <2>1. T = {}
    <3>1. SUFFICES ASSUME T # {}
                   PROVE  FALSE
      OBVIOUS
    <3>2. T \in SUBSET (0..n)
      OBVIOUS
    <3>3. PICK m \in T : \A j \in T : m <= j
      <4> HIDE DEF T
      <4> QED
        BY <3>1, <3>2, LeastNumber
    <3>4. m \in 1..n /\ m - 1 \in 0..n
      BY <1>7
    <3>5. e[m - 1] \in Nat
      BY <3>3, <3>4
    <3>6. e[m] = g[<<m, e[m - 1]>>]
      BY <1>2, <1>7, <3>4, <3>5
    <3>7. e[m] \in Nat
      BY <1>1, <3>4, <3>5, <3>6
    <3> QED
      BY <3>7
  <2>2. DOMAIN e = 0..n /\ e = [i \in 0..n |-> e[i]]
    BY <1>6
  <2>3. \A i \in 0..n : e[i] \in Nat
    BY <2>1
  <2> QED
    BY <2>2, <2>3
<1>9. Len(order) = n
  BY LengthOf
<1>10. Placed(order) = [i \in DOMAIN order |-> [sym |-> order[i], off |-> e[i] - sz(i), size |-> sz(i)]]
  BY <1>9 DEF Placed, al, sz
<1> HIDE DEF e
<1>11. e[0] = 0 /\ \A i \in 1..n : e[i] = align_power(e[i - 1], al(i)) + sz(i)
  BY <1>7
<1> QED
  BY <1>8, <1>10, <1>11 DEF al, sz, PlacedAt

\* Sequences of all of a set.
LEMMA OrderIs ==
    ASSUME NEW S, IsFiniteSet(S), NEW order \in SetToSeqs(S)
    PROVE  /\ Cardinality(S) \in Nat /\ order \in [1..Cardinality(S) -> S]
           /\ Len(order) = Cardinality(S) /\ DOMAIN order = 1..Len(order) /\ order \in Seq(ToSet(order))
           /\ S # {} => Cardinality(S) \in Nat \ {0}
           /\ \A i, j \in DOMAIN order : i # j => order[i] # order[j]
<1>1. Cardinality(S) \in Nat
  BY FS_CardinalityType
<1>2. order \in [1..Cardinality(S) -> S] /\ \A i, j \in 1..Cardinality(S) : i # j => order[i] # order[j]
  BY DEF SetToSeqs
<1>3. order = [i \in 1..Cardinality(S) |-> order[i]]
  BY <1>2
<1>4. S # {} => Cardinality(S) # 0
  BY FS_EmptySet
<1> QED
  BY <1>1, <1>2, <1>3, <1>4, LengthOf

\* make_new_commons makes room for each, as it is to be aligned.
LEMMA CommonsMade ==
    ASSUME NEW o \in Objects, obj = ObjectOf(o), sect \in Seq(ToSet(sect)), Commons # {},
           NEW order \in SetToSeqs(Commons), SortedByAlign(order)
    PROVE  /\ Placed(order) # <<>> /\ Dummy(order).vma = 0
           /\ CommonsRight(obj, Append(sect, Dummy(order)), Placed(order))
<1> DEFINE n == Cardinality(Commons)
           al(i) == elf_get_align(obj.syms[order[i]])
           sz(i) == CommonSize(obj.syms[order[i]])
           p == Placed(order)
<1>1. DOMAIN obj.syms = DOMAIN o.syms /\ IsFiniteSet(Commons) /\ Commons \subseteq DOMAIN o.syms
  <2>1. DOMAIN obj.syms = DOMAIN o.syms
    BY DEF ObjectOf, bfd_canonicalize_symtab
  <2>2. Commons \subseteq 1..Len(o.syms) /\ Len(o.syms) \in Nat
    BY <2>1, ObjectFacts DEF Commons
  <2>3. IsFiniteSet(1..Len(o.syms))
    BY <2>2, FS_Interval
  <2>4. 1..Len(o.syms) = DOMAIN o.syms
    BY ObjectFacts
  <2>5. IsFiniteSet(Commons)
    BY <2>2, <2>3, FS_Subset
  <2> QED
    BY <2>1, <2>2, <2>4, <2>5
<1>2. /\ n \in Nat \ {0} /\ Len(order) = n /\ DOMAIN order = 1..n
      /\ order = [i \in 1..n |-> order[i]] /\ \A i \in 1..n : order[i] \in Commons
      /\ \A i, j \in 1..n : i # j => order[i] # order[j]
  BY <1>1, OrderIs
<1> HIDE DEF n
<1>3. \A i \in 1..n : /\ al(i) \in Alignments(o) /\ sz(i) \in Nat /\ 2^al(i) \in Nat \ {0}
                      /\ order[i] \in DOMAIN obj.syms /\ obj.syms[order[i]].kind \in {"com", "weakundef"}
  <2>1. ASSUME NEW i \in 1..n
        PROVE  al(i) \in Alignments(o) /\ sz(i) \in Nat
    BY <1>1, <1>2, SymbolFacts
  <2>2. \A i \in 1..n : 2^al(i) \in Nat \ {0}
    BY <2>1, ObjectFacts
  <2> QED
    BY <1>1, <1>2, <2>1, <2>2 DEF Commons
<1>4. PICK e \in [0..n -> Nat] : PlacedAt(e, n, order)
  BY <1>2, <1>3, PlacedIs
<1>d. PICK k \in 1..n : k = 1
  BY <1>2
<1>a. \A i \in 1..n : e[i] = align_power(e[i - 1], al(i)) + sz(i)
  BY <1>4 DEF PlacedAt
<1>b. p = [i \in DOMAIN order |-> [sym |-> order[i], off |-> e[i] - sz(i), size |-> sz(i)]]
  BY <1>4 DEF PlacedAt
<1>c. /\ \A i \in 1..n : al(i) \in Nat
      /\ \A a, b \in Alignments(o) : 2^a \in Nat \ {0} /\ (a <= b => 2^b % 2^a = 0)
  BY <1>3, ObjectFacts
<1>5. \A i \in 1..n : p[i].sym = order[i] /\ p[i].off = e[i] - sz(i) /\ p[i].size = sz(i)
  BY <1>2, <1>b
<1>6. p = [i \in 1..n |-> p[i]]
  BY <1>2, <1>b
<1>7. Len(p) = n /\ DOMAIN p = 1..n /\ p \in Seq(ToSet(p)) /\ p # <<>>
  <2> HIDE DEF p
  <2> QED
    BY <1>2, <1>6, LengthOf
<1> HIDE DEF p, al, sz
<1>8. ASSUME NEW i \in 1..n
      PROVE  /\ e[i - 1] \in Nat /\ e[i] \in Nat /\ e[i - 1] <= p[i].off /\ p[i].off \in Nat
             /\ p[i].off + p[i].size = e[i] /\ p[i].off % 2^al(i) = 0 /\ e[i - 1] <= e[i]
  <2>1. e[i - 1] \in Nat /\ 2^al(i) \in Nat \ {0} /\ sz(i) \in Nat
    <3>1. i - 1 \in 0..n
      BY <1>2
    <3> QED
      BY <1>3, <3>1
  <2>2. PICK y \in Nat : y = align_power(e[i - 1], al(i)) /\ e[i - 1] <= y /\ y % 2^al(i) = 0
    BY <2>1, Aligned_power
  <2>3. e[i] = y + sz(i) /\ e[i] \in Nat
    BY <1>a, <2>1, <2>2
  <2>4. p[i].off = y /\ p[i].size = sz(i)
    BY <1>5, <2>1, <2>3
  <2> QED
    BY <2>1, <2>2, <2>3, <2>4
<1>9. \A i, j \in 0..n : i <= j => e[i] <= e[j]
  BY <1>2, <1>8, Monotone
<1>10. ASSUME NEW i \in 1..n, NEW j \in 1..n, i < j
       PROVE  p[i].sym # p[j].sym /\ p[i].off + p[i].size <= p[j].off
  <2>1. i \in 0..n /\ j - 1 \in 0..n /\ i <= j - 1 /\ i # j
    BY <1>2, <1>10
  <2>2. e[i] <= e[j - 1] /\ e[j - 1] <= p[j].off /\ p[i].off + p[i].size = e[i]
    BY <1>8, <1>9, <2>1
  <2>3. e[i] \in Nat /\ e[j - 1] \in Nat /\ p[j].off \in Nat
    BY <1>8
  <2> QED
    BY <1>2, <1>5, <2>1, <2>2, <2>3
<1> DEFINE d == Dummy(order)
           ss == Append(sect, d)
<1>11. /\ d.name = ".dummy" /\ d.size = e[n] /\ d.align = al(k) /\ d.flags = {"alloc"} /\ d.members = <<>>
       /\ d.vma = 0
       /\ d = [name |-> ".dummy", size |-> d.size, align |-> d.align, flags |-> {"alloc"},
               members |-> <<>>, vma |-> d.vma]
  <2>1. n \in 1..n /\ p[Len(p)].off + p[Len(p)].size = e[n]
    BY <1>2, <1>7, <1>8
  <2> QED
    BY <1>d, <2>1 DEF Dummy, p, al
<1>12. ss[Len(ss)] = d
  <2> HIDE DEF d
  <2> QED
    BY DomainOf
<1>13. ASSUME NEW i \in 1..n
       PROVE  2^al(k) % 2^al(i) = 0
  <2>1. al(i) <= al(k)
    <3>1. CASE i = k
      BY <1>c, <3>1
    <3>2. CASE i # k
      <4>1. al(k) >= al(i)
        <5>1. k < i /\ k \in DOMAIN order /\ i \in DOMAIN order
          BY <1>2, <1>d, <3>2
        <5> QED
          BY <5>1 DEF SortedByAlign, al
      <4>2. al(k) \in Nat /\ al(i) \in Nat
        BY <1>2, <1>c
      <4> QED
        BY <4>1, <4>2
    <3> QED
      BY <3>1, <3>2
  <2> QED
    BY <1>2, <1>3, <1>c, <2>1
<1>14. e[n] \in Nat /\ al(k) \in Nat /\ 2^al(k) \in Nat \ {0} /\ \A i \in 1..n : e[i] <= e[n]
  BY <1>2, <1>3, <1>9, <1>c
<1> HIDE DEF d, ss
<1>15. CommonsRight(obj, ss, p)
  <2>1. ASSUME NEW i \in DOMAIN p
        PROVE  /\ p[i].sym \in DOMAIN obj.syms /\ obj.syms[p[i].sym].kind \in {"com", "weakundef"}
               /\ p[i].off \in Nat /\ p[i].size \in Nat /\ p[i].off + p[i].size <= d.size
               /\ 2^elf_get_align(obj.syms[p[i].sym]) \in Nat \ {0}
               /\ p[i].off % 2^elf_get_align(obj.syms[p[i].sym]) = 0
               /\ 2^d.align % 2^elf_get_align(obj.syms[p[i].sym]) = 0
    <3>1. i \in 1..n
      BY <1>7
    <3>2. elf_get_align(obj.syms[p[i].sym]) = al(i)
      BY <1>5, <3>1 DEF al
    <3>3. d.align = al(k) /\ d.size = e[n]
      BY <1>11
    <3>4. 2^d.align % 2^al(i) = 0 /\ p[i].off % 2^al(i) = 0 /\ 2^al(i) \in Nat \ {0}
      BY <1>3, <1>8, <1>13, <3>1, <3>3
    <3>5. p[i].off \in Nat /\ p[i].size \in Nat /\ p[i].off + p[i].size <= d.size
      BY <1>3, <1>5, <1>8, <1>14, <3>1, <3>3
    <3> QED
      BY <1>3, <1>5, <3>1, <3>2, <3>4, <3>5
  <2>2. ASSUME NEW i \in DOMAIN p, NEW j \in DOMAIN p, i < j
        PROVE  p[i].sym # p[j].sym /\ p[i].off + p[i].size <= p[j].off
    BY <1>7, <1>10, <2>2
  <2>3. d.size \in Nat /\ d.align \in Nat /\ 2^d.align \in Nat \ {0}
    BY <1>11, <1>14
  <2> QED
    BY <1>7, <1>11, <1>12, <2>1, <2>2, <2>3 DEF CommonsRight
<1> QED
  BY <1>7, <1>11, <1>15 DEF p, d, ss

-----------------------------------------------------------------------------
(* FileShown and CommonsKept, for the other steps *)

LEMMA SymtabShown ==
    ASSUME FileShown, slurp_symtab
    PROVE  FileShown' /\ CommonsKept'
<1>1. /\ pc = "symtab" /\ obj.elf \in Objects /\ obj = ObjectOf(obj.elf) /\ obj' = obj /\ common = <<>>
      /\ sect \in Seq(ToSet(sect)) /\ Len(sect) = Len(obj.elf.shdrs) + 0
      /\ SectionsFit(obj.elf) /\ MarksFit(obj.elf)
      /\ \A i \in DOMAIN obj.elf.shdrs :
           SectionOf(sect[i], elf2bfdsec(obj.elf, i)) /\ (Alloc(sect[i]) => sect[i].size > 0)
  BY DEF slurp_symtab, FileShown, Loading, AfterNames
<1>2. CASE pc' \in {"cleanup", "fault"}
  BY <1>1, <1>2 DEF FileShown, CommonsKept, Loading, AfterNames, AfterSymtab
<1>3. CASE SymbolsFit(obj.elf) /\ pc' = "count" /\ UNCHANGED <<sect, common>>
  BY <1>1, <1>3 DEF FileShown, CommonsKept, Loading, AfterNames, AfterSymtab
<1>4. CASE \E order \in {s \in SetToSeqs(Commons) : SortedByAlign(s)} :
             /\ SymbolsFit(obj.elf) /\ Commons # {}
             /\ pc' = "count" /\ common' = Placed(order) /\ sect' = Append(sect, Dummy(order))
  <2>1. PICK order \in SetToSeqs(Commons) :
          /\ SortedByAlign(order) /\ SymbolsFit(obj.elf) /\ Commons # {}
          /\ pc' = "count" /\ common' = Placed(order) /\ sect' = Append(sect, Dummy(order))
    BY <1>4
  <2>2. common' # <<>> /\ CommonsRight(obj, sect', common')
    BY <1>1, <2>1, CommonsMade
  <2>3. DOMAIN obj.elf.shdrs = 1..Len(obj.elf.shdrs) /\ Len(obj.elf.shdrs) \in Nat
    BY <1>1, ObjectFacts
  <2>4. /\ Len(sect') = Len(obj.elf.shdrs) + 1 /\ sect' \in Seq(ToSet(sect'))
        /\ \A i \in DOMAIN obj.elf.shdrs : sect'[i] = sect[i]
    <3>1. DOMAIN sect = 1..Len(sect) /\ Len(sect) = Len(obj.elf.shdrs)
      BY <1>1, <2>3, DomainOf
    <3>2. /\ Len(sect') = Len(sect) + 1 /\ sect' \in Seq(ToSet(sect'))
          /\ \A i \in DOMAIN sect : sect'[i] = sect[i]
      BY <1>1, <2>1, Appended
    <3> QED
      BY <2>3, <3>1, <3>2
  <2> QED
    BY <1>1, <2>1, <2>2, <2>3, <2>4 DEF FileShown, CommonsKept, Loading, AfterNames, AfterSymtab
<1> QED
  BY <1>2, <1>3, <1>4 DEF slurp_symtab, TableFault, Fail

\* Addresses are given; sections stay those of the file.
LEMMA SetvmaShown ==
    ASSUME FileShown, CommonsKept, s_setvma
    PROVE  FileShown' /\ CommonsKept'
<1>1. /\ pc = "setvma" /\ obj.elf \in Objects /\ obj = ObjectOf(obj.elf) /\ obj' = obj /\ common' = common
      /\ sect \in Seq(ToSet(sect)) /\ Len(sect) = Len(obj.elf.shdrs) + (IF common = <<>> THEN 0 ELSE 1)
      /\ SectionsFit(obj.elf) /\ MarksFit(obj.elf) /\ SymbolsFit(obj.elf)
      /\ \A i \in DOMAIN obj.elf.shdrs :
           SectionOf(sect[i], elf2bfdsec(obj.elf, i)) /\ (Alloc(sect[i]) => sect[i].size > 0)
      /\ common # <<>> => CommonsRight(obj, sect, common)
  BY DEF s_setvma, FileShown, CommonsKept, Loading, AfterNames, AfterSymtab
<1>2. CASE pc' = "cleanup"
  BY <1>1, <1>2 DEF FileShown, CommonsKept, Loading, AfterNames, AfterSymtab
<1>3. CASE /\ pc' = "reloc"
           /\ sect' = [i \in DOMAIN sect |->
                IF i \in Sized
                  THEN [sect[i] EXCEPT !.vma =
                         align_power(Placement(segOf(sect[i]))[i - 1], sect[i].align)]
                  ELSE sect[i]]
  <2>1. PICK a : sect' = [i \in DOMAIN sect |-> IF i \in Sized THEN [sect[i] EXCEPT !.vma = a[i]] ELSE sect[i]]
    <3> DEFINE b == [i \in DOMAIN sect |-> align_power(Placement(segOf(sect[i]))[i - 1], sect[i].align)]
    <3>1. \A i \in DOMAIN sect : b[i] = align_power(Placement(segOf(sect[i]))[i - 1], sect[i].align)
      OBVIOUS
    <3> HIDE DEF b
    <3>2. sect' = [i \in DOMAIN sect |-> IF i \in Sized THEN [sect[i] EXCEPT !.vma = b[i]] ELSE sect[i]]
      BY <1>3, <3>1
    <3> QED
      BY <3>2
  <2>2. /\ DOMAIN sect = 1..Len(sect) /\ Len(sect) \in Nat
        /\ DOMAIN obj.elf.shdrs = 1..Len(obj.elf.shdrs) /\ Len(obj.elf.shdrs) \in Nat
    BY <1>1, DomainOf, ObjectFacts
  <2>3. Len(sect') = Len(sect) /\ sect' \in Seq(ToSet(sect'))
    <3>1. sect' = [i \in 1..Len(sect) |-> sect'[i]]
      BY <2>1, <2>2
    <3> QED
      BY <2>2, <3>1, LengthOf
  <2>4. DOMAIN obj.elf.shdrs \subseteq DOMAIN sect
    <3>1. PICK x \in {0, 1} : Len(sect) = Len(obj.elf.shdrs) + x
      BY <1>1
    <3> QED
      BY <2>2, <3>1
  <2>5. ASSUME NEW i \in DOMAIN obj.elf.shdrs
        PROVE  SectionOf(sect'[i], elf2bfdsec(obj.elf, i)) /\ (Alloc(sect'[i]) => sect'[i].size > 0)
    <3> DEFINE h == elf2bfdsec(obj.elf, i)
               s == sect[i]
    <3>1. SectionOf(s, h) /\ (Alloc(s) => s.size > 0)
      BY <1>1
    <3>2. /\ h = [name |-> h.name, size |-> h.size, align |-> h.align, flags |-> h.flags,
                 members |-> h.members, vma |-> h.vma]
      BY DEF elf2bfdsec
    <3>3. sect'[i] \in {s, [s EXCEPT !.vma = a[i]]}
      BY <2>1, <2>4
    <3> HIDE DEF h, s
    <3>4. s = [h EXCEPT !.flags = s.flags, !.vma = s.vma] /\ s.flags \in {h.flags, h.flags \ {"alloc"}}
      BY <3>1 DEF SectionOf
    <3>5. s = [name |-> h.name, size |-> h.size, align |-> h.align, flags |-> s.flags,
               members |-> h.members, vma |-> s.vma]
      BY <3>2, <3>4
    <3>6. PICK t : t = [s EXCEPT !.vma = a[i]]
      OBVIOUS
    <3>7. t = [name |-> h.name, size |-> h.size, align |-> h.align, flags |-> s.flags,
               members |-> h.members, vma |-> a[i]]
      BY <3>5, <3>6
    <3>8. t = [h EXCEPT !.flags = t.flags, !.vma = t.vma] /\ t.flags = s.flags /\ t.size = s.size
      <4>1. t.flags = s.flags /\ t.vma = a[i] /\ t.size = h.size
        BY <3>7
      <4>2. s.size = h.size
        BY <3>5
      <4>3. PICK fl, w : fl = s.flags /\ w = a[i]
        OBVIOUS
      <4>4. t = [name |-> h.name, size |-> h.size, align |-> h.align, flags |-> fl,
                 members |-> h.members, vma |-> w]
        BY <3>7, <4>3
      <4>5. t = [h EXCEPT !.flags = fl, !.vma = w]
        <5>1. PICK u : u = [h EXCEPT !.flags = fl, !.vma = w]
          OBVIOUS
        <5>2. u = [name |-> h.name, size |-> h.size, align |-> h.align, flags |-> fl,
                   members |-> h.members, vma |-> w]
          BY <3>2, <5>1
        <5> QED
          BY <4>4, <5>1, <5>2
      <4> QED
        BY <4>1, <4>2, <4>3, <4>5
    <3>9. SectionOf(t, h) /\ (Alloc(t) => t.size > 0)
      BY <3>1, <3>4, <3>8 DEF SectionOf, Alloc
    <3> QED
      BY <3>1, <3>3, <3>6, <3>9 DEF h
  <2>6. ASSUME common # <<>>
        PROVE  CommonsRight(obj, sect', common)
    <3>1. CommonsRight(obj, sect, common)
      BY <1>1, <2>6
    <3> DEFINE d == sect[Len(sect)]
    <3>2. Len(sect) \in DOMAIN sect
      BY <1>1, <2>2, <2>6
    <3>3. sect'[Len(sect)] \in {d, [d EXCEPT !.vma = a[Len(sect)]]}
      BY <2>1, <3>2
    <3>4. d = [name |-> ".dummy", size |-> d.size, align |-> d.align, flags |-> {"alloc"},
               members |-> <<>>, vma |-> d.vma]
      BY <3>1 DEF CommonsRight
    <3> HIDE DEF d
    <3>5. PICK v : sect'[Len(sect)] = [name |-> ".dummy", size |-> d.size, align |-> d.align, flags |-> {"alloc"},
                                      members |-> <<>>, vma |-> v]
      <4>1. CASE sect'[Len(sect)] = d
        BY <3>4, <4>1
      <4>2. CASE sect'[Len(sect)] = [d EXCEPT !.vma = a[Len(sect)]]
        <5>1. PICK w : w = a[Len(sect)]
          OBVIOUS
        <5>2. PICK t : t = [d EXCEPT !.vma = w]
          OBVIOUS
        <5>3. t = [name |-> ".dummy", size |-> d.size, align |-> d.align, flags |-> {"alloc"},
                   members |-> <<>>, vma |-> w]
          BY <3>4, <5>2
        <5> QED
          BY <4>2, <5>1, <5>2, <5>3
      <4> QED
        BY <3>3, <4>1, <4>2
    <3>6. PICK e : e = sect'[Len(sect')]
      OBVIOUS
    <3>7. /\ e = [name |-> ".dummy", size |-> e.size, align |-> e.align, flags |-> {"alloc"},
                 members |-> <<>>, vma |-> e.vma]
          /\ e.size = d.size /\ e.align = d.align
      <4>1. e = [name |-> ".dummy", size |-> d.size, align |-> d.align, flags |-> {"alloc"},
                 members |-> <<>>, vma |-> v]
        BY <2>3, <3>5, <3>6
      <4>2. e.size = d.size /\ e.align = d.align /\ e.vma = v
        BY <4>1
      <4> QED
        BY <4>1, <4>2
    <3> QED
      BY <3>1, <3>6, <3>7 DEF CommonsRight, d
  <2> QED
    BY <1>1, <1>3, <2>3, <2>5, <2>6 DEF FileShown, CommonsKept, Loading, AfterNames, AfterSymtab
<1> QED
  BY <1>2, <1>3 DEF s_setvma, Fail

LEMMA StepShown ==
    ASSUME FileShown, CommonsKept, [Next]_vars
    PROVE  FileShown' /\ CommonsKept'
<1>1. CASE UNCHANGED vars
  BY <1>1 DEF FileShown, CommonsKept, vars, Alloc
<1>2. ASSUME NEW o \in Objects, Search(o)
      PROVE  FileShown' /\ CommonsKept'
  <2>1. pc' \in {"cleanup", "open", "fault"} /\ obj' = [elf |-> o] /\ pc = "idle" /\ common' = common
    BY <1>2 DEF Search, Fail
  <2>2. obj'.elf = o /\ common' = <<>>
    BY <2>1 DEF FileShown
  <2>3. pc' \notin Loading /\ pc' \notin AfterSymtab /\ pc' \notin AfterNames
    BY <2>1 DEF Loading, AfterNames, AfterSymtab
  <2> QED
    BY <2>1, <2>2, <2>3 DEF FileShown, CommonsKept, Loading, AfterNames, AfterSymtab
<1>3. CASE Open
  <2>1. pc' \in {"cleanup", "attributes"}
    BY <1>3 DEF Open, Refused, Fail
  <2> QED
    BY <1>3, <2>1, OpenShown DEF CommonsKept, AfterSymtab
<1>4. CASE Names
  <2>1. pc' \in {"cleanup", "symtab", "hangs"}
    BY <1>4 DEF Names, Fail
  <2> QED
    BY <1>4, <2>1, NamesShown DEF CommonsKept, AfterSymtab
<1>5. CASE slurp_symtab
  BY <1>5, SymtabShown
<1>6. CASE s_setvma
  BY <1>6, SetvmaShown
<1>7. CASE Attributed
  <2>1. pc = "attributes" /\ pc' \in {"hangs", "names", "cleanup"} /\ UNCHANGED <<obj, sect, common>>
    BY <1>7 DEF Attributed
  <2> QED
    BY <2>1 DEF FileShown, CommonsKept, Loading, AfterNames, AfterSymtab, Alloc
<1>8. CASE s_count \/ cexpSegsAlloc \/ s_reloc \/ Finish
  <2>1. pc \in AfterSymtab /\ pc' \in AfterSymtab \cup {"cleanup", "fault"} /\ UNCHANGED <<obj, sect, common>>
    BY <1>8 DEF s_count, cexpSegsAlloc, s_reloc, Finish, Fail, AfterSymtab
  <2> QED
    BY <2>1 DEF FileShown, CommonsKept, Loading, AfterNames, AfterSymtab, Alloc
<1>9. CASE Cleanup
  BY <1>9 DEF Cleanup, FileShown, CommonsKept, Loading, AfterNames, AfterSymtab
<1>10. CASE SetForced \/ \E i \in DOMAIN mods : Unload(i)
  BY <1>10 DEF SetForced, Unload, FileShown, CommonsKept, Alloc
<1> QED
  BY <1>1, <1>2, <1>3, <1>4, <1>5, <1>6, <1>7, <1>8, <1>9, <1>10 DEF Next, LoadStep

-----------------------------------------------------------------------------
(* Segments are large enough *)

\* The sections that are loaded into segment k, and what each needs.
Contents(k) == {i \in AllocSections : segOf(sect[i]) = k}
NeedsOf(k) == [i \in Contents(k) |-> Needs(sect[i])]

LEMMA NeedsFacts ==
    ASSUME FileShown, CommonsKept, pc \in AfterNames, NEW k
    PROVE  /\ IsFiniteSet(Contents(k)) /\ Contents(k) \subseteq DOMAIN sect
           /\ DOMAIN sect = 1..Len(sect) /\ Len(sect) \in Nat
           /\ \A i \in Contents(k) : NeedsOf(k)[i] = Needs(sect[i]) /\ NeedsOf(k)[i] \in Nat
<1>1. DOMAIN sect = 1..Len(sect) /\ Len(sect) \in Nat
  BY DomainOf DEF FileShown, Loading
<1>2. IsFiniteSet(1..Len(sect)) /\ Contents(k) \subseteq 1..Len(sect)
  BY <1>1, FS_Interval DEF Contents, AllocSections
<1>3. IsFiniteSet(Contents(k))
  BY <1>2, FS_Subset
<1>4. ASSUME NEW i \in Contents(k)
      PROVE  Needs(sect[i]) \in Nat
  <2>1. sect[i].size \in Nat /\ 2^sect[i].align \in Nat \ {0}
    BY <1>1, <1>2, SectionFacts
  <2> QED
    BY <2>1, SizesOK DEF Needs
<1> QED
  BY <1>1, <1>2, <1>3, <1>4 DEF NeedsOf

\* s_count adds up what sections need.
LEMMA RequiredIs ==
    ASSUME FileShown, CommonsKept, pc \in AfterNames, NEW k
    PROVE  \E f \in [SUBSET Contents(k) -> Nat] :
             Summing(Contents(k), NeedsOf(k), f) /\ Required(k) = f[Contents(k)]
<1> DEFINE S == Contents(k)
           F(f) == [s \in SUBSET S |-> IF s = {} THEN 0
                                       ELSE LET x == CHOOSE x \in s : TRUE IN f[s \ {x}] + Needs(sect[x])]
           f == CHOOSE g : g = F(g)
<1>1. PICK g \in [SUBSET S -> Nat] : Summing(S, NeedsOf(k), g)
  BY NeedsFacts, SumExists
<1>2. \A h : F(h) = [s \in SUBSET S |-> IF s = {} THEN 0
                                        ELSE LET x == CHOOSE x \in s : TRUE IN h[s \ {x}] + NeedsOf(k)[x]]
  <2>1. \A s \in SUBSET S : s # {} => (CHOOSE x \in s : TRUE) \in S
    OBVIOUS
  <2>2. \A s \in SUBSET S : s # {} => NeedsOf(k)[CHOOSE x \in s : TRUE] = Needs(sect[CHOOSE x \in s : TRUE])
    BY <2>1, NeedsFacts
  <2> QED
    BY <2>2
<1>3. \A h : Summing(S, NeedsOf(k), h) <=> h = F(h)
  BY <1>2 DEF Summing
<1>4. f = F(f)
  <2>1. g = F(g)
    BY <1>1, <1>3
  <2> HIDE DEF F
  <2> QED
    BY <2>1
<1>5. Summing(S, NeedsOf(k), f)
  <2> HIDE DEF F, f
  <2> QED
    BY <1>3, <1>4
<1>6. Required(k) = f[S]
  BY DEF Required, FoldSet, MapThenFoldSet, Contents
<1>7. f \in [SUBSET S -> Nat]
  <2>1. f = [s \in SUBSET S |-> f[s]]
    <3> HIDE DEF f
    <3> QED
      BY <1>4
  <2>2. ASSUME NEW s \in SUBSET S
        PROVE  f[s] \in Nat
    <3>1. CASE s = {}
      <4>1. f[s] = 0
        <5> HIDE DEF f
        <5> QED
          BY <1>4, <3>1
      <4> QED
        BY <4>1
    <3>2. CASE s # {}
      <4>1. PICK x \in s : TRUE
        BY <3>2
      <4> HIDE DEF f
      <4> QED
        BY <1>5, NeedsFacts, SumRemoves DEF Adds
    <3> QED
      BY <3>1, <3>2
  <2> HIDE DEF f
  <2> QED
    BY <2>1, <2>2
<1> HIDE DEF f
<1> QED
  BY <1>5, <1>6, <1>7

\* The recursion that places sections.
PlacementAt(e, k) ==
    /\ e[0] = seg[k].vmacalc
    /\ \A i \in 1..Len(sect) : e[i] =
         IF i \notin Sized \/ segOf(sect[i]) # k THEN e[i - 1]
         ELSE align_power(e[i - 1], sect[i].align) + sect[i].size + (IF i = eh_section THEN LongBytes ELSE 0)

LEMMA PlacementIs ==
    ASSUME FileShown, CommonsKept, pc \in AfterNames, NEW k, seg[k].vmacalc \in Nat
    PROVE  /\ Placement(k) \in [0..Len(sect) -> Nat] /\ PlacementAt(Placement(k), k)
           /\ \A i \in 1..Len(sect) : Placement(k)[i - 1] <= Placement(k)[i]
<1> DEFINE n == Len(sect)
           base == seg[k].vmacalc
           here(i) == i \in Sized /\ segOf(sect[i]) = k
           al(i) == sect[i].align
           sz(i) == sect[i].size + (IF i = eh_section THEN LongBytes ELSE 0)
           next(i, v) == IF here(i) THEN align_power(v, al(i)) + sz(i) ELSE v
           g == [x \in (1..n) \X Nat |-> next(x[1], x[2])]
           body(i, v) == IF i \notin Sized \/ segOf(sect[i]) # k THEN v
                         ELSE align_power(v, sect[i].align) + sect[i].size
                                + (IF i = eh_section THEN LongBytes ELSE 0)
           F(f) == [i \in 0..n |-> IF i = 0 THEN seg[k].vmacalc ELSE body(i, f[i - 1])]
           e == CHOOSE f : f = F(f)
<1>1. n \in Nat /\ base \in Nat /\ DOMAIN sect = 1..n
  BY NeedsFacts
<1>2. ASSUME NEW i \in 1..n, NEW v \in Nat
      PROVE  next(i, v) \in Nat /\ v <= next(i, v)
  <2>1. sect[i].size \in Nat /\ 2^al(i) \in Nat \ {0}
    BY <1>1, SectionFacts
  <2>2. sz(i) \in Nat
    BY <2>1, SizesOK
  <2>3. align_power(v, al(i)) \in Nat /\ v <= align_power(v, al(i))
    BY <2>1, Aligned_power
  <2> HIDE DEF al, sz, here
  <2> QED
    BY <2>2, <2>3
<1>3. g \in [(1..n) \X Nat -> Nat]
  <2> HIDE DEF next, n
  <2> QED
    BY <1>2
<1>4. ASSUME NEW i \in 1..n, NEW x \in Nat
      PROVE  g[<<i, x>>] = next(i, x)
  <2>1. <<i, x>> \in (1..n) \X Nat /\ <<i, x>>[1] = i /\ <<i, x>>[2] = x
    OBVIOUS
  <2>2. g[<<i, x>>] = next(<<i, x>>[1], <<i, x>>[2])
    <3> HIDE DEF next, n
    <3> QED
      BY <2>1
  <2> HIDE DEF g, next
  <2> QED
    BY <2>1, <2>2
<1>5. ASSUME NEW i \in 1..n, NEW v \in Nat
      PROVE  body(i, v) = next(i, v)
  <2>1. CASE ~here(i)
    BY <2>1
  <2>2. CASE here(i)
    <3>1. sect[i].size \in Nat /\ 2^sect[i].align \in Nat \ {0}
      BY <1>1, SectionFacts
    <3>2. PICK a, b, c : a = align_power(v, sect[i].align) /\ b = sect[i].size
                         /\ c = IF i = eh_section THEN LongBytes ELSE 0
      OBVIOUS
    <3>3. a \in Nat /\ b \in Nat /\ c \in Nat
      BY <3>1, <3>2, SizesOK, Aligned_power
    <3>4. (a + b) + c = a + (b + c)
      BY <3>3
    <3> QED
      BY <2>2, <3>2, <3>4
  <2> QED
    BY <2>1, <2>2
<1> HIDE DEF g, next, body, n, base, F, e
<1>6. PICK f \in [0..n -> Nat] : Iterates(f, n, base, g)
  <2>1. PICK h \in [(1..n) \X Nat -> Nat] : h = g
    BY <1>3
  <2> QED
    BY <1>1, <2>1, Recursion
<1>7. f = F(f)
  <2>1. \A i \in 1..n : f[i - 1] \in Nat
    BY <1>1
  <2>2. \A i \in 1..n : f[i] = next(i, f[i - 1])
    BY <1>4, <1>6, <2>1 DEF Iterates
  <2>3. \A i \in 1..n : f[i] = body(i, f[i - 1])
    BY <1>5, <2>1, <2>2
  <2> QED
    BY <1>1, <1>6, <2>3 DEF Iterates, F, base
<1>8. e = F(e)
  BY <1>7 DEF e
<1>9. e = [i \in 0..n |-> IF i = 0 THEN base ELSE body(i, e[i - 1])]
  BY <1>8 DEF F, base
<1>10. \A i \in 0..n : e[i] \in Nat
  <2> DEFINE T == {m \in 0..n : e[m] \notin Nat}
  <2>1. T = {}
    <3>1. SUFFICES ASSUME T # {}
                   PROVE  FALSE
      OBVIOUS
    <3>2. T \in SUBSET (0..n)
      OBVIOUS
    <3>3. PICK m \in T : \A j \in T : m <= j
      <4> HIDE DEF T
      <4> QED
        BY <1>1, <3>1, <3>2, LeastNumber
    <3>4. m \in 1..n /\ m - 1 \in 0..n
      BY <1>1, <1>9
    <3>5. m - 1 \notin T
      <4>1. ~(m <= m - 1)
        BY <1>1
      <4> HIDE DEF T
      <4> QED
        BY <3>3, <4>1
    <3>6. e[m - 1] \in Nat
      BY <3>4, <3>5
    <3>7. e[m] = next(m, e[m - 1])
      BY <1>1, <1>5, <1>9, <3>4, <3>6
    <3>8. e[m] \in Nat
      BY <1>2, <3>4, <3>6, <3>7
    <3> QED
      BY <3>8
  <2> QED
    BY <2>1
<1>11. e = Placement(k)
  BY DEF Placement, e, F, body, n
<1>12. e \in [0..n -> Nat]
  BY <1>9, <1>10
<1>13. PlacementAt(e, k)
  <2>1. ASSUME NEW i \in 1..n
        PROVE  e[i] = IF i \notin Sized \/ segOf(sect[i]) # k THEN e[i - 1]
                      ELSE align_power(e[i - 1], sect[i].align) + sect[i].size
                             + (IF i = eh_section THEN LongBytes ELSE 0)
    <3>1. i \in 0..n /\ i # 0
      BY <1>1
    <3> QED
      BY <1>9, <3>1 DEF body
  <2>2. e[0] = base
    BY <1>1, <1>9
  <2> QED
    BY <2>1, <2>2 DEF PlacementAt, base, n
<1>14. ASSUME NEW i \in 1..n
       PROVE  e[i - 1] <= e[i]
  <2>1. i - 1 \in 0..n /\ i \in 0..n /\ i # 0
    BY <1>1
  <2>2. e[i - 1] \in Nat /\ e[i] = next(i, e[i - 1])
    BY <1>5, <1>9, <1>10, <2>1
  <2> QED
    BY <1>2, <2>2
<1> QED
  BY <1>11, <1>12, <1>13, <1>14 DEF n

\* The section that gets room for the terminator is a frame table.
LEMMA EhIs ==
    ASSUME FileShown, CommonsKept, pc \in AfterNames, eh_section # 0
    PROVE  eh_section \in AllocSections /\ IsEh(sect[eh_section]) /\ eh_section \in Sized
<1>1. DOMAIN sect = 1..Len(sect) /\ Len(sect) \in Nat
  BY NeedsFacts
<1>2. EhSections # {} /\ eh_section = Max(EhSections) /\ EhSections \in SUBSET (0..Len(sect))
  BY <1>1 DEF eh_section, EhSections, AllocSections
<1>3. PICK m \in EhSections : \A i \in EhSections : i <= m
  BY <1>1, <1>2, GreatestNumber
<1>4. eh_section \in EhSections
  <2>1. \A i \in EhSections : m >= i
    BY <1>1, <1>2, <1>3
  <2> QED
    BY <1>2, <1>3, <2>1 DEF Max
<1>5. eh_section \in AllocSections /\ IsEh(sect[eh_section])
  BY <1>4 DEF EhSections
<1>6. sect[eh_section].size > 0
  <2>1. eh_section \in DOMAIN sect /\ Alloc(sect[eh_section])
    BY <1>5 DEF AllocSections
  <2> QED
    BY <1>5, <2>1, SectionFacts
<1> QED
  BY <1>5, <1>6 DEF Sized

\* What is placed ends before what is required does.
LEMMA PlacementFits ==
    ASSUME FileShown, CommonsKept, pc \in AfterNames, NEW k, seg[k].vmacalc \in Nat
    PROVE  Required(k) \in Nat /\ Placement(k)[Len(sect)] <= seg[k].vmacalc + Required(k)
<1> DEFINE n == Len(sect)
           S == Contents(k)
           w == NeedsOf(k)
           e == Placement(k)
           rest(i) == {j \in S : j > i}
           total == seg[k].vmacalc + Required(k)
<1>1. /\ n \in Nat /\ IsFiniteSet(S) /\ S \subseteq 1..n /\ DOMAIN sect = 1..n
      /\ \A i \in S : w[i] = Needs(sect[i]) /\ w[i] \in Nat
  BY NeedsFacts
<1>2. PICK f \in [SUBSET S -> Nat] : Summing(S, w, f) /\ Required(k) = f[S]
  BY RequiredIs
<1>3. e \in [0..n -> Nat] /\ PlacementAt(e, k)
  BY PlacementIs
<1>4. /\ e[0] = seg[k].vmacalc
      /\ \A i \in 1..n : e[i] =
           IF i \notin Sized \/ segOf(sect[i]) # k THEN e[i - 1]
           ELSE align_power(e[i - 1], sect[i].align) + sect[i].size + (IF i = eh_section THEN LongBytes ELSE 0)
  <2> HIDE DEF e
  <2> QED
    BY <1>3 DEF PlacementAt
<1> HIDE DEF e, w, n
<1>5. Required(k) \in Nat /\ total \in Nat
  BY <1>2
<1>6. \A i \in 0..n : rest(i) \in SUBSET S /\ f[rest(i)] \in Nat
  OBVIOUS
<1>7. ASSUME NEW i \in 1..n
      PROVE  e[i] + f[rest(i)] <= e[i - 1] + f[rest(i - 1)]
  <2>1. i - 1 \in 0..n /\ i \in 0..n
    BY <1>1
  <2>2. e[i - 1] \in Nat /\ f[rest(i)] \in Nat /\ f[rest(i - 1)] \in Nat
    BY <1>3, <1>6, <2>1
  <2>3. CASE i \notin S
    <3>1. rest(i - 1) = rest(i)
      BY <1>1, <2>3
    <3>2. i \notin Sized \/ segOf(sect[i]) # k
      BY <2>3 DEF Contents, Sized
    <3>3. e[i] = e[i - 1]
      BY <1>4, <3>2
    <3> HIDE DEF rest
    <3>4. e[i] + f[rest(i)] = e[i - 1] + f[rest(i - 1)] /\ e[i - 1] + f[rest(i - 1)] \in Nat
      BY <2>2, <3>1, <3>3
    <3> QED
      BY <3>4
  <2>4. CASE i \in S
    <3>1. rest(i - 1) \ {i} = rest(i) /\ i \in rest(i - 1)
      BY <1>1, <2>4
    <3>2. f[rest(i - 1)] = f[rest(i)] + w[i]
      <4>1. PICK r \in SUBSET S : r = rest(i - 1)
        OBVIOUS
      <4>2. i \in r /\ r \ {i} = rest(i)
        BY <3>1, <4>1
      <4> HIDE DEF rest, S
      <4>3. PICK R, v : R = S /\ v = w
        OBVIOUS
      <4>4. IsFiniteSet(R) /\ Summing(R, v, f) /\ r \in SUBSET R /\ \A x \in R : v[x] \in Nat
        BY <1>1, <1>2, <4>3
      <4>5. Adds(f, r, i, v)
        BY <4>2, <4>4, SumRemoves
      <4> QED
        BY <4>1, <4>2, <4>3, <4>5 DEF Adds
    <3>3. w[i] = Needs(sect[i]) /\ w[i] \in Nat
      BY <1>1, <2>4
    <3>4. sect[i].size \in Nat /\ 2^sect[i].align \in Nat \ {0}
      BY <1>1, SectionFacts
    <3>5. e[i] <= e[i - 1] + w[i]
      <4>1. CASE i \notin Sized \/ segOf(sect[i]) # k
        BY <1>4, <2>2, <3>3, <4>1
      <4>2. CASE i \in Sized /\ segOf(sect[i]) = k
        <5> DEFINE long == IF i = eh_section THEN LongBytes ELSE 0
                   more == IF IsEh(sect[i]) THEN LongBytes ELSE 0
        <5>1. long \in Nat /\ more \in Nat /\ long <= more
          <6>1. i # 0
            BY <1>1
          <6>2. i = eh_section => IsEh(sect[i])
            BY <6>1, EhIs
          <6> QED
            BY <6>2, SizesOK
        <5>2. e[i] = align_power(e[i - 1], sect[i].align) + sect[i].size + long
          BY <1>4, <4>2
        <5>3. Needs(sect[i]) = 2^sect[i].align - 1 + sect[i].size + more
          BY DEF Needs
        <5>4. PICK a \in Nat : a = align_power(e[i - 1], sect[i].align) /\ a <= e[i - 1] + 2^sect[i].align - 1
          BY <2>2, <3>4, Aligned_power
        <5>5. PICK p \in Nat, z \in Nat : p = 2^sect[i].align /\ z = sect[i].size
          BY <3>4
        <5> HIDE DEF long, more
        <5>6. e[i] = a + z + long /\ w[i] = p - 1 + z + more /\ a <= e[i - 1] + p - 1
          BY <3>3, <5>2, <5>3, <5>4, <5>5
        <5> QED
          BY <2>2, <5>1, <5>6
      <4> QED
        BY <4>1, <4>2
    <3>6. e[i] \in Nat
      BY <1>3
    <3> HIDE DEF rest
    <3> QED
      BY <2>2, <3>2, <3>3, <3>5, <3>6
  <2> QED
    BY <2>3, <2>4
<1>8. \A i \in 0..n : e[i] + f[rest(i)] <= total
  <2> DEFINE T == {m \in 0..n : ~(e[m] + f[rest(m)] <= total)}
  <2>1. T = {}
    <3>1. SUFFICES ASSUME T # {}
                   PROVE  FALSE
      OBVIOUS
    <3>2. T \in SUBSET (0..n)
      OBVIOUS
    <3>3. PICK m \in T : \A j \in T : m <= j
      <4> HIDE DEF T
      <4> QED
        BY <1>1, <3>1, <3>2, LeastNumber
    <3>4. m \in 0..n /\ ~(e[m] + f[rest(m)] <= total)
      OBVIOUS
    <3>5. m # 0
      <4>1. rest(0) = S
        BY <1>1
      <4>2. e[0] + f[rest(0)] = total
        BY <1>2, <1>4, <4>1
      <4>3. ASSUME m = 0
            PROVE  FALSE
        <5>1. e[m] = e[0] /\ rest(m) = rest(0)
          BY <4>3
        <5> HIDE DEF T, rest, total
        <5> QED
          BY <1>5, <3>4, <4>2, <5>1
      <4> QED
        BY <4>3
    <3>6. m \in 1..n /\ m - 1 \in 0..n /\ ~(m <= m - 1)
      BY <1>1, <3>4, <3>5
    <3>7. m - 1 \notin T
      <4> HIDE DEF T
      <4> QED
        BY <3>3, <3>6
    <3>8. e[m - 1] + f[rest(m - 1)] <= total
      BY <3>6, <3>7
    <3>9. e[m] + f[rest(m)] <= e[m - 1] + f[rest(m - 1)]
      BY <1>7, <3>6
    <3>10. e[m] \in Nat /\ e[m - 1] \in Nat /\ f[rest(m)] \in Nat /\ f[rest(m - 1)] \in Nat
      BY <1>3, <1>6, <3>6, <3>4
    <3> HIDE DEF T, rest, total
    <3> QED
      BY <1>5, <3>4, <3>8, <3>9, <3>10
  <2> QED
    BY <2>1
<1>9. e[n] <= total
  <2>1. n \in 0..n
    BY <1>1
  <2>2. e[n] + f[rest(n)] <= total /\ e[n] \in Nat /\ f[rest(n)] \in Nat
    BY <1>3, <1>6, <1>8, <2>1
  <2> HIDE DEF rest, total
  <2> QED
    BY <1>5, <2>2
<1> QED
  BY <1>5, <1>9 DEF e, n

-----------------------------------------------------------------------------
(* The segments of a load *)

LEMMA RequiredKept ==
    ASSUME sect' = sect, NEW k
    PROVE  Required(k)' = Required(k)
BY DEF Required, AllocSections, Alloc, segOf, Needs, IsEh, FoldSet, MapThenFoldSet

\* Memory that is in use is that of the modules' segments.
LEMMA InUseIs ==
    /\ InUse = UNION {UNION {Chunk(m.seg, k) : k \in DOMAIN m.seg} : m \in ToSet(mods)}
    /\ Own = UNION {Chunk(seg, k) : k \in DOMAIN seg}
BY DEF InUse, Own, Chunk

Stages == {"alloc", "setvma", "reloc", "values"}

\* SegmentsTaken, of one segment and of two.
SegmentTaken(k) ==
    /\ seg[k].chunk \in {None, 0} \cup Segments[k].bases
    /\ seg[k].chunk = 0 => seg[k].size = 0
    /\ Chunk(seg, k) \cap InUse = {}
    /\ pc \in {"alloc", "setvma"} =>
         /\ seg[k].size = Required(k)
         /\ seg[k].vmacalc = IF seg[k].chunk \in {None, 0} THEN None ELSE seg[k].chunk
    /\ pc # "alloc" => seg[k].chunk # None

SegmentsDiffer == \A k, l \in DOMAIN seg : k # l => Chunk(seg, k) \cap Chunk(seg, l) = {}

LEMMA SegmentsTakenIs ==
    SegmentsTaken <=>
      /\ pc \in {"open", "attributes", "names", "symtab", "count"} => seg = cexpSegsInit
      /\ pc \in Stages => (\A k \in DOMAIN seg : SegmentTaken(k)) /\ SegmentsDiffer
BY DEF SegmentsTaken, Stages, SegmentTaken, SegmentsDiffer

\* Segments that are only counted, placed or kept.
LEMMA QuietTaken ==
    ASSUME SegmentsTaken, pc \in Stages, mods' = mods, pc' \in Stages \cup {"cleanup"},
           pc' \in {"alloc", "setvma"} => pc \in {"alloc", "setvma"} /\ sect' = sect /\ seg' = seg,
           pc' # "alloc" => \A k \in DOMAIN seg : seg[k].chunk # None,
           DOMAIN seg' = DOMAIN seg,
           \A k \in DOMAIN seg : seg'[k].chunk = seg[k].chunk /\ seg'[k].size = seg[k].size
    PROVE  SegmentsTaken'
<1>1. (\A k \in DOMAIN seg : SegmentTaken(k)) /\ SegmentsDiffer
  BY SegmentsTakenIs
<1>2. InUse' = InUse
  BY DEF InUse
<1>3. \A k \in DOMAIN seg : Chunk(seg, k)' = Chunk(seg, k)
  BY DEF Chunk
<1>4. ASSUME NEW k \in DOMAIN seg', pc' \in Stages
      PROVE  SegmentTaken(k)'
  <2>1. SegmentTaken(k) /\ seg'[k].chunk = seg[k].chunk /\ seg'[k].size = seg[k].size /\ Chunk(seg, k)' = Chunk(seg, k)
    BY <1>1, <1>3
  <2>2. CASE pc' \in {"alloc", "setvma"}
    <3>1. Required(k)' = Required(k)
      BY <2>2, RequiredKept
    <3> QED
      BY <1>2, <2>1, <2>2, <3>1 DEF SegmentTaken
  <2>3. CASE pc' \notin {"alloc", "setvma"}
    BY <1>2, <2>1, <2>3 DEF SegmentTaken
  <2> QED
    BY <2>2, <2>3
<1>5. SegmentsDiffer'
  BY <1>1, <1>3 DEF SegmentsDiffer
<1>6. pc' \notin {"open", "attributes", "names", "symtab", "count"}
  BY DEF Stages
<1> QED
  BY <1>4, <1>5, <1>6 DEF SegmentsTaken, Stages, SegmentTaken, SegmentsDiffer

LEMMA CountTaken ==
    ASSUME SegmentsTaken, s_count, DOMAIN seg = DOMAIN Segments
    PROVE  SegmentsTaken'
<1>1. seg = cexpSegsInit /\ sect' = sect /\ pc' \in {"cleanup", "alloc"}
      /\ seg' = [k \in DOMAIN seg |-> [seg[k] EXCEPT !.size = Required(k)]]
  BY DEF SegmentsTaken, s_count, Fail
<1>2. ASSUME NEW k \in DOMAIN seg'
      PROVE  /\ seg'[k].chunk = None /\ seg'[k].vmacalc = None /\ seg'[k].size = Required(k)
             /\ Chunk(seg, k)' = {} /\ Required(k)' = Required(k)
  <2>1. k \in DOMAIN Segments /\ k \in DOMAIN seg
    BY <1>1
  <2>2. seg[k] = [size |-> 0, chunk |-> None, vmacalc |-> None]
    BY <1>1, <2>1 DEF cexpSegsInit
  <2>3. PICK r : r = Required(k)
    OBVIOUS
  <2>4. seg'[k] = [size |-> r, chunk |-> None, vmacalc |-> None]
    BY <1>1, <2>1, <2>2, <2>3
  <2>5. seg'[k].chunk = None /\ seg'[k].vmacalc = None /\ seg'[k].size = Required(k)
    BY <2>3, <2>4
  <2>6. Required(k)' = Required(k)
    BY <1>1, RequiredKept
  <2> QED
    BY <2>5, <2>6 DEF Chunk
<1>3. CASE pc' = "alloc"
  <2>1. ASSUME NEW k \in DOMAIN seg'
        PROVE  SegmentTaken(k)'
    <3>1. None # 0
      BY ObjectsOK
    <3> QED
      BY <1>2, <1>3, <3>1 DEF SegmentTaken
  <2>2. SegmentsDiffer'
    BY <1>2 DEF SegmentsDiffer
  <2> QED
    BY <1>3, <2>1, <2>2 DEF SegmentsTaken, Stages, SegmentTaken, SegmentsDiffer
<1>4. CASE pc' = "cleanup"
  BY <1>4 DEF SegmentsTaken
<1> QED
  BY <1>1, <1>3, <1>4

SegmentType == [size : Nat, chunk : Nat \cup {None}, vmacalc : Nat \cup {None}]

\* A segment gets memory that no other one has, or has size 0.
LEMMA AllocTaken ==
    ASSUME SegmentsTaken, cexpSegsAlloc, DOMAIN seg = DOMAIN Segments,
           \A k \in DOMAIN seg : seg[k] \in SegmentType
    PROVE  SegmentsTaken' /\ \A k \in DOMAIN seg' : seg'[k] \in SegmentType /\ DOMAIN seg' = DOMAIN seg
<1> DEFINE todo == {k \in DOMAIN seg : seg[k].chunk = None}
           k == Min(todo)
<1>1. /\ pc = "alloc" /\ sect' = sect /\ mods' = mods
      /\ (\A l \in DOMAIN seg : SegmentTaken(l)) /\ SegmentsDiffer
  BY SegmentsTakenIs DEF cexpSegsAlloc, Stages
<1>2. CASE pc' = "cleanup" /\ seg' = seg
  BY <1>2 DEF SegmentsTaken
<1>3. CASE todo = {} /\ pc' = "setvma" /\ seg' = seg
  <2>1. \A l \in DOMAIN seg : seg[l].chunk # None
    BY <1>3
  <2>2. SegmentsTaken'
    BY <1>1, <1>3, <2>1, QuietTaken DEF Stages
  <2> QED
    BY <1>3, <2>2
<1>4. ASSUME NEW r \in todo, pc' = "alloc",
             \/ seg[r].size = 0 /\ seg' = [seg EXCEPT ![r].chunk = 0]
             \/ \E c \in Free(r, seg[r].size) : seg' = [seg EXCEPT ![r].chunk = c, ![r].vmacalc = c]
      PROVE  SegmentsTaken' /\ \A l \in DOMAIN seg' : seg'[l] \in SegmentType /\ DOMAIN seg' = DOMAIN seg
  <2>2. seg[r].chunk = None /\ SegmentTaken(r) /\ seg[r].vmacalc = None /\ seg[r].size = Required(r)
    <3>1. seg[r].chunk = None /\ SegmentTaken(r)
      BY <1>1
    <3> QED
      BY <1>1, <3>1 DEF SegmentTaken
  <2>1. r \in DOMAIN seg
    OBVIOUS
  <2> HIDE DEF k, todo
  <2>3. seg[r] = [size |-> seg[r].size, chunk |-> None, vmacalc |-> None] /\ seg[r].size \in Nat
    BY <2>1, <2>2 DEF SegmentType
  <2>4. PICK c \in {0} \cup Segments[r].bases :
          /\ seg' = [seg EXCEPT ![r] = [size |-> seg[r].size, chunk |-> c, vmacalc |-> IF c = 0 THEN None ELSE c]]
          /\ c = 0 => seg[r].size = 0
          /\ c # 0 => Span(c, seg[r].size) \cap (InUse \cup Own) = {}
    <3>1. CASE seg[r].size = 0 /\ seg' = [seg EXCEPT ![r].chunk = 0]
      <4>1. PICK s : s = [seg[r] EXCEPT !.chunk = 0]
        OBVIOUS
      <4>2. s = [size |-> seg[r].size, chunk |-> 0, vmacalc |-> None]
        BY <2>3, <4>1
      <4>3. seg' = [seg EXCEPT ![r] = s]
        BY <2>1, <3>1, <4>1
      <4> QED
        BY <3>1, <4>2, <4>3
    <3>2. ASSUME NEW c \in Free(r, seg[r].size), seg' = [seg EXCEPT ![r].chunk = c, ![r].vmacalc = c]
          PROVE  /\ seg' = [seg EXCEPT ![r] = [size |-> seg[r].size, chunk |-> c, vmacalc |-> IF c = 0 THEN None ELSE c]]
                 /\ c # 0 /\ c \in Segments[r].bases
                 /\ Span(c, seg[r].size) \cap (InUse \cup Own) = {}
      <4>1. c \in Segments[r].bases /\ Span(c, seg[r].size) \cap (InUse \cup Own) = {}
        BY <3>2 DEF Free
      <4>2. c # 0
        BY <2>1, <4>1, SegmentsOK
      <4>3. PICK s : s = [seg[r] EXCEPT !.chunk = c, !.vmacalc = c]
        OBVIOUS
      <4>4. s = [size |-> seg[r].size, chunk |-> c, vmacalc |-> c]
        BY <2>3, <4>3
      <4>5. seg' = [seg EXCEPT ![r] = s]
        BY <2>1, <3>2, <4>3
      <4> QED
        BY <4>1, <4>2, <4>4, <4>5
    <3> QED
      BY <1>4, <3>1, <3>2
  <2>5. /\ DOMAIN seg' = DOMAIN seg /\ \A l \in DOMAIN seg : l # r => seg'[l] = seg[l]
        /\ seg'[r].size = seg[r].size /\ seg'[r].chunk = c /\ seg'[r].vmacalc = IF c = 0 THEN None ELSE c
        /\ c \in Nat /\ c # None /\ None # 0
    <3>1. c \in Nat
      BY <2>1, <2>4, SegmentsOK
    <3> QED
      BY <2>1, <2>4, <3>1, ObjectsOK
  <2>6. \A l \in DOMAIN seg' : seg'[l] \in SegmentType
    <3>1. seg'[r] = [size |-> seg[r].size, chunk |-> c, vmacalc |-> IF c = 0 THEN None ELSE c]
      BY <2>1, <2>4
    <3>2. seg'[r] \in SegmentType
      BY <2>3, <2>5, <3>1 DEF SegmentType
    <3> QED
      BY <2>5, <3>2
  <2>7. InUse' = InUse /\ \A l \in DOMAIN seg : Required(l)' = Required(l)
    BY <1>1, RequiredKept DEF InUse
  <2>8. \A l \in DOMAIN seg : l # r => Chunk(seg, l)' = Chunk(seg, l)
    BY <2>5 DEF Chunk
  <2>9. Chunk(seg, r)' = (IF c = 0 THEN {} ELSE Span(c, seg[r].size))
    BY <2>5 DEF Chunk
  <2>10. Chunk(seg, r)' \cap (InUse \cup Own) = {}
    BY <2>4, <2>9
  <2>11. ASSUME NEW l \in DOMAIN seg'
         PROVE  SegmentTaken(l)'
    <3>1. CASE l = r
      BY <1>4, <2>2, <2>4, <2>5, <2>7, <2>10, <3>1 DEF SegmentTaken
    <3>2. CASE l # r
      BY <1>1, <1>4, <2>5, <2>7, <2>8, <3>2 DEF SegmentTaken
    <3> QED
      BY <3>1, <3>2
  <2>12. SegmentsDiffer'
    <3>1. \A l \in DOMAIN seg : Chunk(seg, l) \subseteq Own
      BY InUseIs
    <3>2. ASSUME NEW l \in DOMAIN seg', NEW m \in DOMAIN seg', l # m
          PROVE  Chunk(seg, l)' \cap Chunk(seg, m)' = {}
      <4>1. CASE l = r
        BY <2>5, <2>8, <2>10, <3>1, <3>2, <4>1
      <4>2. CASE m = r
        BY <2>5, <2>8, <2>10, <3>1, <3>2, <4>2
      <4>3. CASE l # r /\ m # r
        BY <1>1, <2>5, <2>8, <3>2, <4>3 DEF SegmentsDiffer
      <4> QED
        BY <4>1, <4>2, <4>3
    <3> QED
      BY <3>2 DEF SegmentsDiffer
  <2>13. SegmentsTaken'
    BY <1>4, <2>11, <2>12 DEF SegmentsTaken, SegmentTaken, SegmentsDiffer
  <2> QED
    BY <2>5, <2>6, <2>13
<1> QED
  <2>1. \/ Fail /\ seg' = seg
        \/ todo = {} /\ pc' = "setvma" /\ seg' = seg
        \/ todo # {} /\ pc' = "alloc" /\ (\/ seg[k].size = 0 /\ seg' = [seg EXCEPT ![k].chunk = 0]
                                          \/ \E c \in Free(k, seg[k].size) :
                                               seg' = [seg EXCEPT ![k].chunk = c, ![k].vmacalc = c])
    BY <1>1 DEF cexpSegsAlloc, AllocEmpty
  <2>2. todo # {} => k \in todo
    <3>1. todo \subseteq DOMAIN Segments
      OBVIOUS
    <3> HIDE DEF todo
    <3> QED
      BY <3>1, FirstSegment
  <2> HIDE DEF k, todo
  <2> QED
    BY <1>2, <1>3, <1>4, <2>1, <2>2 DEF Fail

-----------------------------------------------------------------------------
(* Sections are placed in their segments *)

\* Where section i is put, and what it occupies there.
Slot(i) == align_power(Placement(segOf(sect[i]))[i - 1], sect[i].align)
Room(i) == sect[i].size + (IF i = eh_section THEN LongBytes ELSE 0)

\* Sections follow each other.
LEMMA SlotAfter ==
    ASSUME FileShown, CommonsKept, pc \in AfterNames, NEW i \in Sized, NEW k, k = segOf(sect[i]),
           seg[k].vmacalc \in Nat
    PROVE  /\ Slot(i) \in Nat /\ Room(i) \in Nat \ {0} /\ Slot(i) % 2^sect[i].align = 0
           /\ seg[k].vmacalc <= Slot(i) /\ Slot(i) + Room(i) <= seg[k].vmacalc + Required(k)
           /\ Required(k) \in Nat
           /\ \A j \in Sized : segOf(sect[j]) = k /\ j < i => Slot(j) + Room(j) <= Slot(i)
<1> DEFINE n == Len(sect)
           e == Placement(k)
<1>1. n \in Nat /\ DOMAIN sect = 1..n /\ Sized \subseteq 1..n
  BY NeedsFacts DEF Sized, AllocSections
<1>2. e \in [0..n -> Nat] /\ PlacementAt(e, k)
  BY PlacementIs
<1>3. \A j \in 1..n : e[j - 1] <= e[j]
  BY PlacementIs
<1>4. Required(k) \in Nat /\ e[n] <= seg[k].vmacalc + Required(k)
  BY PlacementFits
<1> HIDE DEF e
<1>5. e[0] = seg[k].vmacalc
  BY <1>2 DEF PlacementAt
<1>6. ASSUME NEW j \in Sized, segOf(sect[j]) = k
      PROVE  /\ j \in 1..n /\ e[j - 1] \in Nat /\ e[j] \in Nat /\ Slot(j) \in Nat /\ Room(j) \in Nat \ {0}
             /\ Slot(j) % 2^sect[j].align = 0 /\ e[j - 1] <= Slot(j) /\ e[j] = Slot(j) + Room(j)
  <2>1. j \in 1..n /\ j - 1 \in 0..n
    BY <1>1
  <2>2. e[j - 1] \in Nat /\ e[j] \in Nat
    BY <1>1, <1>2, <2>1
  <2>3. sect[j].size \in Nat /\ sect[j].size > 0 /\ 2^sect[j].align \in Nat \ {0}
    BY <1>1, <2>1, SectionFacts DEF Sized
  <2>4. Slot(j) = align_power(e[j - 1], sect[j].align)
    BY <1>6 DEF Slot, e
  <2>5. Slot(j) \in Nat /\ e[j - 1] <= Slot(j) /\ Slot(j) % 2^sect[j].align = 0
    BY <2>2, <2>3, <2>4, Aligned_power
  <2>6. Room(j) \in Nat \ {0}
    BY <2>3, SizesOK DEF Room
  <2>7. e[j] = align_power(e[j - 1], sect[j].align) + sect[j].size + (IF j = eh_section THEN LongBytes ELSE 0)
    BY <1>2, <1>6, <2>1 DEF PlacementAt
  <2>8. e[j] = Slot(j) + Room(j)
    <3>1. PICK a, b, c : a = Slot(j) /\ b = sect[j].size /\ c = IF j = eh_section THEN LongBytes ELSE 0
      OBVIOUS
    <3>2. a \in Nat /\ b \in Nat /\ c \in Nat
      BY <2>3, <2>5, <3>1, SizesOK
    <3>3. e[j] = a + b + c /\ Room(j) = b + c
      BY <2>4, <2>7, <3>1 DEF Room
    <3> QED
      BY <3>1, <3>2, <3>3
  <2> QED
    BY <2>1, <2>2, <2>5, <2>6, <2>8
<1>7. \A j, l \in 0..n : j <= l => e[j] <= e[l]
  BY <1>1, <1>2, <1>3, Monotone
<1>8. e[0] <= e[i - 1] /\ e[i] <= e[n] /\ e[n] \in Nat /\ e[0] \in Nat
  <2>1. i \in 1..n
    BY <1>6
  <2>2. i - 1 \in 0..n /\ 0 \in 0..n /\ i \in 0..n /\ n \in 0..n /\ 0 <= i - 1 /\ i <= n
    BY <1>1, <2>1
  <2> QED
    BY <1>2, <1>7, <2>2
<1>9. ASSUME NEW j \in Sized, segOf(sect[j]) = k, j < i
      PROVE  Slot(j) + Room(j) <= Slot(i)
  <2>1. j \in 1..n /\ i \in 1..n /\ e[j] = Slot(j) + Room(j) /\ e[i - 1] <= Slot(i) /\ e[i - 1] \in Nat /\ e[j] \in Nat
        /\ Slot(i) \in Nat
    BY <1>6, <1>9
  <2>2. j \in 0..n /\ i - 1 \in 0..n /\ j <= i - 1
    BY <1>1, <1>9, <2>1
  <2>3. e[j] <= e[i - 1]
    BY <1>7, <2>2
  <2> QED
    BY <2>1, <2>3
<1>10. /\ Slot(i) \in Nat /\ Room(i) \in Nat \ {0} /\ Slot(i) % 2^sect[i].align = 0
       /\ e[i - 1] \in Nat /\ e[i - 1] <= Slot(i) /\ e[i] = Slot(i) + Room(i)
  BY <1>6
<1>11. seg[k].vmacalc <= Slot(i)
  BY <1>5, <1>8, <1>10
<1>12. Slot(i) + Room(i) <= seg[k].vmacalc + Required(k)
  BY <1>4, <1>8, <1>10
<1> QED
  BY <1>4, <1>9, <1>10, <1>11, <1>12

\* What follows something in a segment of n bytes at c is apart from it.
LEMMA SpanFacts ==
    ASSUME NEW a \in Nat, NEW n \in Nat \ {0}, NEW b \in Nat, NEW l \in Nat \ {0}
    PROVE  /\ a \in Span(a, n)
           /\ a + n <= b => Span(a, n) \cap Span(b, l) = {}
           /\ b <= a /\ a + n <= b + l => Span(a, n) \subseteq Span(b, l)
BY DEF Span

\* Module m has the sections of the load where s_setvma puts them.
LEMMA SlotsFit ==
    ASSUME FileShown, CommonsKept, SegmentsTaken, pc = "setvma", DOMAIN seg = DOMAIN Segments,
           \A i \in Sized : seg[segOf(sect[i])].vmacalc # None,
           NEW m, DOMAIN m.sect = DOMAIN sect, DOMAIN m.seg = DOMAIN seg,
           \A i \in DOMAIN sect : /\ m.sect[i].size = sect[i].size /\ m.sect[i].align = sect[i].align
                                  /\ m.sect[i].flags = sect[i].flags,
           \A i \in Sized : m.sect[i].vma = Slot(i),
           \A k \in DOMAIN seg : m.seg[k].chunk = seg[k].chunk /\ m.seg[k].size = seg[k].size,
           m.frame = IF eh_section = 0 THEN None ELSE m.sect[eh_section].vma
    PROVE  Fits(m) /\ Apart(m)
<1>1. pc \in AfterNames /\ DOMAIN sect = 1..Len(sect) /\ Sized \subseteq DOMAIN sect /\ Loaded(m) = Sized
  <2>1. pc \in AfterNames
    BY DEF AfterNames, AfterSymtab
  <2>2. Loaded(m) = Sized
    BY DEF Loaded, Sized, AllocSections, Alloc
  <2> QED
    BY <2>1, <2>2, NeedsFacts DEF Sized, AllocSections
<1>2. ASSUME NEW i \in Sized, NEW k, k = segOf(sect[i])
      PROVE  /\ k \in DOMAIN seg /\ segOf(m.sect[i]) = k /\ seg[k].vmacalc \in Nat
             /\ Chunk(seg, k) = Span(seg[k].chunk, seg[k].size)
             /\ Span(Slot(i), Room(i)) \subseteq Chunk(seg, k)
  <2>1. k \in DOMAIN seg /\ segOf(m.sect[i]) = k
    BY <1>1, <1>2, SegmentOf DEF segOf
  <2>2. /\ seg[k].chunk \in Segments[k].bases /\ seg[k].chunk \in Nat /\ seg[k].chunk \notin {0, None}
        /\ seg[k].vmacalc = seg[k].chunk /\ seg[k].size = Required(k)
    <3>1. SegmentTaken(k) /\ seg[k].vmacalc # None
      BY <1>2, <2>1, SegmentsTakenIs DEF Stages
    <3>2. seg[k].chunk \in Segments[k].bases /\ seg[k].chunk \notin {0, None}
          /\ seg[k].vmacalc = seg[k].chunk /\ seg[k].size = Required(k)
      BY <3>1 DEF SegmentTaken
    <3> QED
      BY <2>1, <3>2, SegmentsOK
  <2>3. /\ Slot(i) \in Nat /\ Room(i) \in Nat \ {0} /\ Required(k) \in Nat
        /\ seg[k].vmacalc <= Slot(i) /\ Slot(i) + Room(i) <= seg[k].vmacalc + Required(k)
    BY <1>1, <1>2, <2>2, SlotAfter
  <2>4. Required(k) \in Nat \ {0}
    BY <2>2, <2>3
  <2>5. Span(Slot(i), Room(i)) \subseteq Span(seg[k].chunk, seg[k].size)
    BY <2>2, <2>3, <2>4, SpanFacts
  <2> QED
    BY <2>1, <2>2, <2>5 DEF Chunk
<1>3. \A i \in Sized : Slot(i) \in Nat /\ Room(i) \in Nat \ {0} /\ Slot(i) % 2^sect[i].align = 0
  BY <1>1, <1>2, SlotAfter
<1>4. ASSUME NEW i \in Sized, NEW j \in Sized, j < i
      PROVE  Span(Slot(i), Room(i)) \cap Span(Slot(j), Room(j)) = {}
  <2>1. CASE segOf(sect[i]) = segOf(sect[j])
    <3>1. Slot(j) + Room(j) <= Slot(i)
      BY <1>1, <1>2, <1>4, <2>1, SlotAfter
    <3>2. Slot(i) \in Nat /\ Room(i) \in Nat \ {0} /\ Slot(j) \in Nat /\ Room(j) \in Nat \ {0}
      BY <1>3
    <3> QED
      BY <3>1, <3>2, SpanFacts
  <2>2. CASE segOf(sect[i]) # segOf(sect[j])
    <3>1. SegmentsDiffer
      BY SegmentsTakenIs DEF Stages
    <3>2. Chunk(seg, segOf(sect[i])) \cap Chunk(seg, segOf(sect[j])) = {}
      BY <1>2, <2>2, <3>1 DEF SegmentsDiffer
    <3>3. /\ Span(Slot(i), Room(i)) \subseteq Chunk(seg, segOf(sect[i]))
          /\ Span(Slot(j), Room(j)) \subseteq Chunk(seg, segOf(sect[j]))
      BY <1>2
    <3> QED
      BY <3>2, <3>3
  <2> QED
    BY <2>1, <2>2
<1>5. ASSUME NEW i \in Sized, NEW j \in Sized, i # j
      PROVE  Span(Slot(i), Room(i)) \cap Span(Slot(j), Room(j)) = {}
  <2>1. i < j \/ j < i
    BY <1>1, <1>5
  <2>2. CASE j < i
    BY <1>4, <2>2
  <2>3. CASE i < j
    <3>1. Span(Slot(j), Room(j)) \cap Span(Slot(i), Room(i)) = {}
      BY <1>4, <2>3
    <3> QED
      BY <3>1
  <2> QED
    BY <2>1, <2>2, <2>3
<1>6. ASSUME NEW i \in Sized
      PROVE  Extent(m, i) = Span(Slot(i), Room(i))
  <2>1. m.sect[i].vma = Slot(i) /\ m.sect[i].size = sect[i].size /\ i # 0
    BY <1>1
  <2>2. (m.frame # None /\ m.sect[i].vma = m.frame) <=> i = eh_section
    <3>1. CASE eh_section = 0
      BY <2>1, <3>1
    <3>2. CASE eh_section # 0
      <4>1. eh_section \in Sized
        BY <1>1, <3>2, EhIs
      <4>2. m.frame = Slot(eh_section)
        BY <3>2, <4>1
      <4>3. Slot(eh_section) \in Nat /\ Slot(eh_section) # None
        BY <1>3, <4>1, ObjectsOK
      <4>4. i # eh_section => Slot(i) # Slot(eh_section)
        <5>1. Slot(i) \in Span(Slot(i), Room(i)) /\ Slot(eh_section) \in Span(Slot(eh_section), Room(eh_section))
          BY <1>3, <4>1, SpanFacts
        <5> QED
          BY <1>5, <4>1, <5>1
      <4> QED
        BY <2>1, <4>2, <4>3, <4>4
    <3> QED
      BY <3>1, <3>2
  <2> QED
    BY <2>1, <2>2 DEF Extent, Room
<1>7. Fits(m)
  <2>1. ASSUME NEW i \in Sized
        PROVE  /\ m.sect[i].vma % 2^m.sect[i].align = 0
               /\ Extent(m, i) \subseteq Span(m.seg[segOf(m.sect[i])].chunk, m.seg[segOf(m.sect[i])].size)
    <3>1. m.sect[i].vma = Slot(i) /\ m.sect[i].align = sect[i].align /\ Slot(i) % 2^sect[i].align = 0
      BY <1>1, <1>3
    <3>2. PICK k : k = segOf(sect[i])
      OBVIOUS
    <3>3. /\ segOf(m.sect[i]) = k /\ m.seg[k].chunk = seg[k].chunk /\ m.seg[k].size = seg[k].size
          /\ Span(Slot(i), Room(i)) \subseteq Span(seg[k].chunk, seg[k].size)
      BY <1>2, <3>2
    <3> QED
      BY <1>6, <3>1, <3>3
  <2> QED
    BY <1>1, <2>1 DEF Fits
<1>8. Apart(m)
  BY <1>1, <1>5, <1>6 DEF Apart
<1> QED
  BY <1>7, <1>8

\* Sections of a load are records, whoever made them.
LEMMA SectionShape ==
    ASSUME FileShown, CommonsKept, pc \in AfterNames, NEW i \in DOMAIN sect
    PROVE  sect[i] = [name |-> sect[i].name, size |-> sect[i].size, align |-> sect[i].align,
                      flags |-> sect[i].flags, members |-> sect[i].members, vma |-> sect[i].vma]
<1>1. CASE i \in DOMAIN obj.elf.shdrs
  <2>1. SectionOf(sect[i], elf2bfdsec(obj.elf, i))
    BY <1>1 DEF FileShown, Loading
  <2> QED
    BY <2>1, SectionIs
<1>2. CASE i \notin DOMAIN obj.elf.shdrs
  <2>1. i = Len(sect) /\ common # <<>>
    BY <1>2, SectionFacts
  <2>2. CommonsRight(obj, sect, common)
    BY <2>1 DEF FileShown, CommonsKept, AfterNames
  <2>3. PICK s : s = sect[i]
    OBVIOUS
  <2>4. s = [name |-> ".dummy", size |-> s.size, align |-> s.align, flags |-> {"alloc"},
             members |-> <<>>, vma |-> s.vma]
    BY <2>1, <2>2, <2>3 DEF CommonsRight
  <2>5. s.name = ".dummy" /\ s.flags = {"alloc"} /\ s.members = <<>>
    BY <2>4
  <2>6. s = [name |-> s.name, size |-> s.size, align |-> s.align, flags |-> s.flags, members |-> s.members, vma |-> s.vma]
    BY <2>4, <2>5
  <2> QED
    BY <2>3, <2>6
<1> QED
  BY <1>1, <1>2

\* What s_setvma does to sections and segments.
LEMMA SetvmaIs ==
    ASSUME FileShown, CommonsKept, SegmentsTaken, s_setvma, pc' # "cleanup", DOMAIN seg = DOMAIN Segments,
           \A k \in DOMAIN seg : seg[k] \in SegmentType
    PROVE  /\ pc' = "reloc" /\ pc = "setvma"
           /\ \A i \in Sized : seg[segOf(sect[i])].vmacalc # None /\ Slot(i) \in Nat
           /\ DOMAIN sect' = DOMAIN sect
           /\ \A i \in DOMAIN sect :
                /\ sect'[i].name = sect[i].name /\ sect'[i].size = sect[i].size /\ sect'[i].align = sect[i].align
                /\ sect'[i].flags = sect[i].flags /\ sect'[i].members = sect[i].members
                /\ sect'[i].vma = IF i \in Sized THEN Slot(i) ELSE sect[i].vma
           /\ DOMAIN seg' = DOMAIN seg
           /\ \A k \in DOMAIN seg : seg'[k].chunk = seg[k].chunk /\ seg'[k].size = seg[k].size /\ seg'[k] \in SegmentType
<1>1. /\ pc' = "reloc" /\ pc = "setvma"
      /\ \A i \in Sized : seg[segOf(sect[i])].vmacalc # None
      /\ sect' = [i \in DOMAIN sect |-> IF i \in Sized THEN [sect[i] EXCEPT !.vma = Slot(i)] ELSE sect[i]]
      /\ seg' = [k \in DOMAIN seg |->
           IF seg[k].vmacalc = None THEN seg[k]
           ELSE [seg[k] EXCEPT !.vmacalc = Placement(k)[Len(sect)]]]
  BY DEF s_setvma, Fail, Slot
<1>2. pc \in AfterNames /\ Sized \subseteq DOMAIN sect /\ Len(sect) \in Nat
  <2>1. pc \in AfterNames
    BY <1>1 DEF AfterNames, AfterSymtab
  <2> QED
    BY <2>1, NeedsFacts DEF Sized, AllocSections
<1>3. ASSUME NEW i \in Sized
      PROVE  Slot(i) \in Nat
  <2>1. PICK k : k = segOf(sect[i])
    OBVIOUS
  <2>2. seg[k] \in SegmentType /\ seg[k].vmacalc # None
    BY <1>1, <2>1, SegmentOf
  <2>3. seg[k].vmacalc \in Nat
    BY <2>2 DEF SegmentType
  <2> QED
    BY <1>2, <2>1, <2>3, SlotAfter
<1>4. ASSUME NEW i \in DOMAIN sect
      PROVE  /\ sect'[i].name = sect[i].name /\ sect'[i].size = sect[i].size /\ sect'[i].align = sect[i].align
             /\ sect'[i].flags = sect[i].flags /\ sect'[i].members = sect[i].members
             /\ sect'[i].vma = IF i \in Sized THEN Slot(i) ELSE sect[i].vma
  <2>1. CASE i \notin Sized
    BY <1>1, <2>1
  <2>2. CASE i \in Sized
    <3>1. PICK s, v : s = sect[i] /\ v = Slot(i)
      OBVIOUS
    <3>2. s = [name |-> s.name, size |-> s.size, align |-> s.align, flags |-> s.flags,
               members |-> s.members, vma |-> s.vma]
      BY <1>2, <3>1, SectionShape
    <3>3. PICK t : t = [s EXCEPT !.vma = v]
      OBVIOUS
    <3>4. t = [name |-> s.name, size |-> s.size, align |-> s.align, flags |-> s.flags,
               members |-> s.members, vma |-> v]
      BY <3>2, <3>3
    <3>5. sect'[i] = t
      BY <1>1, <2>2, <3>1, <3>3
    <3>6. /\ t.name = s.name /\ t.size = s.size /\ t.align = s.align /\ t.flags = s.flags
          /\ t.members = s.members /\ t.vma = v
      BY <3>4
    <3> QED
      BY <2>2, <3>1, <3>5, <3>6
  <2> QED
    BY <2>1, <2>2
<1>5. ASSUME NEW k \in DOMAIN seg
      PROVE  seg'[k].chunk = seg[k].chunk /\ seg'[k].size = seg[k].size /\ seg'[k] \in SegmentType
  <2>1. CASE seg[k].vmacalc = None
    BY <1>1, <2>1
  <2>2. CASE seg[k].vmacalc # None
    <3>1. PICK s, v : s = seg[k] /\ v = Placement(k)[Len(sect)]
      OBVIOUS
    <3>2. s \in SegmentType /\ s.vmacalc \in Nat
      BY <2>2, <3>1 DEF SegmentType
    <3>3. v \in Nat
      <4>1. Placement(k) \in [0..Len(sect) -> Nat]
        BY <1>2, <3>1, <3>2, PlacementIs
      <4> QED
        BY <1>2, <3>1, <4>1
    <3>4. seg'[k] = [s EXCEPT !.vmacalc = v]
      BY <1>1, <2>2, <3>1
    <3> QED
      BY <3>1, <3>2, <3>3, <3>4 DEF SegmentType
  <2> QED
    BY <2>1, <2>2
<1> QED
  BY <1>1, <1>3, <1>4, <1>5

\* All sections are in their segments then.
LEMMA SetvmaPlaced ==
    ASSUME FileShown, CommonsKept, SegmentsTaken, s_setvma, DOMAIN seg = DOMAIN Segments,
           \A k \in DOMAIN seg : seg[k] \in SegmentType, \A i \in DOMAIN sect : sect[i].vma \in Nat
    PROVE  /\ SegmentsTaken' /\ SectionsPlaced' /\ DOMAIN seg' = DOMAIN seg
           /\ \A k \in DOMAIN seg' : seg'[k] \in SegmentType
           /\ \A i \in DOMAIN sect' : sect'[i].vma \in Nat
<1>1. pc = "setvma" /\ mods' = mods /\ pc' \in {"cleanup", "reloc"}
  BY DEF s_setvma, Fail
<1>2. CASE pc' = "cleanup"
  <2>1. UNCHANGED <<sect, seg>>
    BY <1>2 DEF s_setvma
  <2>2. SegmentsTaken'
    BY <1>2 DEF SegmentsTaken
  <2> QED
    BY <1>2, <2>1, <2>2 DEF SectionsPlaced
<1>3. CASE pc' # "cleanup"
  <2>1. /\ pc' = "reloc"
        /\ \A i \in Sized : seg[segOf(sect[i])].vmacalc # None /\ Slot(i) \in Nat
        /\ DOMAIN sect' = DOMAIN sect
        /\ \A i \in DOMAIN sect :
             /\ sect'[i].name = sect[i].name /\ sect'[i].size = sect[i].size /\ sect'[i].align = sect[i].align
             /\ sect'[i].flags = sect[i].flags /\ sect'[i].members = sect[i].members
             /\ sect'[i].vma = IF i \in Sized THEN Slot(i) ELSE sect[i].vma
        /\ DOMAIN seg' = DOMAIN seg
        /\ \A k \in DOMAIN seg : seg'[k].chunk = seg[k].chunk /\ seg'[k].size = seg[k].size /\ seg'[k] \in SegmentType
    BY <1>3, SetvmaIs
  <2>2. SegmentsTaken'
    <3>1. \A k \in DOMAIN seg : seg[k].chunk # None
      BY <1>1 DEF SegmentsTaken
    <3> QED
      BY <1>1, <2>1, <3>1, QuietTaken DEF Stages
  <2>3. eh_section' = eh_section
    <3>1. AllocSections' = AllocSections
      BY <2>1 DEF AllocSections, Alloc
    <3>2. EhSections' = EhSections
      BY <2>1, <3>1 DEF EhSections, IsEh, AllocSections
    <3> QED
      BY <3>2 DEF eh_section
  <2>4. PICK m : m = Pending'
    OBVIOUS
  <2>5. m.sect = sect' /\ m.seg = seg' /\ m.frame = IF eh_section = 0 THEN None ELSE m.sect[eh_section].vma
    BY <2>3, <2>4 DEF Pending
  <2>6. Sized \subseteq DOMAIN sect
    BY DEF Sized, AllocSections
  <2>7. Fits(m) /\ Apart(m)
    BY <1>1, <2>1, <2>5, <2>6, SlotsFit
  <2>8. SectionsPlaced'
    BY <2>4, <2>7 DEF SectionsPlaced
  <2> QED
    BY <2>1, <2>2, <2>6, <2>8
<1> QED
  BY <1>1, <1>2, <1>3

-----------------------------------------------------------------------------
(* TypeOK, SegmentsTaken and SectionsPlaced at each step *)

\* The parts of TypeOK that Holding does not say.
Typed ==
    /\ DOMAIN seg = (IF pc = "idle" THEN {} ELSE DOMAIN Segments)
    /\ \A k \in DOMAIN seg : seg[k] \in SegmentType
    /\ \A i \in DOMAIN sect : sect[i].vma \in Nat
    /\ forced \in BOOLEAN /\ loads \in 0..MaxLoads

LEMMA TypeIs == TypeOK /\ Owned <=> Holding /\ Typed
BY DEF TypeOK, Holding, Typed, SegmentType, Places, All

LEMMA FreshSegments ==
    /\ DOMAIN cexpSegsInit = DOMAIN Segments
    /\ \A k \in DOMAIN Segments : cexpSegsInit[k] \in SegmentType
BY DEF cexpSegsInit, SegmentType

\* Nothing of the load changes, but perhaps where it is.
LEMMA KeptTaken ==
    ASSUME SegmentsTaken, SectionsPlaced, UNCHANGED <<seg, sect, obj, common, mods>>,
           pc' = pc \/ (pc = "reloc" /\ pc' = "values")
    PROVE  SegmentsTaken' /\ SectionsPlaced'
<1>1. SegmentsTaken'
  <2>1. CASE pc' = pc
    <3>1. InUse' = InUse /\ (\A k \in DOMAIN seg : Chunk(seg, k)' = Chunk(seg, k)) /\ cexpSegsInit' = cexpSegsInit
      BY DEF InUse, Chunk, cexpSegsInit
    <3>2. \A k \in DOMAIN seg : Required(k)' = Required(k)
      BY RequiredKept
    <3>3. \A k \in DOMAIN seg : SegmentTaken(k) => SegmentTaken(k)'
      BY <2>1, <3>1, <3>2 DEF SegmentTaken
    <3>4. SegmentsDiffer => SegmentsDiffer'
      BY <3>1 DEF SegmentsDiffer
    <3> QED
      BY <2>1, <3>1, <3>3, <3>4 DEF SegmentsTaken, Stages, SegmentTaken, SegmentsDiffer
  <2>2. CASE pc = "reloc" /\ pc' = "values"
    <3>1. \A k \in DOMAIN seg : seg[k].chunk # None
      BY <2>2 DEF SegmentsTaken
    <3> QED
      BY <2>2, <3>1, QuietTaken DEF Stages
  <2> QED
    BY <2>1, <2>2
<1>2. SectionsPlaced'
  <2>1. Pending' = Pending
    BY DEF Pending, eh_section, EhSections, AllocSections, Alloc, IsEh
  <2>2. PICK m : m = Pending /\ m = Pending'
    BY <2>1
  <2> QED
    BY <2>2 DEF SectionsPlaced
<1> QED
  BY <1>1, <1>2

\* What each step makes of segments and sections.
LEMMA StepTaken ==
    ASSUME Typed, FileShown, CommonsKept, SegmentsTaken, SectionsPlaced, [Next]_vars
    PROVE  Typed' /\ SegmentsTaken' /\ SectionsPlaced'
<1> DEFINE Early == {"open", "attributes", "names", "symtab", "count"}
<1>1. CASE UNCHANGED vars
  <2>1. UNCHANGED <<seg, sect, obj, common, mods>> /\ pc' = pc
    BY <1>1 DEF vars
  <2>2. Typed'
    BY <1>1 DEF vars, Typed
  <2>3. SegmentsTaken' /\ SectionsPlaced'
    BY <2>1, KeptTaken
  <2> QED
    BY <2>2, <2>3
<1>2. ASSUME NEW o \in Objects, Search(o)
      PROVE  Typed' /\ SegmentsTaken' /\ SectionsPlaced'
  <2>1. /\ pc = "idle" /\ pc' \in {"cleanup", "open", "fault"} /\ seg' = cexpSegsInit /\ sect' = sect
        /\ loads < MaxLoads /\ loads' = loads + 1 /\ forced' = forced
    BY <1>2 DEF Search, Fail
  <2>2. cexpSegsInit' = cexpSegsInit
    BY DEF cexpSegsInit
  <2>3. Typed'
    BY <2>1, FreshSegments, SizesOK DEF Typed
  <2> QED
    BY <2>1, <2>2, <2>3 DEF SegmentsTaken, SectionsPlaced
<1>3. ASSUME pc \in Early, pc' \in (Early \ {"open"}) \cup {"cleanup", "hangs", "fault"}, seg' = seg, forced' = forced,
             loads' = loads,
             \A i \in DOMAIN sect' : sect'[i].vma \in Nat
      PROVE  Typed' /\ SegmentsTaken' /\ SectionsPlaced'
  <2>1. seg = cexpSegsInit /\ cexpSegsInit' = cexpSegsInit
    BY <1>3 DEF SegmentsTaken, cexpSegsInit
  <2>2. Typed'
    BY <1>3 DEF Typed
  <2> QED
    BY <1>3, <2>1, <2>2 DEF SegmentsTaken, SectionsPlaced
<1>4. CASE Open
  <2>1. CASE pc' = "cleanup" /\ sect' = sect
    <3>1. pc = "open" /\ seg' = seg /\ forced' = forced /\ loads' = loads
      BY <1>4 DEF Open
    <3> QED
      BY <1>3, <2>1, <3>1 DEF Typed
  <2>2. CASE pc' \in {"attributes", "cleanup"} /\ sect' = Sections(obj.elf)
    <3>1. pc = "open" /\ seg' = seg /\ forced' = forced /\ loads' = loads
      BY <1>4 DEF Open
    <3>2. obj.elf \in Objects
      BY <3>1 DEF FileShown
    <3>3. ASSUME NEW i \in DOMAIN sect'
          PROVE  sect'[i].vma \in Nat
      BY <2>2, <3>2, ObjectFacts DEF Sections, elf2bfdsec
    <3> QED
      BY <1>3, <2>2, <3>1, <3>3
  <2> QED
    BY <1>4, <2>1, <2>2 DEF Open, Refused, Fail
<1>5. CASE Attributed
  BY <1>3, <1>5 DEF Attributed, Typed
<1>6. CASE Names
  <2>1. \A i \in DOMAIN sect' : sect'[i].vma \in Nat
    BY <1>6, NamesShown DEF Typed
  <2> QED
    BY <1>3, <1>6, <2>1 DEF Names, Fail
<1>7. CASE slurp_symtab
  <2>1. /\ pc = "symtab" /\ pc' \in {"count", "cleanup", "fault"} /\ seg' = seg
        /\ forced' = forced /\ loads' = loads
    BY <1>7 DEF slurp_symtab, TableFault, Fail
  <2>2. CASE sect' = sect
    BY <1>3, <2>1, <2>2 DEF Typed
  <2>3. ASSUME NEW order \in SetToSeqs(Commons), SortedByAlign(order), Commons # {},
               sect' = Append(sect, Dummy(order))
        PROVE  \A i \in DOMAIN sect' : sect'[i].vma \in Nat
    <3>1. obj.elf \in Objects /\ obj = ObjectOf(obj.elf) /\ sect \in Seq(ToSet(sect))
      BY <2>1 DEF FileShown, Loading, AfterNames
    <3>2. Dummy(order).vma = 0
      BY <2>3, <3>1, CommonsMade
    <3>3. PICK d : d = Dummy(order)
      OBVIOUS
    <3>4. /\ DOMAIN sect' = 1..(Len(sect) + 1) /\ sect'[Len(sect) + 1] = d /\ DOMAIN sect = 1..Len(sect)
          /\ Len(sect) \in Nat /\ \A i \in DOMAIN sect : sect'[i] = sect[i]
      BY <2>3, <3>1, <3>3, Appended, DomainOf
    <3>5. ASSUME NEW i \in DOMAIN sect'
          PROVE  i \in DOMAIN sect \/ i = Len(sect) + 1
      BY <3>4
    <3> QED
      BY <3>2, <3>3, <3>4, <3>5 DEF Typed
  <2>4. sect' = sect \/ \E order \in SetToSeqs(Commons) :
          SortedByAlign(order) /\ Commons # {} /\ sect' = Append(sect, Dummy(order))
    BY <1>7 DEF slurp_symtab, TableFault
  <2> QED
    BY <1>3, <2>1, <2>2, <2>3, <2>4
<1>8. CASE s_count
  <2>1. /\ pc = "count" /\ pc' \in {"alloc", "cleanup"} /\ sect' = sect /\ forced' = forced /\ loads' = loads
        /\ seg' = [k \in DOMAIN seg |-> [seg[k] EXCEPT !.size = Required(k)]]
    BY <1>8 DEF s_count, Fail
  <2>2. DOMAIN seg = DOMAIN Segments
    BY <2>1 DEF Typed
  <2>3. ASSUME NEW k \in DOMAIN seg
        PROVE  seg'[k] \in SegmentType
    <3>1. Required(k) \in Nat
      <4>1. pc \in AfterNames
        BY <2>1 DEF AfterNames, AfterSymtab
      <4>2. PICK f \in [SUBSET Contents(k) -> Nat] : Required(k) = f[Contents(k)]
        BY <4>1, RequiredIs
      <4> QED
        BY <4>2
    <3> QED
      BY <2>1, <3>1 DEF Typed, SegmentType
  <2>4. Typed'
    BY <2>1, <2>2, <2>3 DEF Typed
  <2> QED
    BY <1>8, <2>1, <2>2, <2>4, CountTaken DEF SectionsPlaced
<1>9. CASE cexpSegsAlloc
  <2>1. pc = "alloc" /\ pc' \in {"alloc", "setvma", "cleanup"} /\ sect' = sect /\ forced' = forced /\ loads' = loads
    BY <1>9 DEF cexpSegsAlloc, Fail
  <2>2. SegmentsTaken' /\ \A k \in DOMAIN seg' : seg'[k] \in SegmentType /\ DOMAIN seg' = DOMAIN seg
    BY <1>9, <2>1, AllocTaken DEF Typed
  <2>3. DOMAIN seg' = DOMAIN seg
    <3>1. seg' = seg \/ \E k, c : seg' = [seg EXCEPT ![k].chunk = 0] \/ seg' = [seg EXCEPT ![k].chunk = c, ![k].vmacalc = c]
      BY <1>9 DEF cexpSegsAlloc, AllocEmpty
    <3> QED
      BY <3>1
  <2> QED
    BY <2>1, <2>2, <2>3 DEF Typed, SectionsPlaced
<1>10. CASE s_setvma
  <2>1. pc = "setvma" /\ pc' \in {"reloc", "cleanup"} /\ forced' = forced /\ loads' = loads
    BY <1>10 DEF s_setvma, Fail
  <2> QED
    BY <1>10, <2>1, SetvmaPlaced DEF Typed
<1>11. CASE s_reloc
  <2>1. /\ pc = "reloc" /\ pc' \in {"values", "cleanup"} /\ UNCHANGED <<obj, sect, seg, common, mods>>
        /\ forced' = forced /\ loads' = loads
    BY <1>11 DEF s_reloc, Fail
  <2>2. Typed'
    BY <2>1 DEF Typed
  <2>3. CASE pc' = "cleanup"
    BY <2>2, <2>3 DEF SegmentsTaken, SectionsPlaced
  <2> QED
    BY <2>1, <2>2, <2>3, KeptTaken
<1>12. CASE Finish
  <2>1. /\ pc = "values" /\ pc' \in {"cleanup", "fault"} /\ sect' = sect /\ seg' = seg
        /\ forced' = forced /\ loads' = loads
    BY <1>12 DEF Finish, Fail
  <2> QED
    BY <2>1 DEF Typed, SegmentsTaken, SectionsPlaced
<1>13. CASE Cleanup
  <2>1. pc' = "idle" /\ sect' = <<>> /\ seg' = <<>> /\ forced' = forced /\ loads' = loads
    BY <1>13 DEF Cleanup
  <2> QED
    BY <2>1 DEF Typed, SegmentsTaken, SectionsPlaced
<1>14. CASE SetForced \/ \E i \in DOMAIN mods : Unload(i)
  <2>1. pc = "idle" /\ pc' = pc /\ sect' = sect /\ seg' = seg /\ forced' \in {forced, TRUE} /\ loads' = loads
    BY <1>14 DEF SetForced, Unload
  <2> QED
    BY <2>1 DEF Typed, SegmentsTaken, SectionsPlaced
<1> QED
  BY <1>1, <1>2, <1>4, <1>5, <1>6, <1>7, <1>8, <1>9, <1>10, <1>11, <1>12, <1>13, <1>14 DEF Next, LoadStep

-----------------------------------------------------------------------------
(* Modules come and go *)

\* A sequence without its element i, which is not the first.
LEMMA Removed ==
    ASSUME NEW s, s \in Seq(ToSet(s)), NEW i \in DOMAIN s, i # 1
    PROVE  LET t == RemoveAt(s, i) IN
           /\ Len(t) = Len(s) - 1 /\ t \in Seq(ToSet(t)) /\ DOMAIN t = 1..(Len(s) - 1) /\ Len(t) >= 1
           /\ \A j \in DOMAIN t : t[j] = s[IF j < i THEN j ELSE j + 1] /\ (IF j < i THEN j ELSE j + 1) \in DOMAIN s
           /\ t[1] = s[1] /\ ToSet(t) \subseteq ToSet(s)
<1> DEFINE t == RemoveAt(s, i)
           n == Len(s)
<1>1. n \in Nat /\ DOMAIN s = 1..n /\ s \in Seq(ToSet(s)) /\ i \in 2..n
  BY DomainOf
<1>2. t = SubSeq(s, 1, i - 1) \o SubSeq(s, i + 1, n)
  BY DEF RemoveAt
<1>3. PICK a, b : a = SubSeq(s, 1, i - 1) /\ b = SubSeq(s, i + 1, n)
  OBVIOUS
<1>4. /\ a \in Seq(ToSet(s)) /\ Len(a) = i - 1 /\ \A j \in 1..(i - 1) : a[j] = s[j]
      /\ b \in Seq(ToSet(s)) /\ Len(b) = n - i /\ \A j \in 1..(n - i) : b[j] = s[i + j]
  <2>1. a \in Seq(ToSet(s)) /\ Len(a) = i - 1 /\ \A j \in 1..(i - 1) : a[j] = s[j]
    BY <1>1, <1>3
  <2>2. b \in Seq(ToSet(s)) /\ Len(b) = n - i /\ \A j \in 1..(n - i) : b[j] = s[i + j]
    BY <1>1, <1>3
  <2> QED
    BY <2>1, <2>2
<1>5. /\ t \in Seq(ToSet(s)) /\ Len(t) = n - 1 /\ DOMAIN t = 1..(n - 1)
      /\ \A j \in 1..(n - 1) : t[j] = IF j < i THEN a[j] ELSE b[j - (i - 1)]
  <2>1. t = a \o b
    BY <1>2, <1>3
  <2> HIDE DEF t
  <2>2. t \in Seq(ToSet(s)) /\ Len(t) = Len(a) + Len(b) /\ DOMAIN t = 1..Len(t)
    <3>1. t \in Seq(ToSet(s)) /\ Len(t) = Len(a) + Len(b)
      BY <1>4, <2>1, ConcatProperties
    <3> QED
      BY <3>1
  <2>3. \A j \in 1..(Len(a) + Len(b)) : t[j] = IF j <= Len(a) THEN a[j] ELSE b[j - Len(a)]
    BY <1>4, <2>1, ConcatProperties
  <2>4. i - 1 \in Nat /\ n - i \in Nat /\ (i - 1) + (n - i) = n - 1 /\ \A j \in Nat : j <= i - 1 <=> j < i
    BY <1>1
  <2> QED
    BY <1>4, <2>2, <2>3, <2>4
<1> HIDE DEF t
<1>6. ASSUME NEW j \in 1..(n - 1)
      PROVE  t[j] = s[IF j < i THEN j ELSE j + 1] /\ (IF j < i THEN j ELSE j + 1) \in 1..n
  <2>1. CASE j < i
    BY <1>1, <1>4, <1>5, <2>1
  <2>2. CASE ~(j < i)
    <3>1. t[j] = b[j - (i - 1)] /\ j - (i - 1) \in 1..(n - i)
      BY <1>1, <1>5, <2>2
    <3>2. b[j - (i - 1)] = s[i + (j - (i - 1))] /\ i + (j - (i - 1)) = j + 1
      BY <1>1, <1>4, <3>1
    <3> QED
      BY <1>1, <2>2, <3>1, <3>2
  <2> QED
    BY <2>1, <2>2
<1>7. t \in Seq(ToSet(t)) /\ ToSet(t) \subseteq ToSet(s)
  <2>1. t = [j \in 1..(n - 1) |-> t[j]] /\ n - 1 \in Nat
    BY <1>1, <1>5
  <2>2. t \in Seq(ToSet(t))
    BY <2>1, LengthOf
  <2>3. \A j \in DOMAIN t : t[j] \in ToSet(s)
    BY <1>1, <1>5, <1>6 DEF ToSet
  <2> QED
    BY <2>2, <2>3 DEF ToSet
<1>8. PICK j \in 1..(n - 1) : j = 1 /\ j < i
  BY <1>1
<1>9. t[j] = s[j]
  BY <1>6, <1>8
<1> QED
  BY <1>1, <1>5, <1>6, <1>7, <1>8, <1>9 DEF t

\* Only sections, segments and frame table of a module matter for where it is.
LEMMA SamePlaces ==
    ASSUME NEW m, NEW p, m.sect = p.sect, m.seg = p.seg, m.frame = p.frame
    PROVE  (Fits(p) => Fits(m)) /\ (Apart(p) => Apart(m))
<1>1. Loaded(m) = Loaded(p) /\ \A i : Extent(m, i) = Extent(p, i)
  BY DEF Loaded, Extent
<1> QED
  BY <1>1 DEF Fits, Apart

\* The new module has the memory of the load, which was apart from that of others.
LEMMA FinishApart ==
    ASSUME Typed, SegmentsTaken, SectionsPlaced, ModulesApart, pc = "values",
           NEW r, r.sect = sect, r.seg = seg,
           r.frame = IF eh_section = 0 THEN None ELSE sect[eh_section].vma,
           mods' = Append(mods, r)
    PROVE  ModulesApart'
<1>1. /\ mods \in Seq(ToSet(mods)) /\ Len(mods) \in Nat /\ DOMAIN mods = 1..Len(mods) /\ Len(mods) >= 1
      /\ mods' \in Seq(ToSet(mods')) /\ Len(mods') = Len(mods) + 1 /\ DOMAIN mods' = 1..(Len(mods) + 1)
      /\ \A i \in DOMAIN mods : mods'[i] = mods[i]
      /\ mods'[Len(mods) + 1] = r /\ ToSet(mods') = ToSet(mods) \cup {r}
  BY DomainOf, Appended DEF ModulesApart
<1>2. mods'[1] = mods[1]
  <2>1. PICK j \in DOMAIN mods : j = 1
    BY <1>1
  <2> QED
    BY <1>1, <2>1
<1>3. Fits(r) /\ Apart(r)
  <2>1. PICK p : p = Pending
    OBVIOUS
  <2>2. r.sect = p.sect /\ r.seg = p.seg /\ r.frame = p.frame
    BY <2>1 DEF Pending
  <2>3. Fits(p) /\ Apart(p)
    BY <2>1 DEF SectionsPlaced
  <2> QED
    BY <2>2, <2>3, SamePlaces
<1>4. (\A k \in DOMAIN seg : SegmentTaken(k)) /\ SegmentsDiffer
  BY SegmentsTakenIs DEF Stages
<1>5. Given(r)
  <2>1. \A k \in DOMAIN seg : seg[k].chunk # None /\ (seg[k].chunk = 0 => seg[k].size = 0)
    BY <1>4 DEF SegmentTaken
  <2>2. \A i \in Loaded(r) : segOf(sect[i]) \in DOMAIN seg
    BY SegmentOf DEF Typed
  <2> QED
    BY <2>1, <2>2 DEF Given
<1>6. \A k \in DOMAIN seg : \A b \in DOMAIN mods : \A l \in DOMAIN mods[b].seg :
        Chunk(seg, k) \cap Chunk(mods[b].seg, l) = {}
  <2>1. ASSUME NEW b \in DOMAIN mods, NEW l \in DOMAIN mods[b].seg
        PROVE  Chunk(mods[b].seg, l) \subseteq InUse
    <3>1. mods[b] \in ToSet(mods)
      BY <1>1, DomainOf
    <3> QED
      BY <3>1, InUseIs
  <2>2. \A k \in DOMAIN seg : Chunk(seg, k) \cap InUse = {}
    BY <1>4 DEF SegmentTaken
  <2> QED
    BY <2>1, <2>2
<1>7. ASSUME NEW a \in DOMAIN mods', NEW b \in DOMAIN mods',
             NEW k \in DOMAIN mods'[a].seg, NEW l \in DOMAIN mods'[b].seg, <<a, k>> # <<b, l>>
      PROVE  Chunk(mods'[a].seg, k) \cap Chunk(mods'[b].seg, l) = {}
  <2>1. /\ a \in DOMAIN mods \/ a = Len(mods) + 1
        /\ b \in DOMAIN mods \/ b = Len(mods) + 1
    BY <1>1
  <2>2. CASE a \in DOMAIN mods /\ b \in DOMAIN mods
    BY <1>1, <1>7, <2>2 DEF ModulesApart
  <2>3. CASE a \in DOMAIN mods /\ b = Len(mods) + 1
    BY <1>1, <1>6, <2>3
  <2>4. CASE a = Len(mods) + 1 /\ b \in DOMAIN mods
    BY <1>1, <1>6, <2>4
  <2>5. CASE a = Len(mods) + 1 /\ b = Len(mods) + 1
    BY <1>1, <1>4, <1>7, <2>5 DEF SegmentsDiffer
  <2> QED
    BY <2>1, <2>2, <2>3, <2>4, <2>5
<1>8. \A m \in ToSet(mods') : Given(m) /\ Fits(m) /\ Apart(m)
  BY <1>1, <1>3, <1>5 DEF ModulesApart
<1>9. Len(mods') >= 1
  BY <1>1
<1> QED
  BY <1>1, <1>2, <1>7, <1>8, <1>9 DEF ModulesApart

LEMMA UnloadApart ==
    ASSUME ModulesApart, NEW i \in DOMAIN mods, Unload(i)
    PROVE  ModulesApart'
<1>1. mods \in Seq(ToSet(mods)) /\ i # 1 /\ mods' = RemoveAt(mods, i) /\ DOMAIN mods = 1..Len(mods) /\ Len(mods) \in Nat
  BY DomainOf DEF ModulesApart, Unload
<1> DEFINE at(j) == IF j < i THEN j ELSE j + 1
<1>2. /\ mods' \in Seq(ToSet(mods')) /\ Len(mods') >= 1 /\ mods'[1] = mods[1] /\ ToSet(mods') \subseteq ToSet(mods)
      /\ DOMAIN mods' = 1..(Len(mods) - 1)
      /\ \A j \in DOMAIN mods' : mods'[j] = mods[at(j)] /\ at(j) \in DOMAIN mods
  BY <1>1, Removed
<1>3. \A j, l \in DOMAIN mods' : j # l => at(j) # at(l)
  BY <1>1, <1>2
<1> HIDE DEF at
<1>4. ASSUME NEW a \in DOMAIN mods', NEW b \in DOMAIN mods',
             NEW k \in DOMAIN mods'[a].seg, NEW l \in DOMAIN mods'[b].seg, <<a, k>> # <<b, l>>
      PROVE  Chunk(mods'[a].seg, k) \cap Chunk(mods'[b].seg, l) = {}
  <2>1. <<at(a), k>> # <<at(b), l>>
    BY <1>3, <1>4
  <2>2. mods'[a] = mods[at(a)] /\ mods'[b] = mods[at(b)] /\ at(a) \in DOMAIN mods /\ at(b) \in DOMAIN mods
    BY <1>2
  <2> QED
    BY <2>1, <2>2 DEF ModulesApart
<1>5. \A m \in ToSet(mods') : Given(m) /\ Fits(m) /\ Apart(m)
  BY <1>2 DEF ModulesApart
<1> QED
  BY <1>2, <1>4, <1>5 DEF ModulesApart

\* What is apart in memory fits the layout: no two sections overlap.
LEMMA LayoutHolds ==
    ASSUME ModulesApart
    PROVE  LayoutFits
<1>1. DOMAIN mods = 1..Len(mods) /\ \A a \in DOMAIN mods : mods[a] \in ToSet(mods)
  BY DomainOf DEF ModulesApart
<1>2. ASSUME NEW a \in DOMAIN mods, NEW i \in Loaded(mods[a])
      PROVE  LET k == segOf(mods[a].sect[i]) IN
             k \in DOMAIN mods[a].seg /\ Extent(mods[a], i) \subseteq Chunk(mods[a].seg, k)
  <2>1. PICK m : m = mods[a] /\ m \in ToSet(mods)
    BY <1>1
  <2>2. PICK k : k = segOf(m.sect[i])
    OBVIOUS
  <2>3. /\ Given(m) /\ Fits(m) /\ i \in Loaded(m)
    BY <2>1 DEF ModulesApart
  <2>4. k \in DOMAIN m.seg /\ Extent(m, i) \subseteq Span(m.seg[k].chunk, m.seg[k].size)
    BY <2>2, <2>3 DEF Given, Fits
  <2>5. m.seg[k].chunk # None /\ (m.seg[k].chunk = 0 => m.seg[k].size = 0)
    BY <2>3, <2>4 DEF Given
  <2>6. Span(0, 0) = {}
    BY DEF Span
  <2> QED
    BY <2>1, <2>2, <2>4, <2>5, <2>6 DEF Chunk
<1>3. ASSUME NEW a \in DOMAIN mods, NEW b \in DOMAIN mods, NEW i \in Loaded(mods[a]), NEW j \in Loaded(mods[b]),
             <<a, i>> # <<b, j>>
      PROVE  Extent(mods[a], i) \cap Extent(mods[b], j) = {}
  <2>1. CASE a = b
    <3>1. PICK m : m = mods[a] /\ m \in ToSet(mods)
      BY <1>1
    <3>2. Apart(m)
      BY <3>1 DEF ModulesApart
    <3> QED
      BY <1>3, <2>1, <3>1, <3>2 DEF Apart
  <2>2. CASE a # b
    <3>1. PICK k \in DOMAIN mods[a].seg : Extent(mods[a], i) \subseteq Chunk(mods[a].seg, k)
      BY <1>2
    <3>2. PICK l \in DOMAIN mods[b].seg : Extent(mods[b], j) \subseteq Chunk(mods[b].seg, l)
      BY <1>2
    <3>3. Chunk(mods[a].seg, k) \cap Chunk(mods[b].seg, l) = {}
      BY <2>2 DEF ModulesApart
    <3> QED
      BY <3>1, <3>2, <3>3
  <2> QED
    BY <2>1, <2>2
<1>4. \A m \in ToSet(mods) : Fits(m)
  BY DEF ModulesApart
<1> QED
  BY <1>3, <1>4 DEF LayoutFits

-----------------------------------------------------------------------------
(* Commons, symbols and lists of a module *)

\* CommonsPlaced, SymbolsInside and InitializationOrdered, of one module.
CommonsIn(m) ==
    \A i \in DOMAIN m.common :
      LET at(c) == bfd_asymbol_value(m.file, m.sect, m.common, c.sym)
          space(c) == Span(at(c), c.size)
          c == m.common[i] IN
      /\ c.size > 0 => at(c) % 2^elf_get_align(m.file.syms[c.sym]) = 0
      /\ c.size > 0 => space(c) \subseteq Span(m.sect[Len(m.sect)].vma, m.sect[Len(m.sect)].size)
      /\ \A j \in DOMAIN m.common \ {i} : space(c) \cap space(m.common[j]) = {}

SymbolsIn(m) ==
    \A i \in (IF m.file = None THEN {} ELSE DOMAIN m.file.syms) :
      LET k == m.file.elf.syms[i].shndx
          s == m.sect[k]
          offset == m.file.elf.syms[i].value - m.file.elf.shdrs[k].addr IN
      m.file.syms[i].kind = "def" /\ Alloc(s) /\ offset \in 0..(s.size - 1) =>
        bfd_asymbol_value(m.file, m.sect, m.common, i) \in Span(s.vma, s.size)

ListsIn(m) ==
    /\ \A i, j \in DOMAIN m.ctors : i < j => m.file.syms[m.ctors[i]].pri <= m.file.syms[m.ctors[j]].pri
    /\ \A i, j \in DOMAIN m.dtors : i < j => m.file.syms[m.dtors[i]].pri >= m.file.syms[m.dtors[j]].pri

LEMMA InModules ==
    /\ CommonsPlaced <=> \A m \in ToSet(mods) : CommonsIn(m)
    /\ SymbolsInside <=> \A m \in ToSet(mods) : SymbolsIn(m)
    /\ InitializationOrdered <=> \A m \in ToSet(mods) : ListsIn(m)
<1>1. CommonsPlaced <=> \A m \in ToSet(mods) : CommonsIn(m)
  BY DEF CommonsPlaced, CommonsIn
<1>2. SymbolsInside <=> \A m \in ToSet(mods) : SymbolsIn(m)
  BY DEF SymbolsInside, SymbolsIn
<1>3. InitializationOrdered <=> \A m \in ToSet(mods) : ListsIn(m)
  BY DEF InitializationOrdered, ListsIn
<1> QED
  BY <1>1, <1>2, <1>3

\* The value of a common is its place.
LEMMA CommonAt ==
    ASSUME FileShown, CommonsKept, pc \in AfterSymtab, NEW i \in DOMAIN common
    PROVE  /\ common # <<>>
           /\ bfd_asymbol_value(obj, sect, common, common[i].sym) = sect[Len(sect)].vma + common[i].off
<1>1. common # <<>>
  OBVIOUS
<1>2. CommonsRight(obj, sect, common)
  BY <1>1 DEF CommonsKept
<1>3. /\ common \in Seq(ToSet(common)) /\ DOMAIN common = 1..Len(common) /\ Len(common) \in Nat
      /\ \A j \in DOMAIN common :
           common[j].sym \in DOMAIN obj.syms /\ obj.syms[common[j].sym].kind \in {"com", "weakundef"}
      /\ \A j, l \in DOMAIN common : j < l => common[j].sym # common[l].sym
  <2>1. common \in Seq(ToSet(common))
    BY <1>2 DEF CommonsRight
  <2>2. DOMAIN common = 1..Len(common) /\ Len(common) \in Nat
    BY <2>1, DomainOf
  <2> QED
    BY <1>2, <2>1, <2>2 DEF CommonsRight
<1>4. \A j \in DOMAIN common : common[j].sym = common[i].sym => j = i
  <2>1. \A j \in DOMAIN common : j = i \/ j < i \/ i < j
    BY <1>3
  <2> QED
    BY <1>3, <2>1
<1>5. OffsetIn(common, common[i].sym) = common[i].off
  <2>1. PICK d : d = CHOOSE c \in ToSet(common) : c.sym = common[i].sym
    OBVIOUS
  <2>2. common[i] \in ToSet(common)
    BY <1>3, DomainOf
  <2>3. d \in ToSet(common) /\ d.sym = common[i].sym
    BY <2>1, <2>2
  <2>4. PICK j \in DOMAIN common : d = common[j]
    BY <2>3 DEF ToSet
  <2>5. d = common[i]
    BY <1>4, <2>3, <2>4
  <2> QED
    BY <2>1, <2>5 DEF OffsetIn
<1>6. common[i].sym # 0
  <2>1. obj.elf \in Objects /\ obj = ObjectOf(obj.elf)
    BY DEF FileShown, Loading, AfterNames
  <2>2. DOMAIN obj.syms = DOMAIN obj.elf.syms
    BY <2>1 DEF ObjectOf, bfd_canonicalize_symtab
  <2>3. DOMAIN obj.elf.syms = 1..Len(obj.elf.syms) /\ Len(obj.elf.syms) \in Nat
    BY <2>1, ObjectFacts
  <2> QED
    BY <1>3, <2>2, <2>3
<1> QED
  BY <1>1, <1>3, <1>5, <1>6 DEF bfd_asymbol_value

LEMMA SpansApart ==
    ASSUME NEW a \in Nat, NEW n \in Nat, NEW b \in Nat, NEW l \in Nat, a + n <= b
    PROVE  Span(a, n) \cap Span(b, l) = {} /\ Span(b, l) \cap Span(a, n) = {}
BY DEF Span

\* The section that is made for commons is aligned as far as each of them needs.
LEMMA FinishCommons ==
    ASSUME Typed, FileShown, CommonsKept, SectionsPlaced, pc = "values",
           NEW r, r.file = obj, r.sect = sect, r.common = common
    PROVE  CommonsIn(r)
<1>1. pc \in AfterSymtab
  BY DEF AfterSymtab
<1> DEFINE d == sect[Len(sect)]
           v == d.vma
           at(c) == bfd_asymbol_value(obj, sect, common, c.sym)
<1>2. SUFFICES ASSUME common # <<>>
               PROVE  CommonsIn(r)
  <2>1. common = <<>> => DOMAIN common = {}
    OBVIOUS
  <2> QED
    BY <1>2, <2>1 DEF CommonsIn
<1>3. CommonsRight(obj, sect, common)
  BY <1>1, <1>2 DEF CommonsKept
<1>4. /\ Len(sect) \in DOMAIN sect /\ v \in Nat /\ d.size \in Nat /\ d.flags = {"alloc"}
      /\ 2^d.align \in Nat \ {0}
  <2>1. sect \in Seq(ToSet(sect)) /\ Len(sect) = Len(obj.elf.shdrs) + 1 /\ obj.elf \in Objects
    BY <1>1, <1>2 DEF FileShown, Loading, AfterNames
  <2>2. Len(obj.elf.shdrs) \in Nat /\ DOMAIN sect = 1..Len(sect)
    BY <2>1, ObjectFacts, DomainOf
  <2>3. Len(sect) \in DOMAIN sect
    BY <2>1, <2>2
  <2>4. PICK e : e = d
    OBVIOUS
  <2>5. e = [name |-> ".dummy", size |-> e.size, align |-> e.align, flags |-> {"alloc"},
             members |-> <<>>, vma |-> e.vma] /\ e.size \in Nat /\ 2^e.align \in Nat \ {0}
    BY <1>3, <2>4 DEF CommonsRight
  <2>6. e.flags = {"alloc"}
    BY <2>5
  <2> QED
    BY <2>3, <2>4, <2>5, <2>6 DEF Typed
<1> HIDE DEF d, v
<1>5. d.size > 0 => v % 2^d.align = 0
  <2>1. Len(sect) \in Loaded(Pending) <=> d.size > 0
    BY <1>4 DEF Loaded, Pending, Alloc, d
  <2>2. Fits(Pending) /\ Pending.sect = sect
    BY DEF SectionsPlaced, Pending
  <2> QED
    BY <2>1, <2>2 DEF Fits, d, v
<1>6. ASSUME NEW i \in DOMAIN common
      PROVE  /\ at(common[i]) = v + common[i].off /\ common[i].off \in Nat /\ common[i].size \in Nat
             /\ common[i].off + common[i].size <= d.size
             /\ common[i].size > 0 => at(common[i]) % 2^elf_get_align(obj.syms[common[i].sym]) = 0
             /\ common[i].size > 0 => Span(at(common[i]), common[i].size) \subseteq Span(v, d.size)
  <2>1. at(common[i]) = v + common[i].off
    BY <1>1, CommonAt DEF v, d
  <2> HIDE DEF at
  <2>2. PICK c, a, q : c = common[i] /\ a = at(c) /\ q = 2^elf_get_align(obj.syms[c.sym])
    OBVIOUS
  <2>3. /\ c.off \in Nat /\ c.size \in Nat /\ c.off + c.size <= d.size /\ q \in Nat \ {0}
        /\ c.size > 0 => c.off % q = 0 /\ 2^d.align % q = 0
    BY <1>3, <2>2 DEF CommonsRight, d
  <2>4. a = v + c.off
    BY <2>1, <2>2
  <2>5. ASSUME c.size > 0
        PROVE  a % q = 0 /\ Span(a, c.size) \subseteq Span(v, d.size)
    <3>1. d.size > 0
      BY <1>4, <2>3, <2>5
    <3>2. PICK p : p = 2^d.align /\ p \in Nat \ {0} /\ v % p = 0 /\ p % q = 0
      BY <1>4, <1>5, <2>3, <2>5, <3>1
    <3>3. (v + c.off) % q = 0
      BY <1>4, <2>3, <2>5, <3>2, Divides
    <3>4. Span(a, c.size) \subseteq Span(v, d.size)
      <4>1. PICK n, l : n = c.size /\ l = d.size
        OBVIOUS
      <4>2. l \in Nat \ {0} /\ n \in Nat \ {0} /\ a \in Nat /\ v \in Nat
        BY <1>4, <2>3, <2>4, <2>5, <3>1, <4>1
      <4>3. v <= a /\ a + n <= v + l
        BY <1>4, <2>3, <2>4, <4>1, <4>2
      <4>4. Span(a, n) \subseteq Span(v, l)
        BY <4>2, <4>3, SpanFacts
      <4> QED
        BY <4>1, <4>4
    <3> QED
      BY <2>4, <3>3, <3>4
  <2> QED
    BY <2>1, <2>2, <2>3, <2>5
<1>7. ASSUME NEW i \in DOMAIN common, NEW j \in DOMAIN common, i # j
      PROVE  Span(at(common[i]), common[i].size) \cap Span(at(common[j]), common[j].size) = {}
  <2>1. DOMAIN common = 1..Len(common) /\ Len(common) \in Nat
    <3>1. common \in Seq(ToSet(common))
      BY <1>3 DEF CommonsRight
    <3> QED
      BY <3>1, DomainOf
  <2>2. PICK a, n, b, l : a = common[i].off /\ n = common[i].size /\ b = common[j].off /\ l = common[j].size
    OBVIOUS
  <2>3. a \in Nat /\ n \in Nat /\ b \in Nat /\ l \in Nat /\ at(common[i]) = v + a /\ at(common[j]) = v + b
    BY <1>6, <2>2
  <2> HIDE DEF at
  <2>4. CASE i < j
    <3>1. a + n <= b
      BY <1>3, <2>2, <2>4 DEF CommonsRight
    <3>2. v + a \in Nat /\ v + b \in Nat /\ (v + a) + n <= v + b
      BY <1>4, <2>3, <3>1
    <3> QED
      BY <2>2, <2>3, <3>2, SpansApart
  <2>5. CASE j < i
    <3>1. b + l <= a
      BY <1>3, <2>2, <2>5 DEF CommonsRight
    <3>2. v + a \in Nat /\ v + b \in Nat /\ (v + b) + l <= v + a
      BY <1>4, <2>3, <3>1
    <3> QED
      BY <2>2, <2>3, <3>2, SpansApart
  <2>6. i < j \/ j < i
    BY <1>7, <2>1
  <2> QED
    BY <2>4, <2>5, <2>6
<1> QED
  BY <1>6, <1>7 DEF CommonsIn, d, v

\* A defined symbol is at its offset from the section, wherever that is.
LEMMA FinishSymbols ==
    ASSUME Typed, FileShown, pc = "values", NEW r, r.file = obj, r.sect = sect, r.common = common
    PROVE  SymbolsIn(r)
<1>1. /\ obj.elf \in Objects /\ obj = ObjectOf(obj.elf) /\ SymbolsFit(obj.elf) /\ sect \in Seq(ToSet(sect))
      /\ Len(sect) = Len(obj.elf.shdrs) + (IF common = <<>> THEN 0 ELSE 1)
  BY DEF FileShown, Loading, AfterNames, AfterSymtab
<1> DEFINE f == obj.elf
<1>2. obj.syms = bfd_canonicalize_symtab(f) /\ DOMAIN obj.syms = DOMAIN f.syms
  BY <1>1 DEF ObjectOf, bfd_canonicalize_symtab
<1>3. /\ DOMAIN f.syms = 1..Len(f.syms) /\ Len(f.syms) \in Nat /\ DOMAIN f.shdrs = 1..Len(f.shdrs)
      /\ Len(f.shdrs) \in Nat
  BY <1>1, ObjectFacts
<1> HIDE DEF f
<1>4. DOMAIN f.shdrs \subseteq DOMAIN sect
  <2>1. DOMAIN sect = 1..Len(sect) /\ Len(sect) \in Nat
    BY <1>1, DomainOf
  <2>2. PICK x \in {0, 1} : Len(sect) = Len(f.shdrs) + x
    BY <1>1 DEF f
  <2> QED
    BY <1>3, <2>1, <2>2
<1>5. ASSUME NEW i \in DOMAIN obj.syms, obj.syms[i].kind = "def",
             NEW k, k = f.syms[i].shndx, NEW x, x = f.syms[i].value - f.shdrs[k].addr,
             x \in 0..(sect[k].size - 1)
      PROVE  bfd_asymbol_value(obj, sect, common, i) \in Span(sect[k].vma, sect[k].size)
  <2>0. PICK y : y = f.syms[i]
    OBVIOUS
  <2>a. /\ obj.syms[i].kind = SymbolKind(f, y) /\ obj.syms[i].sect = SymbolSection(f, y)
        /\ obj.syms[i].val = SymbolValue(f, y)
    BY <1>2, <2>0 DEF bfd_canonicalize_symtab
  <2>1. SymbolKind(f, y) = "def" /\ SectionExists(f, k) /\ y.shndx = k
    BY <1>1, <1>2, <1>5, <2>0, <2>a DEF SymbolsFit, f
  <2>2. k \in DOMAIN f.shdrs /\ SymbolSection(f, y) = k
    <3>1. SymbolSection(f, y) \notin {SHN_COMMON, SHN_ABS, SHN_UNDEF}
      BY <2>1 DEF SymbolKind
    <3>2. SymbolSection(f, y) = k /\ k \notin {SHN_COMMON, SHN_ABS, SHN_UNDEF}
      BY <2>1, <3>1 DEF SymbolSection
    <3> QED
      BY <2>1, <3>2 DEF SectionExists
  <2>3. obj.syms[i].sect = k /\ obj.syms[i].val = x
    BY <1>5, <2>0, <2>1, <2>2, <2>a DEF SymbolValue
  <2>4. bfd_asymbol_value(obj, sect, common, i) = sect[k].vma + x
    <3>1. i # 0
      BY <1>2, <1>3
    <3> QED
      BY <1>5, <2>3, <3>1 DEF bfd_asymbol_value
  <2>5. sect[k].vma \in Nat /\ sect[k].size \in Nat
    <3>1. sect[k].size = f.shdrs[k].size
      <4>1. SectionOf(sect[k], elf2bfdsec(f, k))
        BY <2>2 DEF FileShown, Loading, AfterNames, AfterSymtab, f
      <4> QED
        BY <4>1, SectionIs
    <3> QED
      BY <1>1, <1>4, <2>2, <3>1, ObjectFacts DEF Typed, f
  <2>6. PICK v, n : v = sect[k].vma /\ n = sect[k].size
    OBVIOUS
  <2>7. v \in Nat /\ n \in Nat /\ x \in 0..(n - 1)
    BY <1>5, <2>5, <2>6
  <2>8. v + x \in Span(v, n)
    BY <2>7 DEF Span
  <2> QED
    BY <2>4, <2>6, <2>8
<1> QED
  BY <1>2, <1>5 DEF SymbolsIn, f

\* Sequences of a finite set, read from their end.
LEMMA FinishLists ==
    ASSUME FileShown, pc = "values", NEW r, r.file = obj,
           NEW cs \in ByPriority(obj, "I"), NEW ds \in ByPriority(obj, "D"),
           r.ctors = cs, r.dtors = DestructionOrder(ds)
    PROVE  ListsIn(r)
<1>1. \A i, j \in DOMAIN cs : i < j => obj.syms[cs[i]].pri <= obj.syms[cs[j]].pri
  BY DEF ByPriority
<1>2. ds \in SetToSeqs(CtorDtor(obj, "D")) /\ \A i, j \in DOMAIN ds : i < j => obj.syms[ds[i]].pri <= obj.syms[ds[j]].pri
  BY DEF ByPriority
<1>3. Len(ds) \in Nat /\ DOMAIN ds = 1..Len(ds)
  <2>1. obj.elf \in Objects /\ obj = ObjectOf(obj.elf)
    BY DEF FileShown, Loading, AfterNames, AfterSymtab
  <2>2. DOMAIN obj.syms = DOMAIN obj.elf.syms
    BY <2>1 DEF ObjectOf, bfd_canonicalize_symtab
  <2>3. DOMAIN obj.elf.syms = 1..Len(obj.elf.syms) /\ Len(obj.elf.syms) \in Nat
    BY <2>1, ObjectFacts
  <2>4. CtorDtor(obj, "D") \subseteq 1..Len(obj.elf.syms)
    BY <2>2, <2>3 DEF CtorDtor
  <2>5. IsFiniteSet(CtorDtor(obj, "D"))
    <3>1. IsFiniteSet(1..Len(obj.elf.syms))
      BY <2>3, FS_Interval
    <3> QED
      BY <2>4, <3>1, FS_Subset
  <2> QED
    BY <1>2, <2>5, OrderIs
<1> DEFINE rs == DestructionOrder(ds)
<1>4. DOMAIN rs = 1..Len(ds) /\ \A i \in 1..Len(ds) : rs[i] = ds[(Len(ds) - i) + 1]
  BY DEF DestructionOrder, Reverse
<1> HIDE DEF rs
<1>5. ASSUME NEW i \in DOMAIN rs, NEW j \in DOMAIN rs, i < j
      PROVE  obj.syms[rs[i]].pri >= obj.syms[rs[j]].pri
  <2>1. PICK k, l : k = (Len(ds) - i) + 1 /\ l = (Len(ds) - j) + 1
    OBVIOUS
  <2>2. k \in 1..Len(ds) /\ l \in 1..Len(ds) /\ l < k
    BY <1>3, <1>4, <1>5, <2>1
  <2>3. rs[i] = ds[k] /\ rs[j] = ds[l]
    BY <1>4, <2>1
  <2>4. obj.syms[ds[l]].pri <= obj.syms[ds[k]].pri
    BY <1>2, <1>3, <2>2
  <2> QED
    BY <2>3, <2>4
<1> QED
  BY <1>1, <1>5 DEF ListsIn, rs

\* The module that Finish adds.
LEMMA FinishIs ==
    ASSUME Finish, mods' # mods
    PROVE  /\ pc = "values" /\ pc' = "cleanup"
           /\ \E r : \E cs \in ByPriority(obj, "I"), ds \in ByPriority(obj, "D") :
                /\ mods' = Append(mods, r)
                /\ r.file = obj /\ r.sect = sect /\ r.seg = seg /\ r.common = common /\ r.atts = atts
                /\ r.frame = IF eh_section = 0 THEN None ELSE sect[eh_section].vma
                /\ r.ctors = cs /\ r.dtors = DestructionOrder(ds)
<1>1. PICK cs \in ByPriority(obj, "I"), ds \in ByPriority(obj, "D") :
        mods' = Append(mods,
                 [file |-> obj, sect |-> sect, seg |-> seg, common |-> common, atts |-> atts,
                  text |-> IF \E i \in Sized : sect[i].name = ".text"
                             THEN sect[CHOOSE i \in Sized : sect[i].name = ".text"].vma ELSE 0,
                  frame |-> IF eh_section = 0 THEN None ELSE sect[eh_section].vma,
                  ctors |-> cs, dtors |-> DestructionOrder(ds)])
  BY DEF Finish
<1>2. PICK t, e, dd : /\ t = IF \E i \in Sized : sect[i].name = ".text"
                             THEN sect[CHOOSE i \in Sized : sect[i].name = ".text"].vma ELSE 0
                      /\ e = IF eh_section = 0 THEN None ELSE sect[eh_section].vma
                      /\ dd = DestructionOrder(ds)
  OBVIOUS
<1>3. PICK r : r = [file |-> obj, sect |-> sect, seg |-> seg, common |-> common, atts |-> atts,
                    text |-> t, frame |-> e, ctors |-> cs, dtors |-> dd]
  OBVIOUS
<1>4. mods' = Append(mods, r)
  BY <1>1, <1>2, <1>3
<1>5. /\ r.file = obj /\ r.sect = sect /\ r.seg = seg /\ r.common = common /\ r.atts = atts
      /\ r.frame = e /\ r.ctors = cs /\ r.dtors = dd
  BY <1>3
<1>6. pc = "values" /\ pc' = "cleanup"
  BY DEF Finish, Fail
<1> QED
  BY <1>2, <1>4, <1>5, <1>6

\* Only Finish and Unload change the modules.
LEMMA ModulesKept ==
    ASSUME [Next]_vars, mods' # mods
    PROVE  Finish \/ \E i \in DOMAIN mods : Unload(i)
BY DEF Next, LoadStep, vars, Search, Open, Attributed, Names, slurp_symtab, s_count, cexpSegsAlloc,
       s_setvma, s_reloc, Cleanup, SetForced

LEMMA StepApart ==
    ASSUME Typed, FileShown, CommonsKept, SegmentsTaken, SectionsPlaced, ModulesApart,
           CommonsPlaced, SymbolsInside, InitializationOrdered, [Next]_vars
    PROVE  ModulesApart' /\ CommonsPlaced' /\ SymbolsInside' /\ InitializationOrdered'
<1>1. \A m \in ToSet(mods) : CommonsIn(m) /\ SymbolsIn(m) /\ ListsIn(m)
  BY InModules
<1>2. ASSUME \A m \in ToSet(mods') : CommonsIn(m) /\ SymbolsIn(m) /\ ListsIn(m)
      PROVE  CommonsPlaced' /\ SymbolsInside' /\ InitializationOrdered'
  <2>1. ASSUME \A m \in ToSet(mods') : CommonsIn(m)
        PROVE  CommonsPlaced'
    BY <2>1 DEF CommonsPlaced, CommonsIn
  <2>2. ASSUME \A m \in ToSet(mods') : SymbolsIn(m)
        PROVE  SymbolsInside'
    BY <2>2 DEF SymbolsInside, SymbolsIn
  <2>3. ASSUME \A m \in ToSet(mods') : ListsIn(m)
        PROVE  InitializationOrdered'
    BY <2>3 DEF InitializationOrdered, ListsIn
  <2> QED
    BY <1>2, <2>1, <2>2, <2>3
<1>3. CASE mods' = mods
  <2>1. PICK s : s = mods /\ s = mods'
    BY <1>3
  <2>2. ModulesApart'
    BY <2>1 DEF ModulesApart
  <2> QED
    BY <1>1, <1>2, <1>3, <2>2
<1>4. CASE mods' # mods /\ Finish
  <2>1. pc = "values"
    BY <1>4, FinishIs
  <2>a. PICK r : \E cs \in ByPriority(obj, "I"), ds \in ByPriority(obj, "D") :
          /\ mods' = Append(mods, r)
          /\ r.file = obj /\ r.sect = sect /\ r.seg = seg /\ r.common = common /\ r.atts = atts
          /\ r.frame = IF eh_section = 0 THEN None ELSE sect[eh_section].vma
          /\ r.ctors = cs /\ r.dtors = DestructionOrder(ds)
    BY <1>4, FinishIs
  <2>2. PICK cs \in ByPriority(obj, "I"), ds \in ByPriority(obj, "D") :
          /\ mods' = Append(mods, r)
          /\ r.file = obj /\ r.sect = sect /\ r.seg = seg /\ r.common = common
          /\ r.frame = IF eh_section = 0 THEN None ELSE sect[eh_section].vma
          /\ r.ctors = cs /\ r.dtors = DestructionOrder(ds)
    BY <2>a
  <2>3. ModulesApart'
    BY <2>1, <2>2, FinishApart
  <2>4. CommonsIn(r) /\ SymbolsIn(r) /\ ListsIn(r)
    BY <2>1, <2>2, FinishCommons, FinishSymbols, FinishLists
  <2>5. ToSet(mods') = ToSet(mods) \cup {r}
    <3>1. mods \in Seq(ToSet(mods))
      BY DEF ModulesApart
    <3> QED
      BY <2>2, <3>1, Appended
  <2> QED
    BY <1>1, <1>2, <2>3, <2>4, <2>5
<1>5. ASSUME NEW i \in DOMAIN mods, Unload(i)
      PROVE  ModulesApart' /\ CommonsPlaced' /\ SymbolsInside' /\ InitializationOrdered'
  <2>1. ToSet(mods') \subseteq ToSet(mods)
    <3>1. mods \in Seq(ToSet(mods)) /\ i # 1 /\ mods' = RemoveAt(mods, i)
      BY <1>5 DEF ModulesApart, Unload
    <3> QED
      BY <3>1, Removed
  <2> QED
    BY <1>1, <1>2, <1>5, <2>1, UnloadApart
<1> QED
  BY <1>3, <1>4, <1>5, ModulesKept

-----------------------------------------------------------------------------
(* Relocation and attributes *)

\* Where a load is, no relocation is left that was refused.
LEMMA StepRelocated ==
    ASSUME RelocationsDone, [Next]_vars
    PROVE  RelocationsDone'
<1>1. CASE pc' = "values"
  <2>1. UNCHANGED <<obj, sect, common>> /\ (pc = "values" \/ s_reloc)
    BY <1>1 DEF Next, LoadStep, vars, Search, Open, Refused, Attributed, Names, slurp_symtab, TableFault, s_count,
                cexpSegsAlloc, s_setvma, s_reloc, Finish, Cleanup, SetForced, Unload, Fail
  <2>2. \A q \in Relocs : Status(q) = "ok"
    BY <1>1, <2>1 DEF RelocationsDone, s_reloc, Fail
  <2>3. Relocs' = Relocs
    BY <2>1 DEF Relocs, AllocSections, Alloc, Ignored
  <2>4. \A q : Status(q)' = Status(q)
    BY <2>1 DEF Status
  <2> QED
    BY <2>2, <2>3, <2>4 DEF RelocationsDone
<1>2. CASE pc' # "values"
  BY <1>2 DEF RelocationsDone
<1> QED
  BY <1>1, <1>2

LEMMA StepAttributes ==
    ASSUME ModulesApart, AttributesKept, [Next]_vars
    PROVE  AttributesKept'
<1>1. mods \in Seq(ToSet(mods)) /\ DOMAIN mods = 1..Len(mods) /\ Len(mods) \in Nat /\ Len(mods) >= 1
  BY DomainOf DEF ModulesApart
<1> DEFINE Rest == AfterNames \cup {"names"}
<1>2. Loading \ {"attributes"} = Rest /\ "attributes" \notin Rest
  BY DEF Loading, AfterNames, AfterSymtab
<1>3. CASE Attributed
  <2>1. /\ pc = "attributes" /\ UNCHANGED <<obj, mods, forced>>
        /\ atts' = IF mods[1].atts = NoSet THEN NoSet ELSE FileAttributes(obj.atts)
        /\ pc' = "names" => forced \/ Compatible(atts')
        /\ pc' \in {"hangs", "names", "cleanup"}
    BY <1>3 DEF Attributed
  <2>2. Compatible(atts)' <=> Compatible(atts')
    BY <2>1 DEF Compatible
  <2>3. pc' \in Loading \ {"attributes"} => pc' = "names"
    BY <2>1 DEF Loading, AfterNames, AfterSymtab
  <2> QED
    BY <2>1, <2>2, <2>3 DEF AttributesKept
<1>4. CASE mods' = mods /\ forced' \in {forced, TRUE}
           /\ (pc' \in Rest => pc \in Rest /\ UNCHANGED <<atts, obj>>)
  <2>1. Compatible(atts) /\ atts' = atts => Compatible(atts)'
    BY <1>4 DEF Compatible
  <2>2. pc' \in Rest => pc \in Loading \ {"attributes"} /\ UNCHANGED <<atts, obj>>
    BY <1>2, <1>4
  <2>3. pc' \in Loading \ {"attributes"} => pc' \in Rest
    BY <1>2
  <2> HIDE DEF Rest
  <2>4. forced => forced'
    BY <1>4
  <2>5. /\ mods'[1].atts # NoSet => \A i \in DOMAIN mods' \ {1} : mods'[i].atts = FileAttributes(mods'[i].file.atts)
        /\ forced' \/ \A i, j \in DOMAIN mods' : i < j => pmelf_match_attribute_set(mods'[i].atts, mods'[j].atts)
    BY <1>4, <2>4 DEF AttributesKept
  <2>6. ASSUME pc' \in Loading \ {"attributes"}
        PROVE  /\ mods'[1].atts # NoSet => atts' = FileAttributes(obj'.atts)
               /\ forced' \/ Compatible(atts)'
    BY <1>4, <2>1, <2>2, <2>3, <2>4, <2>6 DEF AttributesKept
  <2> QED
    BY <2>5, <2>6 DEF AttributesKept
<1>5. CASE Finish /\ mods' # mods
  <2>1. pc = "values" /\ pc' = "cleanup" /\ forced' = forced
    BY <1>5, FinishIs DEF Finish
  <2>2. PICK r : mods' = Append(mods, r) /\ r.file = obj /\ r.atts = atts
    BY <1>5, FinishIs
  <2>3. /\ DOMAIN mods' = 1..(Len(mods) + 1) /\ mods'[Len(mods) + 1] = r
        /\ \A i \in DOMAIN mods : mods'[i] = mods[i]
    BY <1>1, <2>2, Appended
  <2>4. pc \in Loading \ {"attributes"} /\ pc' \notin Loading
    BY <2>1 DEF Loading, AfterNames, AfterSymtab
  <2>5. PICK o \in DOMAIN mods : o = 1
    BY <1>1
  <2>6. mods'[1] = mods[1]
    BY <2>3, <2>5
  <2>7. ASSUME NEW i \in DOMAIN mods' \ {1}, mods[1].atts # NoSet
        PROVE  mods'[i].atts = FileAttributes(mods'[i].file.atts)
    <3>1. i \in DOMAIN mods \/ i = Len(mods) + 1
      BY <1>1, <2>3
    <3>2. atts = FileAttributes(obj.atts)
      BY <2>4, <2>7 DEF AttributesKept
    <3> QED
      BY <2>2, <2>3, <2>7, <3>1, <3>2 DEF AttributesKept
  <2>8. ASSUME NEW i \in DOMAIN mods', NEW j \in DOMAIN mods', i < j, ~forced
        PROVE  pmelf_match_attribute_set(mods'[i].atts, mods'[j].atts)
    <3>1. i \in DOMAIN mods /\ (j \in DOMAIN mods \/ j = Len(mods) + 1)
      BY <1>1, <2>3, <2>8
    <3>2. Compatible(atts)
      BY <2>4, <2>8 DEF AttributesKept
    <3> QED
      BY <2>2, <2>3, <2>8, <3>1, <3>2 DEF AttributesKept, Compatible
  <2> QED
    BY <2>1, <2>4, <2>6, <2>7, <2>8 DEF AttributesKept
<1>6. ASSUME NEW i \in DOMAIN mods, Unload(i)
      PROVE  AttributesKept'
  <2>1. i # 1 /\ mods' = RemoveAt(mods, i) /\ pc' = "idle" /\ forced' = forced
    BY <1>6 DEF Unload
  <2> DEFINE at(j) == IF j < i THEN j ELSE j + 1
  <2>2. /\ mods'[1] = mods[1] /\ DOMAIN mods' = 1..(Len(mods) - 1)
        /\ \A j \in DOMAIN mods' : mods'[j] = mods[at(j)] /\ at(j) \in DOMAIN mods
    BY <1>1, <2>1, Removed
  <2>3. \A j, l \in DOMAIN mods' : (j < l => at(j) < at(l)) /\ (j # 1 => at(j) # 1)
    BY <1>1, <2>1, <2>2
  <2> HIDE DEF at
  <2>4. \A j \in DOMAIN mods' \ {1} : mods[1].atts # NoSet => mods'[j].atts = FileAttributes(mods'[j].file.atts)
    BY <2>2, <2>3 DEF AttributesKept
  <2>5. \A j, l \in DOMAIN mods' : j < l => forced \/ pmelf_match_attribute_set(mods'[j].atts, mods'[l].atts)
    BY <2>2, <2>3 DEF AttributesKept
  <2>6. pc' \notin Loading
    BY <2>1 DEF Loading, AfterNames, AfterSymtab
  <2> QED
    BY <2>1, <2>2, <2>4, <2>5, <2>6 DEF AttributesKept
<1>7. CASE UNCHANGED vars
  BY <1>4, <1>7 DEF vars
<1>8. ASSUME NEW o \in Objects, Search(o)
      PROVE  AttributesKept'
  BY <1>4, <1>8 DEF Search, Fail, Rest, AfterNames, AfterSymtab
<1>9. CASE Open
  BY <1>4, <1>9 DEF Open, Refused, Fail, Rest, AfterNames, AfterSymtab
<1>10. CASE Names \/ slurp_symtab \/ s_count \/ cexpSegsAlloc \/ s_setvma \/ s_reloc \/ (Finish /\ mods' = mods)
  <2>1. pc \in Rest /\ mods' = mods /\ UNCHANGED <<obj, atts, forced>>
    BY <1>10 DEF Names, slurp_symtab, s_count, cexpSegsAlloc, s_setvma, s_reloc, Finish, Rest, AfterNames, AfterSymtab
  <2> QED
    BY <1>4, <2>1
<1>11. CASE Cleanup
  BY <1>4, <1>11 DEF Cleanup, Rest, AfterNames, AfterSymtab
<1>12. CASE SetForced
  BY <1>4, <1>12 DEF SetForced, Rest, AfterNames, AfterSymtab
<1> QED
  BY <1>3, <1>5, <1>6, <1>7, <1>8, <1>9, <1>10, <1>11, <1>12 DEF Next, LoadStep

-----------------------------------------------------------------------------
(* The theorems *)

LEMMA InitHolds ==
    ASSUME Init
    PROVE  IInv
<1>1. /\ pc = "idle" /\ sect = <<>> /\ stream = "none" /\ seg = <<>> /\ common = <<>> /\ held = {}
      /\ forced = FALSE /\ loads = 0
  BY DEF Init
<1>2. PICK a : mods = <<System(a)>>
  BY DEF Init
<1>3. PICK x : x = System(a)
  OBVIOUS
<1>4. /\ x.file = None /\ x.sect = <<>> /\ x.seg = <<>> /\ x.common = <<>> /\ x.ctors = <<>> /\ x.dtors = <<>>
  BY <1>3 DEF System
<1>5. mods = <<x>> /\ Len(mods) = 1 /\ DOMAIN mods = {1} /\ mods[1] = x /\ ToSet(mods) = {x} /\ mods \in Seq(ToSet(mods))
  <2>1. mods = <<x>> /\ Len(mods) = 1 /\ DOMAIN mods = {1} /\ mods[1] = x
    BY <1>2, <1>3
  <2>2. ToSet(mods) = {x}
    BY <2>1 DEF ToSet
  <2> QED
    BY <2>1, <2>2
<1>6. DOMAIN x.sect = {} /\ DOMAIN x.seg = {} /\ DOMAIN x.common = {} /\ DOMAIN x.ctors = {} /\ DOMAIN x.dtors = {}
  BY <1>4
<1>7. TypeOK /\ Owned
  <2>1. Typed
    <3>1. DOMAIN seg = {} /\ DOMAIN sect = {} /\ loads \in 0..MaxLoads
      BY <1>1, SizesOK
    <3> QED
      BY <1>1, <3>1 DEF Typed
  <2>2. Holding
    BY <1>1 DEF Holding, Owned, Lost, Places, Loading, AfterNames, AfterSymtab
  <2> QED
    BY <2>1, <2>2, TypeIs
<1>8. FileShown /\ CommonsKept /\ SegmentsTaken /\ SectionsPlaced /\ RelocationsDone
  BY <1>1 DEF FileShown, CommonsKept, SegmentsTaken, SectionsPlaced, RelocationsDone, Loading, AfterNames, AfterSymtab
<1>9. ModulesApart
  <2>1. Loaded(x) = {}
    BY <1>6 DEF Loaded
  <2>2. Given(x) /\ Fits(x) /\ Apart(x)
    BY <1>6, <2>1 DEF Given, Fits, Apart
  <2> QED
    BY <1>4, <1>5, <1>6, <2>2 DEF ModulesApart
<1>10. AttributesKept
  BY <1>1, <1>5 DEF AttributesKept, Loading, AfterNames, AfterSymtab
<1>11. CommonsIn(x) /\ SymbolsIn(x) /\ ListsIn(x)
  BY <1>4, <1>6 DEF CommonsIn, SymbolsIn, ListsIn
<1>12. CommonsPlaced /\ SymbolsInside /\ InitializationOrdered
  BY <1>5, <1>11, InModules
<1> QED
  BY <1>7, <1>8, <1>9, <1>10, <1>12 DEF IInv

LEMMA StepHolds ==
    ASSUME IInv, [Next]_vars
    PROVE  IInv'
<1>1. Holding /\ Typed
  BY TypeIs DEF IInv
<1>2. Holding'
  BY <1>1, StepHolding DEF Typed
<1>3. FileShown' /\ CommonsKept'
  BY StepShown DEF IInv
<1>4. Typed' /\ SegmentsTaken' /\ SectionsPlaced'
  BY <1>1, StepTaken DEF IInv
<1>5. TypeOK' /\ Owned'
  BY <1>2, <1>4 DEF TypeOK, Holding, Typed, SegmentType, Places, All
<1>6. ModulesApart' /\ CommonsPlaced' /\ SymbolsInside' /\ InitializationOrdered'
  BY <1>1, StepApart DEF IInv
<1>7. RelocationsDone' /\ AttributesKept'
  BY StepRelocated, StepAttributes DEF IInv
<1> QED
  BY <1>3, <1>4, <1>5, <1>6, <1>7 DEF IInv

\* At each step of a load, what the steps before it have established holds, for
\* every file, allocator and outcome of each step.
THEOREM LinkInvariant == Spec => []IInv
<1>1. Init => IInv
  BY InitHolds
<1>2. IInv /\ [Next]_vars => IInv'
  BY StepHolds
<1> QED
  BY <1>1, <1>2, PTL DEF Spec

\* Wherever cexpLoadFile fails, what it took is given back but for the scratch file
\* of a file that came over TFTP and the buffer of a refused group; the stream is
\* closed exactly once, and a module that was loaded keeps its segments and nothing
\* else.
THEOREM EverythingReturned == Spec => []TakenReturned
<1>1. IInv => TakenReturned
  BY DEF IInv, Owned, TakenReturned, ResourcesReturned, StreamClosedOnce
<1> QED
  BY <1>1, LinkInvariant, PTL

\* Constructors and destructors are in the order of their priorities, however
\* qsort orders equal ones.
THEOREM ListsOrdered == Spec => []InitializationOrdered
<1>1. IInv => InitializationOrdered
  BY DEF IInv
<1> QED
  BY <1>1, LinkInvariant, PTL

\* Sections are aligned, inside the memory taken for them and apart from those of
\* all modules, whatever addresses malloc returns.
THEOREM LayoutsFit == Spec => []LayoutFits
<1>1. IInv => LayoutFits
  BY LayoutHolds DEF IInv
<1> QED
  BY <1>1, LinkInvariant, PTL

-----------------------------------------------------------------------------
(* Regions, relocations in the section *)

\* The memory for code, of a system that has some.
LEMMA RegionFits ==
    ASSUME NEW r \in Regions, Region(r).size > 0
    PROVE  LET g == Region(r) IN
           /\ g.start >= r.start /\ g.start + g.size <= r.start + r.size
           /\ g.start + g.size <= Limit
           /\ g.start % CpuAlignment = 0 /\ g.size % CpuAlignment = 0
<1> DEFINE A == CpuAlignment
           n == IF r.start >= Limit THEN 0
                ELSE IF r.start + r.size > Limit THEN Limit - r.start ELSE r.size
           s == ((r.start + A - 1) \div A) * A
           rest == n - (s - r.start)
           g == Region(r)
<1>1. A \in Nat \ {0} /\ Limit \in Nat /\ r.start \in Nat /\ r.size \in Nat
  BY RegionsOK
<1>2. s \in Nat /\ r.start <= s /\ s % A = 0
  BY <1>1, NextMultiple
<1>3. g.start = s /\ g.size = IF n = 0 THEN 0 ELSE rest - (rest % A)
  BY DEF Region
<1>4. n \in Nat /\ r.start + n <= r.start + r.size /\ (n # 0 => r.start + n <= Limit)
  BY <1>1
<1> HIDE DEF A, n, s
<1>5. n # 0 /\ rest - (rest % A) > 0
  BY <1>3
<1>6. rest \in Int /\ s + rest = r.start + n
  BY <1>1, <1>2, <1>4
<1> HIDE DEF rest
<1>7. PICK q \in Int, x \in 0..(A - 1) : rest = q * A + x /\ x = rest % A
  <2> DEFINE q == rest \div A
             x == rest % A
  <2>1. q \in Int /\ x \in 0..(A - 1) /\ rest = q * A + x
    BY <1>1, <1>6
  <2> QED
    BY <2>1
<1>8. PICK y \in Int : y = q * A /\ y % A = 0
  BY <1>1, <1>7
<1>9. rest = y + x /\ x \in Nat
  BY <1>1, <1>7, <1>8
<1>10. g.size = y
  <2>1. g.size = rest - x
    BY <1>3, <1>5, <1>7
  <2> HIDE DEF g
  <2> QED
    BY <1>6, <1>8, <1>9, <2>1
<1> HIDE DEF g
<1>11. s + y <= r.start + n
  BY <1>1, <1>2, <1>4, <1>6, <1>8, <1>9
<1>12. s + g.size <= r.start + r.size /\ s + g.size <= Limit
  BY <1>1, <1>2, <1>4, <1>5, <1>8, <1>10, <1>11
<1> QED
  BY <1>2, <1>3, <1>8, <1>10, <1>12 DEF A, g

\* Each kind of relocation patches a number of bits.
LEMMA HowtoBits ==
    ASSUME NEW t \in DOMAIN Cpus[Cpu]
    PROVE  Cpus[Cpu][t].bits \in Nat /\ Bytes(Cpus[Cpu][t]) \in Nat
<1> DEFINE B == {WordBits, HalfBits, ByteBits, AddrBits}
<1>1. B \subseteq Nat /\ ByteBits \in Nat \ {0}
  BY RelocWidthsOK
<1> HIDE DEF B
<1>2. /\ \A s : Half(s).bits \in B /\ [Half(s) EXCEPT !.adjust = TRUE].bits \in B
      /\ \A c, p : Branch(c, p).bits \in B
      /\ \A b \in B : \A w, s, c, p : Howto(b, w, s, c, p).bits \in B /\ [Howto(b, w, s, c, p) EXCEPT !.aligned = TRUE].bits \in B
  BY DEF B, Howto, Half, Branch
<1>3. \A x \in DOMAIN powerpc : powerpc[x].bits \in B
  <2>1. WordBits \in B
    BY DEF B
  <2>2. PICK a, b, c, d, e, g, h :
          /\ a = [Half(HalfBits) EXCEPT !.adjust = TRUE] /\ b = Half(HalfBits) /\ c = Half(0)
          /\ d = Branch("bits", FALSE) /\ e = Branch("sign", TRUE)
          /\ g = [Howto(WordBits, WordBits, 0, "none", TRUE) EXCEPT !.aligned = TRUE]
          /\ h = Howto(WordBits, WordBits, 0, "none", FALSE)
    OBVIOUS
  <2>3. \A y \in {a, b, c, d, e, g, h} : y.bits \in B
    <3>1. a.bits \in B /\ b.bits \in B /\ c.bits \in B
      BY <1>2, <2>2
    <3>2. d.bits \in B /\ e.bits \in B
      BY <1>2, <2>2
    <3>3. g.bits = WordBits /\ h.bits = WordBits
      BY <2>2 DEF Howto
    <3> QED
      BY <2>1, <3>1, <3>2, <3>3
  <2>4. powerpc = [R_PPC_ADDR16_HA |-> a, R_PPC_ADDR16_HI |-> b, R_PPC_ADDR16_LO |-> c, R_PPC_ADDR24 |-> d,
                   R_PPC_REL24 |-> e, R_PPC_REL32 |-> g, R_PPC_ADDR32 |-> h]
    BY <2>2 DEF powerpc
  <2>5. \A x \in DOMAIN powerpc : powerpc[x] \in {a, b, c, d, e, g, h}
    BY <2>4
  <2> QED
    BY <2>3, <2>5
<1>4. \A x \in DOMAIN i386 : i386[x].bits \in B
  BY DEF B, i386, Howto
<1>5. \A x \in DOMAIN m68k : m68k[x].bits \in B
  BY DEF B, m68k, Howto, InPlace
<1>6. \A x \in DOMAIN sparc : sparc[x].bits \in B
  BY DEF B, sparc, Howto, Aligned
<1>7. \A x \in DOMAIN x86_64 : x86_64[x].bits \in B
  BY DEF B, x86_64, Howto
<1>8. Cpus[Cpu] \in {powerpc, i386, m68k, sparc, x86_64}
  BY SizesOK DEF Cpus
<1>9. Cpus[Cpu][t].bits \in B
  <2>1. PICK c : c = Cpus[Cpu]
    OBVIOUS
  <2> QED
    BY <1>3, <1>4, <1>5, <1>6, <1>7, <1>8, <2>1
<1>10. \A b \in Nat : b \div ByteBits \in Nat
  BY <1>1
<1> QED
  BY <1>1, <1>9, <1>10 DEF Bytes

\* RelocationsApplied, of one module.
RelocsIn(m) ==
    m.file # None =>
      \A q \in SectionRelocs(m.file.elf) : LET h == m.file.elf.shdrs[q] IN
        Alloc(m.sect[h.info]) /\ m.sect[h.info].size > 0 =>
          \A e \in h.entries :
            \/ e.off + Bytes(Cpus[Cpu][e.type]) <= m.sect[h.info].size
            \/ m.file.syms[e.sym].kind = "def" /\ ~Alloc(m.sect[m.file.syms[e.sym].sect])

\* Each relocation of a loaded section was done, or is against a dropped one.
LEMMA FinishRelocs ==
    ASSUME Cpu # "sparc", FileShown, RelocationsDone, pc = "values", NEW r, r.file = obj, r.sect = sect
    PROVE  RelocsIn(r)
<1> DEFINE f == obj.elf
<1>1. /\ f \in Objects /\ obj = ObjectOf(f) /\ MarksFit(f) /\ sect \in Seq(ToSet(sect))
      /\ Len(sect) = Len(f.shdrs) + (IF common = <<>> THEN 0 ELSE 1)
      /\ \A i \in DOMAIN f.shdrs : SectionOf(sect[i], elf2bfdsec(f, i))
  BY DEF FileShown, Loading, AfterNames, AfterSymtab
<1>2. obj.elf = f /\ obj.rels = UNION {Relocations(f, i) : i \in DOMAIN f.shdrs}
  BY <1>1 DEF ObjectOf
<1> HIDE DEF f
<1>3. DOMAIN f.shdrs \subseteq DOMAIN sect
  <2>1. DOMAIN sect = 1..Len(sect) /\ Len(sect) \in Nat /\ DOMAIN f.shdrs = 1..Len(f.shdrs) /\ Len(f.shdrs) \in Nat
    BY <1>1, DomainOf, ObjectFacts
  <2>2. PICK x \in {0, 1} : Len(sect) = Len(f.shdrs) + x
    BY <1>1
  <2> QED
    BY <2>1, <2>2
<1>4. ASSUME NEW q \in SectionRelocs(f), NEW h, h = f.shdrs[q], NEW i, i = h.info, Alloc(sect[i]), NEW e \in h.entries,
             ~(obj.syms[e.sym].kind = "def" /\ ~Alloc(sect[obj.syms[e.sym].sect]))
      PROVE  e.off + Bytes(Cpus[Cpu][e.type]) <= sect[i].size
  <2>1. i \in DOMAIN f.shdrs /\ q \in DOMAIN f.shdrs
    BY <1>4 DEF SectionRelocs, RelSections
  <2>2. q \in mark_relocs(f)[i]
    BY <1>4, <2>1 DEF mark_relocs, SectionRelocs
  <2>3. PICK p : p = [sect |-> i, type |-> e.type, off |-> e.off, sym |-> e.sym]
    OBVIOUS
  <2>4. p \in Relocations(f, i)
    BY <1>4, <2>2, <2>3 DEF Relocations
  <2>5. p \in obj.rels
    BY <1>2, <2>1, <2>4
  <2>6. p.sect = i /\ p.type = e.type /\ p.off = e.off /\ p.sym = e.sym
    BY <2>3
  <2>7. p \in Relocs
    BY <1>3, <1>4, <2>1, <2>5, <2>6 DEF Relocs, AllocSections, Ignored
  <2>8. Status(p) = "ok"
    BY <2>7 DEF RelocationsDone
  <2>9. p.type \in DOMAIN Cpus[Cpu] /\ ~Outside(Cpu, Cpus[Cpu][p.type], p.off, sect[p.sect].size)
    <3>1. PICK v, w, s, a : /\ v = sect[p.sect].vma /\ w = p.off /\ s = sect[p.sect].size
                            /\ a = bfd_asymbol_value(obj, sect, common, p.sym)
      OBVIOUS
    <3>2. perform(Cpu, p.type, 0, v, w, s, a, 0).status = "ok"
      BY <2>8, <3>1 DEF Status
    <3>3. \A st, wd : [status |-> st, word |-> wd].status = st
      OBVIOUS
    <3>4. p.type \in DOMAIN Cpus[Cpu] /\ ~Outside(Cpu, Cpus[Cpu][p.type], w, s)
      BY <3>2, <3>3 DEF perform
    <3> QED
      BY <3>1, <3>4
  <2>10. e.off \in Nat /\ sect[i].size \in Nat
    <3>1. sect[i].size = f.shdrs[i].size
      <4>1. SectionOf(sect[i], elf2bfdsec(f, i))
        BY <1>1, <2>1
      <4> QED
        BY <4>1, SectionIs
    <3>2. f.shdrs[i].size \in Nat
      BY <1>1, <2>1, ObjectFacts
    <3>3. h \in ToSet(f.shdrs)
      BY <1>4, <2>1 DEF ToSet
    <3>4. e.off \in Nat
      BY <1>1, <1>4, <3>3, ObjectsOK DEF ObjectOK
    <3> QED
      BY <3>1, <3>2, <3>4
  <2>11. Bytes(Cpus[Cpu][e.type]) \in Nat
    BY <2>6, <2>9, HowtoBits
  <2>12. ~(e.off + Bytes(Cpus[Cpu][e.type]) > sect[i].size)
    BY <2>6, <2>9 DEF Outside
  <2> QED
    BY <2>10, <2>11, <2>12
<1> QED
  BY <1>2, <1>4 DEF RelocsIn, f

LEMMA InitRelocs ==
    ASSUME Init
    PROVE  RelocationsApplied
<1>1. PICK a \in SystemAtts : mods = <<System(FileAttributes(a))>>
  BY DEF Init
<1>2. ToSet(mods) = {System(FileAttributes(a))}
  BY <1>1 DEF ToSet
<1>3. \A m \in ToSet(mods) : m.file = None
  BY <1>2 DEF System
<1> QED
  BY <1>3 DEF RelocationsApplied

LEMMA StepRelocs ==
    ASSUME Cpu # "sparc", IInv, RelocationsApplied, [Next]_vars
    PROVE  RelocationsApplied'
<1>1. \A m \in ToSet(mods) : RelocsIn(m)
  BY DEF RelocationsApplied, RelocsIn
<1>2. ASSUME \A m \in ToSet(mods') : RelocsIn(m)
      PROVE  RelocationsApplied'
  BY <1>2 DEF RelocationsApplied, RelocsIn
<1>3. CASE mods' = mods
  BY <1>1, <1>2, <1>3
<1>4. mods \in Seq(ToSet(mods))
  BY DEF IInv, ModulesApart
<1>5. CASE mods' # mods /\ Finish
  <2>1. pc = "values" /\ \E r : mods' = Append(mods, r) /\ r.file = obj /\ r.sect = sect
    BY <1>5, FinishIs
  <2>2. PICK r : mods' = Append(mods, r) /\ r.file = obj /\ r.sect = sect
    BY <2>1
  <2>3. RelocsIn(r)
    BY <2>1, <2>2, FinishRelocs DEF IInv
  <2>4. ToSet(mods') = ToSet(mods) \cup {r}
    BY <1>4, <2>2, Appended
  <2> QED
    BY <1>1, <1>2, <2>3, <2>4
<1>6. ASSUME NEW i \in DOMAIN mods, Unload(i)
      PROVE  RelocationsApplied'
  <2>1. i # 1 /\ mods' = RemoveAt(mods, i)
    BY <1>6 DEF Unload
  <2>2. ToSet(mods') \subseteq ToSet(mods)
    BY <1>4, <2>1, Removed
  <2> QED
    BY <1>1, <1>2, <2>2
<1> QED
  BY <1>3, <1>5, <1>6, ModulesKept

\* All that a module consists of is where its file and the linker's arithmetic
\* say.  The sparc does not check that a relocation is inside its section.
THEOREM ContentsArePlaced ==
    ASSUME Cpu # "sparc"
    PROVE  Spec => []ContentsPlaced
<1>1. Init => RelocationsApplied
  BY InitRelocs
<1>2. IInv /\ RelocationsApplied /\ [Next]_vars => RelocationsApplied'
  BY StepRelocs
<1>3. RegionInside
  BY RegionFits DEF RegionInside
<1>4. IInv /\ RelocationsApplied /\ RegionInside => ContentsPlaced
  BY LayoutHolds DEF ContentsPlaced, IInv
<1>5. Spec => []RelocationsApplied
  BY <1>1, <1>2, LinkInvariant, PTL DEF Spec
<1> QED
  BY <1>3, <1>4, <1>5, LinkInvariant, PTL

-----------------------------------------------------------------------------
(* Groups *)

\* Members of a group are sections of the file.
LEMMA MembersAre ==
    ASSUME NEW o \in Objects, SectionsFit(o), NEW g \in DOMAIN o.shdrs, NEW ms, ms = elf2bfdsec(o, g).members
    PROVE  /\ DOMAIN ms = 1..Len(ms) /\ Len(ms) \in Nat /\ \A k \in DOMAIN ms : ms[k] \in DOMAIN o.shdrs
           /\ DOMAIN ms # {} => ComdatGroup(o, g) /\ ms = o.shdrs[g].members
<1>1. CASE ComdatGroup(o, g)
  <2>1. ms = o.shdrs[g].members
    BY <1>1 DEF elf2bfdsec, ComdatGroup
  <2>2. ms \in Seq(ToSet(ms))
    <3>1. o.shdrs[g] \in ToSet(o.shdrs)
      BY DEF ToSet
    <3>2. ObjectOK(o)
      BY ObjectsOK
    <3>3. \A h \in ToSet(o.shdrs) : h.members \in Seq(ToSet(h.members))
      BY <3>2 DEF ObjectOK
    <3> QED
      BY <2>1, <3>1, <3>3
  <2>3. \A k \in DOMAIN ms : ms[k] \in DOMAIN o.shdrs
    BY <1>1, <2>1 DEF SectionsFit, SectionFits, MembersFit, MembersOf, ComdatGroup
  <2> QED
    BY <1>1, <2>1, <2>2, <2>3, DomainOf
<1>2. CASE ~ComdatGroup(o, g)
  <2>1. ms = <<>>
    BY <1>2 DEF elf2bfdsec, ComdatGroup
  <2> QED
    BY <2>1
<1> QED
  BY <1>1, <1>2

\* The walk over a group, step by step, in a set of sections that it does not leave.
LEMMA WalkIs ==
    ASSUME NEW o \in Objects, NEW S, NEW g \in S, \A x \in S : elf_next_in_group(o)[x] \in S
    PROVE  /\ \A n \in 0..Len(o.shdrs) : Walk(o, g)[n] \in S
           /\ Walk(o, g)[0] = elf_next_in_group(o)[g]
           /\ \A n \in 1..Len(o.shdrs) : Walk(o, g)[n] = elf_next_in_group(o)[Walk(o, g)[n - 1]]
<1>1. PICK E, n : E = elf_next_in_group(o) /\ n = Len(o.shdrs)
  OBVIOUS
<1>2. n \in Nat
  BY <1>1, ObjectFacts
<1> DEFINE G == [x \in (1..n) \X S |-> E[x[2]]]
           F(f) == [i \in 0..n |-> E[IF i = 0 THEN g ELSE f[i - 1]]]
           e == CHOOSE f : f = F(f)
<1>3. Walk(o, g) = e
  BY <1>1 DEF Walk
<1>4. E[g] \in S /\ G \in [(1..n) \X S -> S] /\ \A i \in 1..n, x \in S : G[<<i, x>>] = E[x]
  BY <1>1
<1> HIDE DEF G
<1>5. PICK f \in [0..n -> S] : Iterates(f, n, E[g], G)
  BY <1>2, <1>4, RecursionIn
<1>6. f = F(f)
  <2>1. f[0] = E[g] /\ \A i \in 1..n : f[i] = G[<<i, f[i - 1]>>]
    BY <1>5 DEF Iterates
  <2>2. \A i \in 1..n : f[i - 1] \in S
    BY <1>2
  <2>3. \A i \in 1..n : f[i] = E[f[i - 1]]
    BY <1>4, <2>1, <2>2
  <2> QED
    BY <2>1, <2>3
<1>7. e = F(e)
  <2> HIDE DEF F
  <2> QED
    BY <1>6
<1>8. ASSUME NEW i \in 0..n
      PROVE  e[i] = E[IF i = 0 THEN g ELSE e[i - 1]]
  <2> HIDE DEF e
  <2> QED
    BY <1>7
<1> HIDE DEF e, F
<1>9. \A i \in 0..n : e[i] \in S
  <2> DEFINE T == {m \in 0..n : e[m] \notin S}
  <2>1. SUFFICES ASSUME T # {}
                 PROVE  FALSE
    OBVIOUS
  <2>2. T \in SUBSET (0..n)
    OBVIOUS
  <2>3. PICK m \in T : \A l \in T : m <= l
    <3> HIDE DEF T
    <3> QED
      BY <1>2, <2>1, <2>2, LeastNumber
  <2>4. m \in 0..n /\ e[m] \notin S
    OBVIOUS
  <2>5. m # 0
    BY <1>1, <1>8, <2>4
  <2>6. m - 1 \in 0..n /\ ~(m <= m - 1)
    BY <1>2, <2>4, <2>5
  <2>7. m - 1 \notin T
    <3> HIDE DEF T
    <3> QED
      BY <2>3, <2>6
  <2>8. e[m - 1] \in S
    BY <2>6, <2>7
  <2> QED
    BY <1>1, <1>8, <2>4, <2>5, <2>8
<1> QED
  BY <1>1, <1>2, <1>3, <1>8, <1>9

\* What comes after member k of group g, the group itself being number 0.
After(o, g, k) ==
    LET ms == o.shdrs[g].members
        y == IF k = Len(ms) THEN g ELSE ms[k + 1] IN
    IF Bogus(o, y) THEN 0 ELSE y

\* With groups like those of compilers the members follow one another.
LEMMA NextIs ==
    ASSUME NEW o \in Objects, SectionsFit(o), GroupsProper(o)
    PROVE  /\ elf_next_in_group(o)[0] = 0
           /\ \A g \in DOMAIN o.shdrs :
                /\ o.shdrs[g].type = "GROUP" /\ ~ComdatGroup(o, g) => elf_next_in_group(o)[g] = 0
                /\ ComdatGroup(o, g) =>
                     /\ elf_next_in_group(o)[g] = After(o, g, 0)
                     /\ \A k \in DOMAIN o.shdrs[g].members :
                          elf_next_in_group(o)[o.shdrs[g].members[k]] = After(o, g, k)
<1>1. DOMAIN o.shdrs = 1..Len(o.shdrs) /\ Len(o.shdrs) \in Nat
  BY ObjectFacts
<1>2. \A i \in 0..Len(o.shdrs) :
        elf_next_in_group(o)[i] = IF grp_next(o, i) = 0 \/ Bogus(o, grp_next(o, i)) THEN 0 ELSE grp_next(o, i)
  BY DEF elf_next_in_group
<1>3. ASSUME NEW h \in DOMAIN o.shdrs, ComdatGroup(o, h), NEW i \in MembersOf(o, h)
      PROVE  /\ i \in DOMAIN o.shdrs /\ i # h /\ o.shdrs[i].type # "GROUP"
             /\ \A g \in DOMAIN o.shdrs : ComdatGroup(o, g) /\ i \in MembersOf(o, g) => g = h
  BY <1>3 DEF SectionsFit, SectionFits, MembersFit, ComdatGroup, GroupsProper
<1> DEFINE gs(i) == {g \in DOMAIN o.shdrs : ComdatGroup(o, g) /\ i \in {g} \cup MembersOf(o, g)}
<1>4. ASSUME NEW i, gs(i) = {}
      PROVE  grp_next(o, i) = 0
  BY <1>4 DEF grp_next
<1>5. \A x \in Int : Max({x}) = x
  BY DEF Max
<1>6. elf_next_in_group(o)[0] = 0
  <2>1. gs(0) = {}
    BY <1>1, <1>3
  <2> QED
    BY <1>1, <1>2, <1>4, <2>1
<1>7. ASSUME NEW g \in DOMAIN o.shdrs, o.shdrs[g].type = "GROUP", ~ComdatGroup(o, g)
      PROVE  elf_next_in_group(o)[g] = 0
  <2>1. gs(g) = {}
    BY <1>3, <1>7
  <2> QED
    BY <1>1, <1>2, <1>4, <2>1
<1>8. ASSUME NEW g \in DOMAIN o.shdrs, ComdatGroup(o, g)
      PROVE  /\ elf_next_in_group(o)[g] = After(o, g, 0)
             /\ \A k \in DOMAIN o.shdrs[g].members :
                  elf_next_in_group(o)[o.shdrs[g].members[k]] = After(o, g, k)
  <2>1. PICK ms : ms = o.shdrs[g].members
    OBVIOUS
  <2>2. /\ DOMAIN ms = 1..Len(ms) /\ Len(ms) \in Nat
        /\ \A k \in DOMAIN ms : ms[k] \in MembersOf(o, g) /\ ms[k] \in DOMAIN o.shdrs
        /\ \A k, l \in DOMAIN ms : ms[k] = ms[l] => k = l
    <3>1. ms = elf2bfdsec(o, g).members
      BY <1>8, <2>1 DEF elf2bfdsec
    <3>2. \A k \in DOMAIN ms : ms[k] \in MembersOf(o, g)
      BY <2>1 DEF MembersOf
    <3>3. \A k, l \in DOMAIN ms : ms[k] = ms[l] => k = l
      BY <1>8, <2>1 DEF GroupsProper
    <3> QED
      BY <3>1, <3>2, <3>3, MembersAre
  <2>3. /\ g \in Int /\ 0 # g /\ g \in 0..Len(o.shdrs)
        /\ \A i \in DOMAIN o.shdrs : i \in 0..Len(o.shdrs) /\ i # 0
    BY <1>1
  <2>4. gs(g) = {g} /\ Max(gs(g)) = g
    <3>1. gs(g) = {g}
      BY <1>3, <1>8 DEF ComdatGroup
    <3> QED
      BY <1>5, <2>3, <3>1
  <2>5. grp_next(o, g) = IF 0 = Len(ms) THEN g ELSE ms[0 + 1]
    BY <2>1, <2>4 DEF grp_next
  <2>6. elf_next_in_group(o)[g] = After(o, g, 0)
    <3>1. 0 # Len(ms) => 0 + 1 \in DOMAIN ms
      BY <2>2
    <3>2. grp_next(o, g) # 0
      BY <2>2, <2>3, <2>5, <3>1
    <3> QED
      BY <1>2, <2>1, <2>3, <2>5, <3>2 DEF After
  <2>7. ASSUME NEW k \in DOMAIN ms
        PROVE  elf_next_in_group(o)[ms[k]] = After(o, g, k)
    <3>1. PICK i : i = ms[k] /\ i \in MembersOf(o, g) /\ i \in DOMAIN o.shdrs
      BY <2>2
    <3>2. gs(i) = {g} /\ Max(gs(i)) = g /\ i # g
      <4>1. gs(i) = {g} /\ i # g
        BY <1>3, <1>8, <3>1 DEF ComdatGroup
      <4> QED
        BY <1>5, <2>3, <4>1
    <3>3. Max({l \in DOMAIN ms : ms[l] = i}) = k
      <4>1. {l \in DOMAIN ms : ms[l] = i} = {k} /\ k \in Int
        BY <2>2, <3>1
      <4> QED
        BY <1>5, <4>1
    <3>4. grp_next(o, i) = IF k = Len(ms) THEN g ELSE ms[k + 1]
      BY <2>1, <3>2, <3>3 DEF grp_next
    <3>5. k # Len(ms) => k + 1 \in DOMAIN ms
      BY <2>2
    <3>6. grp_next(o, i) # 0
      BY <2>2, <2>3, <3>4, <3>5
    <3> QED
      BY <1>2, <2>1, <2>3, <3>1, <3>4, <3>6 DEF After
  <2> QED
    BY <2>1, <2>6, <2>7
<1> QED
  BY <1>6, <1>7, <1>8

\* The walk from the header of a group meets all members up to one that pmbfd
\* ignores, and nothing but the group.
LEMMA GroupWalk ==
    ASSUME NEW o \in Objects, SectionsFit(o), GroupsProper(o), NEW g \in DOMAIN o.shdrs,
           o.shdrs[g].type = "GROUP"
    PROVE  /\ \A x \in GroupOf(o, g) : x = g \/ (ComdatGroup(o, g) /\ x \in MembersOf(o, g))
           /\ ComdatGroup(o, g) =>
                \A k \in DOMAIN o.shdrs[g].members :
                  (\A l \in 1..k : ~Bogus(o, o.shdrs[g].members[l])) => o.shdrs[g].members[k] \in GroupOf(o, g)
<1>1. PICK E, w, N : E = elf_next_in_group(o) /\ w = Walk(o, g) /\ N = Len(o.shdrs)
  OBVIOUS
<1>2. DOMAIN o.shdrs = 1..N /\ N \in Nat
  BY <1>1, ObjectFacts
<1>3. E[0] = 0
  BY <1>1, NextIs
<1>4. CASE ~ComdatGroup(o, g)
  <2>1. E[g] = 0
    BY <1>1, <1>4, NextIs
  <2>2. \A n \in 0..N : w[n] \in {0, g}
    <3>1. \A x \in {0, g} : E[x] \in {0, g}
      BY <1>3, <2>1
    <3> QED
      BY <1>1, <3>1, WalkIs
  <2>3. \A x \in GroupOf(o, g) : x = g
    BY <1>1, <2>2 DEF GroupOf
  <2> QED
    BY <1>4, <2>3
<1>5. CASE ComdatGroup(o, g)
  <2>1. PICK ms, M : ms = o.shdrs[g].members /\ M = MembersOf(o, g)
    OBVIOUS
  <2>2. /\ DOMAIN ms = 1..Len(ms) /\ Len(ms) \in Nat
        /\ \A k \in DOMAIN ms : ms[k] \in M /\ ms[k] \in 1..N
        /\ \A k, l \in DOMAIN ms : ms[k] = ms[l] => k = l
        /\ \A x \in M : \E k \in DOMAIN ms : x = ms[k]
    <3>1. ms = elf2bfdsec(o, g).members
      BY <1>5, <2>1 DEF elf2bfdsec
    <3>2. M = {ms[k] : k \in DOMAIN ms}
      BY <2>1 DEF MembersOf
    <3>3. \A k, l \in DOMAIN ms : ms[k] = ms[l] => k = l
      BY <1>5, <2>1 DEF GroupsProper
    <3> QED
      BY <1>2, <3>1, <3>2, <3>3, MembersAre
  <2>3. E[g] = After(o, g, 0) /\ \A k \in DOMAIN ms : E[ms[k]] = After(o, g, k)
    BY <1>1, <1>5, <2>1, NextIs
  <2>4. \A k \in 0..Len(ms) : After(o, g, k) \in {0, g} \cup M
    <3>1. ASSUME NEW k \in 0..Len(ms), k # Len(ms)
          PROVE  ms[k + 1] \in M
      BY <2>2, <3>1
    <3> QED
      BY <2>1, <3>1 DEF After
  <2>5. \A x \in {0, g} \cup M : E[x] \in {0, g} \cup M
    <3>1. 0 \in 0..Len(ms) /\ \A k \in DOMAIN ms : k \in 0..Len(ms)
      BY <2>2
    <3> QED
      BY <1>3, <2>2, <2>3, <2>4, <3>1
  <2>6. /\ \A n \in 0..N : w[n] \in {0, g} \cup M
        /\ w[0] = E[g] /\ \A n \in 1..N : w[n] = E[w[n - 1]]
    <3>1. PICK S : S = {0, g} \cup M
      OBVIOUS
    <3>2. g \in S /\ \A x \in S : elf_next_in_group(o)[x] \in S
      BY <1>1, <2>5, <3>1
    <3>3. /\ \A n \in 0..Len(o.shdrs) : Walk(o, g)[n] \in S
          /\ Walk(o, g)[0] = elf_next_in_group(o)[g]
          /\ \A n \in 1..Len(o.shdrs) : Walk(o, g)[n] = elf_next_in_group(o)[Walk(o, g)[n - 1]]
      BY <3>2, WalkIs
    <3> QED
      BY <1>1, <3>1, <3>3
  <2>7. \A x \in GroupOf(o, g) : x = g \/ x \in M
    BY <1>1, <2>6 DEF GroupOf
  <2>8. Len(ms) <= N
    <3>1. SUFFICES ASSUME ~(Len(ms) <= N)
                   PROVE  FALSE
      OBVIOUS
    <3>2. ms \in [1..Len(ms) -> 1..N]
      <4>1. ms = elf2bfdsec(o, g).members
        BY <1>5, <2>1 DEF elf2bfdsec
      <4>2. ms \in Seq(ToSet(ms))
        <5>1. o.shdrs[g] \in ToSet(o.shdrs) /\ ObjectOK(o)
          BY ObjectsOK DEF ToSet
        <5> QED
          BY <2>1, <5>1 DEF ObjectOK
      <4> QED
        BY <2>2, <4>2
    <3>3. /\ IsFiniteSet(1..Len(ms)) /\ IsFiniteSet(1..N)
          /\ Cardinality(1..N) < Cardinality(1..Len(ms))
      <4>1. /\ IsFiniteSet(1..Len(ms)) /\ Cardinality(1..Len(ms)) = IF 1 > Len(ms) THEN 0 ELSE Len(ms) - 1 + 1
            /\ IsFiniteSet(1..N) /\ Cardinality(1..N) = IF 1 > N THEN 0 ELSE N - 1 + 1
        <5>1. 1 \in Int /\ Len(ms) \in Int /\ N \in Int
          BY <1>2, <2>2
        <5> QED
          BY <5>1, FS_Interval
      <4> QED
        BY <1>2, <2>2, <3>1, <4>1
    <3>4. \E x, y \in 1..Len(ms) : x # y /\ ms[x] = ms[y]
      <4>1. PICK A, B : A = 1..Len(ms) /\ B = 1..N
        OBVIOUS
      <4>2. ms \in [A -> B] /\ IsFiniteSet(A) /\ IsFiniteSet(B) /\ Cardinality(B) < Cardinality(A)
        BY <3>2, <3>3, <4>1
      <4>3. \E x, y \in A : x # y /\ ms[x] = ms[y]
        BY <4>2, FS_PigeonHole
      <4> QED
        BY <4>1, <4>3
    <3> QED
      BY <2>2, <3>4
  <2>9. ASSUME NEW k \in DOMAIN ms, \A l \in 1..k : ~Bogus(o, ms[l])
        PROVE  ms[k] \in GroupOf(o, g)
    <3> DEFINE T == {n \in 0..(k - 1) : w[n] # ms[n + 1]}
    <3>1. k \in 1..Len(ms) /\ k - 1 \in Nat /\ k - 1 <= N /\ Len(ms) \in Nat
      BY <1>2, <2>2, <2>8
    <3>2. \A l \in 0..(k - 1) : After(o, g, l) = ms[l + 1]
      BY <2>1, <2>9, <3>1 DEF After
    <3>3. T = {}
      <4>1. SUFFICES ASSUME T # {}
                     PROVE  FALSE
        OBVIOUS
      <4>2. T \in SUBSET (0..(k - 1))
        OBVIOUS
      <4>3. PICK m \in T : \A l \in T : m <= l
        <5> HIDE DEF T
        <5> QED
          BY <3>1, <4>1, <4>2, LeastNumber
      <4>4. m \in 0..(k - 1) /\ w[m] # ms[m + 1]
        OBVIOUS
      <4>5. m # 0
        BY <2>3, <2>6, <3>1, <3>2, <4>4
      <4>6. m - 1 \in 0..(k - 1) /\ ~(m <= m - 1) /\ m \in 1..N /\ m \in DOMAIN ms /\ (m - 1) + 1 = m
        BY <1>2, <2>2, <3>1, <4>4, <4>5
      <4>7. m - 1 \notin T
        <5> HIDE DEF T
        <5> QED
          BY <4>3, <4>6
      <4>8. w[m - 1] = ms[m]
        BY <4>6, <4>7
      <4>9. w[m] = E[ms[m]]
        BY <2>6, <4>6, <4>8
      <4> QED
        BY <2>3, <3>2, <4>4, <4>6, <4>9
    <3>4. w[k - 1] = ms[k] /\ k - 1 \in 0..N
      <4>1. k - 1 \in 0..(k - 1) /\ (k - 1) + 1 = k /\ k - 1 \in 0..N
        BY <1>2, <3>1
      <4> QED
        BY <3>3, <4>1
    <3>5. ms[k] # 0
      BY <1>2, <2>2
    <3> QED
      BY <1>1, <3>4, <3>5 DEF GroupOf
  <2> QED
    BY <1>5, <2>1, <2>7, <2>9
<1> QED
  BY <1>4, <1>5

\* Sections that are added or get an address leave groups as they are.
LEMMA WholeKept ==
    ASSUME NEW o, NEW ss, NEW tt, Whole(ss, o), DOMAIN ss \subseteq DOMAIN tt,
           \A g \in DOMAIN ss : /\ DOMAIN ss[g].members = 1..Len(ss[g].members) /\ Len(ss[g].members) \in Nat
                                /\ \A k \in DOMAIN ss[g].members : ss[g].members[k] \in DOMAIN ss,
           \A i \in DOMAIN ss : tt[i].flags = ss[i].flags /\ tt[i].size = ss[i].size /\ tt[i].members = ss[i].members,
           \A g \in DOMAIN tt \ DOMAIN ss : tt[g].members = <<>>
    PROVE  Whole(tt, o)
<1>1. ASSUME NEW g \in DOMAIN ss
      PROVE  Members(tt, o, g) = Members(ss, o, g) /\ Members(ss, o, g) \subseteq DOMAIN ss
  <2>1. PICK ms : ms = ss[g].members /\ ms = tt[g].members
    OBVIOUS
  <2>2. \A k \in DOMAIN ms : tt[ms[k]].flags = ss[ms[k]].flags /\ tt[ms[k]].size = ss[ms[k]].size /\ ms[k] \in DOMAIN ss
    BY <2>1
  <2>3. \A k \in DOMAIN ms : \A l \in 1..k : l \in DOMAIN ms
    BY <2>1
  <2> QED
    BY <2>1, <2>2, <2>3 DEF Members
<1>2. ASSUME NEW g \in DOMAIN tt \ DOMAIN ss
      PROVE  Members(tt, o, g) = {}
  <2>1. DOMAIN tt[g].members = {}
    BY <1>2
  <2> QED
    BY <2>1 DEF Members
<1> QED
  BY <1>1, <1>2 DEF Whole, Alloc

\* The walk of s_eliminate_linkonce drops members together.
LEMMA NamesWhole ==
    ASSUME FileShown, Names, pc' # "cleanup"
    PROVE  Whole(sect', obj.elf)
<1> DEFINE f == obj.elf
           ss == [i \in DOMAIN sect |-> s_nsects(sect[i])]
           gone == UNION {Dropped(f, ss, i) : i \in DOMAIN ss}
<1> SUFFICES ASSUME GroupsProper(f)
             PROVE  Whole(sect', f)
  BY DEF Whole
<1>1. /\ pc = "names" /\ f \in Objects /\ sect' = s_eliminate_linkonce(f, ss)
      /\ sect = Sections(f) /\ SectionsFit(f)
  BY DEF Names, Fail, FileShown, Loading
<1> HIDE DEF f
<1>2. DOMAIN sect = DOMAIN f.shdrs /\ \A i \in DOMAIN f.shdrs : sect[i] = elf2bfdsec(f, i)
  BY <1>1 DEF Sections
<1>3. ASSUME NEW i \in DOMAIN f.shdrs
      PROVE  /\ ss[i].members = elf2bfdsec(f, i).members /\ ss[i].size = f.shdrs[i].size
             /\ ss[i].flags = Flags(f, i) \/ ss[i].flags = Flags(f, i) \ {"alloc"}
             /\ f.shdrs[i].size # 0 => ss[i].flags = Flags(f, i)
             /\ ss[i] = [name |-> ss[i].name, size |-> ss[i].size, align |-> ss[i].align, flags |-> ss[i].flags,
                         members |-> ss[i].members, vma |-> ss[i].vma]
  <2>1. PICK h : h = elf2bfdsec(f, i)
    OBVIOUS
  <2>2. /\ h = [name |-> h.name, size |-> h.size, align |-> h.align, flags |-> h.flags, members |-> h.members, vma |-> h.vma]
        /\ h.size = f.shdrs[i].size /\ h.flags = Flags(f, i)
    BY <2>1 DEF elf2bfdsec
  <2>3. PICK d : d = Drop(h)
    OBVIOUS
  <2>4. d = [name |-> h.name, size |-> h.size, align |-> h.align, flags |-> h.flags \ {"alloc"}, members |-> h.members, vma |-> h.vma]
    BY <2>2, <2>3 DEF Drop
  <2>5. ss[i] = IF h.size = 0 THEN d ELSE h
    BY <1>2, <2>1, <2>3 DEF s_nsects
  <2> HIDE DEF ss
  <2>6. CASE h.size = 0
    BY <2>1, <2>2, <2>4, <2>5, <2>6
  <2>7. CASE h.size # 0
    BY <2>1, <2>2, <2>5, <2>7
  <2> QED
    BY <2>6, <2>7
<1>4. DOMAIN ss = DOMAIN f.shdrs
  BY <1>2
<1>5. sect' = [i \in DOMAIN ss |-> IF i \in gone THEN Drop(ss[i]) ELSE ss[i]]
  BY <1>1 DEF s_eliminate_linkonce
<1> HIDE DEF ss, gone
<1>6. ASSUME NEW i \in DOMAIN f.shdrs
      PROVE  /\ sect'[i].size = f.shdrs[i].size /\ sect'[i].members = elf2bfdsec(f, i).members

             /\ f.shdrs[i].size # 0 => (Alloc(sect'[i]) <=> "alloc" \in Flags(f, i) /\ i \notin gone)
  <2>1. PICK s, d : s = ss[i] /\ d = Drop(s)
    OBVIOUS
  <2>2. d = [name |-> s.name, size |-> s.size, align |-> s.align, flags |-> s.flags \ {"alloc"}, members |-> s.members, vma |-> s.vma]
    <3>1. s = [name |-> s.name, size |-> s.size, align |-> s.align, flags |-> s.flags, members |-> s.members, vma |-> s.vma]
      BY <1>3, <2>1
    <3>2. d = [s EXCEPT !.flags = s.flags \ {"alloc"}]
      BY <2>1 DEF Drop
    <3> QED
      BY <3>1, <3>2
  <2>3. sect'[i] = IF i \in gone THEN d ELSE s
    BY <1>4, <1>5, <2>1
  <2>4. /\ s.size = f.shdrs[i].size /\ s.members = elf2bfdsec(f, i).members
        /\ s.flags = Flags(f, i) \/ s.flags = Flags(f, i) \ {"alloc"}
        /\ f.shdrs[i].size # 0 => s.flags = Flags(f, i)
    BY <1>3, <2>1
  <2>5. CASE i \in gone
    BY <2>1, <2>2, <2>3, <2>4, <2>5 DEF Alloc
  <2>6. CASE i \notin gone
    BY <2>1, <2>3, <2>4, <2>6 DEF Alloc
  <2> QED
    BY <2>5, <2>6
<1>7. ASSUME NEW g \in DOMAIN f.shdrs, NEW i \in Members(sect', f, g)
      PROVE  /\ i \in DOMAIN f.shdrs /\ ComdatGroup(f, g) /\ i \in MembersOf(f, g)
             /\ sect'[i].size > 0 /\ "alloc" \in Flags(f, i) /\ i \in GroupOf(f, g)
  <2>1. PICK ms : ms = elf2bfdsec(f, g).members /\ ms = sect'[g].members /\ ms = ss[g].members
    BY <1>3, <1>6
  <2>2. /\ DOMAIN ms = 1..Len(ms) /\ Len(ms) \in Nat /\ \A k \in DOMAIN ms : ms[k] \in DOMAIN f.shdrs
        /\ DOMAIN ms # {} => ComdatGroup(f, g) /\ ms = f.shdrs[g].members
    BY <1>1, <2>1, MembersAre
  <2>3. PICK k \in DOMAIN ms : /\ i = ms[k] /\ \A l \in 1..k : ~Bogus(f, ms[l])
                               /\ sect'[i].size > 0 /\ "alloc" \in f.shdrs[i].flags
    BY <1>7, <2>1 DEF Members
  <2>4. i \in GroupOf(f, g)
    BY <1>1, <2>2, <2>3, GroupWalk DEF ComdatGroup
  <2>5. "alloc" \in Flags(f, i)
    <3>1. ~Bogus(f, i)
      BY <2>2, <2>3
    <3> QED
      BY <2>3, <3>1 DEF Flags
  <2> QED
    BY <2>2, <2>3, <2>4, <2>5 DEF MembersOf
<1>8. ASSUME NEW g \in DOMAIN f.shdrs, NEW i \in Members(sect', f, g), NEW j \in Members(sect', f, g), i \in gone
      PROVE  j \in gone
  <2>1. PICK x \in DOMAIN f.shdrs : i \in Dropped(f, ss, x)
    BY <1>4, <1>8 DEF gone
  <2>2. /\ i \in DOMAIN f.shdrs /\ ComdatGroup(f, g) /\ i \in MembersOf(f, g)
        /\ g < i /\ f.shdrs[i].type # "GROUP" /\ j \in GroupOf(f, g)
    BY <1>1, <1>7 DEF GroupsProper
  <2>3. /\ Duplicate(ss[x]) /\ "linkonce" \in ss[x].flags
        /\ i = x \/ ("group" \in ss[x].flags /\ i \in GroupOf(f, x))
    BY <2>1 DEF Dropped, Duplicate
  <2>4. i # x
    <3>1. SUFFICES ASSUME i = x
                   PROVE  FALSE
      OBVIOUS
    <3>2. "linkonce" \in Flags(f, i)
      BY <1>3, <2>2, <2>3, <3>1
    <3>3. InEarlierGroup(f, i)
      <4>1. g \in 1..(i - 1)
        <5>1. DOMAIN f.shdrs = 1..Len(f.shdrs) /\ Len(f.shdrs) \in Nat
          BY <1>1, ObjectFacts
        <5> QED
          BY <2>2, <5>1
      <4> QED
        BY <2>2, <4>1 DEF InEarlierGroup
    <3> QED
      BY <2>2, <3>2, <3>3 DEF Flags
  <2>5. x = g
    <3>1. "group" \in Flags(f, x) /\ i \in GroupOf(f, x)
      BY <1>3, <2>3, <2>4
    <3>2. f.shdrs[x].type = "GROUP"
      BY <3>1 DEF Flags
    <3>3. ComdatGroup(f, x) /\ i \in MembersOf(f, x)
      BY <1>1, <2>4, <3>1, <3>2, GroupWalk
    <3> QED
      BY <1>1, <2>2, <3>3 DEF GroupsProper
  <2>6. j \in Dropped(f, ss, g)
    BY <2>2, <2>3, <2>4, <2>5 DEF Dropped
  <2> QED
    BY <1>4, <2>6 DEF gone
<1>9. DOMAIN sect' = DOMAIN f.shdrs
  BY <1>4, <1>5
<1>10. ASSUME NEW g \in DOMAIN f.shdrs, NEW i \in Members(sect', f, g), NEW j \in Members(sect', f, g)
       PROVE  Alloc(sect'[i]) = Alloc(sect'[j])
  <2>1. i \in gone <=> j \in gone
    BY <1>8
  <2>2. f.shdrs[i].size # 0 /\ f.shdrs[j].size # 0
    <3>1. i \in DOMAIN f.shdrs /\ j \in DOMAIN f.shdrs /\ sect'[i].size > 0 /\ sect'[j].size > 0
      BY <1>7
    <3>2. sect'[i].size = f.shdrs[i].size /\ sect'[j].size = f.shdrs[j].size
      BY <1>6, <3>1
    <3>3. f.shdrs[i].size > 0 /\ f.shdrs[j].size > 0
      BY <3>1, <3>2
    <3> QED
      BY <3>3
  <2>3. (Alloc(sect'[i]) <=> i \notin gone) /\ (Alloc(sect'[j]) <=> j \notin gone)
    BY <1>6, <1>7, <2>2
  <2> QED
    BY <2>1, <2>3 DEF Alloc
<1> QED
  BY <1>9, <1>10 DEF Whole, f


\* What the group walks need to know of the sections while a file is loaded.
LEMMA MembersHere ==
    ASSUME FileShown, CommonsKept, pc \in AfterNames, NEW g \in DOMAIN sect
    PROVE  /\ DOMAIN sect[g].members = 1..Len(sect[g].members) /\ Len(sect[g].members) \in Nat
           /\ \A k \in DOMAIN sect[g].members : sect[g].members[k] \in DOMAIN sect
<1> DEFINE f == obj.elf
<1>1. /\ f \in Objects /\ SectionsFit(f) /\ sect \in Seq(ToSet(sect))
      /\ Len(sect) = Len(f.shdrs) + (IF common = <<>> THEN 0 ELSE 1)
      /\ \A i \in DOMAIN f.shdrs : SectionOf(sect[i], elf2bfdsec(f, i))
      /\ common # <<>> => CommonsRight(obj, sect, common)
  BY DEF FileShown, CommonsKept, Loading, AfterNames, AfterSymtab
<1> HIDE DEF f
<1>2. DOMAIN f.shdrs = 1..Len(f.shdrs) /\ Len(f.shdrs) \in Nat
  BY <1>1, ObjectFacts
<1>3. DOMAIN sect = 1..Len(sect) /\ Len(sect) \in Nat
  BY <1>1, DomainOf
<1>4. /\ DOMAIN f.shdrs \subseteq DOMAIN sect
      /\ g \notin DOMAIN f.shdrs => common # <<>> /\ g = Len(sect)
  <2>1. PICK n, l : n = Len(f.shdrs) /\ l = Len(sect)
    OBVIOUS
  <2>2. n \in Nat /\ l \in Nat /\ g \in 1..l
    BY <1>2, <1>3, <2>1
  <2>3. CASE common = <<>>
    <3>1. l = n + 0
      BY <1>1, <2>1, <2>3
    <3> QED
      BY <1>2, <1>3, <2>1, <2>2, <3>1
  <2>4. CASE common # <<>>
    <3>1. l = n + 1
      BY <1>1, <2>1, <2>4
    <3>2. 1..n \subseteq 1..l /\ (g \notin 1..n => g = l)
      BY <2>2, <3>1
    <3> QED
      BY <1>2, <1>3, <2>1, <2>4, <3>2
  <2> QED
    BY <2>3, <2>4
<1>5. CASE g \in DOMAIN f.shdrs
  <2>1. sect[g].members = elf2bfdsec(f, g).members
    <3>1. PICK s : s = sect[g] /\ SectionOf(s, elf2bfdsec(f, g))
      BY <1>1, <1>5
    <3>2. s.members = elf2bfdsec(f, g).members
      BY <3>1, SectionIs
    <3> QED
      BY <3>1, <3>2
  <2>2. PICK ms : ms = sect[g].members
    OBVIOUS
  <2>3. DOMAIN ms = 1..Len(ms) /\ Len(ms) \in Nat /\ \A k \in DOMAIN ms : ms[k] \in DOMAIN f.shdrs
    BY <1>1, <1>5, <2>1, <2>2, MembersAre
  <2> QED
    BY <1>4, <2>2, <2>3
<1>6. CASE g \notin DOMAIN f.shdrs
  <2>1. common # <<>> /\ g = Len(sect)
    BY <1>6, <1>4
  <2>2. PICK d : d = sect[Len(sect)]
    OBVIOUS
  <2>3. d = [name |-> ".dummy", size |-> d.size, align |-> d.align, flags |-> {"alloc"},
             members |-> <<>>, vma |-> d.vma]
    BY <1>1, <2>1, <2>2 DEF CommonsRight
  <2>4. sect[g].members = <<>>
    BY <2>1, <2>2, <2>3
  <2> QED
    BY <2>4
<1> QED
  BY <1>5, <1>6

\* The section that is made for common symbols has no members.
LEMMA DummyAlone == \A order : Dummy(order).members = <<>>
<1> SUFFICES ASSUME NEW order
             PROVE  Dummy(order).members = <<>>
  OBVIOUS
<1>1. PICK p, z, a : /\ p = Placed(order) /\ z = p[Len(p)].off + p[Len(p)].size
                     /\ a = elf_get_align(obj.syms[order[1]])
  OBVIOUS
<1>2. Dummy(order) = [name |-> ".dummy", size |-> z, align |-> a, flags |-> {"alloc"}, members |-> <<>>, vma |-> 0]
  BY <1>1 DEF Dummy
<1> QED
  BY <1>2

LEMMA SymtabWhole ==
    ASSUME FileShown, CommonsKept, slurp_symtab, Whole(sect, obj.elf), pc' # "cleanup"
    PROVE  Whole(sect', obj.elf)
<1>1. pc = "symtab" /\ pc \in AfterNames
  BY DEF slurp_symtab, AfterNames
<1>2. CASE sect' = sect
  BY <1>2
<1>3. CASE \E order : sect' = Append(sect, Dummy(order))
  <2>1. PICK d : sect' = Append(sect, d) /\ d.members = <<>>
    BY <1>3, DummyAlone
  <2>2. sect \in Seq(ToSet(sect))
    BY <1>1 DEF FileShown, Loading
  <2>3. /\ DOMAIN sect' = 1..(Len(sect) + 1) /\ sect'[Len(sect) + 1] = d
        /\ \A i \in DOMAIN sect : sect'[i] = sect[i] /\ i \in DOMAIN sect'
    BY <2>1, <2>2, Appended
  <2>4. DOMAIN sect = 1..Len(sect) /\ Len(sect) \in Nat
    BY <2>2, DomainOf
  <2>5. \A g \in DOMAIN sect' \ DOMAIN sect : sect'[g].members = <<>>
    BY <2>1, <2>3, <2>4
  <2>6. PICK ss, tt : ss = sect /\ tt = sect'
    OBVIOUS
  <2>7. Whole(tt, obj.elf)
    BY <1>1, <2>3, <2>5, <2>6, MembersHere, WholeKept
  <2> QED
    BY <2>6, <2>7
<1> QED
  BY <1>2, <1>3 DEF slurp_symtab, TableFault, Fail

LEMMA SetvmaWhole ==
    ASSUME IInv, s_setvma, Whole(sect, obj.elf), pc' # "cleanup"
    PROVE  Whole(sect', obj.elf)
<1>1. FileShown /\ CommonsKept /\ SegmentsTaken /\ Typed
  BY TypeIs DEF IInv
<1>2. DOMAIN seg = DOMAIN Segments /\ \A k \in DOMAIN seg : seg[k] \in SegmentType
  BY <1>1 DEF s_setvma, Typed
<1>3. pc \in AfterNames
  BY DEF s_setvma, AfterNames, AfterSymtab
<1>4. /\ DOMAIN sect' = DOMAIN sect
      /\ \A i \in DOMAIN sect :
           sect'[i].size = sect[i].size /\ sect'[i].flags = sect[i].flags /\ sect'[i].members = sect[i].members
  BY <1>1, <1>2, SetvmaIs
<1>5. PICK ss, tt : ss = sect /\ tt = sect'
  OBVIOUS
<1>6. Whole(tt, obj.elf)
  BY <1>1, <1>3, <1>4, <1>5, MembersHere, WholeKept
<1> QED
  BY <1>5, <1>6

LEMMA InitGroups ==
    ASSUME Init
    PROVE  GroupsWhole
<1>1. PICK a \in SystemAtts : mods = <<System(FileAttributes(a))>>
  BY DEF Init
<1>2. ToSet(mods) = {System(FileAttributes(a))}
  BY <1>1 DEF ToSet
<1>3. \A m \in ToSet(mods) : m.file = None
  BY <1>2 DEF System
<1>4. pc \notin AfterNames
  BY DEF Init, AfterNames, AfterSymtab
<1> QED
  BY <1>3, <1>4 DEF GroupsWhole

\* The file that is being loaded.
LEMMA StepHere ==
    ASSUME IInv, pc \in AfterNames => Whole(sect, obj.elf), [Next]_vars, pc' \in AfterNames
    PROVE  Whole(sect', obj.elf')
<1>1. FileShown /\ CommonsKept
  BY DEF IInv
<1>2. CASE UNCHANGED <<pc, obj, sect>>
  BY <1>2
<1>3. CASE Names
  <2>1. obj' = obj /\ pc' # "cleanup"
    BY <1>3 DEF Names, AfterNames, AfterSymtab
  <2> QED
    BY <1>1, <1>3, <2>1, NamesWhole
<1>4. CASE slurp_symtab
  <2>1. obj' = obj /\ pc \in AfterNames /\ pc' # "cleanup"
    BY <1>4 DEF slurp_symtab, AfterNames, AfterSymtab
  <2> QED
    BY <1>1, <1>4, <2>1, SymtabWhole
<1>5. CASE s_setvma
  <2>1. obj' = obj /\ pc \in AfterNames /\ pc' # "cleanup"
    BY <1>5 DEF s_setvma, AfterNames, AfterSymtab
  <2> QED
    BY <1>5, <2>1, SetvmaWhole
<1>6. CASE s_count \/ cexpSegsAlloc \/ s_reloc \/ Finish
  <2>1. pc \in AfterNames /\ obj' = obj /\ sect' = sect
    BY <1>6 DEF s_count, cexpSegsAlloc, s_reloc, Finish, AfterNames, AfterSymtab
  <2> QED
    BY <2>1
<1>7. CASE (\E o \in Objects : Search(o)) \/ Open \/ Attributed \/ Cleanup
  <2>1. pc' \notin AfterNames
    BY <1>7 DEF Search, Open, Refused, Attributed, Cleanup, Fail, AfterNames, AfterSymtab
  <2> QED
    BY <2>1
<1>8. CASE SetForced \/ \E i \in DOMAIN mods : Unload(i)
  BY <1>2, <1>8 DEF SetForced, Unload
<1> QED
  BY <1>2, <1>3, <1>4, <1>5, <1>6, <1>7, <1>8 DEF Next, LoadStep, vars

LEMMA StepGroups ==
    ASSUME IInv, GroupsWhole, [Next]_vars
    PROVE  GroupsWhole'
<1> DEFINE Good(m) == m.file # None => Whole(m.sect, m.file.elf)
<1>1. \A m \in ToSet(mods) : Good(m)
  BY DEF GroupsWhole
<1>2. pc' \in AfterNames => Whole(sect', obj.elf')
  BY StepHere DEF GroupsWhole
<1>3. ASSUME \A m \in ToSet(mods') : Good(m)
      PROVE  GroupsWhole'
  BY <1>2, <1>3 DEF GroupsWhole
<1>4. mods \in Seq(ToSet(mods))
  BY DEF IInv, ModulesApart
<1>5. CASE mods' = mods
  BY <1>1, <1>3, <1>5
<1>6. CASE mods' # mods /\ Finish
  <2>1. PICK r : mods' = Append(mods, r) /\ r.file = obj /\ r.sect = sect
    BY <1>6, FinishIs
  <2>2. Good(r)
    <3>1. pc \in AfterNames
      BY <1>6 DEF Finish, AfterNames, AfterSymtab
    <3> QED
      BY <2>1, <3>1 DEF GroupsWhole
  <2>3. ToSet(mods') = ToSet(mods) \cup {r}
    BY <1>4, <2>1, Appended
  <2> QED
    BY <1>1, <1>3, <2>2, <2>3
<1>7. ASSUME NEW i \in DOMAIN mods, Unload(i)
      PROVE  GroupsWhole'
  <2>1. i # 1 /\ mods' = RemoveAt(mods, i)
    BY <1>7 DEF Unload
  <2>2. ToSet(mods') \subseteq ToSet(mods)
    BY <1>4, <2>1, Removed
  <2> QED
    BY <1>1, <1>3, <2>2
<1> QED
  BY <1>5, <1>6, <1>7, ModulesKept

\* The sections of a group are loaded together or not at all, whichever other
\* files have a section or group of their name, in files whose groups are like
\* those of compilers.
THEOREM GroupsStayWhole == Spec => []GroupsWhole
<1>1. Init => GroupsWhole
  BY InitGroups
<1>2. IInv /\ GroupsWhole /\ [Next]_vars => GroupsWhole'
  BY StepGroups
<1> QED
  BY <1>1, <1>2, LinkInvariant, PTL DEF Spec

-----------------------------------------------------------------------------
(* Attributes *)

\* The elements of a concatenation are those of its parts.
LEMMA Joined ==
    ASSUME NEW A, NEW s \in Seq(A), NEW t \in Seq(A)
    PROVE  s \o t \in Seq(A) /\ ToSet(s \o t) = ToSet(s) \cup ToSet(t)
<1>1. PICK u, k, l : u = s \o t /\ k = Len(s) /\ l = Len(t)
  OBVIOUS
<1>2. /\ u \in Seq(A) /\ Len(u) = k + l /\ k \in Nat /\ l \in Nat
      /\ DOMAIN s = 1..k /\ DOMAIN t = 1..l
      /\ \A i \in 1..(k + l) : u[i] = IF i <= k THEN s[i] ELSE t[i - k]
  BY <1>1, ConcatProperties
<1>3. DOMAIN u = 1..(k + l)
  BY <1>2
<1>4. ASSUME NEW i \in DOMAIN u
      PROVE  u[i] \in ToSet(s) \cup ToSet(t)
  <2>1. IF i <= k THEN i \in DOMAIN s ELSE i - k \in DOMAIN t
    BY <1>2, <1>3
  <2> QED
    BY <1>2, <1>3, <2>1 DEF ToSet
<1>5. \A i \in DOMAIN s : i \in DOMAIN u /\ u[i] = s[i]
  BY <1>2, <1>3
<1>6. ASSUME NEW i \in DOMAIN t
      PROVE  t[i] \in ToSet(u)
  <2>1. k + i \in DOMAIN u /\ ~(k + i <= k) /\ (k + i) - k = i
    BY <1>2, <1>3
  <2>2. u[k + i] = t[i]
    BY <1>2, <1>3, <2>1
  <2> QED
    BY <2>1, <2>2 DEF ToSet
<1>7. ToSet(u) = ToSet(s) \cup ToSet(t)
  BY <1>4, <1>5, <1>6 DEF ToSet
<1> QED
  BY <1>1, <1>2, <1>7

LEMMA Flattened ==
    ASSUME NEW A, NEW ss \in Seq(Seq(A)), NEW t, t = FlattenSeq(ss)
    PROVE  t \in Seq(A) /\ ToSet(t) = UNION {ToSet(ss[i]) : i \in DOMAIN ss}
<1> DEFINE n == Len(ss)
           F(c) == [i \in 1..n |-> IF i = 1 THEN ss[i] ELSE c[i - 1] \o ss[i]]
           c == CHOOSE c : c = F(c)
           g == [p \in (1..n) \X Seq(A) |-> p[2] \o ss[p[1]]]
<1>1. n \in Nat /\ DOMAIN ss = 1..n /\ \A i \in 1..n : ss[i] \in Seq(A)
  OBVIOUS
<1>2. CASE n = 0
  <2>1. ss = <<>>
    BY <1>1, <1>2
  <2>2. t = <<>>
    BY <2>1 DEF FlattenSeq
  <2>3. DOMAIN ss = {} /\ DOMAIN t = {} /\ t \in Seq(A)
    BY <1>1, <1>2, <2>2
  <2>4. ToSet(t) = {}
    BY <2>3 DEF ToSet
  <2>5. {ToSet(ss[i]) : i \in DOMAIN ss} = {}
    BY <2>3
  <2> QED
    BY <2>3, <2>4, <2>5
<1>3. CASE n # 0
  <2>1. t = c[n]
    BY <1>1, <1>3 DEF FlattenSeq
  <2> HIDE DEF n
  <2>2. g \in [(1..n) \X Seq(A) -> Seq(A)]
    <3>1. \A p \in (1..n) \X Seq(A) : p[2] \in Seq(A) /\ ss[p[1]] \in Seq(A)
      BY <1>1
    <3>2. \A p \in (1..n) \X Seq(A) : p[2] \o ss[p[1]] \in Seq(A)
      BY <3>1, ConcatProperties
    <3> QED
      BY <3>2
  <2>3. \A i \in 1..n : \A x \in Seq(A) : g[<<i, x>>] = x \o ss[i]
    OBVIOUS
  <2>4. <<>> \in Seq(A)
    OBVIOUS
  <2> HIDE DEF g, F, c
  <2>5. PICK f \in [0..n -> Seq(A)] : Iterates(f, n, <<>>, g)
    BY <1>1, <2>2, <2>4, RecursionIn
  <2>6. ASSUME NEW i \in 1..n
        PROVE  f[i] = f[i - 1] \o ss[i] /\ f[i - 1] \in Seq(A)
    <3>1. i - 1 \in 0..n
      BY <1>1
    <3>2. f[i - 1] \in Seq(A)
      BY <2>5, <3>1
    <3>3. f[i] = g[<<i, f[i - 1]>>]
      BY <2>5 DEF Iterates
    <3> QED
      BY <2>3, <3>2, <3>3
  <2>7. \A i \in 1..n : f[i] = IF i = 1 THEN ss[i] ELSE f[i - 1] \o ss[i]
    <3>1. <<>> \o ss[1] = ss[1]
      BY <1>1, <1>3, ConcatEmptySeq
    <3>2. f[0] = <<>>
      BY <2>5 DEF Iterates
    <3>3. 1 \in 1..n /\ 1 - 1 = 0
      BY <1>1, <1>3
    <3>4. f[1] = ss[1]
      BY <2>6, <3>1, <3>2, <3>3
    <3> QED
      BY <2>6, <3>4
  <2> DEFINE e == [i \in 1..n |-> f[i]]
  <2>8. e = F(e)
    <3>1. \A i \in 1..n : e[i] = IF i = 1 THEN ss[i] ELSE e[i - 1] \o ss[i]
      BY <1>1, <2>7
    <3> QED
      BY <3>1 DEF F
  <2>9. c = F(c)
    BY <2>8 DEF c
  <2>10. \A i \in 1..n : c[i] = IF i = 1 THEN ss[i] ELSE c[i - 1] \o ss[i]
    BY <2>9 DEF F
  <2> DEFINE Right(m) == c[m] \in Seq(A) /\ ToSet(c[m]) = UNION {ToSet(ss[j]) : j \in 1..m}
             T == {m \in 0..n : m # 0 /\ ~Right(m)}
  <2>11. T = {}
    <3>1. SUFFICES ASSUME T # {}
                   PROVE  FALSE
      OBVIOUS
    <3>2. T \in SUBSET (0..n)
      OBVIOUS
    <3>3. PICK m \in T : \A j \in T : m <= j
      <4> HIDE DEF T
      <4> QED
        BY <1>1, <3>1, <3>2, LeastNumber
    <3>4. m \in 1..n /\ ~Right(m)
      OBVIOUS
    <3>5. m # 1
      <4>1. SUFFICES ASSUME m = 1
                     PROVE  FALSE
        OBVIOUS
      <4>2. c[m] = ss[m] /\ ss[m] \in Seq(A)
        BY <1>1, <2>10, <3>4, <4>1
      <4>3. 1..m = {m}
        BY <4>1
      <4> QED
        BY <3>4, <4>2, <4>3
    <3>6. m - 1 \in 1..n /\ m - 1 \notin T
      <4>1. m - 1 \in 1..n /\ ~(m <= m - 1)
        BY <1>1, <3>4, <3>5
      <4> HIDE DEF T
      <4> QED
        BY <3>3, <4>1
    <3>7. Right(m - 1)
      BY <3>6
    <3>8. c[m] = c[m - 1] \o ss[m] /\ ss[m] \in Seq(A)
      BY <1>1, <2>10, <3>4, <3>5
    <3>9. c[m] \in Seq(A) /\ ToSet(c[m]) = ToSet(c[m - 1]) \cup ToSet(ss[m])
      BY <3>7, <3>8, Joined
    <3>10. 1..m = (1..(m - 1)) \cup {m}
      BY <3>4
    <3> QED
      BY <3>4, <3>7, <3>9, <3>10
  <2>12. Right(n)
    <3>1. n \in 0..n /\ n \notin T
      <4> HIDE DEF T
      <4> QED
        BY <1>1, <2>11
    <3> QED
      BY <1>3, <3>1
  <2> QED
    BY <1>1, <2>1, <2>12
<1> QED
  BY <1>2, <1>3

\* Max of a set of numbers up to a bound.
LEMMA MaxIn ==
    ASSUME NEW n \in Nat, NEW K \in SUBSET (0..n), K # {}
    PROVE  Max(K) \in K /\ \A k \in K : k <= Max(K)
<1>1. PICK m \in K : \A k \in K : k <= m
  BY GreatestNumber
<1>2. m \in K /\ \A k \in K : m >= k
  BY <1>1
<1>3. Max(K) \in K /\ \A k \in K : Max(K) >= k
  BY <1>2 DEF Max
<1> QED
  BY <1>3

\* What is read of a section is all there is in it, if it is anything.
LEMMA ReadIs ==
    ASSUME NEW section, section \in Seq(ToSet(section)), \A s \in ToSet(section) : s.attrs \in Seq(ToSet(s.attrs)),
           NEW t, t = FileAttributes(section), t # NoSet
    PROVE  /\ DOMAIN t = {"gnu"} /\ Bad(t["gnu"]) = {}
           /\ t["gnu"] \in Seq(AttributesIn(section)) /\ ToSet(t["gnu"]) = AttributesIn(section)
<1> DEFINE part == LegiblePart(section)
           set == [v \in Vendors(part) |-> AttributesOf(part, v)]
           l == Len(section)
           K == {k \in 0..l : \A i \in 1..k : Legible(section[i])}
           A == AttributesIn(section)
<1>1. section # <<>> /\ part = section /\ t = set /\ \A v \in DOMAIN set : Bad(set[v]) = {}
  BY DEF FileAttributes, pmelf_read_attribute_set
<1>2. l \in Nat /\ DOMAIN section = 1..l /\ l # 0
  BY <1>1
<1>3. \A i \in 1..l : Legible(section[i])
  <2>1. K \in SUBSET (0..l) /\ 0 \in K
    BY <1>2
  <2>2. PICK n \in K : n = Max(K)
    <3> HIDE DEF K
    <3> QED
      BY <1>2, <2>1, MaxIn
  <2>3. section = SubSeq(section, 1, n)
    BY <1>1, <2>2 DEF LegiblePart
  <2>4. n \in 0..l /\ \A i \in 1..n : section[i] \in ToSet(section)
    BY <1>2, <2>1 DEF ToSet
  <2>5. Len(SubSeq(section, 1, n)) = IF 1 <= n THEN n - 1 + 1 ELSE 0
    BY <2>4, SubSeqProperties
  <2>6. n = l
    <3>1. l = IF 1 <= n THEN n - 1 + 1 ELSE 0
      BY <2>3, <2>5
    <3> HIDE DEF l
    <3> QED
      BY <1>2, <2>4, <3>1
  <2> QED
    BY <2>6
<1>4. \A i \in 1..l : section[i].vendor = "gnu"
  BY <1>3 DEF Legible, known_vendors
<1>5. Vendors(part) = {"gnu"}
  <2>1. 1 \in DOMAIN section
    BY <1>2
  <2> HIDE DEF part
  <2> QED
    BY <1>1, <1>2, <1>4, <2>1 DEF Vendors
<1> DEFINE ss == [i \in DOMAIN section |-> section[i].attrs]
<1>6. t["gnu"] = FlattenSeq(ss)
  <2>1. AttributesOf(section, "gnu") = FlattenSeq(ss)
    <3>1. [i \in DOMAIN section |-> IF section[i].vendor = "gnu" THEN section[i].attrs ELSE <<>>] = ss
      BY <1>2, <1>4
    <3> QED
      BY <3>1 DEF AttributesOf
  <2> HIDE DEF part, ss
  <2> QED
    BY <1>1, <1>5, <2>1
<1>7. ss \in Seq(Seq(A)) /\ DOMAIN ss = 1..l
  <2>1. ASSUME NEW i \in 1..l
        PROVE  section[i].attrs \in Seq(A)
    <3>1. section[i] \in ToSet(section)
      BY <1>2 DEF ToSet
    <3>2. PICK q : q = section[i].attrs /\ q \in Seq(ToSet(q)) /\ ToSet(q) \subseteq A
      BY <3>1 DEF AttributesIn
    <3>3. Len(q) \in Nat /\ q \in [1..Len(q) -> A]
      BY <3>2
    <3> QED
      BY <3>2, <3>3
  <2>2. PICK X : X = Seq(A)
    OBVIOUS
  <2>3. ss \in [1..l -> X] /\ DOMAIN ss = 1..l
    BY <1>2, <2>1, <2>2
  <2> HIDE DEF ss, l
  <2>4. ss \in Seq(X)
    BY <1>2, <2>3
  <2> QED
    BY <2>2, <2>3, <2>4
<1>8. t["gnu"] \in Seq(A) /\ ToSet(t["gnu"]) = UNION {ToSet(ss[i]) : i \in DOMAIN ss}
  <2> HIDE DEF ss, A
  <2> QED
    BY <1>6, <1>7, Flattened
<1>9. UNION {ToSet(ss[i]) : i \in DOMAIN ss} = A
  <2>1. ToSet(section) = {section[i] : i \in 1..l}
    BY <1>2 DEF ToSet
  <2> QED
    BY <1>2, <2>1 DEF AttributesIn
<1> QED
  <2> HIDE DEF part, set, ss, A
  <2>1. DOMAIN set = {"gnu"}
    BY <1>5 DEF set
  <2> QED
    BY <1>1, <1>8, <1>9, <2>1 DEF A

\* The value that is compared is the one that the file claims.
LEMMA ValueIs ==
    ASSUME NEW q, q \in Seq(ToSet(q)), Bad(q) = {}, NEW tag \in gnu_ppc_atts,
           \A a, b \in ToSet(q) : a.tag = Tag_GNU_Power_ABI_Struct_Return /\ b.tag = a.tag => a.i = b.i,
           NEW a \in ToSet(q), a.tag = tag
    PROVE  HasTag(q, tag) /\ TagVal(q, tag) = a.i
<1>1. DOMAIN q = 1..Len(q) /\ Len(q) \in Nat
  BY DomainOf
<1>2. PICK i \in DOMAIN q : q[i] = a
  BY DEF ToSet
<1>3. i \in With(q, tag) /\ With(q, tag) \in SUBSET (0..Len(q))
  BY <1>1, <1>2 DEF With
<1>4. PICK m \in With(q, tag) : m = Max(With(q, tag)) /\ i <= m
  BY <1>1, <1>3, MaxIn
<1>5. m \in DOMAIN q /\ q[m].tag = tag /\ q[m] \in ToSet(q)
  BY <1>4 DEF With, ToSet
<1>6. CASE tag = Tag_GNU_Power_ABI_Struct_Return
  BY <1>3, <1>4, <1>5, <1>6 DEF HasTag, TagVal
<1>7. CASE tag # Tag_GNU_Power_ABI_Struct_Return
  <2>1. InMap(tag)
    BY <1>7 DEF gnu_ppc_atts, InMap, max_tag, Tag_GNU_Power_ABI_FP, Tag_GNU_Power_ABI_Vector,
             Tag_GNU_Power_ABI_Struct_Return, Tag_Compat
  <2>2. Earlier(q, m) = {}
    BY <1>5, <2>1 DEF Bad
  <2>3. ~(i < m)
    <3>1. SUFFICES ASSUME i < m
                   PROVE  FALSE
      OBVIOUS
    <3>2. i \in 1..(m - 1)
      BY <1>1, <1>5, <3>1
    <3> QED
      BY <1>2, <1>5, <2>2, <3>2 DEF Earlier
  <2>4. i = m
    BY <1>1, <1>4, <1>5, <2>3
  <2> QED
    BY <1>2, <1>3, <1>4, <2>4 DEF HasTag, TagVal
<1> QED
  BY <1>6, <1>7

\* A module has the attributes that its file shows.
FilesKnown ==
    \A m \in ToSet(mods) : m.file # None =>
      m.file.elf \in Objects /\ m.file.atts = AttributesSection(m.file.elf)

LEMMA InitKnown ==
    ASSUME Init
    PROVE  FilesKnown
<1>1. PICK a \in SystemAtts : mods = <<System(FileAttributes(a))>>
  BY DEF Init
<1>2. ToSet(mods) = {System(FileAttributes(a))}
  BY <1>1 DEF ToSet
<1>3. \A m \in ToSet(mods) : m.file = None
  BY <1>2 DEF System
<1> QED
  BY <1>3 DEF FilesKnown

LEMMA StepKnown ==
    ASSUME IInv, FilesKnown, [Next]_vars
    PROVE  FilesKnown'
<1> DEFINE Good(m) == m.file # None => m.file.elf \in Objects /\ m.file.atts = AttributesSection(m.file.elf)
<1>1. \A m \in ToSet(mods) : Good(m)
  BY DEF FilesKnown
<1>2. ASSUME \A m \in ToSet(mods') : Good(m)
      PROVE  FilesKnown'
  BY <1>2 DEF FilesKnown
<1>3. mods \in Seq(ToSet(mods))
  BY DEF IInv, ModulesApart
<1>4. CASE mods' = mods
  BY <1>1, <1>2, <1>4
<1>5. CASE mods' # mods /\ Finish
  <2>1. PICK r : mods' = Append(mods, r) /\ r.file = obj
    BY <1>5, FinishIs
  <2>2. obj = ObjectOf(obj.elf) /\ obj.elf \in Objects
    BY <1>5 DEF Finish, IInv, FileShown, Loading, AfterNames, AfterSymtab
  <2>3. obj.atts = AttributesSection(obj.elf)
    <3>1. PICK f : f = obj.elf /\ obj = ObjectOf(f)
      BY <2>2
    <3>2. obj.atts = AttributesSection(f)
      BY <3>1 DEF ObjectOf
    <3> QED
      BY <3>1, <3>2
  <2>4. ToSet(mods') = ToSet(mods) \cup {r}
    BY <1>3, <2>1, Appended
  <2> QED
    BY <1>1, <1>2, <2>1, <2>2, <2>3, <2>4
<1>6. ASSUME NEW i \in DOMAIN mods, Unload(i)
      PROVE  FilesKnown'
  <2>1. i # 1 /\ mods' = RemoveAt(mods, i)
    BY <1>6 DEF Unload
  <2>2. ToSet(mods') \subseteq ToSet(mods)
    BY <1>3, <2>1, Removed
  <2> QED
    BY <1>1, <1>2, <2>2
<1> QED
  BY <1>4, <1>5, <1>6, ModulesKept

\* What a module with a file claims is what is compared.
LEMMA ClaimsAre ==
    ASSUME StructReturnOnce, IInv, FilesKnown, mods[1].atts # NoSet, ~forced,
           NEW i \in DOMAIN mods, mods[i].file # None, NEW tag \in gnu_ppc_atts
    PROVE  /\ DOMAIN mods[i].atts = {"gnu"} /\ mods[i].atts # NoSet /\ i # 1
           /\ \A c \in Claims(mods[i], tag) :
                c # 0 /\ HasTag(mods[i].atts["gnu"], tag) /\ TagVal(mods[i].atts["gnu"], tag) = c
<1> DEFINE m == mods[i]
           s == m.file.atts
           t == m.atts
<1>1. DOMAIN mods = 1..Len(mods) /\ Len(mods) \in Nat /\ mods[1].file = None
  BY DomainOf DEF IInv, ModulesApart
<1>2. i # 1 /\ 1 \in DOMAIN mods /\ 1 < i
  BY <1>1
<1>3. t = FileAttributes(s)
  BY <1>2 DEF IInv, AttributesKept
<1>4. pmelf_match_attribute_set(mods[1].atts, t)
  BY <1>2 DEF IInv, AttributesKept
<1>5. t # NoSet
  BY <1>4 DEF pmelf_match_attribute_set
<1>6. m \in ToSet(mods) /\ m.file.elf \in Objects /\ s = AttributesSection(m.file.elf)
  BY DEF FilesKnown, ToSet
<1>7. s \in Seq(ToSet(s)) /\ \A x \in ToSet(s) : x.attrs \in Seq(ToSet(x.attrs))
  <2>1. CASE s = <<>>
    <3>1. ToSet(s) = {}
      BY <2>1 DEF ToSet
    <3> QED
      BY <2>1, <3>1
  <2>2. CASE s # <<>>
    <3>1. PICK o \in Objects : s = o.atts
      BY <1>6, <2>2 DEF AttributesSection
    <3> QED
      BY <3>1, ObjectsOK DEF ObjectOK
  <2> QED
    BY <2>1, <2>2
<1> HIDE DEF s, t
<1>8. PICK q : q = t["gnu"] /\ DOMAIN t = {"gnu"} /\ Bad(q) = {} /\ q \in Seq(AttributesIn(s)) /\ ToSet(q) = AttributesIn(s)
  BY <1>3, <1>5, <1>7, ReadIs
<1>9. \A a, b \in ToSet(q) : a.tag = Tag_GNU_Power_ABI_Struct_Return /\ b.tag = a.tag => a.i = b.i
  BY <1>6, <1>8 DEF StructReturnOnce
<1>10. ASSUME NEW c \in Claims(m, tag)
       PROVE  c # 0 /\ HasTag(q, tag) /\ TagVal(q, tag) = c
  <2>1. PICK a \in AttributesIn(s) : a.tag = tag /\ a.i = c /\ c # 0
    BY <1>10 DEF Claims, AttributesIn, s
  <2>2. q \in Seq(ToSet(q)) /\ a \in ToSet(q)
    BY <1>8, <2>1
  <2> QED
    BY <1>8, <1>9, <2>1, <2>2, ValueIs
<1> QED
  BY <1>2, <1>5, <1>8, <1>10 DEF t

\* Two modules with files, the one loaded before the other.
LEMMA ClaimsAgree ==
    ASSUME StructReturnOnce, IInv, FilesKnown, mods[1].atts # NoSet, ~forced, NEW tag \in gnu_ppc_atts,
           NEW i \in DOMAIN mods, NEW j \in DOMAIN mods, i <= j,
           NEW c \in Claims(mods[i], tag), NEW d \in Claims(mods[j], tag)
    PROVE  c = d
<1>1. mods[i].file # None /\ mods[j].file # None
  BY DEF Claims
<1>2. PICK t, u : t = mods[i].atts /\ u = mods[j].atts
  OBVIOUS
<1>3. /\ DOMAIN t = {"gnu"} /\ t # NoSet /\ c # 0 /\ HasTag(t["gnu"], tag) /\ TagVal(t["gnu"], tag) = c
      /\ DOMAIN u = {"gnu"} /\ u # NoSet /\ d # 0 /\ HasTag(u["gnu"], tag) /\ TagVal(u["gnu"], tag) = d
  BY <1>1, <1>2, ClaimsAre
<1>4. CASE i = j
  BY <1>2, <1>3, <1>4
<1>5. CASE i # j
  <2>1. i < j
    <3>1. DOMAIN mods = 1..Len(mods) /\ Len(mods) \in Nat
      BY DomainOf DEF IInv, ModulesApart
    <3> QED
      BY <1>5, <3>1
  <2>2. pmelf_match_attribute_set(t, u)
    BY <1>2, <2>1 DEF IInv, AttributesKept
  <2>3. TagMatches(t["gnu"], u["gnu"], tag)
    BY <1>3, <2>2 DEF pmelf_match_attribute_set, pmelf_ppc_file_attributes_match
  <2> QED
    BY <1>3, <2>3 DEF TagMatches
<1> QED
  BY <1>4, <1>5

LEMMA AbisHold ==
    ASSUME StructReturnOnce, IInv, FilesKnown
    PROVE  AbisAgree
<1> SUFFICES ASSUME mods[1].atts # NoSet, ~forced, NEW m \in ToSet(mods), NEW n \in ToSet(mods),
                    NEW tag \in gnu_ppc_atts
             PROVE  Cardinality(Claims(m, tag) \cup Claims(n, tag)) <= 1
  BY DEF AbisAgree
<1>1. PICK i \in DOMAIN mods, j \in DOMAIN mods : m = mods[i] /\ n = mods[j]
  BY DEF ToSet
<1> DEFINE C == Claims(m, tag) \cup Claims(n, tag)
<1>2. i <= j \/ j <= i
  <2>1. DOMAIN mods = 1..Len(mods) /\ Len(mods) \in Nat
    BY DomainOf DEF IInv, ModulesApart
  <2> QED
    BY <2>1
<1>3. i <= i /\ j <= j
  <2>1. DOMAIN mods = 1..Len(mods) /\ Len(mods) \in Nat
    BY DomainOf DEF IInv, ModulesApart
  <2> QED
    BY <2>1
<1>4. \A c, d \in C : c = d
  <2>1. \A c, d \in Claims(m, tag) : c = d
    BY <1>1, <1>3, ClaimsAgree
  <2>2. \A c, d \in Claims(n, tag) : c = d
    BY <1>1, <1>3, ClaimsAgree
  <2>3. \A c \in Claims(m, tag), d \in Claims(n, tag) : c = d
    BY <1>1, <1>2, ClaimsAgree
  <2> QED
    BY <2>1, <2>2, <2>3
<1> HIDE DEF C
<1>5. CASE C = {}
  <2>1. Cardinality(C) = 0
    BY <1>5, FS_EmptySet
  <2> QED
    BY <2>1 DEF C
<1>6. CASE C # {}
  <2>1. PICK c \in C : TRUE
    BY <1>6
  <2>2. C = {c}
    BY <1>4, <2>1
  <2>3. Cardinality(C) = 1
    BY <2>2, FS_Singleton
  <2> QED
    BY <2>3 DEF C
<1> QED
  BY <1>5, <1>6

\* No two modules were built for different ABIs, whatever was loaded and unloaded
\* before, in files that contradict nowhere what they say of struct returns.
THEOREM AbisStayAgreed ==
    ASSUME StructReturnOnce
    PROVE  Spec => []AbisAgree
<1>1. Init => FilesKnown
  BY InitKnown
<1>2. IInv /\ FilesKnown /\ [Next]_vars => FilesKnown'
  BY StepKnown
<1>3. IInv /\ FilesKnown => AbisAgree
  BY AbisHold
<1> QED
  BY <1>1, <1>2, <1>3, LinkInvariant, PTL DEF Spec


-----------------------------------------------------------------------------
(* Numbers modulo powers of two *)

\* The greatest width is a number.
LEMMA AddrBitsNat == AddrBits \in Nat
BY RelocWidthsOK

\* Products are associative and distributive.
LEMMA Ring ==
    \A a, b, c \in Int : /\ a * b \in Int /\ a * b = b * a
                        /\ (a + b) * c = a * c + b * c /\ a * (b * c) = (a * b) * c
OBVIOUS

\* A quotient and a remainder are the only ones.
LEMMA DivMod ==
    ASSUME NEW m \in Nat \ {0}, NEW q \in Int, NEW r \in 0..(m - 1), NEW x \in Int, x = q * m + r
    PROVE  x % m = r /\ x \div m = q
<1> DEFINE a == x \div m
           s == x % m
<1>1. a \in Int /\ s \in 0..(m - 1) /\ x = a * m + s
  OBVIOUS
<1> HIDE DEF a, s
<1>2. ASSUME NEW d \in Nat \ {0}
      PROVE  d * m >= m
  OBVIOUS
<1>3. ASSUME NEW i \in Int, NEW j \in Int, NEW u \in 0..(m - 1), NEW v \in 0..(m - 1),
             i * m + u = j * m + v
      PROVE  ~(i < j)
  <2>1. SUFFICES ASSUME i < j
                 PROVE  FALSE
    OBVIOUS
  <2>2. (j - i) * m >= m
    BY <1>2, <2>1
  <2>3. (j - i) * m = j * m - i * m
    OBVIOUS
  <2>4. i * m \in Int /\ j * m \in Int
    OBVIOUS
  <2> QED
    BY <1>3, <2>2, <2>3, <2>4
<1>4. a = q
  <2>1. ~(a < q) /\ ~(q < a)
    BY <1>1, <1>3
  <2> QED
    BY <1>1, <2>1
<1>5. s = r
  <2>1. q * m \in Int
    OBVIOUS
  <2> QED
    BY <1>1, <1>4, <2>1
<1> QED
  BY <1>4, <1>5 DEF a, s

\* Multiples of the modulus make no difference.
LEMMA ModShift ==
    ASSUME NEW m \in Nat \ {0}, NEW x \in Int, NEW q \in Int
    PROVE  (x + q * m) % m = x % m
<1> DEFINE a == x \div m
           s == x % m
<1>1. a \in Int /\ s \in 0..(m - 1) /\ x = a * m + s
  OBVIOUS
<1> HIDE DEF a, s
<1>2. (a + q) * m = a * m + q * m
  BY <1>1, Ring
<1>3. a * m \in Int /\ q * m \in Int /\ a + q \in Int
  BY <1>1, Ring
<1>4. x + q * m = (a + q) * m + s /\ x + q * m \in Int
  BY <1>1, <1>2, <1>3
<1>5. (x + q * m) % m = s
  BY <1>1, <1>3, <1>4, DivMod
<1> QED
  BY <1>5 DEF s

\* A number modulo a multiple of the modulus.
LEMMA ModMod ==
    ASSUME NEW m \in Nat \ {0}, NEW k \in Nat \ {0}, NEW x \in Int
    PROVE  (x % (k * m)) % m = x % m
<1>1. k * m \in Nat \ {0}
  OBVIOUS
<1>2. PICK w \in Nat \ {0} : w = k * m
  BY <1>1
<1> DEFINE a == x \div w
           s == x % w
<1>3. a \in Int /\ s \in Int /\ x = a * w + s
  OBVIOUS
<1> HIDE DEF a, s
<1>4. a * w = (a * k) * m /\ a * k \in Int
  <2>1. a * (k * m) = (a * k) * m
    BY <1>3
  <2> QED
    BY <1>2, <1>3, <2>1
<1>5. (s + (a * k) * m) % m = s % m
  BY <1>3, <1>4, ModShift
<1>6. s + (a * k) * m = x
  <2>1. a * w \in Int
    BY <1>3
  <2> QED
    BY <1>3, <1>4, <2>1
<1> QED
  BY <1>2, <1>5, <1>6 DEF s

\* 2^b is a multiple of each smaller power of two.
LEMMA PowersDivide ==
    ASSUME NEW b \in 0..AddrBits, NEW a \in 0..b
    PROVE  2^a \in Nat \ {0} /\ \E k \in Nat \ {0} : 2^b = k * 2^a
<1>1. \A n \in 0..AddrBits : 2^n \in Nat \ {0} /\ 2^(n + 1) = 2 * 2^n
  BY WordPowers
<1>2. PICK p \in Nat \ {0} : p = 2^a
  BY AddrBitsNat, <1>1
<1> DEFINE T == {d \in 0..(b - a) : ~\E k \in Nat \ {0} : 2^(a + d) = k * p}
<1>3. T = {}
  <2>1. SUFFICES ASSUME T # {}
                 PROVE  FALSE
    OBVIOUS
  <2>2. T \in SUBSET (0..(b - a)) /\ b - a \in Nat
    OBVIOUS
  <2>3. PICK d \in T : \A j \in T : d <= j
    <3> HIDE DEF T
    <3> QED
      BY <2>1, <2>2, LeastNumber
  <2>4. d # 0
    <3>1. 2^(a + 0) = 1 * p
      BY <1>2
    <3> QED
      BY <3>1
  <2>5. d - 1 \in 0..(b - a) /\ a + (d - 1) \in 0..AddrBits /\ (a + (d - 1)) + 1 = a + d
    BY AddrBitsNat, <2>4
  <2>6. d - 1 \notin T
    <3>1. ~(d <= d - 1)
      BY <2>5
    <3> HIDE DEF T
    <3> QED
      BY <2>3, <3>1
  <2>7. PICK k \in Nat \ {0} : 2^(a + (d - 1)) = k * p
    BY <2>5, <2>6
  <2>8. 2^(a + d) = 2 * (k * p)
    BY <1>1, <2>5, <2>7
  <2>9. 2 * (k * p) = (2 * k) * p /\ 2 * k \in Nat \ {0}
    OBVIOUS
  <2> QED
    BY <2>3, <2>8, <2>9
<1>4. b - a \in 0..(b - a) /\ a + (b - a) = b
  OBVIOUS
<1>5. b - a \notin T
  BY <1>3
<1> QED
  BY <1>2, <1>4, <1>5

\* Powers of two grow.
LEMMA PowersOrdered ==
    ASSUME NEW b \in 0..AddrBits, NEW a \in 0..b
    PROVE  2^a \in Nat \ {0} /\ 2^b \in Nat \ {0} /\ 2^a <= 2^b
<1>1. b \in 0..b
  BY AddrBitsNat
<1>2. 2^a \in Nat \ {0} /\ 2^b \in Nat \ {0}
  BY <1>1, PowersDivide
<1>3. PICK k \in Nat \ {0} : 2^b = k * 2^a
  BY PowersDivide
<1>4. PICK p \in Nat \ {0} : p = 2^a
  BY <1>2
<1>5. k * p >= p
  BY <1>3
<1> QED
  BY <1>2, <1>3, <1>4, <1>5


-----------------------------------------------------------------------------
(* Relocations: each kind patches a field of a word *)

\* What kinds of relocation have in common.
KindOK(cpu, h) ==
    /\ h.bits \in {ByteBits, HalfBits, WordBits, AddrBits}
    /\ h.width \in Nat /\ h.low \in Nat /\ h.shift \in Nat
    /\ 0 < h.width /\ h.width <= h.bits /\ h.low < h.width /\ h.shift <= WordBits
    /\ h.check \in {"none", "bits", "sign"}
    /\ h.adjust \in BOOLEAN /\ h.inplace \in BOOLEAN
    /\ h.low # 0 => h.shift = 0 /\ ~h.adjust /\ cpu # "sparc" /\ h.check # "none"
    /\ h.adjust => h.shift # 0
    /\ cpu # "sparc" /\ h.check = "sign" => h.shift = 0
    /\ cpu # "sparc" /\ h.adjust => h.check = "none"
    /\ cpu \in {"powerpc", "i386", "m68k"} => h.width <= WordBits
    /\ h.inplace <=> cpu \in {"i386", "m68k"}

\* All kinds of the five CPUs are such.
LEMMA KindsOK ==
    ASSUME NEW cpu \in DOMAIN Cpus, NEW t \in DOMAIN Cpus[cpu]
    PROVE  KindOK(cpu, Cpus[cpu][t])
<1>1. /\ {WordBits, HalfBits, ByteBits, BranchBits, InsnBits, LoBits, AddrBits} \subseteq Nat \ {0}
      /\ 2 * HalfBits = WordBits /\ 2 * ByteBits = HalfBits /\ 2 * WordBits = AddrBits
      /\ InsnBits < BranchBits /\ BranchBits < WordBits /\ LoBits < WordBits
  BY RelocWidthsOK
<1>2. \A x \in DOMAIN powerpc : KindOK("powerpc", powerpc[x])
  <2>1. KindOK("powerpc", [Half(HalfBits) EXCEPT !.adjust = TRUE])
    BY <1>1 DEF KindOK, Half, Howto
  <2>2. KindOK("powerpc", Half(HalfBits)) /\ KindOK("powerpc", Half(0))
    BY <1>1 DEF KindOK, Half, Howto
  <2>3. KindOK("powerpc", Branch("bits", FALSE)) /\ KindOK("powerpc", Branch("sign", TRUE))
    BY <1>1 DEF KindOK, Branch, Howto
  <2>4. /\ KindOK("powerpc", [Howto(WordBits, WordBits, 0, "none", TRUE) EXCEPT !.aligned = TRUE])
        /\ KindOK("powerpc", Howto(WordBits, WordBits, 0, "none", FALSE))
    BY <1>1 DEF KindOK, Howto
  <2> DEFINE Good(h) == KindOK("powerpc", h)
  <2>5. PICK a, b, c, d, e, g, h :
          /\ a = [Half(HalfBits) EXCEPT !.adjust = TRUE] /\ b = Half(HalfBits) /\ c = Half(0)
          /\ d = Branch("bits", FALSE) /\ e = Branch("sign", TRUE)
          /\ g = [Howto(WordBits, WordBits, 0, "none", TRUE) EXCEPT !.aligned = TRUE]
          /\ h = Howto(WordBits, WordBits, 0, "none", FALSE)
    OBVIOUS
  <2>6. \A y \in {a, b, c, d, e, g, h} : Good(y)
    BY <2>1, <2>2, <2>3, <2>4, <2>5
  <2>7. powerpc = [R_PPC_ADDR16_HA |-> a, R_PPC_ADDR16_HI |-> b, R_PPC_ADDR16_LO |-> c, R_PPC_ADDR24 |-> d,
                   R_PPC_REL24 |-> e, R_PPC_REL32 |-> g, R_PPC_ADDR32 |-> h]
    BY <2>5 DEF powerpc
  <2>8. \A x \in DOMAIN powerpc : powerpc[x] \in {a, b, c, d, e, g, h}
    BY <2>7
  <2> HIDE DEF Good
  <2>9. \A x \in DOMAIN powerpc : Good(powerpc[x])
    BY <2>6, <2>8
  <2> QED
    BY <2>9 DEF Good
<1>3. \A x \in DOMAIN i386 : KindOK("i386", i386[x])
  <2>1. /\ KindOK("i386", [Howto(WordBits, WordBits, 0, "none", FALSE) EXCEPT !.inplace = TRUE])
        /\ KindOK("i386", [Howto(WordBits, WordBits, 0, "none", TRUE) EXCEPT !.inplace = TRUE])
    BY <1>1 DEF KindOK, Howto
  <2> DEFINE Good(h) == KindOK("i386", h)
  <2>2. PICK a, b : /\ a = [Howto(WordBits, WordBits, 0, "none", FALSE) EXCEPT !.inplace = TRUE]
                    /\ b = [Howto(WordBits, WordBits, 0, "none", TRUE) EXCEPT !.inplace = TRUE]
    OBVIOUS
  <2>3. Good(a) /\ Good(b)
    BY <2>1, <2>2
  <2>4. i386 = [R_386_32 |-> a, R_386_PC32 |-> b]
    BY <2>2 DEF i386
  <2> HIDE DEF Good
  <2>5. \A x \in DOMAIN i386 : Good(i386[x])
    BY <2>3, <2>4
  <2> QED
    BY <2>5 DEF Good
<1>4. \A x \in DOMAIN m68k : KindOK("m68k", m68k[x])
  <2>1. \A b \in {ByteBits, HalfBits, WordBits}, c \in {"none", "bits", "sign"}, p \in BOOLEAN :
          KindOK("m68k", InPlace(b, c, p))
    BY <1>1 DEF KindOK, InPlace, Howto
  <2> DEFINE Good(h) == KindOK("m68k", h)
  <2>2. PICK a, b, c, d, e, f :
          /\ a = InPlace(ByteBits, "bits", FALSE) /\ b = InPlace(ByteBits, "sign", TRUE)
          /\ c = InPlace(HalfBits, "bits", FALSE) /\ d = InPlace(HalfBits, "sign", TRUE)
          /\ e = InPlace(WordBits, "none", FALSE) /\ f = InPlace(WordBits, "none", TRUE)
    OBVIOUS
  <2>3. \A y \in {a, b, c, d, e, f} : Good(y)
    BY <2>1, <2>2
  <2>4. m68k = [R_68K_8 |-> a, R_68K_PC8 |-> b, R_68K_16 |-> c, R_68K_PC16 |-> d, R_68K_32 |-> e, R_68K_PC32 |-> f]
    BY <2>2 DEF m68k
  <2> HIDE DEF Good
  <2>5. \A x \in DOMAIN m68k : Good(m68k[x])
    BY <2>3, <2>4
  <2> QED
    BY <2>5 DEF Good
<1>5. \A x \in DOMAIN sparc : KindOK("sparc", sparc[x])
  <2> DEFINE Good(h) == KindOK("sparc", h)
  <2>1. PICK a, b, c, d, e, f, g, h, i, j, k, l, m, n, o :
          /\ a = Aligned(ByteBits, ByteBits, 0, "bits", FALSE)
          /\ b = Aligned(HalfBits, HalfBits, 0, "bits", FALSE)
          /\ c = Aligned(WordBits, WordBits, 0, "bits", FALSE)
          /\ d = Aligned(ByteBits, ByteBits, 0, "sign", TRUE)
          /\ e = Aligned(HalfBits, HalfBits, 0, "sign", TRUE)
          /\ f = Aligned(WordBits, WordBits, 0, "sign", TRUE)
          /\ g = Aligned(WordBits, WordBits - InsnBits, InsnBits, "sign", TRUE)
          /\ h = Aligned(WordBits, WordBits - LoBits, InsnBits, "sign", TRUE)
          /\ i = Aligned(WordBits, WordBits - LoBits, LoBits, "none", FALSE)
          /\ j = Aligned(WordBits, LoBits, 0, "none", FALSE)
          /\ k = Aligned(WordBits, LoBits, 0, "bits", FALSE)
          /\ l = Aligned(WordBits, LoBits, 0, "none", TRUE)
          /\ m = Aligned(WordBits, WordBits - LoBits, LoBits, "bits", TRUE)
          /\ n = Howto(HalfBits, HalfBits, 0, "bits", FALSE)
          /\ o = Howto(WordBits, WordBits, 0, "bits", FALSE)
    OBVIOUS
  <2>2. \A y \in {a, b, c, d, e, f, g, h, i, j, k, l, m, n, o} : Good(y)
    <3>1. Good(a)
      BY <1>1, <2>1 DEF KindOK, Aligned, Howto
    <3>2. Good(b)
      BY <1>1, <2>1 DEF KindOK, Aligned, Howto
    <3>3. Good(c)
      BY <1>1, <2>1 DEF KindOK, Aligned, Howto
    <3>4. Good(d)
      BY <1>1, <2>1 DEF KindOK, Aligned, Howto
    <3>5. Good(e)
      BY <1>1, <2>1 DEF KindOK, Aligned, Howto
    <3>6. Good(f)
      BY <1>1, <2>1 DEF KindOK, Aligned, Howto
    <3>7. Good(g)
      BY <1>1, <2>1 DEF KindOK, Aligned, Howto
    <3>8. Good(h)
      BY <1>1, <2>1 DEF KindOK, Aligned, Howto
    <3>9. Good(i)
      BY <1>1, <2>1 DEF KindOK, Aligned, Howto
    <3>10. Good(j)
      BY <1>1, <2>1 DEF KindOK, Aligned, Howto
    <3>11. Good(k)
      BY <1>1, <2>1 DEF KindOK, Aligned, Howto
    <3>12. Good(l)
      BY <1>1, <2>1 DEF KindOK, Aligned, Howto
    <3>13. Good(m)
      BY <1>1, <2>1 DEF KindOK, Aligned, Howto
    <3>14. Good(n)
      BY <1>1, <2>1 DEF KindOK, Aligned, Howto
    <3>15. Good(o)
      BY <1>1, <2>1 DEF KindOK, Aligned, Howto
    <3> HIDE DEF Good
    <3> QED
      BY <3>1, <3>2, <3>3, <3>4, <3>5, <3>6, <3>7, <3>8, <3>9, <3>10, <3>11, <3>12, <3>13, <3>14, <3>15
  <2>3. sparc = [R_SPARC_8 |-> a, R_SPARC_16 |-> b, R_SPARC_32 |-> c, R_SPARC_DISP8 |-> d, R_SPARC_DISP16 |-> e,
                 R_SPARC_DISP32 |-> f, R_SPARC_WDISP30 |-> g, R_SPARC_WDISP22 |-> h, R_SPARC_HI22 |-> i, R_SPARC_LO10 |-> j,
                 R_SPARC_10 |-> k, R_SPARC_PC10 |-> l, R_SPARC_PC22 |-> m, R_SPARC_UA16 |-> n, R_SPARC_UA32 |-> o]
    BY <2>1 DEF sparc
  <2> HIDE DEF Good
  <2>4. \A x \in DOMAIN sparc : Good(sparc[x])
    BY <2>2, <2>3
  <2> QED
    BY <2>4 DEF Good
<1>6. \A x \in DOMAIN x86_64 : KindOK("x86_64", x86_64[x])
  <2> DEFINE Good(h) == KindOK("x86_64", h)
  <2>1. PICK a, b, c, d, e :
          /\ a = Howto(WordBits, WordBits, 0, "bits", TRUE)
          /\ b = Howto(WordBits, WordBits, 0, "bits", FALSE)
          /\ c = Howto(WordBits, WordBits, 0, "sign", FALSE)
          /\ d = Howto(AddrBits, AddrBits, 0, "none", TRUE)
          /\ e = Howto(AddrBits, AddrBits, 0, "none", FALSE)
    OBVIOUS
  <2>2. \A y \in {a, b, c, d, e} : Good(y)
    <3>1. Good(a)
      BY <1>1, <2>1 DEF KindOK, Howto
    <3>2. Good(b)
      BY <1>1, <2>1 DEF KindOK, Howto
    <3>3. Good(c)
      BY <1>1, <2>1 DEF KindOK, Howto
    <3>4. Good(d)
      BY <1>1, <2>1 DEF KindOK, Howto
    <3>5. Good(e)
      BY <1>1, <2>1 DEF KindOK, Howto
    <3> HIDE DEF Good
    <3> QED
      BY <3>1, <3>2, <3>3, <3>4, <3>5
  <2>3. x86_64 = [R_X86_64_PC32 |-> a, R_X86_64_32 |-> b, R_X86_64_32S |-> c, R_X86_64_PC64 |-> d, R_X86_64_64 |-> e]
    BY <2>1 DEF x86_64
  <2> HIDE DEF Good
  <2>4. \A x \in DOMAIN x86_64 : Good(x86_64[x])
    BY <2>2, <2>3
  <2> QED
    BY <2>4 DEF Good
<1>7. /\ cpu \in {"powerpc", "i386", "m68k", "sparc", "x86_64"}
      /\ Cpus["powerpc"] = powerpc /\ Cpus["i386"] = i386 /\ Cpus["m68k"] = m68k
      /\ Cpus["sparc"] = sparc /\ Cpus["x86_64"] = x86_64
  BY DEF Cpus
<1> QED
  BY <1>2, <1>3, <1>4, <1>5, <1>6, <1>7

-----------------------------------------------------------------------------
(* The field and its neighbours *)

\* A greater multiple is greater by the factor at least.
LEMMA MultiplesApart ==
    ASSUME NEW m \in Nat \ {0}, NEW a \in Int, NEW k \in Int, a * m < k * m
    PROVE  a < k /\ a * m + m <= k * m
<1>1. ASSUME NEW d \in Nat
      PROVE  d * m >= 0
  OBVIOUS
<1>2. a < k
  <2>1. SUFFICES ASSUME k <= a
                 PROVE  FALSE
    OBVIOUS
  <2>2. (a - k) * m >= 0
    BY <1>1, <2>1
  <2>3. (a - k) * m = a * m - k * m
    OBVIOUS
  <2>4. a * m \in Int /\ k * m \in Int
    OBVIOUS
  <2> QED
    BY <2>2, <2>3, <2>4
<1>3. ((k - a) - 1) * m >= 0
  BY <1>1, <1>2
<1>4. ((k - a) - 1) * m = k * m - a * m - m
  OBVIOUS
<1>5. a * m \in Int /\ k * m \in Int
  OBVIOUS
<1> QED
  BY <1>2, <1>3, <1>4, <1>5

\* A field of a word is replaced: the rest of it and the field are found again.
FieldSet(m, n, o, r, word) == word \in Int /\ word % m = r /\ word \div m = o \div m

\* Words stay in their range.
LEMMA FieldReplaced ==
    ASSUME NEW m \in Nat \ {0}, NEW k \in Nat \ {0}, NEW n, n = k * m,
           NEW o \in 0..(n - 1), NEW r \in 0..(m - 1)
    PROVE  FieldSet(m, n, o, r, ((o - (o % m)) + r) % n)
<1> DEFINE a == o \div m
           b == o % m
<1>1. a \in Int /\ b \in 0..(m - 1) /\ o = a * m + b /\ n \in Nat \ {0}
  OBVIOUS
<1>2. o \div m = a /\ o - (o % m) = a * m
  <2>1. a * m \in Int
    BY <1>1
  <2>2. o - b = a * m
    <3> HIDE DEF a, b
    <3> QED
      BY <1>1, <2>1
  <2> QED
    BY <2>2
<1> HIDE DEF a, b
<1>3. a * m \in Int
  BY <1>1
<1>4. a * m >= 0
  <2>1. SUFFICES ASSUME a * m < 0
                 PROVE  FALSE
    BY <1>3
  <2>2. 0 * m = 0
    OBVIOUS
  <2>3. a * m + m <= 0
    BY <1>1, <2>1, <2>2, MultiplesApart
  <2> QED
    BY <1>1, <1>3, <2>3
<1>5. a * m + m <= n
  <2>1. a * m < k * m
    BY <1>1, <1>3
  <2> QED
    BY <1>1, <2>1, MultiplesApart
<1>6. a * m + r \in 0..(n - 1)
  BY <1>1, <1>3, <1>4, <1>5
<1>7. (a * m + r) % n = a * m + r
  BY <1>1, <1>6
<1>8. (a * m + r) % m = r /\ (a * m + r) \div m = a
  BY <1>1, <1>3, DivMod
<1> DEFINE u == (o - (o % m)) + r
<1>9. u = a * m + r
  BY <1>2
<1> HIDE DEF u
<1>10. u % n = u /\ u % m = r /\ u \div m = a /\ u \in Int
  BY <1>3, <1>6, <1>7, <1>8, <1>9
<1>11. FieldSet(m, n, o, r, u % n)
  BY <1>2, <1>10 DEF FieldSet
<1> QED
  BY <1>11 DEF u

\* The same of a field whose low bits are those of the word.
LowKept(l, m, o, x, r) ==
    /\ x % m \in Nat /\ o % l \in Nat /\ x % m <= m - l /\ o % l < l
    /\ r \in 0..(m - 1) /\ r = (x % m) + (o % l)

\* The field and the low bits do not overlap.
LEMMA FieldAndLow ==
    ASSUME NEW l \in Nat \ {0}, NEW j \in Nat \ {0}, NEW m, m = j * l,
           NEW o \in Int, NEW x \in Int, x % l = 0
    PROVE  LowKept(l, m, o, x, ((x % m) - (x % l)) + (o % l))
<1>1. j * l \in Nat \ {0}
  OBVIOUS
<1>2. m \in Nat \ {0}
  BY <1>1
<1>3. PICK c : c = x % m
  OBVIOUS
<1>4. c \in 0..(m - 1)
  BY <1>3
<1>5. c % l = 0
  <2>1. (x % (j * l)) % l = x % l
    BY ModMod
  <2> QED
    BY <1>2, <1>3, <2>1
<1>6. PICK d \in Int : c = d * l
  <2> DEFINE q == c \div l
             e == c % l
  <2>1. q \in Int /\ e \in Int /\ c = q * l + e
    BY <1>4
  <2>2. e = 0
    BY <1>5
  <2> HIDE DEF q, e
  <2>3. q * l \in Int
    BY <2>1
  <2>4. c = q * l
    BY <2>1, <2>2, <2>3
  <2> QED
    BY <2>1, <2>4
<1>7. d * l + l <= j * l
  <2>1. d * l < j * l
    BY <1>2, <1>4, <1>6
  <2> QED
    BY <2>1, MultiplesApart
<1>8. c <= m - l
  BY <1>2, <1>4, <1>6, <1>7
<1>9. o % l \in 0..(l - 1)
  OBVIOUS
<1> QED
  BY <1>2, <1>3, <1>4, <1>8, <1>9 DEF LowKept

\* What is patched.
FieldIn(h, o, x, word) ==
    /\ word \in Int /\ word % 2^h.width = (x % 2^h.width) + (o % 2^h.low)
    /\ word \div 2^h.width = o \div 2^h.width
    /\ o % 2^h.low < 2^h.low /\ o % 2^h.low \in Nat

\* For all kinds.
LEMMA PatchedIs ==
    ASSUME NEW cpu, NEW h, KindOK(cpu, h), NEW o, o \in 0..(2^h.bits - 1), NEW x, x \in Int, x % 2^h.low = 0
    PROVE  FieldIn(h, o, x, Patched(h, o, x) % 2^h.bits)
<1>1. /\ h.bits \in 0..AddrBits /\ h.width \in 0..h.bits /\ h.low \in 0..h.width /\ h.width \in 0..AddrBits
  BY RelocWidthsOK DEF KindOK
<1>2. PICK l \in Nat \ {0} : l = 2^h.low
  BY <1>1, PowersDivide
<1>3. PICK m \in Nat \ {0} : m = 2^h.width
  BY <1>1, PowersDivide
<1>11. PICK n \in Nat \ {0} : n = 2^h.bits
  BY <1>1, PowersDivide
<1>4. PICK k \in Nat \ {0} : 2^h.bits = k * 2^h.width
  BY <1>1, PowersDivide
<1>5. PICK j \in Nat \ {0} : 2^h.width = j * 2^h.low
  BY <1>1, PowersDivide
<1>6. o \in 0..(n - 1) /\ n = k * m /\ m = j * l /\ x % l = 0 /\ o \in Int
  <2>1. k * m \in Nat
    OBVIOUS
  <2> QED
    BY <1>2, <1>3, <1>4, <1>5, <1>11, <2>1
<1>7. PICK r : r = ((x % m) - (x % l)) + (o % l)
  OBVIOUS
<1>8. /\ x % m \in Nat /\ o % l \in Nat /\ x % m <= m - l /\ o % l < l
      /\ r \in 0..(m - 1) /\ r = (x % m) + (o % l)
  <2>1. m = j * l /\ x % l = 0 /\ o \in Int
    BY <1>6
  <2>2. LowKept(l, m, o, x, ((x % m) - (x % l)) + (o % l))
    BY <2>1, FieldAndLow
  <2> QED
    BY <1>7, <2>2 DEF LowKept
<1>9. LET word == ((o - (o % m)) + r) % n IN
      word \in Int /\ word % m = r /\ word \div m = o \div m
  <2>1. o \in 0..(n - 1)
    BY <1>6
  <2>2. n = k * m
    BY <1>6
  <2>3. r \in 0..(m - 1)
    BY <1>8
  <2>4. FieldSet(m, n, o, r, ((o - (o % m)) + r) % n)
    BY <2>1, <2>2, <2>3, FieldReplaced
  <2> QED
    BY <2>4 DEF FieldSet
<1>10. Patched(h, o, x) = (o - (o % m)) + r
  <2>1. Patched(h, o, x) = (o - (o % m)) + ((x % m) - (x % l)) + (o % l)
    BY <1>2, <1>3 DEF Patched
  <2>2. o % m \in Int /\ x % m \in Int /\ x % l \in Int /\ o % l \in Int
    BY <1>6
  <2> QED
    BY <1>6, <1>7, <2>1, <2>2
<1> QED
  BY <1>2, <1>3, <1>11, <1>8, <1>9, <1>10 DEF FieldIn

-----------------------------------------------------------------------------
(* What a relocation that is done does *)

\* What is patched in, of a value that fits.
Moved(cpu, h, n) == IF cpu = "sparc" THEN n \div 2^h.shift ELSE Shifted(h, n)

\* A relocation is done like this, or not at all.
Performed(cpu, type, old, place, S, A) ==
    LET h == Cpus[cpu][type]
        d == Done(cpu, type, old, place, S, A)
        n == Val(cpu, Meant(cpu, type, old, place, S, A)) IN
    /\ cpu # "sparc" => place + Bytes(h) <= LawSize
    /\ Within(h, IF cpu = "sparc" THEN n \div 2^h.shift ELSE n)
    /\ n % 2^h.low = 0
    /\ d.word = Patched(h, old, Moved(cpu, h, n)) % 2^h.bits

\* All numbers are integers.
LEMMA MeantInt ==
    ASSUME NEW cpu \in DOMAIN Cpus, NEW t \in DOMAIN Cpus[cpu],
           NEW old \in Int, NEW place \in Int, NEW S \in Int, NEW A \in Int
    PROVE  /\ Meant(cpu, t, old, place, S, A) \in Int
           /\ \A b \in 1..AddrBits : Signed(old, b) \in Int
<1>1. \A b \in 1..AddrBits : Signed(old, b) \in Int
  <2>1. SUFFICES ASSUME NEW b \in 1..AddrBits
                 PROVE  Signed(old, b) \in Int
    OBVIOUS
  <2>2. b \in 0..AddrBits /\ b \in 0..b
    BY RelocWidthsOK
  <2>3. PICK m \in Nat \ {0} : m = 2^b
    BY <2>2, PowersDivide
  <2>4. old % m \in Int
    OBVIOUS
  <2> QED
    BY <2>3, <2>4 DEF Signed
<1>2. Cpus[cpu][t].bits \in 1..AddrBits
  BY KindsOK, RelocWidthsOK DEF KindOK
<1>3. Signed(old, Cpus[cpu][t].bits) \in Int
  BY <1>1, <1>2
<1> QED
  BY <1>1, <1>3 DEF Meant

\* perform, status by status.
LEMMA PerformIs ==
    ASSUME NEW cpu \in DOMAIN Cpus, NEW t \in DOMAIN Cpus[cpu],
           NEW old \in 0..(2^Cpus[cpu][t].bits - 1), NEW place \in Nat, NEW S \in Int, NEW A \in Int
    PROVE  /\ Done(cpu, t, old, place, S, A).status = "ok" => Performed(cpu, t, old, place, S, A)
           /\ Done(cpu, t, old, place, S, A).status # "ok" => Done(cpu, t, old, place, S, A).word = old
<1> DEFINE h == Cpus[cpu][t]
           n0 == S + (IF h.inplace THEN (IF cpu = "m68k" THEN Signed(old, h.bits) ELSE old) ELSE 0)
                   + (IF cpu = "i386" THEN 0 ELSE A) - (IF h.pcrel THEN place ELSE 0)
           n == Val(cpu, n0)
           m == IF cpu = "sparc" THEN n \div 2^h.shift ELSE n
           d == Done(cpu, t, old, place, S, A)
<1>1. KindOK(cpu, h)
  BY KindsOK
<1>2. h.bits \in 1..AddrBits /\ (h.inplace <=> cpu \in {"i386", "m68k"})
  BY <1>1, RelocWidthsOK DEF KindOK
<1>3. old \in Int
  <2>1. h.bits \in 0..AddrBits /\ h.bits \in 0..h.bits
    BY <1>2, RelocWidthsOK
  <2>2. 2^h.bits \in Nat \ {0}
    BY <2>1, PowersDivide
  <2> QED
    BY <2>2
<1>4. Signed(old, h.bits) \in Int
  BY <1>2, <1>3, MeantInt
<1>5. n0 = Meant(cpu, t, old, place, S, A)
  <2> DEFINE pcs == IF h.pcrel THEN place ELSE 0
  <2>1. pcs \in Int
    OBVIOUS
  <2>2. Meant(cpu, t, old, place, S, A) =
          S + (IF cpu = "i386" THEN old ELSE A) + (IF cpu = "m68k" THEN Signed(old, h.bits) ELSE 0) - pcs
    BY DEF Meant
  <2>3. n0 = S + (IF h.inplace THEN (IF cpu = "m68k" THEN Signed(old, h.bits) ELSE old) ELSE 0)
               + (IF cpu = "i386" THEN 0 ELSE A) - pcs
    OBVIOUS
  <2> HIDE DEF n0, pcs, h
  <2>4. CASE cpu = "i386"
    BY <1>2, <1>3, <2>1, <2>2, <2>3, <2>4
  <2>5. CASE cpu = "m68k"
    BY <1>2, <1>4, <2>1, <2>2, <2>3, <2>5
  <2>6. CASE cpu \notin {"i386", "m68k"}
    BY <1>2, <2>1, <2>2, <2>3, <2>6
  <2> QED
    BY <2>4, <2>5, <2>6
<1> HIDE DEF n0
<1>6. d = (IF t \notin DOMAIN Cpus[cpu] THEN [status |-> "notsupported", word |-> old]
           ELSE IF Outside(cpu, h, place, LawSize) THEN [status |-> "outofrange", word |-> old]
           ELSE IF h.aligned /\ (0 + place) % Bytes(h) # 0 THEN [status |-> "other", word |-> old]
           ELSE IF ~Within(h, m) THEN [status |-> "overflow", word |-> old]
           ELSE IF n % 2^h.low # 0 THEN [status |-> "other", word |-> old]
           ELSE [status |-> "ok", word |-> Patched(h, old, IF cpu = "sparc" THEN m ELSE Shifted(h, n)) % 2^h.bits])
  <2>1. 0 + place = place
    OBVIOUS
  <2> QED
    BY <2>1 DEF Done, perform, n0
<1>7. (IF cpu = "sparc" THEN m ELSE Shifted(h, n)) = Moved(cpu, h, n)
  BY DEF Moved
<1> HIDE DEF n, m, d
<1>8. d.status # "ok" => d.word = old
  BY <1>6
<1>9. ASSUME d.status = "ok"
      PROVE  /\ ~Outside(cpu, h, place, LawSize) /\ Within(h, m) /\ n % 2^h.low = 0
             /\ d.word = Patched(h, old, Moved(cpu, h, n)) % 2^h.bits
  BY <1>6, <1>7, <1>9
<1>10. ~Outside(cpu, h, place, LawSize) => (cpu # "sparc" => place + Bytes(h) <= LawSize)
  <2>1. Bytes(h) \in Int
    <3>1. h.bits \in Nat /\ ByteBits \in Nat \ {0}
      BY <1>2, RelocWidthsOK
    <3> QED
      BY <3>1 DEF Bytes
  <2> QED
    BY <2>1, LawsOK DEF Outside
<1>11. d.status = "ok" => Performed(cpu, t, old, place, S, A)
  BY <1>5, <1>9, <1>10 DEF Performed, d, n, m
<1> QED
  BY <1>8, <1>11 DEF d

\* The sign is extended: multiples of 2^b are added.
LEMMA SignedIs ==
    ASSUME NEW b \in 1..AddrBits, NEW n \in Int
    PROVE  Signed(n, b) \in Int /\ \E q \in Int : Signed(n, b) = n + q * 2^b
<1>1. b \in 0..AddrBits /\ b \in 0..b
  BY RelocWidthsOK
<1>2. PICK m \in Nat \ {0} : m = 2^b
  BY <1>1, PowersDivide
<1> DEFINE q == n \div m
           r == n % m
<1>3. q \in Int /\ r \in 0..(m - 1) /\ n = q * m + r
  OBVIOUS
<1>4. Signed(n, b) = r \/ Signed(n, b) = r - m
  BY <1>2 DEF Signed
<1> HIDE DEF q, r
<1>5. q * m \in Int /\ (-q) * m = -(q * m) /\ (-q - 1) * m = -(q * m) - m /\ -q \in Int /\ -q - 1 \in Int
  BY <1>3
<1>6. CASE Signed(n, b) = r
  <2>1. PICK p \in Int : p = -q
    BY <1>5
  <2>2. Signed(n, b) = n + p * m
    BY <1>3, <1>5, <1>6, <2>1
  <2>3. Signed(n, b) \in Int
    BY <1>3, <1>6
  <2> QED
    BY <1>2, <2>2, <2>3
<1>7. CASE Signed(n, b) = r - m
  <2>1. PICK p \in Int : p = -q - 1
    BY <1>5
  <2>2. Signed(n, b) = n + p * m
    BY <1>3, <1>5, <1>7, <2>1
  <2>3. Signed(n, b) \in Int
    BY <1>3, <1>7
  <2> QED
    BY <1>2, <2>2, <2>3
<1> QED
  BY <1>4, <1>6, <1>7

\* A word that is computed with modulo 2^WordBits keeps its low bits.
LEMMA ValKeeps ==
    ASSUME NEW cpu, NEW n \in Int, NEW w \in 0..AddrBits,
           cpu \in {"powerpc", "i386", "m68k"} => w <= WordBits
    PROVE  Val(cpu, n) \in Int /\ Val(cpu, n) % 2^w = n % 2^w
<1>1. WordBits \in 1..AddrBits /\ WordBits \in 0..AddrBits
  BY RelocWidthsOK
<1>2. CASE cpu \in {"powerpc", "i386", "m68k"}
  <2>1. Val(cpu, n) = Signed(n, WordBits)
    BY <1>2 DEF Val
  <2>2. PICK q \in Int : Signed(n, WordBits) = n + q * 2^WordBits
    BY <1>1, SignedIs
  <2>3. w \in 0..WordBits
    BY <1>2
  <2>4. PICK k \in Nat \ {0} : 2^WordBits = k * 2^w
    BY <1>1, <2>3, PowersDivide
  <2>5. PICK m \in Nat \ {0} : m = 2^w
    BY <1>1, <2>3, PowersDivide
  <2>6. q * (k * m) = (q * k) * m /\ q * k \in Int
    OBVIOUS
  <2>7. PICK j \in Int : j = q * k
    BY <2>6
  <2>8. Val(cpu, n) = n + j * m
    BY <2>1, <2>2, <2>4, <2>5, <2>6, <2>7
  <2>9. (n + j * m) % m = n % m
    BY ModShift
  <2>10. Val(cpu, n) \in Int
    BY <1>1, <2>1, SignedIs
  <2> QED
    BY <2>5, <2>8, <2>9, <2>10
<1>3. CASE cpu \notin {"powerpc", "i386", "m68k"}
  BY <1>3 DEF Val
<1> QED
  BY <1>2, <1>3

\* Numbers of one remainder differ by a multiple.
LEMMA SameRemainder ==
    ASSUME NEW m \in Nat \ {0}, NEW a \in Int, NEW b \in Int, a % m = b % m
    PROVE  (a - b) % m = 0
<1> DEFINE q == a \div m
           p == b \div m
           r == a % m
           s == b % m
<1>1. /\ q \in Int /\ r \in 0..(m - 1) /\ a = q * m + r
      /\ p \in Int /\ s \in 0..(m - 1) /\ b = p * m + s /\ r = s
  OBVIOUS
<1> HIDE DEF q, p, r, s
<1>2. q * m \in Int /\ p * m \in Int /\ (q - p) * m = q * m - p * m /\ q - p \in Int
  BY <1>1
<1>3. PICK t \in Int : t = q - p
  BY <1>2
<1>4. PICK y \in Int : y = a - b
  OBVIOUS
<1>5. y = t * m + 0 /\ 0 \in 0..(m - 1)
  BY <1>1, <1>2, <1>3, <1>4
<1>6. y % m = 0
  BY <1>5, DivMod
<1> QED
  BY <1>4, <1>6

\* A negative number's.
LEMMA RemainderBelow ==
    ASSUME NEW m \in Nat \ {0}, NEW x \in Int, -m <= x, x < 0
    PROVE  x % m = x + m
<1>1. PICK y \in 0..(m - 1) : y = x + m
  OBVIOUS
<1>2. PICK t \in Int : t = -1
  OBVIOUS
<1>3. x = t * m + y
  BY <1>1, <1>2
<1>4. x % m = y
  BY <1>3, DivMod
<1> QED
  BY <1>1, <1>4

\* A field that holds a number within its limits, and bits below it.
FieldHolds(w, low, x, l, word) ==
    /\ w \in 1..AddrBits /\ low \in 0..(w - 1) /\ x \in Int /\ l \in 0..(2^low - 1) /\ word \in Int
    /\ -(2^(w - 1)) <= x /\ x < 2^(w - 1) /\ x % 2^low = 0 /\ word % 2^w = (x % 2^w) + l

\* The sign is that of the number.
LEMMA SignedField ==
    ASSUME NEW w, NEW low, NEW x, NEW l, NEW word, FieldHolds(w, low, x, l, word)
    PROVE  Signed(word, w) = x + l
<1> w \in 1..AddrBits /\ low \in 0..(w - 1) /\ x \in Int /\ l \in 0..(2^low - 1) /\ word \in Int
  BY DEF FieldHolds
<1> -(2^(w - 1)) <= x /\ x < 2^(w - 1) /\ x % 2^low = 0 /\ word % 2^w = (x % 2^w) + l
  BY DEF FieldHolds
<1>1. w - 1 \in 0..AddrBits /\ low \in 0..AddrBits /\ w - 1 \in 0..(w - 1) /\ (w - 1) + 1 = w
  BY RelocWidthsOK
<1>2. PICK p \in Nat \ {0} : p = 2^low
  BY <1>1, PowersDivide
<1>3. PICK h \in Nat \ {0} : h = 2^(w - 1)
  BY <1>1, PowersDivide
<1>4. 2^w = 2 * h
  BY <1>1, <1>3, WordPowers
<1>5. PICK k \in Nat \ {0} : h = k * p
  BY <1>1, <1>2, <1>3, PowersDivide
<1>6. PICK c \in Int : x = c * p
  <2> DEFINE q == x \div p
             e == x % p
  <2>1. q \in Int /\ e \in Int /\ x = q * p + e
    OBVIOUS
  <2>2. e = 0
    BY <1>2
  <2> HIDE DEF q, e
  <2>3. q * p \in Int
    BY <2>1
  <2>4. x = q * p
    BY <2>1, <2>2, <2>3
  <2> QED
    BY <2>1, <2>4
<1>7. x + p <= h
  <2>1. c * p < k * p
    BY <1>3, <1>5, <1>6
  <2> QED
    BY <1>5, <1>6, <2>1, MultiplesApart
<1>8. l \in 0..(p - 1)
  BY <1>2
<1>9. -h <= x /\ x < h
  BY <1>3
<1>10. word % (2 * h) = (x % (2 * h)) + l
  BY <1>4
<1>11. Signed(word, w) = (IF word % (2 * h) >= h THEN (word % (2 * h)) - 2 * h ELSE word % (2 * h))
  BY <1>3, <1>4 DEF Signed
<1>12. PICK m \in Nat \ {0} : m = 2 * h
  OBVIOUS
<1>13. CASE x >= 0
  <2>1. x % m = x
    BY <1>9, <1>12, <1>13
  <2> QED
    BY <1>7, <1>8, <1>9, <1>10, <1>11, <1>12, <1>13, <2>1
<1>14. CASE x < 0
  <2>1. x % m = x + m
    <3>1. -m <= x /\ m \in Nat \ {0}
      BY <1>9, <1>12, <1>14
    <3> QED
      BY <1>14, <3>1, RemainderBelow
  <2> QED
    BY <1>7, <1>8, <1>9, <1>10, <1>11, <1>12, <1>14, <2>1
<1> QED
  BY <1>13, <1>14

\* What ExactDisplacements says of one relocation that is done.
Displaced(h, cpu, n, old, word) ==
    /\ h.check = "sign" =>
         Signed(word, h.width) * (IF cpu = "sparc" THEN 2^h.shift ELSE 1)
           = (IF cpu = "sparc" THEN n - (n % 2^h.shift) ELSE Val(cpu, n)) + (old % 2^h.low)
    /\ h.check = "none" /\ h.shift = 0 => (word - n) % 2^h.width = 0
    /\ word \div 2^h.width = old \div 2^h.width

\* The value that is patched in, of a kind that does not split it.
LEMMA MovedIs ==
    ASSUME NEW cpu, NEW h, KindOK(cpu, h), NEW n \in Int
    PROVE  /\ Moved(cpu, h, n) \in Int
           /\ n % 2^h.low = 0 => Moved(cpu, h, n) % 2^h.low = 0
           /\ cpu # "sparc" /\ h.shift = 0 => Moved(cpu, h, n) = n
           /\ cpu = "sparc" => h.low = 0
           /\ h.shift = 0 => Moved(cpu, h, n) = n
<1>1. /\ h.shift \in 0..AddrBits /\ h.low \in Nat /\ h.shift \in 0..h.shift /\ HalfBits \in 0..AddrBits
      /\ h.low # 0 => h.shift = 0 /\ cpu # "sparc"
      /\ h.adjust => h.shift # 0
  BY RelocWidthsOK DEF KindOK
<1>2. PICK s \in Nat \ {0} : s = 2^h.shift
  BY <1>1, PowersDivide
<1>3. PICK g \in Nat \ {0} : g = 2^HalfBits
  <2>1. HalfBits \in 0..HalfBits
    BY <1>1
  <2> QED
    BY <1>1, <2>1, PowersDivide
<1>4. Shifted(h, n) = n \div s \/ Shifted(h, n) = (n + g) \div s
  BY <1>2, <1>3 DEF Shifted
<1>5. Moved(cpu, h, n) \in Int
  <2>1. n \div s \in Int /\ (n + g) \div s \in Int
    OBVIOUS
  <2> QED
    BY <1>2, <1>4, <2>1 DEF Moved
<1>6. ASSUME h.shift = 0
      PROVE  Moved(cpu, h, n) = n
  <2>1. 2^h.shift = 1
    BY <1>6, WordPowers
  <2>2. n \div 1 = n
    OBVIOUS
  <2>3. ~h.adjust
    BY <1>1, <1>6
  <2>4. Shifted(h, n) = n
    BY <2>1, <2>2, <2>3 DEF Shifted
  <2> QED
    BY <2>1, <2>2, <2>4 DEF Moved
<1>7. ASSUME n % 2^h.low = 0
      PROVE  Moved(cpu, h, n) % 2^h.low = 0
  <2>1. CASE h.low # 0
    BY <1>1, <1>6, <1>7, <2>1
  <2>2. CASE h.low = 0
    <3>1. 2^h.low = 1
      BY <2>2, WordPowers
    <3>2. \A x \in Int : x % 1 = 0
      OBVIOUS
    <3> QED
      BY <1>5, <3>1, <3>2
  <2> QED
    BY <2>1, <2>2
<1> QED
  BY <1>1, <1>5, <1>6, <1>7

\* Half of a field is a power of two.
LEMMA WithinSign ==
    ASSUME NEW h, NEW n, h.check = "sign", Within(h, n)
    PROVE  -(2^(h.width - 1)) <= n /\ n < 2^(h.width - 1)
BY DEF Within

\* A displacement is found again.
LEMMA SignFound ==
    ASSUME NEW cpu, NEW h, KindOK(cpu, h), h.check = "sign", NEW o \in 0..(2^h.bits - 1), NEW n \in Int,
           Within(h, Moved(cpu, h, n)), n % 2^h.low = 0
    PROVE  Signed(Patched(h, o, Moved(cpu, h, n)) % 2^h.bits, h.width) = Moved(cpu, h, n) + (o % 2^h.low)
<1>1. PICK x \in Int : x = Moved(cpu, h, n)
  BY MovedIs
<1>2. PICK word : word = Patched(h, o, x) % 2^h.bits
  OBVIOUS
<1>3. x % 2^h.low = 0
  BY <1>1, MovedIs
<1>4. /\ word \in Int /\ word % 2^h.width = (x % 2^h.width) + (o % 2^h.low)
      /\ o % 2^h.low < 2^h.low /\ o % 2^h.low \in Nat
  BY <1>2, <1>3, PatchedIs DEF FieldIn
<1>5. h.width \in 1..AddrBits /\ h.low \in 0..(h.width - 1) /\ h.low \in 0..AddrBits /\ h.low \in 0..h.low
  BY RelocWidthsOK DEF KindOK
<1>6. -(2^(h.width - 1)) <= x /\ x < 2^(h.width - 1)
  BY <1>1, WithinSign
<1>7. PICK l : l = o % 2^h.low
  OBVIOUS
<1>8. l \in 0..(2^h.low - 1)
  <2>1. 2^h.low \in Nat
    BY <1>5, PowersDivide
  <2> QED
    BY <1>4, <1>7, <2>1
<1>9. word % 2^h.width = (x % 2^h.width) + l
  BY <1>4, <1>7
<1>10. Signed(word, h.width) = x + l
  <2>1. FieldHolds(h.width, h.low, x, l, word)
    BY <1>3, <1>4, <1>5, <1>6, <1>8, <1>9 DEF FieldHolds
  <2> QED
    BY <2>1, SignedField
<1> QED
  BY <1>1, <1>2, <1>7, <1>10

\* A relocation that is done is exact.
LEMMA ExactHere ==
    ASSUME NEW cpu \in DOMAIN Cpus, NEW t \in DOMAIN Cpus[cpu],
           NEW old \in 0..(2^Cpus[cpu][t].bits - 1), NEW place \in Nat, NEW S \in Int, NEW A \in Int,
           Done(cpu, t, old, place, S, A).status = "ok"
    PROVE  Displaced(Cpus[cpu][t], cpu, Meant(cpu, t, old, place, S, A), old, Done(cpu, t, old, place, S, A).word)
<1>1. PICK h : h = Cpus[cpu][t]
  OBVIOUS
<1>2. KindOK(cpu, h)
  BY <1>1, KindsOK
<1>3. /\ h.bits \in 1..AddrBits /\ h.width \in 0..AddrBits /\ h.width \in 0..h.width /\ h.bits \in 0..AddrBits
      /\ h.shift \in 0..AddrBits /\ h.shift \in 0..h.shift /\ h.low \in 0..AddrBits /\ h.low \in 0..h.low
      /\ cpu \in {"powerpc", "i386", "m68k"} => h.width <= WordBits
      /\ cpu # "sparc" /\ h.check = "sign" => h.shift = 0
      /\ h.low # 0 => h.check # "none"
      /\ h.bits \in 0..h.bits
  BY <1>2, RelocWidthsOK DEF KindOK
<1>4. old \in Int /\ old \in 0..(2^h.bits - 1)
  <2>1. 2^h.bits \in Nat
    BY <1>3, PowersDivide
  <2> QED
    BY <1>1, <2>1
<1>5. PICK n0 \in Int : n0 = Meant(cpu, t, old, place, S, A)
  BY <1>4, MeantInt
<1>6. PICK word : word = Done(cpu, t, old, place, S, A).word
  OBVIOUS
<1>7. PICK n \in Int : n = Val(cpu, n0) /\ n % 2^h.width = n0 % 2^h.width
  BY <1>3, ValKeeps
<1>8. PICK x \in Int : x = Moved(cpu, h, n)
  BY <1>2, MovedIs
<1>9. /\ Within(h, IF cpu = "sparc" THEN n \div 2^h.shift ELSE n)
      /\ n % 2^h.low = 0 /\ word = Patched(h, old, x) % 2^h.bits
  <2>1. Performed(cpu, t, old, place, S, A)
    BY PerformIs
  <2> QED
    BY <1>1, <1>5, <1>6, <1>7, <1>8, <2>1 DEF Performed
<1>10. x % 2^h.low = 0
  BY <1>2, <1>8, <1>9, MovedIs
<1>11. /\ word \in Int /\ word % 2^h.width = (x % 2^h.width) + (old % 2^h.low)
       /\ word \div 2^h.width = old \div 2^h.width
  BY <1>2, <1>4, <1>9, <1>10, PatchedIs DEF FieldIn
<1>12. h.low = 0 => old % 2^h.low = 0
  <2>1. \A i \in Int : i % 1 = 0
    OBVIOUS
  <2> QED
    BY <1>4, <2>1, WordPowers
<1>13. ASSUME h.check = "sign"
       PROVE  Signed(word, h.width) * (IF cpu = "sparc" THEN 2^h.shift ELSE 1)
                = (IF cpu = "sparc" THEN n0 - (n0 % 2^h.shift) ELSE Val(cpu, n0)) + (old % 2^h.low)
  <2>1. Within(h, x)
    <3>1. CASE cpu = "sparc"
      BY <1>8, <1>9, <3>1 DEF Moved
    <3>2. CASE cpu # "sparc"
      BY <1>2, <1>3, <1>8, <1>9, <1>13, <3>2, MovedIs
    <3> QED
      BY <3>1, <3>2
  <2>2. Signed(word, h.width) = x + (old % 2^h.low)
    BY <1>2, <1>4, <1>8, <1>9, <1>13, <2>1, SignFound
  <2>3. CASE cpu # "sparc"
    <3>1. x = n
      BY <1>2, <1>3, <1>8, <1>13, <2>3, MovedIs
    <3>2. \A i \in Int : i * 1 = i
      OBVIOUS
    <3>3. PICK l : l = old % 2^h.low
      OBVIOUS
    <3>4. l \in Int
      <4>1. PICK p \in Nat \ {0} : p = 2^h.low
        BY <1>3, PowersDivide
      <4> QED
        BY <1>4, <3>3, <4>1
    <3> QED
      BY <1>7, <2>2, <2>3, <3>1, <3>2, <3>3, <3>4
  <2>4. CASE cpu = "sparc"
    <3>1. n = n0
      BY <1>7, <2>4 DEF Val
    <3>2. PICK s \in Nat \ {0} : s = 2^h.shift
      BY <1>3, PowersDivide
    <3>3. x = n0 \div s
      BY <1>8, <2>4, <3>1, <3>2 DEF Moved
    <3>4. old % 2^h.low = 0
      BY <1>2, <1>12, <2>4, MovedIs
    <3>5. Signed(word, h.width) = x
      BY <2>2, <3>4
    <3>6. x * s = n0 - (n0 % s)
      <4> DEFINE q == n0 \div s
                 r == n0 % s
      <4>1. q \in Int /\ r \in Int /\ n0 = q * s + r
        OBVIOUS
      <4>2. x = q
        BY <3>3
      <4>3. q * s = n0 - r
        <5> HIDE DEF q, r
        <5>1. q * s \in Int
          BY <4>1
        <5> QED
          BY <4>1, <5>1
      <4> QED
        BY <4>2, <4>3
    <3>7. n0 - (n0 % s) \in Int
      OBVIOUS
    <3> QED
      BY <2>4, <3>2, <3>4, <3>5, <3>6, <3>7
  <2> QED
    BY <2>3, <2>4
<1>14. ASSUME h.check = "none", h.shift = 0
       PROVE  (word - n0) % 2^h.width = 0
  <2>1. x = n
    BY <1>2, <1>8, <1>14, MovedIs
  <2>2. old % 2^h.low = 0
    BY <1>3, <1>12, <1>14
  <2>3. PICK m \in Nat \ {0} : m = 2^h.width
    BY <1>3, PowersDivide
  <2>4. word % m = n0 % m
    <3>1. n % m \in Int
      OBVIOUS
    <3> QED
      BY <1>7, <1>11, <2>1, <2>2, <2>3, <3>1
  <2> QED
    BY <1>11, <2>3, <2>4, SameRemainder
<1> QED
  BY <1>1, <1>5, <1>6, <1>11, <1>13, <1>14 DEF Displaced

\* The words of memory that the laws are about.
LEMMA WordsOfMemory ==
    ASSUME NEW cpu \in DOMAIN Cpus, NEW t \in DOMAIN Cpus[cpu], NEW old \in LawWords
    PROVE  old % 2^Cpus[cpu][t].bits \in 0..(2^Cpus[cpu][t].bits - 1)
<1>1. KindOK(cpu, Cpus[cpu][t])
  BY KindsOK
<1>2. PICK b : b = Cpus[cpu][t].bits
  OBVIOUS
<1>3. b \in 0..AddrBits /\ b \in 0..b
  BY <1>1, <1>2, RelocWidthsOK DEF KindOK
<1>4. PICK m \in Nat \ {0} : m = 2^b
  BY <1>3, PowersDivide
<1>5. \A x \in Int : x % m \in 0..(m - 1)
  OBVIOUS
<1> QED
  BY <1>2, <1>4, <1>5, LawsOK

\* For all relocations: a displacement is found again and its neighbours are kept.
LEMMA DisplacementsAreExact == ExactDisplacements
<1>1. ASSUME NEW cpu \in DOMAIN Cpus, NEW t \in DOMAIN Cpus[cpu], NEW o \in LawWords, NEW place \in LawPlaces,
             NEW S \in LawValues, NEW A \in LawAddends
      PROVE  LET old == o % 2^Cpus[cpu][t].bits
                 d == Done(cpu, t, old, place, S, A) IN
             d.status = "ok" => Displaced(Cpus[cpu][t], cpu, Meant(cpu, t, old, place, S, A), old, d.word)
  <2>1. PICK old : old = o % 2^Cpus[cpu][t].bits
    OBVIOUS
  <2>2. old \in 0..(2^Cpus[cpu][t].bits - 1) /\ place \in Nat /\ S \in Int /\ A \in Int
    BY <2>1, WordsOfMemory, LawsOK
  <2>3. Done(cpu, t, old, place, S, A).status = "ok" =>
          Displaced(Cpus[cpu][t], cpu, Meant(cpu, t, old, place, S, A), old, Done(cpu, t, old, place, S, A).word)
    BY <2>2, ExactHere
  <2> QED
    BY <2>1, <2>3
<1> QED
  BY <1>1 DEF ExactDisplacements, ForAll, Displaced

\* For all: only the section is patched.
LEMMA PatchesAreInside == InsidePatches
<1>1. ASSUME NEW cpu \in DOMAIN Cpus, NEW t \in DOMAIN Cpus[cpu], NEW o \in LawWords, NEW place \in LawPlaces,
             NEW S \in LawValues, NEW A \in LawAddends
      PROVE  LET old == o % 2^Cpus[cpu][t].bits
                 d == Done(cpu, t, old, place, S, A) IN
             /\ d.status = "ok" /\ cpu # "sparc" => place + Bytes(Cpus[cpu][t]) <= LawSize
             /\ d.status # "ok" => d.word = old
  <2>1. PICK old : old = o % 2^Cpus[cpu][t].bits
    OBVIOUS
  <2>2. old \in 0..(2^Cpus[cpu][t].bits - 1) /\ place \in Nat /\ S \in Int /\ A \in Int
    BY <2>1, WordsOfMemory, LawsOK
  <2>3. /\ Done(cpu, t, old, place, S, A).status = "ok" => Performed(cpu, t, old, place, S, A)
        /\ Done(cpu, t, old, place, S, A).status # "ok" => Done(cpu, t, old, place, S, A).word = old
    BY <2>2, PerformIs
  <2> QED
    BY <2>1, <2>3 DEF Performed
<1> QED
  BY <1>1 DEF InsidePatches, ForAll

-----------------------------------------------------------------------------
(* Addresses that are split *)

\* A power of two is the product of those of the parts of its exponent.
LEMMA PowerOfSum ==
    ASSUME NEW a \in 0..AddrBits, NEW b \in 0..(AddrBits - a)
    PROVE  2^(a + b) = 2^b * 2^a
<1>1. \A n \in 0..AddrBits : 2^n \in Nat \ {0} /\ 2^(n + 1) = 2 * 2^n
  BY WordPowers
<1>2. PICK p \in Nat \ {0} : p = 2^a
  BY <1>1
<1> DEFINE T == {d \in 0..b : 2^(a + d) # 2^d * p}
<1>3. T = {}
  <2>1. SUFFICES ASSUME T # {}
                 PROVE  FALSE
    OBVIOUS
  <2>2. T \in SUBSET (0..b) /\ b \in Nat
    BY AddrBitsNat
  <2>3. PICK d \in T : \A j \in T : d <= j
    <3> HIDE DEF T
    <3> QED
      BY <2>1, <2>2, LeastNumber
  <2>4. d # 0
    <3>1. 2^(a + 0) = 1 * p /\ 2^0 = 1
      BY <1>2, AddrBitsNat, WordPowers
    <3> QED
      BY <3>1
  <2>5. d - 1 \in 0..b /\ a + (d - 1) \in 0..AddrBits /\ (a + (d - 1)) + 1 = a + d /\ d - 1 \in 0..AddrBits
        /\ (d - 1) + 1 = d
    BY AddrBitsNat, <2>4
  <2>6. d - 1 \notin T
    <3>1. ~(d <= d - 1)
      BY <2>5
    <3> HIDE DEF T
    <3> QED
      BY <2>3, <3>1
  <2>7. 2^(a + (d - 1)) = 2^(d - 1) * p
    BY <2>5, <2>6
  <2>8. PICK e \in Nat : e = 2^(d - 1)
    BY <1>1, <2>5
  <2>9. 2^(a + d) = 2 * (e * p) /\ 2^d = 2 * e
    BY <1>1, <2>5, <2>7, <2>8
  <2>10. 2 * (e * p) = (2 * e) * p
    OBVIOUS
  <2> QED
    BY <2>3, <2>9, <2>10
<1>4. b \in 0..b
  BY AddrBitsNat
<1>5. b \notin T
  BY <1>3
<1> QED
  BY <1>2, <1>4, <1>5

\* Multiples of the modulus have the remainder 0.
LEMMA Multiple ==
    ASSUME NEW m \in Nat \ {0}, NEW x \in Int, NEW q \in Int, x = q * m
    PROVE  x % m = 0
<1>1. x = q * m + 0 /\ 0 \in 0..(m - 1)
  OBVIOUS
<1> QED
  BY <1>1, DivMod

\* x is a modulo m.
Congruent(m, x, a) == (x - a) % m = 0

\* High and low bits make the number again.
LEMMA HighAndLow ==
    ASSUME NEW l \in Nat \ {0}, NEW g \in Nat \ {0}, NEW n \in Int
    PROVE  Congruent(g * l, ((n \div l) % g) * l + (n % l), n)
<1> DEFINE q == n \div l
           r == n % l
           p == q \div g
           s == q % g
<1>1. q \in Int /\ r \in Int /\ n = q * l + r
  OBVIOUS
<1>2. p \in Int /\ s \in Int /\ q = p * g + s
  <2> HIDE DEF q
  <2> QED
    BY <1>1
<1> HIDE DEF q, r, p, s
<1>3. (p * g + s) * l = p * (g * l) + s * l
  BY <1>1, <1>2
<1>4. PICK m \in Nat \ {0} : m = g * l
  <2>1. g * l \in Nat \ {0}
    OBVIOUS
  <2> QED
    BY <2>1
<1>5. PICK y \in Int : y = (s * l + r) - n
  BY <1>1, <1>2
<1>6. y = (-p) * m
  <2>1. p * m \in Int /\ s * l \in Int /\ (-p) * m = -(p * m)
    BY <1>2
  <2>2. n = p * m + s * l + r
    BY <1>1, <1>2, <1>3, <1>4
  <2> QED
    BY <1>1, <1>5, <2>1, <2>2
<1>7. PICK t \in Int : t = -p
  BY <1>2
<1>8. y % m = 0
  BY <1>6, <1>7, Multiple
<1> QED
  BY <1>4, <1>5, <1>8 DEF q, r, s, Congruent

\* The carry of a signed low half.
LEMMA CarryIs ==
    ASSUME NEW k \in Nat \ {0}, NEW h, h = 2 * k, NEW n \in Int
    PROVE  (n \div k) % 2 = (IF n % h >= k THEN 1 ELSE 0)
<1> DEFINE q == n \div h
           r == n % h
<1>1. q \in Int /\ r \in 0..(2 * k - 1) /\ n = q * h + r
  <2>1. h \in Nat \ {0} /\ h - 1 = 2 * k - 1
    OBVIOUS
  <2>2. \A i \in Nat \ {0} : n \div i \in Int /\ n % i \in 0..(i - 1) /\ n = (n \div i) * i + (n % i)
    OBVIOUS
  <2> QED
    BY <2>1, <2>2
<1> HIDE DEF q, r
<1>2. q * h = (2 * q) * k /\ (2 * q) * k \in Int /\ (2 * q + 1) * k = (2 * q) * k + k
  BY <1>1
<1>3. CASE r >= k
  <2>1. PICK a \in Int : a = 2 * q + 1
    BY <1>1
  <2>2. PICK b \in 0..(k - 1) : b = r - k
    BY <1>1, <1>3
  <2>3. n = a * k + b
    BY <1>1, <1>2, <2>1, <2>2
  <2>4. n \div k = a
    BY <2>3, DivMod
  <2>5. a % 2 = 1
    BY <1>1, <2>1
  <2> QED
    BY <1>3, <2>4, <2>5 DEF r
<1>4. CASE r < k
  <2>1. PICK a \in Int : a = 2 * q
    BY <1>1
  <2>2. r \in 0..(k - 1)
    BY <1>1, <1>4
  <2>3. n = a * k + r
    BY <1>1, <1>2, <2>1
  <2>4. n \div k = a
    BY <2>2, <2>3, DivMod
  <2>5. a % 2 = 0
    BY <1>1, <2>1
  <2> QED
    BY <1>1, <1>4, <2>4, <2>5 DEF r
<1> QED
  BY <1>1, <1>3, <1>4

\* The high half is adjusted for it.
LEMMA AdjustedAndLow ==
    ASSUME NEW h \in Nat \ {0}, NEW n \in Int, NEW c \in Int, NEW lo, lo = (n % h) - c * h
    PROVE  Congruent(h * h, (((n + c * h) \div h) % h) * h + lo, n)
<1>1. PICK x \in Int : x = n + c * h
  OBVIOUS
<1>2. x % h = n % h
  BY <1>1, ModShift
<1>7. PICK q \in Int : q = (x \div h) % h
  <2>1. \A i \in Int : i % h \in Int
    OBVIOUS
  <2>2. x \div h \in Int
    OBVIOUS
  <2> QED
    BY <2>1, <2>2
<1>8. PICK r \in Int : r = n % h
  OBVIOUS
<1>3. PICK a \in Int : a = (q * h + r) - x
  OBVIOUS
<1>4. a % (h * h) = 0
  <2>1. Congruent(h * h, ((x \div h) % h) * h + (x % h), x)
    BY HighAndLow
  <2>2. Congruent(h * h, q * h + r, x)
    BY <1>2, <1>7, <1>8, <2>1
  <2> QED
    BY <1>3, <2>2 DEF Congruent
<1>5. PICK b \in Int, d \in Int : b = q * h /\ d = c * h
  OBVIOUS
<1>6. (b + lo) - n = a
  <2>1. lo = r - d /\ x = n + d
    BY <1>1, <1>5, <1>8
  <2> QED
    BY <1>3, <1>5, <2>1
<1> QED
  <2>1. Congruent(h * h, b + lo, n)
    BY <1>4, <1>6 DEF Congruent
  <2> QED
    BY <1>1, <1>5, <1>7, <2>1

\* Numbers that have the same remainder may be exchanged.
LEMMA Exchanged ==
    ASSUME NEW m \in Nat \ {0}, NEW x \in Int, NEW a \in Int, NEW b \in Int, Congruent(m, x, a), a % m = b % m
    PROVE  Congruent(m, x, b)
<1>1. PICK y \in Int : y = x - a
  OBVIOUS
<1>2. PICK d \in Int : d = a - b
  OBVIOUS
<1>3. d % m = 0
  BY <1>2, SameRemainder
<1>4. PICK q \in Int : d = q * m
  <2> DEFINE q == d \div m
             e == d % m
  <2>1. q \in Int /\ e \in Int /\ d = q * m + e
    OBVIOUS
  <2>2. e = 0
    BY <1>3
  <2> HIDE DEF q, e
  <2>3. q * m \in Int
    BY <2>1
  <2>4. d = q * m
    BY <2>1, <2>2, <2>3
  <2> QED
    BY <2>1, <2>4
<1>5. (y + q * m) % m = y % m
  BY ModShift
<1>6. x - b = y + q * m
  BY <1>1, <1>2, <1>4
<1>7. y % m = 0
  BY <1>1 DEF Congruent
<1> QED
  BY <1>1, <1>5, <1>6, <1>7 DEF Congruent

\* A kind that puts a part of an address into an instruction.
Part(cpu, t, h) ==
    /\ cpu \in {"powerpc", "sparc"} /\ t \in DOMAIN Cpus[cpu] /\ h = Cpus[cpu][t]
    /\ h.check = "none" /\ h.low = 0 /\ h.pcrel = FALSE /\ Bytes(h) \in Nat \ {0}
    /\ cpu # "sparc" => Bytes(h) <= LawSize

\* It is there then.
PartIn(h, old, x, word) ==
    /\ word \in Int /\ word \div 2^h.width = old \div 2^h.width
    /\ word % 2^h.width = x % 2^h.width

\* A part of an address is patched in.
LEMMA PartDone ==
    ASSUME NEW cpu, NEW t, NEW h, Part(cpu, t, h),
           NEW old \in 0..(2^h.bits - 1), NEW S \in Int, NEW A \in Int
    PROVE  PartIn(h, old, Moved(cpu, h, Val(cpu, S + A)), Done(cpu, t, old, 0, S, A).word)
<1> /\ cpu \in {"powerpc", "sparc"} /\ t \in DOMAIN Cpus[cpu] /\ h = Cpus[cpu][t]
    /\ h.check = "none" /\ h.low = 0 /\ h.pcrel = FALSE /\ Bytes(h) \in Nat \ {0}
    /\ cpu # "sparc" => Bytes(h) <= LawSize
  BY DEF Part
<1>1. KindOK(cpu, h) /\ cpu \in DOMAIN Cpus
  <2>1. cpu \in DOMAIN Cpus
    BY DEF Cpus
  <2> QED
    BY <2>1, KindsOK
<1>2. ~h.inplace /\ h.bits \in 0..AddrBits /\ h.bits \in 0..h.bits /\ h.width \in 0..AddrBits /\ h.width \in 0..h.width
  BY <1>1, RelocWidthsOK DEF KindOK
<1>3. PICK a \in Int : a = S + A
  OBVIOUS
<1>4. PICK n \in Int : n = Val(cpu, a)
  <2>1. WordBits \in 0..AddrBits
    BY RelocWidthsOK
  <2> QED
    BY <2>1, ValKeeps
<1>5. PICK x \in Int : x = Moved(cpu, h, n)
  BY <1>1, MovedIs
<1>6. \A i \in Int : i % 1 = 0
  OBVIOUS
<1>7. n % 2^h.low = 0 /\ x % 2^h.low = 0 /\ old % 2^h.low = 0
  <2>1. 2^h.bits \in Nat
    BY <1>2, PowersDivide
  <2>2. old \in Int
    BY <2>1
  <2> QED
    BY <1>4, <1>5, <1>6, <2>2, WordPowers
<1>8. Done(cpu, t, old, 0, S, A).word = Patched(h, old, x) % 2^h.bits
  <2>1. ~Outside(cpu, h, 0, LawSize)
    BY LawsOK DEF Outside
  <2>2. 0 % Bytes(h) = 0
    OBVIOUS
  <2>3. \A y : Within(h, y)
    BY DEF Within
  <2>4. S + 0 + A - 0 = a
    BY <1>3
  <2>5. cpu # "i386" /\ cpu # "m68k"
    OBVIOUS
  <2>6. (IF cpu = "sparc" THEN n \div 2^h.shift ELSE Shifted(h, n)) = x
    BY <1>5 DEF Moved
  <2>7. 0 + 0 = 0
    OBVIOUS
  <2> QED
    BY <1>2, <1>4, <1>7, <2>1, <2>2, <2>3, <2>4, <2>5, <2>6, <2>7 DEF Done, perform
<1>9. PICK word : word = Done(cpu, t, old, 0, S, A).word
  OBVIOUS
<1>10. /\ word \in Int /\ word % 2^h.width = (x % 2^h.width) + (old % 2^h.low)
       /\ word \div 2^h.width = old \div 2^h.width
  <2>1. word = Patched(h, old, x) % 2^h.bits
    BY <1>8, <1>9
  <2>2. KindOK(cpu, h) /\ x % 2^h.low = 0
    BY <1>1, <1>7
  <2>3. FieldIn(h, old, x, word)
    BY <2>1, <2>2, PatchedIs
  <2> QED
    BY <2>3 DEF FieldIn
<1>11. x % 2^h.width \in Int
  <2>1. PICK m \in Nat \ {0} : m = 2^h.width
    BY <1>2, PowersDivide
  <2> QED
    BY <2>1
<1> QED
  BY <1>3, <1>4, <1>5, <1>7, <1>9, <1>10, <1>11 DEF PartIn

\* A halfword of the PowerPC.
LEMMA HalfDone ==
    ASSUME NEW t \in {"R_PPC_ADDR16_HA", "R_PPC_ADDR16_HI", "R_PPC_ADDR16_LO"}, NEW o \in LawWords,
           NEW S \in Int, NEW A \in Int
    PROVE  LET h == powerpc[t]
               word == Done("powerpc", t, o % 2^Cpus["powerpc"][t].bits, 0, S, A).word IN
           word = Shifted(h, Val("powerpc", S + A)) % 2^HalfBits
<1>1. PICK h : h = powerpc[t]
  OBVIOUS
<1>2. /\ h.bits = HalfBits /\ h.width = HalfBits /\ h.check = "none" /\ h.low = 0 /\ h.pcrel = FALSE
      /\ h = Cpus["powerpc"][t] /\ t \in DOMAIN Cpus["powerpc"]
  <2>1. \A s : LET g == [Half(s) EXCEPT !.adjust = TRUE] IN
               /\ Half(s).bits = HalfBits /\ Half(s).width = HalfBits /\ Half(s).check = "none"
               /\ Half(s).low = 0 /\ Half(s).pcrel = FALSE
               /\ g.bits = HalfBits /\ g.width = HalfBits /\ g.check = "none" /\ g.low = 0 /\ g.pcrel = FALSE
    BY DEF Half, Howto
  <2>2. h \in {[Half(HalfBits) EXCEPT !.adjust = TRUE], Half(HalfBits), Half(0)}
    <3>1. powerpc.R_PPC_ADDR16_HA = [Half(HalfBits) EXCEPT !.adjust = TRUE]
      BY DEF powerpc
    <3>2. powerpc.R_PPC_ADDR16_HI = Half(HalfBits)
      BY DEF powerpc
    <3>3. powerpc.R_PPC_ADDR16_LO = Half(0)
      BY DEF powerpc
    <3> QED
      BY <1>1, <3>1, <3>2, <3>3
  <2>3. powerpc = Cpus["powerpc"]
    BY DEF Cpus
  <2>4. t \in DOMAIN powerpc
    BY DEF powerpc
  <2> QED
    BY <1>1, <2>1, <2>2, <2>3, <2>4
<1>3. HalfBits \in 0..AddrBits /\ HalfBits \in 0..HalfBits
  BY RelocWidthsOK
<1>4. Bytes(h) \in Nat \ {0} /\ Bytes(h) <= LawSize
  <2>1. HalfBits = 2 * ByteBits /\ ByteBits \in Nat \ {0}
    BY RelocWidthsOK
  <2>2. HalfBits \div ByteBits = 2
    BY <2>1
  <2> QED
    BY <1>2, <2>2, LawsOK DEF Bytes
<1>5. PICK m \in Nat \ {0} : m = 2^HalfBits
  BY <1>3, PowersDivide
<1>6. PICK old : old = o % m
  OBVIOUS
<1>7. old \in 0..(m - 1)
  BY <1>6, LawsOK
<1>8. PICK word : word = Done("powerpc", t, old, 0, S, A).word
  OBVIOUS
<1>9. PICK x : x = Moved("powerpc", h, Val("powerpc", S + A))
  OBVIOUS
<1>10. word \in Int /\ word \div m = old \div m /\ word % m = x % m
  <2>1. old \in 0..(2^h.bits - 1)
    BY <1>2, <1>5, <1>7
  <2>2. Part("powerpc", t, h)
    BY <1>2, <1>4 DEF Part
  <2>3. PartIn(h, old, x, word)
    BY <1>8, <1>9, <2>1, <2>2, PartDone
  <2> QED
    BY <1>2, <1>5, <2>3 DEF PartIn
<1>11. old \div m = 0
  <2>1. old = 0 * m + old
    BY <1>7
  <2> QED
    BY <1>7, <2>1, DivMod
<1>12. word = word % m
  <2> DEFINE q == word \div m
             r == word % m
  <2>1. q \in Int /\ r \in Int /\ word = q * m + r
    BY <1>10
  <2>2. q = 0
    BY <1>10, <1>11
  <2> HIDE DEF q
  <2>3. 0 * m = 0
    OBVIOUS
  <2> QED
    BY <2>1, <2>2, <2>3
<1>13. x = Shifted(h, Val("powerpc", S + A))
  BY <1>9 DEF Moved
<1> QED
  BY <1>1, <1>2, <1>5, <1>6, <1>8, <1>10, <1>12, <1>13

\* The PowerPC's halves.
LEMMA PowerpcHalves ==
    ASSUME NEW o \in LawWords, NEW S \in Int, NEW A \in Int
    PROVE  LET word(type) == Done("powerpc", type, o % 2^Cpus["powerpc"][type].bits, 0, S, A).word
               ha == word("R_PPC_ADDR16_HA")
               hi == word("R_PPC_ADDR16_HI")
               lo == word("R_PPC_ADDR16_LO") IN
           /\ (ha * 2^HalfBits + Signed(lo, HalfBits) - (S + A)) % 2^WordBits = 0
           /\ (hi * 2^HalfBits + lo - (S + A)) % 2^WordBits = 0
<1> DEFINE word(type) == Done("powerpc", type, o % 2^Cpus["powerpc"][type].bits, 0, S, A).word
<1>1. PICK a \in Int : a = S + A
  OBVIOUS
<1>2. WordBits \in 0..AddrBits /\ HalfBits \in 1..AddrBits /\ HalfBits - 1 \in 0..AddrBits /\ HalfBits \in 0..AddrBits
      /\ HalfBits + HalfBits = WordBits /\ HalfBits \in 0..(AddrBits - HalfBits) /\ (HalfBits - 1) + 1 = HalfBits
      /\ WordBits <= WordBits
  BY RelocWidthsOK
<1>3. PICK k \in Nat \ {0} : k = 2^(HalfBits - 1)
  BY <1>2, WordPowers
<1>4. PICK m \in Nat \ {0} : m = 2^HalfBits
  BY <1>2, WordPowers
<1>5. m = 2 * k
  BY <1>2, <1>3, <1>4, WordPowers
<1>6. 2^WordBits = m * m
  BY <1>2, <1>4, PowerOfSum
<1>7. PICK w \in Nat \ {0} : w = m * m
  <2>1. m * m \in Nat \ {0}
    OBVIOUS
  <2> QED
    BY <2>1
<1>8. PICK n \in Int : n = Val("powerpc", a) /\ n % w = a % w
  <2>1. Val("powerpc", a) \in Int /\ Val("powerpc", a) % 2^WordBits = a % 2^WordBits
    BY <1>2, ValKeeps
  <2> QED
    BY <1>6, <1>7, <2>1
<1>9. PICK c \in {0, 1} : c = IF n % m >= k THEN 1 ELSE 0
  OBVIOUS
<1>10. (n \div k) % 2 = c
  BY <1>5, <1>9, CarryIs
<1>11. PICK ha, hi, lo : ha = word("R_PPC_ADDR16_HA") /\ hi = word("R_PPC_ADDR16_HI") /\ lo = word("R_PPC_ADDR16_LO")
  OBVIOUS
<1>12. /\ ha = Shifted(powerpc.R_PPC_ADDR16_HA, n) % m /\ hi = Shifted(powerpc.R_PPC_ADDR16_HI, n) % m
       /\ lo = Shifted(powerpc.R_PPC_ADDR16_LO, n) % m
  <2>1. \A t \in {"R_PPC_ADDR16_HA", "R_PPC_ADDR16_HI", "R_PPC_ADDR16_LO"} :
          word(t) = Shifted(powerpc[t], Val("powerpc", S + A)) % 2^HalfBits
    BY HalfDone
  <2> HIDE DEF word
  <2> QED
    BY <1>1, <1>4, <1>8, <1>11, <2>1
<1>13. /\ Shifted(powerpc.R_PPC_ADDR16_HI, n) = n \div m
       /\ Shifted(powerpc.R_PPC_ADDR16_LO, n) = n
  <2>1. Half(HalfBits).shift = HalfBits /\ Half(HalfBits).adjust = FALSE /\ Half(0).shift = 0 /\ Half(0).adjust = FALSE
    BY DEF Half, Howto
  <2>2. powerpc.R_PPC_ADDR16_HI = Half(HalfBits) /\ powerpc.R_PPC_ADDR16_LO = Half(0)
    BY DEF powerpc
  <2>3. n \div 1 = n
    OBVIOUS
  <2> QED
    BY <1>4, <2>1, <2>2, <2>3, WordPowers DEF Shifted
<1>14. Shifted(powerpc.R_PPC_ADDR16_HA, n) = (n + c * m) \div m
  <2> DEFINE h == [Half(HalfBits) EXCEPT !.adjust = TRUE]
  <2>1. h.shift = HalfBits /\ h.adjust = TRUE
    BY DEF Half, Howto
  <2>2. powerpc.R_PPC_ADDR16_HA = h
    BY DEF powerpc
  <2>3. c = 1 => n + c * m = n + m
    OBVIOUS
  <2>4. c = 0 => n + c * m = n
    OBVIOUS
  <2> HIDE DEF h
  <2>5. Shifted(h, n) = (IF (n \div k) % 2 = 1 THEN n + m ELSE n) \div m
    BY <1>3, <1>4, <2>1 DEF Shifted
  <2> QED
    BY <1>9, <1>10, <2>2, <2>3, <2>4, <2>5
<1>15. PICK r \in Int : r = n % m
  OBVIOUS
<1>16. lo = r /\ r \in 0..(m - 1)
  <2>1. n % m \in 0..(m - 1)
    OBVIOUS
  <2> QED
    BY <1>12, <1>13, <1>15, <2>1
<1>17. \A i \in Int : i % m \in Int
  OBVIOUS
<1>18. PICK q \in Int : q = n \div m
  OBVIOUS
<1>19. PICK p \in Int : p = (n + c * m) \div m
  OBVIOUS
<1>20. hi \in Int /\ hi = q % m /\ ha \in Int /\ ha = p % m
  BY <1>12, <1>13, <1>14, <1>17, <1>18, <1>19
<1>21. (hi * m + lo - a) % w = 0
  <2>1. PICK x \in Int : x = hi * m + r
    BY <1>20
  <2>2. Congruent(w, x, n)
    <3>1. Congruent(m * m, ((n \div m) % m) * m + (n % m), n)
      BY HighAndLow
    <3> QED
      BY <1>7, <1>15, <1>18, <1>20, <2>1, <3>1
  <2>3. Congruent(w, x, a)
    <3>1. n % w = a % w
      BY <1>8
    <3> QED
      BY <2>2, <3>1, Exchanged
  <2>4. hi * m + lo - a = x - a
    <3>1. hi * m \in Int
      BY <1>20
    <3> QED
      BY <1>16, <2>1, <3>1
  <2> QED
    BY <2>3, <2>4 DEF Congruent
<1>22. PICK s \in Int : s = r - c * m
  <2>1. r - c * m \in Int
    OBVIOUS
  <2> QED
    BY <2>1
<1>23. Signed(lo, HalfBits) = s
  <2>1. lo % m = r
    BY <1>16
  <2>2. Signed(lo, HalfBits) = IF r >= k THEN r - m ELSE r
    BY <1>3, <1>4, <2>1 DEF Signed
  <2>3. CASE r >= k
    <3>1. c = 1
      BY <1>9, <1>15, <2>3
    <3> QED
      BY <1>22, <2>2, <2>3, <3>1
  <2>4. CASE ~(r >= k)
    <3>1. c = 0
      BY <1>9, <1>15, <2>4
    <3> QED
      BY <1>22, <2>2, <2>4, <3>1
  <2> QED
    BY <2>3, <2>4
<1>24. (ha * m + Signed(lo, HalfBits) - a) % w = 0
  <2>1. PICK x \in Int : x = ha * m + s
    BY <1>20
  <2>2. Congruent(w, x, n)
    <3>1. c \in Int /\ s = (n % m) - c * m
      BY <1>15, <1>22
    <3>2. Congruent(m * m, (((n + c * m) \div m) % m) * m + s, n)
      BY <3>1, AdjustedAndLow
    <3> QED
      BY <1>7, <1>19, <1>20, <2>1, <3>2
  <2>3. Congruent(w, x, a)
    <3>1. n % w = a % w
      BY <1>8
    <3> QED
      BY <2>2, <3>1, Exchanged
  <2>4. ha * m + Signed(lo, HalfBits) - a = x - a
    <3>1. ha * m \in Int
      BY <1>20
    <3> QED
      BY <1>23, <2>1, <3>1
  <2> QED
    BY <2>3, <2>4 DEF Congruent
<1> HIDE DEF word
<1>25. /\ (word("R_PPC_ADDR16_HA") * 2^HalfBits + Signed(word("R_PPC_ADDR16_LO"), HalfBits) - (S + A)) % 2^WordBits = 0
       /\ (word("R_PPC_ADDR16_HI") * 2^HalfBits + word("R_PPC_ADDR16_LO") - (S + A)) % 2^WordBits = 0
  BY <1>1, <1>4, <1>6, <1>7, <1>11, <1>21, <1>24
<1> QED
  BY <1>25 DEF word

\* The sparc's.
LEMMA SparcParts ==
    ASSUME NEW o \in LawWords, NEW S \in Int, NEW A \in Int
    PROVE  LET word(type) == Done("sparc", type, o % 2^Cpus["sparc"][type].bits, 0, S, A).word IN
           ((word("R_SPARC_HI22") % 2^(WordBits - LoBits)) * 2^LoBits
              + (word("R_SPARC_LO10") % 2^LoBits) - (S + A)) % 2^WordBits = 0
<1> DEFINE word(type) == Done("sparc", type, o % 2^Cpus["sparc"][type].bits, 0, S, A).word
<1>1. PICK a \in Int : a = S + A
  OBVIOUS
<1>2. /\ LoBits \in 0..AddrBits /\ WordBits - LoBits \in 0..(AddrBits - LoBits) /\ LoBits + (WordBits - LoBits) = WordBits
      /\ WordBits - LoBits \in 0..AddrBits
  BY RelocWidthsOK
<1>3. PICK l \in Nat \ {0} : l = 2^LoBits
  BY <1>2, WordPowers
<1>4. PICK g \in Nat \ {0} : g = 2^(WordBits - LoBits)
  BY <1>2, WordPowers
<1>5. 2^WordBits = g * l
  BY <1>2, <1>3, <1>4, PowerOfSum
<1> DEFINE hi22 == sparc.R_SPARC_HI22
           lo10 == sparc.R_SPARC_LO10
<1>6. hi22 = Aligned(WordBits, WordBits - LoBits, LoBits, "none", FALSE) /\ lo10 = Aligned(WordBits, LoBits, 0, "none", FALSE)
  BY DEF sparc
<1>7. /\ hi22.bits = WordBits /\ hi22.width = WordBits - LoBits /\ hi22.shift = LoBits
      /\ hi22.check = "none" /\ hi22.low = 0 /\ hi22.pcrel = FALSE
      /\ lo10.bits = WordBits /\ lo10.width = LoBits /\ lo10.shift = 0
      /\ lo10.check = "none" /\ lo10.low = 0 /\ lo10.pcrel = FALSE
  <2> HIDE DEF hi22, lo10
  <2> QED
    BY <1>6 DEF Aligned, Howto
<1>8. /\ Cpus["sparc"] = sparc /\ "R_SPARC_HI22" \in DOMAIN sparc /\ "R_SPARC_LO10" \in DOMAIN sparc
      /\ "sparc" \in DOMAIN Cpus
  BY DEF Cpus, sparc
<1>9. Bytes(hi22) \in Nat \ {0} /\ Bytes(lo10) \in Nat \ {0}
  <2>1. WordBits = 4 * ByteBits /\ ByteBits \in Nat \ {0}
    BY RelocWidthsOK
  <2>2. WordBits \div ByteBits = 4
    BY <2>1
  <2> QED
    BY <1>7, <2>2 DEF Bytes
<1> HIDE DEF hi22, lo10
<1>10. Part("sparc", "R_SPARC_HI22", hi22) /\ Part("sparc", "R_SPARC_LO10", lo10)
  <2>1. hi22 = Cpus["sparc"]["R_SPARC_HI22"] /\ lo10 = Cpus["sparc"]["R_SPARC_LO10"]
    BY <1>8 DEF hi22, lo10
  <2> QED
    BY <1>7, <1>8, <1>9, <2>1 DEF Part
<1>11. PICK old : old = o % 2^WordBits
  OBVIOUS
<1>12. old \in 0..(2^hi22.bits - 1) /\ old \in 0..(2^lo10.bits - 1)
  <2>1. WordBits \in 0..AddrBits
    BY RelocWidthsOK
  <2>2. PICK m \in Nat \ {0} : m = 2^WordBits
    BY <2>1, WordPowers
  <2>3. \A i \in Int : i % m \in 0..(m - 1)
    OBVIOUS
  <2> QED
    BY <1>7, <1>11, <2>2, <2>3, LawsOK
<1>13. Val("sparc", a) = a
  BY DEF Val
<1>14. PICK hi, lo : hi = Done("sparc", "R_SPARC_HI22", old, 0, S, A).word
                     /\ lo = Done("sparc", "R_SPARC_LO10", old, 0, S, A).word
  OBVIOUS
<1>15. PartIn(hi22, old, Moved("sparc", hi22, a), hi) /\ PartIn(lo10, old, Moved("sparc", lo10, a), lo)
  <2>1. PartIn(hi22, old, Moved("sparc", hi22, Val("sparc", S + A)), Done("sparc", "R_SPARC_HI22", old, 0, S, A).word)
    BY <1>10, <1>12, PartDone
  <2>2. PartIn(lo10, old, Moved("sparc", lo10, Val("sparc", S + A)), Done("sparc", "R_SPARC_LO10", old, 0, S, A).word)
    BY <1>10, <1>12, PartDone
  <2> QED
    BY <1>1, <1>13, <1>14, <2>1, <2>2
<1>16. Moved("sparc", hi22, a) = a \div l /\ Moved("sparc", lo10, a) = a
  <2>1. a \div 1 = a
    OBVIOUS
  <2> QED
    BY <1>3, <1>7, <2>1, WordPowers DEF Moved
<1>17. hi % g = (a \div l) % g /\ lo % l = a % l
  BY <1>3, <1>4, <1>7, <1>15, <1>16 DEF PartIn
<1>18. Congruent(g * l, ((a \div l) % g) * l + (a % l), a)
  BY HighAndLow
<1>19. PICK q \in Int, r \in Int : q = (a \div l) % g /\ r = a % l
  <2>1. \A i \in Int : i % g \in Int /\ i % l \in Int /\ i \div l \in Int
    OBVIOUS
  <2> QED
    BY <2>1
<1>20. ((hi % g) * l + (lo % l) - a) % 2^WordBits = 0
  <2>1. PICK y \in Int : y = q * l + r
    BY <1>19
  <2>2. Congruent(g * l, y, a)
    BY <1>18, <1>19, <2>1
  <2>3. (hi % g) * l + (lo % l) - a = y - a
    <3>1. PICK z \in Int : z = q * l
      BY <1>19
    <3>2. hi % g = q /\ lo % l = r
      BY <1>17, <1>19
    <3>3. z + (r - a) = y - a
      BY <1>19, <2>1, <3>1
    <3> QED
      BY <3>1, <3>2, <3>3
  <2> QED
    BY <1>5, <2>2, <2>3 DEF Congruent
<1>21. hi = word("R_SPARC_HI22") /\ lo = word("R_SPARC_LO10")
  <2>1. Cpus["sparc"]["R_SPARC_HI22"].bits = WordBits /\ Cpus["sparc"]["R_SPARC_LO10"].bits = WordBits
    BY <1>7, <1>8 DEF hi22, lo10
  <2> QED
    BY <1>11, <1>14, <2>1
<1> HIDE DEF word
<1>22. ((word("R_SPARC_HI22") % 2^(WordBits - LoBits)) * 2^LoBits
         + (word("R_SPARC_LO10") % 2^LoBits) - (S + A)) % 2^WordBits = 0
  BY <1>1, <1>3, <1>4, <1>20, <1>21
<1> QED
  BY <1>22 DEF word

\* And both put together.
LEMMA HalvesAreRecombined == RecombinedHalves
<1>1. SUFFICES ASSUME NEW old \in LawWords, NEW S \in LawValues, NEW A \in LawAddends
      PROVE  LET word(cpu, type) == Done(cpu, type, old % 2^Cpus[cpu][type].bits, 0, S, A).word
                 ha == word("powerpc", "R_PPC_ADDR16_HA")
                 hi == word("powerpc", "R_PPC_ADDR16_HI")
                 lo == word("powerpc", "R_PPC_ADDR16_LO") IN
             /\ (ha * 2^HalfBits + Signed(lo, HalfBits) - (S + A)) % 2^WordBits = 0
             /\ (hi * 2^HalfBits + lo - (S + A)) % 2^WordBits = 0
             /\ ((word("sparc", "R_SPARC_HI22") % 2^(WordBits - LoBits)) * 2^LoBits
                   + (word("sparc", "R_SPARC_LO10") % 2^LoBits) - (S + A)) % 2^WordBits = 0
  BY DEF RecombinedHalves
<1>2. S \in Int /\ A \in Int
  BY LawsOK
<1> QED
  BY <1>2, PowerpcHalves, SparcParts

\* A relocation of any kind, of all words, places, symbols and addends, is
\* refused, and leaves the memory as it is, or the CPU finds in the patched word
\* what was meant; so pmbfd_perform_relocation keeps what cexpLoadFile relies on.
THEOREM RelocationsExact == Spec => []RelocatorsExact
<1>1. RelocatorsExact
  BY DisplacementsAreExact, HalvesAreRecombined, PatchesAreInside
     DEF RelocatorsExact, DisplacementsExact, HalvesRecombine, PatchesInside
<1> QED
  BY <1>1, PTL

=============================================================================
