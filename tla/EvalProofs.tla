------------------------------- MODULE EvalProofs -------------------------------
(***************************************************************************)
(* Proofs about Eval for any symbols, lines, widths and bounds: the state  *)
(* of the parser is the one that the line so far asks for, what is skipped *)
(* has no effect, and what an inhibited rule leaves over stays within the  *)
(* operand that is skipped.  The last part is about the type engine        *)
(* (Types): its conversions, arithmetic, pointers and calls are C's.       *)
(***************************************************************************)
EXTENDS Eval, FiniteSetTheorems, SequenceTheorems, TLAPS

\* A set of numbers up to n has a least element.
LEMMA LeastNumber ==
    ASSUME NEW n \in Nat, NEW T \in SUBSET (0..n), T # {}
    PROVE  \E k \in T : \A j \in T : k <= j
<1> DEFINE Lower == {p \in Nat \X Nat : p[1] < p[2]}
<1>1. IsWellFoundedOn(Lower, Nat)
  BY NatLessThanWellFounded DEF OpToRel
<1>2. T \subseteq Nat
  OBVIOUS
<1>3. PICK k \in T : \A j \in T : <<j, k>> \notin Lower
  <2> HIDE DEF Lower
  <2> QED
    BY <1>1, <1>2, WFMin
<1>4. \A j \in T : ~(j < k)
  BY <1>2, <1>3
<1> QED
  BY <1>2, <1>4

\* Each value of f is got from the one before it by g.
Iterates(f, n, base, g) == f[0] = base /\ \A i \in 1..n : f[i] = g[<<i, f[i - 1]>>]

\* A function whose values are defined one by one.
LEMMA RecursionIn ==
    ASSUME NEW n \in Nat, NEW S, NEW base \in S, NEW g \in [(1..n) \X S -> S]
    PROVE  \E f \in [0..n -> S] : Iterates(f, n, base, g)
<1> DEFINE Upto(f, m) == f[0] = base /\ \A i \in 1..m : f[i] = g[<<i, f[i - 1]>>]
           T == {m \in 0..n : ~\E f \in [0..n -> S] : Upto(f, m)}
<1>1. T = {}
  <2>1. SUFFICES ASSUME T # {}
                 PROVE  FALSE
    OBVIOUS
  <2>2. PICK m \in T : \A j \in T : m <= j
    <3>1. T \in SUBSET (0..n)
      OBVIOUS
    <3> QED
      BY <2>1, <3>1, LeastNumber
  <2>3. ASSUME m = 0
        PROVE  FALSE
    <3> DEFINE e == [i \in 0..n |-> base]
    <3>1. e \in [0..n -> S] /\ e[0] = base /\ \A i \in 1..m : FALSE
      BY <2>3
    <3>2. Upto(e, m)
      BY <3>1
    <3>3. ~\E f \in [0..n -> S] : Upto(f, m)
      OBVIOUS
    <3> HIDE DEF e, Upto
    <3> QED
      BY <3>1, <3>2, <3>3
  <2>4. m - 1 \in 0..n /\ m - 1 \notin T /\ m \in 1..n
    <3>1. m \in 0..n /\ m # 0
      BY <2>3
    <3>2. m - 1 \in 0..n /\ m \in 1..n /\ ~(m <= m - 1)
      BY <3>1
    <3> HIDE DEF T
    <3> QED
      BY <2>2, <3>2
  <2>5. PICK f \in [0..n -> S] : Upto(f, m - 1)
    BY <2>4
  <2> DEFINE h == [f EXCEPT ![m] = g[<<m, f[m - 1]>>]]
  <2>6. h \in [0..n -> S]
    <3>1. f[m - 1] \in S
      BY <2>4
    <3>2. g[<<m, f[m - 1]>>] \in S
      BY <2>4, <3>1
    <3> QED
      BY <3>2
  <2>7. Upto(h, m)
    <3>1. h[m] = g[<<m, f[m - 1]>>] /\ \A i \in 0..n : i # m => h[i] = f[i]
      BY <2>4
    <3>2. h[0] = base /\ h[m - 1] = f[m - 1]
      BY <2>4, <2>5, <3>1
    <3>3. ASSUME NEW i \in 1..m
          PROVE  h[i] = g[<<i, h[i - 1]>>]
      <4>1. CASE i = m
        BY <3>1, <3>2, <4>1
      <4>2. CASE i # m
        <5>1. i \in 1..(m - 1) /\ i \in 0..n /\ i - 1 \in 0..n /\ i - 1 # m
          BY <2>4, <4>2
        <5> QED
          BY <2>5, <3>1, <4>2, <5>1
      <4> QED
        BY <4>1, <4>2
    <3> QED
      BY <3>2, <3>3
  <2>8. ~\E e \in [0..n -> S] : Upto(e, m)
    OBVIOUS
  <2> HIDE DEF h, Upto
  <2> QED
    BY <2>6, <2>7, <2>8
<1>2. n \in 0..n /\ n \notin T
  <2> HIDE DEF T
  <2> QED
    BY <1>1
<1> QED
  BY <1>2 DEF Iterates

-----------------------------------------------------------------------------
(* The bits of the stack *)

IsStack(s) == s \in Seq(ToSet(s))

\* n entries of a stack are replaced by one.
Rewrites(s, n, e, t) == n \in 0..Len(s) /\ t = Append(SubSeq(s, 1, Len(s) - n), e)

\* The bits of the && and || among the first entries of a stack.
BitsOf(s, f) ==
    /\ f \in [0..Len(s) -> Nat] /\ f[0] = 0
    /\ \A i \in 1..Len(s) :
         f[i] = IF s[i].k \notin {"or", "and"} THEN f[i - 1]
                ELSE 2 * f[i - 1] + (IF Skips(s[i]) THEN 1 ELSE 0)

LEMMA SkipBitsBy ==
    ASSUME NEW s, IsStack(s)
    PROVE  \E f : BitsOf(s, f) /\ SkipBits(s) = f[Len(s)]
<1> DEFINE n == Len(s)
           F(b) == [i \in 0..n |->
                      IF i = 0 THEN 0
                      ELSE IF s[i].k \notin {"or", "and"} THEN b[i - 1]
                      ELSE 2 * b[i - 1] + (IF Skips(s[i]) THEN 1 ELSE 0)]
           b == CHOOSE b : b = F(b)
           g == [p \in (1..n) \X Nat |->
                   IF s[p[1]].k \notin {"or", "and"} THEN p[2]
                   ELSE 2 * p[2] + (IF Skips(s[p[1]]) THEN 1 ELSE 0)]
<1>1. n \in Nat
  OBVIOUS
<1>2. SkipBits(s) = b[n]
  BY DEF SkipBits
<1> HIDE DEF n
<1>3. g \in [(1..n) \X Nat -> Nat]
  OBVIOUS
<1>4. \A i \in 1..n : \A x \in Nat :
        g[<<i, x>>] = IF s[i].k \notin {"or", "and"} THEN x
                      ELSE 2 * x + (IF Skips(s[i]) THEN 1 ELSE 0)
  OBVIOUS
<1> HIDE DEF g
<1>5. PICK f \in [0..n -> Nat] : Iterates(f, n, 0, g)
  BY <1>1, <1>3, RecursionIn
<1>6. \A i \in 1..n : f[i] = IF s[i].k \notin {"or", "and"} THEN f[i - 1]
                             ELSE 2 * f[i - 1] + (IF Skips(s[i]) THEN 1 ELSE 0)
  <2> SUFFICES ASSUME NEW i \in 1..n
               PROVE  f[i] = IF s[i].k \notin {"or", "and"} THEN f[i - 1]
                             ELSE 2 * f[i - 1] + (IF Skips(s[i]) THEN 1 ELSE 0)
    OBVIOUS
  <2>1. f[i] = g[<<i, f[i - 1]>>] /\ f[i - 1] \in Nat
    BY <1>1, <1>5 DEF Iterates
  <2> QED
    BY <1>4, <2>1
<1>7. f[0] = 0
  BY <1>5 DEF Iterates
<1>8. f = F(f)
  BY <1>1, <1>6, <1>7
<1>9. b = F(b)
  <2> HIDE DEF F
  <2> QED
    BY <1>8
<1>10. b[0] = 0 /\ \A i \in 1..n : b[i] = IF s[i].k \notin {"or", "and"} THEN b[i - 1]
                             ELSE 2 * b[i - 1] + (IF Skips(s[i]) THEN 1 ELSE 0)
  <2> HIDE DEF b
  <2> QED
    BY <1>1, <1>9
<1> DEFINE T == {m \in 0..n : b[m] # f[m]}
<1>11. T = {}
  <2>1. SUFFICES ASSUME T # {}
                 PROVE  FALSE
    OBVIOUS
  <2>2. T \in SUBSET (0..n)
    OBVIOUS
  <2>3. PICK m \in T : \A j \in T : m <= j
    <3> HIDE DEF T
    <3> QED
      BY <1>1, <2>1, <2>2, LeastNumber
  <2>4. m \in 1..n /\ m - 1 \in 0..n
    BY <1>1, <1>7, <1>10
  <2>5. m - 1 \notin T
    <3> HIDE DEF T
    <3> QED
      BY <2>3, <2>4
  <2>6. b[m - 1] = f[m - 1]
    BY <2>4, <2>5
  <2>7. b[m] = f[m]
    <3> HIDE DEF b
    <3> QED
      BY <1>6, <1>10, <2>4, <2>6
  <2> QED
    BY <2>7
<1>12. SkipBits(s) = f[n]
  <2> HIDE DEF b
  <2> QED
    BY <1>1, <1>2, <1>11
<1> HIDE DEF F, b, T
<1> QED
  BY <1>6, <1>7, <1>12 DEF BitsOf, n

\* The bits of the entries that two stacks share.
LEMMA SameBits ==
    ASSUME NEW s, IsStack(s), NEW t, IsStack(t),
           NEW f, BitsOf(s, f), NEW g, BitsOf(t, g),
           NEW k \in 0..Len(s), k <= Len(t), \A i \in 1..k : t[i] = s[i]
    PROVE  f[k] = g[k]
<1> DEFINE T == {m \in 0..k : f[m] # g[m]}
<1>1. Len(s) \in Nat /\ Len(t) \in Nat
  OBVIOUS
<1>2. T = {}
  <2>1. SUFFICES ASSUME T # {}
                 PROVE  FALSE
    OBVIOUS
  <2>2. T \in SUBSET (0..k) /\ k \in Nat
    BY <1>1
  <2>3. PICK m \in T : \A j \in T : m <= j
    <3> HIDE DEF T
    <3> QED
      BY <2>1, <2>2, LeastNumber
  <2>4. m \in 1..k /\ m - 1 \in 0..k
    BY <1>1 DEF BitsOf
  <2>5. m - 1 \notin T
    <3> HIDE DEF T
    <3> QED
      BY <2>3, <2>4
  <2>6. f[m - 1] = g[m - 1] /\ s[m] = t[m] /\ m \in 1..Len(s) /\ m \in 1..Len(t)
    BY <1>1, <2>4, <2>5
  <2>7. f[m] = g[m]
    BY <2>6 DEF BitsOf
  <2> QED
    BY <2>7
<1> QED
  BY <1>1, <1>2

\* Entries that are no && or || have no bit.
LEMMA NoBits ==
    ASSUME NEW s, IsStack(s), NEW f, BitsOf(s, f), NEW k \in 0..Len(s),
           \A i \in (k + 1)..Len(s) : s[i].k \notin {"or", "and"}
    PROVE  f[Len(s)] = f[k]
<1> DEFINE n == Len(s)
           T == {m \in 0..n : k <= m /\ f[m] # f[k]}
<1>1. n \in Nat
  OBVIOUS
<1>2. T = {}
  <2>1. SUFFICES ASSUME T # {}
                 PROVE  FALSE
    OBVIOUS
  <2>2. T \in SUBSET (0..n)
    OBVIOUS
  <2>3. PICK m \in T : \A j \in T : m <= j
    <3> HIDE DEF T, n
    <3> QED
      BY <1>1, <2>1, <2>2, LeastNumber
  <2>4. m \in (k + 1)..n /\ m \in 1..n /\ m - 1 \in 0..n /\ k <= m - 1
    BY <1>1
  <2>5. m - 1 \notin T
    <3> HIDE DEF T
    <3> QED
      BY <1>1, <2>3, <2>4
  <2>6. f[m - 1] = f[k] /\ s[m].k \notin {"or", "and"}
    BY <2>4, <2>5
  <2>7. f[m] = f[m - 1]
    BY <2>4, <2>6 DEF BitsOf
  <2> QED
    BY <2>6, <2>7
<1> QED
  BY <1>1, <1>2

\* What a rule does to the stack.
LEMMA Replaced ==
    ASSUME NEW s, IsStack(s), NEW n, NEW e, NEW t, Rewrites(s, n, e, t)
    PROVE  /\ IsStack(t) /\ Len(t) = Len(s) - n + 1 /\ t[Len(t)] = e
           /\ \A i \in 1..(Len(s) - n) : t[i] = s[i]
<1> DEFINE S == ToSet(s) \cup {e}
           u == SubSeq(s, 1, Len(s) - n)
<1>1. s \in Seq(S) /\ Len(s) \in Nat /\ n \in 0..Len(s)
  BY DEF IsStack, Rewrites
<1>2. u \in Seq(S) /\ Len(u) = Len(s) - n /\ \A i \in 1..(Len(s) - n) : u[i] = s[i]
  <2>1. \A i \in 1..(Len(s) - n) : s[i] \in S
    BY <1>1
  <2> HIDE DEF S
  <2> QED
    BY <1>1, <2>1, SubSeqProperties
<1> HIDE DEF u
<1>3. t = Append(u, e)
  BY DEF u, Rewrites
<1> HIDE DEF S
<1>4. e \in S
  BY DEF S
<1>5. t \in Seq(S) /\ Len(t) = Len(s) - n + 1 /\ t[Len(t)] = e
      /\ \A i \in 1..(Len(s) - n) : t[i] = s[i]
  BY <1>1, <1>2, <1>3, <1>4
<1>6. t \in Seq(ToSet(t))
  <2>1. DOMAIN t = 1..Len(t) /\ Len(t) \in Nat
    BY <1>5
  <2>2. \A i \in 1..Len(t) : t[i] \in ToSet(t)
    BY <2>1 DEF ToSet
  <2>3. t = [i \in 1..Len(t) |-> t[i]]
    BY <1>5
  <2>4. t \in [1..Len(t) -> ToSet(t)]
    BY <2>2, <2>3
  <2> QED
    BY <2>1, <2>4, SeqDef
<1> QED
  BY <1>5, <1>6 DEF IsStack

\* A stack has a bit that is not 0 if and only if something is skipped.
LEMMA SomeBit ==
    ASSUME NEW s, IsStack(s)
    PROVE  SkipBits(s) # 0 <=> \E i \in DOMAIN s : s[i].k \in {"or", "and"} /\ Skips(s[i])
<1> DEFINE n == Len(s)
           Some(m) == \E i \in 1..m : s[i].k \in {"or", "and"} /\ Skips(s[i])
<1>1. n \in Nat /\ DOMAIN s = 1..n
  OBVIOUS
<1>2. PICK f : BitsOf(s, f) /\ SkipBits(s) = f[n]
  BY SkipBitsBy
<1> DEFINE T == {m \in 0..n : ~(f[m] # 0 <=> Some(m))}
<1>3. T = {}
  <2>1. SUFFICES ASSUME T # {}
                 PROVE  FALSE
    OBVIOUS
  <2>2. T \in SUBSET (0..n)
    OBVIOUS
  <2>3. PICK m \in T : \A j \in T : m <= j
    <3> HIDE DEF T, n
    <3> QED
      BY <1>1, <2>1, <2>2, LeastNumber
  <2>4. m \in 1..n /\ m - 1 \in 0..n /\ f[m - 1] \in Nat
    <3>1. f[0] = 0 /\ ~Some(0)
      BY <1>2 DEF BitsOf
    <3>2. m # 0
      BY <3>1
    <3>3. m \in 1..n /\ m - 1 \in 0..n
      BY <1>1, <3>2
    <3> QED
      BY <1>2, <3>3 DEF BitsOf
  <2>5. m - 1 \notin T
    <3> HIDE DEF T
    <3> QED
      BY <1>1, <2>3, <2>4
  <2>6. f[m - 1] # 0 <=> Some(m - 1)
    BY <2>4, <2>5
  <2>7. Some(m) <=> Some(m - 1) \/ (s[m].k \in {"or", "and"} /\ Skips(s[m]))
    <3>1. \A i : i \in 1..m <=> i \in 1..(m - 1) \/ i = m
      BY <2>4
    <3> QED
      BY <3>1
  <2>8. f[m] = IF s[m].k \notin {"or", "and"} THEN f[m - 1]
               ELSE 2 * f[m - 1] + (IF Skips(s[m]) THEN 1 ELSE 0)
    BY <1>2, <2>4 DEF BitsOf
  <2>9. f[m] # 0 <=> Some(m)
    <3> HIDE DEF Some
    <3> QED
      BY <2>4, <2>6, <2>7, <2>8
  <2> QED
    BY <2>9
<1>4. f[n] # 0 <=> Some(n)
  BY <1>1, <1>3
<1> QED
  BY <1>1, <1>2, <1>4


\* Fewer bits than marks.
LEMMA BitsBelow ==
    ASSUME NEW s, IsStack(s), Marks(s) <= InhibitBits
    PROVE  Marks(s) \in 0..InhibitBits /\ SkipBits(s) \in 0..(2^Marks(s) - 1)
<1> DEFINE n == Len(s)
           marked(m) == {i \in 1..m : s[i].k \in {"or", "and"}}
           c(m) == Cardinality(marked(m))
<1>1. n \in Nat /\ DOMAIN s = 1..n
  OBVIOUS
<1>2. PICK f : BitsOf(s, f) /\ SkipBits(s) = f[n]
  BY SkipBitsBy
<1>3. \A m \in 0..n : IsFiniteSet(marked(m)) /\ c(m) \in Nat /\ c(m) <= c(n)
  <2> SUFFICES ASSUME NEW m \in 0..n
               PROVE  IsFiniteSet(marked(m)) /\ c(m) \in Nat /\ c(m) <= c(n)
    OBVIOUS
  <2>1. IsFiniteSet(1..n)
    BY <1>1, FS_Interval
  <2>2. marked(n) \subseteq 1..n /\ marked(m) \subseteq marked(n)
    BY <1>1
  <2> HIDE DEF marked
  <2>3. IsFiniteSet(marked(n))
    BY <2>1, <2>2, FS_Subset
  <2>4. IsFiniteSet(marked(m)) /\ c(m) <= c(n)
    BY <2>2, <2>3, FS_Subset
  <2>5. c(m) \in Nat
    BY <2>4, FS_CardinalityType
  <2> QED
    BY <2>4, <2>5
<1>4. Marks(s) = c(n)
  BY <1>1 DEF Marks
<1>5. \A m \in 1..n : c(m) = IF s[m].k \in {"or", "and"} THEN c(m - 1) + 1 ELSE c(m - 1)
  <2> SUFFICES ASSUME NEW m \in 1..n
               PROVE  c(m) = IF s[m].k \in {"or", "and"} THEN c(m - 1) + 1 ELSE c(m - 1)
    OBVIOUS
  <2>1. \A i : i \in 1..m <=> i \in 1..(m - 1) \/ i = m
    BY <1>1
  <2>2. marked(m) = IF s[m].k \in {"or", "and"} THEN marked(m - 1) \cup {m} ELSE marked(m - 1)
    BY <2>1
  <2>3. m \notin marked(m - 1) /\ m - 1 \in 0..n
    BY <1>1
  <2> HIDE DEF marked
  <2>4. Cardinality(marked(m - 1) \cup {m}) = c(m - 1) + 1
    BY <1>3, <2>3, FS_AddElement
  <2> QED
    BY <2>2, <2>4
<1> HIDE DEF c, marked, n
<1>6. \A m \in 0..n : c(m) \in 0..InhibitBits
  <2>1. n \in 0..n /\ InhibitBits \in Nat /\ c(n) <= InhibitBits
    BY <1>1, <1>4, BoundsOK
  <2>2. \A m \in 0..n : c(m) \in Nat /\ c(m) <= c(n)
    BY <1>3
  <2> QED
    BY <2>1, <2>2
<1> DEFINE T == {m \in 0..n : ~(f[m] \in Nat /\ f[m] < 2^c(m))}
<1>7. T = {}
  <2>1. SUFFICES ASSUME T # {}
                 PROVE  FALSE
    OBVIOUS
  <2>2. T \in SUBSET (0..n)
    OBVIOUS
  <2>3. PICK m \in T : \A j \in T : m <= j
    <3> HIDE DEF T
    <3> QED
      BY <1>1, <2>1, <2>2, LeastNumber
  <2>4. m \in 1..n /\ m - 1 \in 0..n
    <3>1. c(0) \in 0..InhibitBits
      BY <1>1, <1>6
    <3>2. 2^c(0) \in Nat \ {0}
      BY <3>1, InhibitPowers
    <3>3. f[0] = 0
      BY <1>2 DEF BitsOf
    <3>4. 0 \notin T
      BY <3>2, <3>3
    <3> QED
      BY <1>1, <3>4
  <2>5. m - 1 \notin T
    <3> HIDE DEF T
    <3> QED
      BY <1>1, <2>3, <2>4
  <2>6. f[m - 1] \in Nat /\ f[m - 1] < 2^c(m - 1)
    BY <2>4, <2>5
  <2>7. f[m] = IF s[m].k \notin {"or", "and"} THEN f[m - 1]
               ELSE 2 * f[m - 1] + (IF Skips(s[m]) THEN 1 ELSE 0)
    BY <1>2, <2>4 DEF BitsOf, n
  <2>8. c(m - 1) \in 0..InhibitBits
    BY <1>6, <2>4
  <2>9. PICK p \in Nat : p = 2^c(m - 1) /\ 2^(c(m - 1) + 1) = 2 * p
    BY <2>8, InhibitPowers
  <2>10. CASE s[m].k \in {"or", "and"}
    <3>1. c(m) = c(m - 1) + 1
      BY <1>5, <2>4, <2>10
    <3>2. f[m] \in Nat /\ f[m] < 2 * p
      BY <2>6, <2>7, <2>9, <2>10
    <3> QED
      BY <2>9, <3>1, <3>2
  <2>11. CASE s[m].k \notin {"or", "and"}
    <3>1. c(m) = c(m - 1) /\ f[m] = f[m - 1]
      BY <1>5, <2>4, <2>7, <2>11
    <3> QED
      BY <2>6, <3>1
  <2> QED
    BY <2>10, <2>11
<1>8. f[n] \in Nat /\ f[n] < 2^c(n) /\ c(n) \in 0..InhibitBits
  BY <1>1, <1>6, <1>7
<1>9. 2^c(n) \in Nat
  BY <1>8, InhibitPowers
<1>10. SkipBits(s) \in 0..(2^c(n) - 1)
  BY <1>2, <1>8, <1>9
<1> QED
  BY <1>4, <1>8, <1>10 DEF n

\* The marks of a stack, of which some entries are replaced.
LEMMA ReplacedMarks ==
    ASSUME NEW s, IsStack(s), NEW n, NEW e, NEW t, Rewrites(s, n, e, t)
    PROVE  /\ Marks(s) \in Nat /\ Marks(t) \in Nat
           /\ e.k \notin {"or", "and"} => Marks(t) <= Marks(s)
           /\ Marks(t) <= Marks(s) + 1
<1> DEFINE M(u) == {i \in DOMAIN u : u[i].k \in {"or", "and"}}
           l == Len(s) - n + 1
<1>1. /\ IsStack(t) /\ Len(t) = l /\ t[l] = e
      /\ \A i \in 1..(Len(s) - n) : t[i] = s[i]
  <2> HIDE DEF M
  <2>1. /\ IsStack(t) /\ Len(t) = Len(s) - n + 1 /\ t[Len(t)] = e
        /\ \A i \in 1..(Len(s) - n) : t[i] = s[i]
    BY Replaced
  <2> QED
    BY <2>1
<1>2. Len(s) \in Nat /\ DOMAIN s = 1..Len(s) /\ DOMAIN t = 1..l /\ l \in Nat
  BY <1>1
<1>3. M(s) \subseteq 1..Len(s) /\ M(t) \subseteq M(s) \cup {l}
      /\ (e.k \notin {"or", "and"} => M(t) \subseteq M(s))
  <2>1. \A i \in 1..l : i = l \/ (i \in 1..(Len(s) - n) /\ i \in 1..Len(s))
    BY <1>2 DEF Rewrites
  <2> QED
    BY <1>1, <1>2, <2>1
<1> HIDE DEF M, l
<1>4. IsFiniteSet(1..Len(s))
  BY <1>2, FS_Interval
<1>5. IsFiniteSet(M(s))
  BY <1>3, <1>4, FS_Subset
<1>6. IsFiniteSet(M(s) \cup {l}) /\ Cardinality(M(s) \cup {l}) <= Cardinality(M(s)) + 1
  <2>1. Cardinality(M(s)) \in Nat
    BY <1>5, FS_CardinalityType
  <2>2. CASE l \in M(s)
    <3>1. M(s) \cup {l} = M(s)
      BY <2>2
    <3>2. Cardinality(M(s)) <= Cardinality(M(s)) + 1
      BY <2>1
    <3> QED
      BY <1>5, <3>1, <3>2
  <2>3. CASE l \notin M(s)
    <3>1. IsFiniteSet(M(s) \cup {l}) /\ Cardinality(M(s) \cup {l}) = Cardinality(M(s)) + 1
      BY <1>5, <2>3, FS_AddElement
    <3> QED
      BY <2>1, <3>1
  <2> QED
    BY <2>2, <2>3
<1>7. IsFiniteSet(M(t)) /\ Cardinality(M(t)) <= Cardinality(M(s) \cup {l})
      /\ (e.k \notin {"or", "and"} => Cardinality(M(t)) <= Cardinality(M(s)))
  <2>1. IsFiniteSet(M(t)) /\ Cardinality(M(t)) <= Cardinality(M(s) \cup {l})
    BY <1>3, <1>6, FS_Subset
  <2>2. e.k \notin {"or", "and"} => Cardinality(M(t)) <= Cardinality(M(s))
    BY <1>3, <1>5, FS_Subset
  <2> QED
    BY <2>1, <2>2
<1>8. Cardinality(M(s)) \in Nat /\ Cardinality(M(t)) \in Nat /\ Cardinality(M(s) \cup {l}) \in Nat
  BY <1>5, <1>6, <1>7, FS_CardinalityType
<1>9. Marks(s) = Cardinality(M(s)) /\ Marks(t) = Cardinality(M(t))
  BY DEF Marks, M
<1> QED
  BY <1>6, <1>7, <1>8, <1>9

\* The bits of a stack, of which some entries are replaced.
LEMMA ReplacedBits ==
    ASSUME NEW s, IsStack(s), NEW n, NEW e, NEW t, Rewrites(s, n, e, t)
    PROVE  LET b == IF Skips(e) THEN 1 ELSE 0
               values == \A i \in (Len(s) - n + 1)..Len(s) : s[i].k \notin {"or", "and"} IN
           /\ SkipBits(s) \in Nat
           /\ values /\ e.k \notin {"or", "and"} => SkipBits(t) = SkipBits(s)
           /\ values /\ e.k \in {"or", "and"} => SkipBits(t) = 2 * SkipBits(s) + b
<1> DEFINE m == Len(s) - n
           values == \A i \in (m + 1)..Len(s) : s[i].k \notin {"or", "and"}
<1>1. /\ IsStack(t) /\ Len(t) = m + 1 /\ t[m + 1] = e
      /\ \A i \in 1..m : t[i] = s[i]
  <2>1. /\ IsStack(t) /\ Len(t) = Len(s) - n + 1 /\ t[Len(t)] = e
        /\ \A i \in 1..(Len(s) - n) : t[i] = s[i]
    BY Replaced
  <2> QED
    BY <2>1
<1>2. Len(s) \in Nat /\ m \in 0..Len(s) /\ m <= Len(t) /\ m + 1 \in 1..Len(t)
  BY <1>1 DEF IsStack, Rewrites
<1>3. PICK f : BitsOf(s, f) /\ SkipBits(s) = f[Len(s)]
  BY SkipBitsBy
<1>4. PICK g : BitsOf(t, g) /\ SkipBits(t) = g[Len(t)]
  BY <1>1, SkipBitsBy
<1> HIDE DEF m
<1>5. f[m] = g[m]
  BY <1>1, <1>2, <1>3, <1>4, SameBits
<1>6. values => f[Len(s)] = f[m]
  BY <1>2, <1>3, NoBits
<1>7. f[Len(s)] \in Nat
  BY <1>2, <1>3 DEF BitsOf
<1>8. g[m + 1] = IF e.k \notin {"or", "and"} THEN g[m]
                 ELSE 2 * g[m] + (IF Skips(e) THEN 1 ELSE 0)
  <2>1. g[m + 1] = IF t[m + 1].k \notin {"or", "and"} THEN g[(m + 1) - 1]
                   ELSE 2 * g[(m + 1) - 1] + (IF Skips(t[m + 1]) THEN 1 ELSE 0)
    BY <1>2, <1>4 DEF BitsOf
  <2>2. (m + 1) - 1 = m
    BY <1>2
  <2> QED
    BY <1>1, <2>1, <2>2
<1> QED
  BY <1>1, <1>3, <1>4, <1>5, <1>6, <1>7, <1>8 DEF m

\* The bit of a mark goes when its operand is known.
LEMMA PoppedBit ==
    ASSUME NEW s, IsStack(s), Len(s) >= 2, s[Len(s) - 1].k \in {"or", "and"},
           s[Len(s)].k \notin {"or", "and"}, NEW e, e.k \notin {"or", "and"},
           NEW t, Rewrites(s, 2, e, t)
    PROVE  SkipBits(t) = POPEVAL(SkipBits(s))
<1> DEFINE m == Len(s) - 2
<1>1. 2 \in 0..Len(s)
  OBVIOUS
<1>2. /\ IsStack(t) /\ Len(t) = m + 1 /\ t[m + 1] = e
      /\ \A i \in 1..m : t[i] = s[i]
  <2>1. /\ IsStack(t) /\ Len(t) = Len(s) - 2 + 1 /\ t[Len(t)] = e
        /\ \A i \in 1..(Len(s) - 2) : t[i] = s[i]
    BY <1>1, Replaced
  <2> QED
    BY <2>1
<1>3. Len(s) \in Nat /\ m \in Nat /\ m \in 0..Len(s) /\ m <= Len(t) /\ m \in 0..Len(t)
      /\ Len(s) = m + 2
  BY <1>2
<1>4. PICK f : BitsOf(s, f) /\ SkipBits(s) = f[Len(s)]
  BY SkipBitsBy
<1>5. PICK g : BitsOf(t, g) /\ SkipBits(t) = g[Len(t)]
  BY <1>2, SkipBitsBy
<1> HIDE DEF m
<1>6. f[m] = g[m]
  BY <1>2, <1>3, <1>4, <1>5, SameBits
<1>7. g[Len(t)] = g[m]
  <2>1. \A i \in (m + 1)..Len(t) : t[i].k \notin {"or", "and"}
    BY <1>2, <1>3
  <2> QED
    BY <1>2, <1>3, <1>5, <2>1, NoBits
<1>8. g[m] \in Nat
  BY <1>3, <1>5 DEF BitsOf
<1>9. f[m + 2] = f[m + 1]
  <2>1. m + 2 \in 1..Len(s) /\ (m + 2) - 1 = m + 1
    BY <1>3
  <2> QED
    BY <1>3, <1>4, <2>1 DEF BitsOf
<1>10. f[m + 1] = 2 * f[m] + (IF Skips(s[m + 1]) THEN 1 ELSE 0)
  <2>1. m + 1 \in 1..Len(s) /\ (m + 1) - 1 = m /\ m + 1 = Len(s) - 1
    BY <1>3
  <2> QED
    BY <1>3, <1>4, <2>1 DEF BitsOf
<1>11. PICK x \in Nat, b \in {0, 1} : x = g[m] /\ SkipBits(s) = 2 * x + b
  BY <1>3, <1>4, <1>6, <1>8, <1>9, <1>10
<1>12. (2 * x + b) \div 2 = x
  OBVIOUS
<1> QED
  BY <1>5, <1>7, <1>11, <1>12 DEF POPEVAL


-----------------------------------------------------------------------------
(* The types of what the type engine returns *)

\* Every outcome is an error or has a type.
Typed(outcomes) ==
    \A r \in outcomes :
        /\ r.err \in {"ok", "error", "fault", "abort"}
        /\ r.err = "ok" => r.y.type \in CexpTypes

LEMMA TypesOf ==
    /\ \A t \in CexpTypes : t.base \in Bases /\ PTR2BASE(t) \in CexpTypes /\ BASE2PTR(t) \in CexpTypes
    /\ {TUChar, TULong, TFloat, TDouble, TVoid, TFuncP, TDFuncP} \subseteq CexpTypes
    /\ \A b \in Bases : Plain(b) \in CexpTypes /\ Pointer(b) \in CexpTypes
<1>1. \A b \in Bases : Plain(b) \in CexpTypes /\ Pointer(b) \in CexpTypes
  BY DEF CexpTypes
<1>2. {"char", "long", "float", "double", "void"} \subseteq Bases
  BY DEF Bases, Integral, Floating
<1>3. TUChar \in CexpTypes /\ TULong \in CexpTypes /\ TFloat \in CexpTypes /\ TDouble \in CexpTypes
      /\ TVoid \in CexpTypes
  BY <1>1, <1>2 DEF TUChar, TULong, TFloat, TDouble, TVoid
<1>4. TFuncP \in CexpTypes /\ TDFuncP \in CexpTypes
  BY DEF CexpTypes
<1>5. \A t \in CexpTypes : t.base \in Bases
  <2> SUFFICES ASSUME NEW t \in CexpTypes
               PROVE  t.base \in Bases
    OBVIOUS
  <2>1. CASE \E b \in Bases : t = Plain(b) \/ t = Pointer(b)
    BY <2>1 DEF Plain, Pointer
  <2>2. CASE t = TFuncP \/ t = TDFuncP
    BY <1>2, <2>2 DEF TFuncP, TDFuncP
  <2> QED
    BY <2>1, <2>2 DEF CexpTypes
<1>6. \A t \in CexpTypes : PTR2BASE(t) \in CexpTypes /\ BASE2PTR(t) \in CexpTypes
  BY <1>1, <1>5 DEF PTR2BASE, BASE2PTR
<1> QED
  BY <1>1, <1>3, <1>4, <1>5, <1>6

LEMMA OkTyped ==
    ASSUME NEW y, y.type \in CexpTypes
    PROVE  Typed(Ok(y))
BY DEF Typed, Ok

LEMMA ErrorsTyped == Typed(Error) /\ Typed(Fault) /\ Typed(Abort)
BY DEF Typed, Error, Fault, Abort

\* What a cast returns has the type it was cast to.
LEMMA CastTyped ==
    ASSUME NEW v, NEW t, NEW force
    PROVE  \A r \in cexpTypeCast(v, t, force) :
             /\ r.err \in {"ok", "error"}
             /\ r.err = "ok" => r.y.type = t
<1>1. \A y \in Converted(v, t) : y.type = t
  BY DEF Converted, Value
<1>2. \A r \in Error : r.err = "error"
  BY DEF Error
<1>3. \A y : \A r \in Ok(y) : r.err = "ok" /\ r.y = y
  BY DEF Ok
<1>4. Value(t, v.v).type = t
  BY DEF Value
<1> SUFFICES ASSUME NEW r \in cexpTypeCast(v, t, force)
             PROVE  r.err \in {"ok", "error"} /\ (r.err = "ok" => r.y.type = t)
  OBVIOUS
<1>5. r \in Error \/ r \in Ok(Value(t, v.v)) \/ \E y \in Converted(v, t) : r \in Ok(y)
  <2> DEFINE F(fit) == IF fit THEN UNION {Ok(y) : y \in Converted(v, t)} ELSE Error
  <2>1. r \in Error \/ r \in Ok(Value(t, v.v))
        \/ r \in UNION {F(fit) : fit \in IF force THEN {TRUE} ELSE fits(v, t)}
    BY DEF cexpTypeCast
  <2>2. ASSUME NEW fit, r \in F(fit)
        PROVE  r \in Error \/ \E y \in Converted(v, t) : r \in Ok(y)
    BY <2>2
  <2> HIDE DEF F
  <2> QED
    BY <2>1, <2>2
<1> QED
  BY <1>1, <1>2, <1>3, <1>4, <1>5

LEMMA CastTypes ==
    ASSUME NEW v, NEW t \in CexpTypes, NEW force
    PROVE  Typed(cexpTypeCast(v, t, force))
BY CastTyped DEF Typed

LEMMA PromoteTyped ==
    ASSUME NEW a, a.type \in CexpTypes, NEW b, b.type \in CexpTypes
    PROVE  \A r \in cexpTypePromote(a, b) :
             /\ r.err \in {"ok", "error"}
             /\ r.err = "ok" => r.y[1].type \in CexpTypes /\ r.y[2].type = r.y[1].type
<1>1. \A r \in Error : r.err = "error"
  BY DEF Error
<1>2. \A y : \A r \in Ok(y) : r.err = "ok" /\ r.y = y
  BY DEF Ok
<1> SUFFICES ASSUME NEW r \in cexpTypePromote(a, b)
             PROVE  r.err \in {"ok", "error"}
                    /\ (r.err = "ok" => r.y[1].type \in CexpTypes /\ r.y[2].type = r.y[1].type)
  OBVIOUS
<1>3. \/ r \in Error
      \/ \E q \in cexpTypeCast(b, a.type, FALSE) :
           IF q.err = "ok" THEN r \in Ok(<<a, q.y>>) ELSE r = q
      \/ \E q \in cexpTypeCast(a, b.type, FALSE) :
           IF q.err = "ok" THEN r \in Ok(<<q.y, b>>) ELSE r = q
  BY DEF cexpTypePromote, Then
<1>4. CASE r \in Error
  BY <1>1, <1>4
<1>5. ASSUME NEW q \in cexpTypeCast(b, a.type, FALSE),
             IF q.err = "ok" THEN r \in Ok(<<a, q.y>>) ELSE r = q
      PROVE  r.err \in {"ok", "error"}
             /\ (r.err = "ok" => r.y[1].type \in CexpTypes /\ r.y[2].type = r.y[1].type)
  <2>1. q.err \in {"ok", "error"} /\ (q.err = "ok" => q.y.type = a.type)
    BY CastTyped
  <2> QED
    BY <1>2, <1>5, <2>1
<1>6. ASSUME NEW q \in cexpTypeCast(a, b.type, FALSE),
             IF q.err = "ok" THEN r \in Ok(<<q.y, b>>) ELSE r = q
      PROVE  r.err \in {"ok", "error"}
             /\ (r.err = "ok" => r.y[1].type \in CexpTypes /\ r.y[2].type = r.y[1].type)
  <2>1. q.err \in {"ok", "error"} /\ (q.err = "ok" => q.y.type = b.type)
    BY CastTyped
  <2> QED
    BY <1>2, <1>6, <2>1
<1> QED
  BY <1>3, <1>4, <1>5, <1>6

LEMMA CompareTyped ==
    ASSUME NEW x1, NEW x2, NEW op
    PROVE  Typed(compare(x1, x2, op))
<1> DEFINE f == FPQ(x1.type) \/ FPQ(x2.type)
           t == IF f THEN TDouble ELSE TULong
<1> SUFFICES ASSUME NEW r \in compare(x1, x2, op)
             PROVE  r.err \in {"ok", "error", "fault", "abort"}
                    /\ (r.err = "ok" => r.y.type \in CexpTypes)
  BY DEF Typed
<1>1. \A c : Truth(c).type \in CexpTypes
  BY TypesOf DEF Truth, Value
<1>2. \/ r \in Error
      \/ \E q \in cexpTypeCast(x1, t, FALSE) : r = q /\ q.err # "ok"
      \/ \E q \in cexpTypeCast(x2, t, FALSE) : r = q /\ q.err # "ok"
      \/ \E c : r \in Ok(Truth(c))
  <2> DEFINE G(a, b) == IF Inexact \in {a.v, b.v} THEN Ok(Truth(TRUE)) \cup Ok(Truth(FALSE))
                        ELSE Ok(Truth(Holds(op, a.v, b.v)))
             F(a) == Then(cexpTypeCast(x2, t, FALSE), LAMBDA b : G(a, b))
  <2>1. CASE r \in Error
    BY <2>1
  <2>2. CASE r \in Then(cexpTypeCast(x1, t, FALSE), F)
    <3>1. PICK q \in cexpTypeCast(x1, t, FALSE) : r \in IF q.err = "ok" THEN F(q.y) ELSE {q}
      <4> HIDE DEF F, t
      <4> QED
        BY <2>2 DEF Then
    <3>2. CASE q.err = "ok"
      <4>1. r \in F(q.y)
        BY <3>1, <3>2
      <4>2. PICK p \in cexpTypeCast(x2, t, FALSE) : r \in IF p.err = "ok" THEN G(q.y, p.y) ELSE {p}
        <5> HIDE DEF G, t
        <5> QED
          BY <4>1 DEF Then
      <4> QED
        BY <4>2
    <3> QED
      BY <3>1, <3>2
  <2>3. r \in Error \/ r \in Then(cexpTypeCast(x1, t, FALSE), F)
    BY DEF compare
  <2> QED
    BY <2>1, <2>2, <2>3
<1>3. CASE r \in Error
  BY <1>3, ErrorsTyped DEF Typed
<1> HIDE DEF t
<1>4. CASE \E q \in cexpTypeCast(x1, t, FALSE) : r = q /\ q.err # "ok"
  <2>1. PICK q \in cexpTypeCast(x1, t, FALSE) : r = q /\ q.err # "ok"
    BY <1>4
  <2>2. q.err \in {"ok", "error"}
    BY CastTyped
  <2> QED
    BY <2>1, <2>2
<1>5. CASE \E q \in cexpTypeCast(x2, t, FALSE) : r = q /\ q.err # "ok"
  <2>1. PICK q \in cexpTypeCast(x2, t, FALSE) : r = q /\ q.err # "ok"
    BY <1>5
  <2>2. q.err \in {"ok", "error"}
    BY CastTyped
  <2> QED
    BY <2>1, <2>2
<1>6. CASE \E c : r \in Ok(Truth(c))
  BY <1>1, <1>6 DEF Ok
<1> QED
  BY <1>2, <1>3, <1>4, <1>5, <1>6


LEMMA OnLongsTyped ==
    ASSUME NEW op \in BinOps \ Comparisons, NEW a, NEW b
    PROVE  \A r \in OnLongs(op, a, b) :
             r.err \in {"ok", "fault"} /\ (r.err = "ok" => r.y.type = TULong)
<1> DEFINE L(n) == Ok(Value(TULong, n % 2^LongBits))
<1>1. \A n : \A r \in L(n) : r.err = "ok" /\ r.y.type = TULong
  BY DEF Ok, Value
<1>2. \A r \in Fault : r.err = "fault"
  BY DEF Fault
<1> SUFFICES ASSUME NEW r \in OnLongs(op, a, b)
             PROVE  r.err \in {"ok", "fault"} /\ (r.err = "ok" => r.y.type = TULong)
  OBVIOUS
<1>3. op \in {"OAdd", "OSub", "OMul", "ODiv", "OMod", "OShL", "OShR", "OAnd", "OXor", "OOr"}
  BY DEF BinOps
<1>4. r \in Fault \/ \E n : r \in L(n)
  <2> HIDE DEF L
  <2> DEFINE C == CASE op = "OAdd" -> L(a + b)
      [] op = "OSub" -> L(a - b)
      [] op = "OMul" -> L(a * b)
      [] op \in {"ODiv", "OMod"} ->
           IF b = 0 THEN Fault ELSE IF op = "ODiv" THEN L(a \div b) ELSE L(a % b)
      [] op \in {"OShL", "OShR"} ->
           IF b >= LongBits THEN UNION {L(n) : n \in Numbers(TULong)}
           ELSE IF op = "OShL" THEN L(a * 2^b) ELSE L(a \div 2^b)
      [] op \in {"OAnd", "OXor", "OOr"} -> L(BitByBit(op, a, b))
  <2>1. r \in C
    BY DEF OnLongs, L
  <2>2. CASE op \in {"OAdd", "OSub", "OMul"}
    BY <2>1, <2>2
  <2>3. CASE op \in {"ODiv", "OMod"}
    BY <2>1, <2>3
  <2>4. CASE op \in {"OShL", "OShR"}
    BY <2>1, <2>4
  <2>5. CASE op \in {"OAnd", "OXor", "OOr"}
    BY <2>1, <2>5
  <2> QED
    BY <1>3, <2>2, <2>3, <2>4, <2>5
<1> HIDE DEF L
<1> QED
  BY <1>1, <1>2, <1>4

LEMMA OnFloatsTyped ==
    ASSUME NEW op, NEW t \in CexpTypes, NEW a, NEW b
    PROVE  Typed(OnFloats(op, t, a, b))
<1>1. \A n : Typed(Ok(Value(t, n)))
  BY OkTyped DEF Value
<1> QED
  BY <1>1, ErrorsTyped DEF OnFloats

LEMMA BinopTyped ==
    ASSUME NEW x1, x1.type \in CexpTypes, NEW x2, NEW op \in BinOps \ Comparisons
    PROVE  Typed(binop(x1, x2, op))
<1>1. CASE ~SCALARQ(x1.type)
  BY <1>1, OnFloatsTyped DEF binop
<1>2. CASE SCALARQ(x1.type)
  <2> DEFINE H(a, b) == Then(OnLongs(op, a.v, b.v), LAMBDA y : cexpTypeCast(y, x1.type, TRUE))
             G(a) == Then(cexpTypeCast(x2, TULong, FALSE), LAMBDA b : H(a, b))
  <2>1. binop(x1, x2, op) = Then(cexpTypeCast(x1, TULong, FALSE), G)
    BY <1>2 DEF binop
  <2>2. \A a, b : Typed(H(a, b))
    <3> SUFFICES ASSUME NEW a, NEW b, NEW r \in H(a, b)
                 PROVE  r.err \in {"ok", "error", "fault", "abort"}
                        /\ (r.err = "ok" => r.y.type \in CexpTypes)
      BY DEF Typed
    <3>1. PICK q \in OnLongs(op, a.v, b.v) :
            r \in IF q.err = "ok" THEN cexpTypeCast(q.y, x1.type, TRUE) ELSE {q}
      BY DEF Then
    <3>2. q.err \in {"ok", "fault"}
      BY OnLongsTyped
    <3>3. Typed(cexpTypeCast(q.y, x1.type, TRUE))
      BY CastTypes
    <3> QED
      BY <3>1, <3>2, <3>3 DEF Typed
  <2> HIDE DEF H
  <2>3. \A a : Typed(G(a))
    <3> SUFFICES ASSUME NEW a, NEW r \in G(a)
                 PROVE  r.err \in {"ok", "error", "fault", "abort"}
                        /\ (r.err = "ok" => r.y.type \in CexpTypes)
      BY DEF Typed
    <3>1. PICK q \in cexpTypeCast(x2, TULong, FALSE) :
            r \in IF q.err = "ok" THEN H(a, q.y) ELSE {q}
      BY DEF Then
    <3>2. q.err \in {"ok", "error"}
      BY CastTyped
    <3> QED
      BY <2>2, <3>1, <3>2 DEF Typed
  <2> HIDE DEF G
  <2> SUFFICES ASSUME NEW r \in Then(cexpTypeCast(x1, TULong, FALSE), G)
               PROVE  r.err \in {"ok", "error", "fault", "abort"}
                      /\ (r.err = "ok" => r.y.type \in CexpTypes)
    BY <2>1 DEF Typed
  <2>4. PICK q \in cexpTypeCast(x1, TULong, FALSE) : r \in IF q.err = "ok" THEN G(q.y) ELSE {q}
    BY DEF Then
  <2>5. q.err \in {"ok", "error"}
    BY CastTyped
  <2> QED
    BY <2>3, <2>4, <2>5 DEF Typed
<1> QED
  BY <1>1, <1>2

LEMMA PointersTyped ==
    ASSUME NEW x1, x1.type \in CexpTypes, NEW x2, NEW op
    PROVE  Typed(PointerDiff(x1, x2, op)) /\ Typed(PointerStep(x1, x2, op))
<1>1. \A n : Typed(Ok(Value(TULong, n))) /\ Typed(Ok(Value(x1.type, n)))
  BY OkTyped, TypesOf DEF Value
<1>2. Typed(PointerDiff(x1, x2, op))
  BY <1>1, ErrorsTyped DEF PointerDiff
<1>3. Typed(PointerStep(x1, x2, op))
  <2> DEFINE F(n) == Ok(Value(x1.type, (IF op = "OSub" THEN x1.v - n.v * BASE_TYPE_SIZE(x1.type)
                              ELSE x1.v + n.v * BASE_TYPE_SIZE(x1.type)) % 2^Bits(x1.type)))
  <2>1. PointerStep(x1, x2, op) = Error
        \/ PointerStep(x1, x2, op) = Then(cexpTypeCast(x2, TULong, FALSE), F)
    BY DEF PointerStep
  <2>2. \A n : Typed(F(n))
    BY <1>1
  <2> HIDE DEF F
  <2>3. Typed(Then(cexpTypeCast(x2, TULong, FALSE), F))
    <3> SUFFICES ASSUME NEW r \in Then(cexpTypeCast(x2, TULong, FALSE), F)
                 PROVE  r.err \in {"ok", "error", "fault", "abort"}
                        /\ (r.err = "ok" => r.y.type \in CexpTypes)
      BY DEF Typed
    <3>1. PICK q \in cexpTypeCast(x2, TULong, FALSE) : r \in IF q.err = "ok" THEN F(q.y) ELSE {q}
      BY DEF Then
    <3>2. q.err \in {"ok", "error"}
      BY CastTyped
    <3> QED
      BY <2>2, <3>1, <3>2 DEF Typed
  <2> QED
    BY <2>1, <2>3, ErrorsTyped
<1> QED
  BY <1>2, <1>3

LEMMA BinOpTyped ==
    ASSUME NEW x1, x1.type \in CexpTypes, NEW x2, x2.type \in CexpTypes, NEW op \in BinOps
    PROVE  Typed(cexpTVBinOp(x1, x2, op))
<1> DEFINE F(xs) == binop(xs[1], xs[2], op)
<1>1. CASE op \in Comparisons
  BY <1>1, CompareTyped DEF cexpTVBinOp
<1>2. CASE op \notin Comparisons
  <2>1. \/ cexpTVBinOp(x1, x2, op) = PointerDiff(x1, x2, op)
        \/ cexpTVBinOp(x1, x2, op) = PointerStep(x1, x2, op)
        \/ cexpTVBinOp(x1, x2, op) = PointerStep(x2, x1, op)
        \/ cexpTVBinOp(x1, x2, op) = Error
        \/ cexpTVBinOp(x1, x2, op) = Then(cexpTypePromote(x1, x2), F)
    BY <1>2 DEF cexpTVBinOp
  <2>2. \A xs : xs[1].type \in CexpTypes => Typed(F(xs))
    BY <1>2, BinopTyped
  <2> HIDE DEF F
  <2>3. Typed(Then(cexpTypePromote(x1, x2), F))
    <3> SUFFICES ASSUME NEW r \in Then(cexpTypePromote(x1, x2), F)
                 PROVE  r.err \in {"ok", "error", "fault", "abort"}
                        /\ (r.err = "ok" => r.y.type \in CexpTypes)
      BY DEF Typed
    <3>1. PICK q \in cexpTypePromote(x1, x2) : r \in IF q.err = "ok" THEN F(q.y) ELSE {q}
      BY DEF Then
    <3>2. q.err \in {"ok", "error"} /\ (q.err = "ok" => q.y[1].type \in CexpTypes)
      BY PromoteTyped
    <3> QED
      BY <2>2, <3>1, <3>2 DEF Typed
  <2>4. Typed(PointerDiff(x1, x2, op)) /\ Typed(PointerStep(x1, x2, op))
        /\ Typed(PointerStep(x2, x1, op)) /\ Typed(Error)
    BY PointersTyped, ErrorsTyped
  <2> QED
    BY <2>1, <2>3, <2>4
<1> QED
  BY <1>1, <1>2

LEMMA UnOpTyped ==
    ASSUME NEW x, x.type \in CexpTypes, NEW op
    PROVE  Typed(cexpTVUnOp(x, op))
<1> DEFINE F(y) == cexpTypeCast(Value(TULong, 2^LongBits - 1 - y.v), x.type, TRUE)
<1>1. \A n : Typed(Ok(Value(x.type, n)))
  BY OkTyped DEF Value
<1>2. \/ cexpTVUnOp(x, op) = Error
      \/ \E n : cexpTVUnOp(x, op) = Ok(Value(x.type, n))
      \/ cexpTVUnOp(x, op) = Then(cexpTypeCast(x, TULong, FALSE), F)
  BY DEF cexpTVUnOp
<1>3. \A y : Typed(F(y))
  BY CastTypes
<1> HIDE DEF F
<1>4. Typed(Then(cexpTypeCast(x, TULong, FALSE), F))
  <2> SUFFICES ASSUME NEW r \in Then(cexpTypeCast(x, TULong, FALSE), F)
               PROVE  r.err \in {"ok", "error", "fault", "abort"}
                      /\ (r.err = "ok" => r.y.type \in CexpTypes)
    BY DEF Typed
  <2>1. PICK q \in cexpTypeCast(x, TULong, FALSE) : r \in IF q.err = "ok" THEN F(q.y) ELSE {q}
    BY DEF Then
  <2>2. q.err \in {"ok", "error"}
    BY CastTyped
  <2> QED
    BY <1>3, <2>1, <2>2 DEF Typed
<1> QED
  BY <1>1, <1>2, <1>4, ErrorsTyped

LEMMA TrueTyped ==
    ASSUME NEW x
    PROVE  \A r \in cexpTVTrueQ(x) :
             /\ r.err \in {"ok", "abort"}
             /\ r.err = "ok" => r.y = Truth(x.v # 0) /\ r.y.type \in CexpTypes
<1>1. Truth(x.v # 0).type \in CexpTypes
  BY TypesOf DEF Truth, Value
<1> QED
  BY <1>1 DEF cexpTVTrueQ, Ok, Abort


-----------------------------------------------------------------------------
(* The values of variables *)

LEMMA ReadTyped ==
    ASSUME NEW lv, lv.type \in CexpTypes
    PROVE  Typed(cexpTA2TV(lv))
<1>1. \A n : Typed(Ok(Value(lv.type, n)))
  BY OkTyped DEF Value
<1>2. CASE cexpTA2TV(lv) = Error \/ cexpTA2TV(lv) = Fault
  BY <1>2, ErrorsTyped
<1>3. CASE ~(cexpTA2TV(lv) = Error \/ cexpTA2TV(lv) = Fault)
  <2> SUFFICES ASSUME NEW r \in cexpTA2TV(lv)
               PROVE  \E n : r \in Ok(Value(lv.type, n))
    BY <1>1 DEF Typed
  <2> DEFINE F(v) == UNION {Ok(Value(lv.type, n)) : n \in Reads(cells[v], lv.type)}
  <2>1. r \in UNION {F(v) : v \in AtAddress(lv.v)}
    BY <1>3 DEF cexpTA2TV
  <2>2. PICK v : r \in F(v)
    <3> HIDE DEF F
    <3> QED
      BY <2>1
  <2> QED
    BY <2>2
<1> QED
  BY <1>2, <1>3

LEMMA AssignEnds ==
    ASSUME NEW lv, NEW x
    PROVE  \A r \in cexpTVAssign(lv, x) : r.err \in {"ok", "error", "fault", "abort"}
<1> DEFINE F(y) == IF lv.type = TVoid THEN Error ELSE IF AtAddress(lv.v) = {} THEN Fault ELSE Ok(y)
<1> SUFFICES ASSUME NEW r \in cexpTVAssign(lv, x)
             PROVE  r.err \in {"ok", "error", "fault", "abort"}
  OBVIOUS
<1>1. PICK q \in cexpTypeCast(x, lv.type, FALSE) : r \in IF q.err = "ok" THEN F(q.y) ELSE {q}
  BY DEF cexpTVAssign, Then
<1>2. \A y : \A p \in F(y) : p.err \in {"ok", "error", "fault", "abort"}
  BY DEF Ok, Error, Fault
<1>3. q.err \in {"ok", "error"}
  BY CastTyped
<1> QED
  BY <1>1, <1>2, <1>3

\* The value of an expression and what is stored: the first is typed.
RetTyped(outcomes) ==
    \A r \in outcomes :
        /\ r.err \in {"ok", "error", "fault", "abort"}
        /\ r.err = "ok" => r.y.ret.type \in CexpTypes

LEMMA RetOk ==
    ASSUME NEW x, x.type \in CexpTypes, NEW y
    PROVE  RetTyped(Ok([ret |-> x, new |-> y]))
BY DEF RetTyped, Ok

\* A value is stored, and another is returned.
Storing(lv, y, x) == Then(cexpTVAssign(lv, y), LAMBDA z : Ok([ret |-> x, new |-> z]))

LEMMA StoredRet ==
    ASSUME NEW lv, NEW y, NEW x, x.type \in CexpTypes
    PROVE  RetTyped(Storing(lv, y, x))
<1> DEFINE F(z) == Ok([ret |-> x, new |-> z])
<1>1. \A z : RetTyped(F(z))
  BY RetOk
<1> HIDE DEF F
<1>2. RetTyped(Then(cexpTVAssign(lv, y), F))
  <2> SUFFICES ASSUME NEW r \in Then(cexpTVAssign(lv, y), F)
               PROVE  r.err \in {"ok", "error", "fault", "abort"}
                      /\ (r.err = "ok" => r.y.ret.type \in CexpTypes)
    BY DEF RetTyped
  <2>1. PICK q \in cexpTVAssign(lv, y) : r \in IF q.err = "ok" THEN F(q.y) ELSE {q}
    BY DEF Then
  <2>2. q.err \in {"ok", "error", "fault", "abort"}
    BY AssignEnds
  <2> QED
    BY <1>1, <2>1, <2>2 DEF RetTyped
<1> QED
  BY <1>2 DEF F, Storing

LEMMA SteppedTyped ==
    ASSUME NEW lv, lv.type \in CexpTypes, NEW op \in {"ONoop", "OAdd", "OSub"}, NEW post \in BOOLEAN
    PROVE  RetTyped(Stepped(lv, op, post))
<1> DEFINE S(x, y) == Storing(lv, y, IF post THEN x ELSE y)
           B(x) == Then(cexpTVBinOp(x, Value(TUChar, 1), op), LAMBDA y : S(x, y))
           F(x) == IF op = "ONoop" THEN Ok([ret |-> x, new |-> x]) ELSE B(x)
<1>1. Stepped(lv, op, post) = Then(cexpTA2TV(lv), F)
  BY DEF Stepped, Storing
<1>2. ASSUME NEW x, x.type \in CexpTypes, NEW y, y.type \in CexpTypes
      PROVE  RetTyped(S(x, y))
  BY <1>2, StoredRet
<1> HIDE DEF S
<1>3. ASSUME NEW x, x.type \in CexpTypes, op # "ONoop"
      PROVE  RetTyped(B(x))
  <2> SUFFICES ASSUME NEW r \in B(x)
               PROVE  r.err \in {"ok", "error", "fault", "abort"}
                      /\ (r.err = "ok" => r.y.ret.type \in CexpTypes)
    BY DEF RetTyped
  <2>1. PICK q \in cexpTVBinOp(x, Value(TUChar, 1), op) : r \in IF q.err = "ok" THEN S(x, q.y) ELSE {q}
    BY DEF Then
  <2>2. Typed(cexpTVBinOp(x, Value(TUChar, 1), op))
    <3>1. op \in BinOps /\ Value(TUChar, 1).type \in CexpTypes
      BY <1>3, TypesOf DEF BinOps, Value
    <3> QED
      BY <1>3, <3>1, BinOpTyped
  <2> QED
    BY <1>2, <1>3, <2>1, <2>2 DEF Typed, RetTyped
<1> HIDE DEF B
<1>4. ASSUME NEW x, x.type \in CexpTypes
      PROVE  RetTyped(F(x))
  BY <1>3, <1>4, RetOk
<1> HIDE DEF F
<1> SUFFICES ASSUME NEW r \in Then(cexpTA2TV(lv), F)
             PROVE  r.err \in {"ok", "error", "fault", "abort"}
                    /\ (r.err = "ok" => r.y.ret.type \in CexpTypes)
  BY <1>1 DEF RetTyped
<1>5. PICK q \in cexpTA2TV(lv) : r \in IF q.err = "ok" THEN F(q.y) ELSE {q}
  BY DEF Then
<1>6. Typed(cexpTA2TV(lv))
  BY ReadTyped
<1> QED
  BY <1>4, <1>5, <1>6 DEF Typed, RetTyped

\* The value that an assignment stores, before it is cast.
Assigned(lv, x, op) ==
    IF op = "ONoop" THEN Ok(x) ELSE Then(cexpTA2TV(lv), LAMBDA w : cexpTVBinOp(w, x, op))

\* The outcomes of an assignment.
Assigning(lv, x, op) ==
    Then(Assigned(lv, x, op), LAMBDA w :
      Then(cexpTVAssign(lv, w), LAMBDA y : Ok([ret |-> w, new |-> y])))

LEMMA AssignTyped ==
    ASSUME NEW lv, lv.type \in CexpTypes, NEW x, x.type \in CexpTypes,
           NEW op \in EvalOps \cup {"ONoop"}
    PROVE  RetTyped(Assigning(lv, x, op))
<1> DEFINE B(w) == cexpTVBinOp(w, x, op)
           F(w) == Storing(lv, w, w)
<1>1. ASSUME NEW w, w.type \in CexpTypes
      PROVE  RetTyped(F(w))
  BY <1>1, StoredRet
<1> HIDE DEF F
<1>2. Typed(Assigned(lv, x, op))
  <2>1. CASE op = "ONoop"
    BY <2>1, OkTyped DEF Assigned
  <2>2. CASE op # "ONoop"
    <3>1. op \in BinOps
      BY <2>2, LinesTyped
    <3>2. ASSUME NEW w, w.type \in CexpTypes
          PROVE  Typed(B(w))
      BY <3>1, <3>2, BinOpTyped
    <3> HIDE DEF B
    <3>3. Typed(Then(cexpTA2TV(lv), B))
      <4> SUFFICES ASSUME NEW r \in Then(cexpTA2TV(lv), B)
                   PROVE  r.err \in {"ok", "error", "fault", "abort"}
                          /\ (r.err = "ok" => r.y.type \in CexpTypes)
        BY DEF Typed
      <4>1. PICK q \in cexpTA2TV(lv) : r \in IF q.err = "ok" THEN B(q.y) ELSE {q}
        BY DEF Then
      <4>2. Typed(cexpTA2TV(lv))
        BY ReadTyped
      <4> QED
        BY <3>2, <4>1, <4>2 DEF Typed
    <3> QED
      BY <2>2, <3>3 DEF Assigned, B
  <2> QED
    BY <2>1, <2>2
<1>3. RetTyped(Then(Assigned(lv, x, op), F))
  <2> SUFFICES ASSUME NEW r \in Then(Assigned(lv, x, op), F)
               PROVE  r.err \in {"ok", "error", "fault", "abort"}
                      /\ (r.err = "ok" => r.y.ret.type \in CexpTypes)
    BY DEF RetTyped
  <2>1. PICK q \in Assigned(lv, x, op) : r \in IF q.err = "ok" THEN F(q.y) ELSE {q}
    BY DEF Then
  <2> QED
    BY <1>1, <1>2, <2>1 DEF Typed, RetTyped
<1> QED
  BY <1>3 DEF F, Storing, Assigning

LEMMA CallEnds ==
    ASSUME NEW fn, NEW args
    PROVE  \A r \in cexpTVFnCall(fn, args) : r.err \in {"ok", "error"}
BY DEF cexpTVFnCall, Ok, Error


-----------------------------------------------------------------------------
(* What a rule may do to the stack *)

Values(s, n) == \A i \in (Len(s) - n + 1)..Len(s) : s[i].k \notin {"or", "and"}

\* An entry that the parser may push while these names are kept.
EntryOK(e, names) ==
    /\ e.k \in {"val", "lval", "or", "and", "ident"}
    /\ e.k \in {"val", "lval"} => e.x.type \in CexpTypes
    /\ e.k = "ident" => e.name \in names

StackOK(s, names) == IsStack(s) /\ \A i \in DOMAIN s : EntryOK(s[i], names)

\* What an inhibited rule left over is in an operand that is skipped.
CleanStack(s) ==
    \A i \in DOMAIN s : s[i].k # "ident" /\ ~s[i].clean =>
        \E j \in 1..(i - 1) : Skips(s[j])

\* The rest of the type invariant.
RestOK ==
    /\ evalInhibit \in 0..(2^InhibitBits - 1) /\ lost \in BOOLEAN
    /\ Symbols \subseteq DOMAIN cells /\ DOMAIN cells \subseteq Variables
    /\ \A v \in DOMAIN cells : cells[v].type \in CexpTypes
    /\ lineStrTbl \subseteq UserNames
    /\ IsFiniteSet(lineStrTbl) /\ Cardinality(lineStrTbl) <= StrSlots

\* The inductive invariant.
IInv == WellFormed /\ CleanResults

LEMMA IInvParts ==
    IInv <=> /\ StackOK(stack, lineStrTbl) /\ RestOK
             /\ status \in {"parsing", "ok", "error", "fault", "abort"}
             /\ status # "parsing" => stack = <<>>
             /\ InhibitAgrees
             /\ ~lost => CleanStack(stack)
BY DEF IInv, WellFormed, TypeOK, CleanResults, StackOK, EntryOK, IsStack, CleanStack, RestOK

LEMMA StackPushed ==
    ASSUME NEW s, NEW a, StackOK(s, a), NEW b, a \subseteq b, NEW n, NEW e, NEW t,
           Rewrites(s, n, e, t), EntryOK(e, b)
    PROVE  StackOK(t, b)
<1>1. IsStack(s)
  BY DEF StackOK
<1>2. /\ IsStack(t) /\ Len(t) = Len(s) - n + 1 /\ t[Len(t)] = e
      /\ \A i \in 1..(Len(s) - n) : t[i] = s[i]
  BY <1>1, Replaced
<1>3. Len(s) \in Nat /\ DOMAIN s = 1..Len(s) /\ DOMAIN t = 1..Len(t) /\ Len(t) \in Nat /\ n \in 0..Len(s)
  BY <1>1, <1>2 DEF IsStack, Rewrites
<1>4. ASSUME NEW i \in DOMAIN t
      PROVE  EntryOK(t[i], b)
  <2>1. CASE i = Len(t)
    BY <1>2, <2>1
  <2>2. CASE i # Len(t)
    <3>1. i \in 1..(Len(s) - n) /\ i \in DOMAIN s
      BY <1>2, <1>3, <2>2
    <3>2. EntryOK(s[i], a) /\ t[i] = s[i]
      BY <1>2, <3>1 DEF StackOK
    <3> QED
      BY <3>2 DEF EntryOK
  <2> QED
    BY <2>1, <2>2
<1> QED
  BY <1>2, <1>4 DEF StackOK

LEMMA CleanPushed ==
    ASSUME NEW s, IsStack(s), CleanStack(s), NEW n, NEW e, NEW t, Rewrites(s, n, e, t),
           e.k # "ident" /\ ~e.clean => \E j \in 1..(Len(s) - n) : Skips(s[j])
    PROVE  CleanStack(t)
<1>1. /\ IsStack(t) /\ Len(t) = Len(s) - n + 1 /\ t[Len(t)] = e
      /\ \A i \in 1..(Len(s) - n) : t[i] = s[i]
  BY Replaced
<1>2. Len(s) \in Nat /\ DOMAIN s = 1..Len(s) /\ DOMAIN t = 1..Len(t) /\ Len(t) \in Nat /\ n \in 0..Len(s)
  BY <1>1 DEF IsStack, Rewrites
<1> SUFFICES ASSUME NEW i \in DOMAIN t, t[i].k # "ident" /\ ~t[i].clean
             PROVE  \E j \in 1..(i - 1) : Skips(t[j])
  BY DEF CleanStack
<1>3. CASE i = Len(t)
  <2>1. PICK j \in 1..(Len(s) - n) : Skips(s[j])
    BY <1>1, <1>3
  <2>2. j \in 1..(i - 1) /\ t[j] = s[j]
    BY <1>1, <1>2, <1>3, <2>1
  <2> QED
    BY <2>1, <2>2
<1>4. CASE i # Len(t)
  <2>1. i \in 1..(Len(s) - n) /\ i \in DOMAIN s
    BY <1>1, <1>2, <1>4
  <2>2. s[i].k # "ident" /\ ~s[i].clean
    BY <1>1, <2>1
  <2>3. PICK j \in 1..(i - 1) : Skips(s[j])
    BY <2>1, <2>2 DEF CleanStack
  <2>4. t[j] = s[j]
    BY <1>1, <1>2, <2>1
  <2> QED
    BY <2>3, <2>4
<1> QED
  BY <1>3, <1>4

\* What is skipped is below a value that an inhibited rule left over, and below
\* one that is left over now.
LEMMA SkippedBelow ==
    ASSUME IInv, ~lost, status = "parsing", NEW n \in 0..Len(stack), Values(stack, n),
           ~EVAL \/ \E i \in (Len(stack) - n + 1)..Len(stack) : stack[i].k # "ident" /\ ~stack[i].clean
    PROVE  \E j \in 1..(Len(stack) - n) : Skips(stack[j])
<1>1. IsStack(stack) /\ CleanStack(stack) /\ InhibitAgrees
  BY IInvParts DEF StackOK
<1>2. Len(stack) \in Nat /\ DOMAIN stack = 1..Len(stack)
  BY <1>1 DEF IsStack
<1>3. \A e : Skips(e) => e.k \in {"or", "and"}
  BY DEF Skips
<1>4. ASSUME NEW j \in 1..Len(stack), Skips(stack[j])
      PROVE  j \in 1..(Len(stack) - n)
  <2>1. j \notin (Len(stack) - n + 1)..Len(stack)
    BY <1>3, <1>4 DEF Values
  <2> QED
    BY <1>2, <2>1
<1>5. CASE ~EVAL
  <2>1. SkipBits(stack) # 0
    BY <1>1, <1>5 DEF EVAL, InhibitAgrees
  <2>2. PICK j \in DOMAIN stack : Skips(stack[j])
    BY <1>1, <2>1, SomeBit
  <2> QED
    BY <1>2, <1>4, <2>2
<1>6. CASE \E i \in (Len(stack) - n + 1)..Len(stack) : stack[i].k # "ident" /\ ~stack[i].clean
  <2>1. PICK i \in (Len(stack) - n + 1)..Len(stack) : stack[i].k # "ident" /\ ~stack[i].clean
    BY <1>6
  <2>2. i \in 1..Len(stack)
    BY <1>2, <2>1
  <2>3. PICK j \in 1..(i - 1) : Skips(stack[j])
    BY <1>1, <1>2, <2>1, <2>2 DEF CleanStack
  <2>4. j \in 1..Len(stack)
    BY <1>2, <2>2, <2>3
  <2> QED
    BY <1>4, <2>3, <2>4
<1> QED
  BY <1>5, <1>6

\* n entries are replaced by a value, a variable or a name.
Pushes(n, e) ==
    /\ status = "parsing" /\ status' = "parsing"
    /\ Values(stack, n) /\ Rewrites(stack, n, e, stack')
    /\ e.k \in {"val", "lval", "ident"} /\ EntryOK(e, lineStrTbl') /\ lineStrTbl \subseteq lineStrTbl'
    /\ e.k # "ident" /\ ~e.clean =>
         ~EVAL \/ \E i \in (Len(stack) - n + 1)..Len(stack) : stack[i].k # "ident" /\ ~stack[i].clean
    /\ UNCHANGED <<evalInhibit, lost>>

\* An error ends the line.
Ends == stack' = <<>> /\ status' \in {"error", "fault", "abort"}

StackStep == Ends \/ \E n, e : Pushes(n, e)

LEMMA EmptyStack ==
    /\ \A names : StackOK(<<>>, names)
    /\ CleanStack(<<>>) /\ SkipBits(<<>>) = 0 /\ Marks(<<>>) = 0
<1>1. IsStack(<<>>) /\ DOMAIN <<>> = {}
  BY DEF IsStack
<1>2. {i \in DOMAIN <<>> : <<>>[i].k \in {"or", "and"}} = {}
  BY <1>1
<1>3. Marks(<<>>) = 0
  BY <1>2, FS_EmptySet DEF Marks
<1>4. SkipBits(<<>>) = 0
  BY <1>1, SomeBit
<1> QED
  BY <1>1, <1>3, <1>4 DEF StackOK, CleanStack

LEMMA PushesKeeps ==
    ASSUME IInv, NEW n, NEW e, Pushes(n, e)
    PROVE  /\ StackOK(stack', lineStrTbl') /\ InhibitAgrees'
           /\ ~lost' => CleanStack(stack')
<1>1. StackOK(stack, lineStrTbl) /\ IsStack(stack) /\ InhibitAgrees /\ (~lost => CleanStack(stack))
  BY IInvParts DEF StackOK
<1>2. Rewrites(stack, n, e, stack') /\ Values(stack, n) /\ n \in 0..Len(stack)
  BY DEF Pushes, Rewrites
<1>3. StackOK(stack', lineStrTbl')
  BY <1>1, <1>2, StackPushed DEF Pushes
<1>4. InhibitAgrees'
  <2>1. e.k \notin {"or", "and"}
    BY DEF Pushes
  <2>2. SkipBits(stack') = SkipBits(stack)
    BY <1>1, <1>2, <2>1, ReplacedBits DEF Values
  <2>3. Marks(stack) \in Nat /\ Marks(stack') \in Nat /\ Marks(stack') <= Marks(stack)
    BY <1>1, <1>2, <2>1, ReplacedMarks
  <2>4. ~lost => evalInhibit = SkipBits(stack) /\ Marks(stack) <= InhibitBits
    BY <1>1 DEF InhibitAgrees, Pushes
  <2>5. ~lost' => evalInhibit' = SkipBits(stack') /\ Marks(stack') <= InhibitBits
    BY <2>2, <2>3, <2>4, BoundsOK DEF Pushes
  <2> QED
    BY <2>5 DEF InhibitAgrees
<1>5. ~lost' => CleanStack(stack')
  <2> SUFFICES ASSUME ~lost
               PROVE  CleanStack(stack')
    BY DEF Pushes
  <2>1. e.k # "ident" /\ ~e.clean => \E j \in 1..(Len(stack) - n) : Skips(stack[j])
    BY <1>2, SkippedBelow DEF Pushes
  <2> QED
    BY <1>1, <1>2, <2>1, CleanPushed
<1> QED
  BY <1>3, <1>4, <1>5

LEMMA EndsKeeps ==
    ASSUME Ends
    PROVE  StackOK(stack', lineStrTbl') /\ InhibitAgrees' /\ CleanStack(stack')
<1>1. stack' = <<>> /\ status' # "parsing"
  BY DEF Ends
<1>2. InhibitAgrees'
  BY <1>1 DEF InhibitAgrees
<1> QED
  BY <1>1, <1>2, EmptyStack

\* A step that does this to the stack and nothing wrong to the rest is right.
LEMMA StepKeeps ==
    ASSUME IInv, StackStep, RestOK'
    PROVE  IInv'
<1>1. /\ StackOK(stack', lineStrTbl') /\ InhibitAgrees'
      /\ ~lost' => CleanStack(stack')
  BY PushesKeeps, EndsKeeps DEF StackStep
<1>2. status' \in {"parsing", "ok", "error", "fault", "abort"} /\ (status' # "parsing" => stack' = <<>>)
  BY DEF StackStep, Ends, Pushes
<1> QED
  BY <1>1, <1>2
     DEF IInv, WellFormed, TypeOK, CleanResults, StackOK, EntryOK, IsStack, CleanStack, RestOK

-----------------------------------------------------------------------------
(* The rules *)

LEMMA KindIs ==
    ASSUME IInv, NEW i \in Nat, NEW k, k # "none", Kind(i) = k
    PROVE  /\ i < Len(stack) /\ Len(stack) - i \in 1..Len(stack) /\ Len(stack) \in Nat
           /\ Entry(i).k = k /\ Entry(i) = stack[Len(stack) - i]
           /\ EntryOK(Entry(i), lineStrTbl)
<1>1. StackOK(stack, lineStrTbl)
  BY IInvParts
<1>2. Len(stack) \in Nat /\ DOMAIN stack = 1..Len(stack)
  BY <1>1 DEF StackOK, IsStack
<1>3. i < Len(stack) /\ Entry(i).k = k
  BY DEF Kind
<1>4. Len(stack) - i \in 1..Len(stack)
  BY <1>2, <1>3
<1> QED
  BY <1>1, <1>2, <1>3, <1>4 DEF Entry, StackOK

LEMMA PushValue ==
    ASSUME IInv, NEW n \in 0..Len(stack),
           \A i \in 0..(n - 1) : Entry(i).k \in {"val", "lval", "ident"},
           NEW e, e.k \in {"val", "lval", "ident"}, EntryOK(e, lineStrTbl'),
           lineStrTbl \subseteq lineStrTbl', status = "parsing", status' = "parsing",
           stack' = Append(Under(n), e), UNCHANGED <<evalInhibit, lost>>,
           e.k # "ident" /\ ~e.clean =>
             ~EVAL \/ \E i \in 0..(n - 1) : Entry(i).k # "ident" /\ ~Entry(i).clean
    PROVE  StackStep
<1>1. Len(stack) \in Nat
  BY IInvParts DEF StackOK, IsStack
<1>2. Values(stack, n)
  <2> SUFFICES ASSUME NEW j \in (Len(stack) - n + 1)..Len(stack)
               PROVE  stack[j].k \notin {"or", "and"}
    BY DEF Values
  <2>1. Len(stack) - j \in 0..(n - 1) /\ Len(stack) - (Len(stack) - j) = j
    BY <1>1
  <2>2. Entry(Len(stack) - j) = stack[j]
    BY <2>1 DEF Entry
  <2> QED
    BY <2>1, <2>2
<1>3. Rewrites(stack, n, e, stack')
  BY DEF Rewrites, Under
<1>4. ASSUME NEW i \in 0..(n - 1), Entry(i).k # "ident", ~Entry(i).clean
      PROVE  \E j \in (Len(stack) - n + 1)..Len(stack) : stack[j].k # "ident" /\ ~stack[j].clean
  <2>1. Len(stack) - i \in (Len(stack) - n + 1)..Len(stack) /\ Entry(i) = stack[Len(stack) - i]
    BY <1>1 DEF Entry
  <2> QED
    BY <1>4, <2>1
<1>5. Pushes(n, e)
  BY <1>2, <1>3, <1>4 DEF Pushes
<1> QED
  BY <1>5 DEF StackStep

LEMMA RestUnchanged ==
    ASSUME IInv, UNCHANGED <<evalInhibit, lost, cells, lineStrTbl>>
    PROVE  RestOK'
BY IInvParts DEF RestOK

LEMMA ShiftKeeps ==
    ASSUME IInv, NEW e, Shift(e), e.k \in {"val", "lval", "ident"}, e.k # "ident" => e.clean,
           EntryOK(e, lineStrTbl'), lineStrTbl \subseteq lineStrTbl'
    PROVE  StackStep
<1>1. IsStack(stack) /\ Len(stack) \in Nat
  BY IInvParts DEF StackOK, IsStack
<1>2. Under(0) = stack
  <2>1. Len(stack) - 0 = Len(stack)
    BY <1>1
  <2> QED
    BY <1>1, <2>1, SubSeqFull DEF Under, IsStack
<1>3. 0 \in 0..Len(stack) /\ \A i \in 0..(0 - 1) : FALSE
  BY <1>1
<1>4. stack' = Append(Under(0), e) /\ status = "parsing" /\ status' = "parsing"
      /\ UNCHANGED <<evalInhibit, lost>>
  BY <1>2 DEF Shift, Parsing
<1> QED
  BY <1>3, <1>4, PushValue

LEMMA NumberKeeps == ASSUME IInv, Number PROVE IInv'
<1>1. PICK x \in Literals : Shift(Val(x, TRUE))
  BY DEF Number
<1>2. UNCHANGED <<evalInhibit, lost, cells, lineStrTbl>>
  BY <1>1 DEF Number, Shift
<1>3. Val(x, TRUE).k = "val" /\ Val(x, TRUE).clean /\ EntryOK(Val(x, TRUE), lineStrTbl')
  BY LinesTyped DEF Val, EntryOK
<1>4. StackStep
  BY <1>1, <1>2, <1>3, ShiftKeeps
<1> QED
  BY <1>2, <1>4, RestUnchanged, StepKeeps

LEMMA VariableKeeps == ASSUME IInv, Variable PROVE IInv'
<1>1. PICK v \in DOMAIN cells : Shift(Lval(cells[v].type, Address[v], TRUE))
  BY DEF Variable
<1> DEFINE e == Lval(cells[v].type, Address[v], TRUE)
<1>2. UNCHANGED <<evalInhibit, lost, cells, lineStrTbl>>
  BY <1>1 DEF Variable, Shift
<1>3. cells[v].type \in CexpTypes
  BY IInvParts DEF RestOK
<1>4. e.k = "lval" /\ e.clean /\ EntryOK(e, lineStrTbl')
  BY <1>3 DEF Lval, Value, EntryOK
<1> HIDE DEF e
<1>5. StackStep
  BY <1>1, <1>2, <1>4, ShiftKeeps DEF e
<1> QED
  BY <1>2, <1>5, RestUnchanged, StepKeeps

LEMMA IdentKeeps == ASSUME IInv, Ident PROVE IInv'
<1>1. PICK n \in UserNames \ DOMAIN cells :
        /\ n \in lineStrTbl \/ Cardinality(lineStrTbl) < StrSlots
        /\ lineStrTbl' = lineStrTbl \cup {n}
        /\ Shift(Name(n))
  BY DEF Ident
<1>2. UNCHANGED <<evalInhibit, lost, cells>>
  BY <1>1 DEF Shift
<1>3. Name(n).k = "ident" /\ EntryOK(Name(n), lineStrTbl') /\ lineStrTbl \subseteq lineStrTbl'
  BY <1>1 DEF Name, EntryOK
<1>4. StackStep
  BY <1>1, <1>3, ShiftKeeps
<1>5. IsFiniteSet(lineStrTbl') /\ Cardinality(lineStrTbl') <= StrSlots
  <2>1. IsFiniteSet(lineStrTbl) /\ Cardinality(lineStrTbl) <= StrSlots
    BY IInvParts DEF RestOK
  <2>2. CASE n \in lineStrTbl
    <3>1. lineStrTbl' = lineStrTbl
      BY <1>1, <2>2
    <3> QED
      BY <2>1, <3>1
  <2>3. CASE n \notin lineStrTbl
    <3>1. IsFiniteSet(lineStrTbl') /\ Cardinality(lineStrTbl') = Cardinality(lineStrTbl) + 1
      BY <1>1, <2>1, <2>3, FS_AddElement
    <3>2. Cardinality(lineStrTbl) \in Nat
      BY <2>1, FS_CardinalityType
    <3> QED
      BY <1>1, <2>3, <3>1, <3>2, BoundsOK
  <2> QED
    BY <2>2, <2>3
<1>6. lineStrTbl' \subseteq UserNames
  BY <1>1, IInvParts DEF RestOK
<1>7. RestOK'
  BY <1>2, <1>5, <1>6, IInvParts DEF RestOK
<1> QED
  BY <1>4, <1>7, StepKeeps

\* A rule that replaces n values by what an operation returns.
LEMMA ResultKeeps ==
    ASSUME IInv, NEW n \in 0..Len(stack),
           \A i \in 0..(n - 1) : Entry(i).k \in {"val", "lval"},
           NEW r, Result(n, r, Clean(n)), r.err \in {"ok", "error", "fault", "abort"},
           r.err = "ok" => r.y.type \in CexpTypes, status = "parsing",
           UNCHANGED <<evalInhibit, lost, lineStrTbl>>
    PROVE  StackStep
<1>1. CASE r.err # "ok"
  BY <1>1 DEF Result, GiveUp, StackStep, Ends
<1>2. CASE r.err = "ok"
  <2> DEFINE e == Val(r.y, Clean(n))
  <2>1. stack' = Append(Under(n), e) /\ status' = "parsing"
    BY <1>2 DEF Result
  <2>2. e.k = "val" /\ e.clean = Clean(n) /\ EntryOK(e, lineStrTbl')
    BY <1>2 DEF Val, EntryOK
  <2>3. ~e.clean => \E i \in 0..(n - 1) : Entry(i).k # "ident" /\ ~Entry(i).clean
    <3> HIDE DEF e
    <3> QED
      BY <2>2 DEF Clean
  <2> HIDE DEF e
  <2> QED
    BY <2>1, <2>2, <2>3, PushValue
<1> QED
  BY <1>1, <1>2

LEMMA ReduceKeeps ==
    ASSUME IInv, NEW n \in 0..Len(stack), NEW outcomes, Reduce(n, outcomes),
           \A i \in 0..(n - 1) : Entry(i).k \in {"val", "lval"}, Typed(outcomes)
    PROVE  IInv'
<1>1. PICK r \in outcomes : Result(n, r, Clean(n))
  BY DEF Reduce
<1>2. r.err \in {"ok", "error", "fault", "abort"} /\ (r.err = "ok" => r.y.type \in CexpTypes)
  BY DEF Typed
<1>3. status = "parsing" /\ UNCHANGED <<evalInhibit, lost, cells, lineStrTbl>>
  BY DEF Reduce, Parsing
<1>4. StackStep
  BY <1>1, <1>2, <1>3, ResultKeeps
<1> QED
  BY <1>3, <1>4, RestUnchanged, StepKeeps


\* The top entry, or the top two.
LEMMA TopValue ==
    ASSUME IInv, NEW k \in {"val", "lval"}, Kind(0) = k
    PROVE  /\ 1 \in 0..Len(stack) /\ \A i \in 0..(1 - 1) : Entry(i).k \in {"val", "lval"}
           /\ Entry(0).x.type \in CexpTypes /\ Entry(0).k = k /\ EntryOK(Entry(0), lineStrTbl)
<1>1. 0 < Len(stack) /\ Len(stack) \in Nat /\ Entry(0).k = k /\ EntryOK(Entry(0), lineStrTbl)
  BY KindIs
<1> QED
  BY <1>1 DEF EntryOK

LEMMA TopTwo ==
    ASSUME IInv, Kind(0) = "val", NEW k \in {"val", "lval", "ident", "or", "and"}, Kind(1) = k
    PROVE  /\ 2 \in 0..Len(stack) /\ \A i \in 0..(2 - 1) : i = 0 \/ i = 1
           /\ Entry(0).k = "val" /\ Entry(1).k = k
           /\ Entry(0).x.type \in CexpTypes /\ (k \in {"val", "lval"} => Entry(1).x.type \in CexpTypes)
           /\ EntryOK(Entry(0), lineStrTbl) /\ EntryOK(Entry(1), lineStrTbl)
<1>1. Entry(0).k = "val" /\ EntryOK(Entry(0), lineStrTbl)
  BY KindIs
<1>2. 1 < Len(stack) /\ Len(stack) \in Nat /\ Entry(1).k = k /\ EntryOK(Entry(1), lineStrTbl)
  BY KindIs
<1> QED
  BY <1>1, <1>2 DEF EntryOK

LEMMA AddressOfKeeps == ASSUME IInv, AddressOf PROVE IInv'
<1>1. PICK v \in DOMAIN cells : Reduce(0, cexpTVPtr(v))
  BY DEF AddressOf
<1>2. cells[v].type \in CexpTypes
  BY IInvParts DEF RestOK
<1>3. BASE2PTR(cells[v].type) \in CexpTypes
  BY <1>2, TypesOf
<1>4. Typed(Ok(Value(BASE2PTR(cells[v].type), Address[v])))
  BY <1>3, OkTyped DEF Value
<1>5. Typed(cexpTVPtr(v))
  BY <1>4, ErrorsTyped DEF cexpTVPtr
<1>6. 0 \in 0..Len(stack) /\ \A i \in 0..(0 - 1) : FALSE
  BY IInvParts DEF StackOK, IsStack
<1> QED
  BY <1>1, <1>5, <1>6, ReduceKeeps

LEMMA DerefKeeps == ASSUME IInv, Deref PROVE IInv'
<1> DEFINE x == Entry(0).x
           e == Lval(PTR2BASE(x.type), x.v, Entry(0).clean)
<1>1. Kind(0) = "val" /\ status = "parsing" /\ UNCHANGED <<evalInhibit, lost, cells, lineStrTbl>>
      /\ (GiveUp("error") \/ (stack' = Append(Under(1), e) /\ status' = status))
  BY DEF Deref, Parsing
<1>2. /\ 1 \in 0..Len(stack) /\ \A i \in 0..(1 - 1) : Entry(i).k \in {"val", "lval"}
      /\ x.type \in CexpTypes /\ Entry(0).k = "val"
  BY <1>1, TopValue
<1>3. StackStep
  <2>1. CASE GiveUp("error")
    BY <2>1 DEF GiveUp, StackStep, Ends
  <2>2. CASE stack' = Append(Under(1), e) /\ status' = status
    <3>1. PTR2BASE(x.type) \in CexpTypes
      BY <1>2, TypesOf
    <3>2. e.k = "lval" /\ e.clean = Entry(0).clean /\ EntryOK(e, lineStrTbl')
      BY <3>1 DEF Lval, Value, EntryOK
    <3>3. 0 \in 0..(1 - 1)
      OBVIOUS
    <3> HIDE DEF e
    <3>4. e.k \in {"val", "lval", "ident"} /\ status' = "parsing" /\ lineStrTbl \subseteq lineStrTbl'
      BY <1>1, <2>2, <3>2
    <3> QED
      BY <1>1, <1>2, <2>2, <3>2, <3>3, <3>4, PushValue
  <2> QED
    BY <1>1, <2>1, <2>2
<1> QED
  BY <1>1, <1>3, RestUnchanged, StepKeeps

LEMMA CommaKeeps == ASSUME IInv, Comma PROVE IInv'
<1>1. Kind(0) = "val" /\ Kind(1) = "val" /\ status = "parsing"
      /\ UNCHANGED <<evalInhibit, lost, cells, lineStrTbl, status>>
      /\ stack' = Append(Under(2), Entry(0))
  BY DEF Comma, Parsing
<1>2. /\ 2 \in 0..Len(stack) /\ \A i \in 0..(2 - 1) : i = 0 \/ i = 1
      /\ Entry(0).k = "val" /\ Entry(1).k = "val" /\ EntryOK(Entry(0), lineStrTbl)
  BY <1>1, TopTwo
<1>3. 0 \in 0..(2 - 1)
  OBVIOUS
<1>4. StackStep
  BY <1>1, <1>2, <1>3, PushValue
<1> QED
  BY <1>1, <1>4, RestUnchanged, StepKeeps

LEMMA BinOpKeeps == ASSUME IInv, BinOp PROVE IInv'
<1>1. PICK op \in EvalOps : /\ Kind(0) = "val" /\ Kind(1) = "val"
                            /\ Reduce(2, cexpTVBinOp(Entry(1).x, Entry(0).x, op))
  BY DEF BinOp
<1>2. /\ 2 \in 0..Len(stack) /\ \A i \in 0..(2 - 1) : i = 0 \/ i = 1
      /\ Entry(0).k = "val" /\ Entry(1).k = "val"
      /\ Entry(0).x.type \in CexpTypes /\ Entry(1).x.type \in CexpTypes
  BY <1>1, TopTwo
<1>3. op \in BinOps
  BY LinesTyped
<1>4. Typed(cexpTVBinOp(Entry(1).x, Entry(0).x, op))
  BY <1>2, <1>3, BinOpTyped
<1> QED
  BY <1>1, <1>2, <1>4, ReduceKeeps

LEMMA UnOpKeeps == ASSUME IInv, UnOp PROVE IInv'
<1>1. PICK op \in {"OCpl", "ONeg"} : Kind(0) = "val" /\ Reduce(1, cexpTVUnOp(Entry(0).x, op))
  BY DEF UnOp
<1>2. Typed(cexpTVUnOp(Entry(0).x, op))
  BY <1>1, TopValue, UnOpTyped
<1> QED
  BY <1>1, <1>2, TopValue, ReduceKeeps

LEMMA NotKeeps == ASSUME IInv, Not PROVE IInv'
<1> DEFINE F(t) == Ok(Truth(t.v = 0))
<1>1. Kind(0) = "val" /\ Reduce(1, Then(cexpTVTrueQ(Entry(0).x), F))
  BY DEF Not
<1>2. \A t : Typed(F(t))
  <2>1. \A c : Truth(c).type \in CexpTypes
    BY TypesOf DEF Truth, Value
  <2> QED
    BY <2>1, OkTyped
<1> HIDE DEF F
<1>3. Typed(Then(cexpTVTrueQ(Entry(0).x), F))
  <2> SUFFICES ASSUME NEW r \in Then(cexpTVTrueQ(Entry(0).x), F)
               PROVE  r.err \in {"ok", "error", "fault", "abort"}
                      /\ (r.err = "ok" => r.y.type \in CexpTypes)
    BY DEF Typed
  <2>1. PICK q \in cexpTVTrueQ(Entry(0).x) : r \in IF q.err = "ok" THEN F(q.y) ELSE {q}
    BY DEF Then
  <2>2. q.err \in {"ok", "abort"}
    BY TrueTyped
  <2> QED
    BY <1>2, <2>1, <2>2 DEF Typed
<1> DEFINE O == Then(cexpTVTrueQ(Entry(0).x), F)
<1>4. Reduce(1, O) /\ Typed(O)
  BY <1>1, <1>3
<1> HIDE DEF O
<1> QED
  BY <1>1, <1>4, TopValue, ReduceKeeps

LEMMA CastKeeps == ASSUME IInv, Cast PROVE IInv'
<1>1. PICK t \in EvalTypes : Kind(0) = "val" /\ Reduce(1, cexpTypeCast(Entry(0).x, t, TRUE))
  BY DEF Cast
<1>2. t \in CexpTypes
  BY LinesTyped
<1>3. Typed(cexpTypeCast(Entry(0).x, t, TRUE))
  BY <1>2, CastTypes
<1> QED
  BY <1>1, <1>3, TopValue, ReduceKeeps


\* A variable that is stored to keeps its type.
LEMMA StoredTypes ==
    ASSUME IInv, UNCHANGED <<evalInhibit, lost, lineStrTbl>>,
           cells' = cells \/ \E a, y : cells' = Stored(a, y)
    PROVE  RestOK'
<1>1. RestOK
  BY IInvParts
<1>2. DOMAIN cells' = DOMAIN cells /\ \A v \in DOMAIN cells : cells'[v].type = cells[v].type
  <2>1. CASE cells' = cells
    BY <2>1
  <2>2. CASE \E a, y : cells' = Stored(a, y)
    <3>1. PICK a, y : cells' = Stored(a, y)
      BY <2>2
    <3> QED
      BY <3>1 DEF Stored, Cell
  <2> QED
    BY <2>1, <2>2
<1> QED
  BY <1>1, <1>2 DEF RestOK

LEMMA ReadKeeps == ASSUME IInv, Read PROVE IInv'
<1>1. PICK op \in {"ONoop", "OAdd", "OSub"}, post \in BOOLEAN :
        /\ Kind(0) = "lval" /\ Parsing
        /\ IF EVAL
             THEN \E r \in Stepped(Entry(0).x, op, post) :
                IF r.err = "ok"
                  THEN /\ stack' = Append(Under(1), Val(r.y.ret, Entry(0).clean))
                       /\ cells' = IF op = "ONoop" THEN cells ELSE Stored(Entry(0).x.v, r.y.new)
                       /\ status' = status
                  ELSE GiveUp(r.err) /\ cells' = cells
             ELSE /\ \E x \in Leftover(Entry(0).x, op) : stack' = Append(Under(1), Val(x, FALSE))
                  /\ UNCHANGED <<cells, status>>
        /\ UNCHANGED <<evalInhibit, lost, lineStrTbl, calls, rval>>
  BY DEF Read
<1> DEFINE lv == Entry(0).x
<1>2. /\ 1 \in 0..Len(stack) /\ \A i \in 0..(1 - 1) : Entry(i).k \in {"val", "lval"}
      /\ lv.type \in CexpTypes /\ Entry(0).k = "lval"
  BY <1>1, TopValue
<1>3. status = "parsing" /\ UNCHANGED <<evalInhibit, lost, lineStrTbl>>
  BY <1>1 DEF Parsing
<1>4. 0 \in 0..(1 - 1)
  OBVIOUS
<1>5. CASE EVAL
  <2>1. PICK r \in Stepped(lv, op, post) :
          IF r.err = "ok"
            THEN /\ stack' = Append(Under(1), Val(r.y.ret, Entry(0).clean))
                 /\ cells' = IF op = "ONoop" THEN cells ELSE Stored(lv.v, r.y.new)
                 /\ status' = status
            ELSE GiveUp(r.err) /\ cells' = cells
    BY <1>1, <1>5
  <2>2. r.err \in {"ok", "error", "fault", "abort"} /\ (r.err = "ok" => r.y.ret.type \in CexpTypes)
    BY <1>2, SteppedTyped DEF RetTyped
  <2>3. RestOK'
    BY <1>3, <2>1, StoredTypes
  <2>4. CASE r.err # "ok"
    <3>1. StackStep
      BY <2>1, <2>2, <2>4 DEF GiveUp, StackStep, Ends
    <3> QED
      BY <2>3, <3>1, StepKeeps
  <2>5. CASE r.err = "ok"
    <3> DEFINE e == Val(r.y.ret, Entry(0).clean)
    <3>1. e.k = "val" /\ e.clean = Entry(0).clean /\ EntryOK(e, lineStrTbl')
      BY <2>2, <2>5 DEF Val, EntryOK
    <3>2. stack' = Append(Under(1), e) /\ status' = "parsing" /\ lineStrTbl \subseteq lineStrTbl'
      BY <1>3, <2>1, <2>5
    <3> HIDE DEF e
    <3>3. StackStep
      BY <1>2, <1>3, <1>4, <3>1, <3>2, PushValue
    <3> QED
      BY <2>3, <3>3, StepKeeps
  <2> QED
    BY <2>4, <2>5
<1>6. CASE ~EVAL
  <2>1. PICK x \in Leftover(lv, op) : stack' = Append(Under(1), Val(x, FALSE))
    BY <1>1, <1>6
  <2>2. UNCHANGED <<cells, status>>
    BY <1>1, <1>6
  <2>3. x.type \in CexpTypes
    BY <1>2, TypesOf DEF Leftover, Value, Bases, Floating
  <2> DEFINE e == Val(x, FALSE)
  <2>4. e.k = "val" /\ EntryOK(e, lineStrTbl')
    BY <2>3 DEF Val, EntryOK
  <2>5. stack' = Append(Under(1), e) /\ status' = "parsing" /\ lineStrTbl \subseteq lineStrTbl'
    BY <1>3, <2>1, <2>2
  <2> HIDE DEF e
  <2>6. StackStep
    BY <1>2, <1>3, <1>6, <2>4, <2>5, PushValue
  <2> QED
    BY <1>3, <2>2, <2>6, RestUnchanged, StepKeeps
<1> QED
  BY <1>5, <1>6

LEMMA AssignKeeps == ASSUME IInv, Assign PROVE IInv'
<1>1. PICK op \in EvalOps \cup {"ONoop"} :
        /\ Kind(0) = "val" /\ Kind(1) = "lval" /\ Parsing
        /\ IF EVAL
             THEN \E r \in Assigning(Entry(1).x, Entry(0).x, op) :
                IF r.err = "ok"
                  THEN /\ stack' = Append(Under(2), Val(r.y.ret, Clean(2)))
                       /\ cells' = Stored(Entry(1).x.v, r.y.new)
                       /\ status' = status
                  ELSE GiveUp(r.err) /\ cells' = cells
             ELSE /\ IF op = "ONoop" THEN stack' = Append(Under(2), Entry(0))
                     ELSE \E x \in Leftover(Entry(1).x, "ONoop") :
                            stack' = Append(Under(2), Val(x, FALSE))
                  /\ UNCHANGED <<cells, status>>
        /\ UNCHANGED <<evalInhibit, lost, lineStrTbl, calls, rval>>
  BY DEF Assign, Assigned, Assigning
<1> DEFINE lv == Entry(1).x
           O == Assigning(lv, Entry(0).x, op)
<1>2. /\ 2 \in 0..Len(stack) /\ \A i \in 0..(2 - 1) : i = 0 \/ i = 1
      /\ Entry(0).k = "val" /\ Entry(1).k = "lval"
      /\ Entry(0).x.type \in CexpTypes /\ lv.type \in CexpTypes /\ EntryOK(Entry(0), lineStrTbl)
  BY <1>1, TopTwo
<1>3. status = "parsing" /\ UNCHANGED <<evalInhibit, lost, lineStrTbl>>
  BY <1>1 DEF Parsing
<1>4. 0 \in 0..(2 - 1) /\ 1 \in 0..(2 - 1)
  OBVIOUS
<1>5. CASE EVAL
  <2>1. PICK r \in O :
          IF r.err = "ok"
            THEN /\ stack' = Append(Under(2), Val(r.y.ret, Clean(2)))
                 /\ cells' = Stored(lv.v, r.y.new)
                 /\ status' = status
            ELSE GiveUp(r.err) /\ cells' = cells
    BY <1>1, <1>5
  <2>2. RetTyped(O)
    BY <1>2, AssignTyped
  <2> HIDE DEF O
  <2>3. r.err \in {"ok", "error", "fault", "abort"} /\ (r.err = "ok" => r.y.ret.type \in CexpTypes)
    BY <2>2 DEF RetTyped
  <2>4. RestOK'
    BY <1>3, <2>1, StoredTypes
  <2>5. CASE r.err # "ok"
    <3>1. StackStep
      BY <2>1, <2>3, <2>5 DEF GiveUp, StackStep, Ends
    <3> QED
      BY <2>4, <3>1, StepKeeps
  <2>6. CASE r.err = "ok"
    <3> DEFINE e == Val(r.y.ret, Clean(2))
    <3>1. e.k = "val" /\ e.clean = Clean(2) /\ EntryOK(e, lineStrTbl')
      BY <2>3, <2>6 DEF Val, EntryOK
    <3>2. stack' = Append(Under(2), e) /\ status' = "parsing" /\ lineStrTbl \subseteq lineStrTbl'
      BY <1>3, <2>1, <2>6
    <3> HIDE DEF e
    <3>3. ~e.clean => \E i \in 0..(2 - 1) : Entry(i).k # "ident" /\ ~Entry(i).clean
      BY <1>2, <3>1 DEF Clean
    <3>4. StackStep
      BY <1>2, <1>3, <3>1, <3>2, <3>3, PushValue
    <3> QED
      BY <2>4, <3>4, StepKeeps
  <2> QED
    BY <2>5, <2>6
<1>6. CASE ~EVAL
  <2> HIDE DEF O
  <2>1. PICK e : stack' = Append(Under(2), e) /\ (e = Entry(0) \/ \E x \in Leftover(lv, "ONoop") : e = Val(x, FALSE))
    BY <1>1, <1>6
  <2>2. UNCHANGED <<cells, status>>
    BY <1>1, <1>6
  <2>3. \A x \in Leftover(lv, "ONoop") : x.type \in CexpTypes
    BY <1>2, TypesOf DEF Leftover, Value
  <2>4. e.k = "val" /\ EntryOK(e, lineStrTbl')
    BY <1>2, <1>3, <2>1, <2>3 DEF Val, EntryOK
  <2>5. status' = "parsing" /\ lineStrTbl \subseteq lineStrTbl'
    BY <1>3, <2>2
  <2>6. StackStep
    BY <1>2, <1>3, <1>6, <2>1, <2>4, <2>5, PushValue
  <2> QED
    BY <1>3, <2>2, <2>6, RestUnchanged, StepKeeps
<1> QED
  BY <1>5, <1>6


\* A name that is kept becomes a variable.
LEMMA CreatedTypes ==
    ASSUME IInv, NEW n \in UserNames, NEW t \in CexpTypes, DOMAIN cells' = DOMAIN cells \cup {n},
           \A v \in DOMAIN cells' : cells'[v].type = IF v = n THEN t ELSE cells[v].type,
           UNCHANGED <<evalInhibit, lost>>, lineStrTbl' \in {lineStrTbl, {n}}
    PROVE  RestOK'
<1>1. RestOK
  BY IInvParts
<1>2. lineStrTbl' \subseteq UserNames /\ IsFiniteSet(lineStrTbl') /\ Cardinality(lineStrTbl') <= StrSlots
  <2>1. IsFiniteSet({n}) /\ Cardinality({n}) = 1
    BY FS_Singleton
  <2>2. 1 <= StrSlots
    BY BoundsOK
  <2> QED
    BY <1>1, <2>1, <2>2 DEF RestOK
<1>3. DOMAIN cells' \subseteq Variables /\ Symbols \subseteq DOMAIN cells'
  BY <1>1 DEF RestOK, Variables
<1>4. \A v \in DOMAIN cells' : cells'[v].type \in CexpTypes
  BY <1>1 DEF RestOK
<1> QED
  BY <1>1, <1>2, <1>3, <1>4 DEF RestOK

LEMMA CreateKeeps == ASSUME IInv, Create PROVE IInv'
<1> DEFINE n == Entry(1).name
           x == Entry(0).x
<1>1. /\ Kind(0) = "val" /\ Kind(1) = "ident" /\ status = "parsing"
      /\ UNCHANGED <<evalInhibit, lost, lineStrTbl>>
      /\ \/ GiveUp("error") /\ cells' = cells
         \/ /\ cells' = cells \/ cells' = [varCreate(n, x.type) EXCEPT ![n].n = x.v]
            /\ stack' = Append(Under(2), Entry(0)) /\ status' = status
  BY DEF Create, Parsing
<1>2. /\ 2 \in 0..Len(stack) /\ \A i \in 0..(2 - 1) : i = 0 \/ i = 1
      /\ Entry(0).k = "val" /\ Entry(1).k = "ident" /\ x.type \in CexpTypes
      /\ EntryOK(Entry(0), lineStrTbl) /\ EntryOK(Entry(1), lineStrTbl)
  BY <1>1, TopTwo
<1>3. n \in UserNames
  BY <1>2, IInvParts DEF EntryOK, RestOK
<1>4. RestOK'
  <2>1. CASE cells' = cells
    BY <1>1, <2>1, RestUnchanged
  <2>2. CASE cells' = [varCreate(n, x.type) EXCEPT ![n].n = x.v]
    <3> DEFINE c == varCreate(n, x.type)
    <3>1. /\ DOMAIN c = DOMAIN cells \cup {n}
          /\ \A v \in DOMAIN c : c[v] = IF v = n THEN Cell(x.type, x.type, 0) ELSE cells[v]
          /\ c = [v \in DOMAIN c |-> c[v]]
      BY DEF varCreate
    <3>2. cells' = [c EXCEPT ![n].n = x.v]
      BY <2>2
    <3> HIDE DEF c
    <3>3. DOMAIN cells' = DOMAIN cells \cup {n}
      BY <3>1, <3>2
    <3>4. \A v \in DOMAIN cells' : v # n => cells'[v] = cells[v]
      BY <3>1, <3>2
    <3>5. cells'[n].type = x.type
      <4>1. cells'[n] = [c[n] EXCEPT !.n = x.v]
        BY <3>1, <3>2
      <4>2. c[n] = Cell(x.type, x.type, 0)
        BY <3>1
      <4> QED
        BY <4>1, <4>2 DEF Cell
    <3>6. \A v \in DOMAIN cells' : cells'[v].type = IF v = n THEN x.type ELSE cells[v].type
      BY <3>4, <3>5
    <3> HIDE DEF n, x
    <3> QED
      BY <1>1, <1>2, <1>3, <3>3, <3>6, CreatedTypes
  <2> QED
    BY <1>1, <2>1, <2>2
<1>5. StackStep
  <2>1. CASE GiveUp("error")
    BY <2>1 DEF GiveUp, StackStep, Ends
  <2>2. CASE stack' = Append(Under(2), Entry(0)) /\ status' = status
    <3>1. 0 \in 0..(2 - 1)
      OBVIOUS
    <3> QED
      BY <1>1, <1>2, <2>2, <3>1, PushValue
  <2> QED
    BY <1>1, <2>1, <2>2
<1> QED
  BY <1>4, <1>5, StepKeeps

LEMMA CallKeeps == ASSUME IInv, Call PROVE IInv'
<1>1. PICK n \in 0..MaxStack :
        /\ Parsing /\ n < Len(stack) /\ \A i \in 0..n : Kind(i) = "val"
        /\ LET fn == Entry(n).x
               args == [i \in 1..n |-> Entry(n - i).x] IN
           IF EVAL
             THEN \E r \in cexpTVFnCall(fn, args) :
                    IF r.err = "ok"
                      THEN /\ \E y \in {0, 1} : stack' = Append(Under(n + 1),
                                Val(Value(PTR2BASE(fn.type), y), Clean(n + 1)))
                           /\ status' = status
                      ELSE GiveUp(r.err)
             ELSE stack' = Append(Under(n + 1), Val(fn, FALSE)) /\ status' = status
        /\ UNCHANGED <<evalInhibit, lost, cells, lineStrTbl>>
  BY DEF Call
<1> DEFINE fn == Entry(n).x
<1>2. n \in Nat /\ status = "parsing"
  BY <1>1, BoundsOK DEF Parsing
<1>3. /\ n + 1 \in 0..Len(stack) /\ n \in 0..((n + 1) - 1)
      /\ \A i \in 0..((n + 1) - 1) : Entry(i).k = "val"
      /\ fn.type \in CexpTypes
  <2>1. n + 1 \in 0..Len(stack) /\ n \in 0..n /\ (n + 1) - 1 = n
    <3>1. Len(stack) \in Nat
      BY IInvParts DEF StackOK, IsStack
    <3> QED
      BY <1>1, <1>2, <3>1
  <2>2. \A i \in 0..n : Entry(i).k = "val" /\ EntryOK(Entry(i), lineStrTbl)
    <3> SUFFICES ASSUME NEW i \in 0..n
                 PROVE  Entry(i).k = "val" /\ EntryOK(Entry(i), lineStrTbl)
      OBVIOUS
    <3>1. Kind(i) = "val" /\ i \in Nat
      BY <1>1, <1>2
    <3> QED
      BY <3>1, KindIs
  <2> QED
    BY <2>1, <2>2 DEF EntryOK
<1>4. StackStep
  <2>1. CASE GiveUp("error")
    BY <2>1 DEF GiveUp, StackStep, Ends
  <2>2. CASE \E y : stack' = Append(Under(n + 1), Val(Value(PTR2BASE(fn.type), y), Clean(n + 1)))
             /\ status' = status
    <3>1. PICK y : stack' = Append(Under(n + 1), Val(Value(PTR2BASE(fn.type), y), Clean(n + 1)))
                   /\ status' = status
      BY <2>2
    <3> DEFINE e == Val(Value(PTR2BASE(fn.type), y), Clean(n + 1))
    <3>2. e.k = "val" /\ e.clean = Clean(n + 1) /\ EntryOK(e, lineStrTbl')
      BY <1>3, TypesOf DEF Val, Value, EntryOK
    <3>3. stack' = Append(Under(n + 1), e) /\ status' = "parsing" /\ lineStrTbl \subseteq lineStrTbl'
      BY <1>1, <1>2, <3>1
    <3> HIDE DEF e, fn
    <3>4. ~e.clean => \E i \in 0..((n + 1) - 1) : Entry(i).k # "ident" /\ ~Entry(i).clean
      BY <1>3, <3>2 DEF Clean
    <3> QED
      BY <1>1, <1>2, <1>3, <3>2, <3>3, <3>4, PushValue
  <2>3. CASE ~EVAL /\ stack' = Append(Under(n + 1), Val(fn, FALSE)) /\ status' = status
    <3> DEFINE e == Val(fn, FALSE)
    <3>1. e.k = "val" /\ EntryOK(e, lineStrTbl')
      BY <1>3 DEF Val, EntryOK
    <3>2. stack' = Append(Under(n + 1), e) /\ status' = "parsing" /\ lineStrTbl \subseteq lineStrTbl'
      BY <1>1, <1>2, <2>3
    <3>3. e.k # "ident" /\ ~e.clean => ~EVAL
      BY <2>3
    <3>4. UNCHANGED <<evalInhibit, lost>> /\ \A i \in 0..((n + 1) - 1) : Entry(i).k \in {"val", "lval", "ident"}
      BY <1>1, <1>3
    <3> HIDE DEF e, fn
    <3> QED
      BY <1>2, <1>3, <3>1, <3>2, <3>3, <3>4, PushValue
  <2> QED
    <3>1. CASE EVAL
      <4>1. PICK r \in cexpTVFnCall(fn, [i \in 1..n |-> Entry(n - i).x]) :
              IF r.err = "ok"
                THEN /\ \E y \in {0, 1} : stack' = Append(Under(n + 1),
                          Val(Value(PTR2BASE(fn.type), y), Clean(n + 1)))
                     /\ status' = status
                ELSE GiveUp(r.err)
        BY <1>1, <3>1
      <4>2. r.err \in {"ok", "error"}
        BY CallEnds
      <4> QED
        BY <2>1, <2>2, <4>1, <4>2
    <3>2. CASE ~EVAL
      BY <1>1, <2>3, <3>2
    <3> QED
      BY <3>1, <3>2
<1> QED
  BY <1>1, <1>4, RestUnchanged, StepKeeps


LEMMA MemberKeeps == ASSUME IInv, Member PROVE IInv'
<1>1. PICK v \in DOMAIN cells, n \in {0, 1} :
        /\ Parsing /\ n <= Len(stack) /\ (n = 1 => Kind(0) = "val")
        /\ \/ GiveUp("error")
           \/ /\ stack' = Append(Under(n), Val(Value(Pointer("char"), 0), Clean(n)))
              /\ status' = status
           \/ /\ ~EVAL /\ stack' = Append(Under(n), Val(Value(TFuncP, Address[v]), FALSE))
              /\ status' = status
        /\ UNCHANGED <<evalInhibit, lost, cells, lineStrTbl>>
  BY DEF Member
<1>2. n \in 0..Len(stack) /\ status = "parsing"
      /\ \A i \in 0..(n - 1) : Entry(i).k \in {"val", "lval", "ident"} /\ Entry(i).k # "ident"
  <2>1. Len(stack) \in Nat
    BY IInvParts DEF StackOK, IsStack
  <2>2. n = 1 => Entry(0).k = "val"
    BY <1>1, KindIs
  <2>3. \A i \in 0..(n - 1) : n = 1 /\ i = 0
    BY <1>1
  <2> QED
    BY <1>1, <2>1, <2>2, <2>3 DEF Parsing
<1>3. StackStep
  <2>1. CASE GiveUp("error")
    BY <2>1 DEF GiveUp, StackStep, Ends
  <2>2. ASSUME NEW x, x.type \in CexpTypes, NEW clean,
               ~clean => ~EVAL \/ \E i \in 0..(n - 1) : ~Entry(i).clean,
               stack' = Append(Under(n), Val(x, clean)), status' = status
        PROVE  StackStep
    <3> DEFINE e == Val(x, clean)
    <3>1. e.k = "val" /\ e.clean = clean /\ EntryOK(e, lineStrTbl')
      BY <2>2 DEF Val, EntryOK
    <3>2. stack' = Append(Under(n), e) /\ status' = "parsing" /\ lineStrTbl \subseteq lineStrTbl'
      BY <1>1, <1>2, <2>2
    <3>3. e.k # "ident" /\ ~e.clean =>
            ~EVAL \/ \E i \in 0..(n - 1) : Entry(i).k # "ident" /\ ~Entry(i).clean
      BY <1>2, <2>2, <3>1
    <3> HIDE DEF e
    <3> QED
      BY <1>1, <1>2, <3>1, <3>2, <3>3, PushValue
  <2>3. Value(Pointer("char"), 0).type \in CexpTypes /\ Value(TFuncP, Address[v]).type \in CexpTypes
    BY TypesOf DEF Value, Bases, Integral
  <2>4. ~Clean(n) => \E i \in 0..(n - 1) : ~Entry(i).clean
    BY DEF Clean
  <2> QED
    BY <1>1, <2>1, <2>2, <2>3, <2>4
<1> QED
  BY <1>1, <1>3, RestUnchanged, StepKeeps

LEMMA SyntaxErrorKeeps == ASSUME IInv, SyntaxError PROVE IInv'
<1>1. GiveUp("error") /\ UNCHANGED <<evalInhibit, lost, cells, lineStrTbl>>
  BY DEF SyntaxError
<1>2. StackStep
  BY <1>1 DEF GiveUp, StackStep, Ends
<1> QED
  BY <1>1, <1>2, RestUnchanged, StepKeeps

\* Steps that leave the parser with an empty stack.
LEMMA EmptyKeeps ==
    ASSUME IInv, stack' = <<>>, status' \in {"ok", "error", "fault", "abort"}, RestOK'
    PROVE  IInv'
<1>1. StackOK(stack', lineStrTbl') /\ CleanStack(stack') /\ InhibitAgrees'
  BY EmptyStack DEF InhibitAgrees
<1> QED
  BY <1>1
     DEF IInv, WellFormed, TypeOK, CleanResults, StackOK, EntryOK, IsStack, CleanStack, RestOK

LEMMA EndOfLineKeeps == ASSUME IInv, EndOfLine PROVE IInv'
<1>1. stack' = <<>> /\ status' = "ok" /\ UNCHANGED <<evalInhibit, lost, cells, lineStrTbl>>
  BY DEF EndOfLine
<1> QED
  BY <1>1, RestUnchanged, EmptyKeeps

LEMMA RedefineKeeps == ASSUME IInv, Redefine PROVE IInv'
<1>1. PICK v \in DOMAIN cells, t \in EvalTypes :
        /\ stack' = <<>> /\ status' \in {"ok", "error"}
        /\ cells' = [cells EXCEPT ![v] = Cell(t, @.st, @.n)]
        /\ UNCHANGED <<evalInhibit, lost, lineStrTbl>>
  BY DEF Redefine
<1>2. t \in CexpTypes /\ RestOK
  BY LinesTyped, IInvParts
<1>3. RestOK'
  BY <1>1, <1>2 DEF RestOK, Cell
<1> QED
  BY <1>1, <1>3, EmptyKeeps

LEMMA DefineKeeps == ASSUME IInv, Define PROVE IInv'
<1>1. PICK n \in UserNames \ DOMAIN cells, t \in EvalTypes :
        /\ stack' = <<>> /\ status' = "ok" /\ cells' = varCreate(n, t) /\ lineStrTbl' = {n}
        /\ UNCHANGED <<evalInhibit, lost>>
  BY DEF Define
<1>2. t \in CexpTypes
  BY LinesTyped
<1>3. /\ DOMAIN cells' = DOMAIN cells \cup {n}
      /\ \A v \in DOMAIN cells' : cells'[v].type = IF v = n THEN t ELSE cells[v].type
  BY <1>1 DEF varCreate, Cell
<1>4. RestOK'
  BY <1>1, <1>2, <1>3, CreatedTypes
<1> QED
  BY <1>1, <1>4, EmptyKeeps

\* A line starts without a bit.
LEMMA StartKeeps ==
    ASSUME stack' = <<>>, evalInhibit' = 0, status' = "parsing", RestOK'
    PROVE  IInv'
<1>1. StackOK(stack', lineStrTbl') /\ CleanStack(stack')
      /\ SkipBits(stack') = 0 /\ Marks(stack') = 0
  BY EmptyStack
<1>2. InhibitAgrees'
  BY <1>1, BoundsOK DEF InhibitAgrees
<1> QED
  BY <1>1, <1>2
     DEF IInv, WellFormed, TypeOK, CleanResults, StackOK, EntryOK, IsStack, CleanStack, RestOK

LEMMA NoNames == IsFiniteSet({}) /\ Cardinality({}) <= StrSlots /\ 0 \in 0..(2^InhibitBits - 1)
<1>1. Cardinality({}) = 0 /\ IsFiniteSet({})
  BY FS_EmptySet
<1>2. InhibitBits \in 0..InhibitBits /\ StrSlots \in Nat
  BY BoundsOK
<1>3. 2^InhibitBits \in Nat \ {0}
  BY <1>2, InhibitPowers
<1> QED
  BY <1>1, <1>2, <1>3

LEMMA ResetKeeps == ASSUME IInv, Reset PROVE IInv'
<1>1. /\ stack' = stack /\ cells' = cells /\ evalInhibit' = 0 /\ lost' = FALSE
      /\ lineStrTbl' = {} /\ status' = "parsing" /\ status # "parsing"
  BY DEF Reset, InhibitOnReset
<1>2. RestOK /\ stack = <<>>
  BY <1>1, IInvParts
<1>3. RestOK'
  BY <1>1, <1>2, NoNames DEF RestOK
<1> QED
  BY <1>1, <1>2, <1>3, StartKeeps

LEMMA InitKeeps == ASSUME Init PROVE IInv
<1>1. /\ stack = <<>> /\ evalInhibit = 0 /\ lost = FALSE /\ lineStrTbl = {} /\ status = "parsing"
      /\ cells = [v \in Symbols |-> Cell(SymbolType[v], SymbolType[v], 0)]
  BY DEF Init
<1>2. RestOK
  BY <1>1, NoNames, LinesTyped DEF RestOK, Variables, Cell
<1>3. StackOK(stack, lineStrTbl) /\ CleanStack(stack) /\ SkipBits(stack) = 0 /\ Marks(stack) = 0
  BY <1>1, EmptyStack
<1>4. InhibitAgrees
  BY <1>1, <1>3, BoundsOK DEF InhibitAgrees
<1> QED
  BY <1>1, <1>2, <1>3, <1>4, IInvParts


\* Powers of two grow.
LEMMA PowersGrow == \A m \in 0..InhibitBits : 2^m \in Nat \ {0} /\ 2^m <= 2^InhibitBits
<1>1. \A m \in 0..InhibitBits : 2^m \in Nat \ {0} /\ 2^(m + 1) = 2 * 2^m
  BY InhibitPowers
<1> DEFINE T == {d \in 0..InhibitBits : ~(2^(InhibitBits - d) <= 2^InhibitBits)}
<1>2. InhibitBits \in Nat
  BY BoundsOK
<1>3. T = {}
  <2>1. SUFFICES ASSUME T # {}
                 PROVE  FALSE
    OBVIOUS
  <2>2. T \in SUBSET (0..InhibitBits)
    OBVIOUS
  <2>3. PICK d \in T : \A j \in T : d <= j
    <3> HIDE DEF T
    <3> QED
      BY <1>2, <2>1, <2>2, LeastNumber
  <2>4. d \in 1..InhibitBits
    <3>1. InhibitBits - 0 = InhibitBits /\ InhibitBits \in 0..InhibitBits
      BY <1>2
    <3>2. 2^(InhibitBits - 0) <= 2^InhibitBits
      BY <1>1, <3>1
    <3>3. d # 0
      BY <3>2
    <3> QED
      BY <1>2, <3>3
  <2>5. d - 1 \notin T /\ d - 1 \in 0..InhibitBits
    <3>1. d - 1 \in 0..InhibitBits /\ ~(d <= d - 1)
      BY <1>2, <2>4
    <3> HIDE DEF T
    <3> QED
      BY <2>3, <3>1
  <2>6. 2^(InhibitBits - (d - 1)) <= 2^InhibitBits
    BY <2>5
  <2>7. InhibitBits - d \in 0..InhibitBits /\ InhibitBits - (d - 1) = (InhibitBits - d) + 1
        /\ InhibitBits \in 0..InhibitBits
    BY <1>2, <2>4
  <2>8. PICK p \in Nat, q \in Nat :
          p = 2^(InhibitBits - d) /\ q = 2^InhibitBits /\ 2^((InhibitBits - d) + 1) = 2 * p
    BY <1>1, <2>7
  <2>9. 2 * p <= q
    BY <2>6, <2>7, <2>8
  <2>10. p <= q
    BY <2>9
  <2>11. ~(2^(InhibitBits - d) <= 2^InhibitBits)
    BY <2>3
  <2> QED
    BY <2>8, <2>10, <2>11
<1> QED
  <2> SUFFICES ASSUME NEW m \in 0..InhibitBits
               PROVE  2^m <= 2^InhibitBits
    BY <1>1
  <2>1. InhibitBits - m \in 0..InhibitBits /\ InhibitBits - (InhibitBits - m) = m
    BY <1>2
  <2>2. InhibitBits - m \notin T
    BY <1>3
  <2>3. 2^(InhibitBits - (InhibitBits - m)) <= 2^InhibitBits
    BY <2>1, <2>2
  <2> QED
    BY <2>1, <2>3

\* PSHEVAL and POPEVAL stay in the word; PSHEVAL loses nothing while there is
\* room in it.
LEMMA WordOK ==
    ASSUME NEW i \in 0..(2^InhibitBits - 1), NEW inh \in BOOLEAN
    PROVE  /\ PSHEVAL(i, inh) \in 0..(2^InhibitBits - 1)
           /\ POPEVAL(i) \in 0..(2^InhibitBits - 1)
           /\ LET n == 2 * i + (IF inh THEN 1 ELSE 0) IN
              n < 2^InhibitBits => PSHEVAL(i, inh) = n
<1>1. 2^InhibitBits \in Nat \ {0}
  BY BoundsOK, PowersGrow
<1>2. PICK w \in Nat \ {0} : w = 2^InhibitBits
  BY <1>1
<1> DEFINE n == 2 * i + (IF inh THEN 1 ELSE 0)
<1>3. n \in Nat /\ i \in 0..(w - 1)
  BY <1>2
<1>4. PSHEVAL(i, inh) = n % w
  BY <1>2 DEF PSHEVAL
<1> HIDE DEF n
<1>5. n % w \in 0..(w - 1) /\ (n < w => n % w = n)
  BY <1>3
<1>6. i \div 2 \in 0..(w - 1)
  BY <1>3
<1> QED
  BY <1>2, <1>4, <1>5, <1>6 DEF n, POPEVAL

LEMMA ConditionKeeps == ASSUME IInv, Condition PROVE IInv'
<1> DEFINE x == Entry(0)
<1>1. PICK op \in {"or", "and"}, r \in cexpTVTrueQ(x.x) :
        /\ Kind(0) = "val" /\ status = "parsing"
        /\ IF r.err = "ok"
             THEN /\ stack' = Append(Under(1), Mark(op, r.y.v # 0, x.clean))
                  /\ evalInhibit' = PSHEVAL(evalInhibit, Inhibits(op, r.y.v # 0))
                  /\ status' = status
             ELSE GiveUp(r.err) /\ evalInhibit' = evalInhibit
        /\ lost' = (lost \/ Marks(stack') > InhibitBits)
        /\ cells' = cells /\ lineStrTbl' = lineStrTbl
  BY DEF Condition, Parsing
<1>2. r.err \in {"ok", "abort"}
  BY TrueTyped
<1>3. /\ StackOK(stack, lineStrTbl) /\ IsStack(stack) /\ RestOK /\ InhibitAgrees
      /\ ~lost => CleanStack(stack)
  BY IInvParts DEF StackOK
<1>4. /\ 1 \in 0..Len(stack) /\ Len(stack) \in Nat /\ x = stack[Len(stack)] /\ x.k = "val"
  <2>1. 0 < Len(stack) /\ Len(stack) \in Nat /\ x.k = "val" /\ x = stack[Len(stack) - 0]
    BY <1>1, KindIs
  <2> QED
    BY <2>1
<1>5. CASE r.err # "ok"
  <2>1. stack' = <<>> /\ status' = "abort" /\ evalInhibit' = evalInhibit
    BY <1>1, <1>2, <1>5 DEF GiveUp
  <2>2. lost' \in BOOLEAN
    BY <1>1
  <2>3. RestOK'
    BY <1>1, <1>3, <2>1, <2>2 DEF RestOK
  <2> QED
    BY <2>1, <2>3, EmptyKeeps
<1>6. CASE r.err = "ok"
  <2> DEFINE c == r.y.v # 0
             e == Mark(op, c, x.clean)
             b == IF Inhibits(op, c) THEN 1 ELSE 0
  <2>1. /\ e.k = op /\ e.k \in {"or", "and"} /\ e.k # "ident" /\ e.clean = x.clean
        /\ EntryOK(e, lineStrTbl') /\ (Skips(e) <=> Inhibits(op, c)) /\ Inhibits(op, c) \in BOOLEAN
    BY <1>1 DEF Mark, EntryOK, Skips, Inhibits
  <2>2. stack' = Append(Under(1), e) /\ evalInhibit' = PSHEVAL(evalInhibit, Inhibits(op, c))
        /\ status' = "parsing"
    BY <1>1, <1>6
  <2> HIDE DEF e, c
  <2>3. Rewrites(stack, 1, e, stack')
    BY <1>4, <2>2 DEF Rewrites, Under
  <2>4. Values(stack, 1)
    BY <1>4 DEF Values
  <2>5. StackOK(stack', lineStrTbl')
    BY <1>1, <1>3, <2>1, <2>3, StackPushed
  <2>6. SkipBits(stack') = 2 * SkipBits(stack) + b
    <3>1. /\ \A i \in (Len(stack) - 1 + 1)..Len(stack) : stack[i].k \notin {"or", "and"}
      BY <2>4 DEF Values
    <3>2. SkipBits(stack') = 2 * SkipBits(stack) + (IF Skips(e) THEN 1 ELSE 0)
      BY <1>3, <2>1, <2>3, <3>1, ReplacedBits
    <3> QED
      BY <2>1, <3>2
  <2>7. Marks(stack) \in Nat /\ Marks(stack') \in Nat /\ Marks(stack') <= Marks(stack) + 1
        /\ InhibitBits \in Nat
    BY <1>3, <2>3, ReplacedMarks, BoundsOK
  <2>8. evalInhibit \in 0..(2^InhibitBits - 1)
    BY <1>3 DEF RestOK
  <2>9. RestOK'
    <3>1. lost' \in BOOLEAN /\ evalInhibit' \in 0..(2^InhibitBits - 1)
      BY <1>1, <2>1, <2>2, <2>8, WordOK
    <3> QED
      BY <1>1, <1>3, <3>1 DEF RestOK
  <2>10. ASSUME ~lost'
         PROVE  evalInhibit' = SkipBits(stack') /\ Marks(stack') <= InhibitBits
                /\ CleanStack(stack')
    <3>1. ~lost /\ Marks(stack') <= InhibitBits
      <4>1. lost' = (lost \/ Marks(stack') > InhibitBits)
        BY <1>1
      <4>2. ~lost /\ ~(Marks(stack') > InhibitBits)
        BY <2>10, <4>1, Zenon
      <4> QED
        BY <2>7, <4>2
    <3>2. evalInhibit = SkipBits(stack)
      BY <1>1, <1>3, <3>1 DEF InhibitAgrees
    <3>3. IsStack(stack')
      BY <2>5 DEF StackOK
    <3>4. Marks(stack') \in 0..InhibitBits /\ SkipBits(stack') \in 0..(2^Marks(stack') - 1)
      BY <3>1, <3>3, BitsBelow
    <3>5. PICK p \in Nat, w \in Nat : p = 2^Marks(stack') /\ w = 2^InhibitBits /\ p <= w
      <4>1. InhibitBits \in 0..InhibitBits
        BY <2>7
      <4> QED
        BY <3>4, <4>1, PowersGrow
    <3>6. SkipBits(stack') < 2^InhibitBits
      BY <3>4, <3>5
    <3>7. PSHEVAL(evalInhibit, Inhibits(op, c)) = 2 * evalInhibit + b
      <4>1. 2 * evalInhibit + b < 2^InhibitBits
        BY <2>6, <3>2, <3>6
      <4> QED
        BY <2>1, <2>8, <4>1, WordOK
    <3>8. ~e.clean => \E j \in 1..(Len(stack) - 1) : Skips(stack[j])
      <4> SUFFICES ASSUME ~e.clean
                   PROVE  \E j \in 1..(Len(stack) - 1) : Skips(stack[j])
        OBVIOUS
      <4>1. Len(stack) \in (Len(stack) - 1 + 1)..Len(stack)
            /\ stack[Len(stack)].k # "ident" /\ ~stack[Len(stack)].clean
        BY <1>4, <2>1
      <4> QED
        BY <1>1, <1>4, <2>4, <3>1, <4>1, SkippedBelow
    <3>9. CleanStack(stack')
      BY <1>3, <2>3, <3>1, <3>8, CleanPushed
    <3> QED
      BY <2>2, <2>6, <3>1, <3>2, <3>7, <3>9
  <2> QED
    BY <2>2, <2>5, <2>9, <2>10
       DEF IInv, WellFormed, TypeOK, CleanResults, StackOK, EntryOK, IsStack, CleanStack, RestOK,
           InhibitAgrees
<1> QED
  BY <1>5, <1>6


\* What && and || return.
LEMMA DecidedTyped ==
    ASSUME NEW m, NEW x
    PROVE  \A r \in Decided(m, x) :
             r.err \in {"ok", "abort"} /\ (r.err = "ok" => r.y.type \in CexpTypes)
<1>1. \A c : Truth(c).type \in CexpTypes
  BY TypesOf DEF Truth, Value
<1>2. \A c : \A r \in Ok(Truth(c)) : r.err = "ok" /\ r.y.type \in CexpTypes
  BY <1>1 DEF Ok
<1>3. \A r \in cexpTVTrueQ(x) : r.err \in {"ok", "abort"} /\ (r.err = "ok" => r.y.type \in CexpTypes)
  BY TrueTyped
<1> QED
  BY <1>2, <1>3 DEF Decided

LEMMA OperandKeeps == ASSUME IInv, Operand PROVE IInv'
<1> DEFINE m == Entry(1)
           x == Entry(0)
           clean == m.clean /\ (Inhibits(m.k, m.cond) \/ x.clean)
<1>1. PICK r \in Decided(m, x.x) :
        /\ Kind(0) = "val" /\ Kind(1) \in {"or", "and"} /\ status = "parsing"
        /\ Result(2, r, clean)
        /\ evalInhibit' = IF r.err = "ok" THEN POPEVAL(evalInhibit) ELSE evalInhibit
        /\ UNCHANGED <<lost, cells, lineStrTbl>>
  BY DEF Operand, Parsing
<1>2. r.err \in {"ok", "abort"} /\ (r.err = "ok" => r.y.type \in CexpTypes)
  BY DecidedTyped
<1>3. /\ StackOK(stack, lineStrTbl) /\ IsStack(stack) /\ RestOK /\ InhibitAgrees
      /\ ~lost => CleanStack(stack)
  BY IInvParts DEF StackOK
<1>4. /\ 2 \in 0..Len(stack) /\ Len(stack) \in Nat /\ x = stack[Len(stack)] /\ m = stack[Len(stack) - 1]
      /\ x.k = "val" /\ m.k \in {"or", "and"} /\ DOMAIN stack = 1..Len(stack)
  <2>1. PICK k \in {"or", "and"} : Kind(1) = k
    BY <1>1
  <2>2. 0 < Len(stack) /\ Len(stack) \in Nat /\ x.k = "val" /\ x = stack[Len(stack) - 0]
    BY <1>1, KindIs
  <2>3. 1 < Len(stack) /\ m.k = k /\ m = stack[Len(stack) - 1]
    BY <2>1, KindIs
  <2> QED
    BY <1>3, <2>2, <2>3 DEF IsStack
<1>5. evalInhibit' \in 0..(2^InhibitBits - 1)
  <2>1. evalInhibit \in 0..(2^InhibitBits - 1)
    BY <1>3 DEF RestOK
  <2>2. POPEVAL(evalInhibit) \in 0..(2^InhibitBits - 1)
    BY <2>1, WordOK
  <2> QED
    BY <1>1, <2>1, <2>2
<1>6. RestOK'
  BY <1>1, <1>3, <1>5 DEF RestOK
<1>7. CASE r.err # "ok"
  <2>1. stack' = <<>> /\ status' = "abort"
    BY <1>1, <1>2, <1>7 DEF Result, GiveUp
  <2> QED
    BY <1>6, <2>1, EmptyKeeps
<1>8. CASE r.err = "ok"
  <2> DEFINE e == Val(r.y, clean)
  <2>1. e.k = "val" /\ e.clean = clean /\ EntryOK(e, lineStrTbl')
    BY <1>2, <1>8 DEF Val, EntryOK
  <2>2. Rewrites(stack, 2, e, stack') /\ status' = "parsing" /\ evalInhibit' = POPEVAL(evalInhibit)
    BY <1>1, <1>4, <1>8 DEF Result, Rewrites, Under
  <2> HIDE DEF e
  <2>3. StackOK(stack', lineStrTbl')
    <3>1. lineStrTbl \subseteq lineStrTbl'
      BY <1>1
    <3> QED
      BY <1>3, <2>1, <2>2, <3>1, StackPushed
  <2>4. SkipBits(stack') = POPEVAL(SkipBits(stack))
    <3>1. Len(stack) >= 2 /\ e.k \notin {"or", "and"} /\ stack[Len(stack)].k \notin {"or", "and"}
          /\ stack[Len(stack) - 1].k \in {"or", "and"}
      BY <1>4, <2>1
    <3> QED
      BY <1>3, <2>2, <3>1, PoppedBit
  <2>5. Marks(stack) \in Nat /\ Marks(stack') \in Nat /\ Marks(stack') <= Marks(stack)
    <3>1. e.k \notin {"or", "and"}
      BY <2>1
    <3> QED
      BY <1>3, <2>2, <3>1, ReplacedMarks
  <2>6. InhibitAgrees'
    <3>1. ~lost => evalInhibit = SkipBits(stack) /\ Marks(stack) <= InhibitBits
      BY <1>1, <1>3 DEF InhibitAgrees
    <3>2. ~lost' => evalInhibit' = SkipBits(stack') /\ Marks(stack') <= InhibitBits
      BY <1>1, <2>2, <2>4, <2>5, <3>1, BoundsOK
    <3> QED
      BY <3>2 DEF InhibitAgrees
  <2>7. ~lost' => CleanStack(stack')
    <3> SUFFICES ASSUME ~lost
                 PROVE  CleanStack(stack')
      BY <1>1
    <3>1. ~clean => \E j \in 1..(Len(stack) - 2) : Skips(stack[j])
      <4>1. CASE ~m.clean
        <5>1. Len(stack) - 1 \in DOMAIN stack /\ m.k # "ident"
          BY <1>4
        <5>2. PICK j \in 1..((Len(stack) - 1) - 1) : Skips(stack[j])
          BY <1>3, <1>4, <4>1, <5>1 DEF CleanStack
        <5> QED
          BY <1>4, <5>2
      <4>2. CASE ~Inhibits(m.k, m.cond) /\ ~x.clean
        <5>1. Len(stack) \in DOMAIN stack /\ x.k # "ident"
          BY <1>4
        <5>2. PICK j \in 1..(Len(stack) - 1) : Skips(stack[j])
          BY <1>3, <1>4, <4>2, <5>1 DEF CleanStack
        <5>3. ~Skips(m)
          BY <1>4, <4>2 DEF Skips, Inhibits
        <5>4. j # Len(stack) - 1
          BY <1>4, <5>2, <5>3
        <5>5. j \in 1..(Len(stack) - 2)
          <6>1. Len(stack) \in Nat /\ j \in 1..(Len(stack) - 1)
            BY <1>4, <5>2
          <6> QED
            BY <5>4, <6>1
        <5> QED
          BY <5>2, <5>5
      <4> QED
        BY <4>1, <4>2
    <3>2. e.k # "ident" /\ ~e.clean => \E j \in 1..(Len(stack) - 2) : Skips(stack[j])
      BY <2>1, <3>1
    <3> HIDE DEF clean, m, x
    <3> QED
      BY <1>3, <2>2, <3>2, CleanPushed
  <2> QED
    BY <1>6, <2>2, <2>3, <2>6, <2>7
       DEF IInv, WellFormed, TypeOK, CleanResults, StackOK, EntryOK, IsStack, CleanStack, RestOK
<1> QED
  BY <1>7, <1>8

-----------------------------------------------------------------------------
(* What holds of every behaviour *)

LEMMA NextKeeps == ASSUME IInv, [Next]_vars PROVE IInv'
<1>1. CASE Reduction
  BY <1>1, NumberKeeps, VariableKeeps, IdentKeeps, AddressOfKeeps, DerefKeeps, ReadKeeps,
     AssignKeeps, CreateKeeps, BinOpKeeps, UnOpKeeps, NotKeeps, CastKeeps, CommaKeeps,
     ConditionKeeps, OperandKeeps, CallKeeps, MemberKeeps DEF Reduction
<1>2. CASE Redefine
  BY <1>2, RedefineKeeps
<1>3. CASE Define
  BY <1>3, DefineKeeps
<1>4. CASE EndOfLine
  BY <1>4, EndOfLineKeeps
<1>5. CASE SyntaxError
  BY <1>5, SyntaxErrorKeeps
<1>6. CASE Reset
  BY <1>6, ResetKeeps
<1>7. CASE UNCHANGED vars
  BY <1>7 DEF vars, IInv, WellFormed, TypeOK, CleanResults, InhibitAgrees
<1> QED
  BY <1>1, <1>2, <1>3, <1>4, <1>5, <1>6, <1>7 DEF Next

\* The inductive invariant holds: the parser's state is well formed, and what
\* inhibited rules left over is confined, for any lines, symbols and widths.
THEOREM IInvHolds == Spec => []IInv
<1>1. Init => IInv
  BY InitKeeps
<1>2. IInv /\ [Next]_vars => IInv'
  BY NextKeeps
<1> QED
  BY <1>1, <1>2, PTL DEF Spec

\* evalInhibit (cexp.y) has at any time exactly the bits of the && and || whose
\* right operand is being parsed, and the stack holds typed values: whatever the
\* line is, wherever the line before it failed, and whatever the width of
\* evalInhibit, as long as no line nests more of them than it has bits.
THEOREM ParserWellFormed == Spec => []WellFormed
<1>1. IInv => WellFormed
  BY DEF IInv
<1> QED
  BY <1>1, IInvHolds, PTL

\* What an inhibited rule of cexp.y leaves in its first symbol stays in the
\* operand of && or || that is skipped: no value below it on bison's stack, and
\* none that takes the place of the operator, is got from it.
THEOREM LeftoversConfined == Spec => []CleanResults
<1>1. IInv => CleanResults
  BY DEF IInv
<1> QED
  BY <1>1, IInvHolds, PTL


-----------------------------------------------------------------------------
(* What is skipped has no effect *)

\* While something is skipped, nothing is evaluated and the line cannot end.
LEMMA SkippedParsing ==
    ASSUME IInv, Skipped, ~lost
    PROVE  /\ ~EVAL /\ status = "parsing" /\ stack # <<>>
           /\ ~(Len(stack) = 1 /\ Kind(0) = "val")
<1>1. IsStack(stack) /\ InhibitAgrees /\ (status # "parsing" => stack = <<>>)
  BY IInvParts DEF StackOK
<1>2. PICK i \in DOMAIN stack : Skips(stack[i])
  BY DEF Skipped
<1>3. stack[i].k \in {"or", "and"}
  BY <1>2 DEF Skips
<1>4. stack # <<>>
  BY <1>2
<1>5. status = "parsing"
  BY <1>1, <1>4
<1>6. SkipBits(stack) # 0
  BY <1>1, <1>2, <1>3, SomeBit
<1>7. ~EVAL
  BY <1>1, <1>5, <1>6 DEF EVAL, InhibitAgrees
<1>8. ASSUME Len(stack) = 1, Kind(0) = "val"
      PROVE  FALSE
  <2>1. i \in 1..1
    BY <1>1, <1>8 DEF IsStack
  <2>2. stack[1].k = "val"
    BY <1>8 DEF Kind, Entry
  <2> QED
    BY <1>3, <2>1, <2>2
<1> QED
  BY <1>4, <1>5, <1>7, <1>8

LEMMA SkippedStep ==
    ASSUME IInv, [Next]_vars, Skipped, ~lost
    PROVE  UNCHANGED <<cells, calls, rval>>
<1>1. /\ ~EVAL /\ status = "parsing" /\ stack # <<>>
      /\ ~(Len(stack) = 1 /\ Kind(0) = "val")
  BY SkippedParsing
<1>2. CASE Number \/ Variable \/ Ident
  BY <1>2 DEF Number, Variable, Ident, Shift
<1>3. CASE AddressOf \/ BinOp \/ UnOp \/ Not \/ Cast
  BY <1>3 DEF AddressOf, BinOp, UnOp, Not, Cast, Reduce
<1>4. CASE Deref \/ Comma \/ Condition \/ Operand
  BY <1>4 DEF Deref, Comma, Condition, Operand
<1>5. CASE Read
  BY <1>1, <1>5 DEF Read
<1>6. CASE Assign
  BY <1>1, <1>6 DEF Assign
<1>7. CASE Create
  BY <1>1, <1>7 DEF Create
<1>8. CASE Call
  BY <1>1, <1>8 DEF Call
<1>9. CASE Member
  BY <1>1, <1>9 DEF Member
<1>10. CASE Redefine \/ Define \/ EndOfLine \/ Reset
  BY <1>1, <1>10 DEF Redefine, Define, EndOfLine, Reset
<1>11. CASE SyntaxError
  BY <1>11 DEF SyntaxError
<1>12. CASE UNCHANGED vars
  BY <1>12 DEF vars
<1> QED
  BY <1>2, <1>3, <1>4, <1>5, <1>6, <1>7, <1>8, <1>9, <1>10, <1>11, <1>12 DEF Next, Reduction

\* && and || skip their right operand with all its effects, however deep it is
\* nested and whatever it contains: no variable is stored to, none is created,
\* no function is called (EVAL in cexp.y).
THEOREM SkippedHasNoEffect == Spec => SkippedNoEffect
<1>1. IInv /\ [Next]_vars => [Skipped /\ ~lost => UNCHANGED <<cells, calls, rval>>]_vars
  BY SkippedStep
<1> QED
  BY <1>1, IInvHolds, PTL DEF Spec, SkippedNoEffect

-----------------------------------------------------------------------------
(* Numbers modulo powers of two *)

LEMMA Ring ==
    \A a, b, c \in Int : /\ a * b \in Int /\ a * b = b * a
                        /\ (a + b) * c = a * c + b * c /\ a * (b * c) = (a * b) * c
OBVIOUS

\* A quotient and a remainder are the only ones.
LEMMA DivMod ==
    ASSUME NEW m \in Nat \ {0}, NEW q \in Int, NEW r \in 0..(m - 1), NEW x \in Int, x = q * m + r
    PROVE  x % m = r /\ x \div m = q
<1> DEFINE a == x \div m
           s == x % m
<1>1. a \in Int /\ s \in 0..(m - 1) /\ x = a * m + s
  OBVIOUS
<1> HIDE DEF a, s
<1>2. ASSUME NEW d \in Nat \ {0}
      PROVE  d * m >= m
  OBVIOUS
<1>3. ASSUME NEW i \in Int, NEW j \in Int, NEW u \in 0..(m - 1), NEW v \in 0..(m - 1),
             i * m + u = j * m + v
      PROVE  ~(i < j)
  <2>1. SUFFICES ASSUME i < j
                 PROVE  FALSE
    OBVIOUS
  <2>2. (j - i) * m >= m
    BY <1>2, <2>1
  <2>3. (j - i) * m = j * m - i * m
    OBVIOUS
  <2>4. i * m \in Int /\ j * m \in Int
    OBVIOUS
  <2> QED
    BY <1>3, <2>2, <2>3, <2>4
<1>4. a = q
  <2>1. ~(a < q) /\ ~(q < a)
    BY <1>1, <1>3
  <2> QED
    BY <1>1, <2>1
<1>5. s = r
  <2>1. q * m \in Int
    OBVIOUS
  <2> QED
    BY <1>1, <1>4, <2>1
<1> QED
  BY <1>4, <1>5 DEF a, s

\* Multiples of the modulus make no difference.
LEMMA ModShift ==
    ASSUME NEW m \in Nat \ {0}, NEW x \in Int, NEW q \in Int
    PROVE  (x + q * m) % m = x % m
<1> DEFINE a == x \div m
           s == x % m
<1>1. a \in Int /\ s \in 0..(m - 1) /\ x = a * m + s
  OBVIOUS
<1> HIDE DEF a, s
<1>2. (a + q) * m = a * m + q * m
  BY <1>1, Ring
<1>3. a * m \in Int /\ q * m \in Int /\ a + q \in Int
  BY <1>1, Ring
<1>4. x + q * m = (a + q) * m + s /\ x + q * m \in Int
  BY <1>1, <1>2, <1>3
<1>5. (x + q * m) % m = s
  BY <1>1, <1>3, <1>4, DivMod
<1> QED
  BY <1>5 DEF s

\* A number modulo a multiple of the modulus.
LEMMA ModMod ==
    ASSUME NEW m \in Nat \ {0}, NEW k \in Nat \ {0}, NEW x \in Int
    PROVE  (x % (k * m)) % m = x % m
<1>1. k * m \in Nat \ {0}
  OBVIOUS
<1>2. PICK w \in Nat \ {0} : w = k * m
  BY <1>1
<1> DEFINE a == x \div w
           s == x % w
<1>3. a \in Int /\ s \in Int /\ x = a * w + s
  OBVIOUS
<1> HIDE DEF a, s
<1>4. a * w = (a * k) * m /\ a * k \in Int
  <2>1. a * (k * m) = (a * k) * m
    BY <1>3
  <2> QED
    BY <1>2, <1>3, <2>1
<1>5. (s + (a * k) * m) % m = s % m
  BY <1>3, <1>4, ModShift
<1>6. s + (a * k) * m = x
  <2>1. a * w \in Int
    BY <1>3
  <2> QED
    BY <1>3, <1>4, <2>1
<1> QED
  BY <1>2, <1>5, <1>6 DEF s

\* Sums may be computed modulo a multiple of the modulus.
LEMMA ModSum ==
    ASSUME NEW m \in Nat \ {0}, NEW k \in Nat \ {0}, NEW x \in Int, NEW y \in Int
    PROVE  (y + (x % (k * m))) % m = (y + x) % m
<1>1. k * m \in Nat \ {0}
  OBVIOUS
<1>2. PICK w \in Nat \ {0} : w = k * m
  BY <1>1
<1> DEFINE a == x \div w
           s == x % w
<1>3. a \in Int /\ s \in Int /\ x = a * w + s
  OBVIOUS
<1> HIDE DEF a, s
<1>4. a * w = (a * k) * m /\ a * k \in Int
  <2>1. a * (k * m) = (a * k) * m
    BY <1>3
  <2> QED
    BY <1>2, <1>3, <2>1
<1>5. ((y + s) + (a * k) * m) % m = (y + s) % m
  <2>1. y + s \in Int
    BY <1>3
  <2> QED
    BY <1>4, <2>1, ModShift
<1>6. (y + s) + (a * k) * m = y + x
  <2>1. a * w \in Int
    BY <1>3
  <2> QED
    BY <1>3, <1>4, <2>1
<1> QED
  BY <1>2, <1>5, <1>6 DEF s

\* 2^b is a multiple of each smaller power of two.
LEMMA PowersDivide ==
    ASSUME NEW w \in Widths, w \in Nat, NEW b \in 0..w, NEW a \in 0..b
    PROVE  2^a \in Nat \ {0} /\ \E k \in Nat \ {0} : 2^b = k * 2^a
<1>1. \A n \in 0..w : 2^n \in Nat \ {0} /\ 2^(n + 1) = 2 * 2^n
  BY PowersOfTwo
<1>2. PICK p \in Nat \ {0} : p = 2^a
  BY <1>1
<1> DEFINE T == {d \in 0..(b - a) : ~\E k \in Nat \ {0} : 2^(a + d) = k * p}
<1>3. T = {}
  <2>1. SUFFICES ASSUME T # {}
                 PROVE  FALSE
    OBVIOUS
  <2>2. T \in SUBSET (0..(b - a)) /\ b - a \in Nat
    OBVIOUS
  <2>3. PICK d \in T : \A j \in T : d <= j
    <3> HIDE DEF T
    <3> QED
      BY <2>1, <2>2, LeastNumber
  <2>4. d # 0
    <3>1. 2^(a + 0) = 1 * p
      BY <1>2
    <3> QED
      BY <3>1
  <2>5. d - 1 \in 0..(b - a) /\ a + (d - 1) \in 0..w /\ (a + (d - 1)) + 1 = a + d
    BY <2>4
  <2>6. d - 1 \notin T
    <3>1. ~(d <= d - 1)
      BY <2>5
    <3> HIDE DEF T
    <3> QED
      BY <2>3, <3>1
  <2>7. PICK k \in Nat \ {0} : 2^(a + (d - 1)) = k * p
    BY <2>5, <2>6
  <2>8. 2^(a + d) = 2 * (k * p)
    BY <1>1, <2>5, <2>7
  <2>9. 2 * (k * p) = (2 * k) * p /\ 2 * k \in Nat \ {0}
    OBVIOUS
  <2> QED
    BY <2>3, <2>8, <2>9
<1>4. b - a \in 0..(b - a) /\ a + (b - a) = b
  OBVIOUS
<1>5. b - a \notin T
  BY <1>3
<1> QED
  BY <1>2, <1>4, <1>5

\* Powers of two grow.
LEMMA PowersOrdered ==
    ASSUME NEW w \in Widths, w \in Nat, NEW b \in 0..w, NEW a \in 0..b
    PROVE  2^a \in Nat \ {0} /\ 2^b \in Nat \ {0} /\ 2^a <= 2^b
<1>1. b \in 0..b /\ w \in 0..w
  OBVIOUS
<1>2. 2^a \in Nat \ {0} /\ 2^b \in Nat \ {0}
  BY <1>1, PowersDivide
<1>3. PICK k \in Nat \ {0} : 2^b = k * 2^a
  BY PowersDivide
<1>4. PICK p \in Nat \ {0} : p = 2^a
  BY <1>2
<1>5. k * p >= p
  BY <1>3
<1> QED
  BY <1>2, <1>3, <1>4, <1>5

-----------------------------------------------------------------------------
(* The widths of types *)

\* Types that are no floating point types are not wider than a long.
LEMMA Sizes ==
    ASSUME ExactTarget
    PROVE  /\ \A t \in CexpTypes : TYPE_SIZE(t) \in Nat /\ BASE_TYPE_SIZE(t) \in Nat
           /\ \A t \in CexpTypes : ~FPQ(t) => TYPE_SIZE(t) <= SizeOf["long"]
           /\ \A t \in CexpTypes : SCALARQ(t) => TYPE_SIZE(t) >= SizeOf["char"]
                                                 /\ TYPE_SIZE(t) = BASE_TYPE_SIZE(t)
           /\ \A t \in CexpTypes : SCALARQ(t) /\ t # TUChar => TYPE_SIZE(t) > SizeOf["char"]
           /\ TYPE_SIZE(TULong) = SizeOf["long"] /\ TYPE_SIZE(TUChar) = SizeOf["char"]
           /\ TYPE_SIZE(TFloat) < TYPE_SIZE(TDouble) /\ TULong \in CexpTypes
<1>1. \A b \in Bases \cup {"ptr"} : SizeOf[b] \in Nat
  BY WidthsOK
<1>2. {"void", "char", "short", "int", "long", "float", "double"} \subseteq Bases
  BY DEF Bases, Integral, Floating
<1>3. SizeOf["void"] = 0 /\ SizeOf["char"] <= SizeOf["long"] /\ SizeOf["short"] <= SizeOf["long"]
      /\ SizeOf["char"] < SizeOf["short"] /\ SizeOf["char"] < SizeOf["int"]
      /\ SizeOf["char"] < SizeOf["long"]
      /\ SizeOf["int"] <= SizeOf["long"] /\ SizeOf["ptr"] <= SizeOf["long"]
  BY <1>1, <1>2, WidthsOK DEF ExactTarget
<1>4. \A t \in CexpTypes : t.base \in Bases
  BY TypesOf
<1>5. \A t : PTRQ(t) => TYPE_SIZE(t) = SizeOf["ptr"]
  BY DEF TYPE_SIZE
<1>6. \A t : ~PTRQ(t) => TYPE_SIZE(t) = SizeOf[t.base] /\ BASE_TYPE_SIZE(t) = SizeOf[t.base]
  BY DEF TYPE_SIZE, BASE_TYPE_SIZE, PTRQ, Pointer
<1>7. \A t : BASE_TYPE_SIZE(t) = SizeOf["char"] \/ BASE_TYPE_SIZE(t) = SizeOf[t.base]
  BY DEF BASE_TYPE_SIZE
<1>8. \A t \in CexpTypes : ~FPQ(t) /\ ~PTRQ(t) => t.base \in {"void"} \cup Integral
  BY <1>4 DEF FPQ, PTRQ, Bases
<1>9. \A t \in CexpTypes : SCALARQ(t) => ~PTRQ(t) /\ t.base \in Integral
  BY DEF SCALARQ, PTRQ
<1>10. \A t \in CexpTypes : SCALARQ(t) /\ t.base = "char" => t = TUChar
  <2> SUFFICES ASSUME NEW t \in CexpTypes, t.kind = "val", t.base = "char"
               PROVE  t = TUChar
    BY DEF SCALARQ
  <2> QED
    BY DEF CexpTypes, Plain, Pointer, TFuncP, TDFuncP, TUChar
<1>11. \A t \in CexpTypes : TYPE_SIZE(t) \in Nat /\ BASE_TYPE_SIZE(t) \in Nat
  BY <1>1, <1>2, <1>4, <1>5, <1>6, <1>7
<1>12. \A t \in CexpTypes : ~FPQ(t) => TYPE_SIZE(t) <= SizeOf["long"]
  BY <1>1, <1>2, <1>3, <1>5, <1>6, <1>8 DEF Integral
<1>13. \A t \in CexpTypes : SCALARQ(t) => TYPE_SIZE(t) >= SizeOf["char"]
                                          /\ TYPE_SIZE(t) = BASE_TYPE_SIZE(t)
  BY <1>1, <1>2, <1>3, <1>6, <1>9 DEF Integral
<1>14. \A t \in CexpTypes : SCALARQ(t) /\ t # TUChar => TYPE_SIZE(t) > SizeOf["char"]
  BY <1>1, <1>2, <1>3, <1>6, <1>9, <1>10 DEF Integral
<1>15. TYPE_SIZE(TULong) = SizeOf["long"] /\ TYPE_SIZE(TUChar) = SizeOf["char"]
       /\ TYPE_SIZE(TFloat) = SizeOf["float"] /\ TYPE_SIZE(TDouble) = SizeOf["double"]
  BY <1>6 DEF TULong, TUChar, TFloat, TDouble, Plain, PTRQ
<1>16. TYPE_SIZE(TFloat) < TYPE_SIZE(TDouble)
  BY <1>15 DEF ExactTarget
<1> QED
  BY <1>11, <1>12, <1>13, <1>14, <1>15, <1>16, TypesOf

\* Wider types have more bits.
LEMMA BitsOrdered ==
    ASSUME ExactTarget
    PROVE  /\ \A t \in CexpTypes : Bits(t) \in Nat /\ Bits(t) \in Widths
           /\ \A t, u \in CexpTypes : TYPE_SIZE(t) <= TYPE_SIZE(u) => Bits(t) <= Bits(u)
           /\ \A t, u \in CexpTypes : TYPE_SIZE(t) < TYPE_SIZE(u) => Bits(t) < Bits(u)
           /\ \A t \in CexpTypes : ~FPQ(t) => Bits(t) <= LongBits
           /\ LongBits = Bits(TULong) /\ LongBits \in Nat /\ IntBits = LongBits /\ LongBits \in Widths
<1>1. CHAR_BIT \in Nat \ {0} /\ \A t \in CexpTypes : TYPE_SIZE(t) \in Nat
  BY WidthsOK, Sizes
<1>2. \A i, j \in Nat : i <= j => CHAR_BIT * i <= CHAR_BIT * j
  BY <1>1
<1>3. \A i, j \in Nat : i < j => CHAR_BIT * i < CHAR_BIT * j
  <2> SUFFICES ASSUME NEW i \in Nat, NEW j \in Nat, i < j
               PROVE  CHAR_BIT * i < CHAR_BIT * j
    OBVIOUS
  <2>1. CHAR_BIT * (i + 1) <= CHAR_BIT * j
    BY <1>1, <1>2
  <2>2. CHAR_BIT * (i + 1) = CHAR_BIT * i + CHAR_BIT
    BY <1>1
  <2>3. CHAR_BIT * i \in Nat /\ CHAR_BIT * j \in Nat
    BY <1>1
  <2> QED
    BY <1>1, <2>1, <2>2, <2>3
<1>4. \A t \in CexpTypes : Bits(t) \in Nat
  BY <1>1 DEF Bits
<1>5. \A t, u \in CexpTypes : TYPE_SIZE(t) <= TYPE_SIZE(u) => Bits(t) <= Bits(u)
  BY <1>1, <1>2 DEF Bits
<1>6. \A t, u \in CexpTypes : TYPE_SIZE(t) < TYPE_SIZE(u) => Bits(t) < Bits(u)
  BY <1>1, <1>3 DEF Bits
<1>7. LongBits = Bits(TULong) /\ IntBits = LongBits
  BY Sizes DEF LongBits, IntBits, Bits, ExactTarget
<1>8. \A t \in CexpTypes : ~FPQ(t) => Bits(t) <= LongBits
  BY <1>5, <1>7, Sizes
<1>9. \A t \in CexpTypes : Bits(t) \in Widths
  BY DEF Widths
<1> QED
  BY <1>4, <1>5, <1>6, <1>7, <1>8, <1>9, Sizes

-----------------------------------------------------------------------------
(* Conversions *)

\* The values that the promises are about.
LEMMA LawValuesAre ==
    \A x \in LawValues :
        /\ x.type \in CexpTypes \ {TVoid} /\ x = Value(x.type, x.v)
        /\ ~FPQ(x.type) => x.v \in Int /\ x.v \in Numbers(x.type)
        /\ FPQ(x.type) => /\ x.type \in {TFloat, TDouble} /\ RoundTo(x.type, x.v) = x.v
                          /\ x.v \in Int \cup {Inexact}
<1> SUFFICES ASSUME NEW x \in LawValues
             PROVE  /\ x.type \in CexpTypes \ {TVoid} /\ x = Value(x.type, x.v)
                    /\ ~FPQ(x.type) => x.v \in Int /\ x.v \in Numbers(x.type)
                    /\ FPQ(x.type) => /\ x.type \in {TFloat, TDouble} /\ RoundTo(x.type, x.v) = x.v
                                      /\ x.v \in Int \cup {Inexact}
  OBVIOUS
<1>1. \A t, n : Value(t, n).type = t /\ Value(t, n).v = n
  BY DEF Value
<1>2. CASE \E t \in CexpTypes : \E n \in LawNumbers \cap Numbers(t) :
             ~FPQ(t) /\ t # TVoid /\ x = Value(t, n)
  <2>1. PICK t \in CexpTypes : \E n \in LawNumbers \cap Numbers(t) :
             ~FPQ(t) /\ t # TVoid /\ x = Value(t, n)
    BY <1>2
  <2>2. PICK n \in LawNumbers \cap Numbers(t) : ~FPQ(t) /\ t # TVoid /\ x = Value(t, n)
    BY <2>1
  <2>3. x.type = t /\ x.v = n
    BY <1>1, <2>2
  <2>4. n \in Int
    BY DEF Numbers
  <2> QED
    BY <2>2, <2>3, <2>4
<1>3. CASE \E t \in {TFloat, TDouble} : \E n \in LawNumbers : RoundTo(t, n) = n /\ x = Value(t, n)
  <2>1. PICK t \in {TFloat, TDouble} : \E n \in LawNumbers : RoundTo(t, n) = n /\ x = Value(t, n)
    BY <1>3
  <2>2. PICK n \in LawNumbers : RoundTo(t, n) = n /\ x = Value(t, n)
    BY <2>1
  <2>3. x.type = t /\ x.v = n /\ n \in Int \cup {Inexact}
    BY <1>1, <2>2, LawNumbersOK
  <2>4. FPQ(t) /\ t # TVoid /\ t \in CexpTypes
    <3>1. TFloat # TVoid /\ TDouble # TVoid /\ FPQ(TFloat) /\ FPQ(TDouble)
      BY DEF TFloat, TDouble, TVoid, Plain, FPQ, Floating
    <3> QED
      BY <3>1, TypesOf
  <2> QED
    BY <2>2, <2>3, <2>4
<1>4. \/ \E t \in CexpTypes : \E n \in LawNumbers \cap Numbers(t) :
             ~FPQ(t) /\ t # TVoid /\ x = Value(t, n)
      \/ \E t \in {TFloat, TDouble} : \E n \in LawNumbers : RoundTo(t, n) = n /\ x = Value(t, n)
  <2> DEFINE A(t) == {Value(t, n) : n \in LawNumbers \cap Numbers(t)}
             B(t) == {Value(t, n) : n \in {m \in LawNumbers : RoundTo(t, m) = m}}
             whole == {u \in CexpTypes : ~FPQ(u) /\ u # TVoid}
  <2>1. x \in UNION {A(t) : t \in whole} \/ x \in UNION {B(t) : t \in {TFloat, TDouble}}
    BY DEF LawValues
  <2>2. \A t : x \in A(t) => \E n \in LawNumbers \cap Numbers(t) : x = Value(t, n)
    OBVIOUS
  <2>3. \A t : x \in B(t) => \E n \in LawNumbers : RoundTo(t, n) = n /\ x = Value(t, n)
    OBVIOUS
  <2>4. \A t \in whole : t \in CexpTypes /\ ~FPQ(t) /\ t # TVoid
    OBVIOUS
  <2> HIDE DEF A, B, whole
  <2>5. CASE x \in UNION {A(t) : t \in whole}
    <3>1. PICK t \in whole : x \in A(t)
      BY <2>5
    <3> QED
      BY <2>2, <2>4, <3>1
  <2>6. CASE x \in UNION {B(t) : t \in {TFloat, TDouble}}
    <3>1. PICK t \in {TFloat, TDouble} : x \in B(t)
      BY <2>6
    <3> QED
      BY <2>3, <3>1
  <2> QED
    BY <2>1, <2>5, <2>6
<1> QED
  BY <1>2, <1>3, <1>4

\* The number of a type that is not wider is one of the wider type.
LEMMA NumbersGrow ==
    ASSUME ExactTarget, NEW s \in CexpTypes, NEW t \in CexpTypes, ~FPQ(t),
           Bits(s) <= Bits(t), NEW n \in Numbers(s)
    PROVE  n \in Numbers(t)
<1>1. Bits(t) \in Widths /\ Bits(t) \in Nat /\ Bits(s) \in 0..Bits(t) /\ Bits(t) \in 0..Bits(t)
  BY BitsOrdered
<1>2. 2^Bits(s) \in Nat /\ 2^Bits(t) \in Nat /\ 2^Bits(s) <= 2^Bits(t)
  BY <1>1, PowersOrdered
<1> QED
  BY <1>2 DEF Numbers

\* A number that is in a type is not changed by truncation to it.
LEMMA NumberStays ==
    ASSUME ExactTarget, NEW t \in CexpTypes, NEW n \in Numbers(t)
    PROVE  n \in Nat /\ n < 2^Bits(t) /\ n % 2^Bits(t) = n /\ 2^Bits(t) \in Nat \ {0}
<1>1. Bits(t) \in Widths /\ Bits(t) \in Nat /\ Bits(t) \in 0..Bits(t)
  BY BitsOrdered
<1>2. PICK m \in Nat \ {0} : m = 2^Bits(t)
  BY <1>1, PowersOrdered
<1>3. n \in 0..(m - 1)
  BY <1>2 DEF Numbers
<1>4. n % m = n
  BY <1>3
<1> QED
  BY <1>2, <1>3, <1>4

\* A mantissa that has as many bits holds the number.
LEMMA Rounded ==
    ASSUME ExactTarget, NEW t \in {TFloat, TDouble}, NEW n \in Int,
           NEW b \in Nat, b <= Mantissa(t), 0 <= n, n < 2^b
    PROVE  RoundTo(t, n) = n
<1>1. Mantissa(t) \in Widths /\ Mantissa(t) \in Nat
  BY WidthsOK DEF Mantissa, Widths
<1>2. b \in 0..Mantissa(t) /\ Mantissa(t) \in 0..Mantissa(t)
  BY <1>1
<1>3. 2^b \in Nat /\ 2^Mantissa(t) \in Nat /\ 2^b <= 2^Mantissa(t)
  BY <1>1, <1>2, PowersOrdered
<1>4. -(2^Mantissa(t)) < n /\ n < 2^Mantissa(t)
  BY <1>3
<1> QED
  BY <1>4, InexactIsNoNumber DEF RoundTo

\* A floating point type is one of two.
LEMMA FloatingTypes ==
    /\ \A t \in CexpTypes : FPQ(t) <=> t \in {TFloat, TDouble}
    /\ FPQ(TFloat) /\ FPQ(TDouble) /\ TFloat # TDouble
    /\ Mantissa(TFloat) = FloatBits /\ Mantissa(TDouble) = DoubleBits
<1>1. TFloat # TDouble /\ FPQ(TFloat) /\ FPQ(TDouble)
  BY DEF TFloat, TDouble, Plain, FPQ, Floating
<1>2. ASSUME NEW t \in CexpTypes, FPQ(t)
      PROVE  t \in {TFloat, TDouble}
  <2>1. t.kind = "val" /\ t.base \in {"float", "double"}
    BY <1>2 DEF FPQ, Floating
  <2>2. CASE \E b \in Bases : t = Plain(b)
    BY <2>1, <2>2 DEF Plain, TFloat, TDouble
  <2>3. CASE \E b \in Bases : t = Pointer(b)
    BY <2>1, <2>3 DEF Pointer
  <2>4. CASE t \in {TFuncP, TDFuncP}
    BY <2>1, <2>4 DEF TFuncP, TDFuncP
  <2> QED
    BY <2>2, <2>3, <2>4 DEF CexpTypes
<1> QED
  BY <1>1, <1>2 DEF Mantissa

\* A whole number that fits into a floating point type is held by it.
LEMMA WholeToFloating ==
    ASSUME ExactTarget, NEW x \in LawValues, ~FPQ(x.type), NEW t \in {TFloat, TDouble},
           PTRQ(x.type) => t = TDouble, NEW fit \in fits(x, t), fit
    PROVE  RoundTo(t, x.v) = x.v
<1> DEFINE s == x.type
           n == x.v
<1>1. s \in CexpTypes /\ n \in Numbers(s) /\ n \in Int
  BY LawValuesAre
<1> HIDE DEF s, n
<1>2. Bits(s) \in Nat /\ n \in Nat /\ n < 2^Bits(s) /\ Bits(s) <= LongBits /\ LongBits \in Nat
  BY <1>1, BitsOrdered, NumberStays DEF s
<1>3. DoubleBits \in Nat /\ FloatBits \in Nat /\ LongBits <= DoubleBits
      /\ Bits(Plain("short")) <= FloatBits
  BY WidthsOK DEF ExactTarget
<1>4. CASE t = TDouble
  <2>1. Bits(s) <= Mantissa(t)
    BY <1>2, <1>3, <1>4, FloatingTypes
  <2> QED
    BY <1>1, <1>2, <2>1, Rounded DEF n
<1>5. CASE t = TFloat
  <2>1. ~PTRQ(s) /\ FPQ(t) /\ fits(x, t) = {(s \in {TULong, Plain("int")}) => n < 2^FloatBits}
    <3>1. ~PTRQ(s)
      BY <1>5, FloatingTypes DEF s
    <3>2. FPQ(t) /\ ~FPQ(x.type) /\ t = TFloat
      BY <1>5, FloatingTypes
    <3>3. fits(x, t) = {x.type \in {TULong, Plain("int")} => x.v < 2^FloatBits}
      BY <3>2, Zenon DEF fits
    <3> QED
      BY <3>1, <3>2, <3>3 DEF s, n
  <2>2. CASE s \in {TULong, Plain("int")}
    <3>1. n < 2^FloatBits
      BY <2>1, <2>2
    <3>2. FloatBits <= Mantissa(t)
      BY <1>3, <1>5, FloatingTypes
    <3> QED
      BY <1>1, <1>2, <1>3, <3>1, <3>2, Rounded DEF n
  <2>3. CASE s \notin {TULong, Plain("int")}
    <3>1. s \in {TUChar, Plain("short")}
      <4>1. s \in CexpTypes /\ s # TVoid /\ ~FPQ(s) /\ ~PTRQ(s)
        BY <2>1, LawValuesAre DEF s
      <4>2. PICK b \in Bases : s = Plain(b)
        BY <4>1 DEF CexpTypes, PTRQ, Pointer, TFuncP, TDFuncP
      <4>3. b \notin {"void", "float", "double", "int", "long"}
        BY <2>3, <4>1, <4>2 DEF TVoid, FPQ, Plain, Floating, TULong
      <4> QED
        BY <4>2, <4>3 DEF Bases, Integral, Floating, TUChar
    <3>2. Bits(s) <= FloatBits
      <4>1. Plain("short") \in CexpTypes /\ TUChar \in CexpTypes
        BY TypesOf DEF Bases, Integral
      <4>2. SCALARQ(Plain("short")) /\ Bits(Plain("short")) \in Nat /\ Bits(TUChar) \in Nat
        BY <4>1, BitsOrdered DEF SCALARQ, Plain, Integral
      <4>3. TYPE_SIZE(TUChar) <= TYPE_SIZE(Plain("short"))
        BY <4>1, <4>2, Sizes
      <4>4. Bits(TUChar) <= Bits(Plain("short"))
        BY <4>1, <4>3, BitsOrdered
      <4> QED
        BY <1>3, <3>1, <4>2, <4>4
    <3>3. Bits(s) <= Mantissa(t)
      BY <1>5, <3>2, FloatingTypes
    <3> QED
      BY <1>1, <1>2, <3>3, Rounded DEF n
  <2> QED
    BY <2>2, <2>3
<1> QED
  BY <1>4, <1>5

\* A whole number that fits into a type of whole numbers is one of it.
LEMMA WholeToWhole ==
    ASSUME ExactTarget, NEW x \in LawValues, ~FPQ(x.type), NEW t \in CexpTypes, ~FPQ(t),
           NEW fit \in fits(x, t), fit
    PROVE  x.v \in Numbers(t)
<1>1. x.type \in CexpTypes /\ x.v \in Numbers(x.type)
  BY LawValuesAre
<1>2. TYPE_SIZE(x.type) \in Nat /\ TYPE_SIZE(t) \in Nat
  BY <1>1, Sizes
<1>3. CASE TYPE_SIZE(t) < TYPE_SIZE(x.type)
  <2>1. Bits(t) < Bits(x.type) /\ Bits(x.type) <= LongBits /\ IntBits = LongBits
        /\ Bits(t) \in Nat /\ Bits(x.type) \in Nat /\ LongBits \in Nat
    BY <1>1, <1>3, BitsOrdered
  <2>2. ~(Bits(t) >= IntBits)
    BY <2>1
  <2>3. fits(x, t) = {x.v < 2^Bits(t)}
    BY <1>3, <2>2 DEF fits, BelowPower
  <2>4. x.v < 2^Bits(t)
    BY <2>3
  <2>5. x.v \in Nat
    BY <1>1, NumberStays
  <2>6. 2^Bits(t) \in Nat
    BY <2>1, BitsOrdered, PowersOrdered, NumberStays
  <2> QED
    BY <2>4, <2>5, <2>6 DEF Numbers
<1>4. CASE TYPE_SIZE(x.type) <= TYPE_SIZE(t)
  BY <1>1, <1>4, BitsOrdered, NumbersGrow
<1> QED
  BY <1>2, <1>3, <1>4

\* A floating point number that fits into a floating point type is held by it.
LEMMA FloatingToFloating ==
    ASSUME ExactTarget, NEW x \in LawValues, FPQ(x.type), NEW t \in {TFloat, TDouble},
           NEW fit \in fits(x, t), fit
    PROVE  RoundTo(t, x.v) = x.v
<1>1. x.type \in {TFloat, TDouble} /\ RoundTo(x.type, x.v) = x.v /\ x.v \in Int \cup {Inexact}
  BY LawValuesAre
<1>2. CASE x.type = t
  BY <1>1, <1>2
<1>3. CASE x.type = TFloat /\ t = TDouble
  <2>1. CASE x.v = Inexact
    BY <2>1 DEF RoundTo
  <2>2. CASE x.v # Inexact
    <3>1. -(2^FloatBits) < x.v /\ x.v < 2^FloatBits /\ x.v \in Int
      BY <1>1, <1>3, <2>2, FloatingTypes DEF RoundTo
    <3>2. DoubleBits \in Nat /\ DoubleBits \in Widths /\ FloatBits \in 0..DoubleBits
          /\ DoubleBits \in 0..DoubleBits
      BY WidthsOK DEF Widths, ExactTarget
    <3>3. 2^FloatBits \in Nat /\ 2^DoubleBits \in Nat /\ 2^FloatBits <= 2^DoubleBits
      BY <3>2, PowersOrdered
    <3>4. -(2^Mantissa(t)) < x.v /\ x.v < 2^Mantissa(t)
      BY <1>3, <3>1, <3>3, FloatingTypes
    <3> QED
      BY <2>2, <3>4 DEF RoundTo
  <2> QED
    BY <2>1, <2>2
<1>4. CASE x.type = TDouble /\ t = TFloat
  <2>1. FPQ(t) /\ TYPE_SIZE(t) < TYPE_SIZE(x.type)
    BY <1>4, Sizes, FloatingTypes
  <2>2. fits(x, t) = {FALSE}
    BY <2>1, Zenon DEF fits
  <2> QED
    BY <2>2
<1> QED
  BY <1>1, <1>2, <1>3, <1>4

\* A conversion to a type into which a value fits has one result: the same number.
LEMMA ConvertedExact ==
    ASSUME ExactTarget, NEW x \in LawValues, NEW t \in CexpTypes \ {TVoid},
           ~(PTRQ(x.type) /\ t = TFloat), NEW fit \in fits(x, t), fit
    PROVE  Converted(x, t) = {Value(t, x.v)}
<1>1. CASE FPQ(t)
  <2>1. t \in {TFloat, TDouble} /\ (PTRQ(x.type) => t = TDouble)
    BY <1>1, FloatingTypes
  <2>2. RoundTo(t, x.v) = x.v
    BY <2>1, WholeToFloating, FloatingToFloating
  <2> QED
    BY <1>1, <2>2 DEF Converted
<1>2. CASE ~FPQ(t) /\ FPQ(x.type)
  <2>1. fits(x, t) = {FALSE}
    BY <1>2, Zenon DEF fits
  <2> QED
    BY <2>1
<1>3. CASE ~FPQ(t) /\ ~FPQ(x.type)
  <2>1. x.v \in Numbers(t)
    BY <1>3, WholeToWhole
  <2>2. x.v % 2^Bits(t) = x.v
    BY <2>1, NumberStays
  <2>3. Converted(x, t) = {Value(t, x.v % 2^Bits(t))}
    BY <1>3, Zenon DEF Converted
  <2> QED
    BY <2>2, <2>3
<1> QED
  BY <1>1, <1>2, <1>3

\* Conversions without CNV_FORCE lose nothing.
LEMMA ConversionsAreExact ==
    ASSUME ExactTarget
    PROVE  ConversionsExact
<1> SUFFICES ASSUME NEW x \in LawValues, NEW t \in CexpTypes \ {TVoid},
                    ~(PTRQ(x.type) /\ t = TFloat),
                    NEW r \in cexpTypeCast(x, t, FALSE), r.err = "ok"
             PROVE  r.y = Value(t, x.v)
  BY DEF ConversionsExact
<1>1. \A q \in Error : q.err = "error"
  BY DEF Error
<1>2. \A y : \A q \in Ok(y) : q.y = y
  BY DEF Ok
<1>3. r \notin Error
  BY <1>1
<1>4. CASE PTRQ(x.type) /\ PTRQ(t)
  <2>1. r \in Ok(Value(t, x.v))
    BY <1>3, <1>4 DEF cexpTypeCast
  <2> QED
    BY <1>2, <2>1
<1>5. CASE ~(PTRQ(x.type) /\ PTRQ(t))
  <2> DEFINE F(fit) == IF fit THEN UNION {Ok(y) : y \in Converted(x, t)} ELSE Error
  <2>1. r \in UNION {F(fit) : fit \in fits(x, t)}
    BY <1>3, <1>5 DEF cexpTypeCast
  <2>2. PICK fit \in fits(x, t) : r \in F(fit)
    <3> HIDE DEF F
    <3> QED
      BY <2>1
  <2>3. fit /\ \E y \in Converted(x, t) : r \in Ok(y)
    BY <1>3, <2>2
  <2>4. Converted(x, t) = {Value(t, x.v)}
    BY <2>3, ConvertedExact
  <2> QED
    BY <1>2, <2>3, <2>4
<1> QED
  BY <1>4, <1>5

-----------------------------------------------------------------------------
(* Arithmetic *)

\* A value of an integral type.
IsScalar(x) ==
    x.type \in CexpTypes /\ SCALARQ(x.type) /\ x.v \in Numbers(x.type) /\ x = Value(x.type, x.v)

LEMMA ScalarTypes ==
    /\ \A t : SCALARQ(t) => ~PTRQ(t) /\ ~FPQ(t)
    /\ SCALARQ(TULong) /\ SCALARQ(TUChar) /\ TULong \in CexpTypes /\ TUChar \in CexpTypes
    /\ \A t, n : t \in CexpTypes /\ SCALARQ(t) /\ n \in Numbers(t) => IsScalar(Value(t, n))
    /\ \A x \in LawValues : SCALARQ(x.type) => IsScalar(x)
<1>1. \A t : SCALARQ(t) => ~PTRQ(t) /\ ~FPQ(t)
  BY DEF SCALARQ, PTRQ, FPQ, Integral, Floating
<1>2. SCALARQ(TULong) /\ SCALARQ(TUChar)
  BY DEF SCALARQ, TULong, TUChar, Plain, Integral
<1>3. \A t, n : t \in CexpTypes /\ SCALARQ(t) /\ n \in Numbers(t) => IsScalar(Value(t, n))
  BY DEF IsScalar, Value
<1>4. \A x \in LawValues : SCALARQ(x.type) => IsScalar(x)
  BY <1>1, LawValuesAre DEF IsScalar
<1> QED
  BY <1>1, <1>2, <1>3, <1>4, TypesOf

\* A cast to a type that is not narrower.
LEMMA Widened ==
    ASSUME ExactTarget, NEW x, IsScalar(x), NEW t \in CexpTypes, SCALARQ(t),
           TYPE_SIZE(x.type) <= TYPE_SIZE(t)
    PROVE  cexpTypeCast(x, t, FALSE) = Ok(Value(t, x.v)) /\ x.v \in Numbers(t)
<1>1. ~PTRQ(x.type) /\ ~PTRQ(t) /\ ~FPQ(x.type) /\ ~FPQ(t)
  BY ScalarTypes DEF IsScalar
<1>2. x.v \in Numbers(t)
  BY <1>1, BitsOrdered, NumbersGrow DEF IsScalar
<1>3. ~(TYPE_SIZE(t) < TYPE_SIZE(x.type))
  BY Sizes DEF IsScalar
<1>4. fits(x, t) = {TRUE}
  BY <1>1, <1>3, Zenon DEF fits
<1>5. Converted(x, t) = {Value(t, x.v)}
  <2>1. Converted(x, t) = {Value(t, x.v % 2^Bits(t))}
    BY <1>1, Zenon DEF Converted
  <2>2. x.v % 2^Bits(t) = x.v
    BY <1>2, NumberStays
  <2> QED
    BY <2>1, <2>2
<1> DEFINE F(fit) == IF fit THEN UNION {Ok(y) : y \in Converted(x, t)} ELSE Error
<1>6. cexpTypeCast(x, t, FALSE) = UNION {F(fit) : fit \in fits(x, t)}
  BY <1>1, Zenon DEF cexpTypeCast
<1>7. F(TRUE) = Ok(Value(t, x.v))
  BY <1>5
<1>8. UNION {F(fit) : fit \in {TRUE}} = F(TRUE)
  <2> HIDE DEF F
  <2> QED
    OBVIOUS
<1> QED
  <2> HIDE DEF F
  <2> QED
    BY <1>2, <1>4, <1>6, <1>7, <1>8

\* A cast with CNV_FORCE truncates.
LEMMA Narrowed ==
    ASSUME NEW x, SCALARQ(x.type), NEW t, SCALARQ(t)
    PROVE  cexpTypeCast(x, t, TRUE) = Ok(Value(t, x.v % 2^Bits(t)))
<1>1. ~PTRQ(x.type) /\ ~PTRQ(t) /\ ~FPQ(x.type) /\ ~FPQ(t)
  BY ScalarTypes
<1>2. Converted(x, t) = {Value(t, x.v % 2^Bits(t))}
  BY <1>1, Zenon DEF Converted
<1> DEFINE F(fit) == IF fit THEN UNION {Ok(y) : y \in Converted(x, t)} ELSE Error
<1>3. cexpTypeCast(x, t, TRUE) = UNION {F(fit) : fit \in {TRUE}}
  BY <1>1, Zenon DEF cexpTypeCast
<1>4. F(TRUE) = Ok(Value(t, x.v % 2^Bits(t)))
  BY <1>2
<1>5. UNION {F(fit) : fit \in {TRUE}} = F(TRUE)
  <2> HIDE DEF F
  <2> QED
    OBVIOUS
<1> QED
  <2> HIDE DEF F
  <2> QED
    BY <1>3, <1>4, <1>5

\* The wider of two operands' types holds both.
LEMMA WiderType ==
    ASSUME ExactTarget, NEW x, IsScalar(x), NEW y, IsScalar(y)
    PROVE  /\ Wider(x, y) \in CexpTypes /\ SCALARQ(Wider(x, y))
           /\ TYPE_SIZE(x.type) <= TYPE_SIZE(Wider(x, y))
           /\ TYPE_SIZE(y.type) <= TYPE_SIZE(Wider(x, y))
           /\ TYPE_SIZE(Wider(x, y)) = TYPE_SIZE(Wider(y, x))
           /\ TYPE_SIZE(Wider(x, y)) <= TYPE_SIZE(TULong)
           /\ Bits(Wider(x, y)) = Bits(Wider(y, x))
<1>1. /\ TYPE_SIZE(x.type) = BASE_TYPE_SIZE(x.type) /\ TYPE_SIZE(x.type) \in Nat
      /\ TYPE_SIZE(y.type) = BASE_TYPE_SIZE(y.type) /\ TYPE_SIZE(y.type) \in Nat
  BY Sizes DEF IsScalar
<1>2. /\ Wider(x, y) \in {x.type, y.type} /\ Wider(y, x) \in {x.type, y.type}
      /\ TYPE_SIZE(x.type) <= TYPE_SIZE(Wider(x, y)) /\ TYPE_SIZE(y.type) <= TYPE_SIZE(Wider(x, y))
      /\ TYPE_SIZE(x.type) <= TYPE_SIZE(Wider(y, x)) /\ TYPE_SIZE(y.type) <= TYPE_SIZE(Wider(y, x))
  BY <1>1 DEF Wider
<1>3. TYPE_SIZE(Wider(x, y)) = TYPE_SIZE(Wider(y, x))
  BY <1>1, <1>2
<1>4. Wider(x, y) \in CexpTypes /\ SCALARQ(Wider(x, y))
  BY <1>2 DEF IsScalar
<1>5. TYPE_SIZE(Wider(x, y)) <= TYPE_SIZE(TULong)
  BY <1>4, Sizes, ScalarTypes
<1> QED
  BY <1>2, <1>3, <1>4, <1>5 DEF Bits

\* The narrower operand gets the type of the wider one.
LEMMA Promoted ==
    ASSUME ExactTarget, NEW x, IsScalar(x), NEW y, IsScalar(y)
    PROVE  cexpTypePromote(x, y) = Ok(<<Value(Wider(x, y), x.v), Value(Wider(x, y), y.v)>>)
<1>1. ~PTRQ(x.type) /\ ~PTRQ(y.type) /\ ~FPQ(x.type) /\ ~FPQ(y.type)
  BY ScalarTypes DEF IsScalar
<1>2. x = Value(x.type, x.v) /\ y = Value(y.type, y.v)
  BY DEF IsScalar
<1>3. CASE BASE_TYPE_SIZE(x.type) > BASE_TYPE_SIZE(y.type)
  <2> DEFINE F(z) == Ok(<<x, z>>)
  <2>1. Wider(x, y) = x.type
    BY <1>3 DEF Wider
  <2>2. cexpTypePromote(x, y) = Then(cexpTypeCast(y, x.type, FALSE), F)
    <3>1. ~(FPQ(x.type) # FPQ(y.type))
      BY <1>1 DEF FPQ
    <3>2. IF FPQ(x.type) # FPQ(y.type) THEN FPQ(x.type)
          ELSE BASE_TYPE_SIZE(x.type) > BASE_TYPE_SIZE(y.type)
      BY <1>3, <3>1
    <3> QED
      BY <1>1, <3>2, Zenon DEF cexpTypePromote
  <2>3. cexpTypeCast(y, x.type, FALSE) = Ok(Value(x.type, y.v))
    BY <2>1, WiderType, Widened
  <2>4. Then(Ok(Value(x.type, y.v)), F) = F(Value(x.type, y.v))
    <3> HIDE DEF F
    <3> QED
      BY DEF Then, Ok
  <2> QED
    BY <1>2, <2>1, <2>2, <2>3, <2>4
<1>4. CASE ~(BASE_TYPE_SIZE(x.type) > BASE_TYPE_SIZE(y.type))
  <2> DEFINE F(z) == Ok(<<z, y>>)
  <2>1. Wider(x, y) = y.type
    BY <1>4 DEF Wider
  <2>2. cexpTypePromote(x, y) = Then(cexpTypeCast(x, y.type, FALSE), F)
    BY <1>1, <1>4, Zenon DEF cexpTypePromote
  <2>3. cexpTypeCast(x, y.type, FALSE) = Ok(Value(y.type, x.v))
    BY <2>1, WiderType, Widened
  <2>4. Then(Ok(Value(y.type, x.v)), F) = F(Value(y.type, x.v))
    <3> HIDE DEF F
    <3> QED
      BY DEF Then, Ok
  <2> QED
    BY <1>2, <2>1, <2>2, <2>3, <2>4
<1> QED
  BY <1>3, <1>4

\* Operators other than comparisons compute longs and truncate the result.
LEMMA ScalarBinOp ==
    ASSUME ExactTarget, NEW x, IsScalar(x), NEW y, IsScalar(y),
           NEW op \in BinOps \ Comparisons,
           NEW c, OnLongs(op, x.v, y.v) = Ok(Value(TULong, c))
    PROVE  cexpTVBinOp(x, y, op) = Ok(Value(Wider(x, y), c % 2^Bits(Wider(x, y))))
<1> DEFINE w == Wider(x, y)
           u == Value(w, x.v)
           v == Value(w, y.v)
           G(z) == cexpTypeCast(z, u.type, TRUE)
           H(a, b) == Then(OnLongs(op, a.v, b.v), G)
           K(a) == Then(cexpTypeCast(v, TULong, FALSE), LAMBDA b : H(a, b))
           B(xs) == binop(xs[1], xs[2], op)
           la == Value(TULong, x.v)
           lb == Value(TULong, y.v)
<1>1. w \in CexpTypes /\ SCALARQ(w) /\ TYPE_SIZE(x.type) <= TYPE_SIZE(w)
      /\ TYPE_SIZE(y.type) <= TYPE_SIZE(w) /\ TYPE_SIZE(w) <= TYPE_SIZE(TULong)
  BY WiderType
<1>2. IsScalar(u) /\ IsScalar(v) /\ u.type = w /\ v.type = w /\ u.v = x.v /\ v.v = y.v
  <2> HIDE DEF w
  <2>1. x.v \in Numbers(w) /\ y.v \in Numbers(w)
    BY <1>1, Widened
  <2> QED
    BY <1>1, <2>1, ScalarTypes DEF Value
<1>3. cexpTVBinOp(x, y, op) = B(<<u, v>>)
  <2>1. ~PTRQ(x.type) /\ ~PTRQ(y.type) /\ op \notin Comparisons
    BY ScalarTypes DEF IsScalar
  <2>2. cexpTVBinOp(x, y, op) = Then(cexpTypePromote(x, y), B)
    BY <2>1, Zenon DEF cexpTVBinOp
  <2>3. cexpTypePromote(x, y) = Ok(<<u, v>>)
    BY Promoted
  <2> HIDE DEF B, u, v
  <2>4. Then(Ok(<<u, v>>), B) = B(<<u, v>>)
    BY DEF Then, Ok
  <2> QED
    BY <2>2, <2>3, <2>4
<1>4. B(<<u, v>>) = Then(cexpTypeCast(u, TULong, FALSE), K)
  <2>1. B(<<u, v>>) = binop(u, v, op)
    OBVIOUS
  <2>2. SCALARQ(u.type)
    BY <1>1, <1>2
  <2>3. binop(u, v, op) = Then(cexpTypeCast(u, TULong, FALSE), K)
    BY <1>2, <2>2, Zenon DEF binop
  <2> QED
    BY <2>1, <2>3
<1>5. cexpTypeCast(u, TULong, FALSE) = Ok(la) /\ cexpTypeCast(v, TULong, FALSE) = Ok(lb)
  <2> HIDE DEF u, v, w
  <2> QED
    BY <1>1, <1>2, ScalarTypes, Widened
<1>6. Then(Ok(la), K) = K(la)
  <2> HIDE DEF K, la
  <2> QED
    BY DEF Then, Ok
<1>7. K(la) = H(la, lb)
  <2> DEFINE J(b) == H(la, b)
  <2>1. K(la) = Then(Ok(lb), J)
    BY <1>5, Zenon
  <2>2. Then(Ok(lb), J) = J(lb)
    <3> HIDE DEF J, lb
    <3> QED
      BY DEF Then, Ok
  <2> QED
    BY <2>1, <2>2
<1>8. H(la, lb) = G(Value(TULong, c))
  <2>1. la.v = x.v /\ lb.v = y.v
    BY DEF Value
  <2>2. H(la, lb) = Then(OnLongs(op, x.v, y.v), G)
    BY <2>1
  <2>3. Then(Ok(Value(TULong, c)), G) = G(Value(TULong, c))
    <3> HIDE DEF G
    <3> QED
      BY DEF Then, Ok
  <2> QED
    BY <2>2, <2>3
<1>9. G(Value(TULong, c)) = Ok(Value(w, c % 2^Bits(w)))
  <2>1. Value(TULong, c).type = TULong /\ Value(TULong, c).v = c
    BY DEF Value
  <2>2. G(Value(TULong, c)) = cexpTypeCast(Value(TULong, c), w, TRUE)
    BY <1>2
  <2> HIDE DEF w, G
  <2> QED
    BY <1>1, <2>1, <2>2, Narrowed, ScalarTypes
<1> HIDE DEF w, u, v, G, H, K, B, la, lb
<1>10. cexpTVBinOp(x, y, op) = Ok(Value(w, c % 2^Bits(w)))
  BY <1>3, <1>4, <1>5, <1>6, <1>7, <1>8, <1>9
<1> QED
  BY <1>10 DEF w

\* The values of f are got so and are numbers.
Computes(f, n, g) ==
    /\ n \in Nat /\ g \in [(1..n) \X Int -> Int]
    /\ f \in [0..n -> Int] /\ Iterates(f, n, 0, g)

\* So does b as long as its values are numbers.
Follows(b, n, g) ==
    b[0] = 0 /\ \A i \in 1..n : b[i - 1] \in Int => b[i] = g[<<i, b[i - 1]>>]

\* What is computed step by step is computed in one way.
LEMMA OneIteration ==
    ASSUME NEW n, NEW g, NEW f, Computes(f, n, g), NEW b, Follows(b, n, g)
    PROVE  b[n] = f[n]
<1> DEFINE T == {m \in 0..n : b[m] # f[m]}
<1>0. n \in Nat /\ f \in [0..n -> Int] /\ Iterates(f, n, 0, g)
  BY DEF Computes
<1>1. T = {}
  <2>1. SUFFICES ASSUME T # {}
                 PROVE  FALSE
    OBVIOUS
  <2>2. T \in SUBSET (0..n)
    OBVIOUS
  <2>3. PICK m \in T : \A j \in T : m <= j
    <3> HIDE DEF T
    <3> QED
      BY <1>0, <2>1, <2>2, LeastNumber
  <2>4. m \in 1..n /\ m - 1 \in 0..n
    BY <1>0 DEF Iterates, Follows
  <2>5. m - 1 \notin T
    <3> HIDE DEF T
    <3> QED
      BY <2>3, <2>4
  <2>6. b[m - 1] = f[m - 1] /\ f[m - 1] \in Int
    BY <1>0, <2>4, <2>5
  <2>7. b[m] = g[<<m, b[m - 1]>>] /\ f[m] = g[<<m, f[m - 1]>>]
    BY <1>0, <2>4, <2>6 DEF Iterates, Follows
  <2>8. b[m] = f[m]
    BY <2>6, <2>7
  <2> QED
    BY <2>8
<1> QED
  BY <1>0, <1>1

\* The operators on bits.
BitOps == {"OAnd", "OXor", "OOr"}

\* Two bits combined.
Combined(op, x, y) == CASE op = "OAnd" -> x * y
                        [] op = "OXor" -> (x + y) % 2
                        [] op = "OOr" -> x + y - x * y

LEMMA CombinedIs ==
    ASSUME NEW op \in BitOps, NEW x \in Int, NEW y \in Int
    PROVE  Combined(op, x, y) \in Int /\ Combined(op, x, y) = Combined(op, y, x)
<1>1. x * y \in Int /\ x * y = y * x
  BY Ring
<1>2. CASE op = "OAnd"
  BY <1>1, <1>2 DEF Combined
<1>3. CASE op = "OXor"
  <2>1. x + y = y + x /\ (x + y) % 2 \in Int
    OBVIOUS
  <2> QED
    BY <1>3, <2>1 DEF Combined
<1>4. CASE op = "OOr"
  <2>1. PICK p \in Int : p = x * y /\ p = y * x
    BY <1>1
  <2>2. Combined(op, x, y) = x + y - p /\ Combined(op, y, x) = y + x - p
    BY <1>4, <2>1 DEF Combined
  <2> QED
    BY <2>2
<1> QED
  BY <1>2, <1>3, <1>4 DEF BitOps

\* The sums of the combined bits.
Sums(f, op, a, b) ==
    /\ f \in [0..LongBits -> Int] /\ f[0] = 0
    /\ \A i \in 1..LongBits :
         f[i] = f[i - 1] + Combined(op, Bit(a, i - 1), Bit(b, i - 1)) * 2^(i - 1)

LEMMA BitsSummed ==
    ASSUME ExactTarget, NEW op \in BitOps, NEW a \in Int, NEW b \in Int
    PROVE  \E f : Sums(f, op, a, b) /\ BitByBit(op, a, b) = f[LongBits]
<1> DEFINE n == LongBits
           term(i) == Combined(op, Bit(a, i - 1), Bit(b, i - 1)) * 2^(i - 1)
           F(h) == [i \in 0..n |-> IF i = 0 THEN 0 ELSE h[i - 1] + term(i)]
           h == CHOOSE h : h = F(h)
           g == [p \in (1..n) \X Int |-> p[2] + term(p[1])]
<1>1. n \in Nat /\ n \in Widths
  BY BitsOrdered
<1>2. BitByBit(op, a, b) = h[n]
  BY Zenon DEF BitByBit, Combined
<1>3. \A i \in 1..n : term(i) \in Int
  <2> SUFFICES ASSUME NEW i \in 1..n
               PROVE  term(i) \in Int
    OBVIOUS
  <2>1. PICK p \in Nat \ {0} : p = 2^(i - 1)
    <3>1. i - 1 \in 0..n /\ n \in 0..n
      BY <1>1
    <3> HIDE DEF n
    <3> QED
      BY <1>1, <3>1, PowersOfTwo
  <2>2. Bit(a, i - 1) \in Int /\ Bit(b, i - 1) \in Int
    BY <2>1 DEF Bit
  <2>3. \A x, y \in Int : Combined(op, x, y) \in Int
    BY CombinedIs
  <2>4. Combined(op, Bit(a, i - 1), Bit(b, i - 1)) \in Int
    BY <2>2, <2>3
  <2> QED
    BY <2>1, <2>4, Ring
<1> HIDE DEF n, term
<1>4. g \in [(1..n) \X Int -> Int]
  BY <1>3
<1>5. \A i \in 1..n : \A x \in Int : g[<<i, x>>] = x + term(i)
  OBVIOUS
<1> HIDE DEF g
<1>6. PICK f \in [0..n -> Int] : Iterates(f, n, 0, g)
  <2>1. 0 \in Int
    OBVIOUS
  <2> QED
    BY <1>1, <1>4, <2>1, RecursionIn
<1>7. f[0] = 0 /\ \A i \in 1..n : f[i] = f[i - 1] + term(i)
  <2> SUFFICES ASSUME NEW i \in 1..n
               PROVE  f[i] = f[i - 1] + term(i)
    BY <1>6 DEF Iterates
  <2>1. f[i] = g[<<i, f[i - 1]>>] /\ f[i - 1] \in Int
    BY <1>1, <1>6 DEF Iterates
  <2> QED
    BY <1>5, <2>1
<1>8. f = F(f)
  BY <1>1, <1>7
<1>9. h = F(h)
  <2> HIDE DEF F
  <2> QED
    BY <1>8
<1>10. h[0] = 0 /\ \A i \in 1..n : h[i] = h[i - 1] + term(i)
  <2> HIDE DEF h
  <2> QED
    BY <1>1, <1>9
<1> HIDE DEF h
<1>11. h[n] = f[n]
  <2>1. Follows(h, n, g)
    BY <1>5, <1>10 DEF Follows
  <2>2. Computes(f, n, g)
    BY <1>1, <1>4, <1>6 DEF Computes
  <2> QED
    BY <2>1, <2>2, OneIteration
<1>12. BitByBit(op, a, b) = f[n]
  BY <1>1, <1>2, <1>11
<1> QED
  BY <1>7, <1>12 DEF Sums, n, term

\* Bits are combined in the same way in either order.
LEMMA BitsCommute ==
    ASSUME ExactTarget, NEW op \in BitOps, NEW a \in Int, NEW b \in Int
    PROVE  BitByBit(op, a, b) = BitByBit(op, b, a)
<1>1. LongBits \in Nat /\ LongBits \in Widths
  BY BitsOrdered
<1>2. PICK f : Sums(f, op, a, b) /\ BitByBit(op, a, b) = f[LongBits]
  BY BitsSummed
<1>3. PICK h : Sums(h, op, b, a) /\ BitByBit(op, b, a) = h[LongBits]
  BY BitsSummed
<1>4. \A x, y \in Int : Combined(op, x, y) = Combined(op, y, x)
  <2> SUFFICES ASSUME NEW x \in Int, NEW y \in Int
               PROVE  Combined(op, x, y) = Combined(op, y, x)
    OBVIOUS
  <2> QED
    BY CombinedIs
<1>5. \A i \in 1..LongBits : Bit(a, i - 1) \in Int /\ Bit(b, i - 1) \in Int
  <2> SUFFICES ASSUME NEW i \in 1..LongBits
               PROVE  Bit(a, i - 1) \in Int /\ Bit(b, i - 1) \in Int
    OBVIOUS
  <2>1. PICK p \in Nat \ {0} : p = 2^(i - 1)
    <3>1. i - 1 \in 0..LongBits
      BY <1>1
    <3> QED
      BY <1>1, <3>1, PowersOfTwo
  <2> QED
    BY <2>1 DEF Bit
<1> DEFINE term(i) == Combined(op, Bit(a, i - 1), Bit(b, i - 1)) * 2^(i - 1)
           T == {m \in 0..LongBits : f[m] # h[m]}
<1>6. f[0] = 0 /\ \A i \in 1..LongBits : f[i] = f[i - 1] + term(i)
  BY <1>2 DEF Sums
<1>7. h[0] = 0 /\ \A i \in 1..LongBits : h[i] = h[i - 1] + term(i)
  <2>1. \A i \in 1..LongBits : Combined(op, Bit(a, i - 1), Bit(b, i - 1))
                               = Combined(op, Bit(b, i - 1), Bit(a, i - 1))
    BY <1>4, <1>5
  <2> QED
    BY <1>3, <2>1 DEF Sums
<1> HIDE DEF term
<1>8. T = {}
  <2>1. SUFFICES ASSUME T # {}
                 PROVE  FALSE
    OBVIOUS
  <2>2. PICK m \in T : \A j \in T : m <= j
    <3>1. T \in SUBSET (0..LongBits)
      OBVIOUS
    <3> HIDE DEF T
    <3> QED
      BY <1>1, <2>1, <3>1, LeastNumber
  <2>3. m \in 1..LongBits /\ m - 1 \in 0..LongBits
    BY <1>1, <1>6, <1>7
  <2>4. m - 1 \notin T
    <3> HIDE DEF T
    <3> QED
      BY <2>2, <2>3
  <2>5. f[m - 1] = h[m - 1]
    BY <2>3, <2>4
  <2>6. f[m] = h[m]
    BY <1>6, <1>7, <2>3, <2>5
  <2> QED
    BY <2>6
<1> QED
  BY <1>1, <1>2, <1>3, <1>8

\* The results that are defined for all numbers.
LEMMA LongResults ==
    ASSUME NEW a, NEW b
    PROVE  /\ OnLongs("OAdd", a, b) = Ok(Value(TULong, (a + b) % 2^LongBits))
           /\ OnLongs("OSub", a, b) = Ok(Value(TULong, (a - b) % 2^LongBits))
           /\ OnLongs("OMul", a, b) = Ok(Value(TULong, (a * b) % 2^LongBits))
           /\ \A op \in BitOps : OnLongs(op, a, b) = Ok(Value(TULong, BitByBit(op, a, b) % 2^LongBits))
<1>1. OnLongs("OAdd", a, b) = Ok(Value(TULong, (a + b) % 2^LongBits))
  BY DEF OnLongs
<1>2. OnLongs("OSub", a, b) = Ok(Value(TULong, (a - b) % 2^LongBits))
  BY DEF OnLongs
<1>3. OnLongs("OMul", a, b) = Ok(Value(TULong, (a * b) % 2^LongBits))
  BY DEF OnLongs
<1>4. ASSUME NEW op \in BitOps
      PROVE  OnLongs(op, a, b) = Ok(Value(TULong, BitByBit(op, a, b) % 2^LongBits))
  BY DEF OnLongs, BitOps
<1> QED
  BY <1>1, <1>2, <1>3, <1>4

\* The moduli of types divide that of a long.
LEMMA Moduli ==
    ASSUME ExactTarget, NEW t \in CexpTypes, ~FPQ(t)
    PROVE  2^Bits(t) \in Nat \ {0} /\ 2^LongBits \in Nat \ {0}
           /\ \E k \in Nat \ {0} : 2^LongBits = k * 2^Bits(t)
<1>1. LongBits \in Widths /\ LongBits \in Nat /\ Bits(t) \in 0..LongBits /\ LongBits \in 0..LongBits
  BY BitsOrdered
<1> QED
  BY <1>1, PowersDivide

\* Numbers of a type and what is truncated to one are whole numbers.
LEMMA NumbersWhole ==
    ASSUME ExactTarget, NEW t \in CexpTypes, ~FPQ(t)
    PROVE  /\ \A n \in Numbers(t) : n \in Int
           /\ \A n \in Int : n % 2^Bits(t) \in Numbers(t)
<1>1. PICK m \in Nat \ {0} : m = 2^Bits(t)
  BY Moduli
<1>2. Numbers(t) = 0..(m - 1)
  BY <1>1 DEF Numbers
<1> QED
  BY <1>1, <1>2

\* Sums and differences are those modulo the width of the wider operand.
LEMMA SumsModular ==
    ASSUME ExactTarget, NEW x, IsScalar(x), NEW y, IsScalar(y)
    PROVE  /\ cexpTVBinOp(x, y, "OAdd") = Ok(Value(Wider(x, y), (x.v + y.v) % 2^Bits(Wider(x, y))))
           /\ cexpTVBinOp(x, y, "OSub") = Ok(Value(Wider(x, y), (x.v - y.v) % 2^Bits(Wider(x, y))))
<1> DEFINE w == Wider(x, y)
<1>1. w \in CexpTypes /\ SCALARQ(w) /\ ~FPQ(w)
  BY WiderType, ScalarTypes
<1>2. x.v \in Int /\ y.v \in Int
  BY NumbersWhole, ScalarTypes DEF IsScalar
<1>3. "OAdd" \in BinOps \ Comparisons /\ "OSub" \in BinOps \ Comparisons
  BY DEF BinOps, Comparisons
<1>4. ASSUME NEW c \in Int
      PROVE  (c % 2^LongBits) % 2^Bits(w) = c % 2^Bits(w)
  <2> HIDE DEF w
  <2>1. PICK k \in Nat \ {0} : 2^LongBits = k * 2^Bits(w)
    BY <1>1, Moduli
  <2>2. PICK m \in Nat \ {0} : m = 2^Bits(w)
    BY <1>1, Moduli
  <2>3. (c % (k * m)) % m = c % m
    BY ModMod
  <2> QED
    BY <2>1, <2>2, <2>3
<1>5. cexpTVBinOp(x, y, "OAdd") = Ok(Value(w, ((x.v + y.v) % 2^LongBits) % 2^Bits(w)))
  BY <1>3, LongResults, ScalarBinOp
<1>6. cexpTVBinOp(x, y, "OSub") = Ok(Value(w, ((x.v - y.v) % 2^LongBits) % 2^Bits(w)))
  BY <1>3, LongResults, ScalarBinOp
<1>7. x.v + y.v \in Int /\ x.v - y.v \in Int
  BY <1>2
<1> HIDE DEF w
<1>8. /\ cexpTVBinOp(x, y, "OAdd") = Ok(Value(w, (x.v + y.v) % 2^Bits(w)))
      /\ cexpTVBinOp(x, y, "OSub") = Ok(Value(w, (x.v - y.v) % 2^Bits(w)))
  BY <1>4, <1>5, <1>6, <1>7
<1> QED
  BY <1>8 DEF w

\* The operators that commute.
LEMMA OperandsCommute ==
    ASSUME ExactTarget, NEW x, IsScalar(x), NEW y, IsScalar(y),
           NEW op \in {"OAdd", "OMul", "OAnd", "OXor", "OOr"}
    PROVE  {r.y.v : r \in cexpTVBinOp(x, y, op)} = {r.y.v : r \in cexpTVBinOp(y, x, op)}
<1>1. x.v \in Int /\ y.v \in Int
  BY NumbersWhole, ScalarTypes DEF IsScalar
<1>2. op \in BinOps \ Comparisons
  BY DEF BinOps, Comparisons
<1>3. PICK c : OnLongs(op, x.v, y.v) = Ok(Value(TULong, c))
               /\ OnLongs(op, y.v, x.v) = Ok(Value(TULong, c))
  <2>1. CASE op = "OAdd"
    <3>1. x.v + y.v = y.v + x.v
      BY <1>1
    <3> QED
      BY <2>1, <3>1, LongResults
  <2>2. CASE op = "OMul"
    <3>1. x.v * y.v = y.v * x.v
      BY <1>1, Ring
    <3> QED
      BY <2>2, <3>1, LongResults
  <2>3. CASE op \in BitOps
    <3>1. BitByBit(op, x.v, y.v) = BitByBit(op, y.v, x.v)
      BY <1>1, <2>3, BitsCommute
    <3>2. OnLongs(op, x.v, y.v) = Ok(Value(TULong, BitByBit(op, x.v, y.v) % 2^LongBits))
      BY <2>3, LongResults
    <3>3. OnLongs(op, y.v, x.v) = Ok(Value(TULong, BitByBit(op, y.v, x.v) % 2^LongBits))
      BY <2>3, LongResults
    <3> DEFINE c == BitByBit(op, y.v, x.v) % 2^LongBits
    <3>4. OnLongs(op, x.v, y.v) = Ok(Value(TULong, c)) /\ OnLongs(op, y.v, x.v) = Ok(Value(TULong, c))
      BY <3>1, <3>2, <3>3
    <3> HIDE DEF c
    <3> QED
      BY <3>4
  <2> QED
    BY <2>1, <2>2, <2>3 DEF BitOps
<1>4. cexpTVBinOp(x, y, op) = Ok(Value(Wider(x, y), c % 2^Bits(Wider(x, y))))
  BY <1>2, <1>3, ScalarBinOp
<1>5. cexpTVBinOp(y, x, op) = Ok(Value(Wider(y, x), c % 2^Bits(Wider(y, x))))
  BY <1>2, <1>3, ScalarBinOp
<1>6. Bits(Wider(x, y)) = Bits(Wider(y, x))
  BY WiderType
<1>7. \A t, n : {r.y.v : r \in Ok(Value(t, n))} = {n}
  BY DEF Ok, Value
<1> DEFINE n == c % 2^Bits(Wider(x, y))
<1>8. cexpTVBinOp(x, y, op) = Ok(Value(Wider(x, y), n))
  BY <1>4
<1>9. cexpTVBinOp(y, x, op) = Ok(Value(Wider(y, x), n))
  BY <1>5, <1>6
<1> HIDE DEF n
<1>10. {r.y.v : r \in cexpTVBinOp(x, y, op)} = {n}
  BY <1>7, <1>8
<1>11. {r.y.v : r \in cexpTVBinOp(y, x, op)} = {n}
  BY <1>7, <1>9
<1> QED
  BY <1>10, <1>11

\* A number and its negative add up to zero.
LEMMA NegativeCancels ==
    ASSUME ExactTarget, NEW x, IsScalar(x)
    PROVE  cexpTVBinOp(x, Value(x.type, (-x.v) % 2^Bits(x.type)), "OAdd") = Ok(Value(x.type, 0))
<1> DEFINE y == Value(x.type, (-x.v) % 2^Bits(x.type))
<1>1. x.type \in CexpTypes /\ SCALARQ(x.type) /\ ~FPQ(x.type) /\ x.v \in Int
  BY NumbersWhole, ScalarTypes DEF IsScalar
<1>2. PICK m \in Nat \ {0} : m = 2^Bits(x.type)
  BY <1>1, Moduli
<1>3. IsScalar(y) /\ y.type = x.type /\ y.v = (-x.v) % m
  <2>1. -x.v \in Int
    BY <1>1
  <2>2. (-x.v) % 2^Bits(x.type) \in Numbers(x.type)
    BY <1>1, <2>1, NumbersWhole
  <2> QED
    BY <1>1, <1>2, <2>2, ScalarTypes DEF Value
<1>4. Wider(x, y) = x.type
  BY <1>3 DEF Wider
<1> HIDE DEF y
<1>5. cexpTVBinOp(x, y, "OAdd") = Ok(Value(x.type, (x.v + y.v) % m))
  BY <1>2, <1>3, <1>4, SumsModular
<1>6. (x.v + ((-x.v) % (1 * m))) % m = (x.v + (-x.v)) % m
  <2>1. -x.v \in Int /\ 1 \in Nat \ {0}
    BY <1>1
  <2> QED
    BY <1>1, <2>1, ModSum
<1>7. 1 * m = m /\ x.v + (-x.v) = 0 /\ 0 % m = 0
  BY <1>1
<1>8. (x.v + y.v) % m = 0
  BY <1>3, <1>6, <1>7
<1> QED
  BY <1>5, <1>8 DEF y

\* The complement is one less than the negative, also if a long is wider.
LEMMA ComplementNegates ==
    ASSUME ExactTarget, NEW x, IsScalar(x)
    PROVE  Then(cexpTVUnOp(x, "OCpl"), LAMBDA z : cexpTVBinOp(z, Value(TUChar, 1), "OAdd"))
             = cexpTVUnOp(x, "ONeg")
<1> DEFINE one == Value(TUChar, 1)
           A(z) == cexpTVBinOp(z, one, "OAdd")
           C(y) == cexpTypeCast(Value(TULong, 2^LongBits - 1 - y.v), x.type, TRUE)
           lx == Value(TULong, x.v)
           c == 2^LongBits - 1 - x.v
           z == Value(x.type, c % 2^Bits(x.type))
<1>1. x.type \in CexpTypes /\ SCALARQ(x.type) /\ ~FPQ(x.type) /\ x.v \in Int
  BY NumbersWhole, ScalarTypes DEF IsScalar
<1>2. PICK m \in Nat \ {0} : m = 2^Bits(x.type)
  BY <1>1, Moduli
<1>3. PICK k \in Nat \ {0} : 2^LongBits = k * m
  BY <1>1, <1>2, Moduli
<1>4. c \in Int
  <2>1. 2^LongBits \in Int
    BY <1>1, Moduli
  <2> QED
    BY <1>1, <2>1
<1>5. cexpTVUnOp(x, "OCpl") = Ok(z)
  <2>1. cexpTVUnOp(x, "OCpl") = Then(cexpTypeCast(x, TULong, FALSE), C)
    BY <1>1 DEF cexpTVUnOp
  <2>2. cexpTypeCast(x, TULong, FALSE) = Ok(lx)
    <3>1. TYPE_SIZE(x.type) <= TYPE_SIZE(TULong)
      BY <1>1, Sizes
    <3> QED
      BY <3>1, ScalarTypes, Widened
  <2>3. Then(Ok(lx), C) = C(lx)
    <3> HIDE DEF C, lx
    <3> QED
      BY DEF Then, Ok
  <2>4. lx.v = x.v /\ Value(TULong, c).type = TULong /\ Value(TULong, c).v = c
    BY DEF Value
  <2>5. C(lx) = cexpTypeCast(Value(TULong, c), x.type, TRUE)
    BY <2>4
  <2> HIDE DEF C, lx, c
  <2>6. cexpTypeCast(Value(TULong, c), x.type, TRUE) = Ok(z)
    BY <1>1, <2>4, Narrowed, ScalarTypes
  <2> QED
    BY <2>1, <2>2, <2>3, <2>5, <2>6
<1>6. IsScalar(z) /\ z.type = x.type /\ z.v = c % m
  <2> HIDE DEF c
  <2>1. c % 2^Bits(x.type) \in Numbers(x.type)
    BY <1>1, <1>4, NumbersWhole
  <2> QED
    BY <1>1, <1>2, <2>1, ScalarTypes DEF Value
<1>7. IsScalar(one) /\ one.v = 1 /\ one.type = TUChar
  <2>1. TUChar \in CexpTypes /\ SCALARQ(TUChar) /\ ~FPQ(TUChar)
    BY ScalarTypes
  <2>2. Bits(TUChar) \in Nat /\ Bits(TUChar) \in Widths /\ Bits(TUChar) # 0
    <3>1. CHAR_BIT \in Nat \ {0} /\ TYPE_SIZE(TUChar) \in Nat \ {0}
      BY <2>1, WidthsOK, Sizes DEF ExactTarget
    <3> QED
      BY <2>1, <3>1, BitsOrdered DEF Bits
  <2>3. 1 \in 0..Bits(TUChar) /\ Bits(TUChar) \in 0..Bits(TUChar) /\ 0 \in 0..Bits(TUChar)
    BY <2>2
  <2>4. 2^1 <= 2^Bits(TUChar) /\ 2^Bits(TUChar) \in Nat
    BY <2>2, <2>3, PowersOrdered
  <2>5. 2^(0 + 1) = 2 * 2^0
    BY <2>2, <2>3, PowersOfTwo
  <2>6. 1 \in Numbers(TUChar)
    BY <2>4, <2>5 DEF Numbers
  <2> QED
    BY <2>1, <2>6, ScalarTypes DEF Value
<1>8. Wider(z, one) = x.type
  <2>1. x.type = TUChar \/ BASE_TYPE_SIZE(x.type) > BASE_TYPE_SIZE(TUChar)
    <3>1. /\ TYPE_SIZE(TUChar) = SizeOf["char"] /\ BASE_TYPE_SIZE(TUChar) = TYPE_SIZE(TUChar)
          /\ TYPE_SIZE(x.type) = BASE_TYPE_SIZE(x.type)
          /\ (x.type # TUChar => TYPE_SIZE(x.type) > SizeOf["char"])
      BY <1>1, Sizes, ScalarTypes
    <3> QED
      BY <3>1
  <2> HIDE DEF z, one
  <2> QED
    BY <1>6, <1>7, <2>1 DEF Wider
<1>9. A(z) = Ok(Value(x.type, (z.v + 1) % m))
  <2> HIDE DEF z, one
  <2> QED
    BY <1>2, <1>6, <1>7, <1>8, SumsModular
<1>10. (z.v + 1) % m = (-x.v) % m
  <2> HIDE DEF c, z
  <2>1. (1 + (c % (1 * m))) % m = (1 + c) % m
    <3>1. 1 \in Int /\ 1 \in Nat \ {0}
      OBVIOUS
    <3> QED
      BY <1>4, <3>1, ModSum
  <2>2. 1 * m = m /\ c % m \in Int /\ (c % m) + 1 = 1 + (c % m)
    BY <1>4
  <2>3. k * m \in Int
    BY Ring
  <2>4. 1 + c = -x.v + k * m
    BY <1>1, <1>3, <2>3 DEF c
  <2>5. (-x.v + k * m) % m = (-x.v) % m
    <3>1. PICK u \in Int : u = -x.v
      BY <1>1
    <3>2. (u + k * m) % m = u % m
      <4>1. k \in Int
        OBVIOUS
      <4> QED
        BY <4>1, ModShift
    <3> QED
      BY <3>1, <3>2
  <2> QED
    BY <1>6, <2>1, <2>2, <2>4, <2>5
<1>11. cexpTVUnOp(x, "ONeg") = Ok(Value(x.type, (-x.v) % m))
  BY <1>1, <1>2 DEF cexpTVUnOp
<1>12. Then(cexpTVUnOp(x, "OCpl"), A) = A(z)
  <2> HIDE DEF A, z
  <2>1. Then(Ok(z), A) = A(z)
    BY DEF Then, Ok
  <2> QED
    BY <1>5, <2>1
<1>13. Then(cexpTVUnOp(x, "OCpl"), A) = cexpTVUnOp(x, "ONeg")
  <2> HIDE DEF A, z
  <2> QED
    BY <1>9, <1>10, <1>11, <1>12
<1> QED
  BY <1>13, Zenon

\* Arithmetic is modulo the width of the wider operand.
LEMMA ArithmeticIsModular ==
    ASSUME ExactTarget
    PROVE  ModularArithmetic
<1> SUFFICES ASSUME NEW x \in LawValues, NEW y \in LawValues, Scalars(x, y)
             PROVE  /\ cexpTVBinOp(x, y, "OAdd") = Ok(Value(Wider(x, y), (x.v + y.v) % 2^Bits(Wider(x, y))))
                    /\ cexpTVBinOp(x, y, "OSub") = Ok(Value(Wider(x, y), (x.v - y.v) % 2^Bits(Wider(x, y))))
                    /\ \A op \in {"OAdd", "OMul", "OAnd", "OXor", "OOr"} :
                         {r.y.v : r \in cexpTVBinOp(x, y, op)} = {r.y.v : r \in cexpTVBinOp(y, x, op)}
                    /\ cexpTVBinOp(x, Value(x.type, (-x.v) % 2^Bits(x.type)), "OAdd") = Ok(Value(x.type, 0))
                    /\ Then(cexpTVUnOp(x, "OCpl"), LAMBDA z : cexpTVBinOp(z, Value(TUChar, 1), "OAdd"))
                         = cexpTVUnOp(x, "ONeg")
  BY Zenon DEF ModularArithmetic
<1>1. IsScalar(x) /\ IsScalar(y)
  BY ScalarTypes DEF Scalars
<1>2. /\ cexpTVBinOp(x, y, "OAdd") = Ok(Value(Wider(x, y), (x.v + y.v) % 2^Bits(Wider(x, y))))
      /\ cexpTVBinOp(x, y, "OSub") = Ok(Value(Wider(x, y), (x.v - y.v) % 2^Bits(Wider(x, y))))
  BY <1>1, SumsModular
<1>3. \A op \in {"OAdd", "OMul", "OAnd", "OXor", "OOr"} :
        {r.y.v : r \in cexpTVBinOp(x, y, op)} = {r.y.v : r \in cexpTVBinOp(y, x, op)}
  BY <1>1, OperandsCommute
<1>4. cexpTVBinOp(x, Value(x.type, (-x.v) % 2^Bits(x.type)), "OAdd") = Ok(Value(x.type, 0))
  BY <1>1, NegativeCancels
<1>5. Then(cexpTVUnOp(x, "OCpl"), LAMBDA z : cexpTVBinOp(z, Value(TUChar, 1), "OAdd"))
        = cexpTVUnOp(x, "ONeg")
  BY <1>1, ComplementNegates, Zenon
<1> QED
  BY <1>2, <1>3, <1>4, <1>5, Zenon

-----------------------------------------------------------------------------
(* Pointers *)

\* The elements that pointers point to have a size.
LEMMA ElementSize ==
    ASSUME ExactTarget, NEW t \in CexpTypes, t.kind = "ptr", t.base # "void"
    PROVE  BASE_TYPE_SIZE(t) \in Nat \ {0}
<1>1. t.base \in {"char", "short", "int", "long", "float", "double"}
  <2>1. t.base \in Bases
    BY TypesOf
  <2> QED
    BY <2>1 DEF Bases, Integral, Floating
<1>2. t # Pointer("void")
  BY DEF Pointer
<1>3. BASE_TYPE_SIZE(t) = SizeOf[t.base]
  BY <1>2 DEF BASE_TYPE_SIZE
<1>4. \A b \in {"char", "short", "int", "long", "float", "double"} : SizeOf[b] \in Nat
  BY WidthsOK DEF Bases, Integral, Floating
<1> QED
  BY <1>1, <1>3, <1>4 DEF ExactTarget

\* A number of elements and what it is in chars.
LEMMA WholeElements ==
    ASSUME NEW s \in Nat \ {0}, NEW d \in Nat, d % s = 0
    PROVE  d \div s \in 0..d /\ (d \div s) * s = d
<1>1. PICK q \in Int : q = d \div s
  OBVIOUS
<1>2. q * s + (d % s) = d
  BY <1>1
<1>3. q * s = d /\ q * s \in Int
  <2>1. q * s \in Int
    BY Ring
  <2> QED
    BY <1>2, <2>1
<1>4. q >= 0
  <2>1. SUFFICES ASSUME q < 0
                 PROVE  FALSE
    OBVIOUS
  <2>2. q + 1 <= 0
    BY <2>1
  <2>3. (q + 1) * s <= 0
    <3>1. PICK j \in Nat : j = -(q + 1)
      BY <2>2
    <3>2. j * s >= 0
      BY <3>1
    <3>3. (j + (q + 1)) * s = j * s + (q + 1) * s
      BY Ring
    <3>4. j + (q + 1) = 0 /\ 0 * s = 0
      BY <3>1
    <3>5. j * s \in Int /\ (q + 1) * s \in Int
      BY Ring
    <3> QED
      BY <3>2, <3>3, <3>4, <3>5
  <2>4. (q + 1) * s = q * s + 1 * s
    BY Ring
  <2> QED
    BY <1>3, <2>3, <2>4
<1>5. q <= q * s
  BY <1>4
<1> QED
  BY <1>1, <1>3, <1>4, <1>5

\* The difference of pointers takes the one to the other.
LEMMA PointersGoBack ==
    ASSUME ExactTarget
    PROVE  ReturningPointers
<1> SUFFICES ASSUME NEW p \in LawValues, NEW q \in LawValues, p.type.kind = "ptr",
                    q.type = p.type, p.type.base # "void",
                    NEW r \in cexpTVBinOp(p, q, "OSub"), r.err = "ok"
             PROVE  cexpTVBinOp(q, r.y, "OAdd") = Ok(p)
  BY DEF ReturningPointers
<1> DEFINE t == p.type
           s == BASE_TYPE_SIZE(t)
           diff == (p.v - q.v) % 2^LongBits
           n == Value(TULong, diff \div s)
<1>1. t \in CexpTypes /\ PTRQ(t) /\ ~FPQ(t) /\ s \in Nat \ {0}
      /\ p.v \in Numbers(t) /\ q.v \in Numbers(t) /\ p.v \in Int /\ q.v \in Int /\ p = Value(t, p.v)
  <2>1. PTRQ(t) /\ ~FPQ(t)
    BY DEF PTRQ, FPQ
  <2> QED
    BY <2>1, LawValuesAre, ElementSize
<1>2. PICK m \in Nat \ {0} : m = 2^Bits(t)
  BY <1>1, Moduli
<1>3. PICK k \in Nat \ {0} : 2^LongBits = k * m
  BY <1>1, <1>2, Moduli
<1>4. diff \in Numbers(TULong) /\ diff \in Nat
  <2>1. p.v - q.v \in Int /\ LongBits = Bits(TULong) /\ ~FPQ(TULong) /\ TULong \in CexpTypes
    BY <1>1, BitsOrdered, ScalarTypes
  <2>2. diff \in Numbers(TULong)
    BY <2>1, NumbersWhole
  <2> QED
    BY <2>1, <2>2, NumberStays
<1>5. diff % s = 0 /\ r.y = n
  <2>1. "OSub" \notin Comparisons /\ PTRQ(q.type)
    BY <1>1 DEF Comparisons
  <2>2. r \in PointerDiff(p, q, "OSub")
    BY <1>1, <2>1, Zenon DEF cexpTVBinOp
  <2>3. r \notin Error
    BY DEF Error
  <2>4. r \in Ok(Value(TULong, diff \div s)) /\ ~(diff % s # 0)
    BY <2>2, <2>3, Zenon DEF PointerDiff
  <2> QED
    BY <2>4 DEF Ok
<1>6. diff \div s \in 0..diff /\ (diff \div s) * s = diff
  <2> HIDE DEF diff, s
  <2> QED
    BY <1>1, <1>4, <1>5, WholeElements
<1>7. IsScalar(n) /\ n.type = TULong /\ n.v = diff \div s
  <2> HIDE DEF diff, s
  <2>1. diff \div s \in Numbers(TULong)
    <3>1. PICK b \in Nat : Numbers(TULong) = 0..(b - 1)
      <4>1. 2^Bits(TULong) \in Nat
        BY Moduli, ScalarTypes
      <4> QED
        BY <4>1 DEF Numbers
    <3> QED
      BY <1>4, <1>6, <3>1
  <2> QED
    BY <2>1, ScalarTypes DEF Value
<1> DEFINE F(y) == LET d == y.v * BASE_TYPE_SIZE(q.type) IN
             Ok(Value(q.type, (IF "OAdd" = "OSub" THEN q.v - d ELSE q.v + d) % 2^Bits(q.type)))
<1>8. cexpTypeCast(n, TULong, FALSE) = Ok(Value(TULong, n.v))
  <2>1. TYPE_SIZE(TULong) <= TYPE_SIZE(TULong)
    BY Sizes
  <2> HIDE DEF n
  <2> QED
    BY <1>7, <2>1, ScalarTypes, Widened
<1>9. cexpTVBinOp(q, n, "OAdd") = PointerStep(q, n, "OAdd")
  <2>1. "OAdd" \notin Comparisons /\ PTRQ(q.type) /\ ~PTRQ(n.type)
    BY <1>1, <1>7, ScalarTypes DEF Comparisons
  <2> HIDE DEF n
  <2> QED
    BY <2>1, Zenon DEF cexpTVBinOp
<1>10. PointerStep(q, n, "OAdd") = Then(cexpTypeCast(n, TULong, FALSE), F)
  <2> HIDE DEF n
  <2>1. ~(\A a \in cexpTypeCast(n, TULong, FALSE) : a.err # "ok")
    <3> DEFINE a == [err |-> "ok", y |-> Value(TULong, n.v)]
    <3>1. a \in Ok(Value(TULong, n.v)) /\ a.err = "ok"
      BY DEF Ok
    <3> HIDE DEF a
    <3> QED
      BY <1>8, <3>1
  <2> QED
    BY <2>1, Zenon DEF PointerStep
<1>11. Then(Ok(Value(TULong, n.v)), F) = F(Value(TULong, n.v))
  <2> HIDE DEF F, n
  <2> QED
    BY DEF Then, Ok
<1>12. F(Value(TULong, n.v)) = Ok(Value(t, (q.v + diff) % m))
  <2>1. Value(TULong, n.v).v = n.v /\ n.v * BASE_TYPE_SIZE(q.type) = diff
    <3> HIDE DEF n, diff
    <3> QED
      BY <1>6, <1>7 DEF Value
  <2>2. F(Value(TULong, n.v)) = Ok(Value(q.type, (q.v + diff) % 2^Bits(q.type)))
    <3> HIDE DEF n, diff
    <3> QED
      BY <2>1
  <2> QED
    BY <1>2, <2>2
<1>13. (q.v + diff) % m = p.v
  <2>1. PICK a \in Int : a = p.v - q.v
    BY <1>1
  <2>2. (q.v + (a % (k * m))) % m = (q.v + a) % m
    BY <1>1, ModSum
  <2>3. q.v + a = p.v
    BY <1>1, <2>1
  <2>4. p.v % m = p.v
    BY <1>1, <1>2, NumberStays
  <2> QED
    BY <1>3, <2>1, <2>2, <2>3, <2>4
<1> HIDE DEF F, n, diff, t
<1> QED
  BY <1>1, <1>5, <1>8, <1>9, <1>10, <1>11, <1>12, <1>13

-----------------------------------------------------------------------------
(* Function calls *)

\* A bit behind the last one is shifted out.
LEMMA ShiftedOut ==
    ASSUME NEW a \in Nat, NEW p \in Nat \ {0}, NEW b \in {0, 1}
    PROVE  (2 * a + b) \div (2 * p) = a \div p
<1>1. PICK q \in Int, r \in 0..(p - 1) : a = q * p + r /\ q = a \div p
  <2>1. a \div p \in Int /\ a % p \in 0..(p - 1) /\ a = (a \div p) * p + (a % p)
    OBVIOUS
  <2> QED
    BY <2>1
<1>2. q * p \in Int /\ q * (2 * p) = 2 * (q * p)
  <2>1. q * (2 * p) = (q * 2) * p /\ q * 2 = 2 * q /\ 2 * (q * p) = (2 * q) * p
    BY Ring
  <2> QED
    BY <2>1, Ring
<1>3. 2 * r + b \in 0..((2 * p) - 1) /\ 2 * p \in Nat \ {0} /\ 2 * a + b \in Int
  BY <1>1
<1>4. 2 * a + b = q * (2 * p) + (2 * r + b)
  BY <1>1, <1>2
<1>5. (2 * a + b) \div (2 * p) = q
  BY <1>1, <1>3, <1>4, DivMod
<1> QED
  BY <1>1, <1>5

\* The bit of argument i.
ArgBit(args, i) == IF i <= Len(args) /\ FPQ(args[i].type) THEN 1 ELSE 0

\* The masks of the first arguments.
Masks(f, args, n) ==
    /\ f \in [0..n -> Nat] /\ f[0] = 0
    /\ \A i \in 1..n : f[i] = 2 * f[i - 1] + ArgBit(args, i)

LEMMA MaskBy ==
    ASSUME NEW n \in Nat, NEW args
    PROVE  \E f : Masks(f, args, n) /\ Mask(args, n) = f[n]
<1> DEFINE F(h) == [i \in 0..n |-> IF i = 0 THEN 0 ELSE 2 * h[i - 1] + ArgBit(args, i)]
           h == CHOOSE h : h = F(h)
           g == [p \in (1..n) \X Int |-> 2 * p[2] + ArgBit(args, p[1])]
           ng == [p \in (1..n) \X Nat |-> 2 * p[2] + ArgBit(args, p[1])]
<1>1. Mask(args, n) = h[n]
  BY Zenon DEF Mask, ArgBit
<1>2. \A i : ArgBit(args, i) \in {0, 1}
  BY DEF ArgBit
<1>3. g \in [(1..n) \X Int -> Int] /\ ng \in [(1..n) \X Nat -> Nat]
  BY <1>2
<1>4. (\A i \in 1..n : \A x \in Int : g[<<i, x>>] = 2 * x + ArgBit(args, i))
      /\ (\A i \in 1..n : \A x \in Nat : ng[<<i, x>>] = 2 * x + ArgBit(args, i))
  OBVIOUS
<1> HIDE DEF g, ng
<1>5. PICK f \in [0..n -> Nat] : Iterates(f, n, 0, ng)
  BY <1>3, RecursionIn
<1>6. f[0] = 0 /\ \A i \in 1..n : f[i] = 2 * f[i - 1] + ArgBit(args, i)
  <2> SUFFICES ASSUME NEW i \in 1..n
               PROVE  f[i] = 2 * f[i - 1] + ArgBit(args, i)
    BY <1>5 DEF Iterates
  <2>1. f[i] = ng[<<i, f[i - 1]>>] /\ f[i - 1] \in Nat
    BY <1>5 DEF Iterates
  <2> QED
    BY <1>4, <2>1
<1>7. f = F(f)
  BY <1>6
<1>8. h = F(h)
  <2> HIDE DEF F
  <2> QED
    BY <1>7
<1>9. h[0] = 0 /\ \A i \in 1..n : h[i] = 2 * h[i - 1] + ArgBit(args, i)
  <2> HIDE DEF h
  <2> QED
    BY <1>8
<1> HIDE DEF h
<1>10. h[n] = f[n]
  <2>1. Follows(h, n, g)
    BY <1>4, <1>9 DEF Follows
  <2>2. Computes(f, n, g)
    <3>1. f \in [0..n -> Int]
      OBVIOUS
    <3>2. Iterates(f, n, 0, g)
      BY <1>4, <1>6, <3>1 DEF Iterates
    <3> QED
      BY <1>3, <3>1, <3>2 DEF Computes
  <2> QED
    BY <2>1, <2>2, OneIteration
<1> QED
  BY <1>1, <1>6, <1>10 DEF Masks

\* The mask up to argument i is that of more arguments without the last ones.
LEMMA MaskShifted ==
    ASSUME NEW n \in Nat, \A d \in 0..n : 2^d \in Nat \ {0} /\ 2^(d + 1) = 2 * 2^d,
           NEW args, NEW f, Masks(f, args, n), NEW i \in 0..n
    PROVE  \A d \in 0..(n - i) : f[i + d] \div 2^d = f[i]
<1> DEFINE T == {d \in 0..(n - i) : f[i + d] \div 2^d # f[i]}
<1>1. f \in [0..n -> Nat] /\ \A j \in 1..n : f[j] = 2 * f[j - 1] + ArgBit(args, j)
  BY DEF Masks
<1>2. \A j : ArgBit(args, j) \in {0, 1}
  BY DEF ArgBit
<1>3. T = {}
  <2>1. SUFFICES ASSUME T # {}
                 PROVE  FALSE
    OBVIOUS
  <2>2. PICK d \in T : \A j \in T : d <= j
    <3>1. T \in SUBSET (0..(n - i)) /\ n - i \in Nat
      OBVIOUS
    <3> HIDE DEF T
    <3> QED
      BY <2>1, <3>1, LeastNumber
  <2>3. d # 0
    <3>1. i + 0 = i /\ f[i] \in Nat /\ 2^0 = 1
      BY <1>1
    <3>2. f[i] \div 1 = f[i]
      BY <3>1
    <3> QED
      BY <3>1, <3>2
  <2>4. d \in 1..(n - i) /\ d - 1 \in 0..(n - i) /\ d - 1 \in 0..n /\ (d - 1) + 1 = d
        /\ i + d \in 1..n /\ (i + d) - 1 = i + (d - 1) /\ i + (d - 1) \in 0..n
    BY <2>3
  <2>5. f[i + (d - 1)] \div 2^(d - 1) = f[i]
    <3>1. d - 1 \notin T
      <4> HIDE DEF T
      <4> QED
        BY <2>2, <2>4
    <3> QED
      BY <2>4, <3>1
  <2>6. PICK p \in Nat \ {0} : p = 2^(d - 1) /\ 2^d = 2 * p
    BY <2>4
  <2>7. PICK a \in Nat : a = f[i + (d - 1)] /\ f[i + d] = 2 * a + ArgBit(args, i + d)
    BY <1>1, <2>4
  <2>8. (2 * a + ArgBit(args, i + d)) \div (2 * p) = a \div p
    BY <1>2, ShiftedOut
  <2>9. f[i + d] \div 2^d = f[i]
    BY <2>5, <2>6, <2>7, <2>8
  <2> QED
    BY <2>9
<1> QED
  BY <1>3

\* A wrapper reads an argument as a double if it is one.
LEMMA MaskBits ==
    ASSUME NEW args, NEW i \in 1..MAXBITS
    PROVE  ReadsDouble(Mask(args, MAXBITS), i) <=> ArgBit(args, i) = 1
<1>1. MAXBITS \in Nat /\ MAXBITS \in Widths
  BY WidthsOK DEF Widths
<1>2. \A d \in 0..MAXBITS : 2^d \in Nat \ {0} /\ 2^(d + 1) = 2 * 2^d
  BY <1>1, PowersOfTwo
<1>3. PICK f : Masks(f, args, MAXBITS) /\ Mask(args, MAXBITS) = f[MAXBITS]
  BY <1>1, MaskBy
<1>4. i \in 0..MAXBITS /\ MAXBITS - i \in 0..(MAXBITS - i) /\ i + (MAXBITS - i) = MAXBITS
  BY <1>1
<1>5. f[i + (MAXBITS - i)] \div 2^(MAXBITS - i) = f[i]
  BY <1>1, <1>2, <1>3, <1>4, MaskShifted
<1>6. Bit(f[MAXBITS], MAXBITS - i) = f[i] % 2
  BY <1>4, <1>5 DEF Bit
<1>7. f[i - 1] \in Nat /\ f[i] = 2 * f[i - 1] + ArgBit(args, i)
  BY <1>1, <1>3 DEF Masks
<1>8. ArgBit(args, i) \in {0, 1}
  BY DEF ArgBit
<1>9. f[i] % 2 = ArgBit(args, i)
  BY <1>7, <1>8
<1> QED
  BY <1>3, <1>6, <1>9 DEF ReadsDouble

\* Every function gets its arguments in the classes of their types.
LEMMA CallsClassed == ClassesOfCalls
<1> DEFINE one(b) == Value(Plain(b), 1)
           S == {one("char"), one("float"), one("double")}
           Lists == UNION {[1..n -> S] : n \in 0..(MAXARGS + 1)}
           fn == Value(TFuncP, 1)
<1> SUFFICES ASSUME NEW args \in Lists, NEW r \in cexpTVFnCall(fn, args), r.err = "ok",
                    NEW i \in DOMAIN r.y
             PROVE  r.y[i] = IF i <= Len(args) /\ FPQ(args[i].type) THEN "double" ELSE "long"
  BY Zenon DEF ClassesOfCalls
<1>1. PICK n \in 0..(MAXARGS + 1) : args \in [1..n -> S]
  <2> HIDE DEF S
  <2> QED
    OBVIOUS
<1>2. Len(args) = n /\ DOMAIN args = 1..n /\ n \in Nat
  <2> HIDE DEF S
  <2>1. n \in Nat /\ args \in Seq(S)
    BY <1>1, WidthsOK
  <2> QED
    BY <1>1, <2>1
<1> HIDE DEF S, Lists, fn
<1> DEFINE fp == \E j \in DOMAIN args : FPQ(args[j].type)
           bad == ~FUNQ(fn.type) \/ fn.v = 0 \/ Len(args) > MAXARGS \/ (fp /\ Len(args) > MAXBITS)
                    \/ \E j \in DOMAIN args : \A q \in Passed(args[j]) : q.err # "ok"
           passed == [j \in 1..(IF fp THEN MAXBITS ELSE MAXARGS) |->
                        IF fp /\ ReadsDouble(Mask(args, MAXBITS), j) THEN "double" ELSE "long"]
<1>3. r \in IF bad THEN Error ELSE Ok(passed)
  BY Zenon DEF cexpTVFnCall
<1>4. ~bad /\ r.y = passed
  <2> HIDE DEF bad, passed
  <2> QED
    BY <1>3 DEF Error, Ok
<1>5. i \in 1..(IF fp THEN MAXBITS ELSE MAXARGS)
      /\ r.y[i] = IF fp /\ ReadsDouble(Mask(args, MAXBITS), i) THEN "double" ELSE "long"
  <2> HIDE DEF bad, fp
  <2> QED
    BY <1>4
<1>6. CASE fp
  <2>1. i \in 1..MAXBITS
    BY <1>5, <1>6
  <2>2. ReadsDouble(Mask(args, MAXBITS), i) <=> ArgBit(args, i) = 1
    BY <2>1, MaskBits
  <2>3. ArgBit(args, i) = 1 <=> (i <= Len(args) /\ FPQ(args[i].type))
    BY DEF ArgBit
  <2> HIDE DEF fp
  <2> QED
    BY <1>5, <1>6, <2>2, <2>3
<1>7. CASE ~fp
  <2>1. i \in Nat \ {0}
    BY <1>5, WidthsOK
  <2>2. ~(i <= Len(args) /\ FPQ(args[i].type))
    BY <1>2, <1>7, <2>1
  <2> HIDE DEF fp
  <2> QED
    BY <1>5, <1>7, <2>2
<1> QED
  BY <1>6, <1>7

-----------------------------------------------------------------------------

(***************************************************************************)
(* The type engine is exact on every target for which the comments of      *)
(* ctyps.c hold, for types of any widths and for all values: conversions    *)
(* that are not forced keep the number, integral arithmetic is C's, modulo  *)
(* the width of the wider operand, differences of pointers undo their       *)
(* steps, and a function gets each argument in the class of its type.       *)
(***************************************************************************)
THEOREM EngineIsExact ==
    ASSUME ExactTarget
    PROVE  Spec => []EngineExact
<1>1. ConversionsExact /\ ModularArithmetic /\ ReturningPointers /\ ClassesOfCalls
  BY ConversionsAreExact, ArithmeticIsModular, PointersGoBack, CallsClassed
<1>2. EngineExact
  BY <1>1 DEF EngineExact, ImplicitExact, ArithmeticModular, PointersReturn, CallClasses
<1> QED
  BY <1>2, PTL
=============================================================================
