----------------------------- MODULE ElfSymsProofs ------------------------------
(***************************************************************************)
(* Proofs about ElfSyms for all files, objects and transfers: the symbols  *)
(* that are read are the file's, the buffer and the table are large enough *)
(* for what is put in them, whatever step fails, all that was taken is     *)
(* released but for four things, and the file closed once, names stay      *)
(* alive, the table has what was defined; and the laws of sections and of  *)
(* hash tables for all widths and sizes.                                   *)
(***************************************************************************)
EXTENDS ElfSyms, FiniteSetTheorems, SequenceTheorems, TLAPS

\* A set of numbers up to n has a least element.
LEMMA LeastNumber ==
    ASSUME NEW n \in Nat, NEW T \in SUBSET (0..n), T # {}
    PROVE  \E k \in T : \A j \in T : k <= j
<1> DEFINE Lower == {p \in Nat \X Nat : p[1] < p[2]}
<1>1. IsWellFoundedOn(Lower, Nat)
  BY NatLessThanWellFounded DEF OpToRel
<1>2. T \subseteq Nat
  OBVIOUS
<1>3. PICK k \in T : \A j \in T : <<j, k>> \notin Lower
  <2> HIDE DEF Lower
  <2> QED
    BY <1>1, <1>2, WFMin
<1>4. \A j \in T : ~(j < k)
  BY <1>2, <1>3
<1> QED
  BY <1>2, <1>4

\* And a greatest.
LEMMA GreatestNumber ==
    ASSUME NEW n \in Nat, NEW T \in SUBSET (0..n), T # {}
    PROVE  \E k \in T : \A j \in T : j <= k
<1> DEFINE U == {n - k : k \in T}
<1>1. U \in SUBSET (0..n) /\ U # {}
  <2>1. \A k \in T : n - k \in 0..n
    OBVIOUS
  <2>2. PICK k \in T : TRUE
    OBVIOUS
  <2>3. n - k \in U
    OBVIOUS
  <2> QED
    BY <2>1, <2>3
<1>2. PICK u \in U : \A v \in U : u <= v
  <2> HIDE DEF U
  <2> QED
    BY <1>1, LeastNumber
<1>3. PICK k \in T : u = n - k
  BY <1>2
<1>4. ASSUME NEW j \in T
      PROVE  j <= k
  <2>1. n - j \in U /\ j \in Int /\ k \in Int
    OBVIOUS
  <2>2. u <= n - j
    <3> HIDE DEF U
    <3> QED
      BY <1>2, <2>1
  <2> QED
    BY <1>3, <2>1, <2>2
<1> QED
  BY <1>4

-----------------------------------------------------------------------------
(* Greatest and least elements, and folds *)

LEMMA MaxOf ==
    ASSUME NEW n \in Nat, NEW s \in SUBSET (0..n), s # {}
    PROVE  Max(s) \in s /\ \A x \in s : x <= Max(s)
<1>1. PICK k \in s : \A j \in s : j <= k
  BY GreatestNumber
<1>2. \E x \in s : \A y \in s : x >= y
  BY <1>1
<1>3. Max(s) \in s /\ \A y \in s : Max(s) >= y
  BY <1>2 DEF Max
<1> QED
  BY <1>3

LEMMA MinOf ==
    ASSUME NEW n \in Nat, NEW s \in SUBSET (0..n), s # {}
    PROVE  Min(s) \in s /\ \A x \in s : Min(s) <= x
<1>1. PICK k \in s : \A j \in s : k <= j
  BY LeastNumber
<1>2. \E x \in s : \A y \in s : x <= y
  BY <1>1
<1> QED
  BY <1>2 DEF Min

\* The last of a set of places.
LEMMA Lasts ==
    ASSUME NEW n \in Nat, NEW s \in SUBSET (1..n), s # {}
    PROVE  Max(s) \in s /\ Max(s) \in 1..n /\ s \ {Max(s)} \in SUBSET (1..n) /\ \A x \in s : x <= Max(s)
<1>1. s \in SUBSET (0..n)
  OBVIOUS
<1> QED
  BY <1>1, MaxOf

\* Steps of a fold over the places 1..n, and that there is a fold with them.
Steps(n, V) == [(1..n) \X V -> V]
Foldable(n, V, base, g) ==
    \E f \in [SUBSET (1..n) -> V] : \A s \in SUBSET (1..n) :
        f[s] = IF s = {} THEN base ELSE g[<<Max(s), f[s \ {Max(s)}]>>]

\* A fold over the places 1..n goes from a set of places to the one without its
\* last: there is a function that does this, first on the sets up to some place,
\* and then with the next one.
LEMMA FoldExists ==
    ASSUME NEW n \in Nat, NEW V, NEW base \in V, NEW g \in Steps(n, V)
    PROVE  Foldable(n, V, base, g)
<1> DEFINE D == SUBSET (1..n)
           Folds(f, s) == f[s] = IF s = {} THEN base ELSE g[<<Max(s), f[s \ {Max(s)}]>>]
           T == {m \in 0..n : ~\E f \in [D -> V] : \A s \in SUBSET (1..m) : Folds(f, s)}
<1>1. ASSUME NEW s \in D, s # {}
      PROVE  Max(s) \in s /\ Max(s) \in 1..n /\ s \ {Max(s)} \in D /\ \A x \in s : x <= Max(s)
  BY <1>1, Lasts
<1>2. T = {}
  <2>1. SUFFICES ASSUME T # {}
                 PROVE  FALSE
    OBVIOUS
  <2>2. PICK m \in T : \A j \in T : m <= j
    <3>1. T \in SUBSET (0..n)
      OBVIOUS
    <3> HIDE DEF T
    <3> QED
      BY <2>1, <3>1, LeastNumber
  <2>3. CASE m = 0
    <3> DEFINE f == [s \in D |-> base]
    <3>1. f \in [D -> V] /\ f[{}] = base
      OBVIOUS
    <3>2. \A s \in SUBSET (1..0) : s = {}
      OBVIOUS
    <3> QED
      BY <2>2, <2>3, <3>1, <3>2
  <2>4. CASE m # 0
    <3>1. m - 1 \in 0..n /\ m - 1 \notin T /\ m \in 1..n
      <4>1. m \in 0..n
        OBVIOUS
      <4> HIDE DEF T
      <4>2. m - 1 \in T => m <= m - 1
        BY <2>2
      <4> QED
        BY <2>4, <4>1, <4>2
    <3>2. PICK f \in [D -> V] : \A s \in SUBSET (1..(m - 1)) : Folds(f, s)
      BY <3>1
    <3> DEFINE small == SUBSET (1..(m - 1))
               h == [s \in D |-> IF s \in small THEN f[s] ELSE g[<<Max(s), f[s \ {Max(s)}]>>]]
    <3>3. h \in [D -> V]
      <4>1. ASSUME NEW s \in D, s \notin small
            PROVE  g[<<Max(s), f[s \ {Max(s)}]>>] \in V
        <5>1. s # {}
          BY <4>1
        <5>2. Max(s) \in 1..n /\ f[s \ {Max(s)}] \in V
          BY <1>1, <5>1
        <5> QED
          BY <5>2 DEF Steps
      <4> QED
        BY <4>1
    <3>4. ASSUME NEW s \in SUBSET (1..m)
          PROVE  Folds(h, s)
      <4>1. s \in D
        BY <3>1
      <4>2. CASE s \in small
        <5>1. CASE s = {}
          <6>1. h[s] = f[s] /\ Folds(f, s)
            BY <3>2, <4>1, <4>2
          <6> HIDE DEF h
          <6> QED
            BY <5>1, <6>1
        <5>2. CASE s # {}
          <6>1. s \ {Max(s)} \in small /\ s \ {Max(s)} \in D
            BY <1>1, <4>1, <4>2, <5>2
          <6>2. h[s] = f[s] /\ h[s \ {Max(s)}] = f[s \ {Max(s)}] /\ Folds(f, s)
            BY <3>2, <4>1, <4>2, <6>1
          <6> HIDE DEF h
          <6> QED
            BY <5>2, <6>2
        <5> QED
          BY <5>1, <5>2
      <4>3. CASE s \notin small
        <5>1. s # {} /\ m \in s
          <6>1. \A x \in s : x \in 1..m
            OBVIOUS
          <6>2. m \notin s => \A x \in s : x \in 1..(m - 1)
            BY <3>1, <6>1
          <6> QED
            BY <4>3, <6>2
        <5>2. Max(s) = m
          BY <1>1, <3>1, <4>1, <5>1
        <5>3. s \ {m} \in small /\ s \ {m} \in D
          <6>1. \A x \in 1..m : x # m => x \in 1..(m - 1)
            BY <3>1
          <6>2. s \ {m} \in small
            BY <6>1
          <6> QED
            BY <4>1, <6>2
        <5>4. h[s \ {m}] = f[s \ {m}]
          BY <5>3
        <5>5. h[s] = g[<<Max(s), f[s \ {Max(s)}]>>]
          BY <4>1, <4>3
        <5> HIDE DEF h
        <5> QED
          BY <5>1, <5>2, <5>4, <5>5
      <4> QED
        BY <4>2, <4>3
    <3> HIDE DEF h, Folds
    <3> QED
      BY <2>2, <3>3, <3>4
  <2> QED
    BY <2>3, <2>4
<1>3. n \in 0..n /\ n \notin T
  <2> HIDE DEF T
  <2> QED
    BY <1>2
<1> QED
  BY <1>3 DEF Foldable

\* What holds of the base and is kept by each step holds of the fold.
LEMMA FoldKeeps ==
    ASSUME NEW n \in Nat, NEW V, NEW f, f[{}] \in V,
           \A s \in SUBSET (1..n) : s # {} /\ f[s \ {Max(s)}] \in V => f[s] \in V
    PROVE  f[1..n] \in V
<1> DEFINE T == {m \in 0..n : f[1..m] \notin V}
<1>1. T = {}
  <2>1. SUFFICES ASSUME T # {}
                 PROVE  FALSE
    OBVIOUS
  <2>2. PICK m \in T : \A j \in T : m <= j
    <3>1. T \in SUBSET (0..n)
      OBVIOUS
    <3> HIDE DEF T
    <3> QED
      BY <2>1, <3>1, LeastNumber
  <2>3. CASE m = 0
    <3>1. 1..0 = {}
      OBVIOUS
    <3> QED
      BY <2>2, <2>3, <3>1
  <2>4. CASE m # 0
    <3>1. m - 1 \in 0..n /\ m - 1 \notin T /\ m \in 1..n
      <4>1. m \in 0..n
        OBVIOUS
      <4> HIDE DEF T
      <4>2. m - 1 \in T => m <= m - 1
        BY <2>2
      <4> QED
        BY <2>4, <4>1, <4>2
    <3>2. 1..m \in SUBSET (1..n) /\ m \in 1..m
      BY <3>1
    <3>3. Max(1..m) = m
      <4>1. 1..m \in SUBSET (0..n) /\ 1..m # {}
        <5>1. \A x \in 1..m : x \in 0..n
          BY <3>1
        <5> HIDE DEF T
        <5> QED
          BY <3>2, <5>1
      <4>2. Max(1..m) \in 1..m /\ \A x \in 1..m : x <= Max(1..m)
        BY <4>1, MaxOf
      <4> QED
        BY <3>1, <4>2
    <3>4. (1..m) \ {m} = 1..(m - 1)
      BY <3>1
    <3>5. f[1..(m - 1)] \in V
      BY <3>1
    <3> QED
      BY <2>2, <3>2, <3>3, <3>4, <3>5
  <2> QED
    BY <2>3, <2>4
<1>2. n \in 0..n /\ n \notin T
  <2> HIDE DEF T
  <2> QED
    BY <1>1
<1> QED
  BY <1>2

-----------------------------------------------------------------------------
(* What the folds of the reader give *)

\* The number of entries that are asked for.
LEMMA SumNatural ==
    ASSUME NEW ms, ms \in Seq(ToSet(ms)), NEW base \in Nat,
           \A i \in DOMAIN ms : ms[i].firstsym \in Nat /\ ms[i].nsyms \in Nat /\ ms[i].firstsym <= ms[i].nsyms
    PROVE  FoldLeft(LAMBDA sum, m : sum + (m.nsyms - m.firstsym), base, ms) \in Nat
<1> DEFINE n == Len(ms)
           more(i) == ms[i].nsyms - ms[i].firstsym
           g == [x \in (1..n) \X Nat |-> x[2] + more(x[1])]
           folds(f) == f = [s \in SUBSET (DOMAIN ms) |->
                              IF s = {} THEN base ELSE f[s \ {Max(s)}] + more(Max(s))]
<1>1. n \in Nat /\ DOMAIN ms = 1..n
  BY LenProperties
<1>2. \A i \in 1..n : more(i) \in Nat
  BY <1>1
<1>3. g \in [(1..n) \X Nat -> Nat]
  <2> HIDE DEF more
  <2> QED
    BY <1>2
<1>4. \A s \in SUBSET (1..n) : s # {} => Max(s) \in 1..n /\ s \ {Max(s)} \in SUBSET (1..n)
  <2> HIDE DEF n
  <2> QED
    BY <1>1, Lasts
<1>5. \E f : folds(f)
  <2>1. PICK f \in [SUBSET (1..n) -> Nat] : \A s \in SUBSET (1..n) :
          f[s] = IF s = {} THEN base ELSE g[<<Max(s), f[s \ {Max(s)}]>>]
    <3> HIDE DEF g, n, more
    <3>1. n \in Nat /\ base \in Nat /\ g \in [(1..n) \X Nat -> Nat]
      BY <1>1, <1>3
    <3>2. g \in Steps(n, Nat)
      BY <3>1 DEF Steps
    <3>3. Foldable(n, Nat, base, g)
      BY <3>1, <3>2, FoldExists
    <3> QED
      BY <3>3 DEF Foldable
  <2>2. \A s \in SUBSET (1..n) : s # {} => g[<<Max(s), f[s \ {Max(s)}]>>] = f[s \ {Max(s)}] + more(Max(s))
    <3> HIDE DEF more
    <3> QED
      BY <1>4
  <2>3. f = [s \in SUBSET (1..n) |-> IF s = {} THEN base ELSE f[s \ {Max(s)}] + more(Max(s))]
    <3> HIDE DEF g, more
    <3> QED
      BY <2>1, <2>2
  <2> QED
    BY <1>1, <2>3
<1> DEFINE f == CHOOSE f : folds(f)
<1>6. FoldLeft(LAMBDA sum, m : sum + (m.nsyms - m.firstsym), base, ms) = f[1..n]
  BY <1>1 DEF FoldLeft, MapThenFoldSet
<1>7. folds(f)
  <2> HIDE DEF folds
  <2> QED
    BY <1>5
<1>8. f[{}] \in Nat /\ \A s \in SUBSET (1..n) : s # {} => f[s] = f[s \ {Max(s)}] + more(Max(s))
  <2> HIDE DEF f, more
  <2> QED
    BY <1>1, <1>7
<1>9. f[1..n] \in Nat
  <2> HIDE DEF f, more, n
  <2>1. ASSUME NEW s \in SUBSET (1..n), s # {}, f[s \ {Max(s)}] \in Nat
        PROVE  f[s] \in Nat
    <3>1. f[s] = f[s \ {Max(s)}] + more(Max(s))
      BY <1>8, <2>1
    <3>2. more(Max(s)) \in Nat
      BY <1>2, <1>4, <2>1
    <3> QED
      BY <2>1, <3>1, <3>2
  <2> QED
    BY <1>1, <1>8, <2>1, FoldKeeps
<1> QED
  BY <1>6, <1>9

\* Copying symbols goes from one place to the next.
EntriesFold(f, n, syms, offset, store) ==
    /\ Entries(syms, offset, store) = f[1..n] /\ f[{}] = <<>>
    /\ \A s \in SUBSET (1..n) : s # {} =>
         f[s] = IF Selected(syms[Max(s)])
                  THEN Append(f[s \ {Max(s)}], assign(syms[Max(s)], offset, store)) ELSE f[s \ {Max(s)}]

LEMMA EntriesFolded ==
    ASSUME NEW n \in Nat, NEW syms, DOMAIN syms = 1..n, NEW offset, NEW store
    PROVE  \E f : EntriesFold(f, n, syms, offset, store)
<1> DEFINE V == Seq({assign(syms[i], offset, store) : i \in 1..n})
           next(e, i) == IF Selected(syms[i]) THEN Append(e, assign(syms[i], offset, store)) ELSE e
           g == [x \in (1..n) \X V |-> next(x[2], x[1])]
           folds(f) == f = [s \in SUBSET (DOMAIN syms) |->
                              IF s = {} THEN <<>> ELSE next(f[s \ {Max(s)}], Max(s))]
<1>1. <<>> \in V
  OBVIOUS
<1>2. \A i \in 1..n, e \in V : next(e, i) \in V
  <2>1. ASSUME NEW i \in 1..n, NEW e \in V
        PROVE  next(e, i) \in V
    <3>1. assign(syms[i], offset, store) \in {assign(syms[j], offset, store) : j \in 1..n}
      OBVIOUS
    <3>2. Append(e, assign(syms[i], offset, store)) \in V
      BY <3>1, AppendProperties
    <3> HIDE DEF V
    <3> QED
      BY <3>2
  <2> QED
    BY <2>1
<1> HIDE DEF V, next
<1>3. g \in [(1..n) \X V -> V]
  BY <1>2
<1>4. \A s \in SUBSET (1..n) : s # {} => Max(s) \in 1..n /\ s \ {Max(s)} \in SUBSET (1..n)
  BY Lasts
<1>5. \E f : folds(f)
  <2>1. PICK f \in [SUBSET (1..n) -> V] : \A s \in SUBSET (1..n) :
          f[s] = IF s = {} THEN <<>> ELSE g[<<Max(s), f[s \ {Max(s)}]>>]
    <3> HIDE DEF g
    <3>1. g \in Steps(n, V)
      BY <1>3 DEF Steps
    <3>2. Foldable(n, V, <<>>, g)
      BY <1>1, <3>1, FoldExists
    <3> QED
      BY <3>2 DEF Foldable
  <2>2. \A s \in SUBSET (1..n) : s # {} => g[<<Max(s), f[s \ {Max(s)}]>>] = next(f[s \ {Max(s)}], Max(s))
    BY <1>4
  <2>3. f = [s \in SUBSET (1..n) |-> IF s = {} THEN <<>> ELSE next(f[s \ {Max(s)}], Max(s))]
    <3> HIDE DEF g
    <3> QED
      BY <2>1, <2>2
  <2> QED
    BY <2>3
<1> DEFINE f == CHOOSE f : folds(f)
<1>6. Entries(syms, offset, store) = f[1..n]
  BY DEF Entries, FoldLeft, MapThenFoldSet, next
<1>7. folds(f)
  <2> HIDE DEF folds
  <2> QED
    BY <1>5
<1>8. f[{}] = <<>> /\ \A s \in SUBSET (1..n) : s # {} => f[s] = next(f[s \ {Max(s)}], Max(s))
  <2> HIDE DEF f
  <2> QED
    BY <1>7
<1> HIDE DEF f, folds
<1>9. EntriesFold(f, n, syms, offset, store)
  BY <1>6, <1>8 DEF EntriesFold, next
<1> QED
  BY <1>9

\* The symbols that are selected make entries.
LEMMA EntriesAre ==
    ASSUME NEW n \in Nat, NEW syms, DOMAIN syms = 1..n, NEW offset, NEW store
    PROVE  Entries(syms, offset, store) \in Seq({assign(syms[i], offset, store) : i \in 1..n})
<1> DEFINE V == Seq({assign(syms[i], offset, store) : i \in 1..n})
<1>1. PICK f : EntriesFold(f, n, syms, offset, store)
  BY EntriesFolded
<1>2. ASSUME NEW s \in SUBSET (1..n), s # {}, f[s \ {Max(s)}] \in V
      PROVE  f[s] \in V
  <2>1. Max(s) \in 1..n
    BY <1>2, Lasts
  <2>2. assign(syms[Max(s)], offset, store) \in {assign(syms[j], offset, store) : j \in 1..n}
    BY <2>1
  <2>3. Append(f[s \ {Max(s)}], assign(syms[Max(s)], offset, store)) \in V
    BY <1>2, <2>2, AppendProperties
  <2> HIDE DEF V
  <2> QED
    BY <1>1, <1>2, <2>3 DEF EntriesFold
<1>3. <<>> \in V
  OBVIOUS
<1> HIDE DEF V
<1>4. f[1..n] \in V
  BY <1>1, <1>2, <1>3, FoldKeeps DEF EntriesFold
<1> QED
  BY <1>1, <1>4 DEF EntriesFold, V

\* Names and addresses: of the symbols of an array that are selected, and of entries.
Of(syms, off) == {<<s.name, s.value + off>> : s \in {x \in ToSet(syms) : Selected(x)}}
Pairs(ents) == {<<e.name, e.ptv>> : e \in ToSet(ents)}

LEMMA PairsAppend ==
    ASSUME NEW X, NEW e \in Seq(X), NEW x \in X
    PROVE  Pairs(Append(e, x)) = Pairs(e) \cup {<<x.name, x.ptv>>}
<1>1. /\ Len(e) \in Nat /\ DOMAIN e = 1..Len(e) /\ DOMAIN Append(e, x) = 1..(Len(e) + 1)
      /\ \A i \in 1..Len(e) : Append(e, x)[i] = e[i]
      /\ Append(e, x)[Len(e) + 1] = x
  BY AppendProperties, LenProperties
<1>2. \A i \in 1..(Len(e) + 1) : i \in 1..Len(e) \/ i = Len(e) + 1
  BY <1>1
<1>3. Len(e) + 1 \in 1..(Len(e) + 1) /\ \A i \in 1..Len(e) : i \in 1..(Len(e) + 1)
  BY <1>1
<1>4. ToSet(Append(e, x)) = ToSet(e) \cup {x}
  BY <1>1, <1>2, <1>3 DEF ToSet
<1> QED
  BY <1>4 DEF Pairs

\* They are all copied, and nothing else.
LEMMA EntriesPairs ==
    ASSUME NEW n \in Nat, NEW syms, DOMAIN syms = 1..n, NEW offset, NEW store
    PROVE  Pairs(Entries(syms, offset, store)) = Of(syms, offset)
<1> DEFINE X == {assign(syms[i], offset, store) : i \in 1..n}
           pairs(s) == {<<syms[i].name, syms[i].value + offset>> : i \in {j \in s : Selected(syms[j])}}
           One == {1}
           Ok(e, s) == e \in Seq(X) /\ Pairs(e) = pairs(s)
<1>1. PICK f : EntriesFold(f, n, syms, offset, store)
  BY EntriesFolded
<1> DEFINE ok == [s \in SUBSET (1..n) |-> IF Ok(f[s], s) THEN 1 ELSE 0]
<1>2. ok[{}] \in One
  <2>1. Pairs(<<>>) = {} /\ pairs({}) = {}
    BY DEF Pairs, ToSet
  <2>2. Ok(f[{}], {})
    <3>1. f[{}] = <<>>
      BY <1>1 DEF EntriesFold
    <3>2. <<>> \in Seq(X)
      OBVIOUS
    <3> HIDE DEF X, pairs
    <3> QED
      BY <2>1, <3>1, <3>2
  <2> HIDE DEF Ok
  <2> QED
    BY <2>2
<1>3. ASSUME NEW s \in SUBSET (1..n), s # {}, ok[s \ {Max(s)}] \in One
      PROVE  ok[s] \in One
  <2> DEFINE k == Max(s)
             r == s \ {k}
             x == assign(syms[k], offset, store)
  <2>1. k \in s /\ k \in 1..n /\ r \in SUBSET (1..n) /\ s = r \cup {k}
    BY <1>3, Lasts
  <2>2. Ok(f[r], r)
    <3> HIDE DEF Ok
    <3> QED
      BY <1>3, <2>1
  <2>3. f[s] = IF Selected(syms[k]) THEN Append(f[r], x) ELSE f[r]
    BY <1>1, <1>3 DEF EntriesFold
  <2>4. x \in X /\ x.name = syms[k].name /\ x.ptv = syms[k].value + offset
    BY <2>1 DEF assign
  <2> HIDE DEF k, r, x, X
  <2>5. CASE Selected(syms[k])
    <3>1. pairs(s) = pairs(r) \cup {<<syms[k].name, syms[k].value + offset>>}
      BY <2>1, <2>5
    <3>2. f[s] \in Seq(X) /\ Pairs(f[s]) = Pairs(f[r]) \cup {<<x.name, x.ptv>>}
      <4>1. f[r] \in Seq(X) /\ f[s] = Append(f[r], x)
        BY <2>2, <2>3, <2>5
      <4> QED
        BY <2>4, <4>1, PairsAppend, AppendProperties
    <3>3. Ok(f[s], s)
      <4>1. Pairs(f[r]) = pairs(r)
        BY <2>2
      <4> HIDE DEF pairs
      <4> QED
        BY <2>4, <3>1, <3>2, <4>1
    <3> HIDE DEF Ok
    <3> QED
      BY <3>3
  <2>6. CASE ~Selected(syms[k])
    <3>1. pairs(s) = pairs(r)
      BY <2>1, <2>6
    <3>2. f[s] = f[r]
      BY <2>3, <2>6
    <3>3. Ok(f[s], s)
      <4> HIDE DEF pairs
      <4> QED
        BY <2>2, <3>1, <3>2
    <3> HIDE DEF Ok
    <3> QED
      BY <3>3
  <2> QED
    BY <2>5, <2>6
<1>4. ok[1..n] \in One
  <2> HIDE DEF ok, One
  <2> QED
    BY <1>2, <1>3, FoldKeeps
<1>5. Ok(f[1..n], 1..n)
  <2> HIDE DEF Ok
  <2>1. 1..n \in SUBSET (1..n)
    OBVIOUS
  <2> QED
    BY <1>4, <2>1
<1>6. pairs(1..n) = Of(syms, offset)
  BY DEF Of, ToSet
<1> QED
  BY <1>1, <1>5, <1>6 DEF EntriesFold

-----------------------------------------------------------------------------
(* Sections *)

\* A sum of two offsets wraps around at most once, and is less than each then.
LEMMA OffsetsAdd ==
    ASSUME NEW a \in Pmelf_Off, NEW b \in Pmelf_Off
    PROVE  LET end == (a + b) % 2^OffBits IN end = a + b \/ (end < a /\ end < b)
<1>1. PICK m : m = 2^OffBits
  OBVIOUS
<1>2. m \in Nat \ {0} /\ a \in 0..(m - 1) /\ b \in 0..(m - 1)
  BY <1>1, ReadersOK DEF Pmelf_Off
<1>3. CASE a + b < m
  <2>1. (a + b) % m = a + b
    BY <1>2, <1>3
  <2> QED
    BY <1>1, <2>1
<1>4. CASE ~(a + b < m)
  <2>1. (a + b) % m = a + b - m
    BY <1>2, <1>4
  <2> QED
    BY <1>1, <1>2, <2>1
<1> QED
  BY <1>3, <1>4

\* What pmelf_getscn reads is in the section and in the file, and is all that
\* was asked for.
LEMMA SectionRead ==
    ASSUME NEW stream, NEW len \in Nat, NEW f, f.len = len, NEW sh, sh.off \in Nat, sh.size \in Pmelf_Off,
           NEW data, NEW offset \in Pmelf_Off, NEW n \in Pmelf_Off,
           NEW r, r = pmelf_getscn(stream, f, sh, data, offset, n), r.ok
    PROVE  /\ r.n = IF n = 0 THEN sh.size ELSE n
           /\ r.from \in Nat /\ r.n \in Nat
           /\ offset + r.n <= sh.size /\ r.from + r.n <= len
<1> DEFINE N == IF n = 0 THEN sh.size ELSE n
           at == pmelf_seek(stream, f, (sh.off + offset) % 2^OffBits)
<1>1. N \in Pmelf_Off /\ N \in Nat /\ offset \in Nat /\ sh.size \in Nat
  <2>1. \A x \in Pmelf_Off : x \in Nat
    BY ReadersOK DEF Pmelf_Off
  <2> QED
    BY <2>1
<1>2. ~OutsideSection(sh, offset, N) /\ at.ok /\ r = SREAD(stream, f, at.pos, N)
  BY DEF pmelf_getscn, Refuse
<1>3. at.pos \in Nat
  <2>1. PICK m : m = 2^OffBits
    OBVIOUS
  <2>2. m \in Nat \ {0}
    BY <2>1, ReadersOK
  <2>3. (sh.off + offset) % m \in Nat
    BY <1>1, <2>2
  <2>4. at.pos = (sh.off + offset) % m
    BY <1>2, <2>1 DEF pmelf_seek, Refuse
  <2> QED
    BY <2>3, <2>4
<1>4. offset + N <= sh.size
  <2> DEFINE end == (offset + N) % 2^OffBits
  <2>1. ~(end < offset) /\ ~(end < N) /\ ~(end > sh.size)
    BY <1>2 DEF OutsideSection
  <2>2. end = offset + N
    <3> HIDE DEF N
    <3> QED
      BY <1>1, <2>1, OffsetsAdd
  <2> HIDE DEF end, N
  <2> QED
    BY <1>1, <2>1, <2>2
<1> HIDE DEF N, at
<1>5. at.pos + N <= len /\ r.from = at.pos /\ r.n = N
  BY <1>1, <1>2, <1>3 DEF SREAD, Refuse
<1> QED
  BY <1>1, <1>3, <1>4, <1>5 DEF N

\* "requested area not entirely within section": whatever the headers of a file
\* say, for every width of an offset, what is read of a section, a group or a
\* table of relocations is inside both the section and the file.
THEOREM ReadsStayInside == InsideSections
<1> SUFFICES ASSUME NEW stream \in {"file", "memory"}, NEW len \in LawLengths, NEW off \in LawOffsets,
                    NEW size \in Pmelf_Off,
                    NEW f, f = [len |-> len],
                    NEW sh, sh = [off |-> off, size |-> size, entsize |-> RelSize]
             PROVE  LET inside(r, offset) == r.ok => offset + r.n <= size /\ r.from + r.n <= len
                        whole(r, entsize) == inside(r, 0) /\ (r.ok => r.n > 0 /\ r.n % entsize = 0) IN
                    /\ whole(pmelf_getgrp(stream, f, sh), WordSize)
                    /\ whole(pmelf_getrel(stream, f, sh), RelSize)
                    /\ \A offset \in Pmelf_Off, n \in Pmelf_Off, data \in BOOLEAN :
                         inside(pmelf_getscn(stream, f, sh, data, offset, n), offset)
  BY DEF InsideSections
<1>1. /\ len \in Nat /\ f.len = len /\ sh.off \in Nat /\ sh.size = size /\ sh.entsize = RelSize
      /\ size \in Nat /\ 0 \in Pmelf_Off /\ WordSize \in Nat \ {0} /\ RelSize \in Nat \ {0}
  <2>1. PICK m : m = 2^OffBits
    OBVIOUS
  <2>2. m \in Nat \ {0} /\ Pmelf_Off = 0..(m - 1)
    BY <2>1, ReadersOK DEF Pmelf_Off
  <2>3. size \in Nat /\ 0 \in Pmelf_Off
    BY <2>2
  <2>4. WordSize \in Nat \ {0} /\ RelSize \in Nat \ {0}
    BY ReadersOK
  <2> QED
    BY <2>3, <2>4, LawsOK
<1>2. ASSUME NEW offset \in Pmelf_Off, NEW n \in Pmelf_Off, NEW data,
             NEW r, r = pmelf_getscn(stream, f, sh, data, offset, n), r.ok
      PROVE  offset + r.n <= size /\ r.from + r.n <= len /\ (n = 0 => r.n = size) /\ r.n \in Nat
  BY <1>1, <1>2, SectionRead
<1>3. ASSUME NEW unit \in Nat \ {0}, size % unit = 0, ~(size \div unit < 1)
      PROVE  size > 0
  <2>1. 0 \div unit = 0
    OBVIOUS
  <2> QED
    BY <1>1, <1>3, <2>1
<1>4. ASSUME NEW r, r = pmelf_getgrp(stream, f, sh), r.ok
      PROVE  0 + r.n <= size /\ r.from + r.n <= len /\ r.n > 0 /\ r.n % WordSize = 0
  <2>1. size % WordSize = 0 /\ ~(size \div WordSize < 1) /\ r = pmelf_getscn(stream, f, sh, FALSE, 0, 0)
    <3>1. CASE size % WordSize # 0 \/ size \div WordSize < 1
      <4>1. r = Refuse(0)
        BY <1>1, <1>4, <3>1 DEF pmelf_getgrp
      <4> QED
        BY <1>4, <4>1 DEF Refuse
    <3>2. CASE ~(size % WordSize # 0 \/ size \div WordSize < 1)
      <4>1. r = pmelf_getscn(stream, f, sh, FALSE, 0, 0)
        BY <1>1, <1>4, <3>2 DEF pmelf_getgrp
      <4> QED
        BY <3>2, <4>1
    <3> QED
      BY <3>1, <3>2
  <2>2. 0 + r.n <= size /\ r.from + r.n <= len /\ r.n = size
    <3>1. r = pmelf_getscn(stream, f, sh, FALSE, 0, 0) /\ r.ok /\ 0 \in Pmelf_Off
      BY <1>1, <1>4, <2>1
    <3>2. 0 + r.n <= size /\ r.from + r.n <= len /\ (0 = 0 => r.n = size)
      BY <1>2, <3>1
    <3> QED
      BY <3>2
  <2> QED
    BY <1>1, <1>3, <2>1, <2>2
<1>5. ASSUME NEW r, r = pmelf_getrel(stream, f, sh), r.ok
      PROVE  0 + r.n <= size /\ r.from + r.n <= len /\ r.n > 0 /\ r.n % RelSize = 0
  <2>1. size % RelSize = 0 /\ ~(size \div RelSize < 1) /\ r = pmelf_getscn(stream, f, sh, FALSE, 0, 0)
    <3>1. CASE size % RelSize # 0 \/ size \div RelSize < 1
      <4>1. r = Refuse(0)
        BY <1>1, <1>5, <3>1 DEF pmelf_getrel
      <4> QED
        BY <1>5, <4>1 DEF Refuse
    <3>2. CASE ~(size % RelSize # 0 \/ size \div RelSize < 1)
      <4>1. r = pmelf_getscn(stream, f, sh, FALSE, 0, 0)
        BY <1>1, <1>5, <3>2 DEF pmelf_getrel
      <4> QED
        BY <3>2, <4>1
    <3> QED
      BY <3>1, <3>2
  <2>2. 0 + r.n <= size /\ r.from + r.n <= len /\ r.n = size
    <3>1. r = pmelf_getscn(stream, f, sh, FALSE, 0, 0) /\ r.ok /\ 0 \in Pmelf_Off
      BY <1>1, <1>5, <2>1
    <3>2. 0 + r.n <= size /\ r.from + r.n <= len /\ (0 = 0 => r.n = size)
      BY <1>2, <3>1
    <3> QED
      BY <3>2
  <2> QED
    BY <1>1, <1>3, <2>1, <2>2
<1> QED
  BY <1>2, <1>4, <1>5

-----------------------------------------------------------------------------
(* Hash tables *)

\* The last symbol is in the last bucket that has any, and ends its chain.
LEMMA HashTableCounted ==
    ASSUME NEW n \in Nat, NEW first \in Nat, NEW nb \in Nat, NEW of, NEW members, NEW buckets, NEW chain,
           Hashed(n, first, nb, of, members, buckets, chain)
    PROVE  NumSymbols(first, buckets, chain) = n
<1> USE DEF Hashed
<1>1. \A b \in 1..nb : members[b] \in SUBSET (0..n) /\ \A i \in members[b] : i \in first..(n - 1) /\ of[i] = b
  OBVIOUS
<1>2. CASE first = n
  <2>1. \A b \in 1..nb : members[b] = {}
    BY <1>1, <1>2
  <2>2. {b \in DOMAIN buckets : buckets[b] # 0} = {}
    BY <2>1
  <2>3. LastBucket(buckets) = 0
    BY <2>2 DEF LastBucket
  <2> QED
    BY <1>2, <2>3 DEF NumSymbols
<1>3. CASE first # n
  <2> DEFINE e == n - 1
             B == of[e]
             low == Min(members[B])
             S == {b \in DOMAIN buckets : buckets[b] # 0}
             C == {i \in DOMAIN chain : i >= low /\ chain[i] % 2 = 1}
  <2>1. e \in first..(n - 1) /\ B \in 1..nb /\ e \in members[B] /\ e \in Nat
    BY <1>3
  <2>2. low \in members[B] /\ low <= e /\ low \in first..(n - 1) /\ of[low] = B
    <3>1. members[B] \in SUBSET (0..n) /\ members[B] # {}
      BY <1>1, <2>1
    <3>2. low \in members[B] /\ \A x \in members[B] : low <= x
      <4>1. PICK T : T = members[B]
        OBVIOUS
      <4>2. Min(T) \in T /\ \A x \in T : Min(T) <= x
        <5> HIDE DEF low, B
        <5> QED
          BY <3>1, <4>1, MinOf
      <4> QED
        BY <4>1, <4>2
    <3> QED
      BY <1>1, <2>1, <3>2
  <2>3. buckets[B] = low /\ low # 0 /\ DOMAIN buckets = 1..nb /\ DOMAIN chain = first..(n - 1)
    <3>1. members[B] # {}
      BY <2>1
    <3>2. low # 0
      BY <2>2
    <3> QED
      BY <2>1, <3>1, <3>2
  <2>4. Max(S) = B
    <3>1. B \in S
      BY <2>1, <2>3
    <3>2. ASSUME NEW b \in S
          PROVE  b \in 1..nb /\ b <= B
      <4>1. b \in 1..nb /\ members[b] # {}
        <5>1. b \in 1..nb /\ buckets[b] # 0
          BY <2>3
        <5> QED
          BY <5>1
      <4>2. PICK i \in members[b] : TRUE
        BY <4>1
      <4>3. i \in first..(n - 1) /\ of[i] = b
        BY <1>1, <4>1, <4>2
      <4>4. i = e \/ i < e
        BY <4>3
      <4>5. of[i] <= of[e]
        BY <2>1, <4>3, <4>4
      <4> QED
        BY <4>1, <4>3, <4>5
    <3>3. S \in SUBSET (0..nb)
      BY <3>2
    <3> HIDE DEF S, B
    <3>4. Max(S) \in S /\ B <= Max(S)
      BY <3>1, <3>3, MaxOf
    <3>5. Max(S) \in Int /\ B \in Int /\ Max(S) <= B
      BY <2>1, <3>2, <3>4
    <3> QED
      BY <3>4, <3>5
  <2>5. Max(members[B]) = e
    <3>1. members[B] \in SUBSET (0..n) /\ members[B] # {}
      BY <1>1, <2>1
    <3>2. Max(members[B]) \in members[B] /\ \A x \in members[B] : x <= Max(members[B])
      BY <3>1, MaxOf
    <3>3. Max(members[B]) \in first..(n - 1) /\ e <= Max(members[B])
      BY <1>1, <2>1, <3>2
    <3>4. \A x \in first..(n - 1) : e <= x => x = e
      OBVIOUS
    <3> HIDE DEF e, B
    <3> QED
      BY <3>3, <3>4
  <2>6. C = {e}
    <3>1. chain[e] = 1 /\ e >= low
      <4>1. e = Max(members[of[e]])
        BY <2>5
      <4> QED
        BY <2>1, <2>2, <4>1
    <3>2. ASSUME NEW i \in C
          PROVE  i = e
      <4>1. i \in first..(n - 1) /\ i >= low /\ chain[i] % 2 = 1
        BY <2>3
      <4>2. i = Max(members[of[i]])
        <5>1. chain[i] = IF i = Max(members[of[i]]) THEN 1 ELSE 0
          BY <4>1
        <5> QED
          BY <4>1, <5>1
      <4>3. of[i] = B
        <5>1. of[low] <= of[i]
          <6>1. \A x \in first..(n - 1) : x <= i => of[x] <= of[i]
            <7>1. ASSUME NEW x \in first..(n - 1), x <= i
                  PROVE  of[x] <= of[i]
              <8>1. of[i] \in Int /\ (x = i \/ x < i)
                BY <4>1, <7>1
              <8>2. CASE x = i
                BY <8>1, <8>2
              <8>3. CASE x < i
                BY <4>1, <8>3
              <8> QED
                BY <8>1, <8>2, <8>3
            <7> QED
              BY <7>1
          <6> HIDE DEF low
          <6>2. low <= i
            BY <2>2, <4>1
          <6> QED
            BY <2>2, <6>1, <6>2
        <5>2. of[i] <= of[e]
          BY <2>1, <4>1
        <5>3. of[i] \in Int /\ of[e] \in Int
          BY <2>1, <4>1
        <5> QED
          BY <2>2, <5>1, <5>2, <5>3
      <4> QED
        BY <2>5, <4>2, <4>3
    <3>3. e \in C
      BY <2>1, <2>3, <3>1
    <3> QED
      BY <3>2, <3>3
  <2>7. Min(C) = e
    <3>1. Min({e}) \in {e}
      <4>1. {e} \in SUBSET (0..n) /\ {e} # {}
        BY <2>1
      <4> HIDE DEF e
      <4> QED
        BY <4>1, MinOf
    <3> QED
      BY <2>6, <3>1
  <2>8. LastBucket(buckets) = low /\ ~(low < first)
    <3>1. B \in S
      BY <2>1, <2>3
    <3>2. S # {} /\ buckets[Max(S)] = low
      BY <2>3, <2>4, <3>1
    <3>3. ~(low < first)
      BY <2>2
    <3> HIDE DEF low
    <3> QED
      BY <3>2, <3>3 DEF LastBucket
  <2> HIDE DEF e, B, low
  <2>9. NumSymbols(first, buckets, chain) = Min(C) + 1
    BY <2>8 DEF NumSymbols
  <2> QED
    BY <2>7, <2>9 DEF e
<1> QED
  BY <1>2, <1>3

\* "the number of symbols ... from the hash table": however many buckets a linker
\* makes, with chains in the order of their buckets, all symbols are counted.
THEOREM HashTablesRight == HashTablesCounted
<1> SUFFICES ASSUME NEW n \in LawSymbols, NEW first \in LawSymbols, NEW nb \in LawBuckets,
                    first >= 1, first <= n, NEW of \in [first..(n - 1) -> 1..nb],
                    \A i, j \in DOMAIN of : i < j => of[i] <= of[j]
             PROVE  LET members(b) == {i \in DOMAIN of : of[i] = b}
                        buckets == [b \in 1..nb |-> IF members(b) = {} THEN 0 ELSE Min(members(b))]
                        chain == [i \in DOMAIN of |-> IF i = Max(members(of[i])) THEN 1 ELSE 0] IN
                    NumSymbols(first, buckets, chain) = n
  BY DEF HashTablesCounted
<1> DEFINE members(b) == {i \in DOMAIN of : of[i] = b}
           buckets == [b \in 1..nb |-> IF members(b) = {} THEN 0 ELSE Min(members(b))]
           chain == [i \in DOMAIN of |-> IF i = Max(members(of[i])) THEN 1 ELSE 0]
           in == [b \in 1..nb |-> {i \in first..(n - 1) : of[i] = b}]
<1>1. n \in Nat /\ first \in Nat /\ nb \in Nat /\ DOMAIN of = first..(n - 1)
  BY HashLawsOK
<1>2. \A b \in 1..nb : members(b) = in[b]
  BY <1>1
<1>3. DOMAIN buckets = 1..nb /\ \A b \in 1..nb : buckets[b] = IF in[b] = {} THEN 0 ELSE Min(in[b])
  <2> HIDE DEF members, in
  <2> QED
    BY <1>2
<1>4. DOMAIN chain = first..(n - 1) /\ \A i \in first..(n - 1) : chain[i] = IF i = Max(in[of[i]]) THEN 1 ELSE 0
  <2> HIDE DEF members, in
  <2>1. \A i \in first..(n - 1) : members(of[i]) = in[of[i]]
    BY <1>2
  <2> QED
    BY <1>1, <2>1
<1>5. \A i, j \in first..(n - 1) : i < j => of[i] <= of[j]
  BY <1>1
<1>6. NumSymbols(first, buckets, chain) = n
  <2>1. \A b \in 1..nb : in[b] = {i \in first..(n - 1) : of[i] = b}
    OBVIOUS
  <2> HIDE DEF in, buckets, chain
  <2>2. Hashed(n, first, nb, of, in, buckets, chain)
    BY <1>1, <1>3, <1>4, <1>5, <2>1 DEF Hashed
  <2> QED
    BY <1>1, <2>2, HashTableCounted
<1> QED
  BY <1>6

\* What files and objects say of themselves is believed only within their bounds.
THEOREM ReadersAreExact == Spec => []ReadersExact
<1>1. ReadersExact
  BY ReadsStayInside, HashTablesRight DEF ReadersExact, HashCounts, ReadsInside
<1> QED
  BY <1>1, PTL

-----------------------------------------------------------------------------
(* What is read of a file *)

\* The k-th section header of a file.
Header(f, k) == f.at[f.shoff + k * ShdrSize]

LEMMA Whole ==
    ASSUME NEW n \in Nat, NEW size \in Nat \ {0}
    PROVE  (n * size) \div size = n /\ n * size \in Nat
OBVIOUS

\* The headers that pmelf_getshtab gives are the file's.
LEMMA HeadersRight ==
    ASSUME NEW k, NEW f, FileOK(f), pmelf_getshtab(k, f).ok
    PROVE  pmelf_getshtab(k, f).shdrs = [i \in 1..f.shnum |-> f.at[f.shoff + (i - 1) * ShdrSize]]
<1> DEFINE at == pmelf_seek(k, f, f.shoff)
           t == Sequential(k, f, at.pos, f.shnum, ShdrSize)
<1>1. at.ok /\ t.ok /\ pmelf_getshtab(k, f).shdrs = RecordsOf(f, t, ShdrSize)
  BY DEF pmelf_getshtab, Refuse
<1>2. at.pos = f.shoff
  BY <1>1 DEF pmelf_seek, Refuse
<1>3. t.from = f.shoff /\ t.n = f.shnum * ShdrSize
  <2> HIDE DEF at
  <2> QED
    BY <1>1, <1>2 DEF Sequential, Refuse
<1>4. t.n \div ShdrSize = f.shnum
  BY <1>3, Whole, ReadersOK DEF FileOK
<1> HIDE DEF t
<1> QED
  BY <1>1, <1>3, <1>4 DEF RecordsOf

\* The symbols that pmelf_getsymtab gives are the ones of the only symbol table.
LEMMA SymbolsRight ==
    ASSUME NEW k, NEW f, FileOK(f), NEW headers,
           headers = [i \in 1..f.shnum |-> f.at[f.shoff + (i - 1) * ShdrSize]],
           NEW r, r = pmelf_getsymtab(k, f, headers), r.ok
    PROVE  LET i == CHOOSE j \in 0..(f.shnum - 1) :
                      Header(f, j).type = "SYMTAB" /\ Header(f, j).name = ".symtab" IN
           /\ r.n \div SymSize \in Nat /\ (r.n \div SymSize) * SymSize = Header(f, i).size
           /\ r.from = Header(f, i).off
<1> DEFINE IsSymtab(j) == Header(f, j).type = "SYMTAB" /\ Header(f, j).name = ".symtab"
           i == CHOOSE j \in 0..(f.shnum - 1) : IsSymtab(j)
           s == CHOOSE j \in Symtabs(headers) : TRUE
           found == pmelf_find_symhdrs(k, f, headers)
           t == Sequential(k, f, found.pos, found.nsyms, SymSize)
<1>1. found.ok /\ t.ok /\ r.n = t.n /\ r.from = t.from
  BY DEF pmelf_getsymtab, Refuse
<1>2. /\ Cardinality(Symtabs(headers)) = 1 /\ headers[s].size % SymSize = 0
      /\ found.pos = headers[s].off /\ found.nsyms = headers[s].size \div SymSize
  BY <1>1 DEF pmelf_find_symhdrs, pmelf_seek, Refuse
<1>3. f.shnum \in Nat /\ DOMAIN headers = 1..f.shnum /\ \A j \in 1..f.shnum : headers[j] = Header(f, j - 1)
  BY DEF FileOK, Header
<1>4. \E x : Symtabs(headers) = {x}
  <2>1. IsFiniteSet(1..f.shnum)
    BY <1>3, FS_Interval
  <2>2. Symtabs(headers) \in SUBSET (1..f.shnum)
    BY <1>3 DEF Symtabs
  <2> QED
    <3>1. PICK S : S = Symtabs(headers)
      OBVIOUS
    <3>2. IsFiniteSet(S) /\ Cardinality(S) = 1
      BY <1>2, <2>1, <2>2, <3>1, FS_Subset
    <3> QED
      BY <3>1, <3>2, FS_Singleton
<1>5. s \in 1..f.shnum /\ IsSymtab(s - 1) /\ \A j \in 1..f.shnum : IsSymtab(j - 1) => j = s
  <2>1. PICK x : Symtabs(headers) = {x}
    BY <1>4
  <2>2. s = x
    BY <2>1
  <2>3. \A j \in 1..f.shnum : IsSymtab(j - 1) <=> j \in Symtabs(headers)
    BY <1>3 DEF Symtabs
  <2>4. x \in 1..f.shnum
    BY <1>3, <2>1 DEF Symtabs
  <2> HIDE DEF s, IsSymtab
  <2> QED
    BY <2>1, <2>2, <2>3, <2>4
<1>6. i = s - 1
  <2> HIDE DEF s, IsSymtab
  <2>1. s - 1 \in 0..(f.shnum - 1)
    BY <1>3, <1>5
  <2>2. \A j \in 0..(f.shnum - 1) : IsSymtab(j) => j = s - 1
    <3>1. ASSUME NEW j \in 0..(f.shnum - 1), IsSymtab(j)
          PROVE  j = s - 1
      <4>1. j + 1 \in 1..f.shnum /\ (j + 1) - 1 = j
        BY <1>3
      <4>2. IsSymtab((j + 1) - 1)
        BY <3>1, <4>1
      <4>3. j + 1 = s
        BY <1>5, <4>1, <4>2
      <4> QED
        BY <4>1, <4>3
    <3> QED
      BY <3>1
  <2> QED
    BY <1>5, <2>1, <2>2
<1>7. i \in 0..(f.shnum - 1) /\ headers[s] = Header(f, i)
  <2> HIDE DEF s, i, IsSymtab
  <2>1. s \in 1..f.shnum /\ \A j \in 1..f.shnum : headers[j] = Header(f, j - 1)
    BY <1>3, <1>5
  <2>2. s - 1 \in 0..(f.shnum - 1) /\ headers[s] = Header(f, s - 1)
    <3>1. s - 1 \in 0..(f.shnum - 1)
      BY <1>3, <2>1
    <3>2. headers[s] = Header(f, s - 1)
      BY <2>1, Zenon
    <3> QED
      BY <3>1, <3>2
  <2> QED
    BY <1>6, <2>2
<1>8. Header(f, i).off \in Nat /\ Header(f, i).size \in Nat
  <2> HIDE DEF i
  <2> QED
    BY <1>7 DEF FileOK, Header
<1> HIDE DEF i, s, found
<1>9. t.n = found.nsyms * SymSize /\ t.from = found.pos
  BY <1>1 DEF Sequential, Refuse
<1>10. found.nsyms \in Nat /\ found.nsyms * SymSize = Header(f, i).size
  <2>1. SymSize \in Nat \ {0}
    BY ReadersOK
  <2>2. \A a \in Nat : a % SymSize = 0 => a \div SymSize \in Nat /\ (a \div SymSize) * SymSize = a
    BY <2>1
  <2> QED
    BY <1>2, <1>7, <1>8, <2>2
<1>11. r.n \div SymSize = found.nsyms
  BY <1>1, <1>9, <1>10, Whole, ReadersOK
<1> QED
  BY <1>1, <1>2, <1>7, <1>9, <1>10, <1>11 DEF i

-----------------------------------------------------------------------------
(* Tables *)

\* A table of entries whose names are not in the file, with room for the marker.
TableSound(t) ==
    /\ t \in [room : Nat, size : Nat, ents : {t.ents}, made : BOOLEAN]
    /\ t.ents \in Seq(ToSet(t.ents))
    /\ \A i \in DOMAIN t.ents : EntryOK(t.ents[i])
    /\ Len(t.ents) <= t.size
    /\ t.room = t.size + 1 \/ (t.room = 0 /\ t.size = 0)

LEMMA AssignedOK ==
    ASSUME NEW s, NEW offset, NEW store \in {"own", "object"}
    PROVE  EntryOK(assign(s, offset, store))
<1>1. assign(s, offset, store).type \in {"TFuncP", "guessed", "TVoid"}
  <2>1. CASE s.type = "FUNC"
    BY <2>1 DEF assign
  <2>2. CASE s.type = "OBJECT"
    BY <2>2 DEF assign
  <2>3. CASE s.type # "FUNC" /\ s.type # "OBJECT"
    BY <2>3 DEF assign
  <2> QED
    BY <2>1, <2>2, <2>3
<1>2. {s.bind} \cap {"GLOBAL", "WEAK"} \in {{}, {"GLOBAL"}, {"WEAK"}}
  OBVIOUS
<1> QED
  BY <1>1, <1>2 DEF EntryOK, assign

LEMMA SeqOfItself ==
    ASSUME NEW X, NEW s \in Seq(X)
    PROVE  s \in Seq(ToSet(s)) /\ \A i \in DOMAIN s : s[i] \in X
<1>1. Len(s) \in Nat /\ DOMAIN s = 1..Len(s) /\ s \in [1..Len(s) -> X]
  BY LenProperties
<1>2. s \in [1..Len(s) -> ToSet(s)]
  BY <1>1 DEF ToSet
<1> QED
  BY <1>1, <1>2

LEMMA NewTableSound ==
    ASSUME NEW n \in Nat
    PROVE  TableSound(cexpNewSymTbl(n))
BY DEF TableSound, cexpNewSymTbl, ToSet

LEMMA NoTableSound == TableSound(NoTable)
BY DEF TableSound, NoTable, ToSet

\* A table that is added to stays sound: it grows if it must.
LEMMA WithEntriesSound ==
    ASSUME NEW t, TableSound(t), NEW X, NEW new \in Seq(X), \A x \in X : EntryOK(x)
    PROVE  TableSound(WithEntries(t, new))
<1> DEFINE u == WithEntries(t, new)
           Y == ToSet(t.ents) \cup X
<1>1. /\ t.ents \in Seq(Y) /\ new \in Seq(Y) /\ t.ents \o new \in Seq(Y)
      /\ Len(t.ents) \in Nat /\ Len(new) \in Nat /\ Len(t.ents \o new) = Len(t.ents) + Len(new)
  <2>1. t.ents \in Seq(ToSet(t.ents))
    BY DEF TableSound
  <2>2. t.ents \in Seq(Y) /\ new \in Seq(Y)
    BY <2>1
  <2> HIDE DEF Y
  <2> QED
    BY <2>2, ConcatProperties, LenProperties
<1>2. t.room \in Nat /\ t.size \in Nat /\ t.made \in BOOLEAN
  BY DEF TableSound
<1>3. t = [room |-> t.room, size |-> t.size, ents |-> t.ents, made |-> t.made]
  BY DEF TableSound
<1>4. u.ents = t.ents \o new /\ u.made = t.made
  BY <1>3 DEF WithEntries
<1>5. LET n == Len(t.ents) + Len(new)
          grows == Len(new) > t.size - Len(t.ents) IN
      u.size = (IF grows THEN n ELSE t.size) /\ u.room = (IF grows THEN n + 1 ELSE t.room)
  BY <1>3 DEF WithEntries
<1>6. u = [room |-> u.room, size |-> u.size, ents |-> u.ents, made |-> u.made]
  <2>1. PICK a, b, c, d : u = [[[t EXCEPT !.ents = a] EXCEPT !.size = b] EXCEPT !.room = c] /\ d = t.made
    BY DEF WithEntries
  <2>2. u = [room |-> c, size |-> b, ents |-> a, made |-> d]
    <3> HIDE DEF u
    <3> QED
      BY <1>3, <2>1
  <2> QED
    BY <2>2
<1>7. u.room \in Nat /\ u.size \in Nat /\ Len(u.ents) <= u.size
      /\ (u.room = u.size + 1 \/ (u.room = 0 /\ u.size = 0))
  <2>1. Len(t.ents) <= t.size /\ (t.room = t.size + 1 \/ (t.room = 0 /\ t.size = 0))
    BY DEF TableSound
  <2> HIDE DEF u
  <2> QED
    BY <1>1, <1>2, <1>4, <1>5, <2>1
<1>8. u.ents \in Seq(ToSet(u.ents)) /\ \A i \in DOMAIN u.ents : u.ents[i] \in Y
  <2> HIDE DEF Y, u
  <2> QED
    BY <1>1, <1>4, SeqOfItself
<1>9. \A y \in Y : EntryOK(y)
  BY DEF TableSound, ToSet
<1> HIDE DEF u, Y
<1>10. u \in [room : Nat, size : Nat, ents : {u.ents}, made : BOOLEAN]
  <2>1. u.made \in BOOLEAN
    BY <1>2, <1>4
  <2> QED
    BY <1>6, <1>7, <2>1
<1>11. \A i \in DOMAIN u.ents : EntryOK(u.ents[i])
  BY <1>8, <1>9
<1>12. TableSound(u)
  BY <1>7, <1>8, <1>10, <1>11 DEF TableSound
<1> QED
  BY <1>12 DEF u

\* An enumeration of some of a table's entries is no longer than the table.
LEMMA EnumerationFits ==
    ASSUME NEW n \in Nat, NEW X, NEW s \in [1..n -> X], NEW e \in SUBSET ToSet(s)
    PROVE  SetToSeq(e) \in Seq(e) /\ Len(SetToSeq(e)) <= n /\ ToSet(SetToSeq(e)) = e
<1>1. IsFiniteSet(ToSet(s)) /\ Cardinality(ToSet(s)) <= n /\ Cardinality(ToSet(s)) \in Nat
  <2>1. s \in Surjection(1..n, ToSet(s))
    BY DEF Surjection, ToSet
  <2>2. IsFiniteSet(1..n) /\ Cardinality(1..n) = n
    BY FS_Interval
  <2> QED
    BY <2>1, <2>2, FS_Surjection, FS_CardinalityType
<1>2. IsFiniteSet(e) /\ Cardinality(e) \in Nat /\ Cardinality(e) <= n /\ ExistsBijection(1..Cardinality(e), e)
  <2>1. IsFiniteSet(e) /\ Cardinality(e) <= Cardinality(ToSet(s))
    BY <1>1, FS_Subset
  <2>2. Cardinality(e) \in Nat /\ ExistsBijection(1..Cardinality(e), e)
    BY <2>1, FS_CardinalityType
  <2> QED
    BY <1>1, <2>1, <2>2
<1>3. SetToSeq(e) \in [1..Cardinality(e) -> e] /\ IsInjective(SetToSeq(e))
  <2>1. \E f \in [1..Cardinality(e) -> e] : IsInjective(f)
    BY <1>2 DEF ExistsBijection, Bijection, Injection, IsInjective
  <2> QED
    BY <2>1 DEF SetToSeq
<1>4. SetToSeq(e) \in Seq(e) /\ Len(SetToSeq(e)) = Cardinality(e)
  BY <1>2, <1>3
<1>5. SetToSeq(e) \in Surjection(1..Cardinality(e), e)
  <2>1. SetToSeq(e) \in Injection(1..Cardinality(e), e)
    BY <1>3 DEF Injection, IsInjective
  <2>2. Cardinality(1..Cardinality(e)) = Cardinality(e)
    BY <1>2, FS_Interval
  <2> QED
    BY <1>2, <2>1, <2>2, FS_Injection
<1>6. ToSet(SetToSeq(e)) = e
  BY <1>3, <1>5 DEF Surjection, ToSet
<1> QED
  BY <1>2, <1>4, <1>6

LEMMA Inside ==
    ASSUME NEW S, NEW X, S \subseteq X, NEW q \in Seq(S)
    PROVE  q \in Seq(X) /\ Len(q) \in Nat /\ DOMAIN q = 1..Len(q) /\ \A k \in 1..Len(q) : q[k] \in S
<1>1. Len(q) \in Nat /\ DOMAIN q = 1..Len(q) /\ q \in [1..Len(q) -> S]
  BY LenProperties
<1>2. q \in [1..Len(q) -> X]
  BY <1>1
<1> QED
  BY <1>1, <1>2

\* What sorting leaves: the entries of some indices, at most as many as there
\* were, and one less if the marker follows.
LEMMA SortedIs ==
    ASSUME NEW n \in Nat, NEW X, NEW s \in [1..n -> X], NEW e \in cexpSortSymTbl(s)
    PROVE  \E kept \in Distinct(s), q \in Seq(1..n) :
             /\ ToSet(q) = kept
             /\ e = [k \in DOMAIN q |-> s[q[k]]] \o (IF LastDropped(s) THEN <<Marker>> ELSE <<>>)
             /\ Len(q) + (IF LastDropped(s) THEN 1 ELSE 0) <= n
<1>1. PICK kept \in Distinct(s) :
        e = [k \in DOMAIN SetToSeq(kept) |-> s[SetToSeq(kept)[k]]]
              \o (IF LastDropped(s) THEN <<Marker>> ELSE <<>>)
  BY DEF cexpSortSymTbl
<1>2. kept \in SUBSET (1..n)
  BY DEF Distinct
<1>3. CASE ~LastDropped(s)
  <2> DEFINE all == [i \in 1..n |-> i]
  <2>1. all \in [1..n -> 1..n] /\ ToSet(all) = 1..n
    BY DEF ToSet
  <2>2. SetToSeq(kept) \in Seq(kept) /\ Len(SetToSeq(kept)) <= n /\ ToSet(SetToSeq(kept)) = kept
    <3> HIDE DEF all
    <3>1. kept \in SUBSET ToSet(all)
      BY <1>2, <2>1
    <3> QED
      BY <2>1, <3>1, EnumerationFits
  <2>3. Len(SetToSeq(kept)) + 0 <= n /\ SetToSeq(kept) \in Seq(1..n)
    <3>1. SetToSeq(kept) \in Seq(1..n) /\ Len(SetToSeq(kept)) \in Nat
      BY <1>2, <2>2, Inside
    <3> QED
      BY <2>2, <3>1
  <2> QED
    BY <1>1, <1>3, <2>2, <2>3
<1>4. CASE LastDropped(s)
  <2>1. PICK m \in 1..n : m \notin kept
    <3>1. PICK i \in 1..n : \/ Redundant(NamesOf(s), s[i].name)
                            \/ \E j \in (1..n) \ {i} : s[j].name = s[i].name
      BY <1>4 DEF LastDropped
    <3>2. CASE Redundant(NamesOf(s), s[i].name)
      <4>1. i \notin kept
        BY <3>2 DEF Distinct
      <4> QED
        BY <4>1
    <3>3. CASE \E j \in (1..n) \ {i} : s[j].name = s[i].name
      <4>1. PICK j \in (1..n) \ {i} : s[j].name = s[i].name
        BY <3>3
      <4>2. i \notin kept \/ j \notin kept
        BY <4>1 DEF Distinct
      <4> QED
        BY <4>1, <4>2
    <3> QED
      BY <3>1, <3>2, <3>3
  <2> DEFINE others == [i \in 1..(n - 1) |-> IF i < m THEN i ELSE i + 1]
  <2>2. n - 1 \in Nat
    OBVIOUS
  <2>3. others \in [1..(n - 1) -> 1..n]
    OBVIOUS
  <2>4. kept \in SUBSET ToSet(others)
    <3> SUFFICES ASSUME NEW k \in kept
                 PROVE  \E i \in 1..(n - 1) : others[i] = k
      BY <2>3 DEF ToSet
    <3>1. k \in 1..n /\ k # m
      BY <1>2, <2>1
    <3>2. CASE k < m
      <4>1. k \in 1..(n - 1) /\ others[k] = k
        BY <3>1, <3>2
      <4> QED
        BY <4>1
    <3>3. CASE k > m
      <4>1. k - 1 \in 1..(n - 1) /\ others[k - 1] = k
        BY <3>1, <3>3
      <4> QED
        BY <4>1
    <3> QED
      BY <3>1, <3>2, <3>3
  <2>5. /\ SetToSeq(kept) \in Seq(kept) /\ Len(SetToSeq(kept)) <= n - 1
        /\ ToSet(SetToSeq(kept)) = kept
    <3> HIDE DEF others
    <3> QED
      BY <2>2, <2>3, <2>4, EnumerationFits
  <2>6. Len(SetToSeq(kept)) + 1 <= n /\ SetToSeq(kept) \in Seq(1..n)
    <3>1. SetToSeq(kept) \in Seq(1..n) /\ Len(SetToSeq(kept)) \in Nat
      BY <1>2, <2>5, Inside
    <3> QED
      BY <2>5, <3>1
  <2> QED
    BY <1>1, <1>4, <2>5, <2>6
<1> QED
  BY <1>3, <1>4

\* Sorting leaves some of a table's entries, and perhaps the marker.
LEMMA SortedSound ==
    ASSUME NEW t, TableSound(t), NEW e \in cexpSortSymTbl(t.ents)
    PROVE  TableSound([t EXCEPT !.ents = e])
<1> DEFINE u == [t EXCEPT !.ents = e]
<1>1. t.ents \in [1..Len(t.ents) -> ToSet(t.ents)] /\ Len(t.ents) \in Nat
  BY DEF TableSound
<1>2. PICK kept \in Distinct(t.ents), q \in Seq(1..Len(t.ents)) :
        /\ ToSet(q) = kept
        /\ e = [k \in DOMAIN q |-> t.ents[q[k]]] \o (IF LastDropped(t.ents) THEN <<Marker>> ELSE <<>>)
        /\ Len(q) + (IF LastDropped(t.ents) THEN 1 ELSE 0) <= Len(t.ents)
  BY <1>1, SortedIs
<1>3. /\ e \in Seq({x \in ToSet(t.ents) \cup {Marker} : EntryOK(x)})
      /\ Len(e) \in Nat /\ Len(e) <= Len(t.ents)
  <2> DEFINE ok == {x \in ToSet(t.ents) \cup {Marker} : EntryOK(x)}
             those == [k \in DOMAIN q |-> t.ents[q[k]]]
             end == IF LastDropped(t.ents) THEN <<Marker>> ELSE <<>>
  <2>1. Len(q) \in Nat /\ DOMAIN q = 1..Len(q) /\ \A k \in 1..Len(q) : q[k] \in kept
    BY <1>2, LenProperties DEF ToSet
  <2>2. those \in Seq(ok) /\ Len(those) = Len(q)
    <3>1. \A k \in 1..Len(q) : q[k] \in DOMAIN t.ents
      BY <2>1 DEF Distinct
    <3>2. \A k \in 1..Len(q) : t.ents[q[k]] \in ok
      BY <3>1 DEF ToSet, TableSound
    <3>3. those = [k \in 1..Len(q) |-> t.ents[q[k]]]
      BY <2>1
    <3> HIDE DEF ok, those
    <3>4. those \in [1..Len(q) -> ok]
      BY <3>2, <3>3
    <3>5. those \in Seq(ok)
      BY <2>1, <3>4
    <3> QED
      BY <2>1, <3>4, <3>5, LenProperties
  <2>3. end \in Seq(ok) /\ Len(end) = IF LastDropped(t.ents) THEN 1 ELSE 0
    <3>1. Marker \in ok
      BY DEF EntryOK
    <3> HIDE DEF ok
    <3>2. CASE LastDropped(t.ents)
      BY <3>1, <3>2
    <3>3. CASE ~LastDropped(t.ents)
      BY <3>3
    <3> QED
      BY <3>2, <3>3
  <2>4. e = those \o end
    BY <1>2
  <2> HIDE DEF ok, those, end
  <2>5. e \in Seq(ok) /\ Len(e) = Len(those) + Len(end)
    <3>1. those \in Seq(ok) /\ end \in Seq(ok)
      BY <2>2, <2>3
    <3>2. those \o end \in Seq(ok) /\ Len(those \o end) = Len(those) + Len(end)
      BY <3>1, ConcatProperties
    <3> QED
      BY <2>4, <3>2
  <2>6. Len(e) \in Nat /\ Len(e) <= Len(t.ents)
    <3>1. CASE LastDropped(t.ents)
      BY <1>1, <1>2, <2>1, <2>2, <2>3, <2>5, <3>1
    <3>2. CASE ~LastDropped(t.ents)
      BY <1>1, <1>2, <2>1, <2>2, <2>3, <2>5, <3>2
    <3> QED
      BY <3>1, <3>2
  <2> QED
    BY <2>5, <2>6 DEF ok
<1>4. e \in Seq(ToSet(e)) /\ \A i \in DOMAIN e : EntryOK(e[i])
  BY <1>3, SeqOfItself
<1>5. t = [room |-> t.room, size |-> t.size, ents |-> t.ents, made |-> t.made]
  BY DEF TableSound
<1>6. u = [room |-> t.room, size |-> t.size, ents |-> e, made |-> t.made]
  BY <1>5
<1>7. /\ t.room \in Nat /\ t.size \in Nat /\ t.made \in BOOLEAN /\ Len(t.ents) <= t.size
      /\ t.room = t.size + 1 \/ (t.room = 0 /\ t.size = 0)
  BY DEF TableSound
<1>8. Len(e) <= t.size
  BY <1>1, <1>3, <1>7
<1> HIDE DEF u
<1>9. u.ents = e /\ u.room = t.room /\ u.size = t.size /\ u.made = t.made
  BY <1>6
<1>10. u \in [room : Nat, size : Nat, ents : {u.ents}, made : BOOLEAN]
  BY <1>6, <1>7, <1>9
<1>11. TableSound(u)
  BY <1>4, <1>7, <1>8, <1>9, <1>10 DEF TableSound
<1> QED
  BY <1>11 DEF u

\* The number of symbols that are selected.
LEMMA CountNatural ==
    ASSUME NEW s, s \in Seq(ToSet(s))
    PROVE  symcnt(s) \in Nat
<1>1. Len(s) \in Nat /\ DOMAIN s = 1..Len(s)
  BY LenProperties
<1>2. IsFiniteSet(1..Len(s)) /\ {i \in DOMAIN s : Selected(s[i])} \in SUBSET (1..Len(s))
  BY <1>1, FS_Interval
<1> QED
  BY <1>2, FS_Subset, FS_CardinalityType DEF symcnt

-----------------------------------------------------------------------------
(* The steps *)

LEMMA InitSound == Init => IInv
<1> SUFFICES ASSUME Init
             PROVE  IInv
  OBVIOUS
<1>1. Sized /\ RoomKept
  <2>1. TableSound(table)
    BY NoTableSound DEF Init
  <2> QED
    BY <2>1 DEF Init, Sized, RoomKept, TableSound, NoInput, ToSet
<1>2. TypeOK
  BY DEF Init, TypeOK, NoInput, NoTable
<1>3. InputAppended /\ Owned /\ AllReleased /\ HeadersRead /\ SymbolsRead
  BY DEF Init, InputAppended, Owned, AllReleased, HeadersRead, SymbolsRead, NoInput, NoTable
<1> QED
  BY <1>1, <1>2, <1>3 DEF IInv

\* Who has the file.
Owners == held \cap {"f", "stream_f"}

LEMMA AtMostOne ==
    ASSUME NEW n \in {0, 1}
    PROVE  0 + n \in Nat /\ 0 + n <= 1
OBVIOUS

\* The file is closed at most once by the end.
LEMMA ClosedOnce ==
    ASSUME closed = 0, ~("f" \in held /\ "stream_f" \in held), Cleanup
    PROVE  closed' \in Nat /\ closed' <= 1
<1>1. Owners \in {{}, {"f"}, {"stream_f"}}
  BY DEF Owners
<1>2. Cardinality({}) = 0 /\ \A x : Cardinality({x}) = 1
  BY FS_EmptySet, FS_Singleton
<1>3. Cardinality(Owners) \in {0, 1}
  BY <1>1, <1>2, Zenon
<1>4. closed' = 0 + Cardinality(Owners)
  BY Zenon DEF Cleanup, Owners
<1> QED
  BY <1>3, <1>4, AtMostOne, Zenon

LEMMA ClosedHow ==
    ASSUME closed = 0, "f" \notin held \/ "stream_f" \notin held, Cleanup
    PROVE  ("stream_f" \in held => closed' = 1) /\ (Owners = {} => closed' = 0)
<1>1. Cardinality({}) = 0 /\ \A x : Cardinality({x}) = 1
  BY FS_EmptySet, FS_Singleton
<1>2. closed' = 0 + Cardinality(Owners)
  BY Zenon DEF Cleanup, Owners
<1>3. ASSUME "stream_f" \in held
      PROVE  closed' = 1
  <2>1. Owners = {"stream_f"}
    BY <1>3 DEF Owners
  <2>2. Cardinality(Owners) = 1
    BY <1>1, <2>1, Zenon
  <2> QED
    BY <1>2, <2>2
<1>4. ASSUME Owners = {}
      PROVE  closed' = 0
  <2>1. Cardinality(Owners) = 0
    BY <1>1, <1>4, Zenon
  <2> QED
    BY <1>2, <2>1
<1> QED
  BY <1>3, <1>4

\* What the steps do to pc, kind and closed.
LEMMA TypesKept ==
    ASSUME IInv, Next, Sized', Owned'
    PROVE  TypeOK'
<1>1. pc' \in {"idle", "rsh", "stream", "headers", "symbols", "maps", "file", "objects", "cleanup",
               "done", "fault"}
  BY DEF IInv, TypeOK, Next, Begin, rshLoad, OpenStream, ReadHeaders, ReadSymbols, NewTable, AddFile,
         AddObject, Finish, Cleanup
<1>2. kind' \in {None, "memory", "file"}
  <2>1. kind' = kind \/ kind' \in {"memory", "file"}
    BY DEF Next, Begin, rshLoad, OpenStream, ReadHeaders, ReadSymbols, NewTable, AddFile,
           AddObject, Finish, Cleanup
  <2> QED
    BY <2>1 DEF IInv, TypeOK
<1>3. closed' \in Nat
  <2>1. CASE closed' = closed
    BY <2>1 DEF IInv, TypeOK
  <2>2. CASE Cleanup
    <3>1. closed = 0 /\ ~("f" \in held /\ "stream_f" \in held)
      BY <2>2 DEF IInv, Owned, Cleanup
    <3> QED
      BY <2>2, <3>1, ClosedOnce
  <2> QED
    BY <2>1, <2>2 DEF Next, Begin, rshLoad, OpenStream, ReadHeaders, ReadSymbols, NewTable, AddFile,
                      AddObject, Finish
<1>4. /\ file' \in Files \cup {None} /\ {input.size, input.avail, input.ptr, input.ntot}' \subseteq Nat
      /\ {table.room, table.size}' \subseteq Nat /\ \A i \in DOMAIN table'.ents : EntryOK(table'.ents[i])
  BY DEF Sized
<1> QED
  BY <1>1, <1>2, <1>3, <1>4 DEF TypeOK, Owned

\* A step that leaves the table, the symbols and the maps alone.
LEMMA TableKept ==
    ASSUME Sized, RoomKept, UNCHANGED <<read, maps, table>>,
           file' \in Files \cup {None}, pc' # "idle" => file' \in Files,
           input' \in [size : Nat, avail : Nat, ptr : Nat, ntot : Nat, packets : Nat]
    PROVE  Sized' /\ RoomKept'
BY DEF Sized, RoomKept

LEMMA BeginSound == ASSUME IInv, NEW f \in Files, Begin(f) PROVE IInv'
<1> USE DEF Begin
<1>1. Sized' /\ RoomKept'
  BY TableKept DEF IInv, Sized
<1>2. InputAppended' /\ AllReleased' /\ HeadersRead' /\ SymbolsRead'
  BY DEF IInv, InputAppended, AllReleased, HeadersRead, SymbolsRead
<1>3. Owned'
  <2>1. kind' = None /\ closed' = 0 /\ table' = table /\ ~table.made
    BY DEF IInv, Owned
  <2>2. \/ pc' = "rsh" /\ held' = {"cmd"}
        \/ pc' = "stream" /\ held' = {"f"}
        \/ pc' \in {"cleanup", "fault"} /\ held' = {}
    BY DEF Begin
  <2> QED
    BY <2>1, <2>2 DEF Owned, Things
<1> QED
  BY <1>1, <1>2, <1>3, TypesKept DEF IInv, Next

\* The buffer grows by a chunk, after what is in it.
LEMMA GrownSound ==
    ASSUME NEW in \in [size : Nat, avail : Nat, ptr : Nat, ntot : Nat, packets : Nat],
           in.ptr = in.ntot, in.ptr + in.avail = in.size
    PROVE  /\ Grown(in) \in [size : Nat, avail : Nat, ptr : Nat, ntot : Nat, packets : Nat]
           /\ Grown(in).ptr = Grown(in).ntot /\ Grown(in).ptr + Grown(in).avail = Grown(in).size
<1>1. LOAD_CHUNK \in Nat
  BY ChunksOK
<1>2. in.size - in.avail = in.ptr /\ in.ptr \in Nat
  OBVIOUS
<1>3. Grown(in) = [size |-> in.size + LOAD_CHUNK, avail |-> in.avail + LOAD_CHUNK, ptr |-> in.ptr,
                   ntot |-> in.ntot, packets |-> in.packets]
  <2>1. in = [size |-> in.size, avail |-> in.avail, ptr |-> in.ptr, ntot |-> in.ntot, packets |-> in.packets]
    OBVIOUS
  <2>2. PICK a, b, c : Grown(in) = [[[in EXCEPT !.size = a] EXCEPT !.avail = b] EXCEPT !.ptr = c]
                       /\ a = in.size + LOAD_CHUNK /\ b = in.avail + LOAD_CHUNK /\ c = in.size - in.avail
    BY DEF Grown
  <2>3. Grown(in) = [size |-> a, avail |-> b, ptr |-> c, ntot |-> in.ntot, packets |-> in.packets]
    BY <2>1, <2>2
  <2> QED
    BY <1>2, <2>2, <2>3
<1> QED
  BY <1>1, <1>2, <1>3

LEMMA rshLoadSound == ASSUME IInv, rshLoad PROVE IInv'
<1> DEFINE in == IF input.avail < LOAD_CHUNK THEN Grown(input) ELSE input
           Inputs == [size : Nat, avail : Nat, ptr : Nat, ntot : Nat, packets : Nat]
<1>1. in \in Inputs /\ in.ptr = in.ntot /\ in.ptr + in.avail = in.size
  <2>1. input \in Inputs /\ input.ptr = input.ntot /\ input.ptr + input.avail = input.size
    BY DEF IInv, Sized, InputAppended
  <2> QED
    BY <2>1, GrownSound
<1>2. input' \in Inputs /\ input'.ptr = input'.ntot /\ input'.ptr + input'.avail = input'.size
  <2>1. CASE input' = in
    BY <1>1, <2>1
  <2>2. CASE input' = NoInput
    BY <2>2 DEF NoInput
  <2>3. CASE \E got \in 1..in.avail :
               input' = [in EXCEPT !.ptr = @ + got, !.ntot = @ + got, !.avail = @ - got, !.packets = @ + 1]
    <3> HIDE DEF in
    <3>1. PICK got \in 1..in.avail :
            input' = [in EXCEPT !.ptr = @ + got, !.ntot = @ + got, !.avail = @ - got, !.packets = @ + 1]
      BY <2>3
    <3>2. in.avail \in Nat /\ in.ptr \in Nat /\ in.ntot \in Nat /\ in.packets \in Nat /\ in.size \in Nat
      BY <1>1
    <3>3. input' = [size |-> in.size, avail |-> in.avail - got, ptr |-> in.ptr + got,
                    ntot |-> in.ntot + got, packets |-> in.packets + 1]
      BY <1>1, <3>1
    <3>4. /\ input'.ptr = in.ptr + got /\ input'.ntot = in.ntot + got /\ input'.avail = in.avail - got
          /\ input'.size = in.size
      BY <3>3
    <3>5. in.avail - got \in Nat /\ in.ptr + got \in Nat /\ in.ntot + got \in Nat /\ in.packets + 1 \in Nat
      BY <3>2
    <3>6. input' \in Inputs
      BY <3>2, <3>3, <3>5
    <3> QED
      BY <1>1, <3>2, <3>4, <3>6
  <2> QED
    BY <2>1, <2>2, <2>3 DEF rshLoad
<1>3. Sized' /\ RoomKept'
  <2>1. file' \in Files \cup {None} /\ (pc' # "idle" => file' \in Files)
    BY DEF IInv, Sized, rshLoad
  <2> HIDE DEF in
  <2> QED
    BY <1>2, <2>1, TableKept DEF IInv, rshLoad
<1>4. InputAppended'
  BY <1>2 DEF InputAppended
<1>5. /\ \/ pc' = "rsh" /\ held' = held
         \/ pc' = "stream" /\ held' = held \cup {"buf"}
         \/ pc' = "cleanup" /\ held' \in {held, held \cup {"input"}}
      /\ pc = "rsh" /\ closed' = closed /\ kind' = kind /\ table' = table
  BY DEF rshLoad
<1>6. Owned' /\ AllReleased' /\ HeadersRead' /\ SymbolsRead'
  <2>1. /\ held \subseteq Things /\ "cmd" \in held /\ kind' = None /\ closed' = 0 /\ ~table'.made
        /\ "f" \notin held /\ "stream_f" \notin held /\ "mapping" \notin held
        /\ "lost" \notin held /\ "record" \notin held /\ "input" \notin held
    <3>1. Owned
      BY DEF IInv
    <3> QED
      BY <1>5, <3>1 DEF Owned
  <2>2. Owned'
    <3>1. CASE pc' = "rsh" /\ held' = held
      BY <2>1, <3>1 DEF Owned
    <3>2. CASE pc' = "stream" /\ held' = held \cup {"buf"}
      BY <2>1, <3>2 DEF Owned, Things
    <3>3. CASE pc' = "cleanup" /\ held' \in {held, held \cup {"input"}}
      BY <2>1, <3>3 DEF Owned, Things
    <3> QED
      BY <1>5, <3>1, <3>2, <3>3
  <2> QED
    BY <1>5, <2>2 DEF AllReleased, HeadersRead, SymbolsRead
<1> QED
  BY <1>3, <1>4, <1>6, TypesKept DEF IInv, Next

LEMMA OpenStreamSound == ASSUME IInv, OpenStream PROVE IInv'
<1>1. Sized' /\ RoomKept'
  BY TableKept DEF IInv, Sized, OpenStream
<1>2. InputAppended' /\ AllReleased' /\ HeadersRead' /\ SymbolsRead'
  BY DEF IInv, InputAppended, AllReleased, HeadersRead, SymbolsRead, OpenStream
<1>3. Owned'
  <2>1. CASE pc' = "cleanup" /\ held' = held
    BY <2>1 DEF IInv, Owned, OpenStream
  <2>2. CASE /\ pc' = "headers"
             /\ \E k \in IF "buf" \in held THEN {"memory"} ELSE {"memory", "file"} : \E parts \in Parts(k) :
                  kind' = k /\ held' = (held \ Taken) \cup {"elf"} \cup parts
    <3>1. PICK k \in IF "buf" \in held THEN {"memory"} ELSE {"memory", "file"} : \E parts \in Parts(k) :
                  kind' = k /\ held' = (held \ Taken) \cup {"elf"} \cup parts
      BY <2>2
    <3>2. PICK parts \in Parts(k) : kind' = k /\ held' = (held \ {"f"}) \cup {"elf"} \cup parts
      BY <3>1 DEF Taken
    <3>3. pc = "stream" /\ closed' = closed /\ table' = table
      BY DEF OpenStream
    <3>4. /\ held \subseteq Things /\ closed = 0 /\ ~table.made
          /\ "lost" \notin held /\ "input" \notin held /\ "record" \notin held
          /\ "buf" \in held <=> "cmd" \in held
          /\ "cmd" \in held => "f" \notin held /\ "stream_f" \notin held
          /\ "stream_f" \notin held /\ "mapping" \notin held
      <4>1. Owned
        BY DEF IInv
      <4> QED
        BY <3>3, <4>1 DEF Owned
    <3>5. CASE "buf" \in held
      <4>1. parts = {} /\ kind' = "memory"
        BY <3>1, <3>2, <3>5 DEF Parts
      <4>2. held' = (held \ {"f"}) \cup {"elf"}
        BY <3>2, <4>1
      <4>3. held' \subseteq Things
        BY <3>4, <4>2 DEF Things
      <4>4. /\ "lost" \notin held' /\ "input" \notin held' /\ "record" \notin held'
            /\ "cmd" \in held' /\ "f" \notin held' /\ "stream_f" \notin held' /\ "mapping" \notin held'
        BY <3>4, <3>5, <4>2
      <4> QED
        BY <2>2, <3>3, <3>4, <4>3, <4>4 DEF Owned
    <3>6. CASE "buf" \notin held
      <4>1. /\ parts \in {{"mapping", "stream_f"}, {"stream_f"}}
            /\ "mapping" \in parts => kind' = "memory"
        BY <3>1, <3>2, <3>6 DEF Parts
      <4>2. "cmd" \notin held
        BY <3>4, <3>6
      <4>3. held' \subseteq Things
        BY <3>2, <3>4, <4>1 DEF Things
      <4>4. /\ "lost" \notin held' /\ "input" \notin held' /\ "record" \notin held'
            /\ "cmd" \notin held' /\ "f" \notin held'
            /\ "stream_f" \in held' /\ ("mapping" \in held' => kind' = "memory")
        BY <3>2, <3>4, <4>1, <4>2
      <4> QED
        BY <2>2, <3>3, <3>4, <4>3, <4>4 DEF Owned
    <3> QED
      BY <3>5, <3>6
  <2> QED
    BY <2>1, <2>2 DEF OpenStream
<1> QED
  BY <1>1, <1>2, <1>3, TypesKept DEF IInv, Next

\* From the open stream to the end of reading the file stays where it is.
LEMMA OwnedKept ==
    ASSUME Owned, pc \in {"headers", "symbols", "maps", "file", "objects"},
           pc' \in {"symbols", "maps", "file", "objects", "cleanup", "fault"},
           UNCHANGED <<kind, closed>>, held' \subseteq Things,
           \A x \in {"f", "stream_f", "cmd", "mapping", "input", "record"} : x \in held' <=> x \in held,
           table'.made => pc' \in {"file", "objects", "cleanup", "fault"},
           "lost" \in held' => pc' \in {"objects", "fault"} /\ ~table'.made
    PROVE  Owned'
<1>1. /\ "f" \notin held' /\ "input" \notin held' /\ "record" \notin held'
      /\ "cmd" \in held' => "stream_f" \notin held'
      /\ "mapping" \in held' => kind' = "memory" /\ "stream_f" \in held'
      /\ closed' = 0
  BY DEF Owned
<1> QED
  BY <1>1 DEF Owned

LEMMA ReadHeadersSound == ASSUME IInv, ReadHeaders PROVE IInv'
<1>1. Sized' /\ RoomKept'
  BY TableKept DEF IInv, Sized, ReadHeaders
<1>2. InputAppended' /\ AllReleased' /\ SymbolsRead'
  BY DEF IInv, InputAppended, AllReleased, SymbolsRead, ReadHeaders
<1>3. Owned'
  <2>1. /\ pc = "headers" /\ pc' \in {"symbols", "cleanup", "fault"} /\ UNCHANGED <<kind, closed, table>>
        /\ held' = held \/ held' = held \cup {"shtab"}
    BY DEF ReadHeaders
  <2>2. held \subseteq Things /\ "lost" \notin held /\ ~table.made
    BY <2>1 DEF IInv, Owned
  <2>3. held' \subseteq Things /\ "lost" \notin held' /\ ~table'.made
    BY <2>1, <2>2 DEF Things
  <2>4. \A x \in {"f", "stream_f", "cmd", "mapping", "input", "record"} : x \in held' <=> x \in held
    BY <2>1
  <2> QED
    BY <2>1, <2>3, <2>4, OwnedKept DEF IInv
<1>4. HeadersRead'
  <2>1. SUFFICES ASSUME pc' = "symbols"
                 PROVE  shdrs' = [i \in 1..file.shnum |-> file.at[file.shoff + (i - 1) * ShdrSize]]
    BY DEF HeadersRead, ReadHeaders
  <2>2. pmelf_getshtab(kind, file).ok /\ shdrs' = pmelf_getshtab(kind, file).shdrs
    BY <2>1 DEF ReadHeaders
  <2>3. FileOK(file)
    BY FilesOK DEF IInv, Sized, ReadHeaders
  <2> QED
    BY <2>2, <2>3, HeadersRight
<1> QED
  BY <1>1, <1>2, <1>3, <1>4, TypesKept DEF IInv, Next

LEMMA ReadSymbolsSound == ASSUME IInv, ReadSymbols PROVE IInv'
<1> DEFINE r == pmelf_getsymtab(kind, file, shdrs)
<1>1. CASE pc' = "cleanup" /\ UNCHANGED <<read, held>>
  <2>1. Sized' /\ RoomKept'
    BY <1>1, TableKept DEF IInv, Sized, ReadSymbols
  <2>2. InputAppended' /\ AllReleased' /\ HeadersRead' /\ SymbolsRead'
    BY <1>1 DEF IInv, InputAppended, AllReleased, HeadersRead, SymbolsRead, ReadSymbols
  <2>3. Owned'
    <3>1. pc = "symbols" /\ UNCHANGED <<kind, closed, table>>
      BY DEF ReadSymbols
    <3>2. held \subseteq Things /\ "lost" \notin held /\ ~table.made
      BY <3>1 DEF IInv, Owned
    <3> QED
      BY <1>1, <3>1, <3>2, OwnedKept DEF IInv
  <2> QED
    BY <2>1, <2>2, <2>3, TypesKept DEF IInv, Next
<1>2. CASE /\ r.ok /\ pc' = "maps" /\ held' = held \cup {"symtab"}
           /\ read' = [i \in 1..(r.n \div SymSize) |-> file.at[r.from + (i - 1) * SymSize]]
  <2> DEFINE i == CHOOSE j \in 0..(file.shnum - 1) :
                    Header(file, j).type = "SYMTAB" /\ Header(file, j).name = ".symtab"
             n == r.n \div SymSize
  <2>1. /\ n \in Nat /\ n * SymSize = Header(file, i).size
        /\ r.from = Header(file, i).off
    <3>1. FileOK(file)
      BY FilesOK DEF IInv, Sized, ReadSymbols
    <3>2. shdrs = [k \in 1..file.shnum |-> file.at[file.shoff + (k - 1) * ShdrSize]]
      BY DEF IInv, HeadersRead, ReadSymbols
    <3> QED
      BY <1>2, <3>1, <3>2, SymbolsRight
  <2>2. /\ read' = [k \in 1..n |-> file.at[r.from + (k - 1) * SymSize]]
        /\ file' = file /\ pc = "symbols" /\ closed' = closed
        /\ UNCHANGED <<input, maps, table, shdrs>>
    BY <1>2 DEF ReadSymbols
  <2> HIDE DEF n, r
  <2>3. Len(read') = n /\ read' \in Seq(ToSet(read'))
    <3>1. DOMAIN read' = 1..n /\ read' \in [1..n -> ToSet(read')]
      BY <2>2 DEF ToSet
    <3> QED
      BY <2>1, <3>1, LenProperties
  <2>4. Sized'
    BY <2>2, <2>3 DEF IInv, Sized
  <2>5. RoomKept' /\ InputAppended'
    BY <2>2 DEF IInv, RoomKept, InputAppended
  <2>6. Owned' /\ AllReleased' /\ HeadersRead'
    <3>1. pc = "symbols" /\ UNCHANGED <<kind, closed, table>>
      BY DEF ReadSymbols
    <3>2. held \subseteq Things /\ "lost" \notin held /\ ~table.made
      BY <3>1 DEF IInv, Owned
    <3>3. held' \subseteq Things /\ "lost" \notin held' /\ ~table'.made
      BY <1>2, <3>1, <3>2 DEF Things
    <3>4. \A x \in {"f", "stream_f", "cmd", "mapping", "input", "record"} : x \in held' <=> x \in held
      BY <1>2
    <3>5. Owned'
      BY <1>2, <3>1, <3>3, <3>4, OwnedKept DEF IInv
    <3> QED
      BY <1>2, <3>5 DEF AllReleased, HeadersRead
  <2>7. SymbolsRead'
    <3>1. /\ Len(read') * SymSize = Header(file, i).size
          /\ \A k \in DOMAIN read' : read'[k] = file.at[Header(file, i).off + (k - 1) * SymSize]
      <4> HIDE DEF i
      <4> QED
        BY <2>1, <2>2, <2>3
    <3> QED
      BY <2>2, <3>1 DEF SymbolsRead, Header
  <2> QED
    BY <2>4, <2>5, <2>6, <2>7, TypesKept DEF IInv, Next
<1> QED
  BY <1>1, <1>2 DEF ReadSymbols

\* What is built of the objects counts as many symbols as it leaves out, or more.
LEMMA MapsRight ==
    ASSUME NEW objects \in LinkMaps, NEW ms, ms = cexpLinkMapBuild(objects)
    PROVE  /\ ms \in Seq(ToSet(ms))
           /\ \A i \in DOMAIN ms :
                ms[i].firstsym \in Nat /\ ms[i].nsyms \in Nat /\ ms[i].firstsym <= ms[i].nsyms
<1>1. CASE ms = <<>>
  BY <1>1
<1>2. CASE (\A i \in DOMAIN objects : Usable(objects[i])) /\ ms = [i \in DOMAIN objects |-> LinkMap(objects[i])]
  <2>1. Len(objects) \in Nat /\ DOMAIN objects = 1..Len(objects)
    BY LinkMapsOK, LenProperties
  <2>2. ms \in [1..Len(objects) -> ToSet(ms)]
    BY <1>2, <2>1 DEF ToSet
  <2>3. \A i \in DOMAIN objects : ms[i] = LinkMap(objects[i]) /\ Usable(objects[i])
    BY <1>2
  <2>4. \A i \in DOMAIN objects : ms[i].firstsym \in Nat /\ ms[i].nsyms \in Nat /\ ms[i].firstsym <= ms[i].nsyms
    BY <2>3, LinkMapsOK
  <2> QED
    BY <1>2, <2>1, <2>2, <2>4
<1> QED
  BY <1>1, <1>2 DEF cexpLinkMapBuild

LEMMA NewTableStepSound == ASSUME IInv, NewTable PROVE IInv'
<1>1. PICK objects \in LinkMaps :
        LET ms == cexpLinkMapBuild(objects)
            n == FoldLeft(LAMBDA sum, m : sum + (m.nsyms - m.firstsym), symcnt(read), ms) IN
        /\ maps' = ms
        /\ \/ table' = cexpNewSymTbl(n) /\ held' = held \cup {"lmaps", "csymt"} /\ pc' = "file"
           \/ pc' = "cleanup" /\ held' \in {held \cup {"lmaps"}, held \cup {"lmaps", "record"}} /\ UNCHANGED table
           \/ pc' = "fault" /\ UNCHANGED <<held, table>>
  BY DEF NewTable
<1>2. /\ maps' \in Seq(ToSet(maps'))
      /\ \A i \in DOMAIN maps' :
           maps'[i].firstsym \in Nat /\ maps'[i].nsyms \in Nat /\ maps'[i].firstsym <= maps'[i].nsyms
  BY <1>1, MapsRight
<1>3. FoldLeft(LAMBDA sum, m : sum + (m.nsyms - m.firstsym), symcnt(read), maps') \in Nat
  <2>1. symcnt(read) \in Nat
    BY CountNatural DEF IInv, Sized
  <2> QED
    BY <1>2, <2>1, SumNatural
<1>4. TableSound(table')
  <2>1. CASE table' = table
    BY <2>1 DEF IInv, Sized, RoomKept, TableSound
  <2>2. CASE table' = cexpNewSymTbl(FoldLeft(LAMBDA sum, m : sum + (m.nsyms - m.firstsym), symcnt(read), maps'))
    BY <1>3, <2>2, NewTableSound
  <2> QED
    BY <1>1, <2>1, <2>2
<1>5. /\ pc = "maps" /\ UNCHANGED <<file, kind, input, closed, read>> /\ pc' \in {"file", "cleanup", "fault"}
      /\ \/ held' = held \/ held' = held \cup {"lmaps", "csymt"} \/ held' = held \cup {"lmaps"}
         \/ held' = held \cup {"lmaps", "record"} /\ pc' = "cleanup" /\ table' = table
  BY <1>1 DEF NewTable
<1>6. Sized' /\ RoomKept'
  BY <1>2, <1>4, <1>5 DEF IInv, Sized, RoomKept, TableSound
<1>7. InputAppended' /\ AllReleased' /\ HeadersRead' /\ SymbolsRead'
  BY <1>5 DEF IInv, InputAppended, AllReleased, HeadersRead, SymbolsRead
<1>8. Owned'
  <2>1. Owned /\ held \cap {"f", "input", "record", "lost"} = {} /\ closed = 0
    BY <1>5 DEF IInv, Owned
  <2>2. CASE held' = held \cup {"lmaps", "record"} /\ pc' = "cleanup" /\ table' = table
    <3>1. ~table'.made
      BY <1>5, <2>1, <2>2 DEF Owned
    <3> QED
      BY <1>5, <2>1, <2>2, <3>1 DEF Owned, Things
  <2>3. CASE held' = held \/ held' = held \cup {"lmaps", "csymt"} \/ held' = held \cup {"lmaps"}
    BY <1>5, <2>1, <2>3 DEF Owned, Things
  <2> QED
    BY <1>5, <2>2, <2>3
<1> QED
  BY <1>6, <1>7, <1>8, TypesKept DEF IInv, Next

\* A step that changes nothing but the table, the maps that are left, what is held and pc.
LEMMA TableStep ==
    ASSUME IInv, Next, TableSound(table'), UNCHANGED <<file, input, closed, read>>,
           pc \in {"file", "objects"}, pc' \in {"objects", "cleanup", "fault"},
           maps' \in Seq(ToSet(maps')),
           \A i \in DOMAIN maps' :
             maps'[i].firstsym \in Nat /\ maps'[i].nsyms \in Nat /\ maps'[i].firstsym <= maps'[i].nsyms,
           Owned'
    PROVE  IInv'
<1>1. Sized' /\ RoomKept'
  BY DEF IInv, Sized, RoomKept, TableSound
<1>2. InputAppended' /\ AllReleased' /\ HeadersRead' /\ SymbolsRead'
  BY DEF IInv, InputAppended, AllReleased, HeadersRead, SymbolsRead
<1> QED
  BY <1>1, <1>2, TypesKept DEF IInv

LEMMA AddFileSound == ASSUME IInv, AddFile PROVE IInv'
<1>1. pc = "file" /\ UNCHANGED <<kind, file, input, closed, read, maps>> /\ pc' \in {"objects", "fault"}
  BY DEF AddFile
<1>2. TableSound(table)
  BY DEF IInv, Sized, RoomKept, TableSound
<1>3. TableSound(WithEntries(table, FileEntries))
  <2>1. Len(read) \in Nat /\ DOMAIN read = 1..Len(read)
    BY LenProperties DEF IInv, Sized
  <2> DEFINE X == {assign(read[i], 0, "own") : i \in 1..Len(read)}
  <2>2. FileEntries \in Seq(X)
    BY <2>1, EntriesAre DEF FileEntries
  <2>3. \A x \in X : EntryOK(x)
    BY AssignedOK
  <2> HIDE DEF X
  <2> QED
    BY <1>2, <2>2, <2>3, WithEntriesSound
<1>4. TableSound(table')
  BY <1>2, <1>3, NoTableSound DEF AddFile
<1>5. Owned'
  <2>1. CASE held' = held
    BY <1>1, <2>1 DEF IInv, Owned
  <2>2. CASE table' = NoTable /\ held' = (held \ {"csymt"}) \cup {"lost"} /\ pc' = "objects"
    <3>1. ~table'.made
      BY <2>2 DEF NoTable
    <3>2. Owned /\ closed' = closed /\ kind' = kind /\ pc = "file"
      BY <1>1 DEF IInv, AddFile
    <3>3. held \cap {"f", "input", "record"} = {} /\ held' \subseteq Things
      BY <2>2, <3>2 DEF Owned, Things
    <3> QED
      BY <2>2, <3>1, <3>2, <3>3 DEF Owned
  <2> QED
    BY <2>1, <2>2 DEF AddFile
<1> QED
  BY <1>1, <1>4, <1>5, TableStep DEF IInv, Sized, Next

\* What is copied of an object is in its own memory.
LEMMA MapEntriesAre ==
    ASSUME NEW m, m.firstsym \in Nat, m.nsyms \in Nat, m.firstsym <= m.nsyms
    PROVE  LET new == Entries(MapSymbols(m), m.offset, "object") IN
           /\ \E X : new \in Seq(X) /\ \A x \in X : EntryOK(x)
           /\ Pairs(new) = Of(MapSymbols(m), m.offset)
<1> DEFINE n == m.nsyms - m.firstsym
           X == {assign(MapSymbols(m)[i], m.offset, "object") : i \in 1..n}
<1>1. n \in Nat
  OBVIOUS
<1>2. DOMAIN MapSymbols(m) = 1..n
  <2> DEFINE S == {m.syms[i] : i \in (m.firstsym + 1)..m.nsyms}
  <2>1. \A i \in (m.firstsym + 1)..m.nsyms : m.syms[i] \in S
    OBVIOUS
  <2> HIDE DEF S
  <2>2. MapSymbols(m) \in Seq(S) /\ Len(MapSymbols(m)) = n
    BY <2>1, SubSeqProperties DEF MapSymbols
  <2> QED
    BY <2>2, LenProperties
<1> HIDE DEF n
<1>3. Entries(MapSymbols(m), m.offset, "object") \in Seq(X)
  BY <1>1, <1>2, EntriesAre
<1>4. \A x \in X : EntryOK(x)
  BY AssignedOK
<1>5. Pairs(Entries(MapSymbols(m), m.offset, "object")) = Of(MapSymbols(m), m.offset)
  BY <1>1, <1>2, EntriesPairs
<1> HIDE DEF X
<1> QED
  BY <1>3, <1>4, <1>5

LEMMA MapEntries ==
    ASSUME NEW m, m.firstsym \in Nat, m.nsyms \in Nat, m.firstsym <= m.nsyms, NEW t, TableSound(t)
    PROVE  TableSound(WithEntries(t, Entries(MapSymbols(m), m.offset, "object")))
<1>1. PICK X : Entries(MapSymbols(m), m.offset, "object") \in Seq(X) /\ \A x \in X : EntryOK(x)
  BY MapEntriesAre
<1> QED
  BY <1>1, WithEntriesSound

LEMMA AddObjectSound == ASSUME IInv, AddObject PROVE IInv'
<1>1. /\ pc = "objects" /\ pc' = pc /\ UNCHANGED <<kind, file, input, closed, read, held>> /\ maps # <<>>
      /\ maps' = Tail(maps)
  BY DEF AddObject
<1>2. TableSound(table)
  BY DEF IInv, Sized, RoomKept, TableSound
<1>3. /\ maps \in Seq(ToSet(maps)) /\ Len(maps) \in Nat /\ DOMAIN maps = 1..Len(maps)
      /\ \A i \in DOMAIN maps :
           maps[i].firstsym \in Nat /\ maps[i].nsyms \in Nat /\ maps[i].firstsym <= maps[i].nsyms
  BY LenProperties DEF IInv, Sized
<1>4. /\ Len(maps) # 0 /\ Head(maps) = maps[1] /\ 1 \in DOMAIN maps
      /\ Tail(maps) \in Seq(ToSet(maps)) /\ Len(Tail(maps)) = Len(maps) - 1
      /\ \A i \in 1..Len(Tail(maps)) : Tail(maps)[i] = maps[i + 1]
  BY <1>1, <1>3, HeadTailProperties
<1>5. /\ maps' \in Seq(ToSet(maps'))
      /\ \A i \in DOMAIN maps' :
           maps'[i].firstsym \in Nat /\ maps'[i].nsyms \in Nat /\ maps'[i].firstsym <= maps'[i].nsyms
  <2>1. maps' \in Seq(ToSet(maps'))
    BY <1>1, <1>4, SeqOfItself
  <2>2. \A i \in DOMAIN maps' : i + 1 \in DOMAIN maps /\ maps'[i] = maps[i + 1]
    BY <1>1, <1>3, <1>4
  <2> QED
    BY <1>3, <2>1, <2>2
<1>6. TableSound(table')
  <2> DEFINE m == Head(maps)
  <2>1. m.firstsym \in Nat /\ m.nsyms \in Nat /\ m.firstsym <= m.nsyms
    BY <1>3, <1>4
  <2>2. TableSound(WithEntries(table, Entries(MapSymbols(m), m.offset, "object")))
    <3> HIDE DEF m
    <3> QED
      BY <1>2, <2>1, MapEntries
  <2> QED
    BY <1>2, <2>2 DEF AddObject
<1>7. table'.made = table.made
  BY DEF AddObject, WithEntries, IInv, Sized
<1>8. Owned'
  BY <1>1, <1>7 DEF IInv, Owned
<1> QED
  BY <1>1, <1>5, <1>6, <1>8, TableStep DEF Next

LEMMA FinishSound == ASSUME IInv, Finish PROVE IInv'
<1>1. /\ pc = "objects" /\ UNCHANGED <<kind, file, input, closed, read, maps>> /\ pc' \in {"cleanup", "fault"}
      /\ held' \subseteq held
  BY DEF Finish
<1>2. TableSound(table)
  BY DEF IInv, Sized, RoomKept, TableSound
<1>3. TableSound(table')
  BY <1>2, SortedSound DEF Finish
<1>4. Owned'
  <2>1. CASE ~table.made /\ pc' = "fault" /\ UNCHANGED <<table, held>>
    BY <1>1, <2>1 DEF IInv, Owned
  <2>2. CASE table.made /\ pc' = "cleanup" /\ (held' = held \/ held' = held \ {"csymt"})
    <3>1. held \subseteq Things /\ "lost" \notin held
      BY <1>1, <2>2 DEF IInv, Owned
    <3>2. held' \subseteq Things /\ "lost" \notin held'
      BY <2>2, <3>1
    <3>3. \A x \in {"f", "stream_f", "cmd", "mapping", "input", "record"} : x \in held' <=> x \in held
      BY <2>2
    <3> QED
      BY <1>1, <2>2, <3>2, <3>3, OwnedKept DEF IInv
  <2> QED
    BY <2>1, <2>2 DEF Finish
<1> QED
  BY <1>1, <1>3, <1>4, TableStep DEF IInv, Sized, Next

LEMMA CleanupSound == ASSUME IInv, Cleanup PROVE IInv'
<1> DEFINE rest == held \ {"lmaps", "symtab", "shtab", "elf", "stream_f", "buf", "csymt", "f"}
<1>1. /\ pc = "cleanup" /\ pc' = "done" /\ UNCHANGED <<kind, file, input, read, maps>>
      /\ held' = rest \ {"mapping"} \/ ("stream_f" \in held /\ held' = rest)
      /\ table' = IF "csymt" \in held THEN NoTable ELSE table
  BY DEF Cleanup
<1>2. TableSound(table')
  BY <1>1, NoTableSound DEF IInv, Sized, RoomKept, TableSound
<1>3. Sized' /\ RoomKept'
  BY <1>1, <1>2 DEF IInv, Sized, RoomKept, TableSound
<1>4. /\ Owned /\ "lost" \notin held /\ closed = 0 /\ ~("f" \in held /\ "stream_f" \in held)
      /\ "mapping" \in held => "stream_f" \in held /\ kind = "memory"
  BY <1>1 DEF IInv, Owned
<1>5. /\ closed' <= 1
      /\ "stream_f" \in held => closed' = 1
      /\ "cmd" \in held => closed' = 0
  BY <1>1, <1>4, ClosedOnce, ClosedHow DEF Owned, Owners
<1>6. /\ held' \subseteq {"cmd", "input", "record", "mapping"}
      /\ \A x \in {"cmd", "input", "record"} : x \in held' => x \in held
      /\ "mapping" \in held' => "stream_f" \in held /\ "mapping" \in held
  BY <1>1, <1>4 DEF Owned, Things
<1>7. ~table.made => ~table'.made
  BY <1>1 DEF NoTable
<1>8. AllReleased'
  BY <1>1, <1>4, <1>5, <1>6, <1>7 DEF Owned, AllReleased
<1>9. Owned'
  BY <1>1, <1>4, <1>6, <1>7 DEF Owned, Things
<1>10. InputAppended' /\ HeadersRead' /\ SymbolsRead'
  BY <1>1 DEF IInv, InputAppended, HeadersRead, SymbolsRead
<1> QED
  BY <1>3, <1>8, <1>9, <1>10, TypesKept DEF IInv, Next

-----------------------------------------------------------------------------
(* The theorems *)

LEMMA StepSound == IInv /\ [Next]_vars => IInv'
<1> SUFFICES ASSUME IInv, [Next]_vars
             PROVE  IInv'
  OBVIOUS
<1>1. CASE \E f \in Files : Begin(f)
  BY <1>1, BeginSound
<1>2. CASE rshLoad
  BY <1>2, rshLoadSound
<1>3. CASE OpenStream
  BY <1>3, OpenStreamSound
<1>4. CASE ReadHeaders
  BY <1>4, ReadHeadersSound
<1>5. CASE ReadSymbols
  BY <1>5, ReadSymbolsSound
<1>6. CASE NewTable
  BY <1>6, NewTableStepSound
<1>7. CASE AddFile
  BY <1>7, AddFileSound
<1>8. CASE AddObject
  BY <1>8, AddObjectSound
<1>9. CASE Finish
  BY <1>9, FinishSound
<1>10. CASE Cleanup
  BY <1>10, CleanupSound
<1>11. CASE UNCHANGED vars
  <2>1. TypeOK' /\ Sized' /\ RoomKept'
    BY <1>11 DEF vars, IInv, TypeOK, Sized, RoomKept
  <2>2. InputAppended' /\ Owned' /\ AllReleased'
    BY <1>11 DEF vars, IInv, InputAppended, Owned, AllReleased
  <2>3. HeadersRead' /\ SymbolsRead'
    BY <1>11 DEF vars, IInv, HeadersRead, SymbolsRead
  <2> QED
    BY <2>1, <2>2, <2>3 DEF IInv
<1> QED
  BY <1>1, <1>2, <1>3, <1>4, <1>5, <1>6, <1>7, <1>8, <1>9, <1>10, <1>11 DEF Next

\* The inductive invariant of reading a file: in particular the symbols that are
\* read are those of the section that the file names .symtab, wherever the
\* stream was left, and what rsh sends is in order and inside the buffer.
THEOREM ReadingSound == Spec => []IInv
BY InitSound, StepSound, PTL DEF Spec

\* The marker of the end and every entry fit the table, whatever the objects in
\* memory count, and at the end no name is in the memory of the file.
THEOREM MemoryIsSound == Spec => []MemorySound
<1>1. IInv => MemorySound
  <2> SUFFICES ASSUME IInv
               PROVE  MemorySound
    OBVIOUS
  <2>1. MarkerFits
    <3>1. SUFFICES ASSUME table.ents # <<>>
                   PROVE  Len(table.ents) < table.room
      BY DEF MarkerFits
    <3>2. /\ table.ents \in Seq(ToSet(table.ents)) /\ table.size \in Nat /\ Len(table.ents) <= table.size
          /\ table.room = table.size + 1 \/ (table.room = 0 /\ table.size = 0)
      BY DEF IInv, Sized, RoomKept
    <3>3. Len(table.ents) \in Nat /\ Len(table.ents) # 0
      BY <3>1, <3>2, LenProperties, EmptySeq
    <3> QED
      BY <3>2, <3>3
  <2>2. NamesLive
    <3>1. Marker.store = "program"
      BY DEF Marker
    <3> QED
      BY <3>1 DEF IInv, Sized, NamesLive, EntryOK
  <2> QED
    BY <2>1, <2>2 DEF MemorySound
<1> QED
  BY <1>1, ReadingSound, PTL

\* "All libelf resources are released upon return from this routine", whichever
\* step failed, and the file is closed at most once, whether the caller or the
\* stream has it.  What stays behind is the command for rsh, the buffer of a
\* transfer that could not grow, the record of a table without entries and the
\* mapping of a file that fclose fails for, each in no other case.
THEOREM ResourcesReleased == Spec => []AllReleased
<1>1. IInv => AllReleased
  BY DEF IInv
<1> QED
  BY <1>1, ReadingSound, PTL

\* The symbols are those of the section that the file names, though the reader
\* looks for them where the stream was left.
THEOREM SymbolsAreRead == Spec => []SymbolsRead
<1>1. IInv => SymbolsRead
  BY DEF IInv
<1> QED
  BY <1>1, ReadingSound, PTL

-----------------------------------------------------------------------------
(* What the table has *)

\* The symbols of an object are found where it is mapped.
LEMMA FixedUpRight ==
    ASSUME NEW o, Linked(o)
    PROVE  o.mem[FixedUp(o)] = o.syms
<1>1. /\ o.symtab \in Nat /\ o.off \in Nat
      /\ \E a \in {o.symtab, o.symtab - o.off} :
           /\ Within(o, a) /\ o.mem[a + o.off] = o.syms
           /\ o.symtab = a \/ o.off = 0 \/ ~Within(o, o.symtab)
  BY DEF Linked
<1>2. PICK a \in {o.symtab, o.symtab - o.off} :
        /\ Within(o, a) /\ o.mem[a + o.off] = o.syms
        /\ o.symtab = a \/ o.off = 0 \/ ~Within(o, o.symtab)
  BY <1>1
<1>3. Unfixed(o) <=> Within(o, o.symtab)
  BY DEF Unfixed, Within
<1>4. CASE o.symtab = a
  BY <1>2, <1>3, <1>4 DEF FixedUp
<1>5. CASE o.symtab # a
  <2>1. a + o.off = o.symtab
    BY <1>1, <1>2, <1>5
  <2>2. o.off = 0 => o.symtab + o.off = o.symtab
    BY <1>1
  <2> QED
    BY <1>2, <1>3, <1>5, <2>1, <2>2 DEF FixedUp
<1> QED
  BY <1>4, <1>5

\* The part of an object's symbols that is copied has all of them that can be.
LEMMA MapComplete ==
    ASSUME NEW o, Linked(o), NEW m, m = LinkMap(o)
    PROVE  m.offset = o.off /\ Of(MapSymbols(m), m.offset) = Of(o.syms, o.off)
<1> DEFINE n == Len(o.syms)
           first == m.firstsym
<1>1. n \in Nat /\ DOMAIN o.syms = 1..n
  BY LenProperties DEF Linked
<1>2. m.syms = o.syms /\ m.offset = o.off
  BY FixedUpRight DEF LinkMap
<1>3. m.nsyms = n /\ first \in 0..n /\ \A i \in 1..first : ~Selected(o.syms[i])
  <2>1. CASE "GNU_HASH" \notin o.tags
    <3>1. first = 0 /\ m.nsyms = o.nchain /\ o.nchain = n
      BY <2>1 DEF LinkMap, Linked
    <3> QED
      BY <1>1, <3>1
  <2>2. CASE "GNU_HASH" \in o.tags
    <3>1. first = o.symndx /\ m.nsyms = NumSymbols(o.symndx, o.buckets, o.chain)
      BY <2>2 DEF LinkMap
    <3>2. /\ o.symndx \in Nat /\ \A i \in 1..o.symndx : ~Selected(o.syms[i])
          /\ o.buckets \in Seq(Nat)
          /\ \E of \in [o.symndx..(n - 1) -> DOMAIN o.buckets] :
               Hashed(n, o.symndx, Len(o.buckets), of,
                      [b \in DOMAIN o.buckets |-> {i \in DOMAIN of : of[i] = b}], o.buckets, o.chain)
      BY <2>2 DEF Linked
    <3>3. PICK nb, of, members : nb = Len(o.buckets) /\ Hashed(n, o.symndx, nb, of, members, o.buckets, o.chain)
      BY <3>2
    <3>4. nb \in Nat
      BY <3>2, <3>3, LenProperties
    <3>5. NumSymbols(o.symndx, o.buckets, o.chain) = n
      <4> HIDE DEF n
      <4> QED
        BY <1>1, <3>2, <3>3, <3>4, HashTableCounted
    <3>6. o.symndx <= n
      BY <3>3 DEF Hashed
    <3> QED
      BY <1>1, <3>1, <3>2, <3>5, <3>6
  <2> QED
    BY <2>1, <2>2
<1> HIDE DEF n, first
<1>4. /\ DOMAIN MapSymbols(m) = 1..(n - first)
      /\ \A i \in 1..(n - first) : MapSymbols(m)[i] = o.syms[first + i]
  <2> DEFINE S == {o.syms[i] : i \in (first + 1)..n}
             p == first + 1
  <2>1. \A i \in p..n : o.syms[i] \in S
    OBVIOUS
  <2>2. MapSymbols(m) = SubSeq(o.syms, p, n)
    BY <1>2, <1>3 DEF MapSymbols, first
  <2>3. p \in Int /\ n \in Int /\ first \in Int /\ first <= n
    BY <1>1, <1>3
  <2> HIDE DEF S, p
  <2>4. /\ MapSymbols(m) \in Seq(S) /\ Len(MapSymbols(m)) = IF p <= n THEN n - p + 1 ELSE 0
        /\ \A i \in 1..(n - p + 1) : MapSymbols(m)[i] = o.syms[p + i - 1]
    BY <2>1, <2>2, <2>3, SubSeqProperties
  <2>5. n - p + 1 = n - first /\ (p <= n <=> first # n) /\ \A i \in 1..(n - first) : p + i - 1 = first + i
    BY <2>3 DEF p
  <2>6. Len(MapSymbols(m)) = n - first
    BY <2>3, <2>4, <2>5
  <2> QED
    BY <2>4, <2>5, <2>6, LenProperties
<1>5. \A s : Selected(s) => (s \in ToSet(MapSymbols(m)) <=> s \in ToSet(o.syms))
  <2>1. ASSUME NEW s \in ToSet(MapSymbols(m))
        PROVE  s \in ToSet(o.syms)
    <3>1. PICK i \in 1..(n - first) : s = o.syms[first + i]
      BY <1>4 DEF ToSet
    <3>2. first + i \in 1..n
      BY <1>1, <1>3
    <3> QED
      BY <1>1, <3>1, <3>2 DEF ToSet
  <2>2. ASSUME NEW s \in ToSet(o.syms), Selected(s)
        PROVE  s \in ToSet(MapSymbols(m))
    <3>1. PICK j \in 1..n : s = o.syms[j]
      BY <1>1 DEF ToSet
    <3>2. ~(j \in 1..first)
      BY <1>3, <2>2, <3>1
    <3>3. j - first \in 1..(n - first) /\ first + (j - first) = j
      BY <1>1, <1>3, <3>2
    <3> QED
      BY <1>4, <3>1, <3>3 DEF ToSet
  <2> QED
    BY <2>1, <2>2
<1> QED
  BY <1>2, <1>5 DEF Of

\* What the objects that were not added yet define.
OfMaps(ms) == UNION {Of(MapSymbols(ms[i]), ms[i].offset) : i \in DOMAIN ms}

\* The names and the values of what is defined.
Named(g) == {<<d.name, d.ptv>> : d \in g}

LEMMA NamedBy ==
    ASSUME NEW where, NEW syms, NEW off
    PROVE  Named(DefinedBy(where, syms, off)) = Of(syms, off)
<1>1. ASSUME NEW x \in Named(DefinedBy(where, syms, off))
      PROVE  x \in Of(syms, off)
  <2>1. PICK i \in {k \in DOMAIN syms : Selected(syms[k])} : x = <<syms[i].name, syms[i].value + off>>
    BY DEF Named, DefinedBy
  <2>2. syms[i] \in {y \in ToSet(syms) : Selected(y)}
    BY DEF ToSet
  <2> QED
    BY <2>1, <2>2 DEF Of
<1>2. ASSUME NEW x \in Of(syms, off)
      PROVE  x \in Named(DefinedBy(where, syms, off))
  <2>1. PICK s \in {y \in ToSet(syms) : Selected(y)} : x = <<s.name, s.value + off>>
    BY DEF Of
  <2>2. PICK i \in DOMAIN syms : s = syms[i]
    BY DEF ToSet
  <2> DEFINE d == [at |-> <<where, i>>, name |-> syms[i].name, ptv |-> syms[i].value + off]
  <2>3. d \in DefinedBy(where, syms, off)
    BY <2>1, <2>2 DEF DefinedBy
  <2>4. x = <<d.name, d.ptv>>
    BY <2>1, <2>2
  <2> HIDE DEF d
  <2> QED
    BY <2>3, <2>4 DEF Named
<1> QED
  BY <1>1, <1>2

LEMMA DefinedIs ==
    ASSUME ObjectsLinked, NEW objects \in LinkMaps
    PROVE  Named(Defined(objects)) = Of(read, 0) \cup OfMaps(cexpLinkMapBuild(objects))
<1> DEFINE ms == cexpLinkMapBuild(objects)
<1>1. CASE ms = <<>>
  <2>1. OfMaps(<<>>) = {}
    BY DEF OfMaps
  <2>2. Defined(objects) = DefinedBy(0, read, 0)
    BY <1>1 DEF Defined
  <2>3. Named(Defined(objects)) = Of(read, 0)
    BY <2>2, NamedBy
  <2> QED
    BY <1>1, <2>1, <2>3
<1>2. CASE ms # <<>>
  <2>1. (\A i \in DOMAIN objects : Usable(objects[i])) /\ ms = [i \in DOMAIN objects |-> LinkMap(objects[i])]
    BY <1>2 DEF cexpLinkMapBuild
  <2>2. DOMAIN ms = DOMAIN objects
    BY <2>1
  <2>3. \A i \in DOMAIN objects : Of(MapSymbols(ms[i]), ms[i].offset) = Of(objects[i].syms, objects[i].off)
    <3>1. ASSUME NEW i \in DOMAIN objects
          PROVE  Of(MapSymbols(ms[i]), ms[i].offset) = Of(objects[i].syms, objects[i].off)
      <4>1. Linked(objects[i]) /\ ms[i] = LinkMap(objects[i])
        BY <2>1 DEF ObjectsLinked
      <4>2. /\ LinkMap(objects[i]).offset = objects[i].off
            /\ Of(MapSymbols(LinkMap(objects[i])), LinkMap(objects[i]).offset) = Of(objects[i].syms, objects[i].off)
        BY <4>1, MapComplete
      <4> QED
        BY <4>1, <4>2
    <3> QED
      BY <3>1
  <2>4. OfMaps(ms) = UNION {Of(objects[i].syms, objects[i].off) : i \in DOMAIN objects}
    <3> HIDE DEF ms
    <3> QED
      BY <2>2, <2>3 DEF OfMaps
  <2> DEFINE by(i) == DefinedBy(i, objects[i].syms, objects[i].off)
  <2>5. Defined(objects) = DefinedBy(0, read, 0) \cup UNION {by(i) : i \in DOMAIN objects}
    BY <1>2 DEF Defined
  <2>6. \A i \in DOMAIN objects : Named(by(i)) = Of(objects[i].syms, objects[i].off)
    BY NamedBy
  <2> HIDE DEF by
  <2>7. Named(Defined(objects)) = Named(DefinedBy(0, read, 0)) \cup UNION {Named(by(i)) : i \in DOMAIN objects}
    BY <2>5 DEF Named
  <2>8. Named(DefinedBy(0, read, 0)) = Of(read, 0)
    BY NamedBy
  <2> QED
    BY <2>4, <2>6, <2>7, <2>8
<1> QED
  BY <1>1, <1>2

LEMMA SetConcat ==
    ASSUME NEW X, NEW d \in Seq(X), NEW Y, NEW e \in Seq(Y)
    PROVE  ToSet(d \o e) = ToSet(d) \cup ToSet(e)
<1> DEFINE Z == X \cup Y
<1>1. d \in Seq(Z) /\ e \in Seq(Z)
  OBVIOUS
<1> HIDE DEF Z
<1>2. /\ Len(d) \in Nat /\ Len(e) \in Nat /\ DOMAIN d = 1..Len(d) /\ DOMAIN e = 1..Len(e)
      /\ DOMAIN (d \o e) = 1..(Len(d) + Len(e))
      /\ \A i \in 1..(Len(d) + Len(e)) : (d \o e)[i] = IF i <= Len(d) THEN d[i] ELSE e[i - Len(d)]
  BY <1>1, ConcatProperties, LenProperties
<1>3. ToSet(d \o e) = ToSet(d) \cup ToSet(e)
  <2>1. ASSUME NEW x \in ToSet(d \o e)
        PROVE  x \in ToSet(d) \cup ToSet(e)
    <3>1. PICK i \in 1..(Len(d) + Len(e)) : x = (d \o e)[i]
      BY <1>2 DEF ToSet
    <3>2. CASE i <= Len(d)
      <4>1. i \in 1..Len(d) /\ x = d[i]
        BY <1>2, <3>1, <3>2
      <4> QED
        BY <1>2, <4>1 DEF ToSet
    <3>3. CASE ~(i <= Len(d))
      <4>1. i - Len(d) \in 1..Len(e) /\ x = e[i - Len(d)]
        BY <1>2, <3>1, <3>3
      <4> QED
        BY <1>2, <4>1 DEF ToSet
    <3> QED
      BY <3>2, <3>3
  <2>2. ASSUME NEW x \in ToSet(d)
        PROVE  x \in ToSet(d \o e)
    <3>1. PICK i \in 1..Len(d) : x = d[i]
      BY <1>2 DEF ToSet
    <3>2. i \in 1..(Len(d) + Len(e)) /\ x = (d \o e)[i]
      BY <1>2, <3>1
    <3> QED
      BY <1>2, <3>2 DEF ToSet
  <2>3. ASSUME NEW x \in ToSet(e)
        PROVE  x \in ToSet(d \o e)
    <3>1. PICK i \in 1..Len(e) : x = e[i]
      BY <1>2 DEF ToSet
    <3>2. Len(d) + i \in 1..(Len(d) + Len(e)) /\ ~(Len(d) + i <= Len(d)) /\ Len(d) + i - Len(d) = i
      BY <1>2
    <3>3. x = (d \o e)[Len(d) + i]
      BY <1>2, <3>1, <3>2
    <3> QED
      BY <1>2, <3>2, <3>3 DEF ToSet
  <2> QED
    BY <2>1, <2>2, <2>3
<1> QED
  BY <1>3

LEMMA PairsConcat ==
    ASSUME NEW X, NEW d \in Seq(X), NEW Y, NEW e \in Seq(Y)
    PROVE  Pairs(d \o e) = Pairs(d) \cup Pairs(e)
BY SetConcat DEF Pairs

\* The entries are what is defined, but for versions and the marker.
Complete(ents, g) ==
    /\ \A e \in ToSet(ents) \ {Marker} : \E d \in g : d.name = e.name /\ d.ptv = e.ptv
    /\ \A d \in g : \E e \in ToSet(ents) : SameName(e.name, d.name)

\* What the table has is what the file and the objects that were added define, and
\* what it lacks is in the ones that were not.
Collected ==
    /\ pc \in {"idle", "rsh", "stream", "headers", "symbols", "maps"} => ~table.made
    /\ pc = "file" => table.ents = <<>> /\ Named(given) = Of(read, 0) \cup OfMaps(maps)
    /\ pc = "objects" /\ table.made => Named(given) = Pairs(table.ents) \cup OfMaps(maps)
    /\ pc \in {"cleanup", "done"} /\ table.made => Complete(table.ents, given)

LEMMA WithEntriesPairs ==
    ASSUME NEW t, TableSound(t), NEW X, NEW new \in Seq(X)
    PROVE  WithEntries(t, new).made = t.made /\ Pairs(WithEntries(t, new).ents) = Pairs(t.ents) \cup Pairs(new)
<1>1. t = [room |-> t.room, size |-> t.size, ents |-> t.ents, made |-> t.made] /\ t.ents \in Seq(ToSet(t.ents))
  BY DEF TableSound
<1>2. WithEntries(t, new).ents = t.ents \o new /\ WithEntries(t, new).made = t.made
  BY <1>1 DEF WithEntries
<1> QED
  BY <1>1, <1>2, PairsConcat

LEMMA NewTableCollects ==
    ASSUME IInv, ObjectsLinked, Collected, NewTable
    PROVE  Collected'
<1>1. PICK objects \in LinkMaps :
        /\ maps' = cexpLinkMapBuild(objects) /\ given' = Defined(objects)
        /\ \/ (\E n : table' = cexpNewSymTbl(n)) /\ pc' = "file"
           \/ pc' \in {"cleanup", "fault"} /\ table' = table
  BY DEF NewTable
<1>2. pc = "maps" /\ read' = read /\ ~table.made
  BY DEF NewTable, Collected
<1>3. Named(given') = Of(read', 0) \cup OfMaps(maps')
  BY <1>1, <1>2, DefinedIs
<1>4. CASE pc' = "file" /\ \E n : table' = cexpNewSymTbl(n)
  <2>1. table'.ents = <<>>
    BY <1>4 DEF cexpNewSymTbl
  <2> QED
    BY <1>3, <1>4, <2>1 DEF Collected
<1>5. CASE pc' \in {"cleanup", "fault"} /\ table' = table
  BY <1>2, <1>5 DEF Collected
<1> QED
  BY <1>1, <1>4, <1>5

LEMMA AddFileCollects ==
    ASSUME IInv, Collected, AddFile
    PROVE  Collected'
<1>1. /\ pc = "file" /\ UNCHANGED <<read, maps, given>> /\ table.ents = <<>>
      /\ Named(given) = Of(read, 0) \cup OfMaps(maps)
  BY DEF AddFile, Collected
<1>2. CASE table' = WithEntries(table, FileEntries) /\ pc' = "objects"
  <2>1. TableSound(table)
    BY DEF IInv, Sized, RoomKept, TableSound
  <2>2. Len(read) \in Nat /\ DOMAIN read = 1..Len(read)
    BY LenProperties DEF IInv, Sized
  <2>3. FileEntries \in Seq({assign(read[i], 0, "own") : i \in 1..Len(read)}) /\ Pairs(FileEntries) = Of(read, 0)
    BY <2>2, EntriesAre, EntriesPairs DEF FileEntries
  <2>4. Pairs(table'.ents) = Pairs(<<>>) \cup Of(read, 0)
    BY <1>1, <1>2, <2>1, <2>3, WithEntriesPairs
  <2>5. Pairs(<<>>) = {}
    BY DEF Pairs, ToSet
  <2>6. Named(given') = Pairs(table'.ents) \cup OfMaps(maps')
    BY <1>1, <2>4, <2>5
  <2> QED
    BY <1>2, <2>6 DEF Collected
<1>3. CASE pc' = "fault"
  BY <1>3 DEF Collected
<1>4. CASE table' = NoTable /\ pc' = "objects"
  BY <1>4 DEF Collected, NoTable
<1> QED
  BY <1>2, <1>3, <1>4 DEF AddFile

LEMMA OfTail ==
    ASSUME NEW ms, ms \in Seq(ToSet(ms)), ms # <<>>
    PROVE  OfMaps(ms) = Of(MapSymbols(Head(ms)), Head(ms).offset) \cup OfMaps(Tail(ms))
<1> DEFINE of(m) == Of(MapSymbols(m), m.offset)
<1>1. Len(ms) \in Nat /\ DOMAIN ms = 1..Len(ms) /\ Len(ms) # 0
  BY LenProperties, EmptySeq
<1>2. /\ Head(ms) = ms[1] /\ Len(Tail(ms)) = Len(ms) - 1 /\ DOMAIN Tail(ms) = 1..(Len(ms) - 1)
      /\ \A i \in 1..(Len(ms) - 1) : Tail(ms)[i] = ms[i + 1]
  <2>1. /\ Tail(ms) \in Seq(ToSet(ms)) /\ Len(Tail(ms)) = Len(ms) - 1
        /\ \A i \in 1..Len(Tail(ms)) : Tail(ms)[i] = ms[i + 1]
    BY <1>1, HeadTailProperties
  <2>2. Head(ms) = ms[1]
    BY <1>1
  <2> QED
    BY <2>1, <2>2, LenProperties
<1>3. ASSUME NEW x \in OfMaps(ms)
      PROVE  x \in of(Head(ms)) \cup OfMaps(Tail(ms))
  <2>1. PICK i \in 1..Len(ms) : x \in of(ms[i])
    BY <1>1 DEF OfMaps
  <2>2. CASE i = 1
    BY <1>2, <2>1, <2>2
  <2>3. CASE i # 1
    <3>1. i - 1 \in 1..(Len(ms) - 1) /\ (i - 1) + 1 = i
      BY <1>1, <2>3
    <3>2. Tail(ms)[i - 1] = ms[i]
      BY <1>2, <3>1
    <3> QED
      BY <1>2, <2>1, <3>1, <3>2 DEF OfMaps
  <2> QED
    BY <2>2, <2>3
<1>4. of(Head(ms)) \subseteq OfMaps(ms)
  <2>1. 1 \in DOMAIN ms
    BY <1>1
  <2> QED
    BY <1>2, <2>1 DEF OfMaps
<1>5. ASSUME NEW x \in OfMaps(Tail(ms))
      PROVE  x \in OfMaps(ms)
  <2>1. PICK i \in 1..(Len(ms) - 1) : x \in of(Tail(ms)[i])
    BY <1>2 DEF OfMaps
  <2>2. i + 1 \in 1..Len(ms) /\ Tail(ms)[i] = ms[i + 1]
    BY <1>1, <1>2
  <2> QED
    BY <1>1, <2>1, <2>2 DEF OfMaps
<1> QED
  BY <1>3, <1>4, <1>5

LEMMA AddObjectCollects ==
    ASSUME IInv, Collected, AddObject
    PROVE  Collected'
<1> DEFINE m == Head(maps)
           new == Entries(MapSymbols(m), m.offset, "object")
<1>1. /\ pc = "objects" /\ pc' = "objects" /\ UNCHANGED <<read, given>> /\ maps # <<>> /\ maps' = Tail(maps)
      /\ table' = IF table.made THEN WithEntries(table, new) ELSE table
  BY DEF AddObject
<1>2. TableSound(table)
  BY DEF IInv, Sized, RoomKept, TableSound
<1>3. maps \in Seq(ToSet(maps)) /\ m.firstsym \in Nat /\ m.nsyms \in Nat /\ m.firstsym <= m.nsyms
  <2>1. maps \in Seq(ToSet(maps)) /\ Head(maps) = maps[1] /\ 1 \in DOMAIN maps
    <3>1. maps \in Seq(ToSet(maps))
      BY DEF IInv, Sized
    <3>2. Len(maps) \in Nat /\ Len(maps) # 0 /\ DOMAIN maps = 1..Len(maps)
      BY <1>1, <3>1, LenProperties, EmptySeq
    <3> QED
      BY <3>1, <3>2
  <2> QED
    BY <2>1 DEF IInv, Sized
<1> HIDE DEF m
<1>4. \E X : new \in Seq(X)
  BY <1>3, MapEntriesAre
<1>5. Pairs(new) = Of(MapSymbols(m), m.offset)
  BY <1>3, MapEntriesAre
<1>6. OfMaps(maps) = Of(MapSymbols(m), m.offset) \cup OfMaps(maps')
  BY <1>1, <1>3, OfTail DEF m
<1> HIDE DEF new
<1>7. CASE table.made
  <2>1. table'.made = table.made /\ Pairs(table'.ents) = Pairs(table.ents) \cup Pairs(new)
    BY <1>1, <1>2, <1>4, <1>7, WithEntriesPairs
  <2>2. Named(given) = Pairs(table.ents) \cup OfMaps(maps)
    BY <1>1, <1>7 DEF Collected
  <2>3. Named(given') = Pairs(table'.ents) \cup OfMaps(maps')
    BY <1>1, <1>5, <1>6, <2>1, <2>2
  <2> QED
    BY <1>1, <2>3 DEF Collected
<1>8. CASE ~table.made
  BY <1>1, <1>8 DEF Collected
<1> QED
  BY <1>7, <1>8

\* What is left of the entries after sorting is complete, if they were: a name
\* that is dropped is there without its version.
LEMMA SortedComplete ==
    ASSUME NEW n \in Nat, NEW X, NEW s \in [1..n -> X], NEW g, Named(g) = Pairs(s),
           NEW e \in cexpSortSymTbl(s)
    PROVE  Complete(e, g)
<1>1. PICK kept \in Distinct(s), q \in Seq(1..n) :
        /\ ToSet(q) = kept
        /\ e = [k \in DOMAIN q |-> s[q[k]]] \o (IF LastDropped(s) THEN <<Marker>> ELSE <<>>)
        /\ Len(q) + (IF LastDropped(s) THEN 1 ELSE 0) <= n
  BY SortedIs
<1> DEFINE those == [k \in DOMAIN q |-> s[q[k]]]
           end == IF LastDropped(s) THEN <<Marker>> ELSE <<>>
<1>2. ToSet(those) = {s[i] : i \in kept}
  BY <1>1 DEF ToSet
<1>3. ToSet(e) = ToSet(those) \cup ToSet(end)
  <2>1. those \in Seq(X)
    <3>1. Len(q) \in Nat /\ DOMAIN q = 1..Len(q) /\ \A k \in 1..Len(q) : q[k] \in 1..n
      BY LenProperties
    <3>2. those \in [1..Len(q) -> X]
      BY <3>1
    <3> HIDE DEF those
    <3> QED
      BY <3>1, <3>2
  <2>2. end \in Seq({Marker})
    <3>1. CASE LastDropped(s)
      BY <3>1
    <3>2. CASE ~LastDropped(s)
      BY <3>2
    <3> QED
      BY <3>1, <3>2
  <2> HIDE DEF those, end
  <2>3. ToSet(those \o end) = ToSet(those) \cup ToSet(end)
    BY <2>1, <2>2, SetConcat
  <2> QED
    BY <1>1, <2>3 DEF those, end
<1>4. ToSet(end) \subseteq {Marker}
  BY DEF ToSet
<1> HIDE DEF those, end
<1>5. kept \in SUBSET (1..n)
  BY DEF Distinct
<1>6. ASSUME NEW x \in ToSet(e) \ {Marker}
      PROVE  \E d \in g : d.name = x.name /\ d.ptv = x.ptv
  <2>1. PICK i \in kept : x = s[i]
    BY <1>2, <1>3, <1>4
  <2>2. x \in ToSet(s)
    BY <1>5, <2>1 DEF ToSet
  <2>3. <<x.name, x.ptv>> \in Named(g)
    BY <2>2 DEF Pairs
  <2> QED
    BY <2>3 DEF Named
<1>7. ASSUME NEW m \in NamesOf(s), ~Redundant(NamesOf(s), m)
      PROVE  \E x \in ToSet(e) : x.name = m
  <2>1. PICK i \in kept : s[i].name = m
    BY <1>7 DEF Distinct
  <2> QED
    BY <1>2, <1>3, <2>1
<1>8. ASSUME NEW d \in g
      PROVE  \E x \in ToSet(e) : SameName(x.name, d.name)
  <2>1. d.name \in NamesOf(s)
    <3>1. <<d.name, d.ptv>> \in Pairs(s)
      BY DEF Named
    <3>2. PICK x \in ToSet(s) : x.name = d.name
      BY <3>1 DEF Pairs
    <3> QED
      BY <3>2 DEF ToSet, NamesOf
  <2>2. CASE ~Redundant(NamesOf(s), d.name)
    BY <1>7, <2>1, <2>2 DEF SameName
  <2>3. CASE Redundant(NamesOf(s), d.name)
    <3>1. PICK m \in NamesOf(s) : m # d.name /\ SameName(m, d.name)
      BY <2>3 DEF Redundant
    <3>2. ~Redundant(NamesOf(s), m)
      <4>1. m \notin DOMAIN Versions
        BY <3>1, NamesOK DEF SameName
      <4> QED
        BY <4>1 DEF Redundant, SameName
    <3> QED
      BY <1>7, <3>1, <3>2
  <2> QED
    BY <2>2, <2>3
<1> QED
  BY <1>6, <1>8 DEF Complete

LEMMA FinishCollects ==
    ASSUME IInv, Collected, Finish
    PROVE  Collected'
<1>1. pc = "objects" /\ maps = <<>> /\ given' = given
  BY DEF Finish
<1>2. CASE pc' = "fault"
  BY <1>2 DEF Collected
<1>3. CASE /\ table.made /\ pc' = "cleanup"
           /\ \E e \in cexpSortSymTbl(table.ents) : table' = [table EXCEPT !.ents = e]
  <2>1. PICK e \in cexpSortSymTbl(table.ents) : table' = [table EXCEPT !.ents = e]
    BY <1>3
  <2>2. /\ table = [room |-> table.room, size |-> table.size, ents |-> table.ents, made |-> table.made]
        /\ table.ents \in [1..Len(table.ents) -> ToSet(table.ents)] /\ Len(table.ents) \in Nat
    BY LenProperties DEF IInv, Sized
  <2>3. table'.ents = e
    BY <2>1, <2>2
  <2>4. Named(given) = Pairs(table.ents)
    <3>1. OfMaps(<<>>) = {}
      BY DEF OfMaps
    <3> QED
      BY <1>1, <1>3, <3>1 DEF Collected
  <2>5. Complete(e, given)
    BY <2>2, <2>4, SortedComplete
  <2> QED
    BY <1>1, <1>3, <2>3, <2>5 DEF Collected
<1> QED
  BY <1>2, <1>3 DEF Finish

LEMMA OthersCollect ==
    ASSUME IInv, Collected,
           (\E f \in Files : Begin(f)) \/ rshLoad \/ OpenStream \/ ReadHeaders \/ ReadSymbols
    PROVE  Collected'
<1>1. /\ pc \in {"idle", "rsh", "stream", "headers", "symbols"} /\ table' = table
      /\ pc' \in {"rsh", "stream", "headers", "symbols", "maps", "cleanup", "fault"}
  BY DEF Begin, rshLoad, OpenStream, ReadHeaders, ReadSymbols
<1> QED
  BY <1>1 DEF Collected

LEMMA CleanupCollects ==
    ASSUME IInv, Collected, Cleanup
    PROVE  Collected'
<1>1. pc = "cleanup" /\ pc' = "done" /\ given' = given /\ (table' = NoTable \/ table' = table)
  BY DEF Cleanup
<1>2. CASE table' = NoTable
  <2>1. ~table'.made
    BY <1>2 DEF NoTable
  <2> QED
    BY <1>1, <2>1 DEF Collected
<1>3. CASE table' = table
  BY <1>1, <1>3 DEF Collected
<1> QED
  BY <1>1, <1>2, <1>3

\* From the file's bytes and the objects' memory to the table's entries nothing is
\* lost or invented, for objects as linkers make them: the table has every symbol
\* that they define, perhaps without its version, where it is, and no other but the
\* marker.
THEOREM TableIsComplete ==
    ASSUME ObjectsLinked
    PROVE  Spec => [](SymbolsRead /\ AllDefined)
<1>1. Init => Collected
  BY DEF Init, Collected, NoTable
<1>2. IInv /\ Collected /\ [Next]_vars => Collected'
  <2>1. CASE UNCHANGED vars
    BY <2>1 DEF vars, Collected
  <2> QED
    BY <2>1, OthersCollect, NewTableCollects, AddFileCollects, AddObjectCollects, FinishCollects,
       CleanupCollects DEF Next
<1>3. IInv /\ Collected => SymbolsRead /\ AllDefined
  BY DEF IInv, Collected, AllDefined, Complete
<1> QED
  BY <1>1, <1>2, <1>3, ReadingSound, PTL DEF Spec
=============================================================================
