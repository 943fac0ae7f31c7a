----------------------------- MODULE ModulesProofs -----------------------------
(***************************************************************************)
(* Proofs about Modules for any threads, files, records and bounds, when   *)
(* module code does not call the loader back (~Nested): what a loaded      *)
(* module refers to stays loaded, the dependency bitmaps agree, ids and    *)
(* symbols identify modules, no record is lost, the list keeps its order,  *)
(* and a module whose linkonce sections others share stays loaded.         *)
(***************************************************************************)
EXTENDS Modules, FiniteSetTheorems, SequenceTheorems, TLAPS

\* A set of numbers up to n has a least element.
LEMMA LeastNumber ==
    ASSUME NEW n \in Nat, NEW T \in SUBSET (0..n), T # {}
    PROVE  \E k \in T : \A j \in T : k <= j
<1> DEFINE Lower == {p \in Nat \X Nat : p[1] < p[2]}
<1>1. IsWellFoundedOn(Lower, Nat)
  BY NatLessThanWellFounded DEF OpToRel
<1>2. T \subseteq Nat
  OBVIOUS
<1>3. PICK k \in T : \A j \in T : <<j, k>> \notin Lower
  <2> HIDE DEF Lower
  <2> QED
    BY <1>1, <1>2, WFMin
<1>4. \A j \in T : ~(j < k)
  BY <1>2, <1>3
<1> QED
  BY <1>2, <1>4

-----------------------------------------------------------------------------
(* What the parts of IInv say together *)

\* A list is a function on 1..Len(list) into the records.
LEMMA ListFacts ==
    ASSUME TypeOK
    PROVE  /\ Len(list) \in Nat /\ DOMAIN list = 1..Len(list)
           /\ \A i \in 1..Len(list) : list[i] \in Addrs
           /\ Loaded \subseteq Addrs /\ Settled \subseteq Loaded
           /\ list = <<>> <=> Len(list) = 0
           /\ list # <<>> <=> Loaded # {}
<1>1. /\ Len(list) \in Nat /\ DOMAIN list = 1..Len(list)
      /\ \A i \in 1..Len(list) : list[i] \in Addrs
  BY LenProperties, ElementOfSeq DEF TypeOK
<1>2. list = <<>> <=> Len(list) = 0
  BY EmptySeq DEF TypeOK
<1> QED
  BY <1>1, <1>2 DEF Loaded, Settled

\* Without a call that has the lock all modules are settled, and so they are
\* when that call has not yet come to the destructors.
LEMMA SettledFacts ==
    ASSUME LockHeld
    PROVE  /\ writer = None => Settled = Loaded
           /\ \A t \in Threads : writer = t /\ frame[t].op # "dtors" => Settled = Loaded
           /\ \A t \in Threads : writer = t /\ frame[t].op = "dtors"
                => Settled = Loaded \ {frame[t].mod}
<1>1. \A u \in Threads : frame[u].op = "dtors" => writer = u
  BY DEF LockHeld, Holding
<1> QED
  BY <1>1, NoneIsNothing DEF Settled

-----------------------------------------------------------------------------
(* Steps that leave the list and what the bitmaps say alone *)

SameFields(a) ==
    /\ rec'[a].id = rec[a].id /\ rec'[a].name = rec[a].name
    /\ rec'[a].exports = rec[a].exports /\ rec'[a].bound = rec[a].bound
    /\ rec'[a].needs = rec[a].needs /\ rec'[a].neededby = rec[a].neededby

Quiet(t) ==
    /\ list' = list
    /\ \A a \in Loaded : SameFields(a)
    /\ \A u \in Threads \ {t} :
         frame'[u] = frame[u] /\ (frame[u].op = "ctors" => SameFields(frame[u].mod))
    /\ frame[t].op # "dtors" /\ frame'[t].op # "dtors"

Agreed == NoRepeats /\ NoTwins /\ AllResolved /\ DependenciesMutual /\ NoStaleBits

\* Nothing that relates modules to each other changes.
LEMMA QuietAgreed ==
    ASSUME IInv, NEW t \in Threads, Quiet(t)
    PROVE  /\ Agreed' /\ Settled' = Settled /\ Loaded' = Loaded
           /\ \A u \in Threads \ {t} : CallValid(u)'
<1>1. Loaded' = Loaded /\ Settled \subseteq Loaded
  BY ListFacts DEF Quiet, Loaded, IInv
<1>2. Settled' = Settled
  <2>1. ASSUME NEW u \in Threads
        PROVE  /\ frame'[u].op = "dtors" <=> frame[u].op = "dtors"
               /\ frame[u].op = "dtors" => frame'[u] = frame[u]
    BY DEF Quiet
  <2> QED
    BY <1>1, <2>1 DEF Settled
<1>3. \A a \in Loaded : SameFields(a)
  BY DEF Quiet
<1>4. NoRepeats' /\ NoTwins'
  BY <1>1, <1>3 DEF IInv, NoRepeats, NoTwins, SameFields, Quiet
<1>5. ASSUME NEW a, Resolved(a), SameFields(a)
      PROVE  Resolved(a)'
  <2>1. ASSUME NEW n \in DOMAIN rec'[a].bound
        PROVE  /\ rec'[a].bound[n] \in Settled'
               /\ n \in rec'[rec'[a].bound[n]].exports
               /\ rec'[rec'[a].bound[n]].id \in rec'[a].needs
    BY <1>1, <1>2, <1>3, <1>5 DEF Resolved, SameFields
  <2>2. \A i \in rec'[a].needs : \E b \in Settled' : rec'[b].id = i
    BY <1>1, <1>2, <1>3, <1>5 DEF Resolved, SameFields
  <2> QED
    BY <2>1, <2>2 DEF Resolved
<1>6. ASSUME NEW a, Apart(a), SameFields(a)
      PROVE  Apart(a)'
  BY <1>1, <1>3, <1>6 DEF Apart, SameFields
<1>resolved. AllResolved'
  BY <1>1, <1>2, <1>3, <1>5 DEF IInv, AllResolved
<1>7. DependenciesMutual' /\ NoStaleBits'
  BY <1>1, <1>2, <1>3 DEF IInv, DependenciesMutual, NoStaleBits, SameFields
<1>8. ASSUME NEW u \in Threads \ {t}
      PROVE  CallValid(u)'
  <2>1. CallValid(u) /\ frame'[u] = frame[u] /\ list' = list
    BY DEF IInv, CallsValid, Quiet
  <2>2. ASSUME frame[u].op = "ctors"
        PROVE  Apart(frame[u].mod)' /\ Resolved(frame[u].mod)'
    <3>1. SameFields(frame[u].mod) /\ Apart(frame[u].mod) /\ Resolved(frame[u].mod)
      BY <2>1, <2>2 DEF Quiet, CallValid
    <3> DEFINE m == frame[u].mod
    <3> HIDE DEF m
    <3>2. m' = m
      BY <2>1 DEF m
    <3>3. Apart(m)' /\ Resolved(m)'
      BY <1>5, <1>6, <3>1, <3>2 DEF m
    <3> QED
      BY <3>3 DEF m
  <2>3. ASSUME frame[u].op \in {"fini", "dtors"}
        PROVE  rec'[frame[u].mod].neededby = {}
    <3>1. frame[u].mod \in Loaded /\ rec[frame[u].mod].neededby = {}
      BY <2>1, <2>3, ListFacts DEF CallValid, Loaded, IInv
    <3> QED
      BY <1>3, <3>1 DEF SameFields
  <2> QED
    BY <2>1, <2>2, <2>3 DEF CallValid
<1> QED
  BY <1>1, <1>2, <1>4, <1>7, <1>8, <1>resolved DEF Agreed

-----------------------------------------------------------------------------
(* The record a load fills in *)

\* An empty record, and the call nobody makes, have their types.
LEMMA BlankTyped ==
    /\ Blank \in Records /\ Idle \in Frames
    /\ Blank.needs = {} /\ Blank.neededby = {} /\ Blank.exports = {}
<1>1. <<>> \in [{} -> Addrs]
  BY EmptySeq, LenProperties
<1>2. <<>> \in Bindings
  BY <1>1 DEF Bindings
<1>3. 0 \in Ids
  BY MaxModulesOK DEF Ids
<1>4. Blank \in Records
  BY <1>2, <1>3 DEF Blank, Records
<1>5. Idle \in Frames
  BY DEF Idle, Frames, Ops
<1> QED
  BY <1>4, <1>5 DEF Blank

\* idAlloc gives out an id that no loaded module has.
LEMMA NextIdFree ==
    ASSUME TypeOK, FreeIds # {}
    PROVE  NextId \in Ids /\ \A a \in Loaded : rec[a].id # NextId
<1> DEFINE k == CHOOSE k \in FreeIds : \A j \in FreeIds : k <= j
<1>1. FreeIds \in SUBSET (0..(MaxModules - 1)) /\ MaxModules - 1 \in Nat
  BY MaxModulesOK DEF FreeIds
<1>2. \E i \in FreeIds : \A j \in FreeIds : i <= j
  BY <1>1, LeastNumber
<1>3. k \in FreeIds
  BY <1>2
<1>4. NextId = (id + k) % MaxModules
  BY DEF NextId
<1> HIDE DEF k
<1>5. id + k \in Nat
  BY <1>1, <1>3 DEF TypeOK, Ids
<1>6. NextId \in Ids
  BY <1>4, <1>5, MaxModulesOK DEF Ids
<1> QED
  BY <1>3, <1>4, <1>6 DEF FreeIds

\* cexpSymLookup finds the one module that has the symbol, if there is one.
LEMMA SymLookupFinds ==
    ASSUME TypeOK, NoRepeats, NoTwins, NEW n
    PROVE  /\ SymLookup(n) # None => SymLookup(n) \in Loaded /\ n \in rec[SymLookup(n)].exports
           /\ SymLookup(n) = None => \A a \in Loaded : n \notin rec[a].exports
<1> DEFINE has(i) == n \in rec[list[i]].exports
<1>1. CASE \E i \in DOMAIN list : has(i)
  <2>1. PICK i \in DOMAIN list : has(i)
    BY <1>1
  <2>2. \A j \in DOMAIN list : has(j) => j = i
    <3>1. ASSUME NEW j \in DOMAIN list, has(j)
          PROVE  list[j] = list[i]
      BY <2>1, <3>1 DEF NoTwins, Loaded
    <3> QED
      BY <2>1, <3>1 DEF NoRepeats
  <2>3. \A j \in 1..(i - 1) : ~has(j)
    BY <2>1, <2>2, ListFacts
  <2>4. (CHOOSE k \in DOMAIN list : has(k) /\ \A j \in 1..(k - 1) : ~has(j)) = i
    BY <2>1, <2>2, <2>3
  <2>5. SymLookup(n) = list[i]
    BY <1>1, <2>4 DEF SymLookup
  <2>6. list[i] \in Loaded /\ list[i] # None
    BY <2>1, ListFacts, NoneIsNothing DEF Loaded
  <2> QED
    BY <2>1, <2>5, <2>6
<1>2. CASE ~\E i \in DOMAIN list : has(i)
  BY <1>2 DEF SymLookup, Loaded
<1> QED
  BY <1>1, <1>2

\* The symbols a file is bound to are all defined by loaded modules.
LEMMA NamesBound ==
    ASSUME TypeOK, NoRepeats, NoTwins, NEW f \in Files, Links(f),
           NEW n \in BoundByResolve(f) \cup (IF list # <<>> THEN BoundByReloc(f) ELSE {})
    PROVE  SymLookup(n) # None /\ n \in Symbols
<1>1. SymLookup(n) # None
  BY DEF BoundByResolve, Links, RelocError
<1>2. n \in DOMAIN f.syms
  BY FilesOK DEF BoundByResolve, BoundByReloc, FileOK
<1> QED
  BY <1>1, <1>2 DEF Symbols

\* The new record has its type, refers to loaded modules only, has their bits, and
\* shares no id, name or symbol with them.
LEMMA LinkedSound ==
    ASSUME TypeOK, NoRepeats, NoTwins, NEW f \in Files, Links(f), FreeIds # {}, ~NameTaken(f)
    PROVE  LET r == Linked(f, NextId) IN
           /\ r \in Records
           /\ r.neededby = {}
           /\ \A b \in Loaded : /\ rec[b].id # r.id /\ rec[b].name # r.name
                                /\ rec[b].exports \cap r.exports = {}
           /\ \A n \in DOMAIN r.bound : /\ r.bound[n] \in Loaded
                                        /\ n \in rec[r.bound[n]].exports
                                        /\ rec[r.bound[n]].id \in r.needs
           /\ \A i \in r.needs : \E b \in Loaded : rec[b].id = i
<1> DEFINE names == BoundByResolve(f) \cup (IF list # <<>> THEN BoundByReloc(f) ELSE {})
           bindings == [n \in names |-> SymLookup(n)]
           bits == {rec[SymLookup(n)].id : n \in names}
           r == Linked(f, NextId)
<1>1. \A n \in names : /\ SymLookup(n) \in Loaded /\ SymLookup(n) \in Addrs /\ n \in Symbols
                       /\ n \in rec[SymLookup(n)].exports
  BY NamesBound, SymLookupFinds, ListFacts
<1>2. r = [name |-> f.name, file |-> f, id |-> NextId, needs |-> bits, neededby |-> {},
           exports |-> Exports(f), bound |-> bindings, sects |-> SectionSyms(f), att |-> "live"]
  BY DEF Linked
<1> HIDE DEF names
<1>3. bindings \in Bindings
  <2>1. names \in SUBSET Symbols /\ bindings \in [names -> Addrs]
    BY <1>1
  <2> QED
    BY <2>1 DEF Bindings
<1>4. bits \in SUBSET Ids
  BY <1>1 DEF TypeOK, Records
<1>5. Exports(f) \in SUBSET Symbols
  BY DEF Exports, Symbols
<1>6. SectionSyms(f) \in SUBSET Addrs
  <2>1. \A n : SymLookup(n) # None => SymLookup(n) \in Addrs
    BY SymLookupFinds, ListFacts
  <2> QED
    BY <2>1 DEF SectionSyms
<1>7. NextId \in Ids /\ \A a \in Loaded : rec[a].id # NextId
  BY NextIdFree
<1>8. f.name \in FileNames
  BY DEF FileNames
<1> HIDE DEF bindings, bits, r
<1>9. r \in Records
  BY <1>2, <1>3, <1>4, <1>5, <1>6, <1>7, <1>8 DEF Records
<1>10. \A b \in Loaded : rec[b].exports \cap Exports(f) = {}
  BY SymLookupFinds DEF Exports
<1>11. \A b \in Loaded : rec[b].name # f.name
  BY DEF NameTaken
<1>12. \A n \in DOMAIN bindings : /\ bindings[n] \in Loaded
                                  /\ n \in rec[bindings[n]].exports
                                  /\ rec[bindings[n]].id \in bits
  BY <1>1 DEF bindings, bits
<1>13. \A i \in bits : \E b \in Loaded : rec[b].id = i
  BY <1>1 DEF bits
<1> QED
  BY <1>2, <1>7, <1>9, <1>10, <1>11, <1>12, <1>13 DEF r

-----------------------------------------------------------------------------
(* Quiet steps keep the invariant *)

\* What the invariant says of a thread's frame and record, expanded once.
LEMMA FrameFacts ==
    ASSUME IInv, NEW t \in Threads
    PROVE  /\ outer[t] = Idle /\ frame[t] \in Frames /\ CallValid(t)
           /\ frame[t].op \in Holding <=> writer = t
           /\ frame[t].op \in Owning => frame[t].mod \in live /\ frame[t].mod \notin Loaded
                                        /\ frame[t].mod \in Addrs
           /\ frame[t].op \in {"fini", "dtors"} => frame[t].mod \in Loaded
<1>1. CallValid(t) /\ TypeOK /\ outer[t] = Idle
  BY DEF IInv, CallsValid
<1>2. frame[t].op \in {"fini", "dtors"} => frame[t].mod \in Loaded
  BY <1>1, ListFacts DEF CallValid, Loaded
<1> QED
  BY <1>1, <1>2 DEF IInv, TypeOK, Owned, LockHeld

\* The remaining conjuncts, when a step is quiet.
LEMMA QuietKeeps ==
    ASSUME IInv, NEW t \in Threads, Quiet(t),
           TypeOK', outer' = outer, LockHeld', Owned', CallValid(t)'
    PROVE  IInv'
<1>1. Agreed' /\ \A u \in Threads \ {t} : CallValid(u)'
  BY QuietAgreed
<1>2. CallsValid'
  BY <1>1 DEF CallsValid
<1> QED
  BY <1>1, <1>2 DEF IInv, Agreed

\* A step of a call that stays in it.
LEMMA StepFacts ==
    ASSUME frame \in [Threads -> Frames], NEW t \in Threads, NEW op \in Ops,
           frame' = [frame EXCEPT ![t].op = op]
    PROVE  /\ frame' \in [Threads -> Frames]
           /\ frame'[t].op = op /\ frame'[t].mod = frame[t].mod
           /\ frame'[t].at = frame[t].at /\ frame'[t].file = frame[t].file
           /\ \A u \in Threads \ {t} : frame'[u] = frame[u]
<1>1. frame'[t] = [frame[t] EXCEPT !.op = op]
  OBVIOUS
<1>2. frame[t] \in Frames
  OBVIOUS
<1>3. [frame[t] EXCEPT !.op = op] \in Frames
  BY <1>2 DEF Frames
<1>4. frame' = [frame EXCEPT ![t] = [frame[t] EXCEPT !.op = op]]
  OBVIOUS
<1> QED
  BY <1>1, <1>2, <1>3, <1>4 DEF Frames

LEMMA MallocKeeps ==
    ASSUME IInv, ~Nested, NEW t \in Threads, NEW f \in Files, LoadMalloc(t, f)
    PROVE  IInv' /\ Quiet(t)
<1>1. PICK a \in Addrs \ live :
        /\ live' = live \cup {a} /\ rec' = [rec EXCEPT ![a] = Blank]
        /\ frame' = [frame EXCEPT ![t] = [op |-> "load", mod |-> a, file |-> f, at |-> None]]
        /\ outer' = [outer EXCEPT ![t] = frame[t]]
  BY DEF LoadMalloc, Enter
<1>2. frame[t] = Idle /\ list' = list /\ id' = id /\ writer' = writer
  BY DEF LoadMalloc, MayCall
<1>3. outer' = outer
  BY <1>1, <1>2 DEF IInv
<1>4. Loaded \subseteq live /\ TypeOK /\ Loaded' = Loaded
  BY <1>2 DEF IInv, Owned, Loaded
<1>5. TypeOK'
  <2>1. rec' \in [Addrs -> Records]
    BY <1>1, <1>4, BlankTyped DEF TypeOK
  <2>2. frame' \in [Threads -> Frames]
    BY <1>1, <1>4 DEF TypeOK, Frames, Ops
  <2> QED
    BY <1>1, <1>2, <1>3, <1>4, <2>1, <2>2 DEF TypeOK
<1>6. \A u \in Threads \ {t} : frame'[u] = frame[u]
  BY <1>1, <1>4 DEF TypeOK
<1>7. frame'[t] = [op |-> "load", mod |-> a, file |-> f, at |-> None]
  BY <1>1, <1>4 DEF TypeOK
<1>8. \A b \in Addrs \ {a} : rec'[b] = rec[b]
  BY <1>1, <1>4 DEF TypeOK
<1>9. Quiet(t)
  <2>1. \A b \in Loaded : SameFields(b)
    BY <1>4, <1>8, <1>1, ListFacts DEF SameFields
  <2>2. ASSUME NEW u \in Threads \ {t}, frame[u].op = "ctors"
        PROVE  SameFields(frame[u].mod)
    BY <1>1, <1>8, <2>2, FrameFacts DEF Owning, SameFields
  <2> QED
    BY <1>2, <1>6, <1>7, <2>1, <2>2 DEF Quiet, Idle
<1>10. LockHeld'
  BY <1>2, <1>6, <1>7 DEF IInv, LockHeld, Holding, Idle
<1>11. Owned'
  BY <1>1, <1>2, <1>4, <1>6, <1>7 DEF IInv, Owned, Owning, Idle
<1>12. CallValid(t)'
  BY <1>7 DEF CallValid
<1> QED
  BY <1>3, <1>5, <1>9, <1>10, <1>11, <1>12, QuietKeeps

\* Either refusal leaves the caller with a record to free.
LEMMA RefuseKeeps ==
    ASSUME IInv, NEW t \in Threads, LoadRefuse(t) \/ LoadFail(t)
    PROVE  IInv' /\ Quiet(t)
<1> DEFINE m == frame[t].mod
<1>1. /\ frame[t].op = "load" /\ writer \in {None, t} /\ writer' = None
      /\ list' = list /\ live' = live /\ outer' = outer
      /\ frame' = [frame EXCEPT ![t].op = "free"]
  BY FrameFacts DEF LoadRefuse, LoadFail, WUNLOCK, Step
<1>2. writer = None /\ TypeOK /\ Loaded' = Loaded
  BY <1>1, FrameFacts DEF IInv, Holding, Loaded
<1>3. m \in Addrs \ Loaded /\ m \in live
  BY <1>1, FrameFacts DEF Owning
<1>4. /\ frame' \in [Threads -> Frames]
      /\ \A u \in Threads \ {t} : frame'[u] = frame[u]
      /\ frame'[t].op = "free" /\ frame'[t].mod = m
  BY <1>1, <1>2, StepFacts DEF TypeOK, Ops
<1>6. rec' \in [Addrs -> Records] /\ id' \in Ids /\ \A b \in Addrs \ {m} : rec'[b] = rec[b]
  <2>1. CASE LoadRefuse(t)
    BY <1>2, <2>1 DEF LoadRefuse, TypeOK
  <2>2. CASE LoadFail(t)
    <3> DEFINE r == [Blank EXCEPT !.name = frame[t].file.name, !.id = NextId]
    <3>1. NextId \in Ids
      BY <1>2, <2>2, NextIdFree DEF LoadFail
    <3>2. frame[t].file.name \in FileNames
      BY <1>1, FrameFacts DEF CallValid, FileNames
    <3>3. r \in Records
      BY <3>1, <3>2, BlankTyped DEF Records
    <3>4. rec' = [rec EXCEPT ![m] = r] /\ id' = NextId
      BY <2>2 DEF LoadFail
    <3> HIDE DEF r
    <3> QED
      BY <1>2, <1>3, <3>1, <3>3, <3>4 DEF TypeOK
  <2> QED
    BY <2>1, <2>2
<1>7. TypeOK'
  BY <1>1, <1>2, <1>4, <1>6 DEF TypeOK
<1>8. Quiet(t)
  <2>1. \A b \in Loaded : SameFields(b)
    BY <1>2, <1>3, <1>6, ListFacts DEF SameFields
  <2>2. ASSUME NEW u \in Threads \ {t}, frame[u].op = "ctors"
        PROVE  SameFields(frame[u].mod)
    BY <1>2, <2>2, NoneIsNothing, FrameFacts DEF Holding
  <2> QED
    BY <1>1, <1>4, <2>1, <2>2 DEF Quiet
<1>9. LockHeld'
  BY <1>1, <1>2, <1>4, NoneIsNothing DEF IInv, LockHeld, Holding
<1>10. Owned'
  BY <1>1, <1>2, <1>4 DEF IInv, Owned, Owning
<1>11. CallValid(t)'
  BY <1>4 DEF CallValid
<1> QED
  BY <1>1, <1>7, <1>8, <1>9, <1>10, <1>11, QuietKeeps

\* A module is at one place of the list.
LEMMA PositionFacts ==
    ASSUME TypeOK, NoRepeats, NEW k \in 1..Len(list)
    PROVE  Position(list[k]) = k
<1>1. \A i \in DOMAIN list : list[i] = list[k] <=> i = k
  BY ListFacts DEF NoRepeats
<1> QED
  BY <1>1, ListFacts DEF Position

LEMMA LinkKeeps ==
    ASSUME IInv, NEW t \in Threads, LoadLink(t)
    PROVE  IInv' /\ Quiet(t)
<1> DEFINE m == frame[t].mod
           f == frame[t].file
           r == Linked(f, NextId)
           tail == IF list = <<>> THEN None ELSE list[Len(list)]
<1>1. /\ frame[t].op = "load" /\ writer \in {None, t} /\ writer' = t /\ ~NameTaken(f)
      /\ FreeIds # {} /\ Links(f) /\ id' = NextId /\ rec' = [rec EXCEPT ![m] = r]
      /\ frame' = [frame EXCEPT ![t].op = "ctors", ![t].at = tail]
      /\ list' = list /\ live' = live /\ outer' = outer
  BY DEF LoadLink, WLOCK
<1>2. TypeOK /\ NoRepeats /\ NoTwins /\ writer = None /\ Loaded' = Loaded /\ f \in Files
  BY <1>1, FrameFacts DEF IInv, Holding, Loaded, CallValid
<1>3. m \in Addrs \ Loaded /\ m \in live
  BY <1>1, FrameFacts DEF Owning
<1>4. /\ r \in Records
      /\ r.neededby = {}
      /\ \A b \in Loaded : /\ rec[b].id # r.id /\ rec[b].name # r.name
                           /\ rec[b].exports \cap r.exports = {}
      /\ \A n \in DOMAIN r.bound : /\ r.bound[n] \in Loaded
                                   /\ n \in rec[r.bound[n]].exports
                                   /\ rec[r.bound[n]].id \in r.needs
      /\ \A i \in r.needs : \E b \in Loaded : rec[b].id = i
  BY <1>1, <1>2, LinkedSound
<1> HIDE DEF r, tail
<1>5. tail \in Addrs \cup {None}
  BY <1>2, ListFacts DEF tail
<1>6. /\ frame' \in [Threads -> Frames]
      /\ \A u \in Threads \ {t} : frame'[u] = frame[u]
      /\ frame'[t].op = "ctors" /\ frame'[t].mod = m /\ frame'[t].at = tail
  <2> DEFINE new == [frame[t] EXCEPT !.op = "ctors", !.at = tail]
  <2>1. frame[t] \in Frames
    BY FrameFacts
  <2>2. new \in Frames /\ new.op = "ctors" /\ new.mod = frame[t].mod /\ new.at = tail
    BY <2>1, <1>5 DEF Frames, Ops
  <2>3. frame' = [frame EXCEPT ![t] = new]
    BY <1>1
  <2> HIDE DEF new
  <2> QED
    BY <1>2, <2>2, <2>3 DEF TypeOK
<1>7. rec' \in [Addrs -> Records] /\ rec'[m] = r /\ \A b \in Addrs \ {m} : rec'[b] = rec[b]
  BY <1>1, <1>2, <1>3, <1>4 DEF TypeOK
<1>8. TypeOK'
  BY <1>1, <1>2, <1>6, <1>7, NextIdFree DEF TypeOK
<1>9. Quiet(t)
  <2>1. \A b \in Loaded : SameFields(b)
    BY <1>2, <1>3, <1>7, ListFacts DEF SameFields
  <2>2. ASSUME NEW u \in Threads \ {t}, frame[u].op = "ctors"
        PROVE  SameFields(frame[u].mod)
    BY <1>2, <2>2, NoneIsNothing, FrameFacts DEF Holding
  <2> QED
    BY <1>1, <1>6, <2>1, <2>2 DEF Quiet
<1>10. LockHeld'
  BY <1>1, <1>2, <1>6, NoneIsNothing DEF IInv, LockHeld, Holding
<1>11. Owned'
  BY <1>1, <1>2, <1>6 DEF IInv, Owned, Owning
<1>12. CallValid(t)'
  <2>1. Settled' = Loaded
    BY <1>2, <1>9, QuietAgreed, SettledFacts DEF IInv
  <2>2. \A b \in Loaded : rec'[b] = rec[b]
    BY <1>2, <1>3, <1>7, ListFacts
  <2> DEFINE a == m
  <2>3. rec'[a] = r /\ (frame[t].mod)' = a
    BY <1>6, <1>7
  <2> HIDE DEF a, m
  <2>4. Apart(a)'
    <3>1. rec'[a].neededby = {}
      BY <1>4, <2>3
    <3>2. a' = a
      BY <1>6 DEF a, m
    <3> QED
      BY <1>2, <1>4, <2>2, <2>3, <3>1, <3>2 DEF Apart
  <2>5. Resolved(a)'
    <3>1. a' = a
      BY <1>6 DEF a, m
    <3> QED
      BY <1>4, <2>1, <2>2, <2>3, <3>1 DEF Resolved
  <2>6. Apart(frame[t].mod)' /\ Resolved(frame[t].mod)'
    BY <2>4, <2>5 DEF a, m
  <2> QED
    BY <1>1, <1>6, <2>6 DEF CallValid, tail
<1> QED
  BY <1>1, <1>8, <1>9, <1>10, <1>11, <1>12, QuietKeeps

LEMMA CheckKeeps ==
    ASSUME IInv, ~Nested, NEW t \in Threads, NEW m \in Addrs, UnloadCheck(t, m)
    PROVE  IInv' /\ Quiet(t)
<1>1. /\ frame[t] = Idle /\ writer \in {None, t} /\ writer' = t
      /\ m \in Loaded /\ m # list[1] /\ rec[m].neededby = {}
      /\ frame' = [frame EXCEPT ![t] = [op |-> "fini", mod |-> m, file |-> None,
                                        at |-> list[Position(m) - 1]]]
      /\ outer' = [outer EXCEPT ![t] = frame[t]]
      /\ list' = list /\ rec' = rec /\ live' = live /\ id' = id
  BY DEF UnloadCheck, MayCall, WLOCK, Enter
<1>2. TypeOK /\ NoRepeats /\ writer = None /\ Loaded' = Loaded
  BY <1>1, FrameFacts DEF IInv, Holding, Loaded, Idle
<1>3. outer' = outer
  BY <1>1, FrameFacts DEF IInv
<1>4. PICK k \in 2..Len(list) : m = list[k] /\ Position(m) = k
  <2>1. PICK i \in 1..Len(list) : m = list[i]
    BY <1>1, <1>2, ListFacts DEF Loaded
  <2>2. Position(m) = i
    BY <1>2, <2>1, PositionFacts
  <2>3. i # 1
    BY <1>1, <2>1
  <2>4. i \in 2..Len(list)
    BY <1>2, <2>1, <2>3, ListFacts
  <2> QED
    BY <2>1, <2>2, <2>4
<1>5. list[k - 1] \in Addrs
  BY <1>2, ListFacts
<1>6. frame'[t] = [op |-> "fini", mod |-> m, file |-> None, at |-> list[k - 1]]
  BY <1>1, <1>2, <1>4 DEF TypeOK
<1>7. frame'[t] \in Frames
  BY <1>5, <1>6 DEF Frames, Ops
<1>8. \A u \in Threads \ {t} : frame'[u] = frame[u]
  BY <1>1, <1>2 DEF TypeOK
<1>9. TypeOK'
  <2>1. frame' \in [Threads -> Frames]
    BY <1>1, <1>2, <1>4, <1>6, <1>7 DEF TypeOK
  <2> QED
    BY <1>1, <1>2, <1>3, <2>1 DEF TypeOK
<1>10. Quiet(t)
  BY <1>1, <1>6, <1>8 DEF Quiet, SameFields, Idle
<1>11. LockHeld'
  BY <1>1, <1>2, <1>6, <1>8, NoneIsNothing DEF IInv, LockHeld, Holding
<1>12. Owned'
  BY <1>1, <1>2, <1>6, <1>8 DEF IInv, Owned, Owning, Idle
<1>13. CallValid(t)'
  BY <1>1, <1>4, <1>6 DEF CallValid
<1> QED
  BY <1>3, <1>9, <1>10, <1>11, <1>12, <1>13, QuietKeeps

\* The frame of a call that returns.
LEMMA ReturnFacts ==
    ASSUME IInv, NEW t \in Threads, Return(t)
    PROVE  /\ frame' \in [Threads -> Frames] /\ outer' = outer
           /\ frame'[t] = Idle /\ \A u \in Threads \ {t} : frame'[u] = frame[u]
<1>1. outer[t] = Idle /\ outer' = [outer EXCEPT ![t] = Idle]
      /\ frame' = [frame EXCEPT ![t] = outer[t]]
  BY DEF Return, IInv
<1> QED
  BY <1>1, BlankTyped DEF IInv, TypeOK

LEMMA RejectKeeps ==
    ASSUME IInv, NEW t \in Threads, UnloadReject(t)
    PROVE  IInv' /\ Quiet(t)
<1>1. /\ frame[t].op = "fini" /\ writer' = None
      /\ list' = list /\ rec' = rec /\ live' = live /\ id' = id
  BY FrameFacts DEF UnloadReject, WUNLOCK
<1>2. TypeOK /\ writer = t /\ Loaded' = Loaded
  BY <1>1, FrameFacts DEF IInv, Holding, Loaded
<1>3. /\ frame' \in [Threads -> Frames] /\ outer' = outer
      /\ frame'[t] = Idle /\ \A u \in Threads \ {t} : frame'[u] = frame[u]
  BY ReturnFacts DEF UnloadReject
<1>4. TypeOK'
  BY <1>1, <1>2, <1>3 DEF TypeOK
<1>5. Quiet(t)
  BY <1>1, <1>3 DEF Quiet, SameFields, Idle
<1>6. LockHeld'
  BY <1>1, <1>2, <1>3, NoneIsNothing DEF IInv, LockHeld, Holding, Idle
<1>7. Owned'
  BY <1>1, <1>2, <1>3 DEF IInv, Owned, Owning, Idle
<1>8. CallValid(t)'
  BY <1>3 DEF CallValid, Idle
<1> QED
  BY <1>3, <1>4, <1>5, <1>6, <1>7, <1>8, QuietKeeps

\* The record goes back to the heap while others load and unload.
LEMMA FreeKeeps ==
    ASSUME IInv, NEW t \in Threads, FreeRecord(t)
    PROVE  IInv' /\ Quiet(t)
<1> DEFINE m == frame[t].mod
           r == [Blank EXCEPT !.att = rec[m].att]
<1>1. /\ frame[t].op = "free" /\ live' = live \ {m} /\ rec' = [rec EXCEPT ![m] = r]
      /\ frame' = [frame EXCEPT ![t].op = "att"]
      /\ list' = list /\ id' = id /\ writer' = writer /\ outer' = outer
  BY DEF FreeRecord, Step
<1>2. TypeOK /\ Loaded' = Loaded
  BY <1>1 DEF IInv, Loaded
<1>3. m \in Addrs \ Loaded /\ m \in live
  BY <1>1, FrameFacts DEF Owning
<1>4. /\ frame' \in [Threads -> Frames]
      /\ \A u \in Threads \ {t} : frame'[u] = frame[u]
      /\ frame'[t].op = "att" /\ frame'[t].mod = m
  BY <1>1, <1>2, StepFacts DEF TypeOK, Ops
<1>5. rec' \in [Addrs -> Records] /\ \A b \in Addrs \ {m} : rec'[b] = rec[b]
  <2>1. rec[m].att \in {"none", "live", "destroyed"}
    BY <1>2, <1>3 DEF TypeOK, Records
  <2>2. r \in Records
    BY <2>1, BlankTyped DEF Records
  <2> HIDE DEF r
  <2> QED
    BY <1>1, <1>2, <1>3, <2>2 DEF TypeOK
<1>6. TypeOK'
  BY <1>1, <1>2, <1>4, <1>5 DEF TypeOK
<1>7. \A u \in Threads \ {t} : frame[u].op \in Owning => frame[u].mod # m
  BY <1>1 DEF IInv, Owned, Owning
<1>8. Quiet(t)
  <2>1. \A b \in Loaded : SameFields(b)
    BY <1>2, <1>3, <1>5, ListFacts DEF SameFields
  <2>2. ASSUME NEW u \in Threads \ {t}, frame[u].op = "ctors"
        PROVE  SameFields(frame[u].mod)
    BY <1>5, <1>7, <2>2, FrameFacts DEF Owning, SameFields
  <2> QED
    BY <1>1, <1>4, <2>1, <2>2 DEF Quiet
<1>9. LockHeld'
  BY <1>1, <1>4 DEF IInv, LockHeld, Holding
<1>10. Owned'
  <2>1. Loaded \subseteq live'
    BY <1>1, <1>3 DEF IInv, Owned
  <2>2. \A u \in Threads : frame'[u].op \in Owning =>
          u # t /\ frame[u].op \in Owning /\ frame'[u] = frame[u] /\ frame[u].mod # m
    BY <1>4, <1>7 DEF Owning
  <2>3. ASSUME NEW a \in live' \ Loaded
        PROVE  \E u \in Threads : frame'[u].op \in Owning /\ frame'[u].mod = a
    BY <1>1, <1>4, <2>3 DEF IInv, Owned
  <2> QED
    BY <1>1, <1>2, <2>1, <2>2, <2>3 DEF IInv, Owned
<1>11. CallValid(t)'
  BY <1>3, <1>4 DEF CallValid
<1> QED
  BY <1>1, <1>6, <1>8, <1>9, <1>10, <1>11, QuietKeeps

\* The memory the attribute pointer is read from may be another module's by then:
\* nothing else of that record changes.
LEMMA AttributesKeep ==
    ASSUME IInv, NEW t \in Threads, FreeAttributes(t)
    PROVE  IInv' /\ Quiet(t)
<1> DEFINE m == frame[t].mod
<1>1. /\ frame[t].op = "att" /\ list' = list /\ live' = live /\ id' = id /\ writer' = writer
      /\ rec' = IF rec[m].att = "none" THEN rec ELSE [rec EXCEPT ![m].att = "destroyed"]
  BY DEF FreeAttributes
<1>2. TypeOK /\ Loaded' = Loaded
  BY <1>1 DEF IInv, Loaded
<1>3. m \in Addrs
  BY <1>1, FrameFacts DEF CallValid
<1>4. /\ frame' \in [Threads -> Frames] /\ outer' = outer
      /\ frame'[t] = Idle /\ \A u \in Threads \ {t} : frame'[u] = frame[u]
  BY ReturnFacts DEF FreeAttributes
<1>5. rec' \in [Addrs -> Records] /\ \A b \in Addrs : SameFields(b)
  <2> DEFINE r == [rec[m] EXCEPT !.att = "destroyed"]
  <2>1. rec[m] \in Records
    BY <1>2, <1>3 DEF TypeOK
  <2>2. /\ r \in Records /\ r.id = rec[m].id /\ r.name = rec[m].name
        /\ r.exports = rec[m].exports /\ r.bound = rec[m].bound
        /\ r.needs = rec[m].needs /\ r.neededby = rec[m].neededby
    BY <2>1 DEF Records
  <2>3. rec' = rec \/ rec' = [rec EXCEPT ![m] = r]
    BY <1>1
  <2> HIDE DEF r
  <2> QED
    BY <1>2, <1>3, <2>2, <2>3 DEF TypeOK, SameFields
<1>6. TypeOK'
  BY <1>1, <1>2, <1>4, <1>5 DEF TypeOK
<1>7. Quiet(t)
  <2>1. \A u \in Threads \ {t} : frame[u].op = "ctors" => frame[u].mod \in Addrs
    BY FrameFacts DEF Owning
  <2> QED
    BY <1>1, <1>2, <1>4, <1>5, <2>1, ListFacts DEF Quiet, Idle
<1>8. LockHeld'
  BY <1>1, <1>4 DEF IInv, LockHeld, Holding, Idle
<1>9. Owned'
  BY <1>1, <1>2, <1>4 DEF IInv, Owned, Owning, Idle
<1>10. CallValid(t)'
  BY <1>4 DEF CallValid, Idle
<1> QED
  BY <1>4, <1>6, <1>7, <1>8, <1>9, <1>10, QuietKeeps

-----------------------------------------------------------------------------
(* The steps that change the list and the bitmaps *)

\* The list up to a module and from there on.
LEMMA PartsOfList ==
    ASSUME TypeOK, NoRepeats, NEW k \in 1..Len(list)
    PROVE  /\ UpTo(list[k]) \in Seq(Addrs) /\ Len(UpTo(list[k])) = k
           /\ \A i \in 1..k : UpTo(list[k])[i] = list[i]
           /\ After(list[k]) \in Seq(Addrs) /\ Len(After(list[k])) = Len(list) - k
           /\ \A i \in 1..(Len(list) - k) : After(list[k])[i] = list[k + i]
<1>1. list[k] \in Loaded /\ Position(list[k]) = k /\ Len(list) \in Nat
  BY ListFacts, PositionFacts DEF Loaded
<1>2. \A i \in 1..Len(list) : list[i] \in Addrs
  BY ListFacts
<1> DEFINE head == SubSeq(list, 1, k)
           rest == SubSeq(list, k + 1, Len(list))
<1>3. head \in Seq(Addrs) /\ Len(head) = k /\ \A i \in 1..k : head[i] = list[i]
  <2>1. \A i \in 1..k : list[i] \in Addrs
    BY <1>1, <1>2
  <2> QED
    BY <1>1, <2>1, SubSeqProperties
<1>4. /\ rest \in Seq(Addrs) /\ Len(rest) = Len(list) - k
      /\ \A i \in 1..(Len(list) - k) : rest[i] = list[k + i]
  <2>1. \A i \in (k + 1)..Len(list) : list[i] \in Addrs
    BY <1>1, <1>2
  <2>2. k + 1 \in Int /\ Len(list) \in Int
    BY <1>1
  <2>3. /\ rest \in Seq(Addrs)
        /\ Len(rest) = IF k + 1 <= Len(list) THEN Len(list) - (k + 1) + 1 ELSE 0
        /\ \A i \in 1..(Len(list) - (k + 1) + 1) : rest[i] = list[(k + 1) + i - 1]
    BY <2>1, <2>2, SubSeqProperties
  <2> DEFINE n == Len(list)
  <2> HIDE DEF rest, n
  <2>4. n \in Nat /\ k \in 1..n
    BY <1>1 DEF n
  <2>5. /\ rest \in Seq(Addrs)
        /\ Len(rest) = IF k + 1 <= n THEN n - (k + 1) + 1 ELSE 0
        /\ \A i \in 1..(n - (k + 1) + 1) : rest[i] = list[(k + 1) + i - 1]
    BY <2>3 DEF n
  <2>6. n - (k + 1) + 1 = n - k
    BY <2>4
  <2>7. Len(rest) = n - k
    BY <2>4, <2>5
  <2>8. ASSUME NEW i \in 1..(n - k)
        PROVE  rest[i] = list[k + i]
    <3>1. (k + 1) + i - 1 = k + i
      BY <2>4
    <3> QED
      BY <2>5, <2>6, <3>1
  <2> QED
    BY <2>5, <2>7, <2>8 DEF n
<1> QED
  BY <1>1, <1>3, <1>4 DEF UpTo, After

\* tail->next = nmod: the new module follows all others.
LEMMA ChainedList ==
    ASSUME IInv, NEW t \in Threads, LoadChain(t)
    PROVE  /\ list' \in Seq(Addrs) /\ Len(list') = Len(list) + 1
           /\ \A i \in 1..Len(list) : list'[i] = list[i]
           /\ list'[Len(list) + 1] = frame[t].mod
<1> DEFINE m == frame[t].mod
           tail == frame[t].at
<1>1. /\ frame[t].op = "ctors"
      /\ list' = IF tail = None THEN <<m>> ELSE SetNext(tail, <<m>>)
      /\ m \in Addrs /\ tail = IF list = <<>> THEN None ELSE list[Len(list)]
  BY FrameFacts DEF LoadChain, CallValid, Owning
<1>2. TypeOK /\ NoRepeats
  BY DEF IInv
<1>3. <<m>> \in Seq(Addrs) /\ Len(<<m>>) = 1 /\ <<m>>[1] = m
  BY <1>1
<1>4. CASE list = <<>>
  <2>1. list' = <<m>> /\ Len(list) = 0
    BY <1>1, <1>2, <1>4, ListFacts
  <2> QED
    BY <1>3, <2>1
<1>5. CASE list # <<>>
  <2> DEFINE n == Len(list)
             front == UpTo(list[n])
  <2>1. n \in 1..Len(list) /\ n \in Nat
    BY <1>2, <1>5, ListFacts
  <2>2. list[n] \in Loaded /\ list[n] # None
    BY <1>2, <2>1, ListFacts, NoneIsNothing DEF Loaded
  <2>3. list' = front \o <<m>>
    BY <1>1, <1>5, <2>2 DEF SetNext
  <2>4. front \in Seq(Addrs) /\ Len(front) = n /\ \A i \in 1..n : front[i] = list[i]
    BY <1>2, <2>1, PartsOfList
  <2> HIDE DEF n, front
  <2>5. /\ front \o <<m>> \in Seq(Addrs) /\ Len(front \o <<m>>) = n + 1
        /\ \A i \in 1..(n + 1) :
             (front \o <<m>>)[i] = IF i <= n THEN front[i] ELSE <<m>>[i - n]
    BY <1>3, <2>4, ConcatProperties
  <2>6. (front \o <<m>>)[n + 1] = m
    BY <1>3, <2>1, <2>5
  <2> QED
    BY <2>1, <2>3, <2>4, <2>5, <2>6 DEF n
<1> QED
  BY <1>4, <1>5

\* pred->next = mod->next: the module is cut out and all others stay.
LEMMA CutList ==
    ASSUME IInv, NEW t \in Threads, UnloadUnlink(t)
    PROVE  \E k \in 2..Len(list) :
             /\ list[k] = frame[t].mod
             /\ list' \in Seq(Addrs) /\ Len(list') = Len(list) - 1
             /\ \A i \in 1..(Len(list) - 1) : list'[i] = IF i < k THEN list[i] ELSE list[i + 1]
<1> DEFINE m == frame[t].mod
           n == Len(list)
<1>1. /\ frame[t].op = "dtors" /\ list' = SetNext(frame[t].at, After(m))
  BY DEF UnloadUnlink
<1>2. PICK k \in 2..n : m = list[k] /\ frame[t].at = list[k - 1]
  BY <1>1, FrameFacts DEF CallValid
<1>3. TypeOK /\ NoRepeats /\ n \in Nat
  BY ListFacts DEF IInv
<1>4. k \in 1..n /\ k - 1 \in 1..n
  BY <1>3
<1> DEFINE front == UpTo(list[k - 1])
           rest == After(list[k])
<1>5. front \in Seq(Addrs) /\ Len(front) = k - 1 /\ \A i \in 1..(k - 1) : front[i] = list[i]
  BY <1>3, <1>4, PartsOfList
<1>6. /\ rest \in Seq(Addrs) /\ Len(rest) = n - k
      /\ \A i \in 1..(n - k) : rest[i] = list[k + i]
  BY <1>3, <1>4, PartsOfList
<1>7. list' = front \o rest
  <2>1. list[k - 1] \in Loaded
    BY <1>3, <1>4, ListFacts DEF Loaded
  <2> QED
    BY <1>1, <1>2, <2>1 DEF SetNext
<1> HIDE DEF front, rest
<1>8. /\ list' \in Seq(Addrs) /\ Len(list') = (k - 1) + (n - k)
      /\ \A i \in 1..((k - 1) + (n - k)) :
           list'[i] = IF i <= k - 1 THEN front[i] ELSE rest[i - (k - 1)]
  <2>1. /\ front \o rest \in Seq(Addrs) /\ Len(front \o rest) = Len(front) + Len(rest)
        /\ \A i \in 1..(Len(front) + Len(rest)) :
             (front \o rest)[i] = IF i <= Len(front) THEN front[i] ELSE rest[i - Len(front)]
    BY <1>5, <1>6, ConcatProperties
  <2>2. Len(front) = k - 1 /\ Len(rest) = n - k
    BY <1>5, <1>6
  <2> HIDE DEF n
  <2> QED
    BY <1>7, <2>1, <2>2
<1>9. (k - 1) + (n - k) = n - 1
  BY <1>3, <1>4
<1>10. ASSUME NEW i \in 1..(n - 1)
       PROVE  list'[i] = IF i < k THEN list[i] ELSE list[i + 1]
  <2>1. CASE i < k
    BY <1>4, <1>5, <1>8, <1>9, <2>1
  <2>2. CASE ~(i < k)
    <3>1. i - (k - 1) \in 1..(n - k) /\ k + (i - (k - 1)) = i + 1 /\ ~(i <= k - 1)
      BY <1>3, <1>4, <2>2
    <3> QED
      BY <1>6, <1>8, <1>9, <2>2, <3>1
  <2> QED
    BY <2>1, <2>2
<1> QED
  BY <1>2, <1>8, <1>9, <1>10

\* addDependencies(nmod) and tail->next = nmod.
LEMMA ChainKeeps ==
    ASSUME IInv, NEW t \in Threads, LoadChain(t)
    PROVE  IInv'
<1> DEFINE m == frame[t].mod
           add(a) == IF a \in Loaded /\ rec[a].id \in rec[m].needs
                       THEN rec[a].neededby \cup {rec[m].id} ELSE rec[a].neededby
<1>1. /\ frame[t].op = "ctors" /\ writer' = None /\ live' = live /\ id' = id
      /\ rec' = [a \in Addrs |->
                   IF a \in Loaded /\ rec[a].id \in rec[m].needs
                     THEN [rec[a] EXCEPT !.neededby = @ \cup {rec[m].id}]
                     ELSE rec[a]]
  BY FrameFacts DEF LoadChain, WUNLOCK
<1>2. TypeOK /\ NoRepeats /\ NoTwins /\ AllResolved /\ DependenciesMutual /\ NoStaleBits
  BY DEF IInv
<1>3. /\ m \in Addrs \ Loaded /\ m \in live /\ writer = t
      /\ Apart(m) /\ Resolved(m)
  BY <1>1, FrameFacts DEF Owning, Holding, CallValid
<1>4. /\ frame' \in [Threads -> Frames] /\ outer' = outer
      /\ frame'[t] = Idle /\ \A u \in Threads \ {t} : frame'[u] = frame[u]
  BY ReturnFacts DEF LoadChain
<1>5. /\ list' \in Seq(Addrs) /\ Len(list') = Len(list) + 1
      /\ \A i \in 1..Len(list) : list'[i] = list[i]
      /\ list'[Len(list) + 1] = m
  BY ChainedList
<1>6. Loaded' = Loaded \cup {m} /\ NoRepeats'
  <2>1. /\ Len(list) \in Nat /\ DOMAIN list = 1..Len(list)
        /\ DOMAIN list' = 1..(Len(list) + 1)
    BY <1>2, <1>5, ListFacts, LenProperties
  <2>2. Loaded' = Loaded \cup {m}
    <3>1. \A a \in Loaded : \E i \in DOMAIN list' : list'[i] = a
      BY <1>5, <2>1 DEF Loaded
    <3>2. \A i \in DOMAIN list' : list'[i] \in Loaded \cup {m}
      BY <1>5, <2>1 DEF Loaded
    <3>3. Len(list) + 1 \in DOMAIN list'
      BY <2>1
    <3> HIDE DEF m
    <3> QED
      BY <1>5, <3>1, <3>2, <3>3 DEF Loaded
  <2>3. ASSUME NEW i \in 1..(Len(list) + 1), NEW j \in 1..(Len(list) + 1), list'[i] = list'[j]
        PROVE  i = j
    <3>1. \A k \in 1..Len(list) : list[k] # m
      BY <1>3, <2>1 DEF Loaded
    <3> QED
      BY <1>2, <1>5, <2>1, <2>3, <3>1 DEF NoRepeats
  <2> QED
    BY <2>1, <2>2, <2>3 DEF NoRepeats
<1>7. \A u \in Threads \ {t} : frame[u].op \notin Holding
  BY <1>3 DEF IInv, LockHeld
<1>8. Settled = Loaded /\ Settled' = Loaded'
  <2>1. Settled = Loaded
    BY <1>1, <1>3, SettledFacts DEF IInv
  <2>2. \A u \in Threads : frame'[u].op # "dtors"
    BY <1>4, <1>7 DEF Idle, Holding
  <2> QED
    BY <2>1, <2>2 DEF Settled
<1>9. \A a \in Addrs : /\ rec'[a] \in Records
                       /\ rec'[a].id = rec[a].id /\ rec'[a].name = rec[a].name
                       /\ rec'[a].exports = rec[a].exports /\ rec'[a].bound = rec[a].bound
                       /\ rec'[a].needs = rec[a].needs /\ rec'[a].neededby = add(a)
  <2>1. ASSUME NEW a \in Addrs
        PROVE  rec[a] \in Records /\ rec[m].id \in Ids
    BY <1>2, <1>3 DEF TypeOK, Records
  <2>2. ASSUME NEW a \in Addrs
        PROVE  [rec[a] EXCEPT !.neededby = @ \cup {rec[m].id}] \in Records
    BY <2>1 DEF Records
  <2> QED
    BY <1>1, <2>1, <2>2 DEF Records
<1>10. TypeOK'
  <2>1. rec' \in [Addrs -> Records]
    BY <1>1, <1>9
  <2>2. writer' \in Threads \cup {None}
    BY <1>1
  <2> QED
    BY <1>1, <1>2, <1>4, <1>5, <2>1, <2>2 DEF TypeOK
<1>11. LockHeld'
  BY <1>1, <1>4, <1>7, NoneIsNothing DEF LockHeld, Holding, Idle
<1>12. Owned'
  BY <1>1, <1>3, <1>4, <1>6 DEF IInv, Owned, Owning, Idle
<1>13. CallsValid'
  <2>1. ASSUME NEW u \in Threads \ {t}
        PROVE  CallValid(u)'
    BY <1>4, <1>7, FrameFacts DEF CallValid, Holding
  <2>2. CallValid(t)'
    BY <1>4 DEF CallValid, Idle
  <2> QED
    BY <2>1, <2>2 DEF CallsValid
<1>14. Loaded' \subseteq Addrs /\ m \in Loaded'
  BY <1>2, <1>3, <1>6, ListFacts
<1>15. /\ \A b \in Loaded : /\ rec[b].id # rec[m].id /\ rec[b].name # rec[m].name
                            /\ rec[b].exports \cap rec[m].exports = {}
       /\ rec[m].neededby = {}
  BY <1>3 DEF Apart
<1>fields. \A a \in Loaded' :
         /\ rec'[a].id = rec[a].id /\ rec'[a].name = rec[a].name
         /\ rec'[a].exports = rec[a].exports /\ rec'[a].bound = rec[a].bound
         /\ rec'[a].needs = rec[a].needs /\ rec'[a].neededby = add(a)
  BY <1>9, <1>14
<1> HIDE DEF m, add
<1>16. NoTwins'
  <2>1. ASSUME NEW a \in Loaded', NEW b \in Loaded', a # b
        PROVE  /\ rec[a].id # rec[b].id /\ rec[a].name # rec[b].name
               /\ rec[a].exports \cap rec[b].exports = {}
    BY <1>2, <1>6, <1>15, <2>1 DEF NoTwins
  <2> QED
    BY <1>fields, <2>1 DEF NoTwins
<1>17. \A a \in Loaded' : Resolved(a)
  BY <1>2, <1>3, <1>6, <1>8 DEF AllResolved
<1>18. AllResolved'
  <2>1. ASSUME NEW a \in Loaded', NEW n \in DOMAIN rec'[a].bound
        PROVE  /\ rec'[a].bound[n] \in Settled'
               /\ n \in rec'[rec'[a].bound[n]].exports
               /\ rec'[rec'[a].bound[n]].id \in rec'[a].needs
    BY <1>6, <1>8, <1>fields, <1>17 DEF Resolved
  <2>2. ASSUME NEW a \in Loaded', NEW i \in rec'[a].needs
        PROVE  \E b \in Settled' : rec'[b].id = i
    BY <1>6, <1>8, <1>fields, <1>17 DEF Resolved
  <2> QED
    BY <1>8, <2>1, <2>2 DEF AllResolved, Resolved
<1>19. \A a \in Loaded' : \A i \in rec[a].needs : \E b \in Loaded : rec[b].id = i
  BY <1>8, <1>17 DEF Resolved
<1>20. ASSUME NEW a \in Loaded', NEW b \in Loaded'
       PROVE  rec[b].id \in rec[a].needs <=> rec[a].id \in add(b)
  <2>1. CASE a \in Loaded /\ b \in Loaded
    BY <1>2, <1>8, <1>15, <2>1 DEF DependenciesMutual, add
  <2>2. CASE a = m /\ b \in Loaded
    <3>1. rec[m].id \notin rec[b].neededby
      BY <1>2, <1>8, <1>15, <2>2 DEF NoStaleBits
    <3> QED
      BY <2>2, <3>1 DEF add
  <2>3. CASE b = m
    <3>1. rec[m].id \notin rec[a].needs
      BY <1>15, <1>19
    <3>2. add(m) = {}
      BY <1>3, <1>15 DEF add
    <3> QED
      BY <2>3, <3>1, <3>2
  <2> QED
    BY <1>6, <2>1, <2>2, <2>3
<1>21. DependenciesMutual'
  BY <1>8, <1>fields, <1>20 DEF DependenciesMutual
<1>22. NoStaleBits'
  <2>1. ASSUME NEW a \in Loaded', NEW i \in add(a)
        PROVE  \E b \in Loaded' : rec[b].id = i /\ rec[a].id \in rec[b].needs
    <3>1. a \in Loaded
      BY <1>3, <1>6, <1>15, <2>1 DEF add
    <3>2. CASE i \in rec[a].neededby
      BY <1>2, <1>6, <1>8, <3>1, <3>2 DEF NoStaleBits
    <3>3. CASE i \notin rec[a].neededby
      <4>1. i = rec[m].id /\ rec[a].id \in rec[m].needs
        BY <2>1, <3>3 DEF add
      <4> QED
        BY <1>14, <4>1
    <3> QED
      BY <3>2, <3>3
  <2> QED
    BY <1>8, <1>fields, <2>1 DEF NoStaleBits
<1> QED
  BY <1>4, <1>6, <1>10, <1>11, <1>12, <1>13, <1>16, <1>18, <1>21, <1>22 DEF IInv

\* The bits of the module are cleared: it is not settled any more, and no other
\* module is bound to it because nobody had it in its needs.
LEMMA ClearKeeps ==
    ASSUME IInv, NEW t \in Threads, UnloadClear(t)
    PROVE  IInv'
<1> DEFINE m == frame[t].mod
           sub(a) == IF a \in Loaded THEN rec[a].neededby \ {rec[m].id} ELSE rec[a].neededby
<1>1. /\ frame[t].op = "fini" /\ writer' = writer /\ live' = live /\ id' = id /\ list' = list
      /\ rec' = [a \in Addrs |->
                   IF a \in Loaded THEN [rec[a] EXCEPT !.neededby = @ \ {rec[m].id}] ELSE rec[a]]
      /\ frame' = [frame EXCEPT ![t].op = "dtors"] /\ outer' = outer
  BY DEF UnloadClear, Step
<1>2. /\ TypeOK /\ NoRepeats /\ NoTwins /\ AllResolved /\ DependenciesMutual /\ NoStaleBits
      /\ Loaded' = Loaded /\ Loaded \subseteq Addrs
  BY <1>1, ListFacts DEF IInv, Loaded
<1>3. m \in Loaded /\ writer = t /\ rec[m].neededby = {}
  BY <1>1, FrameFacts DEF Holding, CallValid
<1>4. /\ frame' \in [Threads -> Frames]
      /\ \A u \in Threads \ {t} : frame'[u] = frame[u]
      /\ frame'[t].op = "dtors" /\ frame'[t].mod = m /\ frame'[t].at = frame[t].at
  BY <1>1, <1>2, StepFacts DEF TypeOK, Ops
<1>5. \A u \in Threads \ {t} : frame[u].op \notin Holding
  BY <1>3 DEF IInv, LockHeld
<1>6. LockHeld'
  BY <1>1, <1>3, <1>4, <1>5 DEF LockHeld, Holding
<1>7. Settled = Loaded /\ Settled' = Loaded \ {m}
  BY <1>1, <1>2, <1>3, <1>4, <1>5 DEF Settled, Holding
<1>8. \A a \in Addrs : /\ rec'[a] \in Records
                       /\ rec'[a].id = rec[a].id /\ rec'[a].name = rec[a].name
                       /\ rec'[a].exports = rec[a].exports /\ rec'[a].bound = rec[a].bound
                       /\ rec'[a].needs = rec[a].needs /\ rec'[a].neededby = sub(a)
  <2>1. ASSUME NEW a \in Addrs
        PROVE  rec[a] \in Records
    BY <1>2 DEF TypeOK
  <2>2. ASSUME NEW a \in Addrs
        PROVE  [rec[a] EXCEPT !.neededby = @ \ {rec[m].id}] \in Records
    BY <2>1 DEF Records
  <2> QED
    BY <1>1, <2>1, <2>2 DEF Records
<1>9. TypeOK'
  <2>1. rec' \in [Addrs -> Records]
    BY <1>1, <1>8
  <2> QED
    BY <1>1, <1>2, <1>4, <2>1 DEF TypeOK
<1>10. Owned'
  BY <1>1, <1>2, <1>4 DEF IInv, Owned, Owning
<1>11. CallsValid'
  <2>1. ASSUME NEW u \in Threads \ {t}
        PROVE  CallValid(u)'
    BY <1>4, <1>5, FrameFacts DEF CallValid, Holding
  <2>2. CallValid(t)'
    BY <1>1, <1>2, <1>3, <1>4, <1>8, FrameFacts DEF CallValid
  <2> QED
    BY <2>1, <2>2 DEF CallsValid
<1>fields. \A a \in Loaded :
         /\ rec'[a].id = rec[a].id /\ rec'[a].name = rec[a].name
         /\ rec'[a].exports = rec[a].exports /\ rec'[a].bound = rec[a].bound
         /\ rec'[a].needs = rec[a].needs /\ rec'[a].neededby = rec[a].neededby \ {rec[m].id}
  BY <1>2, <1>8
<1> HIDE DEF m, sub
<1>12. NoRepeats' /\ NoTwins'
  BY <1>1, <1>2, <1>fields DEF NoRepeats, NoTwins
<1>13. \A a \in Loaded : rec[m].id \notin rec[a].needs
  BY <1>2, <1>3, <1>7 DEF DependenciesMutual
<1>14. \A a \in Loaded \ {m} : rec[a].id # rec[m].id
  BY <1>2, <1>3 DEF NoTwins
<1>15. AllResolved'
  <2>1. \A a \in Loaded \ {m} : Resolved(a)
    BY <1>2, <1>7 DEF AllResolved
  <2>2. ASSUME NEW a \in Loaded \ {m}, NEW n \in DOMAIN rec'[a].bound
        PROVE  /\ rec'[a].bound[n] \in Settled'
               /\ n \in rec'[rec'[a].bound[n]].exports
               /\ rec'[rec'[a].bound[n]].id \in rec'[a].needs
    BY <1>2, <1>7, <1>fields, <1>13, <2>1 DEF Resolved
  <2>3. ASSUME NEW a \in Loaded \ {m}, NEW i \in rec'[a].needs
        PROVE  \E b \in Settled' : rec'[b].id = i
    BY <1>2, <1>7, <1>fields, <1>13, <2>1 DEF Resolved
  <2> QED
    BY <1>7, <2>2, <2>3 DEF AllResolved, Resolved
<1>16. DependenciesMutual'
  BY <1>2, <1>7, <1>fields, <1>14 DEF DependenciesMutual
<1>17. NoStaleBits'
  <2>1. ASSUME NEW a \in Loaded, NEW i \in rec[a].neededby \ {rec[m].id}
        PROVE  \E b \in Loaded \ {m} : rec[b].id = i /\ rec[a].id \in rec[b].needs
    BY <1>2, <1>7, <2>1 DEF NoStaleBits
  <2> QED
    BY <1>2, <1>7, <1>fields, <2>1 DEF NoStaleBits
<1> QED
  BY <1>1, <1>6, <1>9, <1>10, <1>11, <1>12, <1>15, <1>16, <1>17 DEF IInv

\* The module leaves the list; its caller has the record to free.
LEMMA UnlinkKeeps ==
    ASSUME IInv, NEW t \in Threads, UnloadUnlink(t)
    PROVE  IInv'
<1> DEFINE m == frame[t].mod
<1>1. /\ frame[t].op = "dtors" /\ writer' = None /\ live' = live /\ id' = id /\ rec' = rec
      /\ frame' = [frame EXCEPT ![t].op = "free"] /\ outer' = outer
  BY FrameFacts DEF UnloadUnlink, Step, WUNLOCK
<1>2. /\ TypeOK /\ NoRepeats /\ NoTwins /\ AllResolved /\ DependenciesMutual /\ NoStaleBits
      /\ Len(list) \in Nat /\ DOMAIN list = 1..Len(list)
  BY ListFacts DEF IInv
<1>3. m \in Loaded /\ writer = t
  BY <1>1, FrameFacts DEF Holding
<1>4. /\ frame' \in [Threads -> Frames]
      /\ \A u \in Threads \ {t} : frame'[u] = frame[u]
      /\ frame'[t].op = "free" /\ frame'[t].mod = m
  BY <1>1, <1>2, StepFacts DEF TypeOK, Ops
<1>5. \A u \in Threads \ {t} : frame[u].op \notin Holding
  BY <1>3 DEF IInv, LockHeld
<1>6. PICK k \in 2..Len(list) :
        /\ list[k] = m
        /\ list' \in Seq(Addrs) /\ Len(list') = Len(list) - 1
        /\ \A i \in 1..(Len(list) - 1) : list'[i] = IF i < k THEN list[i] ELSE list[i + 1]
  BY CutList
<1>7. DOMAIN list' = 1..(Len(list) - 1)
  BY <1>6, LenProperties
<1>8. Loaded' = Loaded \ {m}
  <2>1. ASSUME NEW i \in DOMAIN list'
        PROVE  list'[i] \in Loaded \ {m}
    <3>1. \E j \in DOMAIN list : j # k /\ list'[i] = list[j]
      <4>1. i \in DOMAIN list /\ i + 1 \in DOMAIN list
        BY <1>2, <1>7
      <4> QED
        BY <1>2, <1>6, <1>7, <4>1
    <3> QED
      BY <1>2, <1>6, <3>1 DEF NoRepeats, Loaded
  <2>2. ASSUME NEW a \in Loaded \ {m}
        PROVE  \E i \in DOMAIN list' : list'[i] = a
    <3>1. PICK j \in DOMAIN list : list[j] = a /\ j # k
      BY <1>6, <2>2 DEF Loaded
    <3>2. CASE j < k
      BY <1>2, <1>6, <1>7, <3>1, <3>2
    <3>3. CASE j > k
      <4>1. j - 1 \in DOMAIN list' /\ ~(j - 1 < k) /\ (j - 1) + 1 = j
        BY <1>2, <1>7, <3>1, <3>3
      <4> QED
        BY <1>6, <1>7, <3>1, <4>1
    <3> QED
      BY <1>2, <3>1, <3>2, <3>3
  <2> QED
    BY <2>1, <2>2 DEF Loaded
<1>9. NoRepeats'
  <2>1. ASSUME NEW i \in DOMAIN list', NEW j \in DOMAIN list', list'[i] = list'[j]
        PROVE  i = j
    <3> DEFINE at(x) == IF x < k THEN x ELSE x + 1
    <3>1. \A x \in DOMAIN list' : at(x) \in DOMAIN list /\ list'[x] = list[at(x)]
      BY <1>2, <1>6, <1>7
    <3>2. at(i) = at(j)
      BY <1>2, <2>1, <3>1 DEF NoRepeats
    <3> QED
      BY <1>7, <3>2
  <2> QED
    BY <2>1 DEF NoRepeats
<1>10. Settled = Loaded \ {m} /\ Settled' = Loaded'
  <2>1. Settled = Loaded \ {m}
    BY <1>1, <1>3, SettledFacts DEF IInv
  <2>2. \A u \in Threads : frame'[u].op # "dtors"
    BY <1>4, <1>5 DEF Holding
  <2> QED
    BY <2>1, <2>2 DEF Settled
<1>11. TypeOK'
  BY <1>1, <1>2, <1>4, <1>6 DEF TypeOK
<1>12. LockHeld'
  BY <1>1, <1>4, <1>5, NoneIsNothing DEF LockHeld, Holding
<1>13. Owned'
  <2>1. Loaded' \subseteq live'
    BY <1>1, <1>8 DEF IInv, Owned
  <2>2. ASSUME NEW u \in Threads, frame'[u].op \in Owning
        PROVE  /\ frame'[u].mod \in live' \ Loaded'
               /\ u # t => frame[u].op \in Owning /\ frame'[u] = frame[u] /\ frame[u].mod # m
    BY <1>1, <1>3, <1>4, <1>8, <2>2, FrameFacts DEF IInv, Owned
  <2>3. ASSUME NEW u \in Threads, NEW v \in Threads,
               frame'[u].op \in Owning, frame'[v].op \in Owning, frame'[u].mod = frame'[v].mod
        PROVE  u = v
    BY <1>4, <2>2, <2>3 DEF IInv, Owned
  <2>4. ASSUME NEW a \in live' \ Loaded'
        PROVE  \E u \in Threads : frame'[u].op \in Owning /\ frame'[u].mod = a
    <3>1. CASE a = m
      BY <1>4, <3>1 DEF Owning
    <3>2. CASE a # m
      <4>1. PICK u \in Threads : frame[u].op \in Owning /\ frame[u].mod = a
        BY <1>1, <1>8, <2>4, <3>2 DEF IInv, Owned
      <4>2. u # t
        BY <1>1, <4>1 DEF Owning
      <4> QED
        BY <1>4, <4>1, <4>2
    <3> QED
      BY <3>1, <3>2
  <2> QED
    BY <2>1, <2>2, <2>3, <2>4 DEF Owned
<1>14. CallsValid'
  <2>1. ASSUME NEW u \in Threads \ {t}
        PROVE  CallValid(u)'
    BY <1>4, <1>5, FrameFacts DEF CallValid, Holding
  <2>2. CallValid(t)'
    BY <1>4 DEF CallValid
  <2> QED
    BY <2>1, <2>2 DEF CallsValid
<1>15. NoTwins' /\ DependenciesMutual'
  BY <1>1, <1>2, <1>8, <1>10 DEF NoTwins, DependenciesMutual
<1>16. AllResolved' /\ NoStaleBits'
  BY <1>1, <1>2, <1>8, <1>10 DEF AllResolved, Resolved, NoStaleBits
<1> QED
  BY <1>1, <1>9, <1>11, <1>12, <1>13, <1>14, <1>15, <1>16 DEF IInv

-----------------------------------------------------------------------------
(* The invariant and what follows from it *)

LEMMA InitIInv == Init => IInv
<1> SUFFICES ASSUME Init PROVE IInv
  OBVIOUS
<1> USE DEF Init
<1>1. DOMAIN list = {} /\ Loaded = {} /\ Settled = {}
  <2>1. Len(list) = 0 /\ list \in Seq(Addrs)
    BY EmptySeq
  <2>2. DOMAIN list = {}
    BY <2>1, LenProperties
  <2> QED
    BY <2>2 DEF Loaded, Settled
<1>2. TypeOK
  <2>1. MaxModules - 1 \in Ids
    BY MaxModulesOK DEF Ids
  <2>2. <<>> \in Seq(Addrs)
    BY EmptySeq
  <2> QED
    BY <2>1, <2>2, BlankTyped DEF TypeOK
<1>3. \A t \in Threads : frame[t] = Idle /\ Idle.op = "idle"
  BY DEF Idle
<1>4. LockHeld /\ Owned /\ CallsValid
  BY <1>1, <1>3, NoneIsNothing DEF LockHeld, Owned, CallsValid, CallValid, Holding, Owning
<1>5. NoRepeats /\ NoTwins /\ AllResolved /\ DependenciesMutual /\ NoStaleBits
  BY <1>1 DEF NoRepeats, NoTwins, AllResolved, DependenciesMutual, NoStaleBits
<1> QED
  BY <1>2, <1>4, <1>5 DEF IInv

\* The quiet steps and the three that change the list or the bitmaps.
LEMMA NextCases ==
    ASSUME IInv, ~Nested, Next
    PROVE  \E t \in Threads : \/ IInv' /\ Quiet(t)
                              \/ IInv' /\ LoadChain(t)
                              \/ IInv' /\ UnloadClear(t)
                              \/ IInv' /\ UnloadUnlink(t)
<1>1. PICK t \in Threads : Load(t) \/ Unload(t) \/ Free(t)
  BY DEF Next
<1>2. CASE Load(t)
  <2>1. ASSUME NEW f \in Files, LoadMalloc(t, f)
        PROVE  IInv' /\ Quiet(t)
    BY <2>1, MallocKeeps
  <2>2. LoadRefuse(t) \/ LoadFail(t) => IInv' /\ Quiet(t)
    BY RefuseKeeps
  <2>3. LoadLink(t) => IInv' /\ Quiet(t)
    BY LinkKeeps
  <2>4. LoadChain(t) => IInv'
    BY ChainKeeps
  <2> QED
    BY <1>2, <2>1, <2>2, <2>3, <2>4 DEF Load
<1>3. CASE Unload(t)
  <2>1. ASSUME NEW m \in Addrs, UnloadCheck(t, m)
        PROVE  IInv' /\ Quiet(t)
    BY <2>1, CheckKeeps
  <2>2. UnloadReject(t) => IInv' /\ Quiet(t)
    BY RejectKeeps
  <2>3. UnloadClear(t) => IInv'
    BY ClearKeeps
  <2>4. UnloadUnlink(t) => IInv'
    BY UnlinkKeeps
  <2> QED
    BY <1>3, <2>1, <2>2, <2>3, <2>4 DEF Unload
<1>4. CASE Free(t)
  BY <1>4, FreeKeeps, AttributesKeep DEF Free
<1> QED
  BY <1>1, <1>2, <1>3, <1>4

\* Between two calls nothing happens to the modules.
LEMMA StutterIInv == IInv /\ UNCHANGED vars => IInv'
<1> SUFFICES ASSUME IInv, UNCHANGED vars PROVE IInv'
  OBVIOUS
<1>1. /\ list' = list /\ rec' = rec /\ live' = live /\ id' = id
      /\ writer' = writer /\ frame' = frame /\ outer' = outer
  BY DEF vars
<1>2. TypeOK' /\ LockHeld' /\ outer' = [t \in Threads |-> Idle]
  BY <1>1 DEF IInv, TypeOK, LockHeld
<1>3. Loaded' = Loaded /\ Settled' = Settled
  BY <1>1 DEF Loaded, Settled
<1>4. NoRepeats' /\ Owned' /\ NoTwins'
  BY <1>1, <1>3 DEF IInv, NoRepeats, Owned, NoTwins
<1>5. AllResolved'
  BY <1>1, <1>3 DEF IInv, AllResolved, Resolved
<1>6. DependenciesMutual'
  BY <1>1, <1>3 DEF IInv, DependenciesMutual
<1>7. NoStaleBits'
  <2>1. NoStaleBits
    BY DEF IInv
  <2>2. ASSUME NEW a \in Loaded', NEW i \in rec'[a].neededby
        PROVE  \E b \in Settled' : rec'[b].id = i /\ rec'[a].id \in rec'[b].needs
    <3>1. a \in Loaded /\ i \in rec[a].neededby
      BY <1>1, <1>3
    <3>2. PICK b \in Settled : rec[b].id = i /\ rec[a].id \in rec[b].needs
      BY <2>1, <3>1 DEF NoStaleBits
    <3> QED
      BY <1>1, <1>3, <3>2
  <2> QED
    BY <2>2 DEF NoStaleBits
<1>8. CallsValid'
  <2>1. ASSUME NEW t \in Threads
        PROVE  CallValid(t)'
    <3>1. CallValid(t)
      BY DEF IInv, CallsValid
    <3>2. frame[t].op = "ctors" => Apart(frame[t].mod)' /\ Resolved(frame[t].mod)'
      BY <1>1, <1>3, <3>1 DEF CallValid, Apart, Resolved
    <3> QED
      BY <1>1, <3>1, <3>2 DEF CallValid
  <2> QED
    BY <2>1 DEF CallsValid
<1> QED
  BY <1>2, <1>4, <1>5, <1>6, <1>7, <1>8 DEF IInv

\* Any threads may load, unload and free in any order: each module record has one
\* owner, what a call found out stays true as long as it relies on it, and ids,
\* bitmaps and bindings agree.
THEOREM ModulesInvariant == ASSUME ~Nested PROVE Spec => []IInv
<1>1. Init => IInv
  BY InitIInv
<1>2. IInv /\ [Next]_vars => IInv'
  BY NextCases, StutterIInv
<1> QED
  BY <1>1, <1>2, PTL DEF Spec

\* The list is well formed: its modules have ids, names and symbols of their own,
\* and ids and bits are below MAX_NUM_MODULES (idAlloc, resolve_syms).
THEOREM ModulesWellFormed == ASSUME ~Nested PROVE Spec => []WellFormed
<1>1. IInv => WellFormed
  BY DEF IInv, WellFormed
<1> QED
  BY <1>1, ModulesInvariant, PTL

\* cexpModuleUnload never takes away what a loaded module refers to.
THEOREM ReferencesStayLive == ASSUME ~Nested PROVE Spec => []ReferencesLive
<1>1. IInv => ReferencesLive
  <2> SUFFICES ASSUME IInv PROVE ReferencesLive
    OBVIOUS
  <2>1. AllResolved /\ Settled \subseteq Loaded
    BY DEF IInv, Settled
  <2> QED
    BY <2>1 DEF AllResolved, Resolved, ReferencesLive
<1> QED
  BY <1>1, ModulesInvariant, PTL

\* The needs and neededby bitmaps agree after any loads and unloads, whatever ids
\* are used again.
THEOREM BitmapsAgree == ASSUME ~Nested PROVE Spec => []DependenciesAgree
<1>1. IInv => DependenciesAgree
  BY DEF IInv, DependenciesAgree
<1> QED
  BY <1>1, ModulesInvariant, PTL

\* No module record leaks and none is freed that the list or another call has.
THEOREM RecordsOwned == ASSUME ~Nested PROVE Spec => []RecordsAccounted
<1>1. IInv => RecordsAccounted
  <2> SUFFICES ASSUME IInv PROVE RecordsAccounted
    OBVIOUS
  <2>1. \A t \in Threads : outer[t].op \notin Owning
    BY DEF IInv, Idle, Owning
  <2> QED
    BY <2>1 DEF IInv, Owned, Owning, RecordsAccounted
<1> QED
  BY <1>1, ModulesInvariant, PTL

\* What a step may do to the order of the list.
OrderStep ==
    /\ list # <<>> => list' # <<>> /\ list'[1] = list[1]
    /\ \A i, j \in DOMAIN list : i < j =>
         \A k, l \in DOMAIN list' : list'[k] = list[i] /\ list'[l] = list[j] => k < l

LEMMA StepKeepsOrder ==
    ASSUME IInv, IInv', ~Nested, [Next]_vars
    PROVE  OrderStep
<1>1. /\ NoRepeats /\ NoRepeats' /\ TypeOK /\ TypeOK'
      /\ Len(list) \in Nat /\ DOMAIN list = 1..Len(list)
      /\ list # <<>> => Len(list) # 0
  BY ListFacts DEF IInv
<1>2. ASSUME list' = list
      PROVE  OrderStep
  <2>1. \A i, j \in DOMAIN list : list[i] = list[j] => i = j
    BY <1>1 DEF NoRepeats
  <2>2. ASSUME NEW i \in DOMAIN list, NEW j \in DOMAIN list, i < j,
               NEW k \in DOMAIN list', NEW l \in DOMAIN list',
               list'[k] = list[i], list'[l] = list[j]
        PROVE  k < l
    BY <1>2, <2>1, <2>2
  <2> QED
    BY <1>2, <2>2 DEF OrderStep
<1>3. ASSUME NEW t \in Threads, LoadChain(t)
      PROVE  OrderStep
  <2>1. /\ list' \in Seq(Addrs) /\ Len(list') = Len(list) + 1
        /\ \A i \in 1..Len(list) : list'[i] = list[i]
    BY <1>3, ChainedList
  <2>2. DOMAIN list' = 1..(Len(list) + 1)
    BY <2>1, LenProperties
  <2>3. \A i, k \in DOMAIN list' : list'[i] = list'[k] => i = k
    BY <1>1 DEF NoRepeats
  <2>4. ASSUME NEW i \in DOMAIN list, NEW j \in DOMAIN list, i < j,
               NEW k \in DOMAIN list', NEW l \in DOMAIN list',
               list'[k] = list[i], list'[l] = list[j]
        PROVE  k < l
    <3>1. i \in DOMAIN list' /\ j \in DOMAIN list' /\ list'[i] = list[i] /\ list'[j] = list[j]
      BY <1>1, <2>1, <2>2
    <3>2. k = i /\ l = j
      BY <2>3, <2>4, <3>1
    <3> QED
      BY <2>4, <3>2
  <2>5. list # <<>> => list' # <<>> /\ list'[1] = list[1]
    <3>1. Len(list') # 0
      BY <1>1, <2>1
    <3>2. list' # <<>>
      BY <3>1, EmptySeq
    <3> QED
      BY <1>1, <2>1, <3>2
  <2> QED
    BY <2>4, <2>5 DEF OrderStep
<1>4. ASSUME NEW t \in Threads, UnloadUnlink(t)
      PROVE  OrderStep
  <2>1. PICK p \in 2..Len(list) :
          /\ list' \in Seq(Addrs) /\ Len(list') = Len(list) - 1
          /\ \A i \in 1..(Len(list) - 1) : list'[i] = IF i < p THEN list[i] ELSE list[i + 1]
    BY <1>4, CutList
  <2>2. DOMAIN list' = 1..(Len(list) - 1)
    BY <2>1, LenProperties
  <2> DEFINE at(x) == IF x < p THEN x ELSE x + 1
  <2>3. \A x \in DOMAIN list' : at(x) \in DOMAIN list /\ list'[x] = list[at(x)]
    BY <1>1, <2>1, <2>2
  <2>4. ASSUME NEW i \in DOMAIN list, NEW j \in DOMAIN list, i < j,
               NEW k \in DOMAIN list', NEW l \in DOMAIN list',
               list'[k] = list[i], list'[l] = list[j]
        PROVE  k < l
    <3>1. at(k) = i /\ at(l) = j
      BY <1>1, <2>3, <2>4 DEF NoRepeats
    <3> QED
      BY <1>1, <2>1, <2>2, <2>4, <3>1
  <2>5. list' # <<>> /\ list'[1] = list[1]
    <3>1. Len(list') # 0 /\ 1 \in 1..(Len(list) - 1) /\ 1 < p
      BY <1>1, <2>1
    <3>2. list' # <<>>
      BY <3>1, EmptySeq
    <3> QED
      BY <2>1, <3>1, <3>2
  <2> QED
    BY <2>4, <2>5 DEF OrderStep
<1>5. CASE Next
  BY <1>2, <1>3, <1>4, <1>5, NextCases DEF Quiet, UnloadClear
<1>6. CASE UNCHANGED vars
  BY <1>2, <1>6 DEF vars
<1> QED
  BY <1>5, <1>6

\* Loading appends and unloading cuts out: the order in which cexpSymLookup searches
\* the modules never changes, and the system symbol table stays first.
THEOREM SearchOrderKept == ASSUME ~Nested PROVE Spec => OrderKept
<1>1. IInv /\ IInv' /\ [Next]_vars => [OrderStep]_vars
  BY StepKeepsOrder
<1>2. [OrderStep]_vars <=>
        [/\ list # <<>> => list' # <<>> /\ list'[1] = list[1]
         /\ \A i, j \in DOMAIN list : i < j =>
              \A k, l \in DOMAIN list' :
                list'[k] = list[i] /\ list'[l] = list[j] => k < l]_vars
  BY DEF OrderStep
<1> QED
  BY <1>1, <1>2, ModulesInvariant, PTL DEF Spec, OrderKept

-----------------------------------------------------------------------------
(* The names of shared linkonce sections *)

\* What the invariant says of a record.
SameLinks(a) ==
    /\ rec'[a].exports = rec[a].exports /\ rec'[a].bound = rec[a].bound
    /\ rec'[a].sects = rec[a].sects

\* A record that is not linked by this step, of the list or about to be chained
\* to it, keeps its symbols, bindings and sections.
LEMMA LinksKept ==
    ASSUME IInv, ~Nested, NEW t \in Threads, Load(t) \/ Unload(t) \/ Free(t)
    PROVE  \A a \in Linking : ~(LoadLink(t) /\ a = frame[t].mod) => SameLinks(a)
<1> SUFFICES ASSUME NEW a \in Linking, ~(LoadLink(t) /\ a = frame[t].mod)
             PROVE  SameLinks(a)
  OBVIOUS
<1>1. /\ rec \in [Addrs -> Records] /\ TypeOK
      /\ a \in Addrs /\ a \in live
      /\ frame[t].op \in {"load", "free", "att"} => frame[t].mod \in Addrs
      /\ frame[t].op \in {"load", "free"} => a # frame[t].mod
  <2>1. rec \in [Addrs -> Records] /\ Loaded \subseteq Addrs /\ TypeOK
    BY ListFacts DEF IInv, TypeOK
  <2>2. CASE a \in Loaded
    BY <2>1, <2>2, FrameFacts DEF IInv, Owned, Owning, CallValid
  <2>3. CASE a \notin Loaded
    <3>1. PICK u \in Threads : frame[u].op = "ctors" /\ frame[u].mod = a
      BY <2>3 DEF Linking
    <3>2. a \in Addrs /\ a \in live
      BY <3>1, FrameFacts DEF Owning
    <3>3. frame[t].op \in {"load", "free"} => a # frame[t].mod
      BY <3>1 DEF IInv, Owned, Owning
    <3> QED
      BY <2>1, <3>2, <3>3, FrameFacts DEF Owning, CallValid
  <2> QED
    BY <2>2, <2>3
<1>2. ASSUME NEW f \in Files, LoadMalloc(t, f)
      PROVE  SameLinks(a)
  <2>1. PICK b \in Addrs \ live : rec' = [rec EXCEPT ![b] = Blank]
    BY <1>2 DEF LoadMalloc
  <2> QED
    BY <1>1, <2>1 DEF SameLinks
<1>3. CASE LoadRefuse(t) \/ UnloadReject(t) \/ UnloadUnlink(t) \/ \E m \in Addrs : UnloadCheck(t, m)
  BY <1>3 DEF LoadRefuse, UnloadReject, UnloadUnlink, UnloadCheck, SameLinks
<1>4. CASE LoadFail(t)
  BY <1>1, <1>4 DEF LoadFail, SameLinks
<1>5. CASE LoadLink(t)
  BY <1>1, <1>5 DEF LoadLink, SameLinks
<1>6. CASE LoadChain(t)
  <2>1. rec'[a] = rec[a] \/ \E s : rec'[a] = [rec[a] EXCEPT !.neededby = s]
    BY <1>1, <1>6 DEF LoadChain
  <2> QED
    BY <1>1, <2>1 DEF SameLinks, Records
<1>7. CASE UnloadClear(t)
  <2>1. rec'[a] = rec[a] \/ \E s : rec'[a] = [rec[a] EXCEPT !.neededby = s]
    BY <1>1, <1>7 DEF UnloadClear
  <2> QED
    BY <1>1, <2>1 DEF SameLinks, Records
<1>8. CASE FreeRecord(t)
  BY <1>1, <1>8 DEF FreeRecord, SameLinks
<1>9. CASE FreeAttributes(t)
  <2>1. rec'[a] = rec[a] \/ rec'[a] = [rec[a] EXCEPT !.att = "destroyed"]
    BY <1>1, <1>9 DEF FreeAttributes
  <2> QED
    BY <1>1, <2>1 DEF SameLinks, Records
<1> QED
  BY <1>2, <1>3, <1>4, <1>5, <1>6, <1>7, <1>8, <1>9 DEF Load, Unload, Free

\* Only cexpLoadFile adds a record to these.
LEMMA LinkingGrows ==
    ASSUME IInv, ~Nested, Next
    PROVE  \E t \in Threads :
             /\ Load(t) \/ Unload(t) \/ Free(t)
             /\ \A a \in Linking' : a \in Linking \/ (LoadLink(t) /\ a = frame[t].mod)
<1>1. PICK t \in Threads : Load(t) \/ Unload(t) \/ Free(t)
  BY DEF Next
<1> DEFINE Goal == \A a \in Linking' : a \in Linking \/ (LoadLink(t) /\ a = frame[t].mod)
<1> SUFFICES Goal
  BY <1>1
<1>2. frame \in [Threads -> Frames] /\ outer[t] = Idle
  BY FrameFacts DEF IInv, TypeOK
<1> DEFINE NoNewLinker == \A u \in Threads : frame'[u].op = "ctors" => frame'[u] = frame[u]
<1>3. ASSUME Loaded' \subseteq Linking, NoNewLinker
      PROVE  Goal
  <2>1. ASSUME NEW a \in Linking', a \notin Loaded'
        PROVE  a \in Linking
    <3>1. PICK u \in Threads : frame'[u].op = "ctors" /\ a = frame'[u].mod
      BY <2>1 DEF Linking
    <3>2. frame[u].op = "ctors" /\ a = frame[u].mod
      BY <1>3, <3>1
    <3> QED
      BY <3>2 DEF Linking
  <2> QED
    BY <1>3, <2>1
<1>4. ASSUME NEW op \in Ops \ {"ctors"}, Step(t, op)
      PROVE  NoNewLinker
  BY <1>2, <1>4, StepFacts DEF Step
<1>free. Step(t, "free") => NoNewLinker
  BY <1>4 DEF Ops
<1>dtors. Step(t, "dtors") => NoNewLinker
  BY <1>4 DEF Ops
<1>att. Step(t, "att") => NoNewLinker
  BY <1>4 DEF Ops
<1>5. ASSUME NEW g, g.op # "ctors", frame' = [frame EXCEPT ![t] = g]
      PROVE  NoNewLinker
  BY <1>2, <1>5
<1>ret. Return(t) => NoNewLinker
  BY <1>2, <1>5 DEF Return, Idle
<1> HIDE DEF Goal, NoNewLinker
<1>6. ASSUME list' = list PROVE Loaded' \subseteq Linking
  BY <1>6 DEF Loaded, Linking
<1>7. ASSUME NEW f \in Files, LoadMalloc(t, f) PROVE Goal
  <2>1. PICK a : frame' = [frame EXCEPT ![t] = [op |-> "load", mod |-> a, file |-> f, at |-> None]]
    BY <1>7 DEF LoadMalloc, Enter
  <2>2. list' = list
    BY <1>7 DEF LoadMalloc
  <2> QED
    BY <1>3, <1>5, <1>6, <2>1, <2>2
<1>8. CASE LoadRefuse(t) \/ LoadFail(t)
  BY <1>3, <1>free, <1>6, <1>8 DEF LoadRefuse, LoadFail
<1>9. CASE LoadLink(t)
  <2>1. /\ list' = list
        /\ \A u \in Threads \ {t} : frame'[u] = frame[u]
        /\ frame'[t].mod = frame[t].mod
    BY <1>2, <1>9 DEF LoadLink, Frames
  <2>2. Loaded' = Loaded
    BY <2>1 DEF Loaded
  <2>3. ASSUME NEW a \in Linking', a \notin Loaded, a # frame[t].mod
        PROVE  a \in Linking
    <3>1. PICK u \in Threads : frame'[u].op = "ctors" /\ a = frame'[u].mod
      BY <2>2, <2>3 DEF Linking
    <3>2. frame[u].op = "ctors" /\ a = frame[u].mod
      BY <2>1, <2>3, <3>1
    <3> QED
      BY <3>2 DEF Linking
  <2>4. Loaded \subseteq Linking
    BY DEF Linking
  <2> QED
    BY <1>9, <2>3, <2>4 DEF Goal
<1>10. CASE LoadChain(t)
  <2>1. /\ list' \in Seq(Addrs) /\ Len(list') = Len(list) + 1
        /\ \A i \in 1..Len(list) : list'[i] = list[i]
        /\ list'[Len(list) + 1] = frame[t].mod
    BY <1>10, ChainedList
  <2>2. Len(list) \in Nat /\ DOMAIN list = 1..Len(list) /\ DOMAIN list' = 1..(Len(list) + 1)
    BY <2>1, ListFacts, LenProperties DEF IInv
  <2>3. frame[t].op = "ctors"
    BY <1>10 DEF LoadChain
  <2>4. \A i \in DOMAIN list' : list'[i] \in Linking
    BY <2>1, <2>2, <2>3 DEF Linking, Loaded
  <2>5. Loaded' \subseteq Linking
    BY <2>4 DEF Loaded
  <2> QED
    BY <1>3, <1>10, <1>ret, <2>5 DEF LoadChain
<1>11. ASSUME NEW m \in Addrs, UnloadCheck(t, m) PROVE Goal
  <2>1. PICK g : g.op = "fini" /\ frame' = [frame EXCEPT ![t] = g]
    BY <1>11 DEF UnloadCheck, Enter
  <2>2. list' = list
    BY <1>11 DEF UnloadCheck
  <2> QED
    BY <1>3, <1>5, <1>6, <2>1, <2>2
<1>12. CASE UnloadReject(t)
  BY <1>3, <1>6, <1>12, <1>ret DEF UnloadReject
<1>13. CASE UnloadClear(t)
  BY <1>3, <1>6, <1>13, <1>dtors DEF UnloadClear
<1>14. CASE UnloadUnlink(t)
  <2>1. PICK k \in 2..Len(list) :
          /\ list' \in Seq(Addrs) /\ Len(list') = Len(list) - 1
          /\ \A i \in 1..(Len(list) - 1) : list'[i] = IF i < k THEN list[i] ELSE list[i + 1]
    BY <1>14, CutList
  <2>2. Len(list) \in Nat /\ DOMAIN list = 1..Len(list) /\ DOMAIN list' = 1..(Len(list) - 1)
    BY <2>1, ListFacts, LenProperties DEF IInv
  <2>3. \A i \in DOMAIN list' : list'[i] \in Linking
    <3>1. ASSUME NEW i \in 1..(Len(list) - 1)
          PROVE  \E j \in 1..Len(list) : list'[i] = list[j]
      <4>1. i \in 1..Len(list) /\ i + 1 \in 1..Len(list)
        BY <2>2
      <4> QED
        BY <2>1, <4>1
    <3> QED
      BY <2>2, <3>1 DEF Linking, Loaded
  <2>4. Loaded' \subseteq Linking
    BY <2>3 DEF Loaded
  <2> QED
    BY <1>3, <1>14, <1>free, <2>4 DEF UnloadUnlink
<1>15. CASE FreeRecord(t)
  BY <1>3, <1>6, <1>15, <1>att DEF FreeRecord
<1>16. CASE FreeAttributes(t)
  BY <1>3, <1>6, <1>16, <1>ret DEF FreeAttributes
<1> QED
  BY <1>1, <1>7, <1>8, <1>9, <1>10, <1>11, <1>12, <1>13, <1>14, <1>15, <1>16 DEF Load, Unload, Free

\* A section and its symbol are found in the same module.
LEMMA FoundTogether ==
    ASSUME IInv, AllSectioned, NEW n \in Symbols, NEW w \in Symbols, Together(n, w)
    PROVE  SymLookup(n) = SymLookup(w)
<1>1. TypeOK /\ NoRepeats /\ NoTwins
  BY DEF IInv
<1>2. \A a \in Loaded : n \in rec[a].exports <=> w \in rec[a].exports
  BY DEF AllSectioned, Sectioned, Linking
<1>3. \A x : /\ SymLookup(x) # None => SymLookup(x) \in Loaded /\ x \in rec[SymLookup(x)].exports
             /\ SymLookup(x) = None => \A a \in Loaded : x \notin rec[a].exports
  BY <1>1, SymLookupFinds
<1>4. CASE SymLookup(n) = None
  BY <1>2, <1>3, <1>4
<1>5. CASE SymLookup(n) # None
  <2>1. SymLookup(w) # None
    BY <1>2, <1>3, <1>5
  <2> QED
    BY <1>1, <1>2, <1>3, <1>5, <2>1 DEF NoTwins
<1> QED
  BY <1>4, <1>5

\* The record cexpLoadFile fills in: a section found elsewhere comes with a weak
\* symbol that resolve_syms binds to the same module, or the load is refused.
LEMMA LinkedSectioned ==
    ASSUME IInv, AllSectioned, LinkonceNamed, NEW f \in Files, Links(f)
    PROVE  LET r == Linked(f, NextId) IN
           /\ \A n, w \in Symbols : Together(n, w) => (n \in r.exports <=> w \in r.exports)
           /\ \A b \in r.sects : \E n \in DOMAIN r.bound : r.bound[n] = b
<1> DEFINE names == BoundByResolve(f) \cup (IF list # <<>> THEN BoundByReloc(f) ELSE {})
           r == Linked(f, NextId)
<1>1. /\ r.exports = Exports(f) /\ r.sects = SectionSyms(f)
      /\ r.bound = [n \in names |-> SymLookup(n)]
  BY DEF Linked
<1>2. ASSUME NEW n \in Symbols, NEW w \in Symbols, Together(n, w)
      PROVE  n \in Exports(f) <=> w \in Exports(f)
  <2>1. n \in Defined(f) <=> w \in Defined(f)
    BY <1>2 DEF Together
  <2>2. SymLookup(n) = SymLookup(w)
    BY <1>2, FoundTogether
  <2> QED
    BY <2>1, <2>2 DEF Exports, Defined
<1>3. ASSUME NEW b \in SectionSyms(f)
      PROVE  \E n \in names : SymLookup(n) = b
  <2>1. PICK n \in DOMAIN f.syms : f.syms[n] = "linkonce" /\ SymLookup(n) = b /\ b # None
    BY <1>3 DEF SectionSyms
  <2>2. PICK w \in DOMAIN f.syms : f.syms[w] \in {"def", "weakdef"} /\ Together(n, w)
    BY <2>1 DEF LinkonceNamed
  <2>3. n \in Symbols /\ w \in Symbols
    BY DEF Symbols
  <2>4. SymLookup(w) = b
    BY <2>1, <2>2, <2>3, FoundTogether
  <2>5. f.syms[w] # "def"
    BY <2>1, <2>4 DEF Links, ResolveError
  <2>6. w \in BoundByResolve(f)
    BY <2>1, <2>2, <2>4, <2>5 DEF BoundByResolve
  <2> QED
    BY <2>4, <2>6
<1> QED
  BY <1>1, <1>2, <1>3

\* A step keeps AllSectioned.
LEMMA SectionedKept ==
    ASSUME IInv, AllSectioned, LinkonceNamed, ~Nested, [Next]_vars
    PROVE  AllSectioned'
<1>1. ASSUME NEW a, Sectioned(a), SameLinks(a)
      PROVE  Sectioned(a)'
  <2>1. Symbols' = Symbols /\ \A n, w : Together(n, w)' <=> Together(n, w)
    BY DEF Symbols, Together, Defined
  <2> QED
    BY <1>1, <2>1 DEF Sectioned, SameLinks
<1>2. CASE Next
  <2>1. PICK t \in Threads :
          /\ Load(t) \/ Unload(t) \/ Free(t)
          /\ \A a \in Linking' : a \in Linking \/ (LoadLink(t) /\ a = frame[t].mod)
    BY <1>2, LinkingGrows
  <2>2. ASSUME NEW a \in Linking', ~(LoadLink(t) /\ a = frame[t].mod)
        PROVE  Sectioned(a)'
    <3>1. a \in Linking /\ SameLinks(a)
      BY <2>1, <2>2, LinksKept
    <3> QED
      BY <1>1, <3>1 DEF AllSectioned
  <2>3. ASSUME NEW a \in Linking', LoadLink(t), a = frame[t].mod
        PROVE  Sectioned(a)'
    <3> DEFINE r == Linked(frame[t].file, NextId)
    <3>1. frame[t].file \in Files /\ Links(frame[t].file) /\ a \in Addrs
      BY <2>3, FrameFacts DEF LoadLink, CallValid, Owning
    <3>2. rec'[a] = r
      BY <2>3, <3>1 DEF LoadLink, IInv, TypeOK
    <3>3. /\ \A n, w \in Symbols : Together(n, w) => (n \in r.exports <=> w \in r.exports)
          /\ \A b \in r.sects : \E n \in DOMAIN r.bound : r.bound[n] = b
      BY <3>1, LinkedSectioned
    <3> HIDE DEF r
    <3>4. Symbols' = Symbols /\ \A n, w : Together(n, w)' <=> Together(n, w)
      BY DEF Symbols, Together, Defined
    <3> QED
      BY <3>2, <3>3, <3>4 DEF Sectioned
  <2> QED
    BY <2>2, <2>3 DEF AllSectioned
<1>3. CASE UNCHANGED vars
  <2>1. Linking' = Linking /\ \A a : SameLinks(a)
    BY <1>3 DEF vars, Linking, Loaded, SameLinks
  <2> QED
    BY <1>1, <2>1 DEF AllSectioned
<1> QED
  BY <1>2, <1>3

\* A module whose linkonce sections another module shares (s_eliminate_linkonce) is
\* not unloaded before that one: cexpLoadFile raises no bit for a section, but
\* does for the symbol the section is named after.
THEOREM SectionNamesStayLive ==
    ASSUME ~Nested, LinkonceNamed
    PROVE  Spec => []SectionNamesLive
<1>1. Init => AllSectioned
  <2> SUFFICES ASSUME Init PROVE AllSectioned
    OBVIOUS
  <2>1. TypeOK /\ list = <<>>
    BY InitIInv DEF IInv, Init
  <2>2. Loaded = {}
    BY <2>1, ListFacts
  <2>3. \A t \in Threads : frame[t].op # "ctors"
    BY DEF Init, Idle
  <2> QED
    BY <2>2, <2>3 DEF AllSectioned, Linking
<1>2. IInv /\ AllSectioned /\ [Next]_vars => AllSectioned'
  BY SectionedKept
<1>3. IInv /\ AllSectioned => SectionNamesLive
  <2> SUFFICES ASSUME IInv, AllSectioned, NEW a \in Settled, NEW b \in rec[a].sects
               PROVE  b \in Loaded
    BY DEF SectionNamesLive
  <2>1. Resolved(a) /\ Settled \subseteq Loaded
    BY DEF IInv, AllResolved, Settled
  <2>2. PICK n \in DOMAIN rec[a].bound : rec[a].bound[n] = b
    BY <2>1 DEF AllSectioned, Sectioned, Linking
  <2> QED
    BY <2>1, <2>2 DEF Resolved
<1> QED
  BY <1>1, <1>2, <1>3, ModulesInvariant, PTL DEF Spec
=============================================================================
