----------------------------------- MODULE Link -----------------------------------
(***************************************************************************)
(* The run-time linker (bfdstuff.c) and its memory segments (cexpsegs*.c):  *)
(* what cexpLoadFile does with one file after another, from opening it to   *)
(* handing segments, symbols and constructors to the module, and how it     *)
(* gives everything back that it took when one of its steps fails.          *)
(*                                                                          *)
(* The caller has the write lock (Modules), so that one file is loaded at a *)
(* time; which names symbols are bound to is the subject of Modules, too.   *)
(***************************************************************************)
EXTENDS Reloc, Attributes, Bfd, FiniteSets, FiniteSetsExt

CONSTANTS
    Objects,      \* ELF files
    SystemAtts,   \* attribute sections the system may have
    Segments,     \* the segments: what they hold, and where they may be put
    LongBytes,    \* sizeof(long)
    Cpu,          \* the CPU
    MaxLoads,     \* bound on the files that are loaded
    CpuAlignment, \* CPU_ALIGNMENT
    Limit,        \* LIMIT_32M
    Regions,      \* the memory a system may give to code: start and size
    None          \* a null pointer

\* The alignments of a file, as powers of two.
Alignments(o) ==
    {0} \cup {o.shdrs[i].align : i \in DOMAIN o.shdrs}
        \cup {o.syms[i].value : i \in {i \in DOMAIN o.syms : o.syms[i].shndx = SHN_COMMON}}

\* Sizes and addresses are numbers, and a power of two divides a greater one.
ObjectOK(o) ==
    /\ o.shdrs \in Seq(ToSet(o.shdrs)) /\ o.syms \in Seq(ToSet(o.syms))
    /\ o.atts \in Seq(ToSet(o.atts)) /\ \A s \in ToSet(o.atts) : s.attrs \in Seq(ToSet(s.attrs))
    /\ \A h \in ToSet(o.shdrs) :
         /\ h.size \in Nat /\ h.addr \in Nat /\ h.members \in Seq(ToSet(h.members))
         /\ \A e \in h.entries : e.off \in Nat
    /\ \A s \in ToSet(o.syms) : s.size \in Nat
    /\ Alignments(o) \subseteq Nat
    /\ \A a, b \in Alignments(o) : 2^a \in Nat \ {0} /\ (a <= b => 2^b % 2^a = 0)

ASSUME ObjectsOK == None \notin Nat /\ \A o \in Objects : ObjectOK(o)

\* One segment, or one for code and one for data.
ASSUME SegmentsOK ==
    /\ Len(Segments) \in {1, 2} /\ DOMAIN Segments = 1..Len(Segments)
    /\ \A k \in DOMAIN Segments : Segments[k].bases \subseteq Nat \ {0}

ASSUME SizesOK == LongBytes \in Nat /\ MaxLoads \in Nat /\ Cpu \in DOMAIN Cpus
ASSUME RegionsOK ==
    CpuAlignment \in Nat \ {0} /\ Limit \in Nat /\ \A r \in Regions : r.start \in Nat /\ r.size \in Nat

VARIABLES
    pc,           \* the step of cexpLoadFile
    obj,          \* the file that is being loaded, as its bfd shows it
    sect,         \* the sections of the bfd
    stream,       \* the file's stream
    seg,          \* ldr.segs
    common,       \* ldr.new_commons, with their place in the new section
    atts,         \* obj_atts
    held,         \* what the call has taken and neither returned nor handed on
    mods,         \* the modules, the system first
    forced,       \* _cexpForceIgnoreObjAttrMismatches
    loads         \* files that were opened

vars == <<pc, obj, sect, stream, seg, common, atts, held, mods, forced, loads>>

\* Mutant: the last segment is not set up.
cexpSegsInitShort ==
    [i \in 1..(Len(Segments) - 1) |-> [size |-> 0, chunk |-> None, vmacalc |-> None]]

\* cexpSegsInit, cexpSegsCreate: nothing is allocated yet.
cexpSegsInit == [i \in DOMAIN Segments |-> [size |-> 0, chunk |-> None, vmacalc |-> None]]

\* pmbfd_get_file_attributes
FileAttributes(a) == IF a = <<>> THEN NoSet ELSE pmelf_read_attribute_set(a).t

System(a) == [file |-> None, sect |-> <<>>, seg |-> <<>>, common |-> <<>>, text |-> 0,
              atts |-> a, ctors |-> <<>>, dtors |-> <<>>, frame |-> None]

Init ==
    /\ pc = "idle" /\ obj = None /\ sect = <<>> /\ stream = "none" /\ seg = <<>> /\ common = <<>>
    /\ atts = NoSet /\ held = {} /\ forced = FALSE /\ loads = 0
    /\ \E a \in SystemAtts : mods = <<System(FileAttributes(a))>>

\* Mutant: the size is not reduced by what alignment skips.
RegionUnreduced(r) ==
    LET start == ((r.start + CpuAlignment - 1) \div CpuAlignment) * CpuAlignment IN
    [start |-> start, size |-> r.size - (r.size % CpuAlignment)]

\* cexpSegsInit of the PowerPC: the region for code, aligned and below the limit
\* of relative branches; a region of 1000 bytes or less is not used.
Region(r) ==
    LET size == IF r.start >= Limit THEN 0
                ELSE IF r.start + r.size > Limit THEN Limit - r.start ELSE r.size
        start == ((r.start + CpuAlignment - 1) \div CpuAlignment) * CpuAlignment
        rest == size - (start - r.start) IN
    [start |-> start, size |-> IF size = 0 THEN 0 ELSE rest - (rest % CpuAlignment)]

Alloc(s) == "alloc" \in s.flags
AllocSections == {i \in DOMAIN sect : Alloc(sect[i])}
Drop(s) == [s EXCEPT !.flags = @ \ {"alloc"}]

Fail == pc' = "cleanup"

-----------------------------------------------------------------------------
(* Opening the file *)

\* What the linker is shown of a file.
ObjectOf(f) ==
    [elf |-> f, syms |-> bfd_canonicalize_symtab(f), atts |-> AttributesSection(f),
     rels |-> UNION {Relocations(f, i) : i \in DOMAIN f.shdrs}]

\* Segment table and search of the file.  On RTEMS a file that cannot be seeked
\* is copied to a scratch file; cexpSearchFile returns no name for it then, and
\* what strcmp makes of the null pointer is that the file is not the scratch
\* file, or a fault.
Search(o) ==
    /\ pc = "idle" /\ loads < MaxLoads
    /\ loads' = loads + 1 /\ obj' = [elf |-> o] /\ seg' = cexpSegsInit
    /\ \/ held' = {} /\ stream' = "none" /\ Fail
       \/ held' = {"segs"} /\ stream' = "none" /\ Fail
       \/ held' = {"segs", "name", "stream"} /\ stream' = "open" /\ pc' = "open"
       \/ held' = {"segs", "scratch", "stream"} /\ stream' = "open" /\ pc' \in {"open", "fault"}
    /\ UNCHANGED <<sect, common, atts, mods, forced>>

\* With n of its parts, and what it has lost.
Refused(n, lost) ==
    /\ held' = bfd_cleanup(held \cup FirstParts(n)) \cup lost /\ stream' = pmelf_delstrm(stream, TRUE)
    /\ Fail /\ UNCHANGED <<obj, sect>>

\* bfd_openstreamr, the two checks that follow.  The stream is the bfd's then;
\* one that could not be opened leaves it to its caller.
Open ==
    /\ pc = "open"
    /\ \/ \E n \in 0..MaxParts(obj.elf) : n <= Len(BfdParts) /\ Refused(n, {})
       \/ MaxParts(obj.elf) = Len(BfdParts) /\ GroupLost(obj.elf) /\ Refused(Len(BfdParts), {"group"})
       \/ /\ MaxParts(obj.elf) > Len(BfdParts)
          /\ held' = (held \cup FirstParts(Len(BfdParts)) \cup {"bfd"}) \ {"stream"}
          /\ IF Accepted(obj.elf) THEN pc' = "attributes" ELSE Fail
          /\ obj' = ObjectOf(obj.elf) /\ sect' = Sections(obj.elf) /\ UNCHANGED stream
    /\ UNCHANGED <<seg, common, atts, mods, forced, loads>>

\* Mutant: a file is compared with the system alone.
CompatibleWithSystem(a) == pmelf_match_attribute_set(mods[1].atts, a)

Compatible(a) == \A i \in DOMAIN mods : pmelf_match_attribute_set(mods[i].atts, a)

\* The attributes are read, and compared with those of all modules.
Attributed ==
    /\ pc = "attributes"
    /\ \E a \in {IF mods[1].atts = NoSet THEN NoSet ELSE FileAttributes(obj.atts)} :
         /\ atts' = a
         /\ held' = IF a = NoSet THEN held ELSE held \cup {"atts"}
         /\ pc' = IF pmelf_read_attribute_set(obj.atts).err = "hangs" THEN "hangs"
                  ELSE IF forced \/ Compatible(a) THEN "names" ELSE "cleanup"
    /\ UNCHANGED <<obj, sect, stream, seg, common, mods, forced, loads>>

-----------------------------------------------------------------------------
(* Sections that are not loaded *)

\* s_nsects: empty sections need no memory.
s_nsects(s) == IF s.size = 0 THEN Drop(s) ELSE s

\* The walk with elf_next_in_group from group g on; it has met all it ever meets
\* when it has made as many steps as there are sections.
Walk(f, g) ==
    LET w[n \in 0..Len(f.shdrs)] ==
          elf_next_in_group(f)[IF n = 0 THEN g ELSE w[n - 1]] IN
    w

\* Mutant: the walk ends after the first member.
GroupOfFirst(f, g) == {Walk(f, g)[0]} \ {0}

\* What the walk meets before it ends, or for ever.
GroupOf(f, g) == {Walk(f, g)[n] : n \in 0..Len(f.shdrs)} \ {0}

\* The walk comes to no end: it is caught in a ring that its first section is not
\* in.
Endless(f, g) ==
    LET w == Walk(f, g) IN
    w[Len(f.shdrs)] # 0 /\ \A n \in 1..Len(f.shdrs) : w[n] # w[0]

\* A symbol of this name is loaded: the name of a section, or the signature of
\* a group, which one of the members defines.
Present(n) == \E m \in ToSet(mods) : \E j \in DOMAIN m.sect :
    /\ m.sect[j].name = n
    /\ Alloc(m.sect[j]) \/ \E k \in ToSet(m.sect[j].members) : Alloc(m.sect[k])

\* A linkonce section or group that is loaded already.
Duplicate(s) == "linkonce" \in s.flags /\ Present(s.name)

\* The sections that s_eliminate_linkonce drops when it comes to section i.
Dropped(f, ss, i) ==
    IF Duplicate(ss[i]) THEN {i} \cup (IF "group" \in ss[i].flags THEN GroupOf(f, i) ELSE {}) ELSE {}

s_eliminate_linkonce(f, ss) ==
    LET gone == UNION {Dropped(f, ss, i) : i \in DOMAIN ss} IN
    [i \in DOMAIN ss |-> IF i \in gone THEN Drop(ss[i]) ELSE ss[i]]

\* One of the groups that are dropped has no end.
EndlessGroup(f, ss) ==
    \E i \in DOMAIN ss : Duplicate(ss[i]) /\ "group" \in ss[i].flags /\ Endless(f, i)

\* Without memory for their names the sections are left as they are.
Names ==
    /\ pc = "names"
    /\ LET ss == [i \in DOMAIN sect |-> s_nsects(sect[i])] IN
       \/ /\ held' = held \cup {"section_syms"} /\ sect' = s_eliminate_linkonce(obj.elf, ss)
          /\ pc' = IF EndlessGroup(obj.elf, ss) THEN "hangs" ELSE "symtab"
       \/ Fail /\ held' = held /\ sect' = ss
    /\ UNCHANGED <<obj, stream, seg, common, atts, mods, forced, loads>>

-----------------------------------------------------------------------------
(* The symbol table and new common symbols *)

align_power(x, p) == ((x + 2^p - 1) \div 2^p) * 2^p

elf_get_align(s) == IF s.kind = "com" THEN s.align ELSE 0
Commons == {i \in DOMAIN obj.syms : obj.syms[i].kind \in {"com", "weakundef"}}

\* Mutant: the commons stay in the order of the symbol table.
SortedByAlignPlain(s) == \A i, j \in DOMAIN s : i < j => s[i] < s[j]

\* qsort with align_size_compare: any order that goes from large to small.
SortedByAlign(s) == \A i, j \in DOMAIN s : i < j =>
    elf_get_align(obj.syms[s[i]]) >= elf_get_align(obj.syms[s[j]])

CommonSize(s) == IF s.kind = "com" THEN s.size ELSE 0

\* make_new_commons: the places of the commons, in that order, in a new section.
Placed(order) ==
    LET end[i \in 0..Len(order)] ==
          IF i = 0 THEN 0
          ELSE align_power(end[i - 1], elf_get_align(obj.syms[order[i]]))
                 + CommonSize(obj.syms[order[i]]) IN
    [i \in DOMAIN order |-> [sym |-> order[i], off |-> end[i] - CommonSize(obj.syms[order[i]]),
                             size |-> CommonSize(obj.syms[order[i]])]]

Dummy(order) ==
    LET p == Placed(order) IN
    [name |-> ".dummy", size |-> p[Len(p)].off + p[Len(p)].size,
     align |-> elf_get_align(obj.syms[order[1]]), flags |-> {"alloc"}, members |-> <<>>, vma |-> 0]

\* CEXPMOD_INITIALIZER_SYM, CEXPMOD_FINALIZER_SYM
CallbackNames == {"_cexpModuleInitialize", "_cexpModuleFinalize"}

\* Symbols that are the module's own for certain (BSF_KEEP): section symbols of
\* what is loaded, and strong definitions, which are new or refused.
Keeps(i) == LET s == obj.elf.syms[i] IN
    IF s.bind = "LOCAL"
      THEN s.type = "SECTION" /\ obj.syms[i].kind = "def" /\ Alloc(sect[obj.syms[i].sect])
      ELSE /\ s.bind # "WEAK" /\ s.type # "TLS" /\ s.name \notin CallbackNames
           /\ obj.syms[i].kind \in {"def", "abs"}

\* Those that may be: others are replaced when a symbol of the name is loaded.
\* ("These are probably sitting in a shared library": undefined, with a value.)
MayKeep(i) == LET s == obj.elf.syms[i] IN
    \/ Keeps(i)
    \/ /\ s.bind # "LOCAL" /\ s.type # "TLS" /\ s.name \notin CallbackNames
       /\ obj.syms[i].kind = "undef" => s.type = "FUNC" /\ s.value # 0

\* What cexpCreateSymTbl leaves: a table, or none when memory is short, which
\* nobody looks at.
NewTables == {{}} \cup (IF \E i \in DOMAIN obj.syms : MayKeep(i) THEN {{"cst"}} ELSE {})

\* A table for no symbol has no place for the null name at its end, which is
\* written all the same.
TableFault ==
    /\ \A i \in DOMAIN obj.syms : ~Keeps(i)
    /\ pc' = "fault" /\ held' = held \cup {"syms", "symchunks"} /\ UNCHANGED <<sect, common>>

\* The first failures are those of resolve_syms and before, the last one is that
\* there is no room for a section.
slurp_symtab ==
    /\ pc = "symtab"
    /\ \/ Fail /\ held' \in {held, held \cup {"syms", "symchunks"} \cup
                                     (IF Commons = {} THEN {} ELSE {"new_commons"})}
          /\ UNCHANGED <<sect, common>>
       \/ SymbolsFit(obj.elf) /\ TableFault
       \/ /\ SymbolsFit(obj.elf) /\ Commons = {} /\ pc' = "count"
          /\ \E table \in NewTables : held' = held \cup {"st", "syms", "symchunks"} \cup table
          /\ UNCHANGED <<sect, common>>
       \/ \E order \in {s \in SetToSeqs(Commons) : SortedByAlign(s)}, table \in NewTables :
            /\ SymbolsFit(obj.elf) /\ Commons # {}
            /\ \/ Fail /\ held' = held \cup {"syms", "symchunks", "new_commons", "dummy name"} \cup table
                  /\ UNCHANGED <<sect, common>>
               \/ /\ pc' = "count" /\ common' = Placed(order)
                  /\ sect' = Append(sect, Dummy(order))
                  /\ held' = held \cup {"syms", "symchunks", "new_commons", "dummy name", "st"} \cup table
    /\ UNCHANGED <<obj, stream, seg, atts, mods, forced, loads>>

-----------------------------------------------------------------------------
(* Memory *)

\* segOf, cexpSegsMatch
segOf(s) ==
    IF Len(Segments) = 1 THEN 1 ELSE IF "code" \in s.flags THEN 1 ELSE 2

IsEh(s) == s.name = ".eh_frame" /\ "linkonce" \notin s.flags

\* ldr.eh_section: the last one.
EhSections == {i \in AllocSections : IsEh(sect[i])}
eh_section == IF EhSections = {} THEN 0 ELSE Max(EhSections)

\* Mutant: no room for the padding in front of a section.
NeedsPacked(s) == s.size + (IF IsEh(s) THEN LongBytes ELSE 0)

\* s_count: what a section may need at most, wherever it is put.
Needs(s) == 2^s.align - 1 + s.size + (IF IsEh(s) THEN LongBytes ELSE 0)

Forbidden(s) == Alloc(s) /\ s.size > 0 /\ s.name \in {".got", ".got2", ".fixup"}

Required(k) ==
    FoldSet(LAMBDA i, n : n + Needs(sect[i]), 0, {i \in AllocSections : segOf(sect[i]) = k})

s_count ==
    /\ pc = "count"
    /\ seg' = [k \in DOMAIN seg |-> [seg[k] EXCEPT !.size = Required(k)]]
    /\ IF \E i \in DOMAIN sect : Forbidden(sect[i]) THEN Fail ELSE pc' = "alloc"
    /\ UNCHANGED <<obj, sect, stream, common, atts, held, mods, forced, loads>>

\* The n bytes at address c.
Span(c, n) == c..(c + n - 1)
InUse == UNION {UNION {IF m.seg[k].chunk \in {None, 0} THEN {} ELSE Span(m.seg[k].chunk, m.seg[k].size) :
                         k \in DOMAIN m.seg} : m \in ToSet(mods)}
Own == UNION {IF seg[k].chunk \in {None, 0} THEN {} ELSE Span(seg[k].chunk, seg[k].size) :
                k \in DOMAIN seg}

\* malloc, rtems_region_get_segment: addresses of n free bytes.
Free(k, n) == {c \in Segments[k].bases : Span(c, n) \cap (InUse \cup Own) = {}}

ChunkOf == <<"code memory", "data memory">>
Chunks == {ChunkOf[k] : k \in DOMAIN Segments}

\* Mutant: the loop does not go on behind a segment of size 0.
AllocEmptyKept(k) == seg' = seg

AllocEmpty(k) == seg' = [seg EXCEPT ![k].chunk = 0]

\* cexpSegsAlloc: the segments in their order; a segment of size 0 has no
\* memory.  The first that fails ends the load.
cexpSegsAlloc ==
    LET todo == {k \in DOMAIN seg : seg[k].chunk = None}
        k == Min(todo) IN
    /\ pc = "alloc"
    /\ IF todo = {} THEN pc' = "setvma" /\ UNCHANGED <<seg, held>>
       ELSE IF seg[k].size = 0
         THEN AllocEmpty(k) /\ UNCHANGED <<pc, held>>
       ELSE \/ Fail /\ UNCHANGED <<seg, held>>
            \/ \E c \in Free(k, seg[k].size) :
                 /\ seg' = [seg EXCEPT ![k].chunk = c, ![k].vmacalc = c]
                 /\ held' = held \cup {ChunkOf[k]} /\ UNCHANGED pc
    /\ UNCHANGED <<obj, sect, stream, common, atts, mods, forced, loads>>

\* s_setvma: sections one after the other; those that stay empty keep address 0.
Sized == {i \in AllocSections : sect[i].size > 0}

\* The address of section i and the end of what is in its segment.
Placement(k) ==
    LET end[i \in 0..Len(sect)] ==
          IF i = 0 THEN seg[k].vmacalc
          ELSE IF i \notin Sized \/ segOf(sect[i]) # k THEN end[i - 1]
          ELSE align_power(end[i - 1], sect[i].align) + sect[i].size
                 + (IF i = eh_section THEN LongBytes ELSE 0) IN
    end

s_setvma ==
    /\ pc = "setvma"
    /\ IF \E i \in Sized : seg[segOf(sect[i])].vmacalc = None
         THEN Fail /\ UNCHANGED <<sect, seg>>
         ELSE /\ pc' = "reloc"
              /\ sect' = [i \in DOMAIN sect |->
                   IF i \in Sized
                     THEN [sect[i] EXCEPT !.vma =
                            align_power(Placement(segOf(sect[i]))[i - 1], sect[i].align)]
                     ELSE sect[i]]
              /\ seg' = [k \in DOMAIN seg |->
                   IF seg[k].vmacalc = None THEN seg[k]
                   ELSE [seg[k] EXCEPT !.vmacalc = Placement(k)[Len(sect)]]]
    /\ UNCHANGED <<obj, stream, common, atts, held, mods, forced, loads>>

-----------------------------------------------------------------------------
(* Relocation *)

OffsetIn(cs, i) == (CHOOSE c \in ToSet(cs) : c.sym = i).off

\* bfd_asymbol_value, with the symbols that resolve_syms has replaced; the first
\* symbol is 0.
bfd_asymbol_value(o, ss, cs, i) ==
    IF i = 0 THEN 0 ELSE
    LET s == o.syms[i] IN
    CASE s.kind = "def" -> ss[s.sect].vma + s.val
      [] s.kind \in {"com", "weakundef"} -> ss[Len(ss)].vma + OffsetIn(cs, i)
      [] s.kind \in {"undef", "abs"} -> s.val

\* Relocations against a section that was dropped are ignored.
Ignored(r) ==
    r.sym \in DOMAIN obj.syms /\ obj.syms[r.sym].kind = "def" /\ ~Alloc(sect[obj.syms[r.sym].sect])

Relocs == {r \in obj.rels : r.sect \in AllocSections /\ ~Ignored(r)}

Status(r) == perform(Cpu, r.type, 0, sect[r.sect].vma, r.off, sect[r.sect].size,
                     bfd_asymbol_value(obj, sect, common, r.sym), 0).status

\* s_reloc: the contents are read and relocated.  An undefined symbol may be
\* missing, the contents may be unreadable.
s_reloc ==
    /\ pc = "reloc"
    /\ \/ /\ \A i \in AllocSections \cap DOMAIN obj.elf.shdrs : RelocsFit(obj.elf, i)
          /\ \A r \in Relocs : SymbolIndexFits(obj.elf, r) /\ Status(r) = "ok"
          /\ pc' = "values"
       \/ Fail
    /\ UNCHANGED <<obj, sect, stream, seg, common, atts, held, mods, forced, loads>>

-----------------------------------------------------------------------------
(* The rest of cexpLoadFile *)

CtorDtor(o, c) == {i \in DOMAIN o.syms : o.syms[i].ctor = c}

\* Mutant: destructors are called in the order of constructors.
DestructionOrderSame(s) == s

DestructionOrder(s) == Reverse(s)

\* buildCtorsDtors: qsort orders by priority; its comparison of positions does
\* not fix the order of equal ones.
ByPriority(o, c) ==
    {s \in SetToSeqs(CtorDtor(o, c)) :
        \A i, j \in DOMAIN s : i < j => o.syms[s[i]].pri <= o.syms[s[j]].pri}

Kept == {"segs", "cst", "name", "atts", "section_syms"}

\* cexpSymTabSetValues, which follows the table even if there is none, and the
\* sanity checks, which may fail; then nothing fails any more: the frame table is
\* registered, the lists are built, and all the module needs is moved to it.
Finish ==
    /\ pc = "values"
    /\ \/ "cst" \notin held /\ pc' = "fault" /\ UNCHANGED <<mods, held>>
       \/ "cst" \in held /\ Fail /\ UNCHANGED <<mods, held>>
       \/ /\ "cst" \in held /\ pc' = "cleanup"
          /\ \E cs \in ByPriority(obj, "I"), ds \in ByPriority(obj, "D") :
               mods' = Append(mods,
                 [file |-> obj, sect |-> sect, seg |-> seg, common |-> common, atts |-> atts,
                  text |-> IF \E i \in Sized : sect[i].name = ".text"
                             THEN sect[CHOOSE i \in Sized : sect[i].name = ".text"].vma ELSE 0,
                  frame |-> IF eh_section = 0 THEN None ELSE sect[eh_section].vma,
                  ctors |-> cs, dtors |-> DestructionOrder(ds)])
          /\ held' = held \ (Kept \cup Chunks)
    /\ UNCHANGED <<obj, sect, stream, seg, common, atts, forced, loads>>

\* Mutant: the segments that were allocated before one failed are forgotten.
ReleasedNoChunks == {"st", "new_commons", "name", "atts", "cst", "bfd", "stream", "dummy name",
                     "segs", "section_syms"}

\* What cexpLoadFile returns at its end; section_syms is left to cexpModuleFree,
\* which follows a failure.  The scratch file is removed when its name was
\* recognized, which it never is.
Released == {"st", "new_commons", "name", "atts", "cst", "bfd", "stream", "dummy name",
             "segs", "section_syms"} \cup Chunks

\* bfd_close_all_done closes the stream of an open bfd; the caller closes a
\* stream that no bfd has taken.
Cleanup ==
    /\ pc = "cleanup" /\ pc' = "idle"
    /\ held' = (IF "bfd" \in held THEN bfd_cleanup(held) ELSE held) \ Released
    /\ LET s == IF "bfd" \in held THEN pmelf_delstrm(stream, FALSE) ELSE stream IN
       stream' = IF "stream" \in held THEN Closed(s) ELSE s
    /\ obj' = None /\ sect' = <<>> /\ seg' = <<>> /\ common' = <<>> /\ atts' = NoSet
    /\ UNCHANGED <<mods, forced, loads>>

\* cexpModuleFree: the segments of a module are released (cexpSegsDelete).
Unload(i) ==
    /\ pc = "idle" /\ i \in DOMAIN mods \ {1}
    /\ mods' = RemoveAt(mods, i)
    /\ UNCHANGED <<pc, obj, sect, stream, seg, common, atts, held, forced, loads>>

SetForced ==
    /\ pc = "idle" /\ forced' = TRUE
    /\ UNCHANGED <<pc, obj, sect, stream, seg, common, atts, held, mods, loads>>

LoadStep ==
    \/ Open \/ Attributed \/ Names \/ slurp_symtab \/ s_count \/ cexpSegsAlloc \/ s_setvma
    \/ s_reloc \/ Finish \/ Cleanup

Next ==
    \/ \E o \in Objects : Search(o)
    \/ LoadStep
    \/ \E i \in DOMAIN mods : Unload(i)
    \/ SetForced

Spec == Init /\ [][Next]_vars /\ WF_vars(LoadStep)

-----------------------------------------------------------------------------
(* Properties *)

TypeOK ==
    /\ stream \in {"none", "open", "closed", "closed twice"}
    /\ pc \in {"idle", "open", "attributes", "names", "symtab", "count", "alloc", "setvma", "reloc",
               "values", "cleanup", "fault", "hangs"}
    /\ held \subseteq Released \cup BfdOwn \cup {"scratch", "group"}
    /\ DOMAIN seg = (IF pc = "idle" THEN {} ELSE DOMAIN Segments)
    /\ \A k \in DOMAIN seg : seg[k] \in [size : Nat, chunk : Nat \cup {None}, vmacalc : Nat \cup {None}]
    /\ \A i \in DOMAIN sect : sect[i].vma \in Nat
    /\ forced \in BOOLEAN /\ loads \in 0..MaxLoads

\* What a section occupies, the terminator of the frame table included.
Extent(m, i) ==
    Span(m.sect[i].vma, m.sect[i].size +
             (IF m.frame # None /\ m.sect[i].vma = m.frame THEN LongBytes ELSE 0))

Loaded(m) == {i \in DOMAIN m.sect : Alloc(m.sect[i]) /\ m.sect[i].size > 0}

Fits(m) == \A i \in Loaded(m) :
    /\ m.sect[i].vma % 2^m.sect[i].align = 0
    /\ LET k == segOf(m.sect[i]) IN Extent(m, i) \subseteq Span(m.seg[k].chunk, m.seg[k].size)

\* Whatever addresses malloc returns and in whatever order sections come, each
\* section of a module is aligned and lies in the segment that was allocated for
\* it, and two sections of all modules never overlap.
LayoutFits ==
    /\ \A m \in ToSet(mods) : Fits(m)
    /\ \A a, b \in DOMAIN mods : \A i \in Loaded(mods[a]), j \in Loaded(mods[b]) :
         <<a, i>> # <<b, j>> => Extent(mods[a], i) \cap Extent(mods[b], j) = {}

\* The region lies in the memory that was given and below the limit.  (One that
\* is smaller than what alignment skips becomes huge: its size wraps.)
RegionInside ==
    pc = "idle" => \A r \in Regions : r.size >= CpuAlignment =>
      LET g == Region(r) IN
      g.size > 0 => /\ g.start >= r.start /\ g.start + g.size <= r.start + r.size
                    /\ g.start + g.size <= Limit
                    /\ g.start % CpuAlignment = 0 /\ g.size % CpuAlignment = 0

\* Each new common symbol is aligned as the file asks, lies in the new section,
\* and overlaps no other.
CommonsPlaced ==
    \A m \in ToSet(mods) : \A i \in DOMAIN m.common :
      LET at(c) == bfd_asymbol_value(m.file, m.sect, m.common, c.sym)
          space(c) == Span(at(c), c.size)
          c == m.common[i] IN
      /\ c.size > 0 => at(c) % 2^elf_get_align(m.file.syms[c.sym]) = 0
      /\ c.size > 0 => space(c) \subseteq Span(m.sect[Len(m.sect)].vma, m.sect[Len(m.sect)].size)
      /\ \A j \in DOMAIN m.common \ {i} : space(c) \cap space(m.common[j]) = {}

\* What a load leaves behind: the scratch file of a file that came over TFTP, which
\* is never removed, and the buffer with a list of group members that does not fit.
Lost(h) == h \cap {"scratch", "group"}

\* Wherever a load fails, everything else it took has been given back when it
\* returns; a module has its segments and nothing else.  The buffer is lost only to
\* a file that is refused for its group.
ResourcesReturned ==
    /\ pc = "idle" => held = Lost(held)
    /\ "group" \in held => pc = "idle" \/ (pc = "cleanup" /\ GroupLost(obj.elf))

\* The stream is closed once: by the bfd that has it, or by cexpLoadFile when
\* the bfd was refused or never opened.
StreamClosedOnce == pc = "idle" => stream \in {"none", "closed"}

\* Each thing that a load takes, but what is in Lost, is given back or handed on
\* once, wherever it fails.
TakenReturned == TypeOK /\ ResourcesReturned /\ StreamClosedOnce

\* "ordered initialization/destruction": constructors run by ascending priority,
\* destructors by descending priority.
InitializationOrdered ==
    \A m \in ToSet(mods) :
      /\ \A i, j \in DOMAIN m.ctors : i < j => m.file.syms[m.ctors[i]].pri <= m.file.syms[m.ctors[j]].pri
      /\ \A i, j \in DOMAIN m.dtors : i < j => m.file.syms[m.dtors[i]].pri >= m.file.syms[m.dtors[j]].pri

\* The attributes of a file for one tag of the ABI, 0 if it does not care.
Claims(m, tag) ==
    IF m.file = None THEN {}
    ELSE {a.i : a \in {b \in UNION {ToSet(s.attrs) : s \in ToSet(m.file.atts)} : b.tag = tag}} \ {0}

\* Unless the user asked for it, or the system does not say what it was built
\* for, no two modules that are loaded were built for different ABIs, whichever
\* others were loaded and unloaded before.
AbisAgree ==
    mods[1].atts # NoSet /\ ~forced =>
      \A m, n \in ToSet(mods) : \A tag \in gnu_ppc_atts :
        Cardinality(Claims(m, tag) \cup Claims(n, tag)) <= 1

\* Stages at which it is known which sections are loaded, and where commons go.
AfterSymtab == {"count", "alloc", "setvma", "reloc", "values"}
AfterNames == AfterSymtab \cup {"symtab"}

\* What compilers make of groups: the header of a group comes before its members
\* (the ELF gABI demands it), no member is a group, in a second group or twice in
\* one.
GroupsProper(o) ==
    \A g \in {g \in DOMAIN o.shdrs : ComdatGroup(o, g)} : LET ms == o.shdrs[g].members IN
      /\ \A i \in MembersOf(o, g) :
           /\ g < i /\ o.shdrs[i].type # "GROUP"
           /\ \A h \in DOMAIN o.shdrs : ComdatGroup(o, h) /\ i \in MembersOf(o, h) => h = g
      /\ \A k, l \in DOMAIN ms : ms[k] = ms[l] => k = l

\* The members of group g that are to be in memory, and not behind a section that
\* pmbfd ignores.
Members(ss, o, g) ==
    LET ms == ss[g].members
        ignored(k) == \E l \in 1..k : Bogus(o, ms[l]) IN
    {ms[k] : k \in {k \in DOMAIN ms : /\ ~ignored(k) /\ ss[ms[k]].size > 0
                                      /\ "alloc" \in o.shdrs[ms[k]].flags}}

Whole(ss, o) == GroupsProper(o) =>
    \A g \in DOMAIN ss : \A i, j \in Members(ss, o, g) : Alloc(ss[i]) = Alloc(ss[j])

\* The sections of a group are loaded together or not at all, but for those
\* that are empty and those behind a section that pmbfd ignores, in a file with
\* groups like those of compilers.
GroupsWhole ==
    /\ \A m \in ToSet(mods) : m.file # None => Whole(m.sect, m.file.elf)
    /\ pc \in AfterNames => Whole(sect, obj.elf)

\* A symbol that a file defines inside one of its sections is inside that
\* section when it is loaded, whatever address the file gave to the section.
SymbolsInside ==
    \A m \in ToSet(mods) : \A i \in (IF m.file = None THEN {} ELSE DOMAIN m.file.syms) :
      LET k == m.file.elf.syms[i].shndx
          s == m.sect[k]
          offset == m.file.elf.syms[i].value - m.file.elf.shdrs[k].addr IN
      m.file.syms[i].kind = "def" /\ Alloc(s) /\ offset \in 0..(s.size - 1) =>
        bfd_asymbol_value(m.file, m.sect, m.common, i) \in Span(s.vma, s.size)

\* The sections of relocations for sections of the file.
SectionRelocs(f) == {r \in RelSections(f) : f.shdrs[r].info \in DOMAIN f.shdrs}

\* No section is loaded with a relocation for a place outside, wherever in the
\* file the relocation stands.
RelocationsApplied ==
    \A m \in ToSet(mods) : m.file # None =>
      \A r \in SectionRelocs(m.file.elf) :
        LET h == m.file.elf.shdrs[r] IN
        Alloc(m.sect[h.info]) /\ m.sect[h.info].size > 0 =>
          \A e \in h.entries :
            \/ e.off + Bytes(Cpus[Cpu][e.type]) <= m.sect[h.info].size
            \/ m.file.syms[e.sym].kind = "def" /\ ~Alloc(m.sect[m.file.syms[e.sym].sect])

-----------------------------------------------------------------------------
(* What the steps of a load rely on: the inductive invariant *)

Loading == AfterNames \cup {"attributes", "names"}

\* Whose the stream is, and that the parts of a bfd go with it.
Owned ==
    /\ pc = "idle" => held = Lost(held) /\ stream \in {"none", "closed"}
    /\ "group" \in held => pc = "idle" \/ (pc = "cleanup" /\ GroupLost(obj.elf))
    /\ pc = "open" => "stream" \in held
    /\ pc \in Loading => "bfd" \in held
    /\ "stream" \in held => "bfd" \notin held
    /\ IF "stream" \in held \/ "bfd" \in held THEN stream = "open" ELSE stream \in {"none", "closed"}
    /\ held \cap BfdOwn # {} => "bfd" \in held

\* Section s is the one that the file shows as h, perhaps dropped, at some address.
SectionOf(s, h) ==
    /\ s = [h EXCEPT !.flags = s.flags, !.vma = s.vma]
    /\ s.flags \in {h.flags, h.flags \ {"alloc"}}

\* The sections are those of the file and at most one for its commons; what is
\* loaded is not empty.
FileShown ==
    /\ pc # "idle" => obj.elf \in Objects
    /\ pc \in Loading =>
         /\ obj = ObjectOf(obj.elf) /\ SectionsFit(obj.elf) /\ MarksFit(obj.elf)
         /\ sect \in Seq(ToSet(sect))
         /\ Len(sect) = Len(obj.elf.shdrs) + (IF common = <<>> THEN 0 ELSE 1)
         /\ \A i \in DOMAIN obj.elf.shdrs : SectionOf(sect[i], elf2bfdsec(obj.elf, i))
    /\ pc \in {"attributes", "names"} => sect = Sections(obj.elf)
    /\ pc \in {"idle", "open", "attributes", "names", "symtab"} => common = <<>>
    /\ pc \in AfterNames => \A i \in DOMAIN obj.elf.shdrs : Alloc(sect[i]) => sect[i].size > 0
    /\ pc \in AfterSymtab => SymbolsFit(obj.elf)

\* The commons are in the order of their places, each aligned as far as the
\* section that is made for them is.
CommonsRight(o, ss, cs) ==
    LET dummy == ss[Len(ss)]
        align(c) == elf_get_align(o.syms[c.sym]) IN
    /\ dummy.size \in Nat /\ dummy.align \in Nat /\ 2^dummy.align \in Nat \ {0}
    /\ dummy = [name |-> ".dummy", size |-> dummy.size, align |-> dummy.align, flags |-> {"alloc"},
                members |-> <<>>, vma |-> dummy.vma]
    /\ cs \in Seq(ToSet(cs))
    /\ \A i \in DOMAIN cs : LET c == cs[i] IN
         /\ c.sym \in DOMAIN o.syms /\ o.syms[c.sym].kind \in {"com", "weakundef"}
         /\ c.off \in Nat /\ c.size \in Nat /\ c.off + c.size <= dummy.size
         /\ 2^align(c) \in Nat \ {0}
         /\ c.size > 0 => c.off % 2^align(c) = 0 /\ 2^dummy.align % 2^align(c) = 0
    /\ \A i, j \in DOMAIN cs : i < j => cs[i].sym # cs[j].sym /\ cs[i].off + cs[i].size <= cs[j].off

CommonsKept == pc \in AfterSymtab /\ common # <<>> => CommonsRight(obj, sect, common)

\* What segment k occupies.
Chunk(s, k) == IF s[k].chunk \in {None, 0} THEN {} ELSE Span(s[k].chunk, s[k].size)

\* Segments are taken with the size they need, apart from each other and from
\* those of all modules.
SegmentsTaken ==
    /\ pc \in {"open", "attributes", "names", "symtab", "count"} => seg = cexpSegsInit
    /\ pc \in {"alloc", "setvma", "reloc", "values"} =>
         /\ \A k \in DOMAIN seg :
              /\ seg[k].chunk \in {None, 0} \cup Segments[k].bases
              /\ seg[k].chunk = 0 => seg[k].size = 0
              /\ Chunk(seg, k) \cap InUse = {}
              /\ pc \in {"alloc", "setvma"} =>
                   /\ seg[k].size = Required(k)
                   /\ seg[k].vmacalc = IF seg[k].chunk \in {None, 0} THEN None ELSE seg[k].chunk
              /\ pc # "alloc" => seg[k].chunk # None
         /\ \A k, l \in DOMAIN seg : k # l => Chunk(seg, k) \cap Chunk(seg, l) = {}

\* What Finish makes of the load, as far as addresses are concerned.
Pending == [file |-> obj, sect |-> sect, seg |-> seg, common |-> common,
            frame |-> IF eh_section = 0 THEN None ELSE sect[eh_section].vma]

\* A segment without memory is empty; sections are in segments that there are.
Given(m) ==
    /\ \A k \in DOMAIN m.seg : m.seg[k].chunk # None /\ (m.seg[k].chunk = 0 => m.seg[k].size = 0)
    /\ \A i \in Loaded(m) : segOf(m.sect[i]) \in DOMAIN m.seg

Apart(m) == \A i, j \in Loaded(m) : i # j => Extent(m, i) \cap Extent(m, j) = {}

SectionsPlaced == pc \in {"reloc", "values"} => Fits(Pending) /\ Apart(Pending)

RelocationsDone == pc = "values" => \A r \in Relocs : Status(r) = "ok"

\* The first module is the system; the others keep their segments to themselves.
ModulesApart ==
    /\ mods \in Seq(ToSet(mods)) /\ Len(mods) >= 1
    /\ mods[1].file = None /\ mods[1].sect = <<>> /\ mods[1].seg = <<>> /\ mods[1].common = <<>>
    /\ mods[1].ctors = <<>> /\ mods[1].dtors = <<>>
    /\ \A m \in ToSet(mods) : Given(m) /\ Fits(m) /\ Apart(m)
    /\ \A a, b \in DOMAIN mods : \A k \in DOMAIN mods[a].seg, l \in DOMAIN mods[b].seg :
         <<a, k>> # <<b, l>> => Chunk(mods[a].seg, k) \cap Chunk(mods[b].seg, l) = {}

\* The attributes of each module are those of its file, and match those of the
\* modules before it.
AttributesKept ==
    /\ mods[1].atts # NoSet => \A i \in DOMAIN mods \ {1} : mods[i].atts = FileAttributes(mods[i].file.atts)
    /\ forced \/ \A i, j \in DOMAIN mods : i < j => pmelf_match_attribute_set(mods[i].atts, mods[j].atts)
    /\ pc \in Loading \ {"attributes"} =>
         /\ mods[1].atts # NoSet => atts = FileAttributes(obj.atts)
         /\ forced \/ Compatible(atts)

IInv ==
    /\ TypeOK /\ Owned /\ FileShown /\ CommonsKept /\ SegmentsTaken /\ SectionsPlaced /\ RelocationsDone
    /\ ModulesApart /\ AttributesKept
    /\ CommonsPlaced /\ SymbolsInside /\ InitializationOrdered

\* All that a module consists of is where its file and the linker's arithmetic
\* say, inside the memory that was taken for it and apart from everything else.
ContentsPlaced ==
    LayoutFits /\ CommonsPlaced /\ RegionInside /\ SymbolsInside /\ RelocationsApplied /\ IInv

\* Every relocation of the files' CPUs is refused or means what it should: the
\* displacement or signed value is found again and its neighbours are kept.
DisplacementsExact == loads = 0 => ExactDisplacements

\* The two halves of a split address make the address again.
HalvesRecombine == loads = 0 => RecombinedHalves

\* Only the section is patched, and only by a relocation that is not refused.
PatchesInside == loads = 0 => InsidePatches

\* Relocation of every kind the files' CPUs know is exact or refused.
RelocatorsExact == DisplacementsExact /\ HalvesRecombine /\ PatchesInside

\* The loads that do not return: the file has three Tag_Compat attributes or, in a
\* group that is loaded already, overlapping groups; it came over TFTP and strcmp
\* does not bear its name; there was no memory for the symbol table; or no symbol
\* of the file was certain to be kept.
NoReturn ==
    \/ /\ pc = "hangs"
       /\ \/ pmelf_read_attribute_set(obj.atts).err = "hangs"
          \/ ~GroupsProper(obj.elf) /\ EndlessGroup(obj.elf, sect)
    \/ /\ pc = "fault"
       /\ \/ "scratch" \in held /\ "bfd" \notin held
          \/ "st" \in held /\ "cst" \notin held
          \/ "syms" \in held /\ \A i \in DOMAIN obj.syms : ~Keeps(i)

\* Every other load that was begun returns to its caller.
LoadReturns == pc # "idle" ~> pc = "idle" \/ NoReturn

-----------------------------------------------------------------------------
(* What is assumed of files where a property needs it *)

\* Attributes of a section, in whichever subsection.
AttributesIn(section) == UNION {ToSet(s.attrs) : s \in ToSet(section)}

\* Structures are returned in one way by all that a file has to say of it: this
\* tag has no place in the table, so that a file may claim several.
StructReturnOnce ==
    \A o \in Objects : \A a, b \in AttributesIn(AttributesSection(o)) :
      a.tag = Tag_GNU_Power_ABI_Struct_Return /\ b.tag = a.tag => a.i = b.i
=============================================================================
