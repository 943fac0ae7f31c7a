----------------------------------- MODULE Bfd -----------------------------------
(***************************************************************************)
(* The object file library (pmbfd/bfd.c on top of the ELF readers pmelf):   *)
(* how the sections, symbols and relocations of an ELF file become those    *)
(* the linker works with, and when a file is refused.                       *)
(*                                                                          *)
(* An ELF file is a record.  Headers have the fields of ELF; section 0 and   *)
(* symbol 0 are left out, so that indices start at 1.  What is read may end  *)
(* early at any place: Link lets each step fail.                            *)
(***************************************************************************)
EXTENDS Integers, Sequences, FiniteSets, FiniteSetsExt

CONSTANTS
    Machine,        \* myarch
    LinkOnceNames   \* names that begin with ".gnu.linkonce"

\* arches, and the machines of pmelf_getehdr.
Machines == {"EM_PPC", "EM_386", "EM_68K", "EM_X86_64", "EM_SPARC"}

SHN_UNDEF == 0
SHN_ABS == -1
SHN_COMMON == -2

\* pmelf_getehdr, getehdr32_top, getehdr64_top, and the empty section table of
\* pmelf_getshtab.
pmelf_getehdr(f) ==
    /\ f.magic = "ELF" /\ f.class \in {32, 64} /\ f.machine \in Machines /\ f.sizes
    /\ f.shstrndx \in DOMAIN f.shdrs

\* _pmelf_find_symhdrs: the one symbol table, 0 if there is none or several.
Symtabs(f) == {i \in DOMAIN f.shdrs : f.shdrs[i].type = "SYMTAB" /\ f.shdrs[i].name = ".symtab"}
symsh(f) == IF Cardinality(Symtabs(f)) = 1 THEN CHOOSE i \in Symtabs(f) : TRUE ELSE 0
pmelf_find_symhdrs(f) ==
    /\ symsh(f) # 0 /\ f.shdrs[symsh(f)].entsize
    /\ Len(f.syms) >= 1
symstrs(f) == f.shdrs[symsh(f)].link

-----------------------------------------------------------------------------
(* elf2bfdsec *)

Relocating(h) == h.type \in {"REL", "RELA"}
KnownTypes ==
    {"NULL", "PROGBITS", "NOBITS", "HASH", "NOTE", "INIT_ARRAY", "FINI_ARRAY", "PREINIT_ARRAY",
     "DYNAMIC", "DYNSYM", "GNU_HASH", "GNU_VERSION", "GNU_VERSION_R",
     "SYMTAB", "STRTAB", "REL", "RELA", "GROUP", "GNU_ATTRIBUTES"}

\* Sections that the linker does not see (SEC_BOGUS).
Bogus(f, i) ==
    LET h == f.shdrs[i] IN
    \/ h.type \in {"NULL", "SYMTAB"}
    \/ h.type = "STRTAB" /\ i \in {f.shstrndx, symstrs(f)}
    \/ Relocating(h) /\ "alloc" \notin h.flags

ComdatGroup(f, g) == f.shdrs[g].type = "GROUP" /\ f.shdrs[g].comdat
MembersOf(f, g) == {f.shdrs[g].members[k] : k \in DOMAIN f.shdrs[g].members}

\* The members of a group are sections, the ones before it not bogus.
MembersFit(f, g) ==
    f.shdrs[g].comdat => \A i \in MembersOf(f, g) :
      i \in DOMAIN f.shdrs \ {g} /\ (i < g => ~Bogus(f, i))

\* The signature of a group is a symbol of the symbol table.
SignatureFits(f, g) ==
    LET h == f.shdrs[g] IN h.link = symsh(f) /\ h.info \in DOMAIN f.syms /\ f.syms[h.info].named

AttributeSections(f) == {i \in DOMAIN f.shdrs : f.shdrs[i].type = "GNU_ATTRIBUTES"}

\* Section i does not make elf2bfdsec fail.
SectionFits(f, i) ==
    /\ f.shdrs[i].named /\ f.shdrs[i].type \in KnownTypes
    /\ f.shdrs[i].type = "GROUP" => MembersFit(f, i) /\ SignatureFits(f, i)
    /\ i \in AttributeSections(f) => \A j \in 1..(i - 1) : j \notin AttributeSections(f)

SectionsFit(f) == \A i \in DOMAIN f.shdrs : SectionFits(f, i)

\* The walk over the sections ends at a member list that does not fit, and the
\* buffer that pmelf_getgrp took for it is not freed.
GroupLost(f) ==
    \E g \in DOMAIN f.shdrs :
      /\ f.shdrs[g].type = "GROUP" /\ f.shdrs[g].named /\ ~MembersFit(f, g)
      /\ \A i \in 1..(g - 1) : SectionFits(f, i)

\* A group is named after its signature, unless that is a section symbol without
\* a name ("apparently, ld -r puts the group name into the section name").
SectionName(f, i) ==
    LET h == f.shdrs[i]
        s == f.syms[h.info] IN
    IF h.type = "GROUP" /\ ~(s.name = "" /\ s.type = "SECTION") THEN s.name ELSE h.name

\* grp_next is set: a member of a group that comes before it.
InEarlierGroup(f, i) == \E g \in 1..(i - 1) : ComdatGroup(f, g) /\ i \in MembersOf(f, g)

\* grp_next, 0 where it is not set.  Each group closes a ring through itself and
\* its members; of several groups that a section is in, or places it has in one,
\* the last is what counts, so that rings of overlapping groups run together.
grp_next(f, i) ==
    LET gs == {g \in DOMAIN f.shdrs : ComdatGroup(f, g) /\ i \in {g} \cup MembersOf(f, g)}
        g == Max(gs)
        ms == f.shdrs[g].members
        at == IF i = g THEN 0 ELSE Max({k \in DOMAIN ms : ms[k] = i}) IN
    IF gs = {} THEN 0 ELSE IF at = Len(ms) THEN g ELSE ms[at + 1]

\* 0 for a section that the linker does not see.  (One of no group is followed by
\* *UND*, section 0, which follows itself.)
elf_next_in_group(f) == [i \in 0..Len(f.shdrs) |->
    LET n == grp_next(f, i) IN IF n = 0 \/ Bogus(f, n) THEN 0 ELSE n]

Flags(f, i) ==
    LET h == f.shdrs[i] IN
    IF Bogus(f, i) THEN {"bogus"}
    ELSE {x \in {"alloc", "code", "contents", "group", "linkonce"} :
           CASE x = "alloc" -> "alloc" \in h.flags
             [] x = "code" -> "exec" \in h.flags
             [] x = "contents" -> h.type # "NOBITS"
             [] x = "group" -> h.type = "GROUP"
             [] x = "linkonce" ->
                  \/ h.type = "GROUP" /\ h.comdat
                  \/ h.name \in LinkOnceNames /\ ~InEarlierGroup(f, i)}

elf2bfdsec(f, i) ==
    LET h == f.shdrs[i] IN
    [name |-> SectionName(f, i), size |-> h.size, align |-> h.align, flags |-> Flags(f, i),
     members |-> IF ComdatGroup(f, i) THEN h.members ELSE <<>>, vma |-> h.addr]

Sections(f) == [i \in DOMAIN f.shdrs |-> elf2bfdsec(f, i)]

-----------------------------------------------------------------------------
(* Relocations *)

RelSections(f) == {i \in DOMAIN f.shdrs : Relocating(f.shdrs[i])}

\* Mutant: the last section header is not looked at.
mark_relocsShort(f) == [i \in DOMAIN f.shdrs |->
    {r \in RelSections(f) \ {Len(f.shdrs)} : f.shdrs[r].info = i}]

\* The sections with relocations for a section; one that refuses has several, or
\* none that the linker sees.
mark_relocs(f) == [i \in DOMAIN f.shdrs |-> {r \in RelSections(f) : f.shdrs[r].info = i}]

\* *UND*, *ABS* and *COM* are sections, too, and their relocations are never read.
\* (Nothing takes the mark off them again when the file is closed, so that the
\* library refuses such relocations in a later file; Open may refuse any file.)
MarksFit(f) ==
    /\ \A r \in RelSections(f) : LET i == f.shdrs[r].info IN
         i \in {SHN_UNDEF, SHN_ABS, SHN_COMMON} \/ (i \in DOMAIN f.shdrs /\ ~Bogus(f, i))
    /\ \A i \in DOMAIN f.shdrs : Cardinality(mark_relocs(f)[i]) <= 1
    /\ \A i \in {SHN_UNDEF, SHN_ABS, SHN_COMMON} :
         Cardinality({r \in RelSections(f) : f.shdrs[r].info = i}) <= 1

\* get_reloc_sec, bfd_get_reloc_upper_bound: entries of the right size, and at
\* least one.
RelocsFit(f, i) ==
    \A r \in mark_relocs(f)[i] : f.shdrs[r].entsize /\ f.shdrs[r].entries # {}

\* pmbfd_canonicalize_reloc and pmbfd_reloc_get_sym_idx.
Relocations(f, i) ==
    UNION {{[sect |-> i, type |-> e.type, off |-> e.off, sym |-> e.sym] : e \in f.shdrs[r].entries} :
             r \in mark_relocs(f)[i]}
SymbolIndexFits(f, r) == r.sym \in 0..Len(f.syms)

-----------------------------------------------------------------------------
(* Symbols *)

\* A section, or one of the sections that every bfd has.
SectionExists(f, ndx) == ndx \in DOMAIN f.shdrs \cup {SHN_UNDEF, SHN_ABS, SHN_COMMON}

SymbolsFit(f) == \A i \in DOMAIN f.syms : f.syms[i].named /\ SectionExists(f, f.syms[i].shndx)

\* Mutant: the section's address is not taken out of the value.
SymbolValuePlain(f, s) == s.value

\* "if the section already has a vma recalculate the offset"
SymbolValue(f, s) == s.value - (IF s.shndx \in DOMAIN f.shdrs THEN f.shdrs[s.shndx].addr ELSE 0)

\* Where a symbol is; symbols of sections that the linker does not see are
\* absolute.
SymbolSection(f, s) ==
    IF s.shndx \in DOMAIN f.shdrs /\ Bogus(f, s.shndx) THEN SHN_ABS ELSE s.shndx

SymbolKind(f, s) ==
    LET x == SymbolSection(f, s) IN
    CASE x = SHN_COMMON -> "com"
      [] x = SHN_ABS -> "abs"
      [] x = SHN_UNDEF -> IF s.bind = "WEAK" THEN "weakundef" ELSE "undef"
      [] OTHER -> "def"

\* bfd_canonicalize_symtab; what makes a symbol a constructor is its name.
bfd_canonicalize_symtab(f) ==
    [i \in DOMAIN f.syms |-> LET s == f.syms[i] IN
       [kind |-> SymbolKind(f, s), sect |-> SymbolSection(f, s), val |-> SymbolValue(f, s),
        size |-> s.size, align |-> IF s.shndx = SHN_COMMON THEN s.value ELSE 0,
        ctor |-> s.ctor, pri |-> s.pri]]

-----------------------------------------------------------------------------
(* The one descriptor, thebfd *)

\* What bfd_openstreamr takes, in its order, and make_section and symget later.
\* (The buffer of GroupLost is not the bfd's: nothing refers to it any more.)
BfdParts == <<"strm", "shtab", "strs", "strtabs", "sects">>
BfdOwn == {BfdParts[i] : i \in DOMAIN BfdParts} \cup {"syms", "symchunks"}

\* The parts that may be there when it fails; a file that does not fit gets no
\* further than to the check it does not pass.
MaxParts(f) ==
    IF ~pmelf_getehdr(f) THEN 1
    ELSE IF ~pmelf_find_symhdrs(f) THEN 2
    ELSE IF ~SectionsFit(f) \/ ~MarksFit(f) THEN 5
    ELSE 6

FirstParts(n) == {BfdParts[i] : i \in 1..n}

\* bfd_cleanup
bfd_cleanup(h) == h \ BfdOwn

Closed(s) == IF s = "open" THEN "closed" ELSE "closed twice"

\* Mutant: the stream is always closed.
pmelf_delstrmAlways(s, noclose) == Closed(s)

\* pmelf_delstrm
pmelf_delstrm(s, noclose) == IF noclose THEN s ELSE Closed(s)

\* bfd_check_format, bfd_scan_arch
Accepted(f) == f.type \in {"REL", "EXEC"} /\ f.machine = Machine

\* pmbfd_get_file_attributes
AttributesSection(f) == IF AttributeSections(f) = {} THEN <<>> ELSE f.atts
=============================================================================
