--------------------------------- MODULE Readers ---------------------------------
(***************************************************************************)
(* The ELF readers of the object file library (pmbfd: pmelf_...): streams,  *)
(* which hold a position, and what is read through them in a sequence of    *)
(* seeks and reads.                                                         *)
(*                                                                          *)
(* A file has a length and, at the positions where they start, headers and  *)
(* symbols.  A result has ok, the position pos where the stream is left,    *)
(* and what was read: from, the position where it was, and n, its bytes.    *)
(***************************************************************************)
EXTENDS Integers, Sequences, FiniteSets

CONSTANTS
    OffBits,     \* bits of Pmelf_Off
    MaxMalloc,   \* malloc gives no more
    ShdrSize,    \* sizes of a section header, a symbol, and a relocation
    SymSize,
    RelSize,
    WordSize     \* sizeof(Elf32_Word)

ASSUME ReadersOK ==
    /\ OffBits \in Nat /\ 2^OffBits \in Nat \ {0} /\ MaxMalloc \in 0..(2^OffBits - 1)
    /\ {ShdrSize, SymSize, RelSize, WordSize} \subseteq Nat \ {0}

Pmelf_Off == 0..(2^OffBits - 1)

Refuse(pos) == [ok |-> FALSE, pos |-> pos]

-----------------------------------------------------------------------------
(* Streams: a file, or a file's image in memory *)

\* mseek lets no one go past the end; fseek does.
pmelf_seek(kind, f, where) ==
    IF kind = "memory" /\ where >= f.len THEN Refuse(0) ELSE [ok |-> TRUE, pos |-> where]

\* mrd reads all or nothing, fread what there is; callers want all.
SREAD(kind, f, pos, n) ==
    IF pos + n > f.len THEN Refuse(IF kind = "memory" THEN pos ELSE f.len)
    ELSE [ok |-> TRUE, pos |-> pos + n, from |-> pos, n |-> n]

\* A table of n records of a size, read one by one from where the stream is.
Sequential(kind, f, pos, n, size) ==
    IF \A i \in 1..n : SREAD(kind, f, pos + (i - 1) * size, size).ok
      THEN [ok |-> TRUE, pos |-> pos + n * size, from |-> pos, n |-> n * size]
      ELSE Refuse(pos)

\* pmelf_newstrm, pmelf_memstrm, pmelf_mapstrm: an empty file cannot be mapped.
Openable(kind, f) == kind = "memory" => f.len >= 1

-----------------------------------------------------------------------------
(* Sections *)

\* Mutant: a sum that wraps around is not noticed.
OutsideUnwrapped(sh, offset, n) == (offset + n) % 2^OffBits > sh.size

\* "requested area not entirely within section"
OutsideSection(sh, offset, n) ==
    LET end == (offset + n) % 2^OffBits IN
    end < offset \/ end < n \/ end > sh.size

\* data tells that the caller has a buffer.
pmelf_getscn(kind, f, sh, data, offset, len) ==
    LET n == IF len = 0 THEN sh.size ELSE len
        at == pmelf_seek(kind, f, (sh.off + offset) % 2^OffBits) IN
    IF OutsideSection(sh, offset, n) \/ ~at.ok \/ (~data /\ n > MaxMalloc)
      THEN Refuse(at.pos) ELSE SREAD(kind, f, at.pos, n)

\* A group is a word of flags and its members.
pmelf_getgrp(kind, f, sh) ==
    IF sh.size % WordSize # 0 \/ sh.size \div WordSize < 1 THEN Refuse(0)
    ELSE pmelf_getscn(kind, f, sh, FALSE, 0, 0)

pmelf_getrel(kind, f, sh) ==
    IF sh.entsize # RelSize \/ sh.size % RelSize # 0 \/ sh.size \div RelSize < 1 THEN Refuse(0)
    ELSE pmelf_getscn(kind, f, sh, FALSE, 0, 0)

-----------------------------------------------------------------------------
(* The section headers and the symbol table *)

\* What a header or a symbol is that was read at a position.
RecordsOf(f, r, size) == [i \in 1..(r.n \div size) |-> f.at[r.from + (i - 1) * size]]

\* There must be sections, and the one with their names.
pmelf_getehdr(kind, f) ==
    LET at == SREAD(kind, f, 0, f.ehsize) IN
    IF at.ok /\ f.elf /\ (f.shnum > 0 => f.shstrndx \in 1..(f.shnum - 1)) THEN at ELSE Refuse(at.pos)

\* All headers, then the names.
pmelf_getshtab(kind, f) ==
    LET at == pmelf_seek(kind, f, f.shoff)
        table == Sequential(kind, f, at.pos, f.shnum, ShdrSize)
        headers == RecordsOf(f, table, ShdrSize)
        strs == pmelf_getscn(kind, f, headers[f.shstrndx + 1], FALSE, 0, 0) IN
    IF f.shnum = 0 \/ ~at.ok \/ ~table.ok THEN Refuse(0)
    ELSE IF ~strs.ok THEN Refuse(strs.pos)
    ELSE [ok |-> TRUE, pos |-> strs.pos, shdrs |-> headers, n |-> table.n, from |-> table.from]

Symtabs(shdrs) == {i \in DOMAIN shdrs : shdrs[i].type = "SYMTAB" /\ shdrs[i].name = ".symtab"}

\* The stream is left at the symbols.
pmelf_find_symhdrs(kind, f, shdrs) ==
    LET i == CHOOSE i \in Symtabs(shdrs) : TRUE
        at == pmelf_seek(kind, f, shdrs[i].off) IN
    IF Cardinality(Symtabs(shdrs)) # 1 \/ shdrs[i].size = 0 \/ shdrs[i].entsize \notin {0, SymSize}
       \/ shdrs[i].size % SymSize # 0 \/ ~at.ok
      THEN Refuse(0)
      ELSE [ok |-> TRUE, pos |-> at.pos, symsh |-> i, nsyms |-> shdrs[i].size \div SymSize]

\* Mutant: the names are read before the symbols.
pmelf_getsymtabNamesFirst(kind, f, shdrs) ==
    LET found == pmelf_find_symhdrs(kind, f, shdrs)
        sh == shdrs[found.symsh]
        strs == pmelf_getscn(kind, f, shdrs[sh.link + 1], FALSE, 0, 0)
        table == Sequential(kind, f, strs.pos, found.nsyms, SymSize) IN
    IF ~found.ok \/ ~strs.ok \/ ~table.ok THEN Refuse(0)
    ELSE [ok |-> TRUE, pos |-> strs.pos, n |-> table.n, from |-> table.from]

\* Where the stream was left are the symbols; then their names.
pmelf_getsymtab(kind, f, shdrs) ==
    LET found == pmelf_find_symhdrs(kind, f, shdrs)
        sh == shdrs[found.symsh]
        table == Sequential(kind, f, found.pos, found.nsyms, SymSize)
        strs == pmelf_getscn(kind, f, shdrs[sh.link + 1], FALSE, 0, 0) IN
    IF ~found.ok \/ ~table.ok \/ ~strs.ok THEN Refuse(0)
    ELSE [ok |-> TRUE, pos |-> strs.pos, n |-> table.n, from |-> table.from]

-----------------------------------------------------------------------------
(* Laws *)

CONSTANTS LawLengths, LawOffsets

ASSUME LawsOK == LawLengths \subseteq Nat /\ LawOffsets \subseteq Nat

\* What a reader of a section accepts lies inside the section and inside the
\* file, and of groups and relocations there are whole entries.
InsideSections ==
    \A kind \in {"file", "memory"}, len \in LawLengths, off \in LawOffsets, size \in Pmelf_Off :
      LET f == [len |-> len]
          sh == [off |-> off, size |-> size, entsize |-> RelSize]
          inside(r, offset) == r.ok => offset + r.n <= size /\ r.from + r.n <= len
          whole(r, entsize) == inside(r, 0) /\ (r.ok => r.n > 0 /\ r.n % entsize = 0) IN
      /\ whole(pmelf_getgrp(kind, f, sh), WordSize)
      /\ whole(pmelf_getrel(kind, f, sh), RelSize)
      /\ \A offset \in Pmelf_Off, n \in Pmelf_Off, data \in BOOLEAN :
           inside(pmelf_getscn(kind, f, sh, data, offset, n), offset)
=============================================================================
