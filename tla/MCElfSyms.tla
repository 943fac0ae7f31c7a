-------------------------------- MODULE MCElfSyms --------------------------------
(***************************************************************************)
(* An instance of ElfSyms: small files and shared objects.                  *)
(***************************************************************************)
EXTENDS ElfSyms, TLC

Sym(name, bind, shndx, type, value) ==
    [name |-> name, bind |-> bind, shndx |-> shndx, type |-> type, value |-> value]
Hdr(name, type, off, size, link) ==
    [name |-> name, type |-> type, off |-> off, size |-> size, link |-> link, entsize |-> 0]

\* The header, the names of symbols and sections, the symbols, then the section
\* headers: none, names, symbols and their names.
File(syms) ==
    LET n == Len(syms)
        headers == <<Hdr("", "NULL", 0, 0, 0), Hdr(".strs", "STRTAB", 2, 1, 0),
                   [Hdr(".symtab", "SYMTAB", 3, n * SymSize, 3) EXCEPT !.entsize = SymSize],
                   Hdr(".strtab", "STRTAB", 1, 1, 0)>>
        symsAt == [p \in {3 + i * SymSize : i \in 0..(n - 1)} |-> syms[(p - 3) \div SymSize + 1]]
        shoff == 3 + n * SymSize
        shdrsAt == [p \in {shoff + i * ShdrSize : i \in 0..3} |-> headers[(p - shoff) \div ShdrSize + 1]]
        \* what the symbols are not
        filler == [p \in 0..40 |-> Sym("filler", "LOCAL", 0, "NOTYPE", 0)] IN
    [len |-> shoff + 4 * ShdrSize, ehsize |-> 1, elf |-> TRUE, shoff |-> shoff, shnum |-> 4,
     shstrndx |-> 1, at |-> shdrsAt @@ symsAt @@ filler]

Null == Sym("", "LOCAL", 0, "NOTYPE", 0)
Main == Sym("main", "GLOBAL", 1, "FUNC", 7)
Etext == Sym("etext", "GLOBAL", 1, "NOTYPE", 9)
A == Sym("a", "GLOBAL", 1, "OBJECT", 2)
Undef == Sym("b", "GLOBAL", 0, "FUNC", 0)
B == Sym("b", "WEAK", 1, "FUNC", 3)
C == Sym("c", "GLOBAL", 2, "OBJECT", 5)
BV == Sym("b@V", "GLOBAL", 1, "FUNC", 4)
Sect == Sym("", "LOCAL", 1, "SECTION", 1)

\* strcmp's order of the names, and what _cexp_namecomp finds no difference to.
MCRank == [n \in {"", "a", "b", "b@V", "c", "etext", "main"} |->
             CASE n = "" -> 0 [] n = "a" -> 1 [] n = "b" -> 2 [] n = "b@V" -> 3 [] n = "c" -> 4
               [] n = "etext" -> 5 [] n = "main" -> 6]
MCVersions == [n \in {"b@V"} |-> "b"]

Good == {File(<<Null, A, B>>), File(<<A, B>>), File(<<Null, Main, Etext>>), File(<<Null, Undef, A>>),
         File(<<Null, BV>>)}
MCFiles ==
    Good \cup {File(<<Null, Sect>>), File(<<Null, [Main EXCEPT !.value = 8], Etext>>), File(<<Main, A>>)}
      \cup {[f EXCEPT !.len = n] : f \in {File(<<Null, A, B>>)}, n \in {0, 12, 16}}
      \cup {[f EXCEPT !.elf = FALSE] : f \in {File(<<Null, A, B>>)}}
      \cup {[f EXCEPT !.at[f.shoff + 2 * ShdrSize].name = ".symbols"] : f \in {File(<<Null, A, B>>)}}

\* An object linked for address 0 and mapped at off; fixed tells whether its
\* dynamic section was.
Object(syms, off, fixed, tags) ==
    [syms |-> syms, off |-> off, tags |-> tags, load |-> {[vaddr |-> 0, memsz |-> 10]},
     symtab |-> 4 + (IF fixed THEN off ELSE 0),
     mem |-> [p \in 0..60 |-> IF p = 4 + off THEN syms ELSE [i \in DOMAIN syms |-> Null]],
     nchain |-> Len(syms), symndx |-> 1, buckets |-> <<1, 0>>,
     chain |-> [i \in 1..(Len(syms) - 1) |-> IF i = Len(syms) - 1 THEN 1 ELSE 0]]

MCObjects ==
    {Object(syms, 20, fixed, {"SYMTAB", "STRTAB", hash}) :
       syms \in {<<Null, B, C>>, <<Null, C>>}, fixed \in BOOLEAN, hash \in {"HASH", "GNU_HASH"}}
      \cup {Object(<<Null, Undef, C>>, 0, TRUE, {"SYMTAB", "STRTAB", "HASH"})}
Bare == Object(<<Null>>, 20, TRUE, {"SYMTAB"})
MCLinkMaps ==
    {<<>>} \cup {<<o>> : o \in MCObjects \cup {Bare}}
      \cup {<<o, p>> : o \in MCObjects, p \in {Bare, Object(<<Null, C, B>>, 40, FALSE, {"SYMTAB", "STRTAB", "HASH"})}}
MCOwn == [n \in {"main", "etext"} |-> IF n = "main" THEN 7 ELSE 9]

\* The objects that can be used are well made.
ASSUME LinkersOK == ObjectsLinked
=============================================================================
