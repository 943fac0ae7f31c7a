--------------------------------- MODULE MCLink ---------------------------------
(***************************************************************************)
(* Instances of Link: files with what the loader treats specially.          *)
(***************************************************************************)
EXTENDS Link

\* Section headers.
S(name, size, align, flags) ==
    [name |-> name, named |-> TRUE, type |-> "PROGBITS", flags |-> flags, addr |-> 0, size |-> size,
     align |-> align, link |-> 0, info |-> 0, entsize |-> TRUE, comdat |-> FALSE, members |-> <<>>,
     entries |-> {}]
G(sig, symtab, members) ==
    [S(".group", 1, 0, {}) EXCEPT !.type = "GROUP", !.link = symtab, !.info = sig, !.comdat = TRUE,
                                  !.members = members]
R(i, entries) == [S(".rela", 1, 0, {}) EXCEPT !.type = "RELA", !.info = i, !.entries = entries]
Entry(off, sym) == [type |-> "R_PPC_ADDR32", off |-> off, sym |-> sym]

\* Symbols.
Sym(bind, shndx, value, size) ==
    [name |-> "", named |-> TRUE, bind |-> bind, shndx |-> shndx, type |-> "NOTYPE", value |-> value,
     size |-> size, ctor |-> "", pri |-> 0]
Def(s, val) == Sym("GLOBAL", s, val, 0)
Com(size, align) == Sym("GLOBAL", SHN_COMMON, align, size)
Weak == Sym("WEAK", SHN_UNDEF, 0, 0)
Ctor(c, pri) == [Def(1, 0) EXCEPT !.ctor = c, !.pri = pri]
Named(s, name) == [s EXCEPT !.name = name]

\* A file: its sections, then attributes, symbol and string table.
File(sects, syms, attributes) ==
    LET shdrs == sects \o (IF attributes = <<>> THEN <<>>
                          ELSE <<[S(".gnu.attributes", 1, 0, {}) EXCEPT !.type = "GNU_ATTRIBUTES"]>>)
        n == Len(shdrs) IN
    [magic |-> "ELF", class |-> 32, machine |-> "EM_PPC", sizes |-> TRUE, type |-> "REL",
     shstrndx |-> n + 2, syms |-> syms, atts |-> attributes,
     shdrs |-> shdrs \o <<[S(".symtab", 1, 0, {}) EXCEPT !.type = "SYMTAB", !.link = n + 2],
                         [S(".strtab", 1, 0, {}) EXCEPT !.type = "STRTAB"]>>]

Att(tag, i, s) == [tag |-> tag, i |-> i, s |-> s, fits |-> TRUE]
Gnu(attrs) == <<[fits |-> TRUE, scope |-> "file", vendor |-> "gnu", attrs |-> attrs]>>
Abi(fp, vec, ret) ==
    Gnu(<<Att(Tag_GNU_Power_ABI_FP, fp, ""), Att(Tag_GNU_Power_ABI_Vector, vec, ""),
          Att(Tag_GNU_Power_ABI_Struct_Return, ret, "")>>)
AbiC(fp, compats) == Gnu(Abi(fp, 0, 0)[1].attrs \o [i \in DOMAIN compats |-> Att(Tag_Compat, compats[i], "gnu")])

text == {"alloc", "exec"}
data == {"alloc"}
Dull == File(<<S(".text", 1, 0, text)>>, <<Def(1, 0)>>, Abi(0, 0, 0))

\* Code and data, an exception frame table between them, odd sizes.
Plain == File(<<S(".text", 5, 1, text), S(".eh_frame", 2, 1, data), S(".data", 1, 2, data),
                [S(".bss", 0, 0, data) EXCEPT !.type = "NOBITS"], R(1, {Entry(0, 2), Entry(1, 0)})>>,
              <<Def(1, 4), Def(3, 0), Sym("LOCAL", 5, 0, 0)>>, Abi(1, 0, 0))

\* Common symbols, one of them undefined and weak.
Commoner == File(<<S(".text", 1, 0, text)>>, <<Com(1, 0), Com(3, 2), Weak, Com(2, 1)>>, Abi(0, 0, 0))

\* No symbol is the file's own.
Bare == [Dull EXCEPT !.syms = <<Sym("GLOBAL", SHN_UNDEF, 0, 0)>>]

\* Two copies of a group; the second file's has a member that pmbfd ignores, and
\* the file has a linkonce section, too.
GroupA == File(<<G(1, 5, <<2, 3>>), S(".text.g", 1, 0, text), S(".rodata.g", 2, 0, data)>>,
               <<Named(Def(2, 0), "g")>>, Abi(2, 0, 0))
GroupB == File(<<G(1, 7, <<2, 3, 6>>), S(".text.g", 1, 0, text), S(".rodata.g", 2, 0, data),
                 S(".gnu.linkonce.x", 4, 0, data), R(4, {Entry(0, 1)}), R(2, {Entry(0, 1)})>>,
               <<Named(Def(2, 0), "g"), Def(4, 0)>>, <<>>)

\* The same group, which shares a member with another one.
GroupC == File(<<G(1, 6, <<3, 4>>), G(2, 6, <<4, 5>>), S(".text.g", 1, 0, text), S(".data.g", 1, 0, data),
                 S(".text.h", 1, 0, text)>>, <<Named(Def(3, 0), "g"), Named(Def(5, 0), "h")>>, <<>>)

\* Constructors and destructors; two of equal priority.
Cpp == File(<<S(".text", 2, 0, text)>>,
            <<Ctor("I", 2), Ctor("D", 1), Ctor("I", 1), Ctor("D", 2), Ctor("I", 2)>>, Abi(0, 3, 1))

\* An executable, whose section has an address, with relocations of no section.
Exec == [Dull EXCEPT !.type = "EXEC", !.shdrs[1].addr = 3, !.syms[1].value = 3,
                     !.shdrs = @ \o <<R(SHN_UNDEF, {Entry(0, 1)}), R(SHN_COMMON, {})>>]

\* What is refused: position independent code, a relocation out of its section,
\* one for a symbol that does not exist, a symbol of no section, two sections of
\* relocations or attributes, a group with a member that does not exist or that
\* is not seen, other machines and other files.
Pic == [Dull EXCEPT !.shdrs[1].name = ".got"]
Outer == [Dull EXCEPT !.shdrs = <<S(".text", 4, 0, text)>> \o Tail(@) \o <<R(1, {Entry(1, 1)})>>]
Unfit == {[Outer EXCEPT !.shdrs[5].entries = {Entry(0, 2)}],
        [Dull EXCEPT !.syms[1].shndx = 9],
        [Outer EXCEPT !.shdrs = Append(@, @[5])], [Exec EXCEPT !.shdrs = Append(@, @[5])],
        [GroupA EXCEPT !.shdrs[1].members[2] = 9],
        [Dull EXCEPT !.shdrs = Append(@, @[2])],
        [Dull EXCEPT !.machine = "EM_SPARC"], [Dull EXCEPT !.type = "CORE"],
        [Dull EXCEPT !.magic = "#!"], [Dull EXCEPT !.shdrs[3].type = "PROGBITS"]}

\* Attributes for other tool chains' flags: two are read, three are not.
Flags2 == [Dull EXCEPT !.atts = AbiC(0, <<1, 2>>)]
Flags3 == [Dull EXCEPT !.atts = AbiC(0, <<0, 0, 0>>)]

MCObjects == {Plain, Commoner, Bare, GroupA, GroupB, GroupC, Cpp, Exec, Pic, Outer, Flags2, Flags3} \cup Unfit
MCSystemAtts == {<<>>, Abi(0, 2, 0)}
MCSegments == <<[bases |-> {17, 40}], [bases |-> {65, 99}]>>
MCLawValues == {v \in 0..255 : v % 7 = 0 \/ v % 16 \in {7, 8} \/ v \in {1, 63, 64, 127, 128, 255}}
MCRegions == [start : {0, 5, 8, 29}, size : 0..12]

\* The files are as compilers make them, where a theorem assumes that.
ASSUME CompilersOK == StructReturnOnce
=============================================================================
