---------------------------------- MODULE Reloc ----------------------------------
(***************************************************************************)
(* Relocation (pmbfd/bfd-reloc-*.c): how the value of a symbol is patched   *)
(* into a section, for the five CPUs that have an implementation.  Each of  *)
(* them is described by the kinds of relocation it knows; the widths are    *)
(* parameters, so that small words can be checked completely.               *)
(*                                                                          *)
(* Numbers are mathematical integers; memory holds words modulo 2^bits.     *)
(***************************************************************************)
EXTENDS Integers

CONSTANTS
    WordBits,     \* 32
    HalfBits,     \* 16
    ByteBits,     \* 8
    BranchBits,   \* 26: a PowerPC branch target, its low bits included
    InsnBits,     \* 2: the low bits of an instruction's address
    LoBits,       \* 10: the low part of a sparc address; 22 is the high part
    AddrBits      \* 64: an address of the x86_64

ASSUME RelocWidthsOK ==
    /\ {WordBits, HalfBits, ByteBits, BranchBits, InsnBits, LoBits, AddrBits} \subseteq Nat \ {0}
    /\ 2 * HalfBits = WordBits /\ 2 * ByteBits = HalfBits /\ 2 * WordBits = AddrBits
    /\ InsnBits < BranchBits /\ BranchBits < WordBits /\ LoBits < WordBits

\* What 2^n is up to the widths that occur.
ASSUME WordPowers == 2^0 = 1 /\ \A n \in 0..AddrBits : 2^n \in Nat \ {0} /\ 2^(n + 1) = 2 * 2^n

\* What a kind of relocation does: the bits of memory it reads and writes, the
\* field of them it replaces, how far the value is shifted right first, its
\* limits, whether it is relative to its place, whether the place must be
\* aligned, whether what is there is added, and whether half a unit is added
\* before the shift ("high adjusted").
Howto(bits, width, shift, check, pcrel) ==
    [bits |-> bits, width |-> width, shift |-> shift, check |-> check, pcrel |-> pcrel,
     aligned |-> FALSE, low |-> 0, inplace |-> FALSE, adjust |-> FALSE]

Half(shift) == [Howto(HalfBits, HalfBits, shift, "none", FALSE) EXCEPT !.aligned = TRUE]
Branch(check, pcrel) ==
    [Howto(WordBits, BranchBits, 0, check, pcrel) EXCEPT !.aligned = TRUE, !.low = InsnBits]

powerpc ==
    [R_PPC_ADDR16_HA |-> [Half(HalfBits) EXCEPT !.adjust = TRUE],
     R_PPC_ADDR16_HI |-> Half(HalfBits),
     R_PPC_ADDR16_LO |-> Half(0),
     R_PPC_ADDR24    |-> Branch("bits", FALSE),
     R_PPC_REL24     |-> Branch("sign", TRUE),
     R_PPC_REL32     |-> [Howto(WordBits, WordBits, 0, "none", TRUE) EXCEPT !.aligned = TRUE],
     R_PPC_ADDR32    |-> Howto(WordBits, WordBits, 0, "none", FALSE)]

i386 ==
    [R_386_32   |-> [Howto(WordBits, WordBits, 0, "none", FALSE) EXCEPT !.inplace = TRUE],
     R_386_PC32 |-> [Howto(WordBits, WordBits, 0, "none", TRUE) EXCEPT !.inplace = TRUE]]

InPlace(bits, check, pcrel) == [Howto(bits, bits, 0, check, pcrel) EXCEPT !.inplace = TRUE]

m68k ==
    [R_68K_8  |-> InPlace(ByteBits, "bits", FALSE), R_68K_PC8  |-> InPlace(ByteBits, "sign", TRUE),
     R_68K_16 |-> InPlace(HalfBits, "bits", FALSE), R_68K_PC16 |-> InPlace(HalfBits, "sign", TRUE),
     R_68K_32 |-> InPlace(WordBits, "none", FALSE), R_68K_PC32 |-> InPlace(WordBits, "none", TRUE)]

Aligned(bits, width, shift, check, pcrel) ==
    [Howto(bits, width, shift, check, pcrel) EXCEPT !.aligned = TRUE]

\* The kinds with a 5, 6, 7, 11, 13 or 22 bit field differ from R_SPARC_10 in
\* the width alone.
sparc ==
    [R_SPARC_8       |-> Aligned(ByteBits, ByteBits, 0, "bits", FALSE),
     R_SPARC_16      |-> Aligned(HalfBits, HalfBits, 0, "bits", FALSE),
     R_SPARC_32      |-> Aligned(WordBits, WordBits, 0, "bits", FALSE),
     R_SPARC_DISP8   |-> Aligned(ByteBits, ByteBits, 0, "sign", TRUE),
     R_SPARC_DISP16  |-> Aligned(HalfBits, HalfBits, 0, "sign", TRUE),
     R_SPARC_DISP32  |-> Aligned(WordBits, WordBits, 0, "sign", TRUE),
     R_SPARC_WDISP30 |-> Aligned(WordBits, WordBits - InsnBits, InsnBits, "sign", TRUE),
     R_SPARC_WDISP22 |-> Aligned(WordBits, WordBits - LoBits, InsnBits, "sign", TRUE),
     R_SPARC_HI22    |-> Aligned(WordBits, WordBits - LoBits, LoBits, "none", FALSE),
     R_SPARC_LO10    |-> Aligned(WordBits, LoBits, 0, "none", FALSE),
     R_SPARC_10      |-> Aligned(WordBits, LoBits, 0, "bits", FALSE),
     R_SPARC_PC10    |-> Aligned(WordBits, LoBits, 0, "none", TRUE),
     R_SPARC_PC22    |-> Aligned(WordBits, WordBits - LoBits, LoBits, "bits", TRUE),
     R_SPARC_UA16    |-> Howto(HalfBits, HalfBits, 0, "bits", FALSE),
     R_SPARC_UA32    |-> Howto(WordBits, WordBits, 0, "bits", FALSE)]

\* R_X86_64_PC32 has the limits of an unsigned word.
x86_64 ==
    [R_X86_64_PC32 |-> Howto(WordBits, WordBits, 0, "bits", TRUE),
     R_X86_64_32   |-> Howto(WordBits, WordBits, 0, "bits", FALSE),
     R_X86_64_32S  |-> Howto(WordBits, WordBits, 0, "sign", FALSE),
     R_X86_64_PC64 |-> Howto(AddrBits, AddrBits, 0, "none", TRUE),
     R_X86_64_64   |-> Howto(AddrBits, AddrBits, 0, "none", FALSE)]

Cpus == [powerpc |-> powerpc, i386 |-> i386, m68k |-> m68k, sparc |-> sparc, x86_64 |-> x86_64]

-----------------------------------------------------------------------------

Signed(n, bits) == IF n % 2^bits >= 2^(bits - 1) THEN (n % 2^bits) - 2^bits ELSE n % 2^bits
Bytes(h) == h.bits \div ByteBits

\* The 32-bit CPUs compute val in a word; sparc and x86_64 do not wrap.
Val(cpu, n) == IF cpu \in {"powerpc", "i386", "m68k"} THEN Signed(n, WordBits) ELSE n

\* Mutant: the field may be twice as large.
WithinTwice(h, n) ==
    CASE h.check = "none" -> TRUE
      [] h.check = "bits" -> -(2^h.width) <= n /\ n < 2^h.width
      [] h.check = "sign" -> -(2^h.width) <= n /\ n < 2^h.width

\* lim, llim and ulim.
Within(h, n) ==
    CASE h.check = "none" -> TRUE
      [] h.check = "bits" -> -(2^h.width) <= n /\ n < 2^h.width
      [] h.check = "sign" -> -(2^(h.width - 1)) <= n /\ n < 2^(h.width - 1)

\* Mutant: the carry of the low half is forgotten.
ShiftedPlain(h, n) == n \div 2^h.shift

Shifted(h, n) ==
    (IF h.adjust /\ (n \div 2^(HalfBits - 1)) % 2 = 1 THEN n + 2^HalfBits ELSE n) \div 2^h.shift

\* The bits that replace the field: those below an instruction's address are
\* kept as they are in memory.
Patched(h, old, n) ==
    LET field == 2^h.width
        low == 2^h.low IN
    (old - (old % field)) + ((n % field) - (n % low)) + (old % low)

\* Mutant: the last place is one too far.
OutsideByOne(cpu, h, offset, size) == cpu # "sparc" /\ offset + Bytes(h) > size + 1

\* The place is not in the section; sparc does not look.
Outside(cpu, h, offset, size) == cpu # "sparc" /\ offset + Bytes(h) > size

\* pmbfd_perform_relocation: the status, and the word that is in memory then.
\* old was there, S is the value of the symbol and A the addend.
perform(cpu, type, old, vma, offset, size, S, A) ==
    LET h == Cpus[cpu][type]
        pc == vma + offset
        n0 == S + (IF h.inplace THEN (IF cpu = "m68k" THEN Signed(old, h.bits) ELSE old) ELSE 0)
                + (IF cpu = "i386" THEN 0 ELSE A) - (IF h.pcrel THEN pc ELSE 0)
        n == Val(cpu, n0)
        m == IF cpu = "sparc" THEN n \div 2^h.shift ELSE n
        fail(st) == [status |-> st, word |-> old] IN
    IF type \notin DOMAIN Cpus[cpu] THEN fail("notsupported")
    ELSE IF Outside(cpu, h, offset, size) THEN fail("outofrange")
    ELSE IF h.aligned /\ pc % Bytes(h) # 0 THEN fail("other")
    ELSE IF ~Within(h, m) THEN fail("overflow")
    ELSE IF n % 2^h.low # 0 THEN fail("other")
    ELSE [status |-> "ok",
          word |-> Patched(h, old, IF cpu = "sparc" THEN m ELSE Shifted(h, n)) % 2^h.bits]

-----------------------------------------------------------------------------
(* Laws: what the CPU finds in the patched word; Link states them of its files *)

CONSTANTS
    LawWords,     \* the words in memory for which TLC checks it
    LawValues,    \* values of symbols
    LawAddends, LawPlaces, LawSize

\* There is room for a halfword, so that an address can be split at place 0.
ASSUME LawsOK ==
    /\ LawWords \subseteq Int /\ LawValues \subseteq Int /\ LawAddends \subseteq Int
    /\ LawPlaces \subseteq Nat /\ LawSize \in Nat /\ HalfBits \div ByteBits <= LawSize

\* All relocations of one place in a section of LawSize bytes at address 0.
ForAll(P(_, _, _, _, _, _)) ==
    \A cpu \in DOMAIN Cpus : \A type \in DOMAIN Cpus[cpu] :
        \A old \in LawWords, pc \in LawPlaces, S \in LawValues, A \in LawAddends :
            P(cpu, type, old % 2^Cpus[cpu][type].bits, pc, S, A)

Done(cpu, type, old, pc, S, A) == perform(cpu, type, old, 0, pc, LawSize, S, A)

\* What the instruction or datum is to mean, before any of it is cut off.
Meant(cpu, type, old, pc, S, A) ==
    LET h == Cpus[cpu][type] IN
    S + (IF cpu = "i386" THEN old ELSE A)
      + (IF cpu = "m68k" THEN Signed(old, h.bits) ELSE 0) - (IF h.pcrel THEN pc ELSE 0)

\* A relocation that must not be cut off (a displacement, a signed value) is
\* either refused or found again by the CPU, which extends the sign of the
\* field; bits outside the field stay.  R_X86_64_PC32 is left out: its limits
\* let through displacements that are cut off.
ExactDisplacements ==
    ForAll(LAMBDA cpu, type, old, pc, S, A :
      LET h == Cpus[cpu][type]
          d == Done(cpu, type, old, pc, S, A)
          n == Meant(cpu, type, old, pc, S, A) IN
      d.status = "ok" =>
        /\ h.check = "sign" =>
             Signed(d.word, h.width) * (IF cpu = "sparc" THEN 2^h.shift ELSE 1)
               = (IF cpu = "sparc" THEN n - (n % 2^h.shift) ELSE Val(cpu, n)) + (old % 2^h.low)
        /\ h.check = "none" /\ h.shift = 0 => (d.word - n) % 2^h.width = 0
        /\ d.word \div 2^h.width = old \div 2^h.width)

\* An address that is split over two instructions is found again: the PowerPC
\* adds a signed low half to the high one, sparc ors the low bits.
RecombinedHalves ==
    \A old \in LawWords, S \in LawValues, A \in LawAddends :
      LET word(cpu, type) == Done(cpu, type, old % 2^Cpus[cpu][type].bits, 0, S, A).word
          ha == word("powerpc", "R_PPC_ADDR16_HA")
          hi == word("powerpc", "R_PPC_ADDR16_HI")
          lo == word("powerpc", "R_PPC_ADDR16_LO") IN
      /\ (ha * 2^HalfBits + Signed(lo, HalfBits) - (S + A)) % 2^WordBits = 0
      /\ (hi * 2^HalfBits + lo - (S + A)) % 2^WordBits = 0
      /\ ((word("sparc", "R_SPARC_HI22") % 2^(WordBits - LoBits)) * 2^LoBits
            + (word("sparc", "R_SPARC_LO10") % 2^LoBits) - (S + A)) % 2^WordBits = 0

\* What is patched lies in the section, and a place that is refused is left as
\* it is.  (sparc relies on the compiler for the former.)
InsidePatches ==
    ForAll(LAMBDA cpu, type, old, pc, S, A :
      LET d == Done(cpu, type, old, pc, S, A) IN
      /\ d.status = "ok" /\ cpu # "sparc" => pc + Bytes(Cpus[cpu][type]) <= LawSize
      /\ d.status # "ok" => d.word = old)
=============================================================================
