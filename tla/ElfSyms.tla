--------------------------------- MODULE ElfSyms ---------------------------------
(***************************************************************************)
(* The ELF symbol file reader (elfsyms.c, elfdlmap.c, rshload.c): the       *)
(* system module's symbol table in a build without the run-time linker.     *)
(* The file comes from the disk or through rsh; its symbols and those of    *)
(* the shared objects in memory are copied into one table.  Any step may    *)
(* fail.  The order of the table and the searches are in SymTbl.            *)
(***************************************************************************)
EXTENDS Readers, FiniteSetsExt, SequencesExt

CONSTANTS
    Files,       \* files, as in Readers
    LinkMaps,    \* what dl_iterate_phdr may go through: sequences of objects
    Own,         \* this program's symbols: a function from names to values
    MainName,    \* the one that tells its symbol table
    Rank,        \* a function that tells in which order strcmp has names
    Versions,    \* names with a version: a function to the names before it
    LOAD_CHUNK,  \* rshload.c
    MaxPackets,  \* bound on what one rsh transfer consists of
    None

\* Lengths, and where sections are, are numbers.
FileOK(f) ==
    /\ f.len \in Nat /\ f.shoff \in Nat /\ f.shnum \in Nat
    /\ \A k \in 0..(f.shnum - 1) :
         LET header == f.at[f.shoff + k * ShdrSize] IN header.off \in Nat /\ header.size \in Nat

ASSUME FilesOK == None \notin Files /\ \A f \in Files : FileOK(f)
\* A name has one version at most, and comes after the name without it.
ASSUME NamesOK ==
    /\ \A n \in DOMAIN Rank : Rank[n] \in Nat /\ \A m \in DOMAIN Rank : Rank[m] = Rank[n] => m = n
    /\ \A n \in DOMAIN Versions : Versions[n] \notin DOMAIN Versions

ASSUME ChunksOK == LOAD_CHUNK \in Nat \ {0} /\ MaxPackets \in Nat

VARIABLES
    pc,        \* what comes next; "done" and "fault" are ends
    kind,      \* of the stream: "memory" or "file"
    file,      \* the file that is read
    input,     \* the buffer of rshLoad
    held,      \* what has been taken and not released, nor returned
    closed,    \* how often the file was closed
    shdrs,     \* section headers
    read,      \* the symbols read from the file
    maps,      \* link maps that were not added yet
    table,     \* the symbol table
    given      \* every symbol that was to be in it: where it is, name and value

vars == <<pc, kind, file, input, held, closed, shdrs, read, maps, table, given>>

NoInput == [size |-> 0, avail |-> 0, ptr |-> 0, ntot |-> 0, packets |-> 0]

\* room: entries that are allocated; size: entries that are known of.
NoTable == [room |-> 0, size |-> 0, ents |-> <<>>, made |-> FALSE]

Init ==
    /\ pc = "idle" /\ kind = None /\ file = None /\ input = NoInput /\ held = {} /\ closed = 0
    /\ shdrs = <<>> /\ read = <<>> /\ maps = <<>> /\ table = NoTable /\ given = {}

-----------------------------------------------------------------------------
(* Shared objects: elfdlmap.c *)

\* The last bucket that is not empty, 0 if all are.
LastBucket(buckets) ==
    LET filled == {b \in DOMAIN buckets : buckets[b] # 0} IN
    IF filled = {} THEN 0 ELSE buckets[Max(filled)]

\* Mutant: one less than the last index.
NumSymbolsLast(symndx, buckets, chain) ==
    IF LastBucket(buckets) < symndx THEN symndx
    ELSE Min({i \in DOMAIN chain : i >= LastBucket(buckets) /\ chain[i] % 2 = 1})

\* The number of dynamic symbols: the last bucket has the last chain; it goes on
\* to the entry whose bit 0 is set.
NumSymbols(symndx, buckets, chain) ==
    IF LastBucket(buckets) < symndx THEN symndx
    ELSE Min({i \in DOMAIN chain : i >= LastBucket(buckets) /\ chain[i] % 2 = 1}) + 1

\* Mutant: the end of a segment is not looked at.
UnfixedAbove(o) == \E p \in o.load : p.vaddr <= o.symtab

\* "guess if the linker has 'fixed up' the pointers in the dynamic section": a
\* pointer into a segment as it was linked was not.
Unfixed(o) == \E p \in o.load : p.vaddr <= o.symtab /\ o.symtab + SymSize < p.vaddr + p.memsz

\* Where the symbols are.
FixedUp(o) == IF Unfixed(o) THEN o.symtab + o.off ELSE o.symtab

\* The dynamic section has all that is needed.
Usable(o) == {"SYMTAB", "STRTAB"} \subseteq o.tags /\ (o.tags \cap {"HASH", "GNU_HASH"}) # {}

\* Undefined and local symbols are before the first that a GNU hash table has.
LinkMap(o) ==
    LET gnu == "GNU_HASH" \in o.tags IN
    [syms |-> o.mem[FixedUp(o)], offset |-> o.off, firstsym |-> IF gnu THEN o.symndx ELSE 0,
     nsyms |-> IF gnu THEN NumSymbols(o.symndx, o.buckets, o.chain) ELSE o.nchain]

\* The hash table tells of as many symbols as it leaves out, or more.
ASSUME LinkMapsOK ==
    \A objects \in LinkMaps :
        /\ objects \in Seq(ToSet(objects))
        /\ \A i \in DOMAIN objects : Usable(objects[i]) =>
             LET m == LinkMap(objects[i]) IN
             m.firstsym \in Nat /\ m.nsyms \in Nat /\ m.firstsym <= m.nsyms

\* A map for which there is no memory is written to all the same.
MapFault(objects) == \E i \in DOMAIN objects : \A j \in 1..i : Usable(objects[j])

\* One object that cannot be used, and there are no maps at all.
cexpLinkMapBuild(objects) ==
    IF \E i \in DOMAIN objects : ~Usable(objects[i]) THEN <<>>
    ELSE [i \in DOMAIN objects |-> LinkMap(objects[i])]

-----------------------------------------------------------------------------
(* Symbols: filter32, filter64, assign32, assign64 *)

Selected(s) ==
    s.bind # "LOCAL" /\ s.shndx # 0 /\ s.type \in {"OBJECT", "FUNC", "NOTYPE"}

\* Mutant: the type that the file has for it.
assignRaw(s, offset, store) ==
    [name |-> s.name, ptv |-> s.value + offset, store |-> store, type |-> s.type,
     flags |-> {s.bind} \cap {"GLOBAL", "WEAK"}]

\* The type is a guess, unless it is a function; store tells whose memory the
\* name is in.
assign(s, offset, store) ==
    [name |-> s.name, ptv |-> s.value + offset, store |-> store,
     type |-> CASE s.type = "FUNC" -> "TFuncP" [] s.type = "OBJECT" -> "guessed"
                [] OTHER -> "TVoid",
     flags |-> {s.bind} \cap {"GLOBAL", "WEAK"}]

symcnt(syms) == Cardinality({i \in DOMAIN syms : Selected(syms[i])})

\* Mutant: the undefined and local symbols are not left out.
MapSymbolsAll(m) == SubSeq(m.syms, 1, m.nsyms - m.firstsym)

\* elfsyms + firstsym, nsyms - firstsym of them.
MapSymbols(m) == SubSeq(m.syms, m.firstsym + 1, m.nsyms)

-----------------------------------------------------------------------------
(* Reading the file *)

\* A name that begins with ~ is loaded with rsh; else cexpSearchFile opens it.  The
\* buffer with user and command for rsh is released for a name without a / only;
\* it is written to without a look whether there is one, and the command is left
\* without an end, so that f is what the other side makes of it.
Begin(f) ==
    /\ pc = "idle"
    /\ file' = f
    /\ \/ pc' = "rsh" /\ held' = {"cmd"}
       \/ pc' = "stream" /\ held' = {"f"}
       \/ pc' \in {"cleanup", "fault"} /\ held' = {}
    /\ UNCHANGED <<kind, input, closed, shdrs, read, maps, table, given>>

\* Mutant: the buffer grows, but data go on at its begin.
GrownStart(in) == [in EXCEPT !.size = @ + LOAD_CHUNK, !.avail = @ + LOAD_CHUNK, !.ptr = 0]

Grown(in) ==
    [in EXCEPT !.size = @ + LOAD_CHUNK, !.avail = @ + LOAD_CHUNK, !.ptr = in.size - in.avail]

\* There was a buffer, and realloc has none that is larger: the old one is lost.
InputLost == input.size > 0 /\ input.avail < LOAD_CHUNK

\* handleInput: some of what the other side sent is read, or it ends, with the
\* whole file read; a timeout and an error release all, rcmd may fail before.
rshLoad ==
    /\ pc = "rsh"
    /\ LET in == IF input.avail < LOAD_CHUNK THEN Grown(input) ELSE input IN
       \/ \E got \in 1..in.avail :
            /\ in.ntot + got <= file.len /\ in.packets < MaxPackets
            /\ input' = [in EXCEPT !.ptr = @ + got, !.ntot = @ + got, !.avail = @ - got,
                                   !.packets = @ + 1]
            /\ UNCHANGED <<pc, held>>
       \/ /\ in.ntot = file.len
          /\ input' = in /\ held' = held \cup {"buf"} /\ pc' = "stream"
       \/ input' = NoInput /\ pc' = "cleanup" /\ UNCHANGED held
       \/ InputLost /\ input' = NoInput /\ pc' = "cleanup" /\ held' = held \cup {"input"}
    /\ UNCHANGED <<kind, file, closed, shdrs, read, maps, table, given>>

\* Mutant: the caller keeps the file, too.
TakenKept == {}

\* What the stream has then.
Taken == {"f"}

\* What a stream of kind k brings with it: a mapping, or what mmap returns when it
\* fails, which is taken for one.
Parts(k) ==
    IF "buf" \in held THEN {{}}
    ELSE IF k = "memory" THEN {{"mapping", "stream_f"}, {"stream_f"}} ELSE {{"stream_f"}}

\* A buffer is a stream in memory, a file is mapped, or read where it cannot be
\* mapped.  Then the stream has the file.
OpenStream ==
    /\ pc = "stream"
    /\ \/ \E k \in IF "buf" \in held THEN {"memory"} ELSE {"memory", "file"} : \E parts \in Parts(k) :
            /\ Openable(k, file)
            /\ kind' = k /\ pc' = "headers"
            /\ held' = (held \ Taken) \cup {"elf"} \cup parts
       \/ pc' = "cleanup" /\ UNCHANGED <<kind, held>>
    /\ UNCHANGED <<file, input, closed, shdrs, read, maps, table, given>>

Unmapped == kind = "memory" /\ held \cap {"mapping", "buf"} = {}

ReadHeaders ==
    /\ pc = "headers"
    /\ LET ehdr == pmelf_getehdr(kind, file)
           shtab == pmelf_getshtab(kind, file) IN
       \/ /\ ~Unmapped /\ ehdr.ok /\ shtab.ok
          /\ shdrs' = shtab.shdrs /\ held' = held \cup {"shtab"} /\ pc' = "symbols"
       \/ Unmapped /\ pc' = "fault" /\ UNCHANGED <<shdrs, held>>
       \/ pc' = "cleanup" /\ UNCHANGED <<shdrs, held>>
    /\ UNCHANGED <<kind, file, input, closed, read, maps, table, given>>

ReadSymbols ==
    /\ pc = "symbols"
    /\ LET symtab == pmelf_getsymtab(kind, file, shdrs) IN
       \/ /\ symtab.ok
          /\ read' = [i \in 1..(symtab.n \div SymSize) |-> file.at[symtab.from + (i - 1) * SymSize]]
          /\ held' = held \cup {"symtab"} /\ pc' = "maps"
       \/ pc' = "cleanup" /\ UNCHANGED <<read, held>>
    /\ UNCHANGED <<kind, file, input, closed, shdrs, maps, table, given>>

-----------------------------------------------------------------------------
(* The table *)

\* Mutant: no room for the marker.
cexpNewSymTblTight(n) == [room |-> n, size |-> n, ents |-> <<>>, made |-> TRUE]

\* One entry more than asked for, unless none was.
cexpNewSymTbl(n) ==
    [room |-> IF n = 0 THEN 0 ELSE n + 1, size |-> n, ents |-> <<>>, made |-> TRUE]

\* The table as cexpAddSymTbl leaves it: it grows if it must.
WithEntries(t, new) ==
    LET n == Len(t.ents) + Len(new)
        grows == Len(new) > t.size - Len(t.ents) IN
    [t EXCEPT !.ents = @ \o new, !.size = IF grows THEN n ELSE @, !.room = IF grows THEN n + 1 ELSE @]

\* What is copied of an array of symbols.
Entries(syms, offset, store) ==
    FoldLeft(LAMBDA ents, s : IF Selected(s) THEN Append(ents, assign(s, offset, store)) ELSE ents,
             <<>>, syms)

\* What the symbols of one place define, each with its own.
DefinedBy(where, syms, off) ==
    {[at |-> <<where, i>>, name |-> syms[i].name, ptv |-> syms[i].value + off] :
       i \in {i \in DOMAIN syms : Selected(syms[i])}}

\* All that the file and the objects define: what the table is to hold.
Defined(objects) ==
    DefinedBy(0, read, 0) \cup
      (IF cexpLinkMapBuild(objects) = <<>> THEN {}
       ELSE UNION {DefinedBy(k, objects[k].syms, objects[k].off) : k \in DOMAIN objects})

\* Without memory for the maps the build faults.  Without memory for the entries
\* the record of the table is not released.
NewTable ==
    /\ pc = "maps"
    /\ \E objects \in LinkMaps :
         LET ms == cexpLinkMapBuild(objects)
             n == FoldLeft(LAMBDA sum, m : sum + (m.nsyms - m.firstsym), symcnt(read), ms) IN
         /\ maps' = ms /\ given' = Defined(objects)
         /\ \/ table' = cexpNewSymTbl(n) /\ held' = held \cup {"lmaps", "csymt"} /\ pc' = "file"
            \/ pc' = "cleanup" /\ held' = held \cup {"lmaps"} /\ UNCHANGED table
            \/ n > 0 /\ pc' = "cleanup" /\ held' = held \cup {"lmaps", "record"} /\ UNCHANGED table
            \/ MapFault(objects) /\ pc' = "fault" /\ UNCHANGED <<held, table>>
    /\ UNCHANGED <<kind, file, input, closed, shdrs, read>>

\* Mutant: the names stay in the file's string table.
FileEntriesUncopied == Entries(read, 0, "symtab")

\* Names are copied to a string table of the symbol table's own.
FileEntries == Entries(read, 0, "own")

\* The end is marked; a table without room is a null pointer.  Without memory for
\* the names there is no table from here on, and the one there was is lost.
AddFile ==
    /\ pc = "file"
    /\ \/ /\ table.room > 0
          /\ table' = WithEntries(table, FileEntries) /\ pc' = "objects" /\ UNCHANGED held
       \/ table.room = 0 /\ pc' = "fault" /\ UNCHANGED <<table, held>>
       \/ /\ symcnt(read) > 0
          /\ table' = NoTable /\ held' = (held \ {"csymt"}) \cup {"lost"} /\ pc' = "objects"
    /\ UNCHANGED <<kind, file, input, closed, shdrs, read, maps, given>>

\* The names of an object stay where they are.  Without a table each object's is
\* a new one, which nobody gets.
AddObject ==
    /\ pc = "objects" /\ maps # <<>>
    /\ LET m == Head(maps) IN
       table' = IF table.made THEN WithEntries(table, Entries(MapSymbols(m), m.offset, "object"))
                              ELSE table
    /\ maps' = Tail(maps)
    /\ UNCHANGED <<pc, kind, file, input, held, closed, shdrs, read, given>>

\* _cexp_namecomp finds no difference between k and c, which may have a version.
SameName(k, c) == k = c \/ (c \in DOMAIN Versions /\ Versions[c] = k)

\* In the order of the names, n follows one without a version that it has, and
\* nothing but others of its versions is between them.
Redundant(names, n) ==
    \E m \in names :
      /\ m # n /\ SameName(m, n)
      /\ \A l \in names : Rank[m] < Rank[l] /\ Rank[l] < Rank[n] => SameName(m, l)

NamesOf(ents) == {ents[i].name : i \in DOMAIN ents}

\* What cexpSortSymTbl may keep: one entry of each name that is not redundant.
Distinct(ents) ==
    {kept \in SUBSET DOMAIN ents :
        /\ {ents[i].name : i \in kept} = {n \in NamesOf(ents) : ~Redundant(NamesOf(ents), n)}
        /\ \A i, j \in kept : ents[i].name = ents[j].name => i = j}

\* The entry behind the last one, with what was in its memory and the name that
\* ends the loop.
Marker == [name |-> "+%2W", ptv |-> None, store |-> "program", type |-> None, flags |-> {}]

\* The last entry is not kept, so that the one with the marker is.
LastDropped(ents) ==
    \E i \in DOMAIN ents :
      /\ \A n \in NamesOf(ents) : Rank[n] <= Rank[ents[i].name]
      /\ \/ Redundant(NamesOf(ents), ents[i].name)
         \/ \E j \in DOMAIN ents \ {i} : ents[j].name = ents[i].name

\* The tables that cexpSortSymTbl may leave, but for their order.
cexpSortSymTbl(ents) ==
    {LET q == SetToSeq(kept) IN
     [k \in DOMAIN q |-> ents[q[k]]] \o (IF LastDropped(ents) THEN <<Marker>> ELSE <<>>) :
       kept \in Distinct(ents)}

\* The program's own symbol table tells its addresses, as far as cexpSymTblLookup
\* finds them: the marker and names with versions are where bsearch expects others.
Sane(ents) ==
    LET found(n) == {i \in DOMAIN ents : SameName(n, ents[i].name)} IN
    \/ found(MainName) = {} \/ \A n \in DOMAIN Own : \E i \in found(n) : ents[i].ptv = Own[n]
    \/ Marker.name \in NamesOf(ents) \/ NamesOf(ents) \cap DOMAIN Versions # {}

\* Sort, index and "a couple of sanity checks".
Finish ==
    /\ pc = "objects" /\ maps = <<>>
    /\ \/ ~table.made /\ pc' = "fault" /\ UNCHANGED <<table, held>>
       \/ /\ table.made
          /\ \E ents \in cexpSortSymTbl(table.ents) :
               /\ table' = [table EXCEPT !.ents = ents]
               /\ \/ UNCHANGED held
                  \/ Sane(ents) /\ held' = held \ {"csymt"}
          /\ pc' = "cleanup"
    /\ UNCHANGED <<kind, file, input, closed, shdrs, read, maps, given>>

\* The end of cexpSlurpElf; deleting a stream closes its file and unmaps it, unless
\* fclose fails.
Cleanup ==
    /\ pc = "cleanup"
    /\ closed' = closed + Cardinality(held \cap {"f", "stream_f"})
    /\ \E rest \in {held \ {"lmaps", "symtab", "shtab", "elf", "stream_f", "buf", "csymt", "f"}} :
         held' \in {rest \ {"mapping"}} \cup (IF "stream_f" \in held THEN {rest} ELSE {})
    /\ table' = IF "csymt" \in held THEN NoTable ELSE table
    /\ pc' = "done"
    /\ UNCHANGED <<kind, file, input, shdrs, read, maps, given>>

Next ==
    \/ \E f \in Files : Begin(f)
    \/ rshLoad \/ OpenStream \/ ReadHeaders \/ ReadSymbols
    \/ NewTable \/ AddFile \/ AddObject \/ Finish \/ Cleanup

Spec == Init /\ [][Next]_vars

-----------------------------------------------------------------------------
(* Properties *)

\* A symbol that is neither global nor weak, if a file has one, has no flag.
EntryOK(e) ==
    \/ /\ e.store \in {"own", "object"} /\ e.type \in {"TFuncP", "guessed", "TVoid"}
       /\ e.flags \in {{}, {"GLOBAL"}, {"WEAK"}}
    \/ e = Marker

\* Whatever is taken.
Things == {"f", "stream_f", "buf", "elf", "mapping", "shtab", "symtab", "lmaps", "csymt", "lost",
           "cmd", "input", "record"}

TypeOK ==
    /\ pc \in {"idle", "rsh", "stream", "headers", "symbols", "maps", "file", "objects", "cleanup",
               "done", "fault"}
    /\ kind \in {None, "memory", "file"} /\ file \in Files \cup {None}
    /\ {input.size, input.avail, input.ptr, input.ntot} \subseteq Nat /\ closed \in Nat
    /\ held \subseteq Things
    /\ {table.room, table.size} \subseteq Nat
    /\ \A i \in DOMAIN table.ents : EntryOK(table.ents[i])

\* What rsh sends is appended to what came before, inside the buffer
\* (handleInput grows it by chunks).
InputAppended == input.ptr = input.ntot /\ input.ptr + input.avail = input.size

\* The symbols are the ones of the section that the file's header names, though
\* nothing but the stream's position tells the reader where they are
\* (pmelf_find_symhdrs leaves it there for _pmelf_getsymtab).
SymbolsRead ==
    pc = "maps" =>
      LET header(k) == file.at[file.shoff + k * ShdrSize]
          i == CHOOSE k \in 0..(file.shnum - 1) :
                 header(k).type = "SYMTAB" /\ header(k).name = ".symtab" IN
      /\ Len(read) * SymSize = header(i).size
      /\ \A k \in DOMAIN read : read[k] = file.at[header(i).off + (k - 1) * SymSize]

\* There is always room for the entry that marks the end.
MarkerFits == table.made /\ table.ents # <<>> => Len(table.ents) < table.room

\* The table that is returned has every symbol that the file or an object
\* defines, perhaps without its version, at the address where it is, and no other
\* but the marker.
AllDefined ==
    pc = "done" /\ table.made =>
      LET ents == ToSet(table.ents) IN
      /\ \A e \in ents \ {Marker} : \E g \in given : g.name = e.name /\ g.ptv = e.ptv
      /\ \A g \in given : \E e \in ents : SameName(e.name, g.name)

\* The marker is in the table only if two of its symbols have the greatest name, up
\* to a version.
MarkerLeft ==
    pc = "done" /\ Marker \in ToSet(table.ents) =>
      \E g, h \in given :
        /\ g # h /\ SameName(g.name, h.name)
        /\ \A x \in given : Rank[x.name] <= Rank[h.name]

\* From the file's bytes to the table's entries nothing is lost or invented, but
\* for the marker that the sort takes for a symbol.
SymbolsComplete == SymbolsRead /\ AllDefined /\ MarkerLeft

\* "All libelf resources are released upon return from this routine", and the
\* file is closed once, whoever has it.  What is not released is: the buffer with
\* the command for rsh; that of a transfer, for lack of memory, and then there was
\* no stream; the record of a table without memory for its entries, of which none
\* is returned; the mapping of a file that fclose reports an error for.
AllReleased ==
    pc = "done" =>
      /\ held \subseteq {"cmd", "input", "record", "mapping"} /\ closed <= 1
      /\ "cmd" \in held => closed = 0
      /\ "input" \in held => "cmd" \in held /\ kind = None
      /\ "record" \in held => ~table.made
      /\ "mapping" \in held => closed = 1 /\ kind = "memory"

\* No name of the table that is returned is in memory that was released.
NamesLive ==
    pc = "done" => \A i \in DOMAIN table.ents : table.ents[i].store \in {"own", "object", "program"}

\* Numbers and sequences, and entries whose names are not in the file.
Sized ==
    /\ file \in Files \cup {None} /\ (pc # "idle" => file \in Files)
    /\ input \in [size : Nat, avail : Nat, ptr : Nat, ntot : Nat, packets : Nat]
    /\ read \in Seq(ToSet(read)) /\ maps \in Seq(ToSet(maps))
    /\ \A i \in DOMAIN maps :
         maps[i].firstsym \in Nat /\ maps[i].nsyms \in Nat /\ maps[i].firstsym <= maps[i].nsyms
    /\ table \in [room : Nat, size : Nat, ents : {table.ents}, made : BOOLEAN]
    /\ table.ents \in Seq(ToSet(table.ents))
    /\ \A i \in DOMAIN table.ents : EntryOK(table.ents[i])

\* A table that has room has it for one entry more than it knows of.
RoomKept ==
    /\ Len(table.ents) <= table.size
    /\ table.room = table.size + 1 \/ (table.room = 0 /\ table.size = 0)

\* The file has one owner, who has not closed it yet, and is not there if rsh was
\* used; a table that is lost is one that nobody goes on with.
Owned ==
    /\ held \subseteq Things
    /\ pc = "idle" => held = {} /\ kind = None
    /\ pc = "rsh" => "cmd" \in held /\ kind = None
    /\ "f" \in held => pc \in {"stream", "cleanup"} /\ "stream_f" \notin held
    /\ "cmd" \in held => "f" \notin held /\ "stream_f" \notin held
    /\ pc = "stream" => kind = None /\ "stream_f" \notin held /\ ("buf" \in held <=> "cmd" \in held)
    /\ "mapping" \in held => kind = "memory" /\ (pc # "done" => "stream_f" \in held)
    /\ "input" \in held => pc \in {"cleanup", "done"} /\ "cmd" \in held /\ kind = None
    /\ table.made => pc \in {"file", "objects", "cleanup", "done", "fault"}
    /\ "record" \in held => pc \in {"cleanup", "done"} /\ ~table.made
    /\ "lost" \in held => pc \in {"objects", "fault"} /\ ~table.made
    /\ pc # "done" => closed = 0

\* The section headers are the ones of the file.
HeadersRead ==
    pc = "symbols" =>
      shdrs = [i \in 1..file.shnum |-> file.at[file.shoff + (i - 1) * ShdrSize]]

\* The inductive invariant of reading a file.
IInv ==
    TypeOK /\ Sized /\ InputAppended /\ RoomKept /\ Owned /\ AllReleased /\ HeadersRead /\ SymbolsRead

\* Buffers and tables are large enough for what is put in them, and what they
\* point to stays.
MemorySound == MarkerFits /\ NamesLive /\ IInv

\* A GNU hash table of the symbols first..(n - 1), with chains in the order of their
\* buckets: of tells a symbol's bucket, members what a bucket has.
Hashed(n, first, nb, of, members, buckets, chain) ==
    /\ first >= 1 /\ first <= n
    /\ of \in [first..(n - 1) -> 1..nb] /\ \A i, j \in first..(n - 1) : i < j => of[i] <= of[j]
    /\ \A b \in 1..nb : members[b] = {i \in first..(n - 1) : of[i] = b}
    /\ DOMAIN buckets = 1..nb
    /\ \A b \in 1..nb : buckets[b] = IF members[b] = {} THEN 0 ELSE Min(members[b])
    /\ DOMAIN chain = first..(n - 1)
    /\ \A i \in first..(n - 1) : chain[i] = IF i = Max(members[of[i]]) THEN 1 ELSE 0

\* An address of an object as it was linked.
Within(o, a) == \E p \in o.load : p.vaddr <= a /\ a + SymSize < p.vaddr + p.memsz

\* An object as linkers make and map it: its symbols were linked to an address a
\* and are mapped to another where nothing was linked, or where they were; its
\* hash table has all of them, or all but undefined and local ones.
Linked(o) ==
    LET n == Len(o.syms) IN
    /\ o.symtab \in Nat /\ o.off \in Nat /\ o.symndx \in Nat /\ o.syms \in Seq(ToSet(o.syms))
    /\ \E a \in {o.symtab, o.symtab - o.off} :
         /\ Within(o, a) /\ o.mem[a + o.off] = o.syms
         /\ o.symtab = a \/ o.off = 0 \/ ~Within(o, o.symtab)
    /\ IF "GNU_HASH" \notin o.tags THEN o.nchain = n
       ELSE /\ \A i \in 1..o.symndx : ~Selected(o.syms[i])
            /\ o.buckets \in Seq(Nat)
            /\ \E of \in [o.symndx..(n - 1) -> DOMAIN o.buckets] :
                 Hashed(n, o.symndx, Len(o.buckets), of,
                        [b \in DOMAIN o.buckets |-> {i \in DOMAIN of : of[i] = b}], o.buckets, o.chain)

ObjectsLinked ==
    \A objects \in LinkMaps : \A i \in DOMAIN objects : Usable(objects[i]) => Linked(objects[i])

CONSTANTS LawSymbols, LawBuckets

ASSUME HashLawsOK == LawSymbols \subseteq Nat /\ LawBuckets \subseteq Nat

\* "the number of symbols ... from the hash table": for every table that a
\* linker makes, the chains in the order of their buckets.
HashTablesCounted ==
    \A n \in LawSymbols, first \in LawSymbols, nb \in LawBuckets : first >= 1 /\ first <= n =>
      \A of \in [first..(n - 1) -> 1..nb] :
        LET members(b) == {i \in DOMAIN of : of[i] = b}
            buckets == [b \in 1..nb |-> IF members(b) = {} THEN 0 ELSE Min(members(b))]
            chain == [i \in DOMAIN of |-> IF i = Max(members(of[i])) THEN 1 ELSE 0] IN
        (\A i, j \in DOMAIN of : i < j => of[i] <= of[j]) => NumSymbols(first, buckets, chain) = n

\* The laws below what is read, evaluated once.
HashCounts == pc = "idle" => HashTablesCounted
ReadsInside == pc = "idle" => InsideSections

\* Sections are read within their bounds, and hash tables tell how many symbols
\* there are.  (Two numbers in the file are believed unchecked: where a symbol's
\* name is in the string table, and which section that table is.)
ReadersExact == HashCounts /\ ReadsInside
=============================================================================
