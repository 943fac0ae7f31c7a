# Verification of CEXP

CEXP is a shell for embedded systems (RTEMS first of all) that looks up symbols
in the running program, evaluates C expressions on them, and loads and links
object files at run time. This directory holds TLA+ models of its core, the TLC
runs that check them on small instances, and TLAPS proofs. `PROJECT.json` says
which lines of the source every definition models, and lists runs, mutants,
hazards, findings and theorems.

## The system

| part | source | state | operations | what makes it correct |
|---|---|---|---|---|
| readers/writer lock | `cexplock.h` | recursive mutex, count of readers, event, count of sleeping writers | read/write lock and unlock | a writer is alone; a nested read lock of the writer works; nobody sleeps for ever |
| module manager | `cexpmod.c` | list of modules, ids, dependency bitmaps, handles of iterations | load, unload, look up by name, address, expression | no reference into a module that is gone; every record has an owner |
| run-time linker | `bfdstuff.c` | link data of one load, under the write lock | resolve, lay out, relocate, build constructor lists | what is bound has a bit in the bitmap; errors leave nothing behind |
| segments | `cexpsegs*.c` | memory of a module | allocate, release | all or nothing |
| symbol tables | `cexpsyms.c` | entries by name, index by address | add, sort, index, search | sorted, no duplicates, everything is found |
| variables | `vars.c` | sorted list on the heap, string table, walk counter | look up or create, delete, flush, walk | sorted, no record lost or released twice |
| shell | `cexp.c`, `context.h` | per thread a stack of instances, stacks of scripts | start, source, read, evaluate, kill, clean up | an instance gives its caller everything back |
| parser context, redirection | `cexp.y` | saved streams, strings of the line | redirect, undo | undone always |
| evaluator | `cexp.y` | bison's stack, inhibit bits, strings of the line | reductions, one per rule | skipped operands have no effect; a line leaves nothing to the next |
| type engine | `ctyps.c` | typed values | conversions, operators, calls | C's widths; what is passed is what the callee reads |
| object files | `pmbfd/` | streams, sections, groups, relocations, attribute sets | read and convert ELF, relocate, match | bounds, ownership, exact values |
| symbol file reader | `elfsyms.c`, `elfdlmap.c`, `rshload.c` | one table in the making, and all it is made of | load, read, merge, check | complete, and what was taken is released |

A shell (one per thread, possibly nested: an expression may call `cexpsh`)
parses lines; the lexer looks names up in the tables of the modules, under the
read lock, and among the variables, under theirs. Calls of `cexpModuleLoad` and
`cexpModuleUnload` from expressions run the linker under the write lock,
and with it constructors and initializers, which may call back. Faults in called
code are turned into a `longjmp` to the innermost shell of the thread.

What is hard, and what the hazards in `PROJECT.json` list at their lines:
wakeups between writers and readers; the recursive lock across nested calls;
long sequences of loads and unloads that reuse ids and addresses; calls back
from module code; work before a lock is taken and after it is given up; the
second of two steps failing; faults in the middle of anything; the boundaries
of the loops over tables; handles that outlive what they point to; the
ownership of files and streams on error paths; limits of fields and the
wrap-around of offsets; and what an error leaves in the evaluator.

## Modules

* **RWLock**: the lock of `cexplock.h` as built without pthreads. Every statement
  of the four routines is an action; the mutex (owner, depth) and the event (full
  or not, queue) are the RTEMS semaphores. A thread never asks for the write lock
  while it reads (the comment in the source forbids it). **AbstractRWLock** is
  what the lock promises; `LockSpec` in RWLock instantiates it with the
  identity mapping on `held` and `writing`.
* **PthreadRWLock**: the macros of the POSIX build. `rdlock`, `wrlock` and `unlock`
  are external, with glibc's behaviour: a `rdlock` by the thread that has the
  write lock fails, and an `unlock` gives back whatever is held.
* **Modules**: `cexpModuleLoad`, `cexpModuleUnload`, `cexpModuleFree`, id allocation,
  and symbol resolution. Each part of a call that runs under the write lock
  without calling module code is one action; the steps outside it interleave. A
  file is a record of its global symbols with their kinds and sizes, the ones its
  relocations use, and whether it has a finalizer. Names, bindings and bitmaps are
  sets; `live` is the heap. `Nested` lets constructors and destructors call the loader.
* **Shell**: `cexp_main1`, `process_script`, `cexp_kill`, `cexpRedir`, `cexpUnredir`,
  `cexpparse`, in one thread (stdio streams belong to a thread on RTEMS, as the
  README says). Streams are values, `open` the set that is open, `term` what
  `redir_cb` last told the line editor, `lost` the scripts whose stack frame is
  gone, `spoilt` a history of whether a stream in use was ever closed. `entry` in an instance remembers the streams it was started with; no
  action reads it. A line is a choice of redirectors and outcomes.
* **Vars**: the linked list of `vars.c` with its links, names and heap. A section
  under `_varlock` is one action. With `FlushAlone`
  nobody else uses variables while a thread is in `cexpVarsFlush`.
* **SymTbl**: `cexpAddSymTbl` (one symbol at a time), `cexpSortSymTbl` with its loop
  step by step, `cexpIndexSymTbl`, and the two binary searches as recursive
  functions. Names are short sequences of characters because the comparison of
  versioned names is the point; `qsort` (any order of equal elements) and
  `bsearch` are external.
* **Lookup** extends SymTbl: a complete table becomes a module of the list, and
  modules go; over the list run the search by address (`cexpSymLkAddrRange`, its
  array and both its loops), the search by expression that `lkup` continues page by page,
  and `cexpModIterate`. A table is kept with all the entries that a walk to the null name
  meets: the `n` symbols, and behind them what the sort has left there (`last`). Each search has the read lock and is one action, but for
  `ReadHandle`: what `_cexpSymLookupRegex` reads of the handle before it locks.
  `born` tells apart modules whose records had the same address; the code cannot.
* **Types**: the type engine. Integers have the width of their type, with small
  widths in the instances; a floating point value is a whole number that
  fits the mantissa, or `Inexact`. Operators return the set of outcomes, with
  several where C leaves the result undefined.
* **Eval** extends Types: each rule of the grammar with an effect is an action on
  bison's stack. The actions follow each other as in an expression with a parenthesis
  around every operand, so precedence is left out and every tree is built. `clean` is a
  history of which values were made by rules that were inhibited.
* **Link**: `cexpLoadFile` of the run-time linker, one action for each of its stages
  (search, open, attributes, names, symbol table, counting, allocation, addresses,
  relocation, values, cleanup), each of which may fail, with `cexpsegs*.c`. The modules that are
  loaded and unloaded around it are kept as far as layout and attributes are concerned; which symbol a name
  is bound to is in Modules. It composes **Bfd** (ELF files as pmbfd shows them:
  sections, groups and the links between their members, marks of relocation sections, symbols, partial opening),
  **Attributes** (reading and matching of attribute sets), and **Reloc** (the five
  `pmbfd_perform_relocation`s, as one interpreter of a table of kinds per CPU with
  small words).
* **Readers**: the `pmelf` readers on a stream with a position, in memory or in
  a file. **ElfSyms** extends it: `cexpSlurpElf` from rsh or file to table, with
  `handleInput`'s buffer, the shared objects of `elfdlmap.c`, and who owns the file,
  the buffers, the mapping, the tables and the names. Names are values here; `Rank` is strcmp's
  order of them and `Versions` tells which has a version. The sort is one step, with what the loop
  of SymTbl can leave: one of the entries that compare equal, and the marker as a symbol when the last
  entry is dropped. (As in SymTbl, `qsort` orders by that comparison; that it compares left to right as a
  merge sort does is assumed where a name stands beside its versions.)

A run names a property for each thing it asks. Where that has several parts the
property is their conjunction, stated at the end of the module, and the parts have names
of their own: `WellFormed`, `DependenciesAgree`, `RecordsOwned`,
`AddressesFound`, `EngineExact`, `TakenReturned`, `ContentsPlaced`, `RelocatorsExact`,
`SymbolsComplete`, `MemorySound`, `ReadersExact`, `EverybodyGetsIn`. `IInv` is the
inductive invariant of a module; the runs of RWLock, Modules, Shell, Vars and Lookup check it, with what
it contains (types, `WellFormed` of Modules and Vars, `StreamsFollowed`, `StaleRefused`, `TableInv`), that of
ElfSyms within `MemorySound`, that of Link within `ContentsPlaced`, and that of Eval as its parts `WellFormed` and `CleanResults`.

The proofs about a module are in a module of its own that extends it: **RWLockProofs**,
**ModulesProofs**, **ShellProofs**, **VarsProofs**, **LookupProofs** (for SymTbl, too), **ElfSymsProofs**,
**LinkProofs** and **EvalProofs** (for Types, too).

The operators marked "Mutant" are plausible mistakes; each replaces one
definition to show that a property would notice. A conjunction has one for most
of its parts.

## Runs

| run | shows |
|---|---|
| `RWLockSafety` | one reader and two writers, three requests each, read locks nested twice: exclusion, refinement of the abstract lock, the inductive invariant. The run may stop, since a writer can be stranded (below). |
| `RWLockOneWriter` | two readers and one writer: no wakeup is lost; writer and readers get in. |
| `RWLockTwoWriters` | **violation**: of two sleeping writers one is never woken. |
| `PthreadNested` | **violation**: a nested read unlock releases the write lock. |
| `ModulesSafety` | two threads, four files that meet every kind of symbol in both orders, four records: references, bitmaps, ids, list order, memory. |
| `ModulesNested` | **violation**: a module loaded by an initializer drops out of the list. |
| `ShellSafety` | two nested instances, scripts two deep, three files, any redirection failing, kills: streams, messages and the line editor are restored, nested instances are transparent, no file is forgotten, and only a line whose second redirection fails closes a stream in use. |
| `VarsShared` | two threads, three names, four records: order, memory, walks, flushes while nobody else is at it. |
| `SymTblSearch` | tables of up to four symbols `a`, `a@b`, `aa` at three addresses whose greatest name is not duplicated, up to three modules with four symbols in all, three record addresses (symmetric): order, completeness, searches by name and by address in a table and over all; pages of two and three lines and listings that come to every place up to each table's null name once (behind a table's symbols these repeat names of it); stale handles. |
| `Eval` | six reductions or lines over a variable, a user variable, a function and numbers with one-bit chars and two inhibit bits: inhibition agrees with C's sequence, skipped operands do nothing, lines are independent; laws of the type engine for all values of its small types. |
| `Link` | two loads of 22 files (code, data, commons, groups, overlapping groups and linkonce sections, constructors, attributes, executables, a file without a symbol of its own, and damaged ones), every step may fail: layout, alignment, ownership, order, ABI, groups; laws of the five relocators; every load returns but for the ends in `NoReturn`. |
| `ElfSyms` | files with 2 or 3 symbols, one with a version, sound, truncated and damaged, up to two objects with either hash table, fixed up or not, which may define the greatest name twice; transfers of up to four packets: the right symbols, room, completeness, when the marker becomes a symbol, ownership and what leaks; laws of the bounds of sections and of hash tables. |

The bounds. The lock distinguishes no reader, one and more, and so do the
nesting of read locks and the number of requests: two of each and a third
request let a writer return after it has been woken. For modules, three beside
the system table give chains and diamonds of dependencies, and four ids force
their reuse. For the shell, a nested instance is transparent or not to its
caller whatever called that; two levels of scripts are one below and one at the
limit. Three variables give a first, a middle and a last element, four records
a spare one that is reused. Four symbols reach the middle, both ends and runs
of duplicates in front of a unique last name; spread over three modules they make a first,
a middle and a last one, with a page that ends in each, and three loads at three
addresses let an address be used again. Six reductions complete `a && b`, `a || b` and nests
of them with a call or an assignment in the skipped part, an error, and the next line.
Two loads are what it takes to compare one file with another; a third would add only
repetition. The widths of Reloc keep the proportions of the code's (a half is half a word, a
branch loses the low bits of an instruction), so that every value, sign and carry of a
word occurs.

`CHECK_DEADLOCK FALSE` is set for `RWLockSafety` and `RWLockTwoWriters` (the
stranded writer), for `Link`, `Eval` and `ElfSyms`, which end when their bounded
loads, lines or the one table are done, and for `SymTblSearch`, where a sort may
end in a state with nothing left to do.

Fairness. `FairSpec` of RWLock assumes that a thread inside a lock routine goes on
and that a lock is given back. It is strong because the mutex is handed to
waiters by priority: one that is free again and again is not withheld. Requests
are bounded by `MaxCalls`, so what is shown is that nobody is forgotten, not that
an endless stream of readers lets a writer in: the code does not promise that,
since `cexpReadLock` does not look at sleeping writers. `Spec` of Link assumes weak
fairness of `LoadStep`, the next stage of a load: it runs in the caller's thread under the
write lock and waits for nobody. `LoadReturns` excepts five ends that are in the
code and in the model (`NoReturn`; below): the loop of a third compatibility attribute, the walk
over overlapping groups when one of them is dropped, the comparison with a null file name, the values of a symbol
table for which there was no memory, and the null name of a table for no symbol.

## Findings

Each violation run has an entry under `findings` with the line at fault and the
comment or document it contradicts. The lock with two writers and the POSIX build's
nested read lock affect ordinary use; the third needs a call from an initializer.

Other deviations met while modelling; no run is devoted to them. Each bullet says where it is in
a model, or which constant or assumption keeps a model away from it, and which property excepts it. The
ones under "Outside the models" are in no model.

Modules and shell:

* When the last entries of a sorted symbol table compare equal, the loop that drops duplicates
  (`cexpsyms.c:228-241`) runs up to the marker at the end and copies it into the table as
  a symbol, against `cexpsyms.c:217-218`. `LastUnique` in SymTbl leaves out the tables whose greatest
  name, with or without a version, is there more than once. ElfSyms has them: `AllDefined` excepts the marker
  and `MarkerLeft` says when it is there.
* The sort shortens `nentries` but leaves the entries behind it (`cexpsyms.c:240-245`), and the searches by
  expression go on to the null name (`cexpsyms.c:147`, `cexpmod.c:364` and `386`): with symbols a, b, b, c
  the pages of `lkup` print c twice. Lookup walks the same way; `SearchComplete` is about places up to the
  null name, and `TailsRepeat` says that those behind a table's symbols repeat names of it.
* `cexpVarsFlush` reads `gblList.head.p` (`vars.c:187`) before it has the lock: a record
  that another thread deletes meanwhile is released twice. `FlushAlone` leaves that out.
* When the output file of a line with two redirectors cannot be opened, `cexpRedir`
  (`cexp.y:1103`) closes the input file and leaves `ctx->o_stdin` set; `cexpUnredir` then
  closes the original stdin. `StreamsStayOpen` shows that this is the only way in which a
  stream in use is closed.
* `cexpModuleFree` reads `mod->fileAttributes` (`cexpmod.c:966`) after `free(mod)`: in Modules the record's memory may belong to another load
  by then (`FreeAttributes`). No property is about attribute sets there.
* `idAlloc` (`cexpmod.c:695`) stops when it is back at the id it started from and
  never tries that one, so a load may be refused while an id is free (`FreeIds` in Modules). No property says that loads succeed.
* `cexp_kill` leaves the frame of `process_script`; the scripts it had open stay
  open (`lost` in Shell; `FilesAccounted` excepts them). `cexp.h:356` speaks of cleaning up.
* `_cexp_namecomp` (`cexpsyms.c:97`) does not agree with the order it sorts by when a
  name continues with a character below `@`: beside `a0` and `a00`, `a@b` is not
  found as `a`. `SymTblSearch` uses names without such characters (`Unshadowed`).
* `cexpSymLkAddrRange` never gives the lowest symbol of a module for an address below
  it: the upper loop starts at `cli+1`, and `cli` is 0 then. `AddressClosest` excepts it.
* `modIsStale` compares addresses: a handle passes when another module's record
  has the address (`StaleRefused` excepts that), and `_cexpSymLookupRegex` reads through the handle
  before it has the lock. A page may be a line too long when a second module's
  header is the last line: `LookupRegex` has such pages, and no property is about their length. `lkup` has a TODO about it (`cexp.c:350`).

Evaluator and types:

* An operand that is skipped is still computed (the reductions of Eval do so): `0 && 1/0` divides, where
  `README:180-184` describes the operators as C's. `SkippedNoEffect` is about effects on memory
  and calls.
* `evalInhibit` has the bits of a long; the 33rd or 65th nested `&&` shifts the outermost out
  (`lost` in Eval; `InhibitAgrees` and `SkippedNoEffect` are about the time before).

Linker and object files:

* A third `Tag_Compat` attribute makes the insertion of `attpbfasread.c` loop for ever; a second one
  is put in front, where the comment says append. Attributes has the loop (`Stuck`), and `LoadReturns` excepts it;
  the order of two does not count in any property.
* A file that comes over TFTP is copied to a scratch file, for which
  `cexpSearchFile` leaves `*pfullname` null: it goes to `strcmp`, and the scratch file is
  never unlinked. `Search` of Link has both; `LoadReturns` and `ResourcesReturned` except them.
* `Tag_GNU_Power_ABI_Struct_Return` is 12 and `max_tag` is 10 (`att-gnu-powerpc.c:364`), so that this tag is kept in
  the list, which may hold it twice; then only the last one is compared. `StructReturnOnce` leaves out files that contradict themselves so.
* A section that pmbfd ignores (a relocation section that is not loaded) breaks the ring of its group: members
  behind it are not eliminated (`bfdstuff.c:671`). Bfd has it (`elf_next_in_group`), and `GroupsWhole` excepts those members.
* Groups that share a section, or contain each other, run their rings together (`bfd.c:1122`); when one of them is
  loaded already, the walk that drops it may never be back where it began (`bfdstuff.c:672-679`). Link
  has it as the end `hangs`; `LoadReturns` excepts it, and `GroupsWhole` is about files without such groups (`GroupsProper`).
* `elf2bfdsec` does not free the buffer of a group when a member does not exist or is not seen (`bfd.c:1116-1126`).
  The buffer is `"group"` in `held` of Link; `ResourcesReturned` excepts it, for files with such a group (`GroupLost`).
* `slurp_symtab` does not look whether `cexpCreateSymTbl` had memory (`bfdstuff.c:1430`); after relocation the null
  pointer is followed (`bfdstuff.c:462`). A file of which no symbol is kept has a table of size 0, and its null name is
  written through a null pointer (`cexpsyms.c:339`). Both are ends `fault` of Link, which `LoadReturns` excepts.
* A relocation section for `*UND*`, `*ABS*` or `*COM*` is accepted once, and never read (`bfd.c:1283-1308`; `MarksFit`);
  the mark stays, so that later files with one are refused. Link lets any file be refused, so that it has more
  behaviours here than the code, not fewer.
* A weak undefined symbol gets an address in the `.dummy` section, where
  `README:682-686` speaks of a new NULL symbol. Link has it so (`CommonSize`).
* `R_X86_64_PC32` is checked against the limits of an unsigned word (so it is in Reloc, and `DisplacementsExact`
  leaves it out); the sparc code does not check that the place is inside the section and compares `type` with the size of its table in bytes
  (`bfd-reloc-sparc.c`). `PatchesInside` leaves sparc out.
* `pmelf_getrel` swaps 64-bit words and then swaps them again as 32-bit words
  (`getrel.c:110-119`): byte order is in no model. `ctor_cmp` compares the places of equal elements, which
  `qsort` moves: `ByPriority` has every order of equal ones.

Symbol file reader:

* When the names of the file find no memory, `cexpAddSymTbl` returns null: the table
  is lost, each object's table too, and `cexpSortSymTbl` is called with null. A file and objects
  without any symbol make a table of size 0, whose marker is written through null. A link map without memory is
  written to (`elfdlmap.c:259-260`), as is the command for rsh (`elfsyms.c:298`). All
  are the state `fault` of ElfSyms.
* Four things are not released: the command for rsh, once `rshLoad` was called (`elfsyms.c:298-314`); the buffer of
  a transfer when `realloc` fails (`rshload.c:148`); the record of a table without memory for its entries
  (`cexpsyms.c:196-200`); and the mapping of a file when `fclose` fails (`mstrm.c:103-111`). They are
  `cmd`, `input`, `record` and `mapping` in `held`, and `AllReleased` says in which case each of them stays.
* A failing `mmap` is taken for a mapping (`mstrm.c:160-165` compares with 0): ElfSyms goes on with a stream that
  has none, and may end in `fault` at the first read.
* Of two symbols whose names differ by a version only one may stay, the one without (`SameName`), and the checks at the
  end of `cexpSlurpElf` may find the program's symbols or not when the marker or versions disturb `bsearch` (`Sane`).
* One object that cannot be used drops the link maps of all; one that is mapped over its
  own link-time addresses is taken for not fixed up. ElfSyms has both (`cexpLinkMapBuild`, `Unfixed`); the run's objects and
  `TableIsComplete` leave the second out (`ObjectsLinked`).

Outside the models:

* With option `-I`, `cexp_kill(CEXP_MAIN_KILLED)` resumes at the prompt once
  (`cexp.c:1014`), where `cexp.h:354-357` says that the shell will return.
* In `cexp_main1`, `line` is assigned after `setjmp` without being volatile, so the
  `free(line)` after a `longjmp` (`cexp.c:1010`) frees an indeterminate value; and when
  `cexpCreateParserCtx` fails, the cleanup passes a null pointer to
  `cexpFreeParserCtx`, which follows it. Shell has no lines and no lack of memory.
* `_cexpSymTblLookupRegex` (`cexpsyms.c:156`) does not return a match that is the last
  symbol of its table, so a help table that is the last symbol of a module is not
  added (`cexpmod.c:879-889`).
* Of a subsection of attributes only the first sub-subsection is read, and a uleb128 of more than five bytes shifts by 32
  or more (`attset.c`, `attpbfasread.c`); attributes are records in the model. The descriptor of a TFTP file is not closed
  by `cexpSearchFile` when its caller wants no name; `cexpLoadFile` wants one.
* `rshLoad` closes an uninitialised `errfd` when `rcmd` fails (`rshload.c:184-204`), and the `memmove` at `elfsyms.c:307`
  leaves the command without its terminator. In ElfSyms the other side may therefore send any file.
* The marker's entry has only its name set (`cexpsyms.c:224-226`); what else was in its memory decides what printing and
  releasing the table make of it. Nothing in the model reads more of `Marker` than its name.
* `sh_link` of a symbol table and `st_name` of its symbols (`elfsyms.c:118`) are not checked; `pmelf_sec_name` and
  `pmelf_sym_name` accept an index equal to the length of the string table. Names are values in Readers and Bfd.
* The marks that `*UND*`, `*ABS*` and `*COM*` keep from one file to the next are not kept by Bfd (see above).

## Proofs

What TLAPS has checked holds for every value of the constants that satisfies the ASSUMEs of the
modules (sets of threads, files, records and names of any size; any bound). Some theorems have one
assumption more, which leaves out a deviation described above; its run or finding shows
what happens without it:

| assumption | of | leaves out | holds when |
|---|---|---|---|
| `OneWriter` | `LockKeepsWakeups` only | the stranded writer (`RWLockTwoWriters`) | one thread loads and unloads |
| `~Nested` | ModulesProofs | a module chained by an initializer of another (`ModulesNested`) | module code does not call the loader |
| `FlushAlone` | VarsProofs | the list's head read before the lock (`vars.c:187`) | variables are flushed when nobody uses them |
| `LinkonceNamed` | `SectionNamesStayLive` only | a shared section without a symbol of its own, or whose symbol an earlier module without the section defines: no bit is raised for the section's module | sections are named after a symbol they hold (`.gnu.linkonce.t.f` and `f`), and whoever defines `f` has the section (evaluated by `MCModules`) |
| `LastUnique` | LookupProofs (not ElfSymsProofs) | the marker copied as a symbol (`cexpsyms.c:242`) | the greatest name of a table, with or without a version, occurs once |
| `Unshadowed` | `NamesFound` only | `a@b` not found as `a` beside `a0` and `a00` (`cexpsyms.c:97`) | no name goes on with a character below `@` where another, up to there the same, has its version (evaluated by `MCSymTbl`) |
| `ObjectsLinked` | `TableIsComplete` only | an object mapped over its own link-time addresses; a hash table that does not reach all symbols | objects are as linkers and the dynamic loader make them (`MCElfSyms` has TLC evaluate it for the run's objects) |
| `Cpu # "sparc"` | `ContentsArePlaced` only, for `RelocationsApplied` | a relocation outside its section (`bfd-reloc-sparc.c`) | the CPU is one of the other four |
| `ExactTarget` | `EngineIsExact` only | a shift of `fits` by the width of an int or more, longs that a double does not hold (`ctyps.c:236`) | int and long have the same width, a pointer is not wider, a double holds every long, and a float every short, as the comments in `ctyps.c` say (evaluated by `MCEval`) |
| `StructReturnOnce` | `AbisStayAgreed` only | a file that claims two ways to return structures | a file does not contradict itself (evaluated by `MCLink`) |

Each proof is of an inductive invariant, which the runs check too (but for `AllSectioned` below); the theorems about single properties
follow from it, and the action properties from a step of it.

**RWLockProofs**: `LockInvariant` (`IInv`), `LockTypes`, `LockExclusion`, `LockKeepsWakeups`, `LockRefines`.
`Exclusion` is not inductive. That a writer is alone rests on `readers` being 0
when it leaves the loop, so the invariant says that `readers` is the number of
read locks held (`ReadersCounted`, as the cardinality of a set of tokens, one per
lock, so that steps of one thread add or remove one element). That nobody enters
later rests on the writer owning the mutex, so it says who owns it and how often
at every statement (`MutexOwned`), and which statements a thread can be at with
what it holds (`Consistent`). `QueueOK` keeps a wakeup from hitting a thread that is
not asleep. The proof has a lemma per action, and lemmas on tokens and the queue.
`LockKeepsWakeups` adds that with one writer at most one thread sleeps.
`LockRefines` shows that the five statements that grant or return a lock are steps
of the abstract lock, the grant of a write lock by `ReadersCounted`, and all others
leave `held` and `writing` alone.

**ModulesProofs**: `ModulesInvariant` (`IInv`), `ModulesWellFormed`, `ReferencesStayLive`, `BitmapsAgree`,
`RecordsOwned`, `SearchOrderKept`, `SectionNamesStayLive`. That references stay live is not kept by the bitmaps' agreement alone:
the link between a binding and a bit is `Resolved`, which also has to hold of a module that is linked but
not chained yet, while constructors run. So the invariant says what each call has found out and
still relies on (`CallValid`: the tail of the list, the predecessor, that nobody needs the module), that
it has the lock (`LockHeld`), and who owns each record (`Owned`); a new module shares no id, name or symbol with
those in the list (`Apart`). One lemma frames the steps that leave the list alone (`FrameFacts`, `QuietKeeps`), two say what
chaining and cutting do to it (`ChainedList`, `CutList`), and each action has its own.
`SectionNamesStayLive` rests on a second invariant, `AllSectioned`, on top of `IInv`: a loaded module that has a linkonce section also has the
symbol it is named after, so that a later module that finds the section there (`FoundTogether`) is either refused, if it defines the symbol
strongly, or bound to that module by `resolve_syms` (`LinkedSectioned`), and from then on `Resolved` keeps it.

**VarsProofs**: `VarsInvariant` (`IInv`), `ListWellFormed`, `NamesOnce`, `VarRecordsOwned`, `WalksComplete`. The list is
a function on addresses, and what it holds is what is reached from its head, the least set that is closed under the
links. The lemmas are about lists in ascending order: a record is never reached again from behind itself,
the place at which a search stops is the only one where a name can be or can go, and what inserting and removing a
record there does to the set that is reached from every other record. Reachability replaces induction along
the list by a closed set for each argument.

**ShellProofs**: `ShellInvariant` (`IInv`), `StreamsAreFollowed`, `StreamsRestored`, `NoFileForgotten`, `CallersUndisturbed`,
`OnlyRefusedLinesClose`; no assumption but the module's. `Restored` speaks of the time between two lines; the
invariant says of every instance, also of those in the middle of a line, what undoing its redirections *would* give
(`ContextGood`: the streams it was started with). Lemmas on `cexpRedir` and `cexpUnredir` show that each outcome of one keeps that and the other makes it
true. Every step is then one of four kinds (lemma `StepKinds`): an instance is called, a line opens streams, a
script is sourced or ends, or instances close, and each kind keeps the invariant. `Exclusive`, that who will
close a stream is its only user or called its other ones, holds as long as no stream in use was closed, and
the steps that could break it are those of `BothRefused`.

**LookupProofs**, about SymTbl: `TableInvariant` (`TableInv`), `TablesWellFormed`, `OnlyRedundantEntriesDropped`, `AddressesLookedUp`, `NamesFound`.
`_cexp_namecomp` is not an order: it ignores the version of its second argument only. The lemmas say what is left
of one: positive in one direction where it is negative in the other (`OtherDirection`), a chain from which an entry
that compares equal can be left out (`SkippedInChain`), and equal only if the names are but for versions
(`EqualButVersion`). The loop's invariant (`LoopOrdered`, `GivenLeft`) is about the part kept and the part not seen. The
proof showed that it is not enough for the last two entries to differ, as TLC's instance has it: several
versions of the greatest name may be apart from the plain one; `LastUnique` now says so.
`AddressesLookedUp` proves the binary search by address, a recursive function, for tables of any size: that it is
defined, and what it returns, from the smallest interval on which it would not be. `NamesFound` proves the search
by name (`LookupFinds`): the names of a table are in the order of the first character in which they differ
(`Follows`, `TableFollows`), and a name without its version is compared with those in front of the one sought and behind it as
that order says (`NothingAboveInFront`, `NothingBelowBehind`). The first of these needs `Unshadowed`, and nothing else does.
`SearchedNamesFound` says it of the tables that are searched while modules are loaded and unloaded.

**LookupProofs**, about Lookup: `LookupInvariant` (`IInv`), `SearchesComplete`, `StaleHandlesRefused`, `SearchedTablesSound`, `NearestFound`. A handle means
the same a call later because records in the list have different addresses and the list is in the order of loading
(`ModulesKept`), so that a handle whose module is gone never is valid again, and what is loaded later is
behind it. Places are those up to a table's null name; that the ones behind its symbols repeat names of it
(`TailsRepeat`) comes from the loop of the sort, which leaves there only entries that it has copied or dropped (`TailKept`). A page is closed under what comes before one of its lines; so what is reported when a page ends
is all up to its last line.
`NearestFound` (`AddressesFound`) is about a fold over the modules with two loops in each. It needs from the invariant only that each
module's index ascends (`IndicesAscend`), and that segments are apart, so that without a margin a module is the only one around the
address or the system module comes first and has a symbol below it (`FirstIsLow`). Each loop meets the symbols of its side by growing
distance. The entries, counted from the address, are the nearest of what was met (`Nearest`), a symbol that takes the entry where it
belongs keeps them so (`NearestInserted`), and once one is not nearer than the last, what follows is not either
(`WalkNearest`), which is why leaving the loop loses nothing. `NearestIsNth` turns that into the entry at each distance.

**ElfSymsProofs**: `ReadingSound` (`IInv`), `MemoryIsSound`, `ResourcesReleased`, `SymbolsAreRead`, `TableIsComplete`,
`ReadsStayInside`, `HashTablesRight`, `ReadersAreExact`: all that the run asks. They hold for all files, damaged or not (`FilesOK` gives
the types of a file's fields only), any sizes of packets, any link maps and any width of an offset. That everything but the four leaks is released once rests on an owner
for the file at every `pc` and on when each leak can arise (`Owned`: either the caller's `f` or the stream has the file), that the marker fits on the room of the table, which is its entries
and one, and what `handleInput` appends on its pointer and what is available making up the size of the buffer. The readers
return what the specification of the file says because the position of the stream after a seek is the one asked
for: `ReadsStayInside` takes that from the comparisons in `pmelf_getscn`, one of which notices the wrap-around.
`TableIsComplete` carries `Collected`: what the table has and what the objects that are not added yet have is `given`. That each
name is still there after the sort, perhaps without its version, is because the sort drops a name only for the one without the version, and never that.
It proves `SymbolsRead` and `AllDefined`; `MarkerLeft`, the third part of `SymbolsComplete`, is model-checked only.
Sums and concatenations along a sequence are folds; the lemmas `FoldExists` and `FoldKeeps` turn one into a function on
the places of the sequence, with a least place where a claim would fail (as `FoldRuns` does in LookupProofs).

**LinkProofs**: `LinkInvariant` (`IInv`), `EverythingReturned`, `ListsOrdered`, `LayoutsFit`, `ContentsArePlaced`, `GroupsStayWhole`,
`AbisStayAgreed`, `RelocationsExact`. The ASSUMEs of Link say of files only what types do, and that alignments are powers of two, of which the
smaller divides the greater. No property is inductive: what is true of a module when it is chained was made so by steps that lie
far apart. So the invariant says of each `pc` what the load has by then: who has the stream and what goes with
a bfd (`Owned`), that the sections are still those that the file shows but for flags and addresses (`FileShown`), where
commons are in the section made for them (`CommonsRight`), that segments have the size that was counted and memory of
their own (`SegmentsTaken`), and from `s_setvma` on that sections are in it (`SectionsPlaced`).
That is the heart of it: `s_count` adds up an upper bound for each section in any order (a fold over a set),
`s_setvma` goes through them in order and aligns each (a recursive function), and the lemma `SlotsFit` shows that the second never
passes the first, because a section never needs more than `2^align - 1` bytes in front of it. The lemmas `SumExists` and
`SumRemoves` turn the fold into a function on sets that loses one element at a time, and `RecursionIn` gives a
recursive definition its values. Modules are kept apart because segments are (`ModulesApart`), with `LayoutFits` as
what follows. `CommonsMade` shows that the order of `align_size_compare` needs no more alignment than that of its first
element; `FinishRelocs` that `s_reloc` refuses each relocation that is outside, for every kind of the tables of
`Cpus`. `GroupsStayWhole` needs no assumption; what it says is about files with groups like those of compilers (`GroupsProper`, within `GroupsWhole`). It has
an induction along the walk of `s_eliminate_linkonce` (`WalkIs`, `GroupWalk`): from a header it meets all its members up to one that is ignored, and nothing
else, so that a second header cannot drop part of a group. `AbisStayAgreed` rests on `AttributesKept`, a match of each pair of modules that were ever in the list
together, and on what a match means for attributes that were read without error (`ReadIs`, `ValueIs`).
`RelocationsExact` is about the operators of Reloc, for words, symbols, addends and places that are any numbers, and all widths
with the proportions of `RelocWidthsOK`. `KindsOK` says what the 35 kinds in the tables of the five CPUs have in common; from that alone
follow that a field which is replaced leaves the rest of its word as it was (`FieldReplaced`), that an aligned branch does not touch the low bits of the
instruction (`FieldAndLow`), and that extending the sign finds a displacement again that passed `Within` (`SignedField`). The halves of an address
make it again because the bit that `R_PPC_ADDR16_HA` looks at is the carry of the signed low half (`CarryIs`, `AdjustedAndLow`).

**EvalProofs**: `IInvHolds` (`IInv`), `ParserWellFormed`, `LeftoversConfined`, `SkippedHasNoEffect`, `EngineIsExact`. `IInv` is
`WellFormed /\ CleanResults`; neither is inductive alone. `evalInhibit` is a word into which `&&` and `||` shift a bit in and out, in the
middle of rules; `SkipBits` reads the same number off bison's stack, as a recursive function along it, and the lemmas say
what pushing, and replacing entries at the top, does to it (`SameBits`, `ReplacedBits`, `PoppedBit`), that it is below
`2^Marks`, so that nothing is shifted out before `lost`, and that it is not 0 exactly if an entry skips (`SomeBit`). `CleanResults` follows
because a rule reads only entries at the top: if one of them is a leftover, an entry that skips lies below it, or the rule is the
one that ends the skipped operand and does not use it (`OperandKeeps`). That needs that the types of all values stay types, so each operation of the type engine has
a lemma about what it returns (`CastTyped` to `AssignTyped`). `SkippedHasNoEffect` is a step of that invariant: the bit is there while an
entry skips, and each action with an effect looks at it.
`EngineIsExact` is about the operators of Types, for all widths and values. Quotients and remainders are shown to be the only ones
(`DivMod`), from which modulus by a multiple (`ModMod`, `ModSum`) and shifts (`ShiftedOut`) follow; powers of two divide the
greater ones (`PowersDivide`), by a least exponent at which they would not; and `BitByBit` and `Mask`, recursive functions, are shown to compute
what an explicit sequence of values does (`OneIteration`).
The provers do not know powers of two; `PowersOfTwo`, `InhibitPowers` and `WordPowers` give the recurrence of 2^n for the widths that occur.

Only model-checked, and why:

* liveness (`EverybodyGetsIn`, `LoadReturns`), which is out of the prover's reach;
* `MarkerLeft`, when the marker of the sort becomes a symbol of the system's table.

`SectionNamesLive` is proved for `LinkonceNamed` files only, and is no invariant of the code without it: `cexpLoadFile` raises no bit for a
section it shares, only for the symbols in it.

No module declares a RECURSIVE operator or uses Bitwise, so that all of them can be proved about.

## Not modelled

Prompts, line editing and option parsing; printing of values, types, symbols and modules; help
tables and symbol members; the disassembler; the lexer's numbers and characters; writing and dumping
ELF files and byte order; build-time generators; and the bundled libraries (regexp, getopt
and tecla, submodules that are not here). They are formatting, I/O, data layout or third-party
code. A fault in a constructor, which leaves the write lock held
(`cexpmod.c:904`), is visible in one function and is not modelled either.

## Plan

The modules that were planned are written, and the safety properties and action properties the passing runs check are proved but for `MarkerLeft`,
some under the assumptions of the table above. What is left is liveness, which the runs check.
