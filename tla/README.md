# Verification of gputils

gputils is a set of tools for Microchip PIC microcontrollers: the assembler
`gpasm`, the linker `gplink`, the librarian `gplib`, viewers and a
disassembler, all built on the library `libgputils`. This directory holds TLA+
models of its core, the TLC runs that check them on small instances and TLAPS
proofs about them for all instances. Paths below are relative to `gputils/` of
the repository.

Every tool is one sequential process: no threads, no messages, nothing that
survives a run but the files it writes. What is hard here is not concurrency
but long sequences of passes over shared, linked data: passes that rely on what
earlier ones left behind, loops over lists that the loop itself changes,
searches whose result depends on an order nobody promised, recursion with a
limit, and arithmetic at the ends of memories.

## 1. Inventory

| component | code | state | operations |
|---|---|---|---|
| symbol resolution | `gplink/gplink.c`, `libgputils/gpcofflink.c` 25-165, 545-645 | list of objects, list of archives, tables `extern_global`, `missing` and `archive` | open files, enter symbols, scan archives, linker symbols, clean the table |
| dead sections | `gpcoffgen.c` 330-400, 950-1090, `gpcoffopt.c` 95-150 | section list, dead list, reference counters, flag `PROTECTED` | count and follow relocations, remove sections |
| merging | `gpcofflink.c` 168-745, 1547-1780 | sections with data, symbols, relocations, `.cinit` | combine overlays, join sections, copy initialised data, fill `.cinit`, patch |
| placement | `gpcofflink.c` 748-1540 | used bytes of program and data memory, section addresses | six passes of placement, values of symbols, fill pages |
| optimisers | `gpcoffopt.c` 153-1221 | window of four relocations, addresses of everything behind an instruction | remove redundant `pagesel` and `banksel` |
| scripts | `gplink/script.c`, `parse.y`, `scan.l` | section definitions, macros, conditionals | parse the linker script |
| outputs of the linker | `gplink/map.c`, `lst.c`, `cod.c` | none | write |
| archives | `gparchive.c`, `gputils/gplib.c` | list of members, index | add, delete, extract, make and read the index |
| COFF objects | `gpreadobj.c`, `gpwriteobj.c` (files), `gpcoffgen.c`, `gpcoff.h` (lists) | lists of sections, symbols, relocations, line numbers | read, write, edit |
| lists | `gplist.c` | doubly linked nodes, serial numbers | append, insert, move, sort |
| symbol tables | `gpsym.c`, `gphash.c`, `gpsymbol.c` | hash tables, nested | add, look up, remove, clone |
| memory | `gpmemory.c` | blocks of bytes with flags | get, put, clear, move, delete |
| hex files | `gpreadhex.c`, `gpwritehex.c` | extended address | read, write records |
| passes of gpasm | `gpasm/gpasm.c`, `util.c`, `evaluate.c`, `coff.c`, `symbol_list.c` | `state.pass`, symbol tables, COFF symbol queue | two passes, set symbols, generate sections |
| directives, macros, conditionals | `gpasm/directive.c`, `macro.c`, `special.c` | stacks of conditionals, macros, `while` bodies | `if`/`elif`/`else`/`endif`, `while`, macro calls |
| scanner and files of gpasm | `scan.l`, `parse.y`, `preprocess.c`, `file.c`, `deps.c` | stack of sources | lex, parse, include |
| messages, listing, cod | `gpmsg.c`, `lst.c`, `gpcod.c`, `cod.c` | counters, selection of messages | write |
| lookup | `gpprocessor.c`, `gpregister.c`, `gpbitarray.c`, `gpopcode.c`, `gpdis.c`, generated tables | none that lasts | look up, disassemble |
| other tools | `gputils/gpvo.c`, `gpvc.c`, `gpstrip.c`, `gpdasm.c` | one object or memory | print, strip, disassemble |
| vendored | `libiberty`, `header`, `lkr`, `include`, `doc` | | |

How they interact. `gpasm` turns source into an object: its two passes fill
memory, symbol tables and the lists of one COFF object. `gplib` puts objects in
archives. `gplink` reads objects and archives into one COFF object (symbol
resolution), drops dead sections, merges sections, places them, fixes the
values of symbols, optimises, patches relocations, and writes the result. All
steps of `_linker` (`gplink/gplink.c` 874-1087) work on the same lists one after
the other; each passes on only these lists, the count of errors, and the maps
of used bytes. Errors are counted, and most passes go on after one: "an error
was reported" is an outcome of its own in every model here.

What makes each part correct, and where it can go wrong, is the list of
`hazards` in `PROJECT.json`, each at its line. The main ones:

* symbol resolution: whatever the order of files, archives and hash tables,
  every reference is resolved or reported, no member is linked twice, and the
  rounds over the archives end;
* dead sections: with cycles and long chains of references, what a live section
  needs stays and what nothing needs goes;
* merging: symbols, relocations, table entries and copies still mean the same
  bytes after sections were laid on each other, joined and copied;
* placement: six passes with different searches over the same map of bytes give
  disjoint places in the right definitions, up to the last byte of each;
* optimisers: everything behind a removed instruction moves along;
* gpasm: the second pass sees the same symbols, macros, addresses and numbers of
  symbols as the first;
* librarian: a command changes a library as a whole or not at all, and the index
  it leaves is right;
* hex files: what is read is what was written, in any of the formats.

## 2. Modules

| module | models | used by |
|---|---|---|
| `LibrarySearch` | what the choice of modules promises, without any order | refined by `SymbolResolution` |
| `SymbolResolution` | opening of files up to `gp_cofflink_clean_table` | `MCSymbolResolution` |
| `MemorySearch` | the result of `_search_memory`, as a definition | `SearchLoop`, `SectionPlacement` |
| `SearchLoop` | `_search_memory`, one step per address | itself |
| `SectionPlacement` | all placement passes, `update_table`, `fill_pages` | `MCSectionPlacement` |
| `DeadSections` | `check_relocations` and `remove_dead_sections` | `MCDeadSections` |
| `CoffMerge` | overlays, joining, `make_idata`, `.cinit`, patching | `MCCoffMerge` |
| `CodeOptimizer` | removal of `pagesel` and `banksel` after the placement | `MCCodeOptimizer` |
| `LibraryFile` | what a library promises, without order and index | refined by `Gplib` |
| `Gplib` | the commands of `gplib` on members, index and file | `MCGplib` |
| `SymbolQueue` | symbol numbers of pass 1, symbols of pass 2 | `MCSymbolQueue` |
| `Assembler` | the two passes over conditionals, loops, macros, labels | `MCAssembler` |
| `HexFile` | writing and reading hex files | `MCHexFile` |
| `SymbolResolutionProofs`, `SearchLoopProofs`, `SectionPlacementProofs`, `DeadSectionsProofs`, `GplibProofs`, `CoffMergeProofs`, `CodeOptimizerProofs`, `AssemblerProofs` | theorems (section 5) | |

The modules cut the linker at the points where one pass hands its lists to the
next. Each takes the state that the pass before may leave as the constant
`Input`, a set of objects (command lines, scripts) with the shape that its
assumption states; a run names a small set, a proof holds for all of them.
Definitions named "Mutant of ..." are bugs that the runs are known to detect;
they are not part of a specification.

### SymbolResolution

An object is the list of its external symbols: a name, whether it is only
referred to, and whether a relocation uses it. `AddReference`, `AddDefinition`
and `NextObject` are the loop of `gp_cofflink_add_symbols`; `ReadIndex`,
`LoadMember` and `LeaveArchive` are `_scan_archive`, `_scan_index` and the loop
of `_build_tables`. The table of missing symbols is walked in an order that
depends on hash values, so `LoadMember` takes any of them. The code starts the
walk again after a member was loaded, and so does the model.
`own` are the symbols that the linker itself puts at the end of the symbol table
(`gp_cofflink_make_stack`, `gp_cofflink_make_cinit`): those whose first entry in the
table is not a definition.
`RemoveLinkerSymbols`, `MakeLinkerSymbols` and `CleanTable` are the end of
`_build_tables`, the making of `_cinit` and `_stack`, and the deletion of
references. `RemoveWeak` removes one symbol only, as the code does (see section
4). The mapping to `LibrarySearch` forgets tables, cursors and
rounds: a step of the model loads one member that helps, ends the search, or
stutters.

### MemorySearch, SearchLoop, SectionPlacement

`_search_memory` is modelled twice: `SearchLoop` is its loop, and `MemorySearch`
says which block it returns. The invariant `ComputesSearch` shows them equal,
so that `SectionPlacement` can use the definition in one step. The definition
keeps the two faults of the code at the last byte (see Findings).

A section in `SectionPlacement` has a kind, a size, an address when it is
absolute, and the definition the script assigns it to. The variable `used` holds
the bytes marked in the two memories `program` and `data` of `_linker`; `phase` is the
pass. `RelocAbs`, `RelocCinit`, `RelocAssigned`, `RelocUnassigned` are one turn
of the loop of the function of that name each; `NextPass` leaves a pass
(`Idle`), `GiveUp` leaves it with an error, and the next pass runs all the same.
`shadow` is the address in the map, `address` the one that the section gets.
`FillPage` makes the section `.fill_1`, `.fill_2` and so on for a block that is left, and
`RefuseFill` ends the filling when the object has a section of that name.

### DeadSections

The recursion of `_check_section_relocations` is the variable `stack`, one frame
per call with the next relocation it looks at; `FollowRelocation` counts,
protects and calls, `Return` returns. `DepthMax` is
`CHECK_RELOCATIONS_DEPTH_MAX` (100 in the code). One symbol stands for all
symbols of a section, since protection is handed on to sections.

### CoffMerge

The content of a section is a sequence of cells, and a cell holds the byte (or,
with overlays, bytes) of the input that live there; so "a symbol still names its
byte" can be stated after any number of steps. Every section brings one symbol
and one relocation. A byte patch stands for the encodings of `_patch_addr`, and a
section stands for its address in `.cinit`. Inputs have no section called
`.cinit` of their own, and code that is counted in words (all classes but the PIC16E)
is whole words long.

### CodeOptimizer

`words` is the code of a section with the number of the instruction in place of
each word, so that a deletion can be seen; `value`, `reloc` and `address` are what
the code keeps about it. One turn of the loop over the relocations is analysis
(`AnalyzePagesel`, `AnalyzeBanksel`), the rules in their order (`RuleAtEnd`,
`RuleOfTwo`, `RuleOfThree` or `ProtectSecond`, `RuleOfFour`; `RemoveBanksel`) and
`Shift`. `Destroy` is `_destroy_insn_and_update_addr` with all it calls: the word
leaves the data, the sections behind on the page move with their labels, the
relocations behind it move and with them the labels they lead to, flagged so
that none moves twice, and the window is brought up to date. Four choices are
left open where the code leaves them: the order of the labels of one value in an
array, which `qsort` does not promise (`LabelArrays`); which of the labels at one address
the binary search finds; whether it finds any when the array has lost its order
(`FindByValue`); and which sections' references the counter of a label holds
twice, as `DeadSections` leaves it (`CountsAreKnown`). The module assumes that a
placed section does not cross a page, and that the symbol of a section comes
before its labels. Line numbers move like relocations and are left out. The pass
over `pagesel` runs first, and only when it is asked for.

### LibraryFile, Gplib

A library on disk is a list of members, with the index in front if there is one;
the place in the list stands for the offset in the file. A command of `gplib` is
`Begin`, one step for each argument (`AddMember`, `DeleteMember`, `ExtractMember`,
`BadArgument`), `EndArguments`, one step for each member whose symbols enter the
index (`EnterSymbols`), `AddIndex` and `Write`. Between commands the user
compiles other files or removes them. The state in memory changes argument by
argument (a replaced member is deleted and appended); the mapping to `LibraryFile`
looks at the disk only, so it shows that all of that is one change or none, that
a command whose last argument fails leaves the library alone, and that no two
members define one symbol. Two files of one name in different directories are
one member. A second operation on the command line, or more names than
`MAX_OBJ_NAMES`, is an error with which `main` goes on; `Begin` leaves open whether there
was one.

### SymbolQueue

`coff.c` and `symbol_list.c`. Pass 1 is played by the user, who writes the lines
while the symbols are counted (`symbolNum`, `number`) and queued (`fifo`); pass 2
reads the same lines, adds symbols to `object`, and empties the queue up to a
marker with `Flush` wherever the code calls `symbol_list_flush_symbols`. A label
carries the passes in which conditionals let it be seen. `EndPass2` is
`coff_cleanup_before_eof`, which leads relocations to symbols by number
(`Numbered`).

### Assembler

A source is a list of lines; one step does one line with everything that
`parse.y` and the function of the directive in `directive.c` do with it, except
that the end of a context on the stack of sources (`EndOfBody`, `Ends`) is a step
of its own, as it is for the scanner. `stack` is `state.src_list`, `conditions` is
`state.astack`, whose cells live on when `exitm` frees them under a context that
remembers them; `scopes` and `tables` are the chain `stTop` with the guest links
of `macro.c`; `expansions` is what pass 1 leaves for pass 2 to replay. `definition`
is where `state.mac_prev` points: `endm` clears it and `endw` and `macro` set
it, which makes text after a loop inside of a macro definition fall into a hole
("lost"). The history `placed` remembers where each pass placed each label.
Conditions of `if` and `while` are constants or compare a variable (`Holds`),
which `set` changes, and `ifdef` asks for a label. Between the passes
`WithoutVariables` deletes the variables of the tables below `stTop`, and leaves
those of the calls, which pass 2 pushes again.

### HexFile

`gp_writehex` and `gp_readhex` with small bytes. The file is a list of lines and a line the
list of its bytes, checksum included; `WriteLine` is a turn of the outer loop of
`_write_i_mem`, `ReadLine` a turn of the loop of `gp_readhex`. The variable `page` of
the reader has no initial value in the code, so it starts with any of `Pages`. The
two calls of `_readbyte` that make up `page` are taken from left to right, although C
leaves the order open. `Damage` changes any byte of an inhx32 file to any other value,
lengths and types included. The reader does not look for the end of a line: behind it
`_readbyte` takes the end of line for a byte (`LineEnd`), and then what longer lines
have left in `linebuf` (`buffer`). Small bytes have small values for both: 7 and 6 stand
for the 240 and 208 of the code. `gpasm` asks `gp_writehex_check`
first and `gplink` does not (`checked`).

## 3. Runs

Fairness, where a run checks liveness, is `WF_vars(Next)`: one process that takes
its next step as long as there is one. The code has no other scheduling. `Gplib`,
`SymbolQueue` and `HexFile`, where the user or the medium take steps too, have
none. A tool comes to its end, so deadlock is not checked; for the searches, the
rounds of removal, the joining of sections and the loops of the assembler, where
ending is in doubt, it is a liveness property instead.

| run | states | what it shows |
|---|---|---|
| `resolution` | 92 700 | Three archive members x, y, z and a main object, four distributions over up to three archives (also a member in two archives, an archive named before its user, an archive without index), four and five symbol tables, idata, stack, mixed classes. References are never lost, members never loaded twice, the result is complete and unique, also with the symbols of the linker, the search ends and implements `LibrarySearch`. |
| `search_loop` | 361 000 | All sets of used bytes of a memory of seven, all bounds (also end before start), all sizes, both modes. |
| `placement` | 343 000 | Lists of up to three of the parts in `MCSectionPlacement` on two scripts: pages that fill exactly, protected pages, shadowed shared memory, assigned and absolute sections, also in shadowed banks, odd sizes on PIC16E, a program with a section called `.fill_1`. Real addresses are compared as well as those searched. |
| `dead_sections` | 1 011 000 | All graphs of three sections with up to two relocations each, of four with one each, symbols without section, with and without optimisation; the depth limit 3 is reached by some and not by others. |
| `merge` | 55 000 | All lists of up to three of eighteen sections (code, data, initialised data, overlays, absolute, reserved), four initialised ones; all classes. |
| `code_optimizer` | 1 080 000 | All codes of four and five calls and selections of both pages; all codes of three of nine instructions of every kind; all codes of four banks, registers and jumps. Another section behind or before the code on its page, one on the other page, labels that two sections branch to; two labels of one section, at one place or at two. Deletions are whole, relocations, window and the sections behind stay in step, and selections that branches enter at stay. |
| `library` | 317 000 | Three files and one with the name of the first, two symbols that different files define, all lists of one and two arguments and two of three; commands and changes of files in any order, without bound on their number, with and without an error in the options. |
| `symbol_numbers` | 2 216 000 | All sources of five lines out of twelve: two global labels, a label that only pass 2 sees, two expansions with a local label of a global name, a section with the name of a label, a directive, includes. |
| `assembler` | 605 000 | Some 42 000 sources: all texts of five conditional lines, nested conditionals, a macro with up to three lines called once or twice, macros that call macros, loops that call macros, calls before the definition, macros that only pass 2 executes, loops that count and conditionals on the count, in macros too. |
| `hex_files` | 394 000 | All memories of four addresses with three bytes, of nine addresses with one, and of six around the end of the first block and in the third; four formats, lines of four bytes; bytes of three bits, so that checksums fit by accident; each byte of the files of some 100 memories damaged to each other value. |
| `relocation_numbers`, `labels_follow` | | the findings below |

Why these bounds are enough. The search of archives needs two archives whose
members need each other, for a second round, and a third module for a round
after that. Placement needs three sections so that two compete for what the
first one leaves, and definitions that two sections fill to the last byte. The
depth-first search needs a cycle, a diamond and a self reference, which graphs
of three sections have, and a chain longer than the limit, which the limit 3 and
four sections give. Joining needs a third section of one name, so that an
offset is added to one that was moved already. The window of the optimiser has
four entries, so a code of five relocations fills it and moves it on; a second
removal in one section, with addresses kept from before the first, needs four.
A symbol number can go wrong between a label and the next line that
empties the queue, and a use of a later label; five lines hold both and an
include. Scopes and replayed tables need two calls of one macro, or a macro in a
macro or loop, and a label before or after; the sources have all of these. Hex
lines need a run over a multiple of the line size, one over the end of a block, an
odd one and a gap.

Properties worth a word:

* `TablesAreSound` relates the two tables to the objects read so far, in the
  middle of the scan: every reference is accounted for, what is missing is not
  defined, no member is loaded twice.
* `SearchIsComplete` is stated over all archives of the command line, whatever
  the order in which they were searched.
* `LinkedIsUnique` counts the definitions that the linker makes among those of the
  objects. It has one exception, which it names: a program that defines `_cinit` or
  `_stack` behind a reference to it gets two (section 4).
* `NoOverlap` holds for links without errors: an error of `_set_used` ends the
  marking in the middle of a section. It says two things. In the memories that are
  searched, where a shadow stands for its bank, no byte is given away twice
  (`MapIsDisjoint`). And no two sections share a real address
  (`AddressesAreDisjoint`), if the script gives each address one meaning and assigns
  sections to their own memory (`ClearScript`), unless one of the two is an absolute
  section in a definition with a shadow (`InShadow`): that the linker lays others over
  it is a finding, and without the exception the property is false.
* `CinitIsLowest` and `CodeIsRefusedForCause` compare a decision with all
  alternatives that existed at the time, so they are action properties.
* `NothingLiveRemoved` has the condition that the warning about the depth was
  not given; without it the property is false (section 4).
* `CountsAreKnown` says exactly what the counters hold, since it is not what
  `gpcoff.h:617` calls them, the number of references: the relocations of a section
  that the recursion was called for are counted twice (section 4). What it gives to
  the code that relies on the counters is that zero means none and one means one.
* `ReferencesFollowTheirBytes` and `MemoryIsLaidOnce` say together what joining and
  overlaying must keep: every byte once, its symbol and its relocation with it.
* `DataIsInitialised` excludes programs with a section called `<name>_i` of their
  own: `gp_cofflink_add_cinit_section` looks the copy up by that name and would
  take the program's section for it.
* `TerminatesIfMatching` excludes overlays that do not match, which make the
  linker loop (section 4).
* `ProgramIsWellPlaced` excludes sections of odd size that the script
  assigns. `gpcofflink.c:1119` pads them only if they are absolute, which
  `gpcofflink.c:1112` has excluded; the section behind starts at an odd
  address, and one byte at the end of a page may be left over that the search
  does not report.
* `CodeAndRelocationsAgree` and `WindowIsCurrent` are about the copies of one fact, an
  address, in the code, the relocations and the window: deleting in the middle
  of the window must bring all of them up to date.
* `LabelsMoveWithSections` says that a label of a section that moves as a whole
  moves by the same distance, although it is reached by the array of its section
  and by any number of relocations. Labels within the section that loses the
  instruction do not keep to that (`labels_follow`).
* `EntriesKeepSelection` is what the protection is for: where two branches enter,
  a `pagesel` only goes when the next instruction selects the same page. With one
  branch the code protects nothing. The code asks one label of the address, whichever
  the binary search comes upon, so the property leaves out addresses where another label
  has one reference, and arrays that earlier removals have brought out of order
  (`IsFound`). The run reaches both cases, and in both the selection is deleted
  (section 4).
* `RelocationsFindSymbols` and `LabelsInTheirSection` exclude labels that only
  pass 2 defines, sections with the name of a label, and (the first one) labels that wait in the
  queue when a file is included; what happens then is in section 4.
* `ReferencesAreTrue` relates instructions to labels in the same table. It is
  what the comparison in `set_global` is for, and it holds for all sources, with
  conditionals on symbols too; `PassesAgree`, which says that no such error
  comes up, holds for those without. It excludes variables that are local to a
  macro as well: such a variable starts pass 2 with its last value of pass 1
  (section 4).
* `BranchesAreChosen` compares the stack machine of conditionals with the text: a
  line is assembled if every conditional around it chooses its branch.
* `WrittenIsRead` joins four promises: a file of inhx8m or inhx32 is recognised as one,
  and what the caller gets is the memory that was written, if `page` happens to be 0 where
  no line sets it (inhx16 is left out, since its caller gets nothing; see section 4); the two halves of
  inhx8s hold each byte once; no assertion fails for memories of whole words of
  which the format can hold all; and a damaged byte is an error, or does no harm
  (`DamageIsSeen`). To the last one there are two exceptions. A length that becomes zero
  ends the reading without an error, so part of the memory is missing, but no byte is wrong.
  And a length, or a type that becomes 4 or was 4, makes the reader add up other bytes
  than the writer (`Misleads`), so the sum may be zero by accident.

## 4. Findings

| run | what happens |
|---|---|
| `relocation_numbers` | an include makes two symbols without emptying the queue of labels first, though pass 1 numbered them first; relocations with a number of pass 1 lead to other symbols, or to none (`coff.c:448`). |
| `labels_follow` | deleting an instruction moves the labels of all later relocations, also labels before the instruction, and leaves labels behind it that no later relocation uses (`gpcoffopt.c:268`). |

Met while modelling, without a run of their own. The modules follow the code in
all of these, and the properties are stated so that they hold beside them.

In the linker:

* When a reference to `_cinit`, `_stack` or `_stack_end` comes before the program's own
  definition of it, `gp_coffgen_find_symbol` finds the reference, so the check for a
  symbol that "already exists" says nothing and a second global definition
  is made (`gpcofflink.c:315`, `gpcofflink.c:591`). `_add_linker_symbol` keeps the program's in
  the table, and the references go there.
* The counters of relocations, "Number of relocation references from all section" in
  `gpcoff.h:617`, hold the relocations of a section twice when the recursion was called for it,
  because the list comes to it as well (`gpcoffgen.c:992`). The optimiser compares them
  with 1, so it may keep a selection that one branch enters at.
* Of several labels at a `pagesel` the optimiser asks one for its references
  (`gpcoffopt.c:579`), and if removals have brought the array of labels out of order the
  binary search may miss all of them; then a selection that several branches enter
  at is deleted.
* `gp_cofflink_reloc_abs` marks the address of an absolute section itself
  (`gpcofflink.c:830`), while the other passes search and mark the shadow of a bank
  (`gpcofflink.c:1132`, `gpcofflink.c:1367`). In a bank with a shadow, such as `gpr0` of
  `lkr/12f1612_g.lkr`, a relocatable section may get the real addresses of an
  absolute one without an error.
* `gp_coffopt_remove_weak` follows `next` of a symbol it has just moved to another
  list, and stops after the first one (`gpcoffopt.c:110`).
* A free block that ends at a used last byte is counted one byte too large
  (`gpcofflink.c:922`), and a single free last byte behind a used one is never
  seen.
* A chain of references longer than the limit, against the order of the list,
  loses live sections (`gpcoffgen.c:983`).
* After the message about overlays that do not match, the same pair is looked at
  again for ever (`gpcofflink.c:252`).
* Of two `banksel` of one bank one is removed although code between them selected
  or used another bank (`gpcoffopt.c:1115`); a `pagesel` of the own page is removed
  before a `goto` although a call in front selected another page (`gpcoffopt.c:769`).
* `.cinit` gets the addresses of the copies of initialised data before the
  optimisers move sections of program memory (`gplink.c:1019`), although the comment
  above it says "load the table with the relocated addresses".
* An archive without index whose members define nothing makes
  `gp_archive_read_index` assert (`gparchive.c:598`).
* Sections of odd size that the script assigns are not padded on PIC16E
  (`gpcofflink.c:1119`); sections of one name but different types are joined
  without a check, although the comment asks for one (`gpcofflink.c:366`).

In the librarian:

* Deleting the last member leaves no list to write, and `gp_archive_write` asserts
  (`gparchive.c:300`); the file stays.
* `gp_archive_extract_member` looks for an extension in an array that is not yet
  initialised (`gparchive.c:274`), so whether ".o" is added is open. The model
  takes the file name to be the name of the member.

In the assembler:

* The queue of labels is emptied up to an entry with a certain name, and a label
  named like the section stops it too early (`symbol_list.c:116`).
* A label that only pass 2 defines takes a number and shifts those behind it
  (`util.c:705`).
* A local label with the name of a global one that is put into the object later
  makes the later one a duplicate (`coff.c:630`).
* A second `else`, or an `elif` after an `else`, is accepted, because `else` does not
  change the mode (`directive.c:2785`); an `elif` without `if` reads through a null
  pointer (`directive.c:639`).
* `exitm` inside a loop in a macro leaves the loop only. When it frees a conditional
  that an outer context remembers, the check for illegal nesting compares with a
  freed pointer (`scan.l:799`, `scan.l:821`).
* `endm` inside a `while` leaves the count of nested loops at one.
* A macro that only pass 2 executes gets a table of its own with a warning, but
  if it comes after the last one of pass 1 assembly exits (`macro.c:121`).
* Variables are deleted between the passes only from the tables below `stTop`
  (`util.c:765`). A variable that is local to a macro keeps the value it had at the
  end of pass 1, so a conditional on it may choose another branch in pass 2.

In hex files:

* `page` is used without a value in files that have no segment line
  (`gpreadhex.c:102`).
* Reading as inhx16 frees the list that the caller gave and fills another one
  (`gpreadhex.c:185`), which the caller never gets, although ChangeLog:6053 says
  "gpdasm can now read inhx16 format in addition to inhx8m and inhx32."
* An inhx16 file whose first half of each line happens to sum to zero is taken
  for inhx8m.
* A length of zero, damaged or not, ends the reading without an error
  (`gpreadhex.c:131`); a data line whose type is damaged to 4 is taken for a segment line
  (`gpreadhex.c:145`), and a wrong length adds up bytes behind the line; neither is
  noticed when the sum is zero.
* inhx16 asserts on runs of odd length or address, and `gplink` does not ask
  `gp_writehex_check`, so that memory behind 64 K asserts (`gpwritehex.c:194`).

## 5. Proofs

All theorems hold for every value of the constants: every set of inputs of the
shape that the named assumptions state, every size of memory, every limit. Each
module of proofs states its inductive invariant at its beginning (`IInv`), and TLC has
checked it on the run of the module before it was proved.

| module | theorem | what it states |
|---|---|---|
| `SymbolResolutionProofs` | `TablesDivide`, `SearchedWell`, `NeverDangling`, `OneDefinition` | the four safety properties of `SymbolResolution` |
| | `SearchRefines` | `ImplementsLibrarySearch` |
| `SearchLoopProofs` | `SearchIsComputed` | `ComputesSearch` |
| `SectionPlacementProofs` | `TypeCorrect`, `Disjoint`, `Contained`, `Complete` | `TypeOK`, `NoOverlap`, `InsideDefinition`, `NothingForgotten` |
| | `LowestCinit`, `RefusedOnlyForCause` | the action properties `CinitIsLowest`, `CodeIsRefusedForCause` |
| | `WholeWords` | `ProgramIsWellPlaced`, under `EvenMemory` |
| `DeadSectionsProofs` | `TypeCorrect`, `LiveKept`, `DeadRemoved`, `RootsKept` | `TypeOK`, `NothingLiveRemoved`, `OnlyNeededStays`, `RootsStay` |
| | `CountersKnown` | `CountsAreKnown` |
| | `OneRoundRemoves` | only the first round of the removal removes sections |
| `GplibProofs` | `MembersFound` | `MembersAreFound` |
| | `LibraryRefines` | `ImplementsLibraryFile` |
| `CoffMergeProofs` | `ReferencesFollow`, `LaidOnce`, `InitialisedData` | the three safety properties of `CoffMerge` |
| `CodeOptimizerProofs` | `CodeFollows`, `WindowFollows`, `SectionsFollow` | `CodeAndRelocationsAgree`, `WindowIsCurrent`, `SectionsStayApart` |
| | `LabelsFollowSections` | the action property `LabelsMoveWithSections` |
| `AssemblerProofs` | `ScopesFollowMacros`, `ReferencesHold` | `ScopesBalanced`, `ReferencesAreTrue` |
| | `BranchesFollowText` | `BranchesAreChosen` |

**Symbol resolution.** `TablesAreSound` is not inductive. `DefinitionsEntered` and
`ReferencesAccounted` tie the two tables to the symbols that
`gp_cofflink_add_symbols` has passed (`Scanned`), and `CursorInPlace` says that it has
passed all of them whenever the missing symbols are looked at. That the search
leaves nothing out (`SearchIsComplete`) comes from `SearchedInVain`: in a round
without a new member, no archive in front of the cursor helps. `IndexIsRight`
joins an archive with and without index. For the refinement,
`FilesOpened` says that the objects are those of the command line, so
the first state in which symbols are searched maps to the initial state of
`LibrarySearch`; loading a member maps to one of its steps because the member
defines a missing symbol (`SymbolsOfModules`, `DefinitionsMeant`), and so does the end,
because then nothing helps (`SearchHasEnded`). For `LinkedIsUnique`, `OwnSymbols` keeps
what holds of the linker's own symbols from the step that makes them
(`MakeOwnSymbols`): a symbol that an object defines, but whose first entry is no
definition, is defined behind a reference. The code loads a member at most
once although the index may lead to it twice: what it defines is not missing any more.

**The search of memory.** The loop of `_search_memory` never keeps more than one
block and one best block. The invariant divides the blocks of the definition at
the block that is open, or at the address where none is: of those `Seen` the
answer is the best (`BestSoFar`), and the open one begins where the definition
opens a block (`OpenBlock`). The faults at the last byte are in both. Blocks of the
definition lie between the bounds (`BlockBounds`). `SectionPlacementProofs` has two more lemmas
about them: a run of free bytes is part of a block that the search sees
(`RunIsFound`), and in a memory that is used in pairs of bytes blocks begin and
end at pairs (`EvenBlocks`).

**Placement.** `MapIsDisjoint` alone is not inductive: that a newly marked extent is
disjoint from an older section follows only if all bytes of older sections are
marked, which is `Marked`; and `Marked` survives an error-free marking because
`_set_used` marks all bytes or reports an error (`SetUsedFacts`). From the searched memories to
real addresses leads `Located`: a placed section lies within one definition and
differs from its place in the map by the shift of that definition. If
two such sections share a real address, their definitions overlap and have one shift by
`ClearScript`, so the sections share a byte of the map; an absolute section that is
in no definition with a shadow has its real address in the map (`ApartInReality`).
`NothingForgotten` needs `PassesComplete`, what each pass leaves behind, since
program memory is finished before data memory; `Untouched` says that a section
that has no place yet still has the address it was read with, which matters when
a pass takes absolute sections. These rest on `InputAssumption`: the shape of the
input, shadow addresses that are not negative, definitions in the order of their
addresses (the passes sort them with `_sect_addr_cmp` before they search), and
`.cinit` being code. The two action properties compare what a step chose with
everything that the memory offered (`RunIsFound`); they need `AbsolutePlaced`, since an
absolute section in a later pass would be given up by another rule, and
`SizeAssumption`: the size of `.cinit` is a count of two bytes and twelve for each
entry (`gp_cofflink_make_idata`), and code of the other classes consists of words.

`WholeWords` has a hypothesis of its own, `EvenMemory`: code pages begin at even
and end at odd byte addresses, sections that the script assigns go to
pages of their kind, code is ordered to even addresses, and odd absolute sections that
the code does not pad (idlocs, config, eeprom) lie outside of code pages. The
scripts of the PIC18 devices in `lkr` have no other code pages, but the linker
does not check any of it, so it is not an assumption of the module. `MCSectionPlacement` assumes it,
so TLC evaluates it for the inputs of the run. The proof shows that program memory is used in pairs
(`Paired`) from the first placement to the last fill; pages that were filled
stay full (`Filled`).

**Dead sections.** The heart of the invariant is `HandsOn`:
every relocation of a protected section leads to a protected section, or a call
on the stack has not come to it yet, or the list has not come to the section
yet. At the end of the list the stack is empty, so the protected sections are
closed (`HandedOn`) and removing the others cuts no reference. In the other
direction, `protected \subseteq Needed` holds since the roots are needed and
protection is handed on along references only; what is removed last leaves
nothing else.

When the depth was limited none of this helps the counters, since a protected
section may then refer to a removed one. What helps is that a check is
deterministic: the one after the removal does what the one before it did, but
for the visits of removed sections, which were not protected and so called for
nothing. `Replay` says so: the state of the check is a state of a recorded check
(`IsWhole`) of all sections. It follows that the same sections get protection, that no removed
one does (`ProtectedIsLive`), and that the second round of `gp_coffopt_remove_dead_sections`
never removes a section (`OneRoundRemoves`). The counters are then counted out by
`CInv`: a counter has every relocation that the list has come to (`Listed`), and
no more than these and the ones of sections that a call has followed (`Called`), each once,
because the calls on the stack above the first are for different sections that
were newly protected (`Frames`). At the end of the list those sections are the ones
that were protected and are no roots (`CalledAgain`). `Replay` quantifies over lists of states, which TLC
cannot enumerate; TLC has checked its consequence, that protected sections are
live, and the parts of `CInv`.

**The librarian.** `MembersAreFound` needs to know what the list of definitions
holds while the index is made: the symbols of the members before the cursor, each
with a member that defines it, and no symbol twice unless it was reported
(`DefinitionsRight`). The refinement compares the library before a command
with the one that it writes several steps later, so the invariant remembers what a half-done
command has made of it (`HalfDone`): after `k` arguments the members are those of the
library before, with the last file of each name among the first `k` in place of
the old one, or without the names deleted. The places in the list, which every
replacement changes, are forgotten there. It rests on `FilesAssumption`: each file has
a member name, and files are finitely many.

**Joining and initialised data.** None of the three properties of `CoffMerge` is
inductive. `Kept` says that no two cells hold the same byte and that none is lost, for the
sections taken off the list too: they are empty, and no symbol is left in one
(`Listed`). Laying overlays keeps a byte at its offset because all bytes of a section are
at the offset that they had in their object as long as overlays are combined
(`Overlapping`); that holds because `gp_cofflink_combine_overlay` comes before
`gp_cofflink_merge_sections`, which moves bytes. Joining moves a symbol of code by a number of words, so
the section in front must be a whole number of words long (`WholeWords`); that needs
`Agreed`, since sections of one name are joined whatever their types, and from
`InputAssumption` that an assembler for words writes whole words. That the start code finds the
right copy needs one section of a name after the joining (`Joined`), and the copy behind its
section (`Copied`); `Find` looks for a name and could stop at another section, which
`OwnNames` excludes and the code does not. `Tabled` carries the entries of the table over the patching. The
module begins with lemmas on sequences: an element taken off a list
(`Removed`), parts put behind each other (`Flattened`).

**The optimisers.** A deletion changes five copies of the addresses at once: the code,
the relocations, the window, the sections and the labels. In the code the words of each
instruction that is left form one block (`Block`), which begins at the address of its
relocation (`At`, `Whole`), and the words are sorted by instruction; so taking out one instruction
moves everything behind it and nothing else. The sections stay in the order of
their first addresses, apart and on their pages (`Apart`, `OnePage`), because those
behind the deletion on its page move by its length and none in front does. The window holds the
relocations before `reloc_curr`, the newest first and without a gap
(`Shows`, `Descends`, `Gapless`). `Given` is what the rules hand to
`_destroy_insn_and_update_addr`: a selection in the window, and another word of the
section that stays, so that no section becomes empty. Labels move once for each
section because the arrays leave out those that a relocation has moved and
flagged. The order of instructions is an induction over sizes, in the form of a
least counterexample (`LeastOf`, `GoesOn`). It rests on `InputAssumption`: pages are not
empty, the placement left sections apart and each within a page, and each
instruction has a word.

**The assembler.** The scopes keep in step with the stack of sources because only the first
context is that of the file (`TextOK`), every context of a macro has opened one table of
symbols and one of parameters (`Balanced`), and closing a context takes off as many. So the
global table is never taken off, and pass 1 ends with it alone; whatever text
loops and macros take up, their bodies are lines of the source. For the addresses, `OutputOK`
says that a table keeps the value of a name that is not set (`KeepsValues`), from the
first label or word that used it to the end: `PlacesKept` for the labels of pass 2, unless
the comparison in `set_global` has reported an error, and `WordsKept` for what was
emitted. `SymbolsOK` makes the table in which a name is found one that has the
name (`Found`). Both theorems have no condition on the source.

The stack of conditionals is compared with the text as follows. `Balance` counts the
conditionals that a range of lines opens and does not close, and the number
of a conditional from the top of the stack is the balance of the lines since it
was opened (`Nesting`). `Modes` gives each `amode_t` its meaning: `upper` says
that all conditionals outside choose the branch of the line (`Reached`), and if it holds,
`before` that an earlier branch held (`Held`), and `enabled` that this branch is chosen. A branch
that comes up changes the innermost conditional only (`BranchAt`), and the step of
each directive keeps all of this from a line to the next (`IfConds`, `BranchConds`,
`EndifConds`); an `else` needs that it is the last branch (`ElseIsLast`), which
`WellFormed` says and the code does not check (section 4). Where `upper` does not hold the code leaves the other
fields as they are, and so does the invariant. The instructions that pass 2 has emitted are those
before the line that the text selects (`Selected`). Depth and length of the text are not bounded.

Only model-checked are:

* liveness (`Termination`, `Terminates`, `TerminatesIfMatching`), because the prover has no
  `ENABLED`; the two refinements are of specifications without fairness;
* `WrittenIsRead`: `HexFile` uses the community module of bitwise operators, from
  which nothing can be proved, and its promise is one about sums of all bytes of a line, an
  induction over data;
* the three properties of `SymbolQueue`: a flush empties the queue up to a marker
  with a fold, and the numbers of pass 2 are what the folds of all lines add up
  to, an induction over data;
* `EntriesKeepSelection`: whether a selection is protected hangs on the label that
  the search finds and on counters of references, so an invariant would have to
  carry the number of branches to each address through every deletion;
* `PassesAgree`: it relates two passes over one text, each a run of its own with
  its tables, and an invariant would have to hold the history of the first.

## 6. What is not modelled

File formats other than hex (COFF, archive headers), parsing, listings and
messages: input and output whose faults are not faults of order or state.
Generated tables (`gpreg-table.c`, `gpcfg-table.c`, the bulk of the lines of
`libgputils`), the tables of instructions and the functions that look things up in
them keep no state. Vendored code. `gp_hash`, `gplist` and the sorts stand behind the
functions, sequences and sets of the modules. Of the directives of gpasm
the ones that steer the two passes are modelled; those of data, sections, messages,
processors and configuration each do one thing to memory or to the object.
`gpvo`, `gpvc` and `gpdasm` print what they read; `gpstrip` edits one object once.
In the modelled parts: the lines of `Assembler` are of one
file; `macro_push_symbol_table` compares numbers of lines only (`macro.c:126`), so with
includes two calls on lines of one number in different files would look the same
to it. `gp_cofflink_make_stack`
chooses a place for the stack by its own search, of which only the symbols are
modelled; line numbers move like relocations and are left out; instruction
encodings in `_patch_addr` are one patch each. One read of an uninitialised value is known
(the index in `gp_coffgen_make_symbol_array`) and waits for a module of the COFF
lists. In the optimisers, the widths of encodings and the bank of a register are
data: a register is its bank.

## 7. Plan

Done: the linker from its files to its addresses with its optimisers, where a
wrong decision makes a wrong program without a message; then the librarian, the
two passes of the assembler, its symbol numbers, and hex files. Next, in this order:

1. Proofs: `SymbolQueue` (`RelocationsFindSymbols`: the count of pass 1 and the size
   of the object plus the queue agree), with the queue as a function in place of the
   fold; `PassesAgree`, with a history of the first pass; `EntriesKeepSelection`, with the
   branches to each address.
2. `LinkerPasses`: the composition of `CoffMerge`, `SectionPlacement` and
   `CodeOptimizer` on the hand-over of addresses (`gplink.c:1019-1029`).
3. Blocks of `gpmemory.c` that implement a function from addresses to bytes, with
   deletion across a block boundary; nested and guest tables of `gpsym.c` on their
   own.
