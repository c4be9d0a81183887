--------------------------- MODULE SectionPlacement ---------------------------
(***************************************************************************)
(* How gplink gives the sections of the combined object their addresses    *)
(* (the middle of _linker in gplink.c and the gp_cofflink_reloc_* passes): *)
(* absolute sections first, then the .cinit table when MPLINK is imitated, *)
(* then the sections that the script assigns to a section definition, then *)
(* all others, each pass over program memory before data memory; finally   *)
(* the symbols get their values and unused program memory is filled.       *)
(*                                                                         *)
(* Addresses and sizes are in bytes.  An error is reported and counted,    *)
(* but the passes that follow it run nevertheless.                         *)
(***************************************************************************)
EXTENDS MemorySearch, Sequences, FiniteSets

CONSTANTS Input   \* the objects and linker scripts explored

Area == {"rom", "ram"}
Kind == {"code", "access", "shared", "data"}

\* A section of the object, with one symbol that stands for all its symbols.
Section ==
    [kind    : Kind,
     size    : Nat,
     abs     : BOOLEAN,   \* STYP_ABS
     address : Nat,
     logical : Nat,       \* the definition the script assigns it to, or 0
     cinit   : BOOLEAN,   \* its name is ".cinit"
     plain   : BOOLEAN,   \* not at an address of idlocs, config or eeprom
     fill    : Nat,       \* n if its name is ".fill_n", else 0
     symbol  : Nat]       \* offset of its symbol, in the unit of symbol values

\* A section definition of the script (linker_section_t).  Shadow addresses
\* are real addresses moved by a constant.
Definition ==
    [kind      : Kind,
     start     : Nat,
     end       : Nat,
     protected : BOOLEAN,
     shift     : Int,
     fill      : BOOLEAN]

\* A section that gp_cofflink_fill_pages makes for a block of a definition.
Fill == [def : Nat, block : Block]

InputType ==
    [sections    : Seq(Section),
     definitions : Seq(Definition),  \* in the order of their start addresses
     pic16e      : BOOLEAN,          \* class PIC16E: program memory is counted in bytes
     mplink      : BOOLEAN,          \* --mplink-compatible
     useShared   : BOOLEAN]          \* --use-shared

ASSUME InputAssumption ==
    /\ Input \subseteq InputType
    /\ \A inp \in Input :
        /\ \A i, j \in DOMAIN inp.definitions :
              i < j => inp.definitions[i].start <= inp.definitions[j].start
        /\ \A i \in DOMAIN inp.definitions :
              /\ inp.definitions[i].start + inp.definitions[i].shift >= 0
              /\ inp.definitions[i].end + inp.definitions[i].shift >= 0
        /\ \A i \in DOMAIN inp.sections :
              /\ inp.sections[i].logical \in {0} \cup DOMAIN inp.definitions
              /\ inp.sections[i].cinit => inp.sections[i].kind = "code"

\* Program memory of the other classes consists of words of two bytes; the count
\* in .cinit takes two bytes and each entry twelve; and only absolute sections
\* know that they lie in idlocs, config or eeprom.
ASSUME SizeAssumption ==
    \A inp \in Input : \A i \in DOMAIN inp.sections : inp.sections[i].kind = "code" =>
        /\ (~inp.pic16e \/ inp.sections[i].cinit) => inp.sections[i].size % 2 = 0
        /\ inp.sections[i].cinit => inp.sections[i].size >= 2
        /\ ~inp.sections[i].abs => inp.sections[i].plain

VARIABLES
    input,
    phase,      \* the pass of the linker that runs
    used,       \* the memories "program" and "data": bytes allocated
    relocated,  \* sections with STYP_RELOC
    address,    \* section -> its real address
    shadow,     \* section -> its address in the memory "program" or "data"
    value,      \* section -> value of its symbol
    fillNext,   \* the definition that gp_cofflink_fill_pages looks at
    fills,      \* the sections it has created, ".fill_1" first
    errors      \* gp_num_errors > 0

vars == <<input, phase, used, relocated, address, shadow, value, fillNext, fills, errors>>

Phases == <<"absRom", "absRam", "cinit", "assignedRom", "assignedRam",
            "unassignedRom", "unassignedRam", "update", "fill", "done">>

UpdatePhase == 8

AreaOfPhase ==
    IF Phases[phase] \in {"absRam", "assignedRam", "unassignedRam"} THEN "ram" ELSE "rom"

Sections    == DOMAIN input.sections
Definitions == DOMAIN input.definitions
Sec(i)      == input.sections[i]
Def(d)      == input.definitions[d]
AreaOf(i)   == IF Sec(i).kind = "code" THEN "rom" ELSE "ram"

-----------------------------------------------------------------------------
(***************************************************************************)
(* Helpers                                                                 *)
(***************************************************************************)
\* An odd number of code bytes on PIC16E takes up one byte more, except in
\* the areas of idlocs, config and eeprom.
OddCode(i) ==
    /\ input.pic16e
    /\ Sec(i).kind = "code"
    /\ Sec(i).size % 2 = 1
    /\ Sec(i).plain

Aligned(i) == Sec(i).size + (IF OddCode(i) THEN 1 ELSE 0)

\* gp_cofflink_reloc_assigned aligns absolute sections only.
AlignedIfAbsolute(i) == IF Sec(i).abs THEN Aligned(i) ELSE Sec(i).size

\* Mutant of SetUsed: the last byte is not marked.
SetUsedButLast(area, a, n) ==
    LET conflicts == {c \in a .. (a + n - 1) : c \in used[area]}
        marked    == {c \in a .. (a + n - 2) : \A k \in conflicts : c < k}
    IN  /\ used' = [used EXCEPT ![area] = @ \cup marked]
        /\ errors' = (errors \/ conflicts # {})

\* _set_used marks byte after byte and stops with an error at a used one.
SetUsed(area, a, n) ==
    LET conflicts == {c \in a .. (a + n - 1) : c \in used[area]}
        marked    == {c \in a .. (a + n - 1) : \A k \in conflicts : c < k}
    IN  /\ used' = [used EXCEPT ![area] = @ \cup marked]
        /\ errors' = (errors \/ conflicts # {})

Pending == {i \in Sections \ relocated : AreaOf(i) = AreaOfPhase}

\* The biggest section of a set, the first of several.
Biggest(S) == {i \in S : \A j \in S : \/ Sec(i).size > Sec(j).size
                                      \/ Sec(i).size = Sec(j).size /\ i <= j}

\* Mutant of Start: maps the other way.
StartUnmapped(d) == Def(d).start - Def(d).shift

\* Bounds of a definition in the memory that is searched.
Start(d) == Def(d).start + Def(d).shift
Stop(d)  == Def(d).end + Def(d).shift

\* Section i goes to address a of the searched memory, in definition d.
Place(i, d, a, n) ==
    /\ shadow' = [shadow EXCEPT ![i] = a]
    /\ address' = [address EXCEPT ![i] = a - Def(d).shift]
    /\ relocated' = relocated \cup {i}
    /\ SetUsed(AreaOf(i), a, n)

\* Mutant of GiveUp: a warning instead of an error.
GiveUpSilently ==
    /\ phase' = phase + 1
    /\ UNCHANGED <<used, relocated, address, shadow, errors>>

\* gp_error, and the pass is over.
GiveUp ==
    /\ errors' = TRUE
    /\ phase' = phase + 1
    /\ UNCHANGED <<used, relocated, address, shadow>>

-----------------------------------------------------------------------------
Init ==
    /\ input \in Input
    /\ phase = 1
    /\ used = [a \in Area |-> {}]
    /\ relocated = {}
    /\ address = [i \in Sections |-> Sec(i).address]
    /\ shadow = address
    /\ value = [i \in Sections |-> Sec(i).symbol]
    /\ fillNext = 1
    /\ fills = << >>
    /\ errors = FALSE

\* gp_cofflink_reloc_abs: in the order of the list.
RelocAbs ==
    /\ Phases[phase] \in {"absRom", "absRam"}
    /\ \E i \in Pending :
        /\ Sec(i).abs
        /\ \A j \in Pending : Sec(j).abs => i <= j
        /\ SetUsed(AreaOf(i), Sec(i).address, Aligned(i))
        /\ relocated' = relocated \cup {i}
    /\ UNCHANGED <<input, phase, address, shadow, value, fillNext, fills>>

\* Mutant of CinitPlaces: takes the best fit, as for other sections.
CinitBestFit(i) ==
    UNION {{[def |-> d, block |-> b] : b \in SmallestBlock(used["rom"], Start(d), Stop(d), Sec(i).size)} :
            d \in {e \in Definitions : Def(e).kind = "code" /\ ~Def(e).protected}}

\* gp_cofflink_reloc_cinit: the lowest address of the unprotected code pages
\* where a large enough block begins.
CinitPlaces(i) ==
    UNION {{[def |-> d, block |-> b] : b \in FirstBlock(used["rom"], Start(d), Stop(d), Sec(i).size)} :
            d \in {e \in Definitions : Def(e).kind = "code" /\ ~Def(e).protected}}

CinitSections == {i \in Sections : Sec(i).cinit}

RelocCinit ==
    /\ Phases[phase] = "cinit"
    /\ input.mplink
    /\ \E i \in CinitSections \ relocated :
        /\ \A j \in CinitSections : i <= j
        /\ IF CinitPlaces(i) = {} THEN GiveUp
           ELSE /\ \E p \in CinitPlaces(i) :
                     /\ \A q \in CinitPlaces(i) :
                          \/ p.block.address < q.block.address
                          \/ p.block.address = q.block.address /\ p.def <= q.def
                     /\ Place(i, p.def, p.block.address, Sec(i).size)
                /\ phase' = phase + 1
    /\ UNCHANGED <<input, value, fillNext, fills>>

\* gp_cofflink_reloc_assigned: the biggest section first.
Assigned == {i \in Pending : Sec(i).logical # 0}

RelocAssigned ==
    /\ Phases[phase] \in {"assignedRom", "assignedRam"}
    /\ \E i \in Biggest(Assigned) :
        LET d == Sec(i).logical
            n == AlignedIfAbsolute(i)
            blocks == SmallestBlock(used[AreaOf(i)], Start(d), Stop(d), n)
        IN  \/ /\ \E b \in blocks : Place(i, d, b.address, n)
               /\ UNCHANGED phase
            \/ blocks = {} /\ GiveUp
    /\ UNCHANGED <<input, value, fillNext, fills>>

\* Mutants of Places: protected memory is used, or only the first definition.
PlacesEverywhere(i, kind) ==
    UNION {{[def |-> d, block |-> b] :
             b \in SmallestBlock(used[AreaOf(i)], Start(d), Stop(d), Aligned(i))} :
            d \in {e \in Definitions : Def(e).kind = kind}}

PlacesInFirst(i, kind) ==
    UNION {{[def |-> d, block |-> b] :
             b \in SmallestBlock(used[AreaOf(i)], Start(d), Stop(d), Aligned(i))} :
            d \in {e \in Definitions : /\ Def(e).kind = kind /\ ~Def(e).protected
                                       /\ \A c \in 1 .. (e - 1) : Def(c).kind # kind}}

\* gp_cofflink_reloc_unassigned: the smallest block of all unprotected
\* definitions of the kind, the first of several.
Places(i, kind) ==
    UNION {{[def |-> d, block |-> b] :
             b \in SmallestBlock(used[AreaOf(i)], Start(d), Stop(d), Aligned(i))} :
            d \in {e \in Definitions : Def(e).kind = kind /\ ~Def(e).protected}}

\* Data that fits no bank may go to shared memory with --use-shared.
KindFor(i) ==
    IF Places(i, Sec(i).kind) = {} /\ input.useShared /\ Sec(i).kind = "data"
    THEN "shared" ELSE Sec(i).kind

RelocUnassigned ==
    /\ Phases[phase] \in {"unassignedRom", "unassignedRam"}
    /\ \E i \in Biggest(Pending) :
        LET places == Places(i, KindFor(i))
        IN  \/ /\ \E p \in places :
                    /\ \A q \in places : \/ p.block.size < q.block.size
                                         \/ p.block.size = q.block.size /\ p.def <= q.def
                    /\ Place(i, p.def, p.block.address, Aligned(i))
               /\ UNCHANGED phase
            \/ places = {} /\ GiveUp
    /\ UNCHANGED <<input, value, fillNext, fills>>

\* A pass ends when it finds no section to work on.
Idle ==
    CASE Phases[phase] \in {"absRom", "absRam"} -> \A i \in Pending : ~Sec(i).abs
      [] Phases[phase] = "cinit" ->
            \/ ~input.mplink
            \/ CinitSections = {}
            \/ \E i \in CinitSections \cap relocated : \A j \in CinitSections : i <= j
      [] Phases[phase] \in {"assignedRom", "assignedRam"} -> Assigned = {}
      [] Phases[phase] \in {"unassignedRom", "unassignedRam"} -> Pending = {}
      [] OTHER -> FALSE

NextPass ==
    /\ Idle
    /\ phase' = phase + 1
    /\ UNCHANGED <<input, used, relocated, address, shadow, value, fillNext, fills, errors>>

\* gp_cofflink_update_table: symbols become addresses, counted in instructions
\* in program memory, and the flags STYP_RELOC are removed.
UpdateTable ==
    /\ Phases[phase] = "update"
    /\ value' = [i \in Sections |->
          IF Sec(i).abs THEN value[i]
          ELSE value[i] + (IF Sec(i).kind = "code" /\ ~input.pic16e
                           THEN address[i] \div 2 ELSE address[i])]
    /\ relocated' = {}
    /\ phase' = phase + 1
    /\ UNCHANGED <<input, used, address, shadow, fillNext, fills, errors>>

\* Mutant of FillBlocks: protected pages are left alone.
FillUnprotected(d) ==
    IF Def(d).kind = "code" /\ Def(d).fill /\ ~Def(d).protected
    THEN SmallestBlock(used["rom"], Start(d), Stop(d), 1) ELSE {}

\* gp_cofflink_fill_pages: a section for each block of unused bytes of the
\* code pages that have a fill value.
FillBlocks(d) ==
    IF Def(d).kind = "code" /\ Def(d).fill
    THEN SmallestBlock(used["rom"], Start(d), Stop(d), 1) ELSE {}

FillNameTaken == \E i \in Sections : Sec(i).fill = Len(fills) + 1

FillPage ==
    /\ Phases[phase] = "fill"
    /\ fillNext \in Definitions
    /\ ~FillNameTaken
    /\ \E b \in FillBlocks(fillNext) :
        /\ fills' = Append(fills, [def |-> fillNext, block |-> b])
        /\ SetUsed("rom", b.address, b.size)
    /\ UNCHANGED <<input, phase, relocated, address, shadow, value, fillNext>>

\* "Fill section already exists": the object has a section of that name.
RefuseFill ==
    /\ Phases[phase] = "fill"
    /\ fillNext \in Definitions
    /\ FillNameTaken
    /\ FillBlocks(fillNext) # {}
    /\ GiveUp
    /\ UNCHANGED <<input, value, fillNext, fills>>

NextPage ==
    /\ Phases[phase] = "fill"
    /\ IF fillNext \in Definitions
       THEN /\ FillBlocks(fillNext) = {}
            /\ fillNext' = fillNext + 1
            /\ UNCHANGED phase
       ELSE phase' = phase + 1 /\ UNCHANGED fillNext
    /\ UNCHANGED <<input, used, relocated, address, shadow, value, fills, errors>>

Next ==
    \/ RelocAbs \/ RelocCinit \/ RelocAssigned \/ RelocUnassigned
    \/ NextPass \/ UpdateTable \/ FillPage \/ RefuseFill \/ NextPage

\* One sequential process that runs to its end.
Spec == Init /\ [][Next]_vars /\ WF_vars(Next)
-----------------------------------------------------------------------------
(***************************************************************************)
(* Properties                                                              *)
(***************************************************************************)
\* Every variable keeps its shape.
TypeOK ==
    /\ input \in InputType
    /\ phase \in DOMAIN Phases
    /\ used \in [Area -> SUBSET Nat]
    /\ relocated \subseteq Sections
    /\ address \in [Sections -> Int]
    /\ shadow \in [Sections -> Nat]
    /\ value \in [Sections -> Int]
    /\ fillNext \in Nat \ {0}
    /\ fills \in Seq(Fill)
    /\ errors \in BOOLEAN

\* The flag STYP_RELOC is gone after gp_cofflink_update_table; from there on
\* every section counts as placed.
Placed == IF phase > UpdatePhase THEN Sections ELSE relocated

\* The bytes that a section takes of the memory "program" or "data", where a
\* shadow stands for the bank that it is the shadow of, and its real addresses.
Extent(i) == shadow[i] .. (shadow[i] + Sec(i).size - 1)
Bytes(i)  == address[i] .. (address[i] + Sec(i).size - 1)

\* The same for the section of a fill.
FillExtent(f) == f.block.address .. (f.block.address + f.block.size - 1)
FillBytes(f)  == (f.block.address - Def(f.def).shift)
                     .. (f.block.address - Def(f.def).shift + f.block.size - 1)

\* No byte of the memories "program" and "data" is given away twice.
MapIsDisjoint ==
    ~errors =>
        /\ \A i, j \in Placed :
              (i # j /\ AreaOf(i) = AreaOf(j)) => Extent(i) \cap Extent(j) = {}
        /\ \A i \in Placed, n \in DOMAIN fills :
              AreaOf(i) = "rom" => Extent(i) \cap FillExtent(fills[n]) = {}
        /\ \A m, n \in DOMAIN fills :
              m # n => FillExtent(fills[m]) \cap FillExtent(fills[n]) = {}

\* The script says of an address in one way which byte of the memory it is, and
\* assigns sections to their own memory.
AreaOfDefinition(d) == IF Def(d).kind = "code" THEN "rom" ELSE "ram"
Covers(d)           == Def(d).start .. Def(d).end

ClearScript ==
    /\ \A d, e \in Definitions :
          (AreaOfDefinition(d) = AreaOfDefinition(e) /\ Covers(d) \cap Covers(e) # {})
              => Def(d).shift = Def(e).shift
    /\ \A i \in Sections :
          Sec(i).logical # 0 => AreaOfDefinition(Sec(i).logical) = AreaOf(i)

\* gp_cofflink_reloc_abs marks the address of a section itself, not its shadow:
\* in a definition with a shadow the other passes do not see what it marks.
InShadow(i) ==
    /\ Sec(i).abs
    /\ \E d \in Definitions :
          /\ AreaOfDefinition(d) = AreaOf(i)
          /\ Def(d).shift # 0
          /\ Covers(d) \cap Bytes(i) # {}

\* No real address is given away twice, but for those of absolute sections in
\* definitions with a shadow.
AddressesAreDisjoint ==
    (~errors /\ ClearScript) =>
        /\ \A i, j \in Placed :
              (i # j /\ AreaOf(i) = AreaOf(j) /\ ~InShadow(i) /\ ~InShadow(j))
                  => Bytes(i) \cap Bytes(j) = {}
        /\ \A i \in Placed, n \in DOMAIN fills :
              (AreaOf(i) = "rom" /\ ~InShadow(i)) => Bytes(i) \cap FillBytes(fills[n]) = {}
        /\ \A m, n \in DOMAIN fills :
              m # n => FillBytes(fills[m]) \cap FillBytes(fills[n]) = {}

\* In a link without errors no two sections share a byte, fill sections included,
\* whichever pass placed them: not in the memory that is searched, and not by
\* their real addresses either, unless an absolute section is in a definition
\* with a shadow, where gplink lays others over it and reports nothing.
NoOverlap == MapIsDisjoint /\ AddressesAreDisjoint

\* A section that the linker placed lies in one definition of the script: the
\* one it is assigned to, or an unprotected one of its kind, or, for data with
\* --use-shared, an unprotected shared one.
Accepts(d, i) ==
    \/ Sec(i).logical = d
    \/ /\ ~Def(d).protected
       /\ \/ Def(d).kind = Sec(i).kind
          \/ Def(d).kind = "shared" /\ Sec(i).kind = "data" /\ input.useShared

LiesIn(i, d) ==
    /\ Accepts(d, i)
    /\ Def(d).start <= address[i]
    /\ address[i] + Sec(i).size - 1 <= Def(d).end
    /\ shadow[i] = address[i] + Def(d).shift

InsideDefinition ==
    \A i \in relocated : ~Sec(i).abs => \E d \in Definitions : LiesIn(i, d)

\* No section is forgotten: when the symbols get their values, either every
\* section has its address or an error was reported.
NothingForgotten == (phase = UpdatePhase /\ ~errors) => relocated = Sections

\* Imitating MPLINK, ".cinit initialized data section is generated at the lowest
\* possible address in the nonvolatile program memory".
CinitIsLowest ==
    [][\A i \in CinitSections :
          (Phases[phase] = "cinit" /\ i \in relocated' \ relocated) =>
              \A d \in Definitions :
                  (Def(d).kind = "code" /\ ~Def(d).protected) =>
                      \A a \in Start(d) .. (Stop(d) - Sec(i).size + 1) :
                          IsFree(used["rom"], a, Sec(i).size) => shadow'[i] <= a]_vars

\* The pass over program memory gives up a section that has code only when no
\* code page has as many unused bytes in a row.
CodeIsRefusedForCause ==
    [][(Phases[phase] = "unassignedRom" /\ phase' # phase /\ \E i \in Pending : Sec(i).size > 0) =>
          \E i \in Pending : Sec(i).size > 0 /\ \A d \in Definitions :
              (Def(d).kind = "code" /\ ~Def(d).protected) =>
                  \A a \in Start(d) .. (Stop(d) - Aligned(i) + 1) :
                      ~IsFree(used["rom"], a, Aligned(i))]_vars

\* Sections of odd size that the script assigns: the code pads them only if
\* they are absolute, which assigned ones never are there.
OddAssigned == \E i \in Sections : Sec(i).logical # 0 /\ ~Sec(i).abs /\ Sec(i).size % 2 = 1

\* A fill value leaves no byte of its code page unused.  Only after odd sections
\* a single last byte may be left, which the search does not report as a block.
PagesAreFull ==
    (Phases[phase] = "done" /\ ~errors /\ ~OddAssigned) =>
        \A d \in Definitions : (Def(d).kind = "code" /\ Def(d).fill) =>
            Start(d) .. Stop(d) \subseteq used["rom"]

\* The "odd size memory problem" in the PIC16E class: no code starts at an odd
\* address in a link without errors and without odd sections that are assigned.
CodeIsAligned ==
    (~errors /\ ~OddAssigned) =>
        \A i \in relocated : (input.pic16e /\ ~Sec(i).abs /\ AreaOf(i) = "rom")
                                    => shadow[i] % 2 = 0

\* Program memory has the shape that the PIC16E and the fill values ask for: code
\* starts at even addresses, and pages with a fill value have no unused byte
\* (the workaround of gp_cofflink_reloc_abs, gp_cofflink_fill_pages).
ProgramIsWellPlaced == PagesAreFull /\ CodeIsAligned

\* The definitions that relocatable code or a fill value uses.
CodeSpace(inp) ==
    {d \in DOMAIN inp.definitions :
        /\ inp.definitions[d].kind = "code"
        /\ \/ ~inp.definitions[d].protected
           \/ inp.definitions[d].fill
           \/ \E i \in DOMAIN inp.sections :
                 inp.sections[i].kind = "code" /\ inp.sections[i].logical = d}

\* What ProgramIsWellPlaced asks of objects and scripts: code pages consist of
\* whole words, code is assigned to code pages only and ordered to even
\* addresses, and odd sections that are not padded lie in idlocs, config words
\* or eeprom, which are no code pages.
EvenMemory ==
    \A inp \in Input :
        /\ \A d \in CodeSpace(inp) :
              /\ (inp.definitions[d].start + inp.definitions[d].shift) % 2 = 0
              /\ (inp.definitions[d].end + inp.definitions[d].shift) % 2 = 1
        /\ \A i \in DOMAIN inp.sections : inp.sections[i].kind = "code" =>
              LET s == inp.sections[i]
              IN  /\ s.logical # 0 => inp.definitions[s.logical].kind = "code"
                  /\ s.abs => s.address % 2 = 0
                  /\ (s.abs /\ ~s.plain /\ s.size % 2 = 1) =>
                        \A d \in CodeSpace(inp) :
                            \/ s.address + s.size <= inp.definitions[d].start + inp.definitions[d].shift
                            \/ inp.definitions[d].end + inp.definitions[d].shift < s.address
=============================================================================
