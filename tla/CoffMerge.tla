------------------------------ MODULE CoffMerge ------------------------------
(***************************************************************************)
(* What gplink does to the sections of the combined object between the     *)
(* resolution of the symbols and the executable: overlays of one name are  *)
(* laid on each other, other sections of one name are joined, initialised  *)
(* data gets a copy in program memory and an entry in the table .cinit,    *)
(* and relocations are patched into the data and the copy.  The placement  *)
(* between these steps is SectionPlacement; a section stands for its       *)
(* address here.                                                           *)
(*                                                                         *)
(* The content of a section is abstracted to where its bytes come from: a  *)
(* cell holds the <<section, offset>> that live at it.  Every section of   *)
(* the input has one symbol and one relocation.                            *)
(***************************************************************************)
EXTENDS Integers, FiniteSets, SequencesExt

CONSTANT Input

\* A stem and how often "_i" follows it; ".cinit" and ".config" (or ".idlocs").
Name      == Nat \X Nat
CopyName(nm) == <<nm[1], nm[2] + 1>>
CinitName == <<0, 0>>
Reserved  == {<<1, 0>>}

Flags == [type : {"code", "udata", "idata"}, overlay : BOOLEAN, absolute : BOOLEAN]

\* label is the value of the section's symbol and ref the address of its
\* relocation, both as offsets in bytes.
Section == [name : Name, flags : Flags, address : Nat, size : Nat, label : Nat, ref : Nat]

ObjectType == [sections : Seq(Section), pic16e : BOOLEAN, mplink : BOOLEAN]

ASSUME InputAssumption ==
    /\ Input \subseteq ObjectType
    /\ \A obj \in Input : \A s \in DOMAIN obj.sections :
        /\ obj.sections[s].name # CinitName
        /\ obj.sections[s].flags.overlay => obj.sections[s].flags.type = "udata"
        \* except on PIC16E code is made of whole words of two bytes
        /\ (obj.sections[s].flags.type = "code" /\ ~obj.pic16e) =>
              obj.sections[s].size % 2 = 0 /\ obj.sections[s].label % 2 = 0

VARIABLES
    object,   \* the objects as they were read, combined
    list,     \* section_list
    cells,    \* section -> its data
    symbol,   \* the section and value of a symbol; symbol 0 is _cinit
    reloc,    \* relocation -> the section whose list it is in, and its address
    table,    \* the entries of .cinit
    patched,  \* the cells that hold a patched value
    phase,
    errors    \* gp_num_errors # 0

vars == <<object, list, cells, symbol, reloc, table, patched, phase, errors>>

Given   == DOMAIN object.sections
N       == Len(object.sections)
Copy(s) == N + s        \* the section that _create_rom_section makes for s
Cinit   == 2 * N + 1
Ids     == 1 .. Cinit

FlagsOf(s)   == object.sections[s].flags
AddressOf(s) == object.sections[s].address
TypeOf(s) == IF s \in Given THEN FlagsOf(s).type ELSE "rom"
NameOf(s) == IF s \in Given THEN object.sections[s].name
             ELSE IF s = Cinit THEN CinitName ELSE CopyName(object.sections[s - N].name)
SizeOf(s) == Len(cells[s])

HasData(s) == TypeOf(s) \in {"code", "idata", "rom"} /\ SizeOf(s) > 0
InitData   == {s \in Range(list) : TypeOf(s) = "idata"}

\* gp_processor_insn_from_byte_c, for the symbols of code.
InUnits(type, n) == IF type \in {"code", "rom"} /\ ~object.pic16e THEN n \div 2 ELSE n

InBytes(type, v) == IF type \in {"code", "rom"} /\ ~object.pic16e THEN 2 * v ELSE v

\* gp_coffgen_find_section: the positions of the pairs that a search from each
\* section finds under its own name.
Second(i) == {j \in i + 1 .. Len(list) : NameOf(list[j]) = NameOf(list[i])}
Nearest(S) == CHOOSE i \in S : \A j \in S : i <= j

-----------------------------------------------------------------------------
OwnCells(s) == [k \in 1 .. object.sections[s].size |-> {<<s, k - 1>>}]

Init ==
    /\ object \in Input
    /\ list = [k \in Given |-> k]
    /\ cells = [s \in Ids |-> IF s \in Given THEN OwnCells(s) ELSE <<>>]
    /\ symbol = [s \in {0} \cup Given |->
                    IF s = 0 THEN [section |-> 0, value |-> 0]
                    ELSE [section |-> s, value |-> InUnits(TypeOf(s), object.sections[s].label)]]
    /\ reloc = [s \in Given |-> [section |-> s, address |-> object.sections[s].ref]]
    /\ table = <<>>
    /\ patched = {}
    /\ phase = "overlay"
    /\ errors = FALSE

Overlaid == {i \in DOMAIN list : FlagsOf(list[i]).overlay /\ Second(i) # {}}

\* Mutant of Differ: the sizes are compared as well.
DifferInSize(s, t) ==
    \/ FlagsOf(s) # FlagsOf(t)
    \/ FlagsOf(s).absolute /\ AddressOf(s) # AddressOf(t)
    \/ SizeOf(s) # SizeOf(t)

\* The two checks of gp_cofflink_combine_overlay.
Differ(s, t) ==
    \/ FlagsOf(s) # FlagsOf(t)
    \/ FlagsOf(s).absolute /\ AddressOf(s) # AddressOf(t)

\* Mutant of LaidOn: the first section keeps its size.
LaidOnFirst(c, d) == [k \in DOMAIN c |-> c[k] \cup (IF k \in DOMAIN d THEN d[k] ELSE {})]

\* As large as the larger of the two.
LaidOn(c, d) ==
    [k \in DOMAIN c \cup DOMAIN d |->
        (IF k \in DOMAIN c THEN c[k] ELSE {}) \cup (IF k \in DOMAIN d THEN d[k] ELSE {})]

\* One call of gp_cofflink_combine_overlay that finds two sections.  Sections
\* that do not match are reported and, as "first" does not advance, looked at
\* again for ever.
CombineOverlay ==
    /\ phase = "overlay"
    /\ Overlaid # {}
    /\ LET i == Nearest(Overlaid)
           j == Nearest(Second(i))
           s == list[i]
           t == list[j]
       IN  IF Differ(s, t)
           THEN /\ errors' = TRUE
                /\ UNCHANGED <<list, cells, symbol>>
           ELSE /\ list' = RemoveAt(list, j)
                /\ cells' = [cells EXCEPT ![s] = LaidOn(@, cells[t]), ![t] = <<>>]
                /\ symbol' = [y \in DOMAIN symbol |->
                                IF symbol[y].section = t THEN [symbol[y] EXCEPT !.section = s]
                                ELSE symbol[y]]
                /\ UNCHANGED errors
    /\ UNCHANGED <<object, reloc, table, patched, phase>>

EndOverlays ==
    /\ phase = "overlay"
    /\ Overlaid = {}
    /\ phase' = "merge"
    /\ UNCHANGED <<object, list, cells, symbol, reloc, table, patched, errors>>

Repeated == {i \in DOMAIN list : Second(i) # {}}

Unmergeable(s, t) ==
    FlagsOf(s).absolute \/ FlagsOf(t).absolute \/ NameOf(s) \in Reserved

\* Mutant of MovedReloc: it moves to the other section where it is.
SameReloc(r, s, t) == IF r.section = t THEN [r EXCEPT !.section = s] ELSE r

MovedReloc(r, s, t) ==
    IF r.section = t THEN [section |-> s, address |-> r.address + SizeOf(s)] ELSE r

MovedSymbol(y, s, t) ==
    IF y.section = t THEN [section |-> s, value |-> y.value + InUnits(TypeOf(s), SizeOf(s))] ELSE y

\* One call of gp_cofflink_merge_sections that finds two sections of one name.
MergeSections ==
    /\ phase = "merge"
    /\ Repeated # {}
    /\ LET i == Nearest(Repeated)
           j == Nearest(Second(i))
           s == list[i]
           t == list[j]
       IN  IF Unmergeable(s, t)
           THEN /\ errors' = TRUE
                /\ phase' = "exit"
                /\ UNCHANGED <<list, cells, symbol, reloc>>
           ELSE /\ list' = RemoveAt(list, j)
                /\ cells' = [cells EXCEPT ![s] = @ \o cells[t], ![t] = <<>>]
                /\ symbol' = [y \in DOMAIN symbol |-> MovedSymbol(symbol[y], s, t)]
                /\ reloc' = [r \in DOMAIN reloc |-> MovedReloc(reloc[r], s, t)]
                /\ UNCHANGED <<errors, phase>>
    /\ UNCHANGED <<object, table, patched>>

EndMerge ==
    /\ phase = "merge"
    /\ Repeated = {}
    /\ phase' = "idata"
    /\ UNCHANGED <<object, list, cells, symbol, reloc, table, patched, errors>>

\* Where byte k goes in the copy: it becomes a retlw of two bytes except on PIC16E.
PlaceInCopy(k) == IF object.pic16e THEN k ELSE 2 * k

CopySize(n) == IF object.pic16e THEN n + (n % 2) ELSE 2 * n

\* _create_rom_section and _copy_rom_section.
CopiedCells(c) ==
    [p \in 1 .. CopySize(Len(c)) |-> UNION {c[k + 1] : k \in {l \in 0 .. Len(c) - 1 : PlaceInCopy(l) = p - 1}}]

\* gp_cofflink_make_idata: a copy behind every initialised section, and .cinit.
MakeIdata ==
    /\ phase = "idata"
    /\ LET withCopies == FlattenSeq([k \in DOMAIN list |->
                            IF list[k] \in InitData THEN <<list[k], Copy(list[k])>> ELSE <<list[k]>>])
           hasTable   == InitData # {} \/ object.mplink
       IN  /\ list' = IF hasTable THEN Append(withCopies, Cinit) ELSE withCopies
           /\ cells' = [s \in Ids |->
                           IF s = Cinit /\ hasTable
                           THEN [k \in 1 .. (IF object.pic16e THEN 2 ELSE 4) + 12 * Cardinality(InitData) |-> {}]
                           ELSE IF s - N \in InitData THEN CopiedCells(cells[s - N]) ELSE cells[s]]
           /\ symbol' = IF InitData # {} THEN [symbol EXCEPT ![0].section = Cinit] ELSE symbol
    /\ phase' = "table"
    /\ UNCHANGED <<object, reloc, table, patched, errors>>

Find(nm) == list[Nearest({i \in DOMAIN list : NameOf(list[i]) = nm})]

\* gp_cofflink_add_cinit_section: the copy is looked up by its name.
AddCinitSection ==
    /\ phase = "table"
    /\ table' = LET inits == FlattenSeq([k \in DOMAIN list |->
                                IF list[k] \in InitData THEN <<list[k]>> ELSE <<>>])
                IN  [k \in DOMAIN inits |->
                        [from |-> Find(CopyName(NameOf(inits[k]))), to |-> inits[k], size |-> SizeOf(inits[k])]]
    /\ phase' = "patch"
    /\ UNCHANGED <<object, list, cells, symbol, reloc, patched, errors>>

\* _patch_addr, for all relocations of a section.
PatchesOf(s) == {<<s, reloc[r].address>> : r \in {q \in Given : reloc[q].section = s}}

\* Mutant of CopyPatches: the copy keeps what it got before.
CopyNoPatches(s, t) == {}

\* _copy_rom_section of a patched section.
CopyPatches(s, t) == {<<t, PlaceInCopy(p[2])>> : p \in PatchesOf(s)}

\* gp_cofflink_patch: every section with data, the copy behind an initialised one.
Patch ==
    /\ phase = "patch"
    /\ patched' = UNION {PatchesOf(list[i]) \cup
                            (IF list[i] \in InitData THEN CopyPatches(list[i], list[i + 1]) ELSE {}) :
                         i \in {j \in DOMAIN list : HasData(list[j])}}
    /\ phase' = "done"
    /\ UNCHANGED <<object, list, cells, symbol, reloc, table, errors>>

Next ==
    \/ CombineOverlay \/ EndOverlays
    \/ MergeSections \/ EndMerge
    \/ MakeIdata \/ AddCinitSection \/ Patch

\* One sequential process that runs to its end.
Spec == Init /\ [][Next]_vars /\ WF_vars(Next)
-----------------------------------------------------------------------------
(***************************************************************************)
(* Properties                                                              *)
(***************************************************************************)
SameName(s, t) == object.sections[s].name = object.sections[t].name

\* Sections of one name have the same flags: only then the steps make sense.
Agreed == \A s, t \in Given : SameName(s, t) => FlagsOf(s) = FlagsOf(t)

\* No section of the program is called like the copy of another one.
OwnNames == \A s, t \in Given : object.sections[s].name # CopyName(object.sections[t].name)

\* Every variable keeps its shape.
TypeOK ==
    /\ object \in ObjectType
    /\ list \in Seq(Ids)
    /\ cells \in [Ids -> Seq(SUBSET (Given \X Nat))]
    /\ symbol \in [{0} \cup Given -> [section : {0} \cup Ids, value : Nat]]
    /\ reloc \in [Given -> [section : Given, address : Nat]]
    /\ table \in Seq([from : Ids, to : Ids, size : Nat])
    /\ patched \subseteq Ids \X Nat
    /\ phase \in {"overlay", "merge", "idata", "table", "patch", "done", "exit"}
    /\ errors \in BOOLEAN

\* The cell of a section at an offset in bytes.
CellAt(s, n) == IF n + 1 \in DOMAIN cells[s] THEN cells[s][n + 1] ELSE {}

\* Laying and joining sections keeps every symbol at the byte that it named in
\* its object, whatever unit the class counts code in.
SymbolsFollowTheirBytes ==
    Agreed => \A s \in Given :
        object.sections[s].label < object.sections[s].size =>
            <<s, object.sections[s].label>>
                \in CellAt(symbol[s].section, InBytes(TypeOf(symbol[s].section), symbol[s].value))

\* And every relocation of a section with data at the byte it will patch.
RelocationsFollowTheirBytes ==
    \A s \in Given :
        (~FlagsOf(s).overlay /\ object.sections[s].ref < object.sections[s].size) =>
            <<s, object.sections[s].ref>> \in CellAt(reloc[s].section, reloc[s].address)

\* Symbols and relocations follow their bytes through every step
\* (gp_cofflink_combine_overlay, gp_cofflink_merge_sections).
ReferencesFollowTheirBytes == SymbolsFollowTheirBytes /\ RelocationsFollowTheirBytes

\* The cells of a byte in the sections that are not copies.
Homes(s, k) == UNION {{<<t, n>> : n \in {m \in DOMAIN cells[t] : <<s, k>> \in cells[t][m]}} : t \in Given}

\* Every byte that an object brought is at exactly one place of one section that
\* is still on the list.
EveryByteOnce ==
    \A s \in Given : \A k \in 0 .. object.sections[s].size - 1 :
        \E h \in Homes(s, k) : Homes(s, k) = {h} /\ h[1] \in Range(list)

\* Two sections share memory only as overlays of one name, and then byte for byte.
OnlyOverlaysShare ==
    \A t \in Given : \A n \in DOMAIN cells[t] : \A b, c \in cells[t][n] :
        b # c => /\ SameName(b[1], c[1])
                 /\ FlagsOf(b[1]).overlay /\ FlagsOf(c[1]).overlay
                 /\ b[2] = c[2]

\* Memory is laid out once: no byte is lost, doubled or shared by accident, though
\* sections are appended, laid on each other and taken off the list.
MemoryIsLaidOnce == TypeOK /\ EveryByteOnce /\ OnlyOverlaysShare

\* The start code of the program finds, for every byte of initialised data, the
\* table entry that copies it from program memory to where its symbols are.
TableFindsCopies ==
    (phase = "done" /\ Agreed /\ OwnNames) =>
        \A s \in Given : FlagsOf(s).type = "idata" =>
            \E e \in DOMAIN table :
                /\ table[e].to = symbol[s].section
                /\ table[e].size = SizeOf(table[e].to)
                /\ \A d \in DOMAIN table : table[d].to = table[e].to => d = e
                /\ \A n \in 1 .. table[e].size :
                    cells[table[e].to][n] = CellAt(table[e].from, (IF object.pic16e THEN n - 1 ELSE 2 * (n - 1)))

\* "It is copied again later to ensure that any patched data is updated in the
\* ROM section": the copy has the patched bytes of the section and no others.
CopiesArePatched ==
    phase = "done" =>
        \A i \in DOMAIN list : list[i] \in InitData =>
            \A n \in 1 .. SizeOf(list[i]) :
                (<<list[i], n - 1>> \in patched) = (<<Copy(list[i]), (IF object.pic16e THEN n - 1 ELSE 2 * (n - 1))>> \in patched)

\* The start code copies initialised data as it was patched: table, copies and
\* patches agree (gp_cofflink_make_idata, gp_cofflink_patch).
DataIsInitialised == TableFindsCopies /\ CopiesArePatched

\* Sections of one name are combined, refused or reported, and the linker ends.
Terminates == <>(phase \in {"done", "exit"})

\* Overlays of one name have the same flags and the same address, if they have one.
MatchingOverlays ==
    \A s, t \in Given : (SameName(s, t) /\ FlagsOf(s).overlay) =>
        FlagsOf(s) = FlagsOf(t) /\ (FlagsOf(s).absolute => AddressOf(s) = AddressOf(t))

\* As long as overlays match: others keep gp_cofflink_combine_overlay in its loop.
TerminatesIfMatching == MatchingOverlays => Terminates
=============================================================================
