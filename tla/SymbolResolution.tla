-------------------------- MODULE SymbolResolution --------------------------
(***************************************************************************)
(* How gplink decides which object modules make up the program: the files  *)
(* of the command line are opened, the external symbols of the objects are *)
(* entered one by one in the tables of definitions and of missing symbols, *)
(* the archives are searched round after round for members that define a   *)
(* missing symbol, and the symbols that the linker creates itself are      *)
(* added (gplink.c, the first third of gpcofflink.c).                      *)
(*                                                                         *)
(* An object module is its list of external symbols in file order.  Names  *)
(* that start with a dot, local symbols and section contents play no part. *)
(* The missing table is kept sorted by a hash of the name, so the order in *)
(* which it is walked is arbitrary: it is left open here.                  *)
(***************************************************************************)
EXTENDS Integers, Sequences, FiniteSets

CONSTANTS
    Symbol,        \* names of external symbols
    Module,        \* object modules: files of the command line, archive members
    Class,         \* processor classes
    CInit,         \* the symbol "_cinit"
    StackSymbols,  \* the symbols "_stack" and "_stack_end"
    NoModule,      \* what a failed lookup in an archive index returns
    Input          \* the command lines explored

Entry == [name : Symbol, undef : BOOLEAN, reloc : BOOLEAN]

\* A file of the command line: an object (one module) or an archive.
File == [archive : BOOLEAN, members : Seq(Module), indexed : BOOLEAN]

InputType ==
    [files  : Seq(File),
     symtab : [Module -> Seq(Entry)],
     class  : [Module -> Class],
     idata  : SUBSET Module,      \* modules with an initialized-data section
     stack  : BOOLEAN,            \* the script or an option asks for a stack
     weak   : BOOLEAN]            \* state.optimize.weak_symbols

ASSUME SymbolAssumption ==
    /\ CInit \in Symbol
    /\ StackSymbols \subseteq Symbol
    /\ NoModule \notin Module

ASSUME InputAssumption ==
    /\ Input \subseteq InputType
    /\ \A inp \in Input : \A k \in DOMAIN inp.files : inp.files[k].members # << >>

VARIABLES
    input,       \* the command line of this run, never written
    pc,
    todo,        \* files of the command line not opened yet
    objects,     \* state.object: the linked list of loaded objects
    archives,    \* state.archives
    definition,  \* state.symbol.extern_global: symbol -> object that defines it
    missing,     \* state.symbol.missing
    cursor,      \* object and symbol that gp_cofflink_add_symbols stands at
    arlist,      \* archive being searched, 0 before the search
    index,       \* state.symbol.archive: symbol -> member that defines it
    modified,    \* an object was loaded in this round over the archives
    own,         \* symbols the linker has put at the end of the symbol table
    errors       \* gp_num_errors

tables == <<definition, missing, cursor>>
search == <<arlist, index, modified>>
vars   == <<input, pc, todo, objects, archives, tables, search, own, errors>>

NotDefined == -1
ByLinker   == 0      \* the linker enters its own symbols with no file

PC == {"open", "objects", "archive", "index", "member", "check", "make",
       "clean", "linked", "rejected", "unresolved", "noindex", "dangling"}

-----------------------------------------------------------------------------
(***************************************************************************)
(* Objects and archives                                                    *)
(***************************************************************************)
IsWeak(e) == e.undef /\ ~e.reloc

\* gp_coffopt_remove_weak moves a weak symbol to the list of dead symbols and
\* then follows the link of the moved node, which is NULL: one is removed.
RemoveWeak(syms) ==
    LET weak  == {i \in DOMAIN syms : IsWeak(syms[i])}
        first == CHOOSE i \in weak : \A j \in weak : i <= j
    IN  IF weak = {} THEN syms
        ELSE SubSeq(syms, 1, first - 1) \o SubSeq(syms, first + 1, Len(syms))

LoadedSymbols(m) ==
    IF input.weak THEN RemoveWeak(input.symtab[m]) ELSE input.symtab[m]

NamesOf(syms, undef) ==
    {syms[i].name : i \in {j \in DOMAIN syms : syms[j].undef = undef}}

Defines(m)    == NamesOf(input.symtab[m], FALSE)
References(m) == NamesOf(LoadedSymbols(m), TRUE)

\* The index of an archive names the first member that defines a symbol.
ArchiveIndex(members) ==
    [s \in Symbol |->
        LET definers == {i \in DOMAIN members : s \in Defines(members[i])}
        IN  IF definers = {} THEN NoModule
            ELSE members[CHOOSE i \in definers : \A j \in definers : i <= j]]

\* Building an index reports every definition that repeats a name.
RepeatsDefinition(members) ==
    \E i, k \in DOMAIN members :
        \E j \in DOMAIN input.symtab[members[i]], l \in DOMAIN input.symtab[members[k]] :
            /\ <<i, j>> # <<k, l>>
            /\ ~input.symtab[members[i]][j].undef
            /\ ~input.symtab[members[k]][l].undef
            /\ input.symtab[members[i]][j].name = input.symtab[members[k]][l].name

\* _object_append: at the end of the list; a class other than that of the
\* first object is an error, and the object is linked nevertheless.
AppendObject(m) ==
    /\ objects' = Append(objects, [module |-> m, syms |-> LoadedSymbols(m)])
    /\ errors' = \/ errors
                 \/ /\ objects # << >>
                    /\ input.class[m] # input.class[objects[1].module]

-----------------------------------------------------------------------------
(***************************************************************************)
(* The command line                                                        *)
(***************************************************************************)
Init ==
    /\ input \in Input
    /\ pc = "open"
    /\ todo = input.files
    /\ objects = << >>
    /\ archives = << >>
    /\ definition = [s \in Symbol |-> NotDefined]
    /\ missing = {}
    /\ cursor = [obj |-> 1, sym |-> 1]
    /\ arlist = 0
    /\ index = [s \in Symbol |-> NoModule]
    /\ modified = FALSE
    /\ own = {}
    /\ errors = FALSE

OpenObject ==
    /\ pc = "open"
    /\ todo # << >>
    /\ ~Head(todo).archive
    /\ AppendObject(Head(todo).members[1])
    /\ todo' = Tail(todo)
    /\ UNCHANGED <<input, own, pc, archives, tables, search>>

OpenArchive ==
    /\ pc = "open"
    /\ todo # << >>
    /\ Head(todo).archive
    /\ archives' = Append(archives, Head(todo))
    /\ todo' = Tail(todo)
    /\ UNCHANGED <<input, own, pc, objects, tables, search, errors>>

\* The linker stops when there is no object or when reading found an error.
StartLinker ==
    /\ pc = "open"
    /\ todo = << >>
    /\ errors' = (errors \/ objects = << >>)
    /\ pc' = IF errors' THEN "rejected" ELSE "objects"
    /\ UNCHANGED <<input, own, todo, objects, archives, tables, search>>

-----------------------------------------------------------------------------
(***************************************************************************)
(* gp_cofflink_add_symbols, one symbol at a time.  It runs over the        *)
(* objects of the command line and over each member loaded later on.       *)
(***************************************************************************)
\* gp_cofflink_add_symbol and gp_cofflink_remove_symbol on the missing table.
AddMissing(name) == missing \cup {name}

RemoveMissing(name) == missing \ {name}

\* gp_cofflink_add_symbol on the table of definitions: the first one stays.
EnterDefinition(name, obj) ==
    [definition EXCEPT ![name] = IF @ = NotDefined THEN obj ELSE @]

\* Mutant of IsUnknown: references of archive members are not followed.
IsUnknownInObject(name) == definition[name] = NotDefined /\ pc = "objects"

IsUnknown(name) == definition[name] = NotDefined

\* Mutant of IsDuplicate: definitions repeated by archive members go unnoticed.
IsDuplicateInObject(name) == definition[name] # NotDefined /\ pc = "objects"

IsDuplicate(name) == definition[name] # NotDefined

AtSymbol ==
    /\ pc \in {"objects", "member"}
    /\ cursor.obj <= Len(objects)
    /\ cursor.sym <= Len(objects[cursor.obj].syms)

CurrentSymbol == objects[cursor.obj].syms[cursor.sym]

AddReference ==
    /\ AtSymbol
    /\ CurrentSymbol.undef
    /\ missing' = IF IsUnknown(CurrentSymbol.name) THEN AddMissing(CurrentSymbol.name)
                  ELSE missing
    /\ cursor' = [cursor EXCEPT !.sym = @ + 1]
    /\ UNCHANGED <<input, own, pc, todo, objects, archives, definition, search, errors>>

\* A second definition is an error, and ends the search for the symbol too.
AddDefinition ==
    /\ AtSymbol
    /\ ~CurrentSymbol.undef
    /\ definition' = EnterDefinition(CurrentSymbol.name, cursor.obj)
    /\ errors' = (errors \/ IsDuplicate(CurrentSymbol.name))
    /\ missing' = RemoveMissing(CurrentSymbol.name)
    /\ cursor' = [cursor EXCEPT !.sym = @ + 1]
    /\ UNCHANGED <<input, own, pc, todo, objects, archives, search>>

\* After the last symbol of an object comes the next object.  After the last
\* object, the archives are searched when symbols are missing; after a member,
\* the walk over the missing symbols starts again.
NextObject ==
    /\ pc \in {"objects", "member"}
    /\ cursor.obj <= Len(objects)
    /\ cursor.sym > Len(objects[cursor.obj].syms)
    /\ cursor' = [obj |-> cursor.obj + 1, sym |-> 1]
    /\ IF cursor.obj < Len(objects)
       THEN UNCHANGED <<pc, arlist>>
       ELSE IF pc = "member"
       THEN pc' = "index" /\ UNCHANGED arlist
       ELSE IF missing # {} /\ archives # << >>
       THEN pc' = "archive" /\ arlist' = 1
       ELSE pc' = "check" /\ UNCHANGED arlist
    /\ UNCHANGED <<input, own, todo, objects, archives, definition, missing,
                   index, modified, errors>>

-----------------------------------------------------------------------------
(***************************************************************************)
(* The search of the archives                                              *)
(***************************************************************************)
\* _scan_archive: an archive without index gets one in memory.  When none of
\* its members defines a symbol there is still no index to read, which
\* gp_archive_read_index asserts.
ReadIndex ==
    /\ pc = "archive"
    /\ LET archive == archives[arlist]
           table   == ArchiveIndex(archive.members)
       IN  /\ index' = table
           /\ errors' = (errors \/ (~archive.indexed /\ RepeatsDefinition(archive.members)))
           /\ pc' = IF ~archive.indexed /\ \A s \in Symbol : table[s] = NoModule
                    THEN "noindex" ELSE "index"
    /\ UNCHANGED <<input, own, todo, objects, archives, tables, arlist, modified>>

\* Mutant of FoundInIndex: any member not loaded yet will do.
AnyInIndex ==
    {s \in Symbol : index[s] # NoModule /\ \A k \in DOMAIN objects : objects[k].module # index[s]}

\* _scan_index: missing symbols that the index of this archive knows.
FoundInIndex == {s \in missing : index[s] # NoModule}

\* One of them, whichever comes first in the table, brings in its member.
LoadMember ==
    /\ pc = "index"
    /\ \E s \in FoundInIndex : AppendObject(index[s])
    /\ modified' = TRUE
    /\ pc' = "member"
    /\ UNCHANGED <<input, own, todo, archives, tables, arlist, index>>

AtLastArchive == arlist = Len(archives)

\* Mutants of AnotherRound: the archives are searched once, or for ever.
NoOtherRound == FALSE
AlwaysAnotherRound == TRUE

AnotherRound == modified

\* A walk that loads nothing ends the search of this archive.  The next one
\* follows; after the last, another round if this one loaded an object.
LeaveArchive ==
    /\ pc = "index"
    /\ FoundInIndex = {}
    /\ IF missing = {} \/ (AtLastArchive /\ ~AnotherRound)
       THEN pc' = "check" /\ UNCHANGED <<arlist, modified>>
       ELSE /\ pc' = "archive"
            /\ IF AtLastArchive
               THEN arlist' = 1 /\ modified' = FALSE
               ELSE arlist' = arlist + 1 /\ UNCHANGED modified
    /\ UNCHANGED <<input, own, todo, objects, archives, tables, index, errors>>

-----------------------------------------------------------------------------
(***************************************************************************)
(* Symbols made by the linker, and the end of the symbol table             *)
(***************************************************************************)
HasIdata == \E k \in DOMAIN objects : objects[k].module \in input.idata

Made == (IF HasIdata THEN {CInit} ELSE {}) \cup (IF input.stack THEN StackSymbols ELSE {})

RemoveLinkerSymbols ==
    /\ pc = "check"
    /\ missing' = missing \ Made
    /\ errors' = (errors \/ missing' # {})
    /\ pc' = IF missing' # {} THEN "unresolved" ELSE "make"
    /\ UNCHANGED <<input, own, todo, objects, archives, definition, cursor, search>>

\* The symbol table of the combined object is searched from its start: what
\* gp_coffgen_find_symbol returns is the first symbol of that name.
FirstIsDefinition(s) ==
    \E k \in DOMAIN objects : \E i \in DOMAIN objects[k].syms :
        /\ objects[k].syms[i].name = s
        /\ ~objects[k].syms[i].undef
        /\ \A j \in 1 .. (i - 1) : objects[k].syms[j].name # s
        /\ \A h \in 1 .. (k - 1) :
              \A j \in DOMAIN objects[h].syms : objects[h].syms[j].name # s

\* Mutant of LinkerDefinitions: the linker's symbols are not entered.
NoLinkerDefinitions == definition

LinkerDefinitions ==
    [s \in Symbol |-> IF s \in Made /\ definition[s] = NotDefined THEN ByLinker ELSE definition[s]]

\* gp_cofflink_make_stack and make_cinit: a symbol whose first occurrence is no
\* definition gets one at the end of the symbol table, even when the program defines
\* it behind a reference.
SymbolsAdded == {s \in Made : ~FirstIsDefinition(s)}

\* After gp_cofflink_combine_objects.  Any other symbol of the linker is an error.
\* What is in the table of definitions stays there.
MakeLinkerSymbols ==
    /\ pc = "make"
    /\ errors' = (errors \/ \E s \in Made : FirstIsDefinition(s))
    /\ own' = SymbolsAdded
    /\ definition' = LinkerDefinitions
    /\ pc' = "clean"
    /\ UNCHANGED <<input, todo, objects, archives, missing, cursor, search>>

\* The symbols that are left when the references are deleted, in their order.
WithoutReferences(syms) ==
    LET left     == {i \in DOMAIN syms : ~syms[i].undef}
        place(i) == Cardinality({j \in left : j <= i})
    IN  [n \in 1 .. Cardinality(left) |-> syms[CHOOSE i \in left : place(i) = n]]

\* gp_cofflink_clean_table: every relocation against an external symbol is
\* moved to its definition, which must be there; then those symbols are deleted.
CleanTable ==
    /\ pc = "clean"
    /\ IF \E k \in DOMAIN objects : \E i \in DOMAIN objects[k].syms :
            /\ objects[k].syms[i].undef
            /\ objects[k].syms[i].reloc
            /\ definition[objects[k].syms[i].name] = NotDefined
       THEN pc' = "dangling" /\ UNCHANGED objects
       ELSE /\ pc' = "linked"
            /\ objects' = [k \in DOMAIN objects |->
                 [objects[k] EXCEPT !.syms = WithoutReferences(@)]]
    /\ UNCHANGED <<input, own, todo, archives, tables, search, errors>>

Next ==
    \/ OpenObject \/ OpenArchive \/ StartLinker
    \/ AddReference \/ AddDefinition \/ NextObject
    \/ ReadIndex \/ LoadMember \/ LeaveArchive
    \/ RemoveLinkerSymbols \/ MakeLinkerSymbols \/ CleanTable

\* gplink is one sequential process: it takes its next step as long as it can.
Spec == Init /\ [][Next]_vars /\ WF_vars(Next)
-----------------------------------------------------------------------------
(***************************************************************************)
(* Properties                                                              *)
(***************************************************************************)
ObjectType == [module : Module, syms : Seq(Entry)]

\* Every variable keeps its shape; the cursor and the archive being searched
\* stay inside the lists they walk.
TypeOK ==
    /\ input \in InputType
    /\ pc \in PC
    /\ todo \in Seq(File)
    /\ objects \in Seq(ObjectType)
    /\ archives \in Seq(File)
    /\ definition \in [Symbol -> {NotDefined, ByLinker} \cup DOMAIN objects]
    /\ missing \subseteq Symbol
    /\ cursor \in [obj : 1 .. (Len(objects) + 1), sym : Nat \ {0}]
    /\ arlist \in 0 .. Len(archives)
    /\ index \in [Symbol -> Module \cup {NoModule}]
    /\ modified \in BOOLEAN
    /\ own \subseteq Symbol
    /\ errors \in BOOLEAN

\* gp_cofflink_add_symbols has been through symbol i of object k.
Scanned(k, i) == \/ k < cursor.obj
                 \/ k = cursor.obj /\ i < cursor.sym

\* No reference is lost on the way: what an object refers to and nobody
\* defines is in the missing table until the linker makes it itself.
ReferencesAccounted ==
    \A k \in DOMAIN objects : \A i \in DOMAIN objects[k].syms :
        LET e == objects[k].syms[i]
        IN  (Scanned(k, i) /\ e.undef) =>
               \/ definition[e.name] # NotDefined
               \/ e.name \in missing
               \/ pc \in {"make", "unresolved"} /\ e.name \in Made

\* The two tables never hold the same symbol, and only symbols that a loaded
\* object refers to are missing.
MissingIsUndefined ==
    \A s \in missing :
        /\ definition[s] = NotDefined
        /\ \E k \in DOMAIN objects : s \in NamesOf(objects[k].syms, TRUE)

\* An archive member is linked at most once, however often and through however
\* many symbols and archives it is found: only files named twice are twice there.
CommandObjects == {k \in DOMAIN input.files : ~input.files[k].archive}

NoMemberLoadedTwice ==
    \A i, j \in DOMAIN objects :
        (i < j /\ objects[i].module = objects[j].module) => j <= Cardinality(CommandObjects)

\* At every step of the search the two tables divide the references between them,
\* whatever the order of objects and members: the prerequisite of _scan_archive.
TablesAreSound ==
    TypeOK /\ ReferencesAccounted /\ MissingIsUndefined /\ NoMemberLoadedTwice

\* When the search gives up, no archive of the command line could have helped:
\* "The order of the archive members is unknown and there might be inter member
\* dependancies", also from an archive to one named before it.
SearchIsComplete ==
    pc = "check" =>
        \A k \in DOMAIN input.files : input.files[k].archive =>
            \A i \in DOMAIN input.files[k].members :
                Defines(input.files[k].members[i]) \cap missing = {}

\* No relocation is left against a symbol that has no definition: the assertion
\* of gp_cofflink_clean_table holds, also for symbols made by the linker.
NoDanglingReference == pc # "dangling"

\* The program defines s, and refers to it in the same object or an earlier one
\* before it does.
DefinedBehindReference(s) ==
    \E k \in DOMAIN objects : \E i \in DOMAIN LoadedSymbols(objects[k].module) :
        LET syms == LoadedSymbols(objects[k].module)
        IN  /\ syms[i].name = s /\ ~syms[i].undef
            /\ \/ \E j \in 1 .. (i - 1) : syms[j].name = s /\ syms[j].undef
               \/ \E h \in 1 .. (k - 1) : s \in References(objects[h].module)

\* A link that reports no error has one definition for each external symbol, and
\* the references go to it.  The exception is a program that defines a symbol of
\* the linker behind a reference to it: the symbol table of the executable holds
\* both definitions, and the references go to the program's.
LinkedIsUnique ==
    (pc = "linked" /\ ~errors) =>
        /\ \A i, k \in DOMAIN objects :
              \A j \in DOMAIN objects[i].syms, l \in DOMAIN objects[k].syms :
                (<<i, j>> # <<k, l>> /\ ~objects[i].syms[j].undef /\ ~objects[k].syms[l].undef)
                    => objects[i].syms[j].name # objects[k].syms[l].name
        /\ \A s \in own :
              IF \E k \in DOMAIN objects : s \in Defines(objects[k].module)
              THEN DefinedBehindReference(s) /\ definition[s] # ByLinker
              ELSE definition[s] = ByLinker

\* The rounds over the archives come to an end.
Termination == <>(pc \in {"linked", "rejected", "unresolved", "noindex"})

\* The search implements LibrarySearch.
Library == INSTANCE LibrarySearch WITH
    give    <- [m \in Module |-> Defines(m)],
    need    <- [m \in Module |-> References(m)],
    made    <- [m \in Module |-> (IF m \in input.idata THEN {CInit} ELSE {})
                                  \cup (IF input.stack THEN StackSymbols ELSE {})],
    library <- UNION {{input.files[k].members[i] : i \in DOMAIN input.files[k].members} :
                        k \in {j \in DOMAIN input.files : input.files[j].archive}},
    program <- {objects[k].module : k \in DOMAIN objects}
                 \cup {input.files[k].members[1] : k \in CommandObjects},
    outcome <- CASE pc = "linked" -> "linked"
                 [] pc = "unresolved" -> "unresolved"
                 [] pc \in {"rejected", "noindex", "dangling"} -> "stopped"
                 [] OTHER -> "searching"

ImplementsLibrarySearch == Library!Spec
=============================================================================
