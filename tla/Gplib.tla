-------------------------------- MODULE Gplib --------------------------------
(***************************************************************************)
(* The librarian, gplib.c with gparchive.c: a library on disk, the list of *)
(* members that a command reads into memory, changes one argument after    *)
(* the other and writes back, and the index of the symbols that it renews. *)
(*                                                                         *)
(* A place in the list stands for the offset in the file.  Dates, sizes    *)
(* and the contents of objects other than the symbols they define play no  *)
(* part.                                                                   *)
(***************************************************************************)
EXTENDS Integers, Sequences, FiniteSets

CONSTANTS
    Files,       \* object files, by the paths they are named with
    MemberName,  \* _object_name: the name of a file without its directory
    Objects,     \* contents of object files: sets of the symbols they define
    NoObject,    \* there is no such file, or no object in it
    Versions,    \* what the user may put in a file: pairs of file and content
    Arguments    \* lists of files on a command line

ASSUME FilesAssumption ==
    /\ IsFiniteSet(Files)
    /\ MemberName \in [Files -> Files]
    /\ \A f \in Files : MemberName[MemberName[f]] = MemberName[f]
    /\ NoObject \notin Objects
    /\ Versions \subseteq Files \X (Objects \cup {NoObject})
    /\ Arguments \subseteq Seq(Files)

VARIABLES
    files,        \* the content of the files
    disk,         \* the library on disk, a list of members; empty: no library
    pc, mode, noIndex, args,   \* the command and the arguments still to process
    archive,      \* state.archive
    definitions,  \* definition_tbl: symbol -> name of the member
    at,           \* the member whose symbols are entered next
    errors        \* gp_num_errors > 0

command == <<mode, noIndex, args>>
vars    == <<files, disk, pc, command, archive, definitions, at, errors>>

Names   == {MemberName[f] : f \in Files}
Symbols == UNION Objects
Modes   == {"create", "replace", "delete", "extract", "symbols", "list"}

Partial(S, T) == UNION {[D -> T] : D \in SUBSET S}

Member == [kind : {"member"}, name : Names, object : Objects]
Index  == [kind : {"index"}, table : Partial(Symbols, 1 .. Cardinality(Names) + 1)]

NoSymbols == [s \in {} |-> 0]

-----------------------------------------------------------------------------
(***************************************************************************)
(* Lists of members                                                        *)
(***************************************************************************)
HaveIndex(list) == list # << >> /\ list[1].kind = "index"

Members(list) == {i \in DOMAIN list : list[i].kind = "member"}

Found(list, n) == {i \in Members(list) : list[i].name = n}

\* The first member of a name, 0 if there is none.
FindMember(list, n) ==
    IF Found(list, n) = {} THEN 0
    ELSE CHOOSE i \in Found(list, n) : \A j \in Found(list, n) : i <= j

Remove(list, i) == SubSeq(list, 1, i - 1) \o SubSeq(list, i + 1, Len(list))

RemoveIndex(list) == IF HaveIndex(list) THEN Tail(list) ELSE list

\* A member of the same name is deleted first; the new one goes to the end.
Replaced(list, n) ==
    IF FindMember(list, n) = 0 THEN list ELSE Remove(list, FindMember(list, n))

\* Mutant of WithIndex: the offsets are those before the index was put there.
WithOldOffsets(list, defs) ==
    LET table == [s \in DOMAIN defs |-> FindMember(list, defs[s])]
    IN  IF list = << >> \/ DOMAIN defs = {} THEN list
        ELSE <<[kind |-> "index", table |-> table]>> \o list

\* The index goes in front, so every member has moved when it is written.
WithIndex(list, defs) ==
    LET front == <<[kind |-> "index", table |-> NoSymbols]>> \o list
        table == [s \in DOMAIN defs |-> FindMember(front, defs[s])]
    IN  IF list = << >> \/ DOMAIN defs = {} THEN list
        ELSE [front EXCEPT ![1].table = table]

-----------------------------------------------------------------------------
(***************************************************************************)
(* A command                                                               *)
(***************************************************************************)
Updates == mode \in {"create", "replace", "delete"}
HasPath(f) == MemberName[f] # f

Init ==
    /\ files = [f \in Files |-> NoObject]
    /\ disk = << >>
    /\ pc = "idle" /\ mode = "list" /\ noIndex = FALSE /\ args = << >>
    /\ archive = << >> /\ definitions = NoSymbols /\ at = 0 /\ errors = FALSE

\* Between two commands the user compiles a file, or removes it.
Compile(f, o) ==
    /\ pc = "idle"
    /\ files' = [files EXCEPT ![f] = o]
    /\ UNCHANGED <<disk, pc, command, archive, definitions, at, errors>>

\* main: a library that is not created anew must be there.  A second operation or
\* too many names are an error, with which the command goes on: the operation is the
\* first one, and the names are those before the limit.
Begin(m, n, as) ==
    /\ pc = "idle"
    /\ disk # << >> \/ m = "create"
    /\ pc' = "arguments"
    /\ mode' = m /\ noIndex' = n
    /\ args' = IF m \in {"list", "symbols"} THEN << >> ELSE as
    /\ archive' = IF m = "create" THEN << >> ELSE disk
    /\ errors' \in BOOLEAN
    /\ UNCHANGED <<files, disk, definitions, at>>

NextArgument ==
    /\ args' = Tail(args)
    /\ UNCHANGED <<disk, pc, mode, noIndex, definitions, at, errors>>

AddMember ==
    /\ pc = "arguments" /\ args # << >> /\ mode \in {"create", "replace"}
    /\ files[Head(args)] # NoObject
    /\ LET n == MemberName[Head(args)] IN
       archive' = Append(Replaced(archive, n),
                      [kind |-> "member", name |-> n, object |-> files[Head(args)]])
    /\ NextArgument
    /\ UNCHANGED files

\* The argument of a deletion or an extraction is the name of a member.
IsMember(f) == ~HasPath(f) /\ FindMember(archive, f) # 0

DeleteMember ==
    /\ pc = "arguments" /\ args # << >> /\ mode = "delete"
    /\ IsMember(Head(args))
    /\ archive' = Remove(archive, FindMember(archive, Head(args)))
    /\ NextArgument
    /\ UNCHANGED files

\* gp_archive_extract_member looks for an extension in the array that it is
\* about to fill, so it may write another file, with ".o" behind the name.
ExtractMember ==
    /\ pc = "arguments" /\ args # << >> /\ mode = "extract"
    /\ IsMember(Head(args))
    /\ \/ files' = [files EXCEPT ![Head(args)] =
                        archive[FindMember(archive, Head(args))].object]
       \/ UNCHANGED files
    /\ NextArgument
    /\ UNCHANGED archive

\* An error ends the loop over the arguments, and the command goes on.
BadArgument ==
    /\ pc = "arguments" /\ args # << >>
    /\ IF mode \in {"create", "replace"} THEN files[Head(args)] = NoObject
                                         ELSE ~IsMember(Head(args))
    /\ errors' = TRUE
    /\ args' = << >>
    /\ UNCHANGED <<files, disk, pc, mode, noIndex, archive, definitions, at>>

\* The symbols are listed from the index, and the index is taken off.
EndArguments ==
    /\ pc = "arguments" /\ args = << >>
    /\ archive' = IF Updates THEN RemoveIndex(archive) ELSE archive
    /\ errors' = (errors \/ (mode = "symbols" /\ ~HaveIndex(archive)))
    /\ at' = IF HaveIndex(archive') THEN 2 ELSE 1
    /\ pc' = "symbols"
    /\ UNCHANGED <<files, disk, command, definitions>>

\* gp_archive_make_index: the symbols of a member are entered, and an error is
\* counted for one that is there.  The member is the one of the first definition.
EnterSymbols ==
    /\ pc = "symbols" /\ at <= Len(archive)
    /\ definitions' = [s \in DOMAIN definitions \cup archive[at].object |->
           IF s \in DOMAIN definitions THEN definitions[s] ELSE archive[at].name]
    /\ errors' = (errors \/ DOMAIN definitions \cap archive[at].object # {})
    /\ at' = at + 1
    /\ UNCHANGED <<files, disk, pc, command, archive>>

AddIndex ==
    /\ pc = "symbols" /\ at > Len(archive)
    /\ archive' = IF Updates /\ ~noIndex THEN WithIndex(archive, definitions)
                                         ELSE archive
    /\ pc' = "write"
    /\ UNCHANGED <<files, disk, command, definitions, at, errors>>

\* Mutant of Writes: the errors are only reported.
WritesAlways == Updates

Writes == Updates /\ ~errors

\* The tool comes to its end, and its memory is given back.
Leave ==
    /\ pc' = "idle" /\ mode' = "list" /\ noIndex' = FALSE /\ args' = << >>
    /\ archive' = << >> /\ definitions' = NoSymbols /\ at' = 0 /\ errors' = FALSE

\* gp_archive_write asserts that there is a member.
Write ==
    /\ pc = "write" /\ Writes /\ archive # << >>
    /\ disk' = archive
    /\ Leave
    /\ UNCHANGED files

\* Nothing is to be written, or the file cannot be opened, or the assertion fails.
Exit ==
    /\ pc = "write"
    /\ Leave
    /\ UNCHANGED <<files, disk>>

\* A file that is to be extracted cannot be opened.
CannotExtract ==
    /\ pc = "arguments" /\ args # << >> /\ mode = "extract"
    /\ IsMember(Head(args))
    /\ Leave
    /\ UNCHANGED <<files, disk>>

Next ==
    \/ \E v \in Versions : Compile(v[1], v[2])
    \/ \E m \in Modes, n \in BOOLEAN, as \in Arguments : Begin(m, n, as)
    \/ AddMember \/ DeleteMember \/ ExtractMember \/ BadArgument \/ CannotExtract
    \/ EndArguments \/ EnterSymbols \/ AddIndex
    \/ Write \/ Exit

Spec == Init /\ [][Next]_vars

-----------------------------------------------------------------------------
(***************************************************************************)
(* Properties                                                              *)
(***************************************************************************)
\* The variables keep their shape: an index is nowhere but in front.
TypeOK ==
    /\ files \in [Files -> Objects \cup {NoObject}]
    /\ pc \in {"idle", "arguments", "symbols", "write"}
    /\ mode \in Modes /\ noIndex \in BOOLEAN /\ args \in Seq(Files)
    /\ \A list \in {disk, archive} :
           /\ list \in Seq(Member \cup Index)
           /\ \A i \in DOMAIN list : i # 1 => list[i] \in Member
    /\ definitions \in Partial(Symbols, Names)
    /\ at \in Nat /\ errors \in BOOLEAN

\* The linker takes members by the index (gp_archive_read_index): it has all
\* symbols that the members on disk define, and leads each to the member that
\* defines it, whatever commands replaced, moved and deleted members before.
IndexFits ==
    HaveIndex(disk) =>
        /\ DOMAIN disk[1].table = UNION {disk[i].object : i \in Members(disk)}
        /\ \A s \in DOMAIN disk[1].table :
               /\ disk[1].table[s] \in Members(disk)
               /\ s \in disk[disk[1].table[s]].object

\* Members are found by name, and only the first of a name can be replaced,
\* deleted or extracted (gp_archive_find_member): no list has two of one name.
NamesAreUnique ==
    \A list \in {disk, archive} : \A i, j \in Members(list) :
        list[i].name = list[j].name => i = j

\* By name and by symbol the member is found that is meant, in the list a command
\* works on and in the file it leaves.
MembersAreFound == TypeOK /\ NamesAreUnique /\ IndexFits

\* The library on disk without order and index.
AsFunction(list) ==
    [n \in {list[i].name : i \in Members(list)} |->
        list[FindMember(list, n)].object]

Promised == INSTANCE LibraryFile WITH library <- AsFunction(disk)

\* A command changes the library as a whole or not at all, and never so that two
\* members define one symbol: every step is one of LibraryFile, or no change.
ImplementsLibraryFile == Promised!Spec
=============================================================================
