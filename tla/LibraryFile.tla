----------------------------- MODULE LibraryFile -----------------------------
(***************************************************************************)
(* What gplib promises about a library: it is a set of named objects, no   *)
(* two of which define the same symbol, and a command changes it as a      *)
(* whole or not at all.  The order of the members, the index and the way a *)
(* command is carried out are left to Gplib, which implements this         *)
(* specification.                                                          *)
(***************************************************************************)
EXTENDS Integers, Sequences

CONSTANTS
    Files,       \* object files, by the paths they are named with
    MemberName,  \* the name of a file without its directory
    Objects,     \* contents of object files: sets of the symbols they define
    NoObject,    \* there is no such file, or no object in it
    Versions,    \* what the user may put in a file: pairs of file and content
    Arguments    \* lists of files on a command line

VARIABLES
    files,     \* the content of the files
    library    \* the members of the library: a function on their names

vars == <<files, library>>

Names == {MemberName[f] : f \in Files}
Empty == [n \in {} |-> NoObject]

\* No symbol is defined by two members.
Consistent(lib) == \A m, n \in DOMAIN lib : m # n => lib[m] \cap lib[n] = {}

\* Of two files with the same name the last one counts.
WithFiles(lib, as) ==
    LET given(n) == {i \in DOMAIN as : MemberName[as[i]] = n}
        last(n)  == CHOOSE i \in given(n) : \A j \in given(n) : j <= i
    IN  [n \in DOMAIN lib \cup {MemberName[as[i]] : i \in DOMAIN as} |->
            IF given(n) = {} THEN lib[n] ELSE files[as[last(n)]]]

Without(lib, ns) == [n \in DOMAIN lib \ ns |-> lib[n]]

Init ==
    /\ files = [f \in Files |-> NoObject]
    /\ library = Empty

\* The user compiles a file, or removes it.
Compile(f, o) ==
    /\ files' = [files EXCEPT ![f] = o]
    /\ UNCHANGED library

\* Files are put in an empty or the present library.
Put(lib, as) ==
    /\ \A i \in DOMAIN as : files[as[i]] # NoObject
    /\ Consistent(WithFiles(lib, as))
    /\ library' = WithFiles(lib, as)
    /\ UNCHANGED files

Delete(as) ==
    LET given == {as[i] : i \in DOMAIN as} IN
    /\ given \subseteq DOMAIN library
    /\ given # DOMAIN library
    /\ library' = Without(library, given)
    /\ UNCHANGED files

\* A member is copied to a file of its name.
Extract(n) ==
    /\ n \in DOMAIN library
    /\ files' = [files EXCEPT ![n] = library[n]]
    /\ UNCHANGED library

Next ==
    \/ \E v \in Versions : Compile(v[1], v[2])
    \/ \E as \in Arguments : Put(library, as) \/ Put(Empty, as) \/ Delete(as)
    \/ \E n \in Names : Extract(n)

Spec == Init /\ [][Next]_vars
=============================================================================
