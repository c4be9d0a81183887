------------------------------- MODULE HexFile -------------------------------
(***************************************************************************)
(* Hex files: gp_writehex, which writes a program memory line by line, and *)
(* gp_readhex, with which gpdasm reads it back.                            *)
(*                                                                         *)
(* A line is the sequence of its bytes: length, two bytes of address,      *)
(* type, data, checksum.  Byte is the number of values of a byte, so a     *)
(* block has Byte^2 of them.                                               *)
(***************************************************************************)
EXTENDS Integers, Sequences, SequencesExt, Bitwise

CONSTANTS
    Byte,       \* 256
    LineSize,   \* 16
    Images,     \* memories: functions from the used addresses to bytes
    Fragile,    \* those whose files may be damaged
    Pages,      \* what the variable "page" may hold before it is set
    LineEnd,    \* the byte that _readbyte makes of the end of a line, 240
    Blank       \* and of a part of linebuf that was never written, 208

BlockSize == Byte * Byte

ASSUME HexAssumption ==
    /\ LineSize \in Nat \ {0} /\ LineSize < Byte /\ BlockSize % (2 * LineSize) = 0
    /\ \A image \in Images :
          /\ DOMAIN image \subseteq 0 .. Byte * BlockSize - 1
          /\ \A a \in DOMAIN image : image[a] \in 0 .. Byte - 1
    /\ Fragile \subseteq Images
    /\ Pages \subseteq Nat
    /\ LineEnd \in 0 .. Byte - 1 /\ Blank \in 0 .. Byte - 1

Formats == {"inhx8m", "inhx8s", "inhx16", "inhx32"}
Extensions == {"hex", "hxl", "hxh"}

VARIABLES
    image, format, errors,
    checked,   \* gp_writehex_check was asked, as gpasm does and gplink does not
    pc,
    mode,      \* Mode: "all", "low", "high" or "swap"
    base,      \* the block that is written
    i,         \* the address in it
    disk,      \* the files
    at,        \* the line that is read
    buffer,    \* linebuf: a line, and what longer lines before it have left
    damage,    \* which byte of the file was damaged, and what it was
    kind,      \* info->hex_format
    page,
    memory,    \* the list M
    given      \* M is the list that the caller gave

written == <<mode, base, i, disk>>
got     == <<at, buffer, damage, kind, page, memory, given>>
vars    == <<image, format, errors, checked, pc, written, got>>

Empty == [a \in {} |-> 0]

-----------------------------------------------------------------------------
(***************************************************************************)
(* gp_writehex                                                             *)
(***************************************************************************)
Sum(bytes) == FoldSeq(LAMBDA x, y : x + y, 0, bytes) % Byte

\* A line with its checksum.
Record(bytes) == Append(bytes, (Byte - Sum(bytes)) % Byte)

\* A word as two bytes, the high one first.
Word(n) == <<(n \div Byte) % Byte, n % Byte>>

Extension == CASE mode = "low" -> "hxl" [] mode = "high" -> "hxh" [] OTHER -> "hex"

Print2(line) == disk' = [disk EXCEPT ![Extension] = Append(@, line)]

Block(b) == {a \in DOMAIN image : a \div BlockSize = b}

\* Blocks are created when they are first written to; there is always the first.
Blocks == {0} \cup {a \div BlockSize : a \in DOMAIN image}

Least(S) == CHOOSE n \in S : \A m \in S : n <= m

\* Mutant of RunEnd: lines end where the memory does.
RunEndAnywhere(j) == Least({k \in j + 1 .. j + BlockSize : k \notin DOMAIN image})

\* A run of used bytes is cut where the address is a multiple of the line size.
RunEnd(j) ==
    LET size == IF mode \in {"all", "swap"} THEN LineSize ELSE 2 * LineSize
    IN  Least({k \in j + 1 .. j + size : k \notin DOMAIN image \/ k % size = 0})

Cell(a) == IF a \in DOMAIN image THEN image[a] ELSE Byte - 1

Other(a) == IF a % 2 = 0 THEN a + 1 ELSE a - 1

\* The line for the addresses from j to k - 1.
DataLine(j, k) ==
    CASE mode = "all"  -> Record(<<(k - j) % Byte>> \o Word(j) \o <<0>>
                                    \o [n \in 1 .. k - j |-> Cell(j + n - 1)])
      [] mode = "swap" -> Record(<<(k - j) \div 2>> \o Word(j \div 2) \o <<0>>
                                    \o [n \in 1 .. k - j |-> Cell(Other(j + n - 1))])
      [] OTHER ->
           LET first == IF mode = "high" THEN j + 1 ELSE j
           IN  Record(<<(k - j) \div 2>> \o Word(j) \o <<0>>
                        \o [n \in 1 .. (k - first + 1) \div 2 |-> Cell(first + 2 * (n - 1))])

FirstMode ==
    CASE format = "inhx8s" -> "low" [] format = "inhx16" -> "swap" [] OTHER -> "all"

\* Errors and, if the caller asks, memory that the format has no addresses for
\* leave no file.
Start ==
    /\ pc = "start"
    /\ pc' = IF errors \/ (checked /\ format # "inhx32" /\ Blocks # {0})
             THEN "removed" ELSE "block"
    /\ mode' = FirstMode
    /\ UNCHANGED <<image, format, errors, checked, base, i, disk, got>>

Sets == UNCHANGED <<image, format, errors, checked, mode, got>>

\* _seg_address_line
EnterBlock ==
    /\ pc = "block"
    /\ IF format = "inhx32"
       THEN pc' = "lines" /\ Print2(Record(<<2, 0, 0, 4>> \o Word(base)))
       ELSE pc' = (IF base = 0 THEN "lines" ELSE "crashed") /\ UNCHANGED disk
    /\ i' = base * BlockSize
    /\ UNCHANGED base
    /\ Sets

Left == {a \in Block(base) : i <= a}

WriteLine ==
    /\ pc = "lines" /\ Left # {}
    /\ LET j == Least(Left)  k == RunEnd(j) IN
       IF mode = "swap" /\ (j % 2 = 1 \/ k % 2 = 1)
       THEN pc' = "crashed" /\ UNCHANGED <<i, disk>>
       ELSE i' = k /\ Print2(DataLine(j, k)) /\ UNCHANGED pc
    /\ UNCHANGED base
    /\ Sets

LeaveBlock ==
    /\ pc = "lines" /\ Left = {}
    /\ LET later == {b \in Blocks : b > base} IN
       IF later = {} THEN pc' = "last" /\ UNCHANGED base
                     ELSE pc' = "block" /\ base' = Least(later)
    /\ UNCHANGED <<i, disk>>
    /\ Sets

\* Behind the low bytes the high bytes are written.
LastLine ==
    /\ pc = "last"
    /\ Print2(Record(<<0, 0, 0, 1>>))
    /\ IF mode = "low" THEN mode' = "high" /\ base' = 0 /\ pc' = "block"
                       ELSE UNCHANGED <<mode, base>> /\ pc' = "written"
    /\ UNCHANGED <<image, format, errors, checked, i, got>>

-----------------------------------------------------------------------------
(***************************************************************************)
(* gp_readhex                                                              *)
(***************************************************************************)
NoDamage == [line |-> 0, byte |-> 0, was |-> 0]

\* Any byte of an inhx32 file changes on its way, to any value.
Damage ==
    /\ pc = "written" /\ format = "inhx32" /\ image \in Fragile /\ damage = NoDamage
    /\ \E n \in DOMAIN disk["hex"] : \E k \in DOMAIN disk["hex"][n] : \E v \in 0 .. Byte - 1 :
          /\ v # disk["hex"][n][k]
          /\ disk' = [disk EXCEPT !["hex"][n][k] = v]
          /\ damage' = [line |-> n, byte |-> k, was |-> disk["hex"][n][k]]
    /\ UNCHANGED <<image, format, errors, checked, pc, mode, base, i,
                   at, buffer, kind, page, memory, given>>

OpenFile ==
    /\ pc = "written" /\ format # "inhx8s"
    /\ pc' = "read" /\ at' = 1 /\ kind' = "inhx8m"
    /\ page' \in Pages
    /\ memory' = Empty /\ given' = TRUE
    /\ UNCHANGED <<image, format, errors, checked, written, buffer, damage>>

HasLine == pc = "read" /\ at \in DOMAIN disk["hex"]

\* What _readbyte returns one after the other when fgets has read a line: behind
\* its end comes what lines before it have left.
line ==
    LET new == disk["hex"][at]
    IN  [p \in DOMAIN buffer |-> IF p \in DOMAIN new THEN new[p]
                                ELSE IF p = Len(new) + 1 THEN LineEnd ELSE buffer[p]]

\* A line of inhx16 counts and addresses words.
Width   == IF kind = "inhx16" THEN 2 ELSE 1
Length  == line[1] * Width
Address == (line[2] * Byte + line[3]) * Width

IsSegment == line[4] = 4

\* The last byte that is read of a line, its checksum.
Checked == IF IsSegment THEN 7 ELSE Length + 5

ChecksumFits == Sum(SubSeq(line, 1, Checked)) = 0

Place(n) == IF kind = "inhx16" THEN page | Other(Address + n) ELSE page | (Address + n)

WithData ==
    LET places    == {Place(n) : n \in 0 .. Length - 1}
        latest(a) == CHOOSE n \in 0 .. Length - 1 :
                        Place(n) = a /\ \A m \in n + 1 .. Length - 1 : Place(m) # a
    IN  [a \in DOMAIN memory \cup places |->
            IF a \in places THEN line[5 + latest(a)] ELSE memory[a]]

\* A line of length zero, or no line, ends the reading without an error.
EndOfFile ==
    /\ pc = "read" /\ (HasLine => line[1] = 0)
    /\ pc' = "done"
    /\ UNCHANGED <<image, format, errors, checked, written, got>>

\* A segment line makes the format inhx32, even if its checksum is wrong.
ReadSegment ==
    /\ HasLine /\ line[1] # 0 /\ IsSegment /\ kind # "inhx16"
    /\ buffer' = line
    /\ page' = (line[5] * Byte + line[6]) * BlockSize
    /\ kind' = "inhx32"
    /\ IF ChecksumFits THEN at' = at + 1 /\ UNCHANGED pc ELSE pc' = "failed" /\ UNCHANGED at
    /\ UNCHANGED <<image, format, errors, checked, written, damage, memory, given>>

\* "Hex Format Error"
RefuseSegment ==
    /\ HasLine /\ line[1] # 0 /\ IsSegment /\ kind = "inhx16"
    /\ buffer' = line
    /\ pc' = "failed"
    /\ UNCHANGED <<image, format, errors, checked, written, at, damage, kind, page, memory, given>>

ReadLine ==
    /\ HasLine /\ line[1] # 0 /\ ~IsSegment
    /\ ChecksumFits
    /\ buffer' = line
    /\ memory' = WithData
    /\ at' = at + 1
    /\ UNCHANGED <<image, format, errors, checked, written, pc, damage, kind, page, given>>

\* The checksum is wrong: the file is read again as inhx16, into a new list.
ReadAgain ==
    /\ HasLine /\ line[1] # 0 /\ ~IsSegment /\ kind = "inhx8m"
    /\ ~ChecksumFits
    /\ buffer' = line
    /\ kind' = "inhx16" /\ at' = 1
    /\ memory' = Empty /\ given' = FALSE
    /\ UNCHANGED <<image, format, errors, checked, written, pc, damage, page>>

ChecksumError ==
    /\ HasLine /\ line[1] # 0 /\ ~IsSegment /\ kind # "inhx8m"
    /\ ~ChecksumFits
    /\ buffer' = line
    /\ memory' = WithData
    /\ pc' = "failed"
    /\ UNCHANGED <<image, format, errors, checked, written, at, damage, kind, page, given>>

Init ==
    /\ image \in Images /\ format \in Formats /\ errors \in BOOLEAN /\ checked \in BOOLEAN
    /\ pc = "start" /\ mode = "all" /\ base = 0 /\ i = 0
    /\ disk = [s \in Extensions |-> << >>]
    /\ at = 1 /\ kind = "inhx8m" /\ page = 0 /\ memory = Empty /\ given = TRUE
    /\ buffer = [p \in 1 .. 2 * Byte + 4 |-> Blank]
    /\ damage = NoDamage

Next ==
    \/ Start \/ EnterBlock \/ WriteLine \/ LeaveBlock \/ LastLine
    \/ Damage \/ OpenFile
    \/ EndOfFile \/ ReadSegment \/ RefuseSegment \/ ReadLine \/ ReadAgain \/ ChecksumError

Spec == Init /\ [][Next]_vars

-----------------------------------------------------------------------------
(***************************************************************************)
(* Properties                                                              *)
(***************************************************************************)
\* Runs of used bytes begin and end at even addresses, as instructions do.
Even == \A a \in DOMAIN image : Other(a) \in DOMAIN image

\* The format is found by a checksum that fails: a file that has segments or bytes
\* is never taken for one of words, and what the caller gets is the memory that
\* was written, if "page" was 0 where no line sets it.  Files of inhx16 are left
\* out: what is read from them the caller does not get.
ReadsBack ==
    (pc \in {"done", "failed"} /\ format \in {"inhx8m", "inhx32"} /\ damage = NoDamage) =>
        /\ pc = "done" /\ given /\ kind = format
        /\ format = "inhx32" \/ page = 0 => memory = image

\* The lines of a file that hold the byte of address a.
Holding(s, a) ==
    {<<n, k>> \in (DOMAIN disk[s]) \X (1 .. 2 * LineSize) :
        /\ k <= disk[s][n][1]
        /\ disk[s][n][2] * Byte + disk[s][n][3] + 2 * (k - 1) + (a % 2) = a}

\* The two files of inhx8s hold every byte of whole words once, the low bytes in
\* one and the high bytes in the other.
HalvesHoldAll ==
    pc = "written" /\ format = "inhx8s" /\ Even =>
        \A a \in DOMAIN image :
            LET s == IF a % 2 = 0 THEN "hxl" ELSE "hxh" IN
            \E n \in DOMAIN disk[s], k \in 1 .. LineSize :
                Holding(s, a) = {<<n, k>>} /\ disk[s][n][4 + k] = image[a]

\* Only odd runs in inhx16, and blocks that gplink does not check, end in an
\* assertion.
NeverAsserts == checked /\ (format = "inhx16" => Even) => pc # "crashed"

\* The value of the damaged byte.
DamagedTo == disk["hex"][damage.line][damage.byte]

\* A damaged length, or a type that makes a line a segment line or no longer one,
\* lets the reader add up other bytes than the checksum was made for.
Misleads == \/ damage.byte = 1 /\ DamagedTo # 0
            \/ damage.byte = 4 /\ 4 \in {damage.was, DamagedTo}

\* A damaged byte of an address, of the data, of a checksum or of another type never
\* goes unnoticed: an error is reported, or the caller gets the memory that was
\* written.  A length that becomes zero ends the reading without an error, and the
\* caller gets a part of that memory and no wrong byte.  A byte that misleads the
\* reader may go unnoticed when the sum is zero by accident.
DamageIsSeen ==
    (damage # NoDamage /\ pc = "done") =>
        \/ given /\ memory = image
        \/ /\ given /\ damage.byte = 1 /\ DamagedTo = 0
           /\ \A a \in DOMAIN memory : a \in DOMAIN image /\ memory[a] = image[a]
        \/ Misleads

\* What is written to a hex file is what a caller reads from it, over runs of bytes,
\* lines and blocks, unless the format is inhx16; a file damaged in one byte is an
\* error but for lengths and types (_write_i_mem, gp_readhex).
WrittenIsRead == ReadsBack /\ DamageIsSeen /\ HalvesHoldAll /\ NeverAsserts
=============================================================================
