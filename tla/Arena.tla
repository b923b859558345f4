------------------------------- MODULE Arena -------------------------------
(***************************************************************************)
(* The container of compiled rules and its reader: Arena in                *)
(* yaradec/arena.py.                                                       *)
(*                                                                         *)
(* A file is a header, a table of buffers, the buffers and a list of       *)
(* relocations.  The unit here is the field: every field of the format,    *)
(* whatever its width, is one cell of the file, and so is a character.     *)
(* Offsets count from 0 as in the code; cells are numbered from 1.         *)
(***************************************************************************)
EXTENDS Integers, Sequences, FiniteSets, SequencesExt

CONSTANTS
    Word,       \* the values of a cell
    AllOnes,    \* 0xFFFFFFFF
    Files       \* the files a run starts from

ARENA_MAGIC              == 7
SUPPORTED_ARENA_VERSIONS == {21}
HeaderSize               == 3
EntrySize                == 2

(* A file is its cells, the flag --lenient negated, and, for the checks    *)
(* only, how it came about and what was saved in it.  A cell is a word of  *)
(* the format.                                                             *)
ASSUME ArenaAssumption ==
    /\ AllOnes \in Nat /\ Word = 0 .. AllOnes
    /\ \A f \in Files : f.data \in Seq(Word) /\ f.strict \in BOOLEAN

(* What YARA writes, unless a cell was replaced since; a cut file is what  *)
(* is left of it.  The table gives the place of each buffer, the last ends *)
(* at saved.end, and the relocations stand there, in pairs that do not     *)
(* begin as the terminator does, then the terminator.                      *)
OffsetOf(f, i) == f.data[HeaderSize + EntrySize * (i - 1) + 1]
SizeOf(f, i)   == f.data[HeaderSize + EntrySize * (i - 1) + 2]
EndOf(f, i)    == OffsetOf(f, i) + SizeOf(f, i)

HasTable(f) == HeaderSize <= Len(f.data) /\ HeaderSize + EntrySize * f.data[3] <= Len(f.data)

BufferAt(f, i) ==
    /\ SizeOf(f, i) = Len(f.saved.buffers[i])
    /\ \A k \in 1 .. SizeOf(f, i) :
         OffsetOf(f, i) + k <= Len(f.data) => f.data[OffsetOf(f, i) + k] = f.saved.buffers[i][k]

Pair(f, i) == <<f.data[f.saved.end + 2 * i + 1], f.data[f.saved.end + 2 * i + 2]>>
PairsIn(f) == {i \in 0 .. Len(f.data) : f.saved.end + 2 * i + 2 <= Len(f.data)}
Pairs(f)   == {Pair(f, i) : i \in PairsIn(f)}

Complete(f) == f.saved.end <= Len(f.data)

Written(f) ==
    /\ f.saved.end \in Nat /\ f.saved.buffers \in Seq(Seq(Word)) /\ Len(f.saved.buffers) \in Word
    /\ HasTable(f) =>
         /\ f.data[3] = Len(f.saved.buffers)
         /\ \A i \in 1 .. f.data[3] : BufferAt(f, i) /\ EndOf(f, i) <= f.saved.end
         /\ IF f.data[3] = 0 THEN f.saved.end = HeaderSize
            ELSE \E i \in 1 .. f.data[3] : EndOf(f, i) = f.saved.end
    /\ Complete(f) => HasTable(f) /\ f.data[1] = ARENA_MAGIC /\ f.data[2] \in SUPPORTED_ARENA_VERSIONS
    /\ Pairs(f) \subseteq f.saved.relocations
    /\ f.kind = "whole" =>
         /\ \E n \in 0 .. Len(f.data) : Len(f.data) = f.saved.end + 2 * n + 1
         /\ \A i \in PairsIn(f) : Pair(f, i)[1] # AllOnes
         /\ f.data[Len(f.data)] = AllOnes /\ f.saved.relocations = Pairs(f)

ASSUME WriterAssumption == \A f \in Files : f.kind # "corrupt" => Written(f)

VARIABLES
    file,         \* the file
    phase,        \* what is read next, or how the reading ended
    table,        \* the entries of the buffer table
    buffers,      \* Arena.buffers
    pos,          \* the position in the relocation list
    relocations   \* Arena.relocations

arenaVars == <<file, phase, table, buffers, pos, relocations>>

-----------------------------------------------------------------------------
Data  == file.data
At(p) == Data[p + 1]

GoodHeader ==
    /\ Len(Data) >= HeaderSize
    /\ At(0) = ARENA_MAGIC /\ At(1) \in SUPPORTED_ARENA_VERSIONS

NumBuffers == At(2)

TablePresent == HeaderSize + EntrySize * NumBuffers <= Len(Data)

Entry(i) == LET p == HeaderSize + EntrySize * (i - 1)
            IN [offset |-> At(p), size |-> At(p + 1)]

(* Mutated: a buffer may run past the end of the file.                     *)
InFileLoose(e) == e.size > 0 => e.offset <= Len(Data)

(* Mutated: a buffer may not reach the end of the file.                    *)
InFileShort(e) == e.size > 0 => e.offset + e.size < Len(Data)

InFile(e) == e.size > 0 => e.offset + e.size <= Len(Data)

(* The slice data[b_off:end] of Python: what there is of it.               *)
Slice(e) == SubSeq(Data, e.offset + 1, IF e.offset + e.size <= Len(Data) THEN e.offset + e.size ELSE Len(Data))

BuffersEnd == IF table = <<>> THEN HeaderSize ELSE Max({table[i].offset + table[i].size : i \in DOMAIN table})

-----------------------------------------------------------------------------
ArenaInit ==
    /\ file \in Files
    /\ phase = "header" /\ table = <<>> /\ buffers = <<>> /\ pos = 0 /\ relocations = {}

ReadHeader ==
    /\ phase = "header" /\ GoodHeader
    /\ phase' = "table"
    /\ UNCHANGED <<file, table, buffers, pos, relocations>>

ReadTable ==
    /\ phase = "table" /\ TablePresent
    /\ table' = [i \in 1 .. NumBuffers |-> Entry(i)]
    /\ phase' = "buffers"
    /\ UNCHANGED <<file, buffers, pos, relocations>>

CutBuffers ==
    /\ phase = "buffers" /\ \A i \in DOMAIN table : InFile(table[i])
    /\ buffers' = [i \in DOMAIN table |-> Slice(table[i])]
    /\ pos' = BuffersEnd /\ phase' = "relocations"
    /\ UNCHANGED <<file, table, relocations>>

(* The list goes on while a word is left and is not the terminator.        *)
MoreRelocations == pos + 1 <= Len(Data) /\ At(pos) # AllOnes
EntryWhole      == pos + 2 <= Len(Data)

(* Mutated: the walk advances by one word; it does not advance.            *)
ReadRelocationStuck ==
    /\ phase = "relocations" /\ MoreRelocations /\ EntryWhole
    /\ relocations' = relocations \cup {<<At(pos), At(pos + 1)>>}
    /\ UNCHANGED <<file, phase, table, buffers, pos>>

ReadRelocationByWord ==
    /\ phase = "relocations" /\ MoreRelocations /\ EntryWhole
    /\ relocations' = relocations \cup {<<At(pos), At(pos + 1)>>}
    /\ pos' = pos + 1
    /\ UNCHANGED <<file, phase, table, buffers>>

ReadRelocation ==
    /\ phase = "relocations" /\ MoreRelocations /\ EntryWhole
    /\ relocations' = relocations \cup {<<At(pos), At(pos + 1)>>}
    /\ pos' = pos + 2
    /\ UNCHANGED <<file, phase, table, buffers>>

EndRelocations ==
    /\ phase = "relocations"
    /\ MoreRelocations => ~ EntryWhole /\ ~ file.strict
    /\ phase' = "summary"
    /\ UNCHANGED <<file, table, buffers, pos, relocations>>

RaiseArenaError ==
    /\ \/ phase = "header" /\ ~ GoodHeader
       \/ phase = "table" /\ ~ TablePresent
       \/ phase = "buffers" /\ \E i \in DOMAIN table : ~ InFile(table[i])
       \/ phase = "relocations" /\ MoreRelocations /\ ~ EntryWhole /\ file.strict
    /\ phase' = "raised"
    /\ UNCHANGED <<file, table, buffers, pos, relocations>>

Parse == ReadHeader \/ ReadTable \/ CutBuffers \/ ReadRelocation \/ EndRelocations \/ RaiseArenaError

-----------------------------------------------------------------------------
(* The accessors.  Each has a condition: without it the code raises        *)
(* ArenaError.  A reference is a buffer and an offset in it.               *)
Ref(b, o)   == [buffer |-> b, offset |-> o]
IsNull(ref) == ref = Ref(AllOnes, AllOnes)

HasBuffer(b) == b < Len(buffers)
Buffer(b)    == buffers[b + 1]

Readable(ref, size) == ~ IsNull(ref) /\ HasBuffer(ref.buffer) /\ ref.offset + size <= Len(Buffer(ref.buffer))
Read(ref, size)     == SubSeq(Buffer(ref.buffer), ref.offset + 1, ref.offset + size)

(* The places of a NUL at or after a reference.                            *)
Nuls(ref) == {p \in ref.offset + 1 .. Len(Buffer(ref.buffer)) : Buffer(ref.buffer)[p] = 0}

HasCString(ref) == IsNull(ref) \/ (HasBuffer(ref.buffer) /\ Nuls(ref) # {})

(* The string at a reference, empty for NULL: every caller treats the None *)
(* of the code and the empty string alike.                                 *)
CString(ref) == IF IsNull(ref) THEN <<>> ELSE SubSeq(Buffer(ref.buffer), ref.offset + 1, Min(Nuls(ref)) - 1)

(* A list of strings ends with an empty one, or with the buffer.           *)
ListEnds(ref) ==
    {Len(Buffer(ref.buffer)) + 1}
      \cup {p \in Nuls(ref) : p = ref.offset + 1 \/ Buffer(ref.buffer)[p - 1] = 0}

ListStarts(ref) ==
    {p \in ref.offset + 1 .. Min(ListEnds(ref)) - 1 : p = ref.offset + 1 \/ Buffer(ref.buffer)[p - 1] = 0}

HasCStringList(ref) ==
    \/ IsNull(ref)
    \/ /\ HasBuffer(ref.buffer)
       /\ \A p \in ListStarts(ref) : HasCString(Ref(ref.buffer, p - 1))

(* The members of a set in an order, which is a set of pairs.              *)
Sorted(S, R) == [n \in 1 .. Cardinality(S) |-> CHOOSE p \in S : Cardinality({q \in S : <<q, p>> \in R}) = n - 1]

Less(S) == {pq \in S \X S : pq[1] < pq[2]}

CStringList(ref) ==
    IF IsNull(ref) THEN <<>>
    ELSE LET starts == Sorted(ListStarts(ref), Less(ListStarts(ref)))
         IN [n \in DOMAIN starts |-> CString(Ref(ref.buffer, starts[n] - 1))]
=============================================================================
