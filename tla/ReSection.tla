------------------------------ MODULE ReSection ------------------------------
(***************************************************************************)
(* The RE code section of a compiled rule file and the two walks that      *)
(* yaradec/repattern.py makes over it:                                     *)
(*                                                                         *)
(*   segment_programs     one pass from offset 0 that cuts the section     *)
(*                        into programs at each MATCH instruction;         *)
(*   disassemble_program  a second decode of one program, from an offset   *)
(*                        to the first MATCH at or after it.               *)
(*                                                                         *)
(* The second walk is asked for in two ways.  _recover_patterns asks for   *)
(* the program that CONTAINS a forward_code offset (program_containing).   *)
(* The condition recovery asks for the program behind a `matches' operand, *)
(* which sits HeaderLen bytes after the operand's reference.               *)
(*                                                                         *)
(* A section is a sequence of bytes.  Offsets are those of the code        *)
(* (0-based), so the byte at offset o is code[o + 1].  Of an instruction   *)
(* only its width matters here; operand bytes are any bytes, the MATCH     *)
(* byte included.                                                          *)
(***************************************************************************)
EXTENDS Integers, Sequences

CONSTANTS
    Byte,       \* the byte values
    Op,         \* those that are RE opcodes
    Width,      \* _FIXED_WIDTH: the size of each opcode's instruction
    Match,      \* RE_OPCODE_MATCH
    HeaderLen,  \* the flags word of struct RE, in front of a matches program
    Images      \* the sections a run starts from, see below

(***************************************************************************)
(* An image is a section with the place of the pattern programs that the   *)
(* compiler wrote into it, a set of pairs <<first, end>>.                  *)
(***************************************************************************)
ASSUME ReSectionAssumption ==
    /\ Op \subseteq Byte
    /\ Width \in [Op -> Nat \ {0}]
    /\ Match \in Op
    /\ HeaderLen \in Nat
    /\ Images \subseteq [code : Seq(Byte), programs : SUBSET (Nat \X Nat)]

VARIABLES
    code,       \* the bytes of the section
    programs,   \* where the compiler put the pattern programs (never read)
    pc,         \* "segment", "idle" or "disassemble"
    off,        \* segment_programs: the next instruction
    start,      \* segment_programs: where the current program starts
    segments,   \* segment_programs: the programs found so far
    seg,        \* the request: a segment, or NoSegment for a matches operand
    at,         \* disassemble_program: the next instruction
    out,        \* disassemble_program: the offsets decoded so far
    answer      \* how the last request ended

imageVars == <<code, programs>>
segVars   == <<off, start, segments>>
disVars   == <<seg, at, out, answer>>
reVars    == <<imageVars, pc, segVars, disVars>>

NoSegment == <<>>

-----------------------------------------------------------------------------
(* decode_instr: it raises unless the opcode is known and its operands are *)
(* all inside the section.                                                 *)
Decodes(c, o) ==
    /\ o < Len(c)
    /\ c[o + 1] \in Op
    /\ o + Width[c[o + 1]] <= Len(c)

InstrEnd(c, o) == o + Width[c[o + 1]]

IsMatch(c, o) == c[o + 1] = Match

(* The segments that program_containing would accept for an offset; the    *)
(* code takes the first one of the list.                                   *)
HoldsClosed(s, o) == s[1] <= o /\ o <= s[2]    \* the end is taken for inside

Holds(s, o) == s[1] <= o /\ o < s[2]

IsContaining(i, o) ==
    /\ Holds(segments[i], o)
    /\ \A j \in 1 .. i - 1 : ~ Holds(segments[j], o)

-----------------------------------------------------------------------------
WalksInit ==
    /\ pc = "segment"
    /\ off = 0 /\ start = 0 /\ segments = <<>>
    /\ seg = NoSegment /\ at = 0 /\ out = <<>> /\ answer = "none"

Init ==
    /\ \E image \in Images : code = image.code /\ programs = image.programs
    /\ WalksInit

(* Plausible slips in the loop: the start is not moved, bytes are scanned   *)
(* instead of instructions, the list is made anew, the offset moves only   *)
(* after a MATCH.                                                          *)
SegmentNoReset ==
    /\ pc = "segment"
    /\ Decodes(code, off)
    /\ off' = InstrEnd(code, off)
    /\ segments' = IF IsMatch(code, off) THEN Append(segments, <<start, off'>>) ELSE segments
    /\ UNCHANGED <<start, imageVars, pc, disVars>>

SegmentBytes ==
    /\ pc = "segment"
    /\ Decodes(code, off)
    /\ off' = off + 1
    /\ IF IsMatch(code, off)
         THEN segments' = Append(segments, <<start, off + 1>>) /\ start' = off + 1
         ELSE UNCHANGED <<segments, start>>
    /\ UNCHANGED <<imageVars, pc, disVars>>

SegmentAnew ==
    /\ pc = "segment"
    /\ Decodes(code, off)
    /\ off' = InstrEnd(code, off)
    /\ IF IsMatch(code, off)
         THEN segments' = << <<start, off'>> >> /\ start' = off'
         ELSE UNCHANGED <<segments, start>>
    /\ UNCHANGED <<imageVars, pc, disVars>>

SegmentStuck ==
    /\ pc = "segment"
    /\ Decodes(code, off)
    /\ IF IsMatch(code, off)
         THEN /\ off' = InstrEnd(code, off)
              /\ segments' = Append(segments, <<start, off'>>) /\ start' = off'
         ELSE UNCHANGED <<off, segments, start>>
    /\ UNCHANGED <<imageVars, pc, disVars>>

(* One turn of the loop of segment_programs.                               *)
SegmentInstr ==
    /\ pc = "segment"
    /\ Decodes(code, off)
    /\ off' = InstrEnd(code, off)
    /\ IF IsMatch(code, off)
         THEN /\ segments' = Append(segments, <<start, InstrEnd(code, off)>>)
              /\ start' = InstrEnd(code, off)
         ELSE UNCHANGED <<segments, start>>
    /\ UNCHANGED <<imageVars, pc, disVars>>

SegmentDoneEarly ==        \* the last byte of the section is not reached
    /\ pc = "segment"
    /\ off + 1 >= Len(code) \/ ~ Decodes(code, off)
    /\ pc' = "idle"
    /\ UNCHANGED <<imageVars, segVars, disVars>>

(* The loop ends at the end of the section or, silently, at the first byte *)
(* that does not decode.                                                   *)
SegmentDone ==
    /\ pc = "segment"
    /\ ~ Decodes(code, off)
    /\ pc' = "idle"
    /\ UNCHANGED <<imageVars, segVars, disVars>>

LocateFromOffset(o) ==     \* the offset is taken for the start of a program
    /\ pc = "idle"
    /\ \E i \in 1 .. Len(segments) : IsContaining(i, o) /\ seg' = segments[i]
    /\ at' = o /\ out' = <<>>
    /\ pc' = "disassemble"
    /\ UNCHANGED <<imageVars, segVars, answer>>

(* program_containing finds a segment; the caller disassembles it from its *)
(* start.                                                                  *)
LocateProgram(o) ==
    /\ pc = "idle"
    /\ \E i \in 1 .. Len(segments) :
         /\ IsContaining(i, o)
         /\ seg' = segments[i]
         /\ at' = segments[i][1]
    /\ out' = <<>>
    /\ pc' = "disassemble"
    /\ UNCHANGED <<imageVars, segVars, answer>>

(* program_containing returns None.                                        *)
LocateNothing(o) ==
    /\ pc = "idle"
    /\ \A i \in 1 .. Len(segments) : ~ Holds(segments[i], o)
    /\ seg' = NoSegment /\ at' = 0 /\ out' = <<>>
    /\ answer' = "outside"
    /\ UNCHANGED <<imageVars, pc, segVars>>

MatchesBefore(r) ==        \* the flags word is looked for on the wrong side
    /\ pc = "idle"
    /\ r <= Len(code)
    /\ seg' = NoSegment /\ at' = r - HeaderLen /\ out' = <<>>
    /\ pc' = "disassemble"
    /\ UNCHANGED <<imageVars, segVars, answer>>

(* _regex_literal: the flags word must be there, the program follows it.   *)
MatchesOperand(r) ==
    /\ pc = "idle"
    /\ r + HeaderLen <= Len(code)
    /\ seg' = NoSegment /\ at' = r + HeaderLen /\ out' = <<>>
    /\ pc' = "disassemble"
    /\ UNCHANGED <<imageVars, segVars, answer>>

(* One turn of the loop of disassemble_program.                            *)
DisassembleInstr ==
    /\ pc = "disassemble"
    /\ Decodes(code, at)
    /\ out' = Append(out, at)
    /\ at' = InstrEnd(code, at)
    /\ IF IsMatch(code, at)
         THEN pc' = "idle" /\ answer' = "program"
         ELSE UNCHANGED <<pc, answer>>
    /\ UNCHANGED <<imageVars, segVars, seg>>

(* ReDecodeError leaves disassemble_program.                               *)
DisassembleRaise ==
    /\ pc = "disassemble"
    /\ ~ Decodes(code, at)
    /\ pc' = "idle"
    /\ answer' = "error"
    /\ UNCHANGED <<imageVars, segVars, seg, at, out>>

Request == \E o \in 0 .. Len(code) : \/ LocateProgram(o)
                                     \/ LocateNothing(o)
                                     \/ MatchesOperand(o)

Walk == SegmentInstr \/ SegmentDone \/ DisassembleInstr \/ DisassembleRaise

Next == Walk \/ Request

Spec == Init /\ [][Next]_reVars

(* A walk is a loop of a sequential program: it goes on while it can.      *)
(* Nothing obliges a caller to make another request.                       *)
FairSpec == Spec /\ WF_reVars(Walk)
-----------------------------------------------------------------------------
(* A reference for "a run of instructions from a to b of which MATCH can   *)
(* only be the last": a set of offsets, closed under going to the next     *)
(* instruction, that holds a and b and nothing beyond them.                *)
IsWalk(c, a, b, B) ==
    /\ B \subseteq a .. b
    /\ a \in B /\ b \in B
    /\ \A o \in B \ {b} : /\ Decodes(c, o)
                           /\ InstrEnd(c, o) \in B

IsPlain(c, b, B) == \A o \in B \ {b} : ~ IsMatch(c, o)

IsProgram(c, a, b, B) ==
    /\ a < b
    /\ IsWalk(c, a, b, B)
    /\ \A o \in B \ {b} : IsMatch(c, o) <=> InstrEnd(c, o) = b

ProgramAt(c, s) == \E B \in SUBSET (s[1] .. s[2]) : IsProgram(c, s[1], s[2], B)

(* What the compiler's layout is when the section holds nothing but        *)
(* pattern programs: a set of cuts, each but the last followed by one whole *)
(* program that reaches to the next cut.                                   *)
IsLayout(c, P, C) ==
    /\ C \subseteq 0 .. Len(c)
    /\ 0 \in C
    /\ \A a \in C \ {Len(c)} : \E b \in C :
         /\ ProgramAt(c, <<a, b>>)
         /\ \A x \in C : x <= a \/ b <= x
         /\ \A p \in P : p[1] = a => p = <<a, b>>
    /\ \A p \in P : p[1] \in C \ {Len(c)}

LaidOut(c, P) == \E C \in SUBSET (0 .. Len(c)) : IsLayout(c, P, C)

TypeOK ==
    /\ code \in Seq(Byte)
    /\ programs \in SUBSET (Nat \X Nat)
    /\ pc \in {"segment", "idle", "disassemble"}
    /\ off \in Nat /\ start \in Nat
    /\ segments \in Seq(Nat \X Nat)
    /\ seg \in (Nat \X Nat) \cup {NoSegment}
    /\ at \in Nat
    /\ out \in Seq(Nat)
    /\ answer \in {"none", "outside", "program", "error"}

(* The segments are a partition of what was walked, in order: each begins  *)
(* where the one before it ends, the first at offset 0, the last ending    *)
(* at `start'.  program_containing, which takes the first hit, depends on  *)
(* it: an offset lies in one segment at most (repattern.py segment_programs *)
(* keeps start and off in step for that).                                  *)
SegmentsTile ==
    /\ start = IF segments = <<>> THEN 0 ELSE segments[Len(segments)][2]
    /\ \A i \in 1 .. Len(segments) :
         /\ segments[i][1] = IF i = 1 THEN 0 ELSE segments[i - 1][2]
         /\ segments[i][1] < segments[i][2]

(* A segment is one whole program: read from its first byte it decodes to  *)
(* a run of instructions whose only MATCH is the last one.  A MATCH byte   *)
(* inside an operand cuts nothing (the docstring of segment_programs).     *)
SegmentsArePrograms ==
    \A i \in 1 .. Len(segments) : ProgramAt(code, segments[i])

(* disassemble_program, sent to a segment by its start, never raises and   *)
(* stays inside the segment: the two walks agree.  So the handlers of      *)
(* ReDecodeError in _recover_patterns (decompile.py) are never entered.    *)
DisassemblyStaysInSegment ==
    seg # NoSegment =>
        /\ answer = "error" => pc = "disassemble"
        /\ pc = "disassemble" => Decodes(code, at) /\ InstrEnd(code, at) <= seg[2]
        /\ pc = "idle" => at = seg[2]

(* The section is segmented whole: no program that the compiler wrote for  *)
(* a pattern is missing from the list (segment_programs, "Split the whole  *)
(* RE code section into programs").                                        *)
EveryProgramSegmented ==
    pc # "segment" =>
        \A p \in programs : \E i \in 1 .. Len(segments) : segments[i] = p

(* The list of segments only grows at its end, and once a request has been *)
(* made it never changes: what program_containing answers for an offset    *)
(* does not depend on when it is asked.                                    *)
SegmentsSettle ==
    [][/\ Len(segments) <= Len(segments')
       /\ \A i \in 1 .. Len(segments) : segments'[i] = segments[i]
       /\ pc # "segment" => segments' = segments]_reVars

(* Both loops end, on every section: segment_programs, whose loop has no   *)
(* bound but the section's length, and the `while True' of                 *)
(* disassemble_program, which only a MATCH or an error leaves.             *)
WalksEnd == (pc # "idle") ~> (pc = "idle")
=============================================================================
