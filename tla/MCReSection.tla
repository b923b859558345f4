---------------------------- MODULE MCReSection ----------------------------
(***************************************************************************)
(* ReSection over small sections.  Five byte values stand for all: MATCH   *)
(* and ANY (one byte), LIT (an opcode with an operand byte), JMP (an       *)
(* opcode with two) and x, which is no opcode.                             *)
(***************************************************************************)
EXTENDS ReSection, FiniteSets, SequencesExt

CONSTANT MaxLen     \* the longest raw section

MCByte  == {"MATCH", "ANY", "LIT", "JMP", "x"}
MCOp    == MCByte \ {"x"}
MCWidth == [op \in MCOp |-> CASE op = "LIT" -> 2 [] op = "JMP" -> 3 [] OTHER -> 1]

(* Every section of at most MaxLen bytes, with no program laid out in it.  *)
RawImages ==
    {[code |-> c, programs |-> {}] : c \in UNION {[1 .. n -> MCByte] : n \in 0 .. MaxLen}}

(* The programs that the compiler writes for patterns, with MATCH and junk *)
(* bytes as operands, and what it writes for a matches operand: the four   *)
(* bytes of a flags word, then a program.                                  *)
PatternPrograms ==
    { <<"MATCH">>,
      <<"LIT", "MATCH", "MATCH">>,
      <<"ANY", "LIT", "x", "MATCH">>,
      <<"JMP", "MATCH", "x", "ANY", "MATCH">> }

FlagsWord == <<"x", "x", "x", "x">>

Matches(p) == FlagsWord \o p

(* A section is its items one after the other: [bytes, pattern].           *)
PatternItems == {[bytes |-> p, pattern |-> TRUE] : p \in PatternPrograms}
MatchesItems == {[bytes |-> Matches(<<"ANY", "MATCH">>), pattern |-> FALSE]}

LayOut(items) ==
    FoldLeft(LAMBDA image, item :
               [code     |-> image.code \o item.bytes,
                programs |-> IF item.pattern
                               THEN image.programs \cup
                                    {<<Len(image.code), Len(image.code) + Len(item.bytes)>>}
                               ELSE image.programs],
             [code |-> <<>>, programs |-> {}], items)

Layouts(items) == {LayOut(s) : s \in UNION {[1 .. n -> items] : n \in 0 .. 3}}

PatternImages == Layouts(PatternItems)
MixedImages   == Layouts(PatternItems \cup MatchesItems)

(* The assumption of the completeness theorem holds of what is checked.    *)
ASSUME \A image \in PatternImages : LaidOut(image.code, image.programs)

MCImages == RawImages \cup PatternImages
=============================================================================
