--------------------------- MODULE MCPatternLink ---------------------------
(***************************************************************************)
(* PatternLink over the files a small compiler writes: up to two          *)
(* patterns, each followed in the section by its forward program(s) and a  *)
(* backward program for each, with one Aho-Corasick match per atom.        *)
(***************************************************************************)
EXTENDS PatternLink, SequencesExt

(* LIT has an operand byte; no renderer folds ODD; render_hex rejects SPL. *)
MCByte   == {"MATCH", "ANY", "LIT", "SPL", "ODD", "x"}
MCOp     == MCByte \ {"x"}
MCWidth  == [op \in MCOp |-> IF op = "LIT" THEN 2 ELSE 1]
MCHexOp  == {"ANY", "LIT"}
MCFoldOp == {"ANY", "LIT", "SPL"}

(* A program, with the offsets in it at which an atom may resume.          *)
Programs ==
    { [bytes |-> <<"LIT", "MATCH", "MATCH">>, atoms |-> {0, 2}],
      [bytes |-> <<"SPL", "ANY", "MATCH">>,   atoms |-> {0, 1}],
      [bytes |-> <<"ODD", "MATCH">>,          atoms |-> {1}] }

Backward == <<"ANY", "MATCH">>
FlagsWord == <<"x", "x", "x", "x">>

(* A pattern: its flags, its forward programs and, for each, the atoms.    *)
Linked == UNION {{[bytes |-> p.bytes, atoms |-> a] : a \in SUBSET p.atoms} : p \in Programs}

Short  == {l \in Linked : Len(l.bytes) = 2 \/ l.atoms = {2}}

PatternSpecs ==
    [flags : {{}, {"HEXADECIMAL"}}, forwards : {<<l>> : l \in Linked}]
      \cup [flags : {{}, {"BASE64"}}, forwards : {<<l, m>> : l \in Short, m \in Short}]
      \cup [flags : {{"LITERAL"}}, forwards : {<<>>}]

Null == [buf |-> "NULL", off |-> 0]
At(buf, o) == [buf |-> buf, off |-> o]

(* Entries that link nothing: for no string, for a reference into the      *)
(* middle of an element, for another table.                                *)
Stray ==
    << [string |-> Null, forward |-> At("RE_CODE_SECTION", 0), backward |-> Null],
       [string |-> At("STRINGS_TABLE", 1), forward |-> At("RE_CODE_SECTION", 0), backward |-> Null],
       [string |-> At("OTHER", 0), forward |-> At("RE_CODE_SECTION", 0), backward |-> Null] >>

WriteProgram(s, f, l) ==
    LET first == Len(f.code)
        next  == first + Len(l.bytes)
        end   == next + Len(Backward)
        links == {[string   |-> At("STRINGS_TABLE", SizeofString * (s - 1)),
                   forward  |-> At("RE_CODE_SECTION", first + a),
                   backward |-> At("RE_CODE_SECTION", next)] : a \in l.atoms}
    IN [f EXCEPT !.code     = @ \o l.bytes \o Backward,
                 !.programs = @ \cup {<<first, next>>, <<next, end>>},
                 !.pool     = @ \o SetToSeq(links),
                 !.owner    = [p \in DOMAIN @ \cup {<<first, next>>, <<next, end>>} |->
                                 IF p \in DOMAIN @ THEN @[p] ELSE s]]

(* The files that a file becomes with one more pattern, number s of it.    *)
WithPrograms(s, f, fw) ==
    CASE Len(fw) = 0 -> {f}
      [] Len(fw) = 1 -> {WriteProgram(s, f, fw[1])}
      [] Len(fw) = 2 -> {WriteProgram(s, g, fw[2]) : g \in {WriteProgram(s, f, fw[1])}}

WithPattern(s, f, pattern) ==
    LET literal == [string |-> At("STRINGS_TABLE", SizeofString * (s - 1)),
                    forward |-> Null, backward |-> Null]
    IN {[g EXCEPT !.strings = Append(@, pattern.flags),
                  !.pool    = IF pattern.forwards = <<>> THEN Append(@, literal) ELSE @] :
          g \in WithPrograms(s, f, pattern.forwards)}

Extended(F, s, patterns) == UNION {WithPattern(s, f, p) : f \in F, p \in patterns}

Empty == [code |-> <<>>, programs |-> {}, strings |-> <<>>, pool |-> Stray, owner |-> <<>>]

One == Extended({Empty}, 1, PatternSpecs)
Two == Extended(One, 2, PatternSpecs)

(* The condition of a rule may put a matches operand between the programs  *)
(* of its patterns and those of the next rule.                             *)
OneLinked == {s \in PatternSpecs : Len(s.forwards) = 1 /\ s.forwards[1].atoms # {}}

WithOperand ==
    Extended({[f EXCEPT !.code = @ \o FlagsWord \o <<"ANY", "MATCH">>] :
                 f \in Extended({Empty}, 1, OneLinked)},
             2, OneLinked)

MCFiles == {Empty} \cup One \cup Two \cup WithOperand
=============================================================================
