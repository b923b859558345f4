----------------------------- MODULE PatternLink -----------------------------
(***************************************************************************)
(* How yaradec finds the program of each pattern that is not a literal.    *)
(*                                                                         *)
(* A saved rule file has no pointer from a pattern to its program.  The    *)
(* link is made backwards: collect_string_code (acmatch.py) walks the pool *)
(* of Aho-Corasick matches and keeps, for each string, the offsets into    *)
(* the RE code section that its atoms resume at; _recover_patterns         *)
(* (decompile.py) finds the program that contains each offset,             *)
(* disassembles it and renders it.  Last, render_rule (emit.py) reports    *)
(* what was left without a text.                                           *)
(*                                                                         *)
(* The two walks over the section are those of ReSection; here their       *)
(* requests come from the loop over the patterns.  What a renderer writes  *)
(* for a program is the program itself, and whether it could: render_hex   *)
(* knows the opcodes HexOp, render_regex folds FoldOp back exactly.        *)
(***************************************************************************)
EXTENDS Integers, Sequences, FiniteSets

CONSTANTS
    Byte, Op, Width, Match, HeaderLen,  \* as in ReSection
    HexOp, FoldOp,     \* the opcodes either renderer can write exactly
    SizeofString,      \* SIZEOF_STRING, the size of a string-table element
    Files              \* the files a run starts from

(***************************************************************************)
(* A file is an image of ReSection, the flags of its patterns, the         *)
(* Aho-Corasick matches [string, forward, backward], each a reference      *)
(* [buf, off], and what the compiler knew: owner[p] is the pattern that    *)
(* program p was written for.                                              *)
(***************************************************************************)
Flag   == {"LITERAL", "HEXADECIMAL", "BASE64"}
Buffer == {"NULL", "STRINGS_TABLE", "RE_CODE_SECTION", "OTHER"}
Ref    == [buf : Buffer, off : Nat]

Images == {[code |-> f.code, programs |-> f.programs] : f \in Files}

ASSUME PatternLinkAssumption ==
    /\ Op \subseteq Byte /\ Match \in Op /\ Width \in [Op -> Nat \ {0}] /\ HeaderLen \in Nat
    /\ HexOp \subseteq Op /\ FoldOp \subseteq Op
    /\ SizeofString \in Nat \ {0}
    /\ \A f \in Files :
         /\ DOMAIN f = {"code", "programs", "strings", "pool", "owner"}
         /\ f.code \in Seq(Byte) /\ f.programs \in SUBSET (Nat \X Nat)
         /\ f.strings \in Seq(SUBSET Flag)
         /\ f.pool \in Seq([string : Ref, forward : Ref, backward : Ref])
         /\ f.owner \in [f.programs -> 1 .. Len(f.strings)]

VARIABLES
    code, programs, pc, off, start, segments, seg, at, out, answer, \* ReSection
    file,       \* the file being read
    phase,      \* where _recover_patterns is
    k,          \* the next entry of the pool
    codeMap,    \* collect_string_code's result: string -> [forward, backward]
    i,          \* the pattern of the loop, an index into file.strings
    segs,       \* the segments of that pattern
    todo,       \* those still to be disassembled
    rendered,   \* the programs rendered so far for it
    exact,      \* FALSE once one of them was not rendered exactly
    result,     \* YrString.rendered, for every pattern
    warnings    \* the warnings given, pairs <<pattern, kind>>

R == INSTANCE ReSection

reVars   == <<code, programs, pc, off, start, segments, seg, at, out, answer>>
loopVars == <<segs, todo, rendered, exact>>
linkVars == <<file, phase, k, codeMap, i, loopVars, result, warnings>>
vars     == <<reVars, linkVars>>

NoText == [shown |-> <<>>, plain |-> FALSE]

Patterns   == 1 .. Len(file.strings)
IsLiteral(s) == "LITERAL" \in file.strings[s]
IsHex(s)     == "HEXADECIMAL" \in file.strings[s]
IsBase64(s)  == "BASE64" \in file.strings[s]

-----------------------------------------------------------------------------
Init ==
    /\ file \in Files
    /\ code = file.code /\ programs = file.programs /\ R!WalksInit
    /\ phase = "segment"
    /\ k = 1 /\ i = 1
    /\ codeMap = [s \in Patterns |-> [forward |-> {}, backward |-> {}]]
    /\ segs = {} /\ todo = {} /\ rendered = <<>> /\ exact = TRUE
    /\ result = [s \in Patterns |-> NoText]
    /\ warnings = {}

Warn(kinds) == warnings' = warnings \cup {<<i, kind>> : kind \in kinds}

(* An empty section ends the recovery at once, with no warning.            *)
NoReCode ==
    /\ phase = "segment" /\ code = <<>>
    /\ phase' = "emit"
    /\ UNCHANGED <<reVars, file, k, codeMap, i, loopVars, result, warnings>>

SegmentSection ==
    /\ phase = "segment" /\ code # <<>>
    /\ \/ R!SegmentInstr /\ UNCHANGED phase
       \/ R!SegmentDone /\ phase' = "collect"
    /\ UNCHANGED <<file, k, codeMap, i, loopVars, result, warnings>>

-----------------------------------------------------------------------------
(* collect_string_code.  A match names a string only if its reference is   *)
(* to the beginning of an element of the string table.  (What is collected *)
(* for an element that is not there is never looked up.)                   *)
NamesString(m) ==
    /\ m.string.buf = "STRINGS_TABLE"
    /\ m.string.off % SizeofString = 0

StringOf(m) == m.string.off \div SizeofString + 1

ReOffsetsFrom1(ref) ==     \* offsets are counted from 1
    IF ref.buf = "RE_CODE_SECTION" THEN {ref.off - 1} ELSE {}

ReOffsets(ref) == IF ref.buf = "RE_CODE_SECTION" THEN {ref.off} ELSE {}

CollectMatch ==
    /\ phase = "collect" /\ k <= Len(file.pool)
    /\ LET m == file.pool[k] IN
         codeMap' = IF NamesString(m) /\ StringOf(m) \in Patterns
                      THEN [codeMap EXCEPT
                             ![StringOf(m)].forward  = @ \cup ReOffsets(m.forward),
                             ![StringOf(m)].backward = @ \cup ReOffsets(m.backward)]
                      ELSE codeMap
    /\ k' = k + 1
    /\ UNCHANGED <<reVars, file, phase, i, loopVars, result, warnings>>

CollectDone ==
    /\ phase = "collect" /\ k > Len(file.pool)
    /\ phase' = "patterns"
    /\ UNCHANGED <<reVars, file, k, codeMap, i, loopVars, result, warnings>>

-----------------------------------------------------------------------------
SegmentsStarting(offsets) ==   \* offsets are taken for starts of programs
    {segments[j] : j \in {n \in 1 .. Len(segments) : segments[n][1] \in offsets}}

(* The segments that program_containing answers for a pattern's offsets.   *)
SegmentsOf(offsets) ==
    {segments[j] : j \in {n \in 1 .. Len(segments) :
                            \E o \in offsets : R!IsContaining(n, o)}}

SkipLiteral ==
    /\ phase = "patterns" /\ i \in Patterns /\ IsLiteral(i)
    /\ i' = i + 1
    /\ UNCHANGED <<reVars, file, phase, k, codeMap, loopVars, result, warnings>>

NoMatchEntry ==
    /\ phase = "patterns" /\ i \in Patterns /\ ~ IsLiteral(i)
    /\ codeMap[i].forward = {}
    /\ Warn({"not linked"})
    /\ i' = i + 1
    /\ UNCHANGED <<reVars, file, phase, k, codeMap, loopVars, result>>

OutsidePrograms ==
    /\ phase = "patterns" /\ i \in Patterns /\ ~ IsLiteral(i)
    /\ codeMap[i].forward # {} /\ SegmentsOf(codeMap[i].forward) = {}
    /\ Warn({"outside"})
    /\ i' = i + 1
    /\ UNCHANGED <<reVars, file, phase, k, codeMap, loopVars, result>>

FindPrograms ==
    /\ phase = "patterns" /\ i \in Patterns /\ ~ IsLiteral(i)
    /\ SegmentsOf(codeMap[i].forward) # {}
    /\ segs' = SegmentsOf(codeMap[i].forward)
    /\ todo' = segs'
    /\ rendered' = <<>> /\ exact' = TRUE
    /\ phase' = "programs"
    /\ UNCHANGED <<reVars, file, k, codeMap, i, result, warnings>>

DisassembleFromAtom ==     \* begins where an atom resumes
    /\ phase = "programs"
    /\ pc = "idle" /\ pc' = "disassemble"
    /\ \E s \in todo, o \in codeMap[i].forward :
         /\ \A t \in todo : s[1] <= t[1]
         /\ R!Holds(s, o)
         /\ seg' = s /\ at' = o /\ out' = <<>>
         /\ todo' = todo \ {s}
    /\ phase' = "render"
    /\ UNCHANGED <<code, programs, off, start, segments, answer,
                   file, k, codeMap, i, segs, rendered, exact, result, warnings>>

(* The programs are taken in the order of their offsets.                   *)
DisassembleNext ==
    /\ phase = "programs"
    /\ \E s \in todo :
         /\ \A t \in todo : s[1] <= t[1]
         /\ R!LocateProgram(s[1])
         /\ todo' = todo \ {s}
    /\ phase' = "render"
    /\ UNCHANGED <<file, k, codeMap, i, segs, rendered, exact, result, warnings>>

Disassemble ==
    /\ phase = "render"
    /\ R!DisassembleInstr \/ R!DisassembleRaise
    /\ UNCHANGED linkVars

(* disassemble_program has returned: render_hex if it can, else            *)
(* render_regex, which always writes something.                            *)
OpsOut == {code[out[n] + 1] : n \in 1 .. Len(out)} \ {Match}

RenderProgram ==
    /\ phase = "render" /\ pc = "idle"
    /\ IF answer = "program"
         THEN /\ rendered' = Append(rendered, seg)
              /\ exact' = (exact /\ ((IsHex(i) /\ OpsOut \subseteq HexOp)
                                       \/ OpsOut \subseteq FoldOp))
              /\ UNCHANGED warnings
         ELSE /\ exact' = FALSE
              /\ Warn({"decode"})
              /\ UNCHANGED rendered
    /\ phase' = "programs"
    /\ UNCHANGED <<reVars, file, k, codeMap, i, segs, todo, result>>

-----------------------------------------------------------------------------
FinishQuiet(plain) ==      \* the other programs are dropped in silence
    /\ result' = [result EXCEPT ![i] = IF plain \/ rendered # <<>>
                                         THEN [shown |-> rendered[1], plain |-> plain]
                                         ELSE @]
    /\ Warn(IF plain \/ rendered = <<>> THEN {}
            ELSE (IF IsBase64(i) THEN {"base64"} ELSE {})
                   \cup (IF exact THEN {} ELSE {"approximate"}))

(* All programs of the pattern are done.  A base64 pattern shows its       *)
(* plaintext when b64.recover finds one; otherwise the first program is    *)
(* shown, with a warning for each thing that makes it less than the source.*)
Finish(plain) ==
    /\ result' = [result EXCEPT ![i] = IF plain \/ rendered # <<>>
                                         THEN [shown |-> rendered[1], plain |-> plain]
                                         ELSE @]
    /\ Warn(IF plain \/ rendered = <<>> THEN {}
            ELSE (IF IsBase64(i) THEN {"base64"} ELSE {})
                   \cup (IF Len(rendered) > 1 THEN {"several"} ELSE {})
                   \cup (IF exact THEN {} ELSE {"approximate"}))

FinishPattern ==
    /\ phase = "programs" /\ todo = {}
    /\ \/ Finish(FALSE)
       \/ IsBase64(i) /\ rendered # <<>> /\ Finish(TRUE)
    /\ i' = i + 1
    /\ phase' = "patterns"
    /\ UNCHANGED <<reVars, file, k, codeMap, loopVars>>

PatternsDone ==
    /\ phase = "patterns" /\ i \notin Patterns
    /\ phase' = "emit"
    /\ UNCHANGED <<reVars, file, k, codeMap, i, loopVars, result, warnings>>

(* render_string_body: a pattern without a text is written as              *)
(* "<unrecovered>" and reported.                                           *)
EmitStrings ==
    /\ phase = "emit"
    /\ warnings' = warnings \cup
         {<<s, "unrecovered">> : s \in {p \in Patterns : ~ IsLiteral(p) /\ result[p] = NoText}}
    /\ phase' = "done"
    /\ UNCHANGED <<reVars, file, k, codeMap, i, loopVars, result>>

Next ==
    \/ NoReCode \/ SegmentSection
    \/ CollectMatch \/ CollectDone
    \/ SkipLiteral \/ NoMatchEntry \/ OutsidePrograms \/ FindPrograms
    \/ DisassembleNext \/ Disassemble \/ RenderProgram
    \/ FinishPattern \/ PatternsDone \/ EmitStrings

Spec == Init /\ [][Next]_vars /\ WF_vars(Next)

-----------------------------------------------------------------------------
TypeOK ==
    /\ phase \in {"segment", "collect", "patterns", "programs", "render", "emit", "done"}
    /\ k \in 1 .. Len(file.pool) + 1
    /\ i \in 1 .. Len(file.strings) + 1
    /\ codeMap \in [Patterns -> [forward : SUBSET Nat, backward : SUBSET Nat]]
    /\ segs \in SUBSET (Nat \X Nat) /\ todo \subseteq segs
    /\ rendered \in Seq(segs) /\ exact \in BOOLEAN
    /\ result \in [Patterns -> [shown : (Nat \X Nat) \cup {<<>>}, plain : BOOLEAN]]
    /\ warnings \subseteq Patterns \X {"not linked", "outside", "decode", "base64",
                                        "several", "approximate", "unrecovered"}

Warned(s) == \E w \in warnings : w[1] = s

(* What a pattern shows is a program that was compiled for that pattern:   *)
(* never a neighbour's, though atoms resume anywhere in a program, its     *)
(* MATCH included, and programs touch (acmatch.py: "locating the segment   *)
(* that contains an offset, never by assuming an offset is a program       *)
(* start").  Nor is it a backward program's text.                          *)
ForwardOf(s) ==
    {p \in programs : /\ file.owner[p] = s
                      /\ \E o \in codeMap[s].forward : R!Holds(p, o)}

OwnProgramShown ==
    \A s \in Patterns : result[s] # NoText => result[s].shown \in ForwardOf(s)

(* A pattern that ends without any warning is faithful: it has a text, and *)
(* unless that is a recovered plaintext it stands for the only program the *)
(* pattern has and writes each of its instructions exactly.  In particular *)
(* nothing is lost in silence, whatever the section and the matches are    *)
(* (the early returns and `continue's of _recover_patterns).               *)
ExactOps(s, p) ==
    \E B \in SUBSET (p[1] .. p[2]) :
        /\ R!IsProgram(code, p[1], p[2], B)
        /\ \/ IsHex(s) /\ \A o \in B \ {p[2]} : code[o + 1] \in HexOp \cup {Match}
           \/ \A o \in B \ {p[2]} : code[o + 1] \in FoldOp \cup {Match}

UnwarnedIsFaithful ==
    phase = "done" =>
        \A s \in Patterns : ~ IsLiteral(s) /\ ~ Warned(s) =>
            /\ result[s] # NoText
            /\ \/ result[s].plain
               \/ /\ ForwardOf(s) = {result[s].shown}
                  /\ ExactOps(s, result[s].shown)

(* In a section that holds pattern programs only, every pattern that any   *)
(* match links to a program is rendered (README.md, what is recovered).    *)
OnlyPrograms ==
    \A o \in 0 .. Len(code) - 1 : \E p \in programs : R!Holds(p, o)

EveryLinkedPatternRendered ==
    phase = "done" /\ OnlyPrograms =>
        \A s \in Patterns : ~ IsLiteral(s) /\ codeMap[s].forward # {} => result[s] # NoText

(* The requests that the loop over the patterns makes are requests of      *)
(* ReSection: what is proved there of every walk holds of these.           *)
ImplementsReSection == R!Spec
=============================================================================
