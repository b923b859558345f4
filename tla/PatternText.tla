----------------------------- MODULE PatternText -----------------------------
(***************************************************************************)
(* The text that yaradec writes for a pattern: the second half of the      *)
(* loop of _recover_patterns (decompile.py), which renders the programs    *)
(* that PatternLink found and looks for the plaintext of a base64 pattern, *)
(* then the strings section of render_rule (emit.py).                      *)
(*                                                                         *)
(* It composes the renderer (RegexRender) with the search (Base64): the    *)
(* loop makes a request, waits for the answer and goes on.  A run starts   *)
(* from the strings of a rule; with each comes what its author wrote.      *)
(***************************************************************************)
EXTENDS RegexRender, Base64

CONSTANTS
    Letter,       \* the base64 alphabet: digit -> character
    Sources       \* the rules a run starts from, each a sequence of strings

Flag == {"LITERAL", "HEXADECIMAL", "REGEXP", "NO_CASE", "DOT_ALL", "WIDE", "ASCII",
         "FULL_WORD", "PRIVATE", "XOR", "BASE64", "BASE64_WIDE"}

Unknown == [t |-> "unknown"]   \* of a program no expression compiles to

(* A string: its flags, the characters of a literal, the programs of any   *)
(* other, whether it continues a chain; and what was written: an           *)
(* expression (and whether its quantifiers are of both greedinesses) or    *)
(* the plaintext under base64, the modifiers, and whether "." is any       *)
(* character.  A long jump cuts a hex string into a chain; what was        *)
(* written goes with its head.                                             *)
ASSUME PatternTextAssumption ==
    /\ Letter \in [Digit -> STRING] /\ IsInjective(Letter)
    /\ \A src \in Sources :
         /\ src \in Seq({src[n] : n \in DOMAIN src})
         /\ \A n \in DOMAIN src :
              /\ DOMAIN src[n] = {"flags", "data", "programs", "chained",
                                  "expr", "mixed", "plain", "modifiers", "all"}
              /\ src[n].flags \subseteq Flag /\ src[n].programs \in Seq(Codes)
              /\ src[n].plain \in Plaintext
              /\ src[n].mixed \in BOOLEAN
              /\ n = 1 => ~ src[n].chained

(* The modifiers YARA accepts on a string, and the flags it compiles them  *)
(* to: beside base64 flags may be set that no modifier asked for.          *)
ModifierFlag ==
    [nocase |-> "NO_CASE", wide |-> "WIDE", ascii |-> "ASCII", fullword |-> "FULL_WORD",
     private |-> "PRIVATE", xor |-> "XOR", base64 |-> "BASE64", base64wide |-> "BASE64_WIDE"]

ForBase64 == {"base64", "base64wide", "private"}
Effect(mods) == IF "wide" \in mods THEN mods ELSE mods \cup {"ascii"}

IsBase64(flags) == flags \cap {"BASE64", "BASE64_WIDE"} # {}

Legitimate(str) ==
    /\ str.modifiers \subseteq DOMAIN ModifierFlag
    /\ "HEXADECIMAL" \in str.flags => str.modifiers \subseteq {"private"}
    /\ "xor" \in str.modifiers =>
         "LITERAL" \in str.flags /\ "nocase" \notin str.modifiers
    /\ IsBase64(str.flags) =>
         str.modifiers \subseteq ForBase64 /\ str.flags \cap {"LITERAL", "HEXADECIMAL"} = {}

Compiled(str) ==
    \A mod \in DOMAIN ModifierFlag :
        \/ IsBase64(str.flags) /\ mod \notin ForBase64
        \/ ModifierFlag[mod] \in str.flags <=> mod \in Effect(str.modifiers)

ASSUME ModifierAssumption ==
    \A src \in Sources : \A n \in DOMAIN src : Legitimate(src[n]) /\ Compiled(src[n])

(* The quantifiers of a program, by their greediness: each was compiled to *)
(* a split back to its start, a split past its end, a repeat or a jump of  *)
(* any characters.  A split past the left branch of an alternation, which  *)
(* ends with a jump over the right one, is none.                           *)
SplitsBack(c)    == {o \in DOMAIN c : c[o].op \in Split /\ c[o].target <= o}
SplitsForward(c) == {o \in DOMAIN c : c[o].op \in Split /\ c[o].target > o}
RepeatsOf(c)     == {o \in DOMAIN c : c[o].op \in RepeatStart \cup RepeatAny}

Alternates(c, o) ==
    \E q \in DOMAIN c :
        /\ q < c[o].target /\ \A r \in DOMAIN c : r < c[o].target => r <= q
        /\ c[q].op = "JUMP" /\ c[q].target > c[o].target

CodeGreed(c) ==
    {c[o].op = "SPLIT_B" : o \in SplitsBack(c)}
      \cup {c[o].op = "SPLIT_A" : o \in {f \in SplitsForward(c) : ~ Alternates(c, f)}}
      \cup {(c[o].op \in {"REPEAT_START_GREEDY", "REPEAT_ANY_GREEDY"}) : o \in RepeatsOf(c)}

(* YARA compiles an expression that does not mix them to programs that do  *)
(* not either.  The exception is left out: an alternation with an empty    *)
(* right branch has the split of an optional part, a greedy one, so that   *)
(* "(a|)+?", which mixes nothing, compiles to what mixes, and is given a   *)
(* text that does, "(a?)+?".                                               *)
ASSUME MixAssumption ==
    \A src \in Sources : \A n \in DOMAIN src :
        src[n].expr # Unknown /\ ~ src[n].mixed =>
            \A k \in DOMAIN src[n].programs : CodeGreed(src[n].programs[k]) # BOOLEAN

VARIABLES
    strings,    \* the strings of the rule
    phase,      \* where the loop is
    s,          \* the string of the loop
    p,          \* the program of that string
    rendered,   \* the texts of its programs so far
    exact,      \* FALSE once one of them was not fully recovered
    result,     \* YrString.rendered, for each string
    warnings,   \* the warnings given, pairs <<string, kind>>
    output      \* the lines of the strings section, by their string

loopVars == <<s, p, rendered, exact>>
tvars    == <<strings, phase, loopVars, result, warnings, output>>
vars     == <<tvars, rvars, bvars>>

Has(flag) == flag \in strings[s].flags
Programs  == strings[s].programs
NoText == [form |-> "none", body |-> <<>>, suffix |-> {}]

Init ==
    /\ strings \in Sources
    /\ phase = "strings" /\ s = 1 /\ p = 1 /\ rendered = <<>> /\ exact = TRUE
    /\ result = [n \in DOMAIN strings |-> NoText]
    /\ warnings = {} /\ output = <<>>
    /\ RenderInit /\ SearchInit

-----------------------------------------------------------------------------
(* _regex_suffix                                                           *)
RegexSuffix(flags) ==
    (IF "NO_CASE" \in flags THEN {"i"} ELSE {})
      \cup (IF {"DOT_ALL", "REGEXP"} \subseteq flags THEN {"s"} ELSE {})

(* literal_runs: the maximal runs of LITERAL instructions.                 *)
LiteralRuns(c) ==
    UNION {LET lit(n) == n \in DOMAIN order /\ c[order[n]].op = "LITERAL"
               ends(ab) == /\ ab[1] <= ab[2] /\ ~ lit(ab[1] - 1) /\ ~ lit(ab[2] + 1)
                           /\ \A n \in ab[1] .. ab[2] : lit(n)
           IN {[n \in 1 .. ab[2] - ab[1] + 1 |-> Only(c[order[ab[1] + n - 1]].set)] :
                 ab \in {d \in (DOMAIN order) \X (DOMAIN order) : ends(d)}} :
             order \in {Order(c)}}

NoDigit == <<PairValues, PairValues, PairValues>>   \* the NULs of base64wide

DigitsOf(run) ==
    [n \in DOMAIN run |-> IF \E d \in Digit : Letter[d] = run[n]
                            THEN CHOOSE d \in Digit : Letter[d] = run[n]
                            ELSE NoDigit]

RunsOf(str) ==
    UNION {{DigitsOf(r) : r \in LiteralRuns(str.programs[n])} : n \in DOMAIN str.programs}

(* What YARA compiles the text under base64 to: its permutations, those    *)
(* that have a digit; under base64wide also with a NUL after each digit.   *)
WasBase64(str) == str.plain # <<>> /\ IsBase64(str.flags)

ASSUME EncodingAssumption ==
    \A src \in Sources : \A n \in DOMAIN src :
        WasBase64(src[n]) /\ src[n].programs # <<>> =>
            IF "BASE64_WIDE" \in src[n].flags
              THEN \E run \in RunsOf(src[n]) : run \notin Seq(Digit)
              ELSE RunsOf(src[n]) = Expanded(src[n].plain) \ {<<>>}

SkipLiteral ==
    /\ phase = "strings" /\ s \in DOMAIN strings /\ Has("LITERAL")
    /\ s' = s + 1
    /\ UNCHANGED <<strings, phase, p, rendered, exact, result, warnings, output, rvars, bvars>>

BeginStringKeeps ==  \* the texts of the string before are still there
    /\ phase = "strings" /\ s \in DOMAIN strings /\ ~ Has("LITERAL")
    /\ phase' = "programs"
    /\ p' = 1 /\ exact' = TRUE
    /\ UNCHANGED <<strings, s, rendered, result, warnings, output, rvars, bvars>>

BeginString ==
    /\ phase = "strings" /\ s \in DOMAIN strings /\ ~ Has("LITERAL")
    /\ phase' = "programs"
    /\ p' = 1 /\ rendered' = <<>> /\ exact' = TRUE
    /\ UNCHANGED <<strings, s, result, warnings, output, rvars, bvars>>

HexProgram ==
    /\ phase = "programs" /\ p \in DOMAIN Programs
    /\ Has("HEXADECIMAL") /\ HexExpressible(Programs[p])
    /\ rendered' = Append(rendered,
                     [form |-> "hex", body |-> RenderHex(Programs[p]), suffix |-> {}])
    /\ p' = p + 1
    /\ UNCHANGED <<strings, phase, s, exact, result, warnings, output, rvars, bvars>>

RegexProgramReused ==  \* the renderer of the program before is used again
    /\ phase = "programs" /\ p \in DOMAIN Programs
    /\ ~ (Has("HEXADECIMAL") /\ HexExpressible(Programs[p]))
    /\ code' = Programs[p]
    /\ \E ends \in Whole(Programs[p]) :
         frames' = <<Frame(ends[1], ends[2], Repeated(1, 1, TRUE, 0))>>
    /\ phase' = "regex"
    /\ UNCHANGED <<strings, loopVars, text, full, result, warnings, output, bvars>>

RegexProgram ==
    /\ phase = "programs" /\ p \in DOMAIN Programs
    /\ ~ (Has("HEXADECIMAL") /\ HexExpressible(Programs[p]))
    /\ Start(Programs[p])
    /\ phase' = "regex"
    /\ UNCHANGED <<strings, loopVars, result, warnings, output, bvars>>

RegexStep ==
    /\ phase = "regex" /\ RenderStep
    /\ UNCHANGED <<tvars, bvars>>

RegexRendered ==
    /\ phase = "regex" /\ frames = <<>>
    /\ rendered' = Append(rendered,
         [form |-> "regex", body |-> text, suffix |-> RegexSuffix(strings[s].flags)])
    /\ exact' = (exact /\ full)
    /\ p' = p + 1
    /\ phase' = "programs"
    /\ UNCHANGED <<strings, s, result, warnings, output, rvars, bvars>>

-----------------------------------------------------------------------------
SearchPlaintext ==
    /\ phase = "programs" /\ p \notin DOMAIN Programs
    /\ rendered # <<>> /\ IsBase64(strings[s].flags) /\ Recover(RunsOf(strings[s]))
    /\ phase' = "plaintext"
    /\ UNCHANGED <<strings, loopVars, result, warnings, output, rvars>>

PlaintextStep ==
    /\ phase = "plaintext" /\ SearchStep
    /\ UNCHANGED <<tvars, rvars>>

NextString(text_, kinds) ==
    /\ result' = [result EXCEPT ![s] = text_]
    /\ warnings' = warnings \cup {<<s, kind>> : kind \in kinds}
    /\ s' = s + 1
    /\ phase' = "strings"
    /\ UNCHANGED <<strings, p, rendered, exact, output, rvars, bvars>>

PlaintextFound ==
    /\ phase = "plaintext" /\ ~ searching /\ found # <<>>
    /\ NextString([form |-> "plaintext", body |-> found, suffix |-> {}], {})

(* Whatever else was rendered, the first program's text is shown.          *)
FirstShown(kinds) ==
    NextString(rendered[1],
               kinds \cup (IF Len(rendered) > 1 THEN {"several"} ELSE {})
                     \cup (IF exact THEN {} ELSE {"approximate"}))

PlaintextNotFound ==
    /\ phase = "plaintext" /\ ~ searching /\ found = <<>>
    /\ FirstShown({"no plaintext"})

FinishString ==
    /\ phase = "programs" /\ p \notin DOMAIN Programs
    /\ \/ rendered = <<>> /\ NextString(NoText, {"not linked"})
       \/ rendered # <<>> /\ ~ IsBase64(strings[s].flags) /\ FirstShown({})

-----------------------------------------------------------------------------
(* render_string_body and render_modifiers.                                *)
Body(n) ==
    LET str == strings[n]
    IN CASE result[n] # NoText -> result[n]
         [] "LITERAL" \in str.flags ->
              [form |-> IF "HEXADECIMAL" \in str.flags THEN "hex" ELSE "text",
               body |-> [c \in DOMAIN str.data |-> Token("byte", {str.data[c]})], suffix |-> {}]
         [] OTHER -> [NoText EXCEPT !.form = "unrecovered"]

Words(flags, table) == {row[2] : row \in {r \in table : r[1] \subseteq flags}}

NotWithBase64 ==
    { <<{"NO_CASE", "LITERAL"}, "nocase">>, <<{"WIDE"}, "wide">>, <<{"ASCII", "WIDE"}, "ascii">>,
      <<{"FULL_WORD"}, "fullword">>, <<{"XOR"}, "xor">> }

OfBase64 == {<<{"BASE64"}, "base64">>, <<{"BASE64_WIDE"}, "base64wide">>}

IsHexLiteral(flags) == {"HEXADECIMAL", "LITERAL"} \subseteq flags

ModifiersOfAny(flags) ==  \* also those that YARA refuses beside base64
    Words(flags, {<<{"PRIVATE"}, "private">>}
                   \cup IF IsHexLiteral(flags) THEN {} ELSE OfBase64 \cup NotWithBase64)

Modifiers(flags) ==
    Words(flags, {<<{"PRIVATE"}, "private">>}
                   \cup (IF IsHexLiteral(flags) THEN {} ELSE OfBase64)
                   \cup (IF IsHexLiteral(flags) \/ IsBase64(flags) THEN {} ELSE NotWithBase64))

(* A string that continues a chain is not written.                         *)
Visible == {n \in DOMAIN strings : ~ strings[n].chained}

EmitStrings ==
    /\ phase = "strings" /\ s \notin DOMAIN strings
    /\ output' = [n \in Visible |-> [text |-> Body(n), modifiers |-> Modifiers(strings[n].flags)]]
    /\ warnings' = warnings
         \cup {<<n, "unrecovered">> : n \in {m \in Visible : Body(m).form = "unrecovered"}}
         \cup {w \in Visible \X {"xor", "base64"} : w[2] \in Modifiers(strings[w[1]].flags)}
    /\ phase' = "done"
    /\ UNCHANGED <<strings, loopVars, result, rvars, bvars>>

Step ==
    \/ SkipLiteral \/ BeginString
    \/ HexProgram \/ RegexProgram \/ RegexStep \/ RegexRendered
    \/ SearchPlaintext \/ PlaintextStep \/ PlaintextFound \/ PlaintextNotFound
    \/ FinishString \/ EmitStrings

Done == phase = "done" /\ UNCHANGED vars

Spec == Init /\ [][Step \/ Done]_vars /\ WF_vars(Step)

-----------------------------------------------------------------------------
Form == {"none", "hex", "regex", "text", "plaintext", "unrecovered"}
Loss == {"not linked", "no plaintext", "several", "approximate", "unrecovered"}

(* The type invariant.  While its programs are taken, the texts kept for a *)
(* string are those of its own programs, one for each.                     *)
TypeOK ==
    /\ phase \in {"strings", "programs", "regex", "plaintext", "done"}
    /\ s \in 1 .. Len(strings) + 1 /\ p \in Nat \ {0} /\ exact \in BOOLEAN
    /\ phase \in {"programs", "regex", "plaintext"} => Len(rendered) = p - 1
    /\ \A n \in DOMAIN rendered : rendered[n].form \in {"hex", "regex"}
    /\ \A n \in DOMAIN strings : result[n].form \in Form
    /\ warnings \subseteq (DOMAIN strings) \X (Loss \cup {"xor", "base64"})
    /\ full \in BOOLEAN /\ searching \in BOOLEAN
    /\ (phase = "regex" \/ frames = <<>>) /\ (phase = "plaintext" \/ ~ searching)

(* A line is certain if no warning says that its string was not recovered  *)
(* (and there is something to compare it with: its program was compiled).  *)
Certain ==
    IF phase # "done" THEN {}
    ELSE {n \in DOMAIN output :
            strings[n].expr # Unknown /\ \A kind \in Loss : <<n, kind>> \notin warnings}

(* The permutations of a text fix it, unless two of them are one; or they  *)
(* are those of another text, taken in another order: a single byte of two *)
(* equal halves, or a text of which all digits are the same.               *)
Steady(text_, by) == \A n \in 1 .. Len(text_) - by : text_[n] = text_[n + by]

Distinct(text_) ==
    \A i, j \in 1 .. 3 : Permutation(text_, i) = Permutation(text_, j) => i = j

Unambiguous(text_) ==
    \/ Len(text_) % 12 = 0
    \/ /\ Distinct(text_)
       /\ Len(text_) = 4 => ~ Steady(text_, 2)
       /\ Len(text_) % 12 = 8 => ~ Steady(text_, 3)

(* No base64 pattern is shown as another text than it was compiled from,   *)
(* in whatever order the permutations are tried: the tail that each of     *)
(* them fixes in part is fixed by the three together.                      *)
PlaintextProven ==
    \A n \in Certain : WasBase64(strings[n]) =>
        /\ output[n].text.form = "plaintext"
        /\ Unambiguous(strings[n].plain) => output[n].text.body = strings[n].plain

(* The search does not give up: of every base64 pattern that a program was *)
(* found for a plaintext is shown, whichever seeds are tried first.        *)
PlaintextRecovered ==
    \A n \in DOMAIN strings :
        phase = "done" /\ WasBase64(strings[n]) /\ strings[n].programs # <<>> =>
            (result[n].form = "plaintext" <=> "BASE64_WIDE" \notin strings[n].flags)

(* The same of every base64 pattern: "it either proves the plaintext or    *)
(* reports failure" (b64.py).                                              *)
PlaintextNeverGuessed ==
    \A n \in Certain : WasBase64(strings[n]) => output[n].text.body = strings[n].plain

(* YARA accepts the modifiers of a line together, and they compile to what *)
(* the author's compiled to (emit.py, render_modifiers).                   *)
Legal(form, mods) ==
    /\ form = "hex" => mods \subseteq {"private"}
    /\ mods \cap {"base64", "base64wide"} # {} => form = "plaintext" /\ mods \subseteq ForBase64
    /\ "xor" \in mods => form = "text" /\ "nocase" \notin mods

ModifiersKept ==
    \A n \in Certain :
        /\ Legal(output[n].text.form, output[n].modifiers)
        /\ Effect(output[n].modifiers \cup (IF "i" \in output[n].text.suffix THEN {"nocase"} ELSE {}))
             = Effect(strings[n].modifiers)

(* Merging pieces never invents a quantifier of the other greediness:      *)
(* YARA refuses an expression that mixes them (DEBUGGING.md, section 8).   *)
Greed(text_)     == {text_[n].greedy : n \in {m \in DOMAIN text_ : text_[m].k = "quantifier"}}
MixedText(text_) == Greed(text_) = BOOLEAN

NoMixInvented ==
    \A n \in Certain :
        output[n].text.form = "regex" /\ MixedText(output[n].text.body) => strings[n].mixed

(* The requests of the loop are requests of the renderer, and the renderer *)
(* answers each: what is proved of RegexRender holds of these renderings.  *)
ImplementsRegexRender == RenderSpec

(* The strings section is written, whatever the programs.                  *)
RecoveryEnds == <>(phase = "done")
=============================================================================
