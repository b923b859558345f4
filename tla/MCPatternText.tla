---------------------------- MODULE MCPatternText ----------------------------
(***************************************************************************)
(* PatternText over small patterns.  Three characters stand for all: a, b  *)
(* and the newline; a pair of bits has two values, so that there are eight *)
(* base64 digits, the letters A .. H.  Words of MaxWord characters tell the bounds of the     *)
(* quantifiers used apart.                                                 *)
(***************************************************************************)
EXTENDS PatternText, YaraRegex

MCChar   == {"a", "b", "newline"}
MCLetter ==
    [d \in Digit |-> <<"A", "B", "C", "D", "E", "F", "G", "H">>[4 * d[1] + 2 * d[2] + d[3] + 1]]

(* What YARA compiles the modifiers of a string to.                        *)
CompiledFlags(mods) == {ModifierFlag[m] : m \in Effect(mods)}

Written0(flags, data, programs, expr, plain, mods, all) ==
    [flags |-> flags, data |-> data, programs |-> programs, chained |-> FALSE,
     expr |-> expr, mixed |-> MixedSource(expr), plain |-> plain, modifiers |-> mods, all |-> all]

RegexOf(e, mods, all) ==
    Written0({"REGEXP"} \cup CompiledFlags(mods) \cup (IF all THEN {"DOT_ALL"} ELSE {}),
             <<>>, <<Compile(e)>>, e, <<>>, mods, all)

HexOf(e) ==
    Written0({"HEXADECIMAL", "DOT_ALL", "ASCII"}, <<>>, <<Compile(e)>>, e, <<>>, {}, TRUE)

(* A text string, or a hex string or a regexp with nothing to search for   *)
(* but characters.                                                         *)
LiteralOf(kind, mods) ==
    Written0({"LITERAL"} \cup kind \cup CompiledFlags(mods), <<"a", "b">>, <<>>,
             Cat(Chr("a"), Chr("b")), <<>>, mods, TRUE)

RECURSIVE CatAll(_)
CatAll(es) == IF es = <<>> THEN Nothing ELSE Cat(Head(es), CatAll(Tail(es)))

(* The program of a base64 pattern: its permutations, as alternatives.     *)
(* base64wide puts a NUL after each digit.                                 *)
DigitsExpr(digits, wide) ==
    CatAll([n \in DOMAIN digits |->
              IF wide THEN Cat(Chr(MCLetter[digits[n]]), Chr("NUL")) ELSE Chr(MCLetter[digits[n]])])

Base64Of(plain, wide, carried) ==
    LET branch(i) == DigitsExpr(Permutation(plain, i), wide)
        e    == Alt(Alt(branch(1), branch(2)), branch(3))
        mods == {IF wide THEN "base64wide" ELSE "base64"}
    IN Written0({ModifierFlag[m] : m \in mods} \cup carried, <<>>, <<Compile(e)>>, Nothing, plain,
                mods, FALSE)

-----------------------------------------------------------------------------
(* Expressions.                                                            *)
A == Chr("a")
B == Chr("b")
C == Class({"a", "newline"}, FALSE)
W == Escape("WORD_CHAR")

Bounds_ == {<<0, 1>>, <<0, 2>>, <<1, 3>>, <<2, 2>>, <<2, 4>>}

Repeats(E, greed) ==
    UNION {{Star(e, g), Plus(e, g)} \cup {Times(e, b[1], b[2], g) : b \in Bounds_} :
             e \in E, g \in greed}

Unbounded(E) == {Times(e, lo, MaxRange, g) : e \in E, lo \in 0 .. 2, g \in BOOLEAN}

AB    == Alt(A, B)
Units == {A, Dot, C, W, Cat(A, B), AB}
Once1 == Repeats(Units, {TRUE}) \cup Repeats({A, Dot, AB}, {FALSE}) \cup Unbounded({A, Dot, AB})
           \cup Repeats({Alt(A, Nothing)}, {TRUE})

Inner(g) == {Star(A, g), Plus(A, g), Times(A, 0, 1, g), Times(A, 1, 3, g), Cat(Plus(AB, g), B)}

(* Quantifiers side by side, in branches, and one inside another.          *)
Beside == {Cat(l, r) : l \in Repeats({A, Dot}, BOOLEAN), r \in {A, Dot, Star(A, TRUE)}}
Chosen == {Alt(l, r) : l \in Repeats({A, AB}, BOOLEAN), r \in {B, Plus(B, TRUE)}}
            \cup {Alt(l, Nothing) : l \in Repeats({A}, {TRUE})}
Nested == UNION {Repeats(Inner(g), {g}) : g \in BOOLEAN} \cup Repeats({Cat(Dot, Dot), Cat(B, AB)}, BOOLEAN)
Deep   == {Star(Cat(Plus(Cat(Star(Cat(Star(A, TRUE), B), TRUE), A), TRUE), B), TRUE)}

Exprs == Units \cup Once1 \cup Beside \cup Chosen \cup Nested \cup Deep

HexExprs ==
    {CatAll(<<A, u, B>>) : u \in {Dot, Masked({"a", "newline"}), Jump(0, 2), Jump(2, 2), Jump(1, Inf)}}
      \cup {CatAll(<<A, Alt(A, Cat(B, Masked({"a", "b"}))), B>>)}

-----------------------------------------------------------------------------
(* Programs that no expression compiles to: three instructions, with jumps *)
(* to anywhere, also into the middle of one, and repeats that do not close.*)
RawOps ==
    {<<"LITERAL", 0>>, <<"REPEAT_START_GREEDY", 0>>, <<"REPEAT_END_GREEDY", 0>>}
      \cup ({"SPLIT_A", "JUMP"} \X {0, 4, 30})

RawInstr(at, op) == At(at, op[1], op[2], 1, 2, {"a"}, FALSE)

RawCodes ==
    {LET b == Width(x[1])  c == b + Width(y[1])  d == c + Width(z[1])
     IN RawInstr(0, x) @@ RawInstr(b, y) @@ RawInstr(c, z) @@ Op(d, "MATCH", 0) :
       x \in RawOps, y \in RawOps, z \in {<<"LITERAL", 0>>, <<"SPLIT_A", 0>>, <<"JUMP", 4>>}}

RawOf(c) == Written0({"REGEXP", "ASCII"}, <<>>, <<c>>, Unknown, <<>>, {}, FALSE)

-----------------------------------------------------------------------------
TextModifiers ==
    {m \in SUBSET {"nocase", "wide", "ascii", "fullword", "private", "xor"} :
       ~ {"nocase", "xor"} \subseteq m}

RegexModifiers == SUBSET {"nocase", "wide", "ascii", "fullword", "private"}

(* Texts of every length up to six bytes but 3k and of 3k, the ambiguous   *)
(* ones included: two permutations are one, or all digits are the same.    *)
OfBytes(bytes) ==
    [k \in 1 .. 4 * Len(bytes) |->
       (bytes[(k - 1) \div 4 + 1] \div <<8, 4, 2, 1>>[((k - 1) % 4) + 1]) % 2]

Plaintexts ==
    {OfBytes(bytes) : bytes \in
       { <<6>>, <<5>>, <<10>>, <<1, 3>>, <<2, 4>>, <<9, 2>>, <<1, 2, 3>>, <<15, 15, 15>>,
         <<1, 2, 3, 4>>, <<15, 0, 15, 0>>, <<10, 10, 10, 10>>, <<15, 15, 15, 15, 0>>,
         <<5, 10, 5, 10, 5>>, <<15, 15, 15, 15, 15>>, <<15, 15, 15, 15, 15, 15>>} }

(* Two strings of one rule: nothing of the first may be left in the second.*)
Unfoldable == RawOf(Op(0, "MASKED_NOT_LITERAL", 0) @@ Op(1, "MATCH", 0))
NotLinked  == [RegexOf(Dot, {}, FALSE) EXCEPT !.programs = <<>>]
TwoPrograms == [RegexOf(Dot, {}, FALSE) EXCEPT !.programs = <<Compile(Dot), Compile(W)>>]
Kinds ==
    {RegexOf(Star(AB, FALSE), {}, TRUE), HexOf(Cat(A, Dot)), LiteralOf({}, {"wide"}),
     Base64Of(OfBytes(<<1, 2, 3>>), FALSE, {}), Base64Of(OfBytes(<<1, 2, 3>>), TRUE, {}),
     Unfoldable, NotLinked, TwoPrograms}

Faithful ==
    {<<RegexOf(e, {}, FALSE)>> : e \in Exprs}
      \cup {<<RegexOf(Cat(A, Dot), m, all)>> : m \in RegexModifiers, all \in BOOLEAN}
      \cup {<<HexOf(e)>> : e \in HexExprs}
      \cup {<<LiteralOf({}, m)>> : m \in TextModifiers}
      \cup {<<LiteralOf({"REGEXP"}, m)>> : m \in RegexModifiers}
      \cup {<<LiteralOf({"HEXADECIMAL"}, m)>> : m \in {{}, {"private"}}}
      \cup {<<Base64Of(t, FALSE, c)>> : t \in Plaintexts, c \in {{}, {"ASCII", "WIDE", "FULL_WORD"}}}
      \cup Kinds \X Kinds

Raw == {<<RawOf(c)>> : c \in RawCodes}

(* What yaradec does not write faithfully, and why (see README.md).        *)
Unfaithful ==
    { <<RegexOf(Star(CatAll(<<AB, A, AB>>), TRUE), {}, FALSE)>>,      \* _needs_group
      <<RegexOf(Class({"a"}, TRUE), {}, FALSE)>>,                     \* `negated` is not read
      <<RegexOf(Class(MCChar, FALSE), {}, FALSE)>>,                   \* [\s\S] becomes .
      <<RegexOf(Cat(Times(A, 2, MaxRange, TRUE), A), {}, FALSE)>>,    \* {3,MaxRange + 1}
      <<HexOf(CatAll(<<Alt(A, B), Dot>>))>>,                          \* /(a|b)./ without s
      <<[HexOf(A) EXCEPT !.expr = CatAll(<<A, Jump(0, 2), B>>)],      \* the tail of a chain
        [HexOf(B) EXCEPT !.chained = TRUE]>> }

CONSTANT Given   \* "faithful", "unfaithful" or "base64"

MCSources ==
    CASE Given = "faithful"   -> Faithful \cup Raw
      [] Given = "unfaithful" -> Unfaithful
      [] Given = "base64"     -> {<<Base64Of(t, FALSE, {})>> : t \in Plaintexts}

MCCodes == UNION {UNION {ToSet(r[n].programs) : n \in DOMAIN r} : r \in MCSources}

-----------------------------------------------------------------------------
(* Properties that take YARA's reading of the text.                        *)

(* A pattern written with no warning matches what its source matches: as   *)
(* YARA reads the text, its language is that of the expression the author  *)
(* wrote (README.md, "Semantic mismatches | 0"; "Anything it cannot fold   *)
(* is reported rather than silently mangled", _RegexRenderer).             *)
Meaning(text_) ==
    Read(text_.body, text_.form # "regex" \/ "s" \in text_.suffix)

PatternFaithful ==
    \A n \in Certain : output[n].text.form # "plaintext" =>
        Meaning(output[n].text) = Lang(strings[n].expr, strings[n].all)
=============================================================================
