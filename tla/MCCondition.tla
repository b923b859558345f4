----------------------------- MODULE MCCondition -----------------------------
(***************************************************************************)
(* The conditions that the runs recover: every expression of a small       *)
(* language, compiled as YARA compiles it (YaraCompiler), and code that no *)
(* compiler wrote.                                                         *)
(***************************************************************************)
EXTENDS Condition

MCDword        == 64
MCSizeofString == 2
MCSlot         == {2, 3, 7, 8}
MCStringName   == 0 :> <<"$", "a">> @@ 1 :> <<"$", "b">> @@ 2 :> <<"$">> @@ 3 :> <<"$">>
MCRuleName     == 0 :> "r0" @@ 1 :> "i"
MCSizedString  == 1 :> "words"
MCCString      == 2 :> [name |-> "pe", len |-> 2] @@ 3 :> [name |-> "sections", len |-> 8]
                  @@ 4 :> [name |-> "s", len |-> 1]
MCRegexp       == 1 :> [text |-> "/re/", full |-> TRUE] @@ 2 :> [text |-> "/part/", full |-> FALSE]

Y == INSTANCE YaraCompiler WITH Dword <- MCDword, SizeofString <- MCSizeofString

Named == <<<<"$", "a">>, <<"$", "b">>>>
Nameless == <<<<"$">>, <<"$">>>>
a == Y!StringNamed(0, "a")
b == Y!StringNamed(1, "b")
x == Y!Anonymous(2)
y == Y!Anonymous(3)

F == Y!FileSize
E == Y!EntryPoint
N(n) == Y!Small(n)

-----------------------------------------------------------------------------
(* Arithmetic, in comparisons.                                             *)
Arithmetic == {<<"INT_ADD", "+">>, <<"INT_SUB", "-">>, <<"INT_MUL", "*">>, <<"INT_DIV", "\\">>,
               <<"MOD", "%">>}
Bitwise    == {<<"BITWISE_AND", "&">>, <<"BITWISE_OR", "|">>, <<"BITWISE_XOR", "^">>,
               <<"SHL", "<<">>, <<"SHR", ">>">>}

Nests(o, p) ==
    LET inner == Y!Both(o[1], o[2], F, E)
    IN {Y!Both(p[1], p[2], inner, N(1)), Y!Both(p[1], p[2], N(1), inner),
        Y!Both(p[1], p[2], Y!Minus(inner), Y!BitNot(F)), Y!Both(p[1], p[2], Y!Minus(E), inner)}

Sums == UNION {Nests(o, p) : o \in Arithmetic, p \in Arithmetic}
          \cup UNION {Nests(o, o) : o \in Bitwise}

Less(p, q)  == Y!Both("INT_LT", "<", p, q)
Equal(p, q) == Y!Both("INT_EQ", "==", p, q)

pe == Y!ModuleNamed(2, "pe")
sections == Y!Field(pe, 3, "sections")
Ints == {F, N(7), Y!Large(65), Y!CountOf(a), Y!CountIn(a, N(0), F), Y!OffsetOfMatch(a, N(1)),
         Y!LengthOfMatch(b, Y!Both("INT_ADD", "+", N(1), F)), Y!ReadAs("UINT16", N(0)),
         Y!Value(Y!Item(sections, "INDEX_ARRAY", N(0))),
         Y!Value(Y!Item(sections, "LOOKUP_DICT", Y!Words(1, "words"))),
         Y!Value(Y!Applied(sections, N(1), 4))}

Comparisons ==
    {Less(s, F) : s \in Sums} \cup {Equal(n, m) : n \in Ints, m \in Ints}
      \cup {Y!Both("DBL_LT", "<", Y!ToDouble(F), Y!Both("DBL_ADD", "+", Y!Double(65), Y!Double(66))),
            Y!Both("MATCHES", "matches", Y!Value(pe), Y!Regex(1, "/re/")),
            Y!Both("CONTAINS", "contains", Y!Value(pe), Y!Words(1, "words"))}

-----------------------------------------------------------------------------
(* Strings, sets and Booleans.                                             *)
Places == {N(0), Y!Both("INT_ADD", "+", F, N(1)), Y!Minus(N(1))}

OneString == {Y!Found(a)} \cup {Y!FoundAt(a, p) : p \in Places} \cup {Y!FoundIn(b, N(0), p) : p \in Places}

Quantifiers == {Y!All, N(1), Y!CountOf(a), Y!Both("INT_SUB", "-", Y!CountOf(a), N(1))}
NamedSets   == {Y!StringSet(<<a, b>>), Y!StringSet(<<b>>), Y!RuleSet(<<Y!RuleNamed(0, "r0"), Y!RuleNamed(1, "i")>>)}
SetsOf(quantifiers, sets) ==
    {Y!AnyOf(q, s) : q \in quantifiers, s \in sets}
      \cup {Y!PercentOf(N(50), s) : s \in sets}
      \cup {Y!AnyOfAt(q, s, p) : q \in {Y!All, N(1)}, s \in sets, p \in Places}
      \cup {Y!AnyOfIn(N(1), s, N(0), p) : s \in sets, p \in Places}

Truth == {Y!Found(a), Less(F, N(7)), Y!AnyOf(N(1), Y!StringSet(<<a, b>>)), Y!RuleNamed(0, "r0")}
Joint(P, Q) == {Y!And(p, q) : p \in P, q \in Q} \cup {Y!Or(p, q) : p \in P, q \in Q}
Unary(P)    == {Y!Not(p) : p \in P} \cup {Y!Defined(p) : p \in P}
Truth1 == Joint(Truth, Truth) \cup Unary(Truth)
Booleans == Truth1 \cup Joint(Truth1, Truth) \cup Joint(Truth, Truth1) \cup Unary(Truth1)

-----------------------------------------------------------------------------
(* Loops.  The variable of a loop over strings is itself a string.         *)
i == Y!Variable(0, 1)
s == Y!TheString(Y!VariableSlot(0))

IntBodies == {Equal(i, N(1)), Y!FoundAt(a, i), Y!And(Less(i, F), Y!Found(b)), Y!Not(Y!FoundAt(b, Y!Minus(i)))}
ItemBodies == {Y!Both("CONTAINS", "contains", Y!Value(Y!Field(i, 4, "s")), Y!Words(1, "words"))}
StringBodies == {Y!Found(s), Y!FoundAt(s, N(0)), Less(Y!CountOf(s), Y!OffsetOfMatch(s, N(1))), Y!FoundIn(s, N(0), F)}

RangeLoops == {Y!ForLoop(0, q, Y!OverRange(N(1), hi), body) :
                 q \in {Y!All, N(2)}, hi \in {N(9), Y!CountOf(a)}, body \in IntBodies}
ArrayLoops == {Y!ForLoop(0, q, Y!OverArray(sections), body) : q \in {Y!All, N(1)}, body \in ItemBodies}
StringLoops(members) ==
    {Y!ForLoop(0, q, Y!OverStrings(Y!StringSet(members), Len(members)), body) :
        q \in {Y!All, N(1)}, body \in StringBodies}
Loops == RangeLoops \cup ArrayLoops \cup StringLoops(<<a, b>>) \cup StringLoops(<<b>>)
FirstLoop == Y!ForLoop(0, Y!All, Y!OverRange(N(1), N(9)), Equal(i, N(1)))

LoopConditions ==
    Loops \cup Joint({FirstLoop}, Loops) \cup Joint(Loops, {Y!Found(a)}) \cup Unary(Loops)

SourceRules ==
    {Y!Compiled(p, Named) : p \in Comparisons \cup OneString \cup SetsOf(Quantifiers, NamedSets) \cup Booleans \cup LoopConditions}
      \cup {Y!Compiled(p, Nameless) : p \in SetsOf({Y!All, N(1)}, {Y!StringSet(<<x, y>>)}) \cup StringLoops(<<x, y>>)}

-----------------------------------------------------------------------------
(* Code that no compiler wrote: every sequence of a few snippets.          *)
Opening   == N(1).code \o Y!Ins("CLEAR_M", 0) \o Y!Ins("CLEAR_M", 1) \o Y!Ins("POP_M", 2)
OpenRange == Opening \o N(1).code \o N(9).code \o Y!Op("ITER_START_INT_RANGE") \o Y!Op("ITER_NEXT")
               \o Y!Ins("POP_M", 3) \o Y!Op("JTRUE_P")
OpenSet   == Opening \o Y!Op("FOUND") \o Y!Op("ITER_START_TEXT_STRING_SET") \o Y!Op("ITER_NEXT")
               \o Y!Ins("POP_M", 3)
OpenNameless == Opening \o Y!StringSet(<<x>>).code \o Y!Op("ITER_START_STRING_SET") \o Y!Op("ITER_NEXT")
               \o Y!Ins("POP_M", 3)
OpenLost  == Opening \o Y!Op("INCR_M") \o Y!Op("ITER_START_ARRAY") \o Y!Op("ITER_NEXT") \o Y!Ins("POP_M", 8)
Epilogue  == Y!Ins("INCR_M", 1) \o Y!Ins("PUSH_M", 0) \o Y!Ins("PUSH_M", 2) \o Y!Op("ITER_CONDITION")
Close     == Epilogue \o Y!Op("ITER_END")

Snippets ==
    {N(1).code, a.code, Y!Op("PUSH_U"), Y!Op("FOUND"), Y!Op("OF"), Y!Op("AND"), Y!Op("JFALSE_P"),
     x.code, Y!Regex(9, "").code, Y!Ins("CALL", Y!Ref(5, 9)), Y!Op("OF_FOUND_IN"), Y!Ins("PUSH_M", 3)}
LoopSnippets == {OpenRange, Close, Y!Ins("PUSH_M", 3), Y!Op("AND")}
SetSnippets  == {OpenSet, OpenNameless, OpenLost, OpenRange, Close, Epilogue, Y!Op("FOUND")}

Strings(set, n) == UNION {[1 .. k -> set] : k \in 0 .. n}

Code(snippets) == [code |-> FlattenSeq(snippets), strings |-> Named, source |-> <<>>]
AnyRules ==
    {Code(t) : t \in Strings(Snippets, 3)} \cup {Code(t) : t \in Strings(LoopSnippets, 5)}
      \cup {Code(t) : t \in Strings(SetSnippets, 4)}

-----------------------------------------------------------------------------
(* All of these at once; and conditions that are not recovered as the      *)
(* documentation says.                                                     *)
AllRules == SourceRules \cup AnyRules

Rules1(pieces) == {Y!Compiled(p, Named) : p \in pieces}

BitwiseRules ==
    Rules1({Less(p, F) : p \in UNION {Nests(o, q) : o \in Bitwise \cup Arithmetic, q \in Bitwise \cup Arithmetic}})

(* A 64-bit literal whose low half is the number of a section.             *)
LiteralRules == Rules1({Less(F, Y!Large(n)) : n \in Dword .. 4 * Dword})

(* A 64-bit literal compared with a double.                                *)
DoubleRules == Rules1({Y!Both("DBL_LT", "<", Y!ToDouble(n), Y!Double(66)) : n \in {F, N(1), Y!Large(65)}})

(* A computed percentage.                                                  *)
PercentRules ==
    Rules1({Y!PercentOf(q, Y!StringSet(<<a, b>>)) : q \in {N(50), Y!Both("INT_ADD", "+", N(25), N(25))}})

(* A rule named as the variable that the recovery chooses.                 *)
CaptureRules ==
    Rules1({Y!ForLoop(0, N(1), Y!OverRange(N(1), N(9)), body) :
              body \in {Y!Or(Equal(i, N(2)), Y!RuleNamed(n, MCRuleName[n])) : n \in {0, 1}}})

UnfaithfulRules == BitwiseRules \cup LiteralRules \cup CaptureRules

(* Loops within loops, and over a list of integers.                        *)
j == Y!Variable(5, 2)
OuterLoop(body) == Y!ForLoop(0, Y!All, Y!OverRange(N(1), N(9)), body)
NestedRules == Rules1({OuterLoop(FirstLoop), OuterLoop(
                  Y!ForLoop(5, N(1), Y!OverRange(i, N(9)), Equal(i, j)))})
EnumRules   == Rules1({Y!ForLoop(0, N(1), Y!OverInts(N(1), N(5)), Y!FoundAt(a, i))})

(* What cannot be wholly decoded: a regexp, or a set that is miscounted.   *)
LossyRules ==
    Rules1({Y!Both("MATCHES", "matches", Y!Value(pe), Y!Regex(2, "/part/")),
            Y!ForLoop(0, N(1), Y!OverStrings(Y!StringSet(<<a, b>>), 3), Y!Found(s))})

UnderflowRules == {Code(t) : t \in {<<OpenSet, Y!Ins("PUSH_M", 3), Close>>}}

-----------------------------------------------------------------------------
(* What YARA reads in an emitted condition is what it had compiled, for    *)
(* every operator, set and loop that the recovery rewrites: parentheses by *)
(* precedence, "them" for a full set, the members of a set and their       *)
(* count, the names of loop variables.                                     *)
Faithful ==
    verdict = "condition" /\ rule.source # <<>> =>
        Y!Canonical(condition, rule.strings) = rule.source

(* In code that no compiler wrote (of the rest Faithful says more), the    *)
(* name that the recovery invents for the variable of a loop is not used   *)
(* outside that loop: a body gets a copy of the bindings, and the code     *)
(* after ITER_END the caller's own.                                        *)
VariablesBound ==
    LET text == Y!Canonical(condition, rule.strings)
    IN rule.source = <<>> => \A n \in 1 .. Len(text) : text[n] \notin {"i", "item"}
=============================================================================
