------------------------------ MODULE YaraRegex ------------------------------
(***************************************************************************)
(* YARA, as yaradec's patterns meet it: how libyara (re.c, _yr_re_emit)    *)
(* compiles a regular expression to the bytecode that RegexRender reads,   *)
(* and how its parser reads the text that yaradec writes.  Both give an    *)
(* expression its language, the words of at most MaxWord characters that   *)
(* it matches.  The compiler is external to the repository: repattern.py   *)
(* names the shapes it emits in the comments of _RegexRenderer.            *)
(***************************************************************************)
EXTENDS RegexRender, TLC

CONSTANTS
    Newline,      \* the character "." does not match, unless /s is given
    MaxRange,     \* the greatest bound of a quantifier
    MaxWord       \* the longest word of a language

ASSUME YaraRegexAssumption ==
    Newline \in Char /\ MaxRange \in Nat /\ 2 * MaxRange < Inf /\ MaxWord \in Nat

-----------------------------------------------------------------------------
(* Languages.                                                              *)
Empty        == {<<>>}
Letters(set) == {<<c>> : c \in set}
AnyChar(all) == Letters(IF all THEN Char ELSE Char \ {Newline})

Concat(A, B) == {w \in {a \o b : a \in A, b \in B} : Len(w) <= MaxWord}

RECURSIVE Power(_, _, _)
Power(A, lo, hi) ==
    CASE hi = 0 -> Empty
      [] lo > 0 -> Concat(A, Power(A, lo - 1, hi - 1))
      [] OTHER  -> Empty \cup Concat(A, Power(A, 0, hi - 1))

RepeatLang(A, lo, hi) == Power(A, lo, IF hi > lo + MaxWord THEN lo + MaxWord ELSE hi)

(* Expressions: what a rule author wrote.                                  *)
Chr(c)               == [t |-> "atom", op |-> "LITERAL", set |-> {c}, negated |-> FALSE]
Dot                  == [t |-> "atom", op |-> "ANY", set |-> {}, negated |-> FALSE]
Class(set, negated)  == [t |-> "atom", op |-> "CLASS", set |-> set, negated |-> negated]
Masked(set)          == [t |-> "atom", op |-> "MASKED_LITERAL", set |-> set, negated |-> FALSE]
Escape(op)           == [t |-> "atom", op |-> op, set |-> {}, negated |-> FALSE]
Nothing              == [t |-> "empty"]
Cat(l, r)            == [t |-> "cat", l |-> l, r |-> r]
Alt(l, r)            == [t |-> "alt", l |-> l, r |-> r]
Star(e, g)           == [t |-> "star", e |-> e, greedy |-> g]
Plus(e, g)           == [t |-> "plus", e |-> e, greedy |-> g]
Times(e, lo, hi, g)  == [t |-> "range", e |-> e, lo |-> lo, hi |-> hi, greedy |-> g]
Jump(lo, hi)         == [t |-> "jump", lo |-> lo, hi |-> hi, greedy |-> FALSE]  \* hex [lo-hi]

RECURSIVE Lang(_, _)
Lang(e, all) ==
    CASE e.t = "empty" -> Empty
      [] e.t = "cat"   -> Concat(Lang(e.l, all), Lang(e.r, all))
      [] e.t = "alt"   -> Lang(e.l, all) \cup Lang(e.r, all)
      [] e.t = "star"  -> RepeatLang(Lang(e.e, all), 0, Inf)
      [] e.t = "plus"  -> RepeatLang(Lang(e.e, all), 1, Inf)
      [] e.t = "range" -> RepeatLang(Lang(e.e, all), e.lo, e.hi)
      [] e.t = "jump"  -> RepeatLang(AnyChar(all), e.lo, e.hi)
      [] e.op = "ANY"  -> AnyChar(all)
      [] e.op \in Shorthand -> Letters({e.op})
      [] OTHER -> Letters(IF e.negated THEN Char \ e.set ELSE e.set)

-----------------------------------------------------------------------------
(* The compiler.  Emit gives the instructions of e, the first of them at   *)
(* the offset at, and the offset after the last.                           *)
Width(op) ==
    CASE op = "CLASS" -> 34
      [] op = "MASKED_LITERAL" -> 3
      [] op \in {"LITERAL", "NOT_LITERAL"} -> 2
      [] op = "JUMP" -> 3
      [] op \in Split -> 4
      [] op \in RepeatAny -> 5
      [] op \in RepeatStart \cup RepeatEnd -> 9
      [] OTHER -> 1

At(at, op, target, lo, hi, set, negated) ==
    at :> [op |-> op, end |-> at + Width(op), target |-> target, lo |-> lo, hi |-> hi,
           set |-> set, negated |-> negated]

Op(at, op, target) == At(at, op, target, 0, 0, {}, FALSE)
Bounds(at, op, lo, hi) == At(at, op, 0, lo, hi, {}, FALSE)

SplitOn(first)   == IF first THEN "SPLIT_A" ELSE "SPLIT_B"
OrUngreedy(op, g) == IF g THEN op \o "_GREEDY" ELSE op \o "_UNGREEDY"

(* e{lo,hi} is a prolog, a repeat, a split and an epilog, of which some    *)
(* are left out (the table in the comments of _yr_re_emit).                *)
Expand(e) ==
    LET prolog == e.lo > 0
        repeat == e.hi > e.lo + 1 \/ e.hi > 2
        split  == e.hi > e.lo
        epilog == split \/ e.hi > 1
        first  == IF prolog THEN 1 ELSE 0
        last   == IF split THEN <<0, 1>> ELSE <<1, 1>>
        part(cond, node) == IF cond THEN node ELSE Nothing
    IN Cat(Cat(part(prolog, e.e),
               part(repeat, [t |-> "repeat", e |-> e.e, greedy |-> e.greedy,
                             lo |-> e.lo - first - last[1], hi |-> e.hi - first - last[2]])),
           part(epilog, IF split THEN [t |-> "optional", e |-> e.e, greedy |-> e.greedy]
                                 ELSE e.e))

RECURSIVE Emit(_, _)
Emit(e, at) ==
    CASE e.t = "atom" ->
           [code |-> At(at, e.op, 0, 0, 0, e.set, e.negated), end |-> at + Width(e.op)]
      [] e.t = "empty" -> [code |-> <<>>, end |-> at]
      [] e.t = "cat" ->
           LET l == Emit(e.l, at)  r == Emit(e.r, l.end)
           IN [code |-> l.code @@ r.code, end |-> r.end]
      [] e.t = "alt" ->
           LET l == Emit(e.l, at + 4)  r == Emit(e.r, l.end + 3)
           IN [code |-> Op(at, "SPLIT_A", l.end + 3) @@ l.code
                          @@ Op(l.end, "JUMP", r.end) @@ r.code,
               end |-> r.end]
      [] e.t = "star" ->
           LET b == Emit(e.e, at + 4)
           IN [code |-> Op(at, SplitOn(e.greedy), b.end + 3) @@ b.code @@ Op(b.end, "JUMP", at),
               end |-> b.end + 3]
      [] e.t = "plus" ->
           LET b == Emit(e.e, at)
           IN [code |-> b.code @@ Op(b.end, SplitOn(~ e.greedy), at), end |-> b.end + 4]
      [] e.t = "optional" ->
           LET b == Emit(e.e, at + 4)
           IN [code |-> Op(at, SplitOn(e.greedy), b.end) @@ b.code, end |-> b.end]
      [] e.t = "repeat" ->
           LET b == Emit(e.e, at + 9)
           IN [code |-> Bounds(at, OrUngreedy("REPEAT_START", e.greedy), e.lo, e.hi) @@ b.code
                          @@ Bounds(b.end, OrUngreedy("REPEAT_END", e.greedy), e.lo, e.hi),
               end |-> b.end + 9]
      [] e.t = "jump" \/ (e.t = "range" /\ e.e = Dot) ->
           [code |-> Bounds(at, OrUngreedy("REPEAT_ANY", e.greedy), e.lo, e.hi), end |-> at + 5]
      [] OTHER -> Emit(Expand(e), at)

Compile(e) ==
    LET body == Emit(e, 0) IN body.code @@ Op(body.end, "MATCH", 0)

-----------------------------------------------------------------------------
(* The parser, which gives a text its language at once. A text that YARA *)
(* would not accept has the language Illegal.                              *)
Illegal == {<<"illegal">>}

AtomLang(k, all) ==
    CASE k.k \in {"literal", "class", "byte"} -> Letters(k.set)
      [] k.k = "negated class" -> Letters(Char \ k.set)
      [] k.k = "."             -> AnyChar(all)
      [] k.k = "??"            -> Letters(Char)
      [] k.k = "jump"          -> RepeatLang(Letters(Char), k.lo, k.hi)
      [] k.k \in Shorthand     -> Letters({k.k})
      [] OTHER                 -> Illegal

LegalQuantifier(q) == q.lo <= MaxRange /\ (q.hi <= MaxRange \/ q.hi = Inf)

Quantified(A, q) ==
    IF LegalQuantifier(q) THEN RepeatLang(A, q.lo, q.hi) ELSE Illegal

RECURSIVE ReadAlternative(_, _, _), ReadConcat(_, _, _, _)
ReadConcat(t, i, all, done) ==
    IF i > Len(t) \/ t[i].k \in {")", "|"} THEN [lang |-> done, next |-> i]
    ELSE LET group  == IF t[i].k = "("
                         THEN ReadAlternative(t, i + 1, all)
                         ELSE [lang |-> AtomLang(t[i], all), next |-> i]
             after  == group.next + 1
             counts == after <= Len(t) /\ t[after].k = "quantifier"
             lang   == IF counts THEN Quantified(group.lang, t[after]) ELSE group.lang
         IN ReadConcat(t, IF counts THEN after + 1 ELSE after, all, Concat(done, lang))

ReadAlternative(t, i, all) ==
    LET l == ReadConcat(t, i, all, Empty)
    IN IF l.next > Len(t) \/ t[l.next].k = ")" THEN l
       ELSE LET r == ReadAlternative(t, l.next + 1, all)
            IN [lang |-> l.lang \cup r.lang, next |-> r.next]

Read(t, all) == ReadAlternative(t, 1, all).lang

(* Whether the quantifiers of an expression are of both greedinesses.      *)
RECURSIVE Greeds(_)
Greeds(e) ==
    CASE e.t \in {"cat", "alt"} -> Greeds(e.l) \cup Greeds(e.r)
      [] e.t \in {"star", "plus", "range"} -> Greeds(e.e) \cup {e.greedy}
      [] OTHER -> {}

MixedSource(e) == Greeds(e) = BOOLEAN
=============================================================================
