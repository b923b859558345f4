------------------------- MODULE ConditionTextProofs -------------------------
(***************************************************************************)
(* What the texts of the recovery are made of, for every code, compiled or *)
(* not: the recovery's state keeps its type, and what pop() gives for an   *)
(* empty stack stays out of a condition without loops.                     *)
(*                                                                         *)
(* The lemmas are about a set W of words, the fixed words and those of the *)
(* tables among them: with the marker for the first result, without it for *)
(* the second.                                                             *)
(***************************************************************************)
EXTENDS ConditionProofs

-----------------------------------------------------------------------------
(* The texts that a comma keeps among T.                                   *)
Joinable(T) == <<>> \in T /\ \A a, b \in T : a \o <<",">> \o b \in T

JoinStep(texts, n, t) == IF n = 1 THEN texts[1] ELSE t \o <<",">> \o texts[n]

(* A text that is joined of members of T is one.                           *)
LEMMA JoinedIn ==
    ASSUME NEW T, Joinable(T), NEW texts \in Seq(T)
    PROVE  Joined(texts) \in T
<1> DEFINE N == Len(texts)
<1>1. N \in Nat /\ \A n \in 1 .. N : texts[n] \in T
  OBVIOUS
<1> DEFINE G == [n \in 1 .. N |-> [t \in T |-> JoinStep(texts, n, t)]]
<1>2. G \in [1 .. N -> [T -> T]]
  <2>1. ASSUME NEW n \in 1 .. N, NEW t \in T
        PROVE  JoinStep(texts, n, t) \in T
    BY <1>1 DEF Joinable, JoinStep
  <2>. QED  BY <2>1
<1>3. ASSUME NEW t \in T, NEW n \in 1 .. N
      PROVE  G[n][t] = JoinStep(texts, n, t)
  OBVIOUS
<1> HIDE DEF N, G
<1> DEFINE z == <<>>
<1>0. z \in T
  BY DEF Joinable
<1> HIDE DEF z
<1>4. PICK f : Stepwise(T, z, G, N, f)
  BY <1>0, <1>1, <1>2, StepsExist
<1> DEFINE Step(u, n) == IF n = 0 THEN <<>> ELSE JoinStep(texts, n, u[n - 1])
<1>5. f = [n \in 0 .. N |-> Step(f, n)]
  <2>1. ASSUME NEW n \in 0 .. N PROVE f[n] = Step(f, n)
    <3>1. CASE n = 0
      BY <1>4, <3>1 DEF z, Stepwise
    <3>2. CASE n \in 1 .. N
      <4>1. f[n - 1] \in T
        BY <1>1, <1>4, <3>2 DEF Stepwise
      <4>2. f[n] = JoinStep(texts, n, f[n - 1])
        BY <1>3, <1>4, <3>2, <4>1 DEF Stepwise
      <4>. QED  BY <1>1, <3>2, <4>2
    <3>. QED  BY <1>1, <3>1, <3>2
  <2> HIDE DEF Step
  <2>. QED  BY <1>4, <2>1 DEF Stepwise
<1> DEFINE u == CHOOSE u : u = [n \in 0 .. N |-> Step(u, n)]
<1>6. \A n \in 0 .. N : u[n] = Step(u, n)
  <2> HIDE DEF Step
  <2>. QED  BY <1>5
<1>7. Joined(texts) = u[N]
  BY DEF Joined, JoinStep, N
<1> HIDE DEF u
<1>8. u[0] \in T
  BY <1>0, <1>1, <1>6 DEF z
<1>9. ASSUME NEW n \in 1 .. N, u[n - 1] \in T PROVE u[n] \in T
  <2>1. u[n] = Step(u, n) /\ texts[n] \in T /\ texts[1] \in T
    BY <1>1, <1>6
  <2>2. JoinStep(texts, n, u[n - 1]) \in T
    BY <1>9, <2>1 DEF Joinable, JoinStep
  <2>. QED  BY <1>1, <2>1, <2>2
<1>10. \A n \in 0 .. N : u[n] \in T
  BY <1>1, <1>8, <1>9, StaysIn
<1>. QED  BY <1>1, <1>7, <1>10

LeftStep(stack, n, t) == IF stack[n].raw = UndefMark THEN t ELSE Append(t, stack[n])

(* The values that a recovery leaves are among those of its stack.         *)
LEMMA LeftIn ==
    ASSUME NEW V, NEW f, f.stack \in Seq(V)
    PROVE  Left(f) \in Seq(V)
<1> DEFINE N == Len(f.stack)
<1> DEFINE T == Seq(V)
<1> DEFINE stack == f.stack
<1>1. N \in Nat /\ \A n \in 1 .. N : stack[n] \in V
  OBVIOUS
<1>2. <<>> \in T /\ \A t \in T, e \in V : Append(t, e) \in T
  OBVIOUS
<1> DEFINE G == [n \in 1 .. N |-> [t \in T |-> LeftStep(stack, n, t)]]
<1> HIDE DEF T
<1>3. G \in [1 .. N -> [T -> T]]
  <2>1. ASSUME NEW n \in 1 .. N, NEW t \in T
        PROVE  LeftStep(stack, n, t) \in T
    <3> HIDE DEF stack, N
    <3>. QED  BY <1>1, <1>2 DEF LeftStep
  <2>. QED  BY <2>1
<1>4. ASSUME NEW t \in T, NEW n \in 1 .. N
      PROVE  G[n][t] = LeftStep(stack, n, t)
  OBVIOUS
<1> HIDE DEF N, G, stack
<1> DEFINE z == <<>>
<1>0. z \in T
  BY <1>2
<1> HIDE DEF z
<1>5. PICK g : Stepwise(T, z, G, N, g)
  BY <1>0, <1>1, <1>3, StepsExist
<1> DEFINE Step(u, n) == IF n = 0 THEN <<>> ELSE LeftStep(stack, n, u[n - 1])
<1>6. g = [n \in 0 .. N |-> Step(g, n)]
  <2>1. ASSUME NEW n \in 0 .. N PROVE g[n] = Step(g, n)
    <3>1. CASE n = 0
      BY <1>5, <3>1 DEF z, Stepwise
    <3>2. CASE n \in 1 .. N
      <4>1. g[n - 1] \in T
        BY <1>1, <1>5, <3>2 DEF Stepwise
      <4>2. g[n] = LeftStep(stack, n, g[n - 1])
        BY <1>4, <1>5, <3>2, <4>1 DEF Stepwise
      <4>. QED  BY <1>1, <3>2, <4>2
    <3>. QED  BY <1>1, <3>1, <3>2
  <2> HIDE DEF Step
  <2>. QED  BY <1>5, <2>1 DEF Stepwise
<1> DEFINE u == CHOOSE u : u = [n \in 0 .. N |-> Step(u, n)]
<1>7. \A n \in 0 .. N : u[n] = Step(u, n)
  <2> HIDE DEF Step
  <2>. QED  BY <1>6
<1>8. Left(f) = u[N]
  BY DEF Left, LeftStep, N, stack
<1> HIDE DEF u
<1>9. u[0] \in T
  BY <1>1, <1>2, <1>7
<1>10. ASSUME NEW n \in 1 .. N, u[n - 1] \in T PROVE u[n] \in T
  <2>1. u[n] = Step(u, n) /\ stack[n] \in V
    BY <1>1, <1>7
  <2>. QED  BY <1>1, <1>2, <1>10, <2>1 DEF LeftStep
<1>11. \A n \in 0 .. N : u[n] \in T
  BY <1>1, <1>9, <1>10, StaysIn
<1>. QED  BY <1>1, <1>8, <1>11 DEF T
-----------------------------------------------------------------------------
(* The words of a set that has every word but, perhaps, the marker.        *)
WordSet(W) == W \subseteq STRING /\ Word \subseteq W

Raws(W)  == {n \in Int : n >= 0 => ToString(n) \o "d" \in W}
Value(W) == [text : Seq(W), prec : 1 .. 7, raw : Raws(W)]

LEMMA WordsIn ==
    ASSUME NEW W, WordSet(W)
    PROVE  /\ \A t \in Seq(Word) : t \in Seq(W)
           /\ \A w \in Word : <<w>> \in Seq(W)
           /\ <<>> \in Seq(W)
           /\ \A t, u \in Seq(W) : t \o u \in Seq(W)
<1>1. Word \subseteq W
  BY DEF WordSet
<1>2. \A t \in Seq(Word) : t \in Seq(W)
  BY <1>1, SeqMonotonic
<1>3. \A w \in Word : <<w>> \in Seq(W)
  BY <1>1
<1>4. \A t, u \in Seq(W) : t \o u \in Seq(W)
  BY ConcatProperties
<1>. QED  BY <1>2, <1>3, <1>4

(* The precedences, and the words of the operators.                        *)
LEMMA Levels ==
    /\ Prec.or = 1 /\ Prec.and = 2 /\ Prec.cmp = 3 /\ Prec.add = 4 /\ Prec.mul = 5
    /\ Prec.unary = 6 /\ Prec.atom = 7
    /\ \A p \in {"or", "and", "cmp", "add", "mul", "unary", "atom"} : Prec[p] \in 1 .. 7
  BY DEF Prec

(* What is written of itself is a word.                                    *)
LEMMA FixedIn ==
    ASSUME NEW W, WordSet(W), NEW w \in FixedWords PROVE w \in W /\ <<w>> \in Seq(W)
<1>1. w \in Word
  BY SpellingAssumption
<1>. QED  BY <1>1, WordsIn DEF WordSet

Kinds == {"or", "and", "cmp", "add", "mul", "unary", "atom"}

LEMMA OperatorKinds ==
    /\ DOMAIN CmpOp \cap (DOMAIN AddOp \cup DOMAIN MulOp \cup {"AND", "OR"}) = {}
    /\ DOMAIN AddOp \cap (DOMAIN MulOp \cup {"AND", "OR"}) = {}
    /\ DOMAIN MulOp \cap {"AND", "OR"} = {}
  BY DEF CmpOp, AddOp, MulOp

LEMMA OperatorWords ==
    ASSUME NEW op \in BinOp
    PROVE  /\ Class(op) \in Kinds
           /\ Symbol(op) \in FixedWords
<1> USE OperatorKinds DEF Class, Symbol, Kinds, FixedWords
<1>1. CASE op \in DOMAIN CmpOp
  BY <1>1
<1>2. CASE op \in DOMAIN AddOp
  BY <1>2
<1>3. CASE op \in DOMAIN MulOp
  BY <1>3
<1>4. CASE op \in {"AND", "OR"}
  BY <1>4
<1>. QED  BY <1>1, <1>2, <1>3, <1>4 DEF BinOp

LEMMA PrefixWords ==
    ASSUME NEW W, WordSet(W), NEW op \in DOMAIN PrefixOp PROVE PrefixOp[op] \in Seq(W)
<1>1. PICK w \in {"not", "~", "-", "defined"} : PrefixOp[op] = <<w>>
  BY DEF PrefixOp
<1>2. w \in FixedWords
  BY DEF FixedWords
<1>. QED  BY <1>1, <1>2, FixedIn

LEMMA ParenIn ==
    ASSUME NEW W, WordSet(W), NEW e, e.text \in Seq(W), NEW min
    PROVE  Paren(e, min) \in Seq(W)
<1>1. "(" \in FixedWords /\ ")" \in FixedWords
  BY DEF FixedWords
<1>2. <<"(">> \in Seq(W) /\ <<")">> \in Seq(W)
  BY <1>1, FixedIn
<1>3. <<"(">> \o e.text \o <<")">> \in Seq(W)
  BY <1>2, ConcatProperties
<1>. QED  BY <1>3 DEF Paren

LEMMA IntervalIn ==
    ASSUME NEW W, WordSet(W), NEW lo, NEW hi, lo.text \in Seq(W), hi.text \in Seq(W)
    PROVE  Interval(lo, hi) \in Seq(W)
<1>1. "(" \in FixedWords /\ ")" \in FixedWords /\ ".." \in FixedWords
  BY DEF FixedWords
<1>2. <<"(">> \in Seq(W) /\ <<")">> \in Seq(W) /\ <<"..">> \in Seq(W)
  BY <1>1, FixedIn
<1>. QED  BY <1>2, ConcatProperties DEF Interval

LEMMA ExprIn ==
    ASSUME NEW W, WordSet(W), NEW t \in Seq(W),
           NEW p \in Kinds
    PROVE  Expr(t, p) \in Value(W)
<1>1. Prec[p] \in 1 .. 7
  BY Levels DEF Kinds
<1>2. NoRaw \in Raws(W)
  BY DEF NoRaw, Raws
<1>. QED  BY <1>1, <1>2 DEF Expr, Value

LEMMA AtomIn ==
    ASSUME NEW W, WordSet(W), NEW t \in Seq(W) PROVE Atom(t) \in Value(W)
  BY ExprIn DEF Atom, Kinds

LEMMA AsDoubleIn ==
    ASSUME NEW W, WordSet(W), NEW e \in Value(W) PROVE AsDouble(e).text \in Seq(W)
<1>1. e.raw \in Raws(W) /\ e.text \in Seq(W) /\ DOMAIN e = {"text", "prec", "raw"}
  BY DEF Value
<1>2. CASE e.raw < 0
  BY <1>1, <1>2 DEF AsDouble
<1>3. CASE ~ (e.raw < 0)
  <2>1. ToString(e.raw) \o "d" \in W
    BY <1>1, <1>3 DEF Raws
  <2>2. <<ToString(e.raw) \o "d">> \in Seq(W)
    BY <2>1
  <2>3. AsDouble(e).text = <<ToString(e.raw) \o "d">>
    BY <1>1, <1>3 DEF AsDouble
  <2>. QED  BY <2>2, <2>3
<1>. QED  BY <1>2, <1>3

LEMMA BinaryIn ==
    ASSUME NEW W, WordSet(W), NEW op \in BinOp, NEW l \in Value(W), NEW r \in Value(W)
    PROVE  Binary(op, l, r) \in Value(W)
<1> DEFINE x == IF op \in DblOp THEN AsDouble(l) ELSE l
<1> DEFINE y == IF op \in DblOp THEN AsDouble(r) ELSE r
<1> DEFINE p == Prec[Class(op)]
<1> DEFINE t == Paren(x, p) \o <<Symbol(op)>> \o Paren(y, p + 1)
<1>1. l.text \in Seq(W) /\ r.text \in Seq(W)
  BY DEF Value
<1>2. x.text \in Seq(W) /\ y.text \in Seq(W)
  BY <1>1, AsDoubleIn
<1>3. <<Symbol(op)>> \in Seq(W)
  BY OperatorWords, FixedIn
<1>4. Paren(x, p) \in Seq(W) /\ Paren(y, p + 1) \in Seq(W)
  <2> HIDE DEF x, y, p
  <2>. QED  BY <1>2, ParenIn
<1>5. t \in Seq(W)
  <2> HIDE DEF x, y, p
  <2>. QED  BY <1>3, <1>4, ConcatProperties
<1>6. Binary(op, l, r) = Expr(t, Class(op))
  BY DEF Binary
<1>7. Class(op) \in Kinds
  BY OperatorWords
<1> HIDE DEF t
<1>. QED  BY <1>5, <1>6, <1>7, ExprIn
-----------------------------------------------------------------------------
(* The instructions whose operands are spelt in words.                     *)
Spelt == {i \in Instr : /\ {ToString(i.arg), ToString(i.arg) \o "d",
                            "rule_" \o ToString(i.arg)} \subseteq Word
                        /\ i.op = "POP_M" => i.arg \in Slot}

LEMMA RulesSpelt ==
    ASSUME NEW r \in Rules PROVE r.code \in Seq(Spelt)
<1>1. r.code \in Seq(Instr) /\ Len(r.code) \in Nat
  BY ConditionAssumption
<1>2. \A n \in 1 .. Len(r.code) : r.code[n] \in Spelt
  BY <1>1, ConditionAssumption, SpellingAssumption DEF Spelt
<1>3. SubSeq(r.code, 1, Len(r.code)) \in Seq(Spelt)
  BY <1>1, <1>2, SubSeqProperties
<1>. QED  BY <1>1, <1>3, SubSeqFull

LEMMA SliceSpelt ==
    ASSUME NEW c \in Seq(Spelt), NEW a \in Nat \ {0}, NEW b \in Int, b <= Len(c)
    PROVE  SubSeq(c, a, b) \in Seq(Spelt)
<1>1. \A n \in a .. b : c[n] \in Spelt
  OBVIOUS
<1>. QED  BY <1>1, SubSeqProperties

LEMMA LiteralIn ==
    ASSUME NEW W, WordSet(W), NEW i \in Spelt PROVE IntLiteral(i.arg) \in Seq(W)
<1>1. "undefined" \in FixedWords /\ ToString(i.arg) \in Word
  BY DEF FixedWords, Spelt
<1>. QED  BY <1>1, FixedIn, WordsIn DEF IntLiteral

LEMMA RuleTextIn ==
    ASSUME NEW W, WordSet(W), NEW i \in Spelt PROVE RuleText(i.arg) \in Seq(W)
<1>1. "rule_" \o ToString(i.arg) \in Word
  BY DEF Spelt
<1>2. i.arg \in DOMAIN RuleName => RuleName[i.arg] \in Word
  BY SpellingAssumption
<1>. QED  BY <1>1, <1>2, WordsIn DEF RuleText

LEMMA NameIn ==
    ASSUME NEW W, WordSet(W), NEW v PROVE Name(v) \in Seq(W)
<1>1. "?" \in FixedWords
  BY DEF FixedWords
<1>2. IsCString(v) => CString[OffsetOf(v)].name \in Word
  BY SpellingAssumption DEF IsCString
<1>. QED  BY <1>1, <1>2, FixedIn, WordsIn DEF Name

LEMMA OperandIn ==
    ASSUME NEW W, WordSet(W), NEW i \in Spelt PROVE PushedOperand(i.arg) \in Value(W)
<1> DEFINE v == i.arg
<1> DEFINE literal == [text |-> IntLiteral(v), prec |-> Prec.atom, raw |-> v]
<1>1. literal \in Value(W)
  <2>1. v \in Nat /\ ToString(v) \o "d" \in Word
    BY DEF Spelt, Instr
  <2>2. ToString(v) \o "d" \in W
    BY <2>1 DEF WordSet
  <2>3. v \in Raws(W)
    BY <2>1, <2>2 DEF Raws
  <2>4. Prec.atom \in 1 .. 7
    BY Levels
  <2>. QED  BY <2>3, <2>4, LiteralIn DEF Value
<1>2. IsStringRef(v) => Atom(StringName[OffsetOf(v) \div SizeofString]) \in Value(W)
  <2>1. IsStringRef(v) => StringName[OffsetOf(v) \div SizeofString] \in Seq(Word)
    BY SpellingAssumption DEF IsStringRef
  <2>. QED  BY <2>1, WordsIn, AtomIn
<1>3. Atom(RegexLiteral(OffsetOf(v))) \in Value(W)
  <2>1. "/<unrecovered>/" \in FixedWords
    BY DEF FixedWords
  <2>2. RegexLiteral(OffsetOf(v)) \in Seq(W)
    BY <2>1, FixedIn, WordsIn, SpellingAssumption DEF RegexLiteral
  <2>. QED  BY <2>2, AtomIn
<1>4. OffsetOf(v) \in DOMAIN SizedString => Atom(<<SizedString[OffsetOf(v)]>>) \in Value(W)
  <2>1. OffsetOf(v) \in DOMAIN SizedString => SizedString[OffsetOf(v)] \in Word
    BY SpellingAssumption
  <2>. QED  BY <2>1, WordsIn, AtomIn
<1>5. \/ PushedOperand(v) = literal
      \/ IsStringRef(v) /\ PushedOperand(v) = Atom(StringName[OffsetOf(v) \div SizeofString])
      \/ PushedOperand(v) = Atom(RegexLiteral(OffsetOf(v)))
      \/ /\ OffsetOf(v) \in DOMAIN SizedString
         /\ PushedOperand(v) = Atom(<<SizedString[OffsetOf(v)]>>)
  BY DEF PushedOperand
<1>. QED  BY <1>1, <1>2, <1>3, <1>4, <1>5
-----------------------------------------------------------------------------
(* A recovery that speaks the words of W: if it has popped what it did not *)
(* have, then only if the marker is one of them.                           *)
Fields == {"role", "code", "loops", "pos", "stack", "complete", "failed", "multi", "bindings",
           "quantifier", "iterable"}

Marked(W) == "<underflow>" \in W

FrameIn(W, f) ==
    /\ Fields \subseteq DOMAIN f
    /\ f.role \in {"rule", "iterable", "body"} /\ f.multi \in BOOLEAN
    /\ f.complete \in BOOLEAN /\ f.failed \in BOOLEAN
    /\ f.code \in Seq(Spelt) /\ f.pos \in 1 .. Len(f.code) + 1
    /\ f.bindings \in [Slot -> Seq(W)] /\ f.quantifier \in Seq(W) /\ f.iterable \in Seq(W)
    /\ f.complete \/ Marked(W) => f.stack \in Seq(Value(W))

(* What n pops give is of the words, unless the recovery is incomplete.    *)
Sound(W, n) == (Top.complete /\ n <= Len(Top.stack)) \/ Marked(W)

LEMMA ArgIn ==
    ASSUME NEW W, WordSet(W), FrameIn(W, Top), NEW n \in Nat, Sound(W, n), NEW k \in 1 .. n
    PROVE  Arg(k) \in Value(W) /\ Arg(k).text \in Seq(W)
<1> DEFINE st == Top.stack
<1>1. st \in Seq(Value(W)) /\ Len(st) \in Nat
  BY DEF FrameIn, Sound
<1>2. "undefined" \in FixedWords
  BY DEF FixedWords
<1>3. Atom(<<"undefined">>) \in Value(W)
  BY <1>2, FixedIn, AtomIn
<1>4. CASE k > Len(st)
  <2>1. Marked(W)
    BY <1>1, <1>4 DEF Sound
  <2>2. <<"<underflow>">> \in Seq(W)
    BY <2>1 DEF Marked
  <2>3. Arg(k) = Atom(<<"<underflow>">>)
    BY <1>4 DEF Arg
  <2>. QED  BY <2>2, <2>3, AtomIn DEF Value
<1>5. CASE ~ (k > Len(st))
  <2>1. Len(st) - k + 1 \in 1 .. Len(st)
    BY <1>1, <1>5
  <2>2. st[Len(st) - k + 1] \in Value(W)
    BY <1>1, <2>1
  <2>3. Arg(k) \in {st[Len(st) - k + 1], Atom(<<"undefined">>)}
    BY <1>5 DEF Arg
  <2>. QED  BY <1>3, <2>2, <2>3 DEF Value
<1>. QED  BY <1>4, <1>5

LEMMA PoppedIn ==
    ASSUME NEW W, WordSet(W), FrameIn(W, Top), NEW n \in Nat
    PROVE  /\ FrameIn(W, Popped(n))
           /\ Popped(n).complete \/ Marked(W) => Sound(W, n)
           /\ Popped(n).pos = Top.pos /\ Popped(n).code = Top.code
<1> DEFINE st == Top.stack
<1>1. /\ Fields \subseteq DOMAIN Popped(n)
      /\ Popped(n).stack = SubSeq(st, 1, Len(st) - n)
      /\ Popped(n).complete = (Top.complete /\ n <= Len(st))
      /\ \A x \in Fields \ {"stack", "complete"} : Popped(n)[x] = Top[x]
  BY DEF FrameIn, Popped, Fields
<1>2. ASSUME Sound(W, n) PROVE SubSeq(st, 1, Len(st) - n) \in Seq(Value(W))
  <2>1. st \in Seq(Value(W)) /\ Len(st) \in Nat
    BY <1>2 DEF FrameIn, Sound
  <2>2. \A j \in 1 .. Len(st) - n : st[j] \in Value(W)
    BY <2>1
  <2>. QED  BY <2>1, <2>2, SubSeqProperties
<1>3. Popped(n).complete \/ Marked(W) => Sound(W, n)
  BY <1>1 DEF Sound
<1>4. /\ Popped(n).role = Top.role /\ Popped(n).multi = Top.multi /\ Popped(n).failed = Top.failed
      /\ Popped(n).code = Top.code /\ Popped(n).pos = Top.pos
      /\ Popped(n).bindings = Top.bindings /\ Popped(n).quantifier = Top.quantifier
      /\ Popped(n).iterable = Top.iterable
  BY <1>1 DEF Fields
<1>5. Popped(n).complete \in BOOLEAN
  BY <1>1
<1>6. FrameIn(W, Popped(n))
  BY <1>1, <1>2, <1>3, <1>4, <1>5 DEF FrameIn
<1>. QED  BY <1>3, <1>4, <1>6

LEMMA GoesIn ==
    ASSUME NEW W, NEW f, FrameIn(W, f), f.pos <= Len(f.code)
    PROVE  FrameIn(W, Goes(f)) /\ Goes(f).code = f.code
<1> DEFINE g == Goes(f)
<1>1. /\ Fields \subseteq DOMAIN g /\ g.pos = f.pos + 1
      /\ \A x \in Fields \ {"pos"} : g[x] = f[x]
  BY DEF FrameIn, Goes, Fields
<1>2. f.pos + 1 \in 1 .. Len(f.code) + 1
  BY DEF FrameIn
<1>3. /\ g.role = f.role /\ g.multi = f.multi /\ g.failed = f.failed /\ g.complete = f.complete
      /\ g.code = f.code /\ g.bindings = f.bindings /\ g.quantifier = f.quantifier
      /\ g.iterable = f.iterable /\ g.stack = f.stack
  BY <1>1 DEF Fields
<1> HIDE DEF g
<1>4. FrameIn(W, g)
  BY <1>1, <1>2, <1>3 DEF FrameIn
<1>. QED  BY <1>3, <1>4 DEF g

LEMMA PushingIn ==
    ASSUME NEW W, NEW f, FrameIn(W, f), NEW e, f.complete \/ Marked(W) => e \in Value(W)
    PROVE  /\ FrameIn(W, Pushing(f, e))
           /\ Pushing(f, e).pos = f.pos /\ Pushing(f, e).code = f.code
<1> DEFINE h == Pushing(f, e)
<1>1. /\ Fields \subseteq DOMAIN h /\ h.stack = Append(f.stack, e)
      /\ \A x \in Fields \ {"stack"} : h[x] = f[x]
  BY DEF FrameIn, Pushing, Fields
<1>2. ASSUME f.complete \/ Marked(W) PROVE Append(f.stack, e) \in Seq(Value(W))
  <2>1. f.stack \in Seq(Value(W)) /\ e \in Value(W)
    BY <1>2 DEF FrameIn
  <2> DEFINE V == Value(W)
  <2> HIDE DEF V
  <2>2. Append(f.stack, e) \in Seq(V)
    BY <2>1 DEF V
  <2>. QED  BY <2>2 DEF V
<1>3. /\ h.role = f.role /\ h.multi = f.multi /\ h.failed = f.failed /\ h.complete = f.complete
      /\ h.code = f.code /\ h.bindings = f.bindings /\ h.quantifier = f.quantifier
      /\ h.iterable = f.iterable /\ h.pos = f.pos
  BY <1>1 DEF Fields
<1> HIDE DEF h
<1>4. FrameIn(W, h)
  BY <1>1, <1>2, <1>3 DEF FrameIn
<1>. QED  BY <1>3, <1>4 DEF h

LEMMA FailedIn ==
    ASSUME NEW W, NEW f, FrameIn(W, f)
    PROVE  FrameIn(W, [f EXCEPT !.failed = TRUE]) /\ [f EXCEPT !.failed = TRUE].code = f.code
  BY DEF FrameIn, Fields

LEMMA IncompleteIn ==
    ASSUME NEW W, NEW f, FrameIn(W, f)
    PROVE  /\ FrameIn(W, [f EXCEPT !.complete = FALSE])
           /\ [f EXCEPT !.complete = FALSE].code = f.code
  BY DEF FrameIn, Fields
-----------------------------------------------------------------------------
(* A step of the walk leaves a recovery that speaks the words of W.        *)
Speaks(W) == \E f : Continue(f) /\ FrameIn(W, f) /\ f.code = Top.code

LEMMA InsIn ==
    ASSUME NEW W, FrameIn(W, Top), ~ Finished(Top)
    PROVE  Top.pos <= Len(Top.code) /\ Ins \in Spelt
<1>1. Top.pos <= Len(Top.code)
  BY DEF FrameIn, Finished
<1>2. Top.pos \in 1 .. Len(Top.code) /\ Top.code \in Seq(Spelt)
  BY <1>1 DEF FrameIn
<1>. QED  BY <1>1, <1>2, ElementOfSeq DEF Ins

LEMMA ReduceIn ==
    ASSUME NEW W, WordSet(W), FrameIn(W, Top), ~ Finished(Top), NEW n \in Nat,
           NEW e, Sound(W, n) => e \in Value(W), Reduce(n, e)
    PROVE  Speaks(W)
<1> DEFINE f == Popped(n)
<1>1. FrameIn(W, f) /\ f.pos = Top.pos /\ f.code = Top.code
  BY PoppedIn
<1>2. f.pos <= Len(f.code)
  BY <1>1, InsIn
<1> HIDE DEF f
<1>3. f.complete \/ Marked(W) => Sound(W, n)
  BY PoppedIn DEF f
<1>4. /\ FrameIn(W, Pushing(f, e)) /\ Pushing(f, e).pos = f.pos /\ Pushing(f, e).code = f.code
  BY <1>1, <1>3, PushingIn
<1>5. FrameIn(W, Goes(Pushing(f, e))) /\ Goes(Pushing(f, e)).code = f.code
  BY <1>2, <1>4, GoesIn
<1>. QED  BY <1>1, <1>5 DEF Reduce, Speaks, f

LEMMA FailIn ==
    ASSUME NEW W, NEW f, FrameIn(W, f), f.code = Top.code, NEW why, Fail(f, why)
    PROVE  Speaks(W)
  BY FailedIn DEF Fail, Speaks

LEMMA FailTopIn ==
    ASSUME NEW W, WordSet(W), FrameIn(W, Top), NEW why,
           \/ Fail([Top EXCEPT !.complete = FALSE], why)
           \/ \E n \in Nat : Fail([Popped(n) EXCEPT !.complete = FALSE], why)
    PROVE  Speaks(W)
<1>1. CASE Fail([Top EXCEPT !.complete = FALSE], why)
  BY <1>1, IncompleteIn, FailIn
<1>2. CASE \E n \in Nat : Fail([Popped(n) EXCEPT !.complete = FALSE], why)
  <2>1. PICK n \in Nat : Fail([Popped(n) EXCEPT !.complete = FALSE], why)
    BY <1>2
  <2>2. FrameIn(W, Popped(n)) /\ Popped(n).code = Top.code
    BY PoppedIn
  <2>3. /\ FrameIn(W, [Popped(n) EXCEPT !.complete = FALSE])
        /\ [Popped(n) EXCEPT !.complete = FALSE].code = Top.code
    BY <2>2, IncompleteIn
  <2>. QED  BY <2>1, <2>3, FailIn
<1>. QED  BY <1>1, <1>2

(* Operands and words.                                                     *)
LEMMA PushesIn ==
    ASSUME NEW W, WordSet(W), FrameIn(W, Top),
           Skip \/ JumpPopping \/ Push \/ PushShort \/ PushUndefined \/ PushRule \/ PushWord
    PROVE  Speaks(W)
<1>1. ~ Finished(Top)
  BY DEF At, Skip, JumpPopping, Push, PushShort, PushUndefined, PushRule, PushWord
<1>2. Top.pos <= Len(Top.code) /\ Ins \in Spelt
  BY <1>1, InsIn
<1>3. 0 \in Nat /\ 1 \in Nat
  OBVIOUS
<1>4. CASE Skip
  BY <1>2, <1>4, GoesIn DEF Skip, Speaks
<1>5. CASE JumpPopping
  <2>1. FrameIn(W, Popped(1)) /\ Popped(1).pos = Top.pos /\ Popped(1).code = Top.code
    BY <1>3, PoppedIn
  <2>2. FrameIn(W, Goes(Popped(1))) /\ Goes(Popped(1)).code = Top.code
    BY <1>2, <2>1, GoesIn
  <2>. QED  BY <1>5, <2>2 DEF JumpPopping, Speaks
<1>6. CASE Push
  <2> DEFINE e == PushedOperand(Ins.arg)
  <2>1. e \in Value(W)
    BY <1>2, OperandIn
  <2> HIDE DEF e
  <2>2. /\ FrameIn(W, Pushing(Top, e))
        /\ Pushing(Top, e).pos = Top.pos /\ Pushing(Top, e).code = Top.code
    BY <2>1, PushingIn
  <2>3. FrameIn(W, Goes(Pushing(Top, e))) /\ Goes(Pushing(Top, e)).code = Top.code
    BY <1>2, <2>2, GoesIn
  <2>. QED  BY <1>6, <2>3 DEF Push, Speaks, e
<1>7. CASE PushShort
  <2>1. Atom(IntLiteral(Ins.arg)) \in Value(W)
    BY <1>2, LiteralIn, AtomIn
  <2>. QED  BY <1>1, <1>3, <1>7, <2>1, ReduceIn DEF PushShort
<1>8. CASE PushUndefined
  <2>1. <<"undefined">> \in Seq(W)
    BY FixedIn DEF FixedWords
  <2>2. Prec.atom \in 1 .. 7 /\ UndefMark \in Raws(W)
    BY Levels DEF UndefMark, Raws
  <2>3. Sentinel \in Value(W)
    BY <2>1, <2>2 DEF Sentinel, Value
  <2>. QED  BY <1>1, <1>3, <1>8, <2>3, ReduceIn DEF PushUndefined
<1>9. CASE PushRule
  <2>1. Atom(RuleText(Ins.arg)) \in Value(W)
    BY <1>2, RuleTextIn, AtomIn
  <2>. QED  BY <1>1, <1>3, <1>9, <2>1, ReduceIn DEF PushRule
<1>10. CASE PushWord
  <2>1. "filesize" \in FixedWords /\ "entrypoint" \in FixedWords
    BY DEF FixedWords
  <2>2. Atom(<<"filesize">>) \in Value(W) /\ Atom(<<"entrypoint">>) \in Value(W)
    BY <2>1, FixedIn, AtomIn
  <2>. QED  BY <1>1, <1>3, <1>10, <2>2, ReduceIn DEF PushWord
<1>. QED  BY <1>4, <1>5, <1>6, <1>7, <1>8, <1>9, <1>10

(* Variables of loops, and what is given up.                               *)
LEMMA SlotsIn ==
    ASSUME NEW W, WordSet(W), FrameIn(W, Top), Len(Top.stack) \in Nat,
           \/ PushSlot \/ PushUnbound \/ OfNoSet \/ CallUnreadable \/ Unhandled
    PROVE  Speaks(W)
<1>1. CASE PushSlot
  <2>1. Binding(Ins.arg) \in Seq(W)
    BY WordsIn DEF Binding, Unbound, FrameIn
  <2>2. Atom(Binding(Ins.arg)) \in Value(W)
    BY <2>1, AtomIn
  <2>3. ~ Finished(Top) /\ 0 \in Nat
    BY <1>1 DEF PushSlot, At
  <2>. QED  BY <1>1, <2>2, <2>3, ReduceIn DEF PushSlot
<1>2. CASE PushUnbound
  BY <1>2, FailTopIn DEF PushUnbound
<1>3. CASE OfNoSet
  BY <1>3, FailTopIn DEF OfNoSet
<1>4. CASE CallUnreadable
  BY <1>4, FailTopIn DEF CallUnreadable
<1>5. CASE Unhandled
  BY <1>5, FailTopIn DEF Unhandled
<1>. QED  BY <1>1, <1>2, <1>3, <1>4, <1>5

(* Strings.                                                                *)
LEMMA BareIn ==
    ASSUME NEW W, NEW t \in Seq(W) PROVE Bare(t) \in Seq(W)
<1>1. t # <<>> => Tail(t) \in Seq(W)
  BY HeadTailProperties
<1>. QED  BY <1>1 DEF Bare

LEMMA IndexedIn ==
    ASSUME NEW W, WordSet(W), NEW base \in Seq(W), NEW index, index.text \in Seq(W)
    PROVE  Indexed(base, index) \in Seq(W)
<1>1. <<"[">> \in Seq(W) /\ <<"]">> \in Seq(W)
  BY FixedIn DEF FixedWords
<1>2. base \o <<"[">> \o index.text \o <<"]">> \in Seq(W)
  BY <1>1, ConcatProperties
<1>. QED  BY <1>2 DEF Indexed

LEMMA StringOpIn ==
    ASSUME NEW W, WordSet(W), FrameIn(W, Top), StringOp
    PROVE  Speaks(W)
<1>1. ~ Finished(Top) /\ 1 \in Nat /\ 2 \in Nat /\ 3 \in Nat
  BY DEF At, StringOp
<1>2. {"#", "!", "@", "at", "in"} \subseteq FixedWords
  BY DEF FixedWords
<1>3. /\ <<"#">> \in Seq(W) /\ <<"!">> \in Seq(W) /\ <<"@">> \in Seq(W)
      /\ <<"at">> \in Seq(W) /\ <<"in">> \in Seq(W)
  BY <1>2, FixedIn
<1>4. ASSUME NEW n \in Nat, Sound(W, n)
      PROVE  \A k \in 1 .. n : Arg(k).text \in Seq(W) /\ Bare(Arg(k).text) \in Seq(W)
  BY <1>4, ArgIn, BareIn
<1>5. "cmp" \in Kinds
  BY DEF Kinds
<1>6. CASE At({"FOUND"}) /\ Reduce(1, Atom(Arg(1).text))
  <2>1. Sound(W, 1) => Atom(Arg(1).text) \in Value(W)
    BY <1>1, <1>4, AtomIn
  <2>. QED  BY <1>1, <1>6, <2>1, ReduceIn
<1>7. CASE At({"COUNT"}) /\ Reduce(1, Atom(<<"#">> \o Bare(Arg(1).text)))
  <2>1. Sound(W, 1) => <<"#">> \o Bare(Arg(1).text) \in Seq(W)
    BY <1>1, <1>3, <1>4, ConcatProperties
  <2>2. Sound(W, 1) => Atom(<<"#">> \o Bare(Arg(1).text)) \in Value(W)
    BY <2>1, AtomIn
  <2>. QED  BY <1>1, <1>7, <2>2, ReduceIn
<1>8. CASE \/ At({"LENGTH"}) /\ Reduce(2, Atom(Indexed(<<"!">> \o Bare(Arg(1).text), Arg(2))))
           \/ At({"OFFSET"}) /\ Reduce(2, Atom(Indexed(<<"@">> \o Bare(Arg(1).text), Arg(2))))
  <2>1. ASSUME Sound(W, 2), NEW w \in Seq(W)
        PROVE  Atom(Indexed(w \o Bare(Arg(1).text), Arg(2))) \in Value(W)
    <3>1. Bare(Arg(1).text) \in Seq(W) /\ Arg(2).text \in Seq(W)
      BY <1>1, <1>4, <2>1
    <3>2. w \o Bare(Arg(1).text) \in Seq(W)
      BY <3>1, ConcatProperties
    <3>. QED  BY <3>1, <3>2, IndexedIn, AtomIn
  <2>2. CASE Reduce(2, Atom(Indexed(<<"!">> \o Bare(Arg(1).text), Arg(2))))
    BY <1>1, <1>3, <2>1, <2>2, ReduceIn
  <2>3. CASE Reduce(2, Atom(Indexed(<<"@">> \o Bare(Arg(1).text), Arg(2))))
    BY <1>1, <1>3, <2>1, <2>3, ReduceIn
  <2>. QED  BY <1>8, <2>2, <2>3
<1>9. CASE /\ At({"FOUND_AT"})
           /\ Reduce(2, Expr(Arg(1).text \o <<"at">> \o Paren(Arg(2), Prec.cmp), "cmp"))
  <2> DEFINE t == Arg(1).text \o <<"at">> \o Paren(Arg(2), Prec.cmp)
  <2>1. ASSUME Sound(W, 2) PROVE t \in Seq(W)
    <3>1. Arg(1).text \in Seq(W) /\ Paren(Arg(2), Prec.cmp) \in Seq(W)
      BY <1>1, <1>4, <2>1, ParenIn
    <3>. QED  BY <1>3, <3>1, ConcatProperties
  <2> HIDE DEF t
  <2>2. Sound(W, 2) => Expr(t, "cmp") \in Value(W)
    BY <1>5, <2>1, ExprIn
  <2>. QED  BY <1>1, <1>9, <2>2, ReduceIn DEF t
<1>10. CASE /\ At({"FOUND_IN"})
            /\ Reduce(3, Expr(Arg(1).text \o <<"in">> \o Interval(Arg(3), Arg(2)), "cmp"))
  <2> DEFINE t == Arg(1).text \o <<"in">> \o Interval(Arg(3), Arg(2))
  <2>1. ASSUME Sound(W, 3) PROVE t \in Seq(W)
    <3>1. Arg(1).text \in Seq(W) /\ Interval(Arg(3), Arg(2)) \in Seq(W)
      BY <1>1, <1>4, <2>1, IntervalIn
    <3>. QED  BY <1>3, <3>1, ConcatProperties
  <2> HIDE DEF t
  <2>2. Sound(W, 3) => Expr(t, "cmp") \in Value(W)
    BY <1>5, <2>1, ExprIn
  <2>. QED  BY <1>1, <1>10, <2>2, ReduceIn DEF t
<1>11. CASE /\ At({"COUNT_IN"})
            /\ Reduce(3, Expr(<<"#">> \o Bare(Arg(1).text) \o <<"in">> \o Interval(Arg(3), Arg(2)),
                              "cmp"))
  <2> DEFINE t == <<"#">> \o Bare(Arg(1).text) \o <<"in">> \o Interval(Arg(3), Arg(2))
  <2>1. ASSUME Sound(W, 3) PROVE t \in Seq(W)
    <3>1. Bare(Arg(1).text) \in Seq(W) /\ Interval(Arg(3), Arg(2)) \in Seq(W)
      BY <1>1, <1>4, <2>1, IntervalIn
    <3>. QED  BY <1>3, <3>1, ConcatProperties
  <2> HIDE DEF t
  <2>2. Sound(W, 3) => Expr(t, "cmp") \in Value(W)
    BY <1>5, <2>1, ExprIn
  <2>. QED  BY <1>1, <1>11, <2>2, ReduceIn DEF t
<1>. QED  BY <1>6, <1>7, <1>8, <1>9, <1>10, <1>11 DEF StringOp

(* The operators.                                                          *)
LEMMA OperatorsIn ==
    ASSUME NEW W, WordSet(W), FrameIn(W, Top), Prefixed \/ BinaryOp \/ ReadInteger
    PROVE  Speaks(W)
<1>1. ~ Finished(Top) /\ 1 \in Nat /\ 2 \in Nat
  BY DEF At, Prefixed, BinaryOp, ReadInteger
<1>2. CASE Prefixed
  <2> DEFINE t == PrefixOp[Ins.op] \o Paren(Arg(1), Prec.unary)
  <2>1. ASSUME Sound(W, 1) PROVE t \in Seq(W)
    <3>1. PrefixOp[Ins.op] \in Seq(W)
      BY <1>2, PrefixWords DEF Prefixed, At
    <3>2. Paren(Arg(1), Prec.unary) \in Seq(W)
      BY <1>1, <2>1, ArgIn, ParenIn
    <3>. QED  BY <3>1, <3>2, ConcatProperties
  <2> HIDE DEF t
  <2>2. Sound(W, 1) => Expr(t, "unary") \in Value(W)
    BY <2>1, ExprIn DEF Kinds
  <2>. QED  BY <1>1, <1>2, <2>2, ReduceIn DEF Prefixed, t
<1>3. CASE BinaryOp
  <2>1. ASSUME Sound(W, 2) PROVE Binary(Ins.op, Arg(2), Arg(1)) \in Value(W)
    <3>1. Arg(1) \in Value(W) /\ Arg(2) \in Value(W)
      BY <1>1, <2>1, ArgIn
    <3>. QED  BY <1>3, <3>1, BinaryIn DEF BinaryOp, At
  <2>. QED  BY <1>1, <1>3, <2>1, ReduceIn DEF BinaryOp
<1>4. CASE ReadInteger
  <2> DEFINE t == <<Ins.op, "(">> \o Arg(1).text \o <<")">>
  <2>1. ASSUME Sound(W, 1) PROVE t \in Seq(W)
    <3>1. Ins.op \in FixedWords /\ "(" \in FixedWords /\ ")" \in FixedWords
      BY <1>4 DEF FixedWords, ReadInteger, At
    <3>2. Ins.op \in W /\ "(" \in W /\ ")" \in W
      BY <3>1, FixedIn
    <3>3. <<Ins.op, "(">> \in Seq(W) /\ <<")">> \in Seq(W)
      BY <3>2
    <3>4. Arg(1).text \in Seq(W)
      BY <1>1, <2>1, ArgIn
    <3>. QED  BY <3>3, <3>4, ConcatProperties
  <2> HIDE DEF t
  <2>2. Sound(W, 1) => Atom(t) \in Value(W)
    BY <2>1, AtomIn
  <2>. QED  BY <1>1, <1>4, <2>2, ReduceIn DEF ReadInteger, t
<1>. QED  BY <1>2, <1>3, <1>4

(* Objects and calls.                                                      *)
LEMMA ObjectOpIn ==
    ASSUME NEW W, WordSet(W), FrameIn(W, Top), ObjectOp
    PROVE  Speaks(W)
<1>1. ~ Finished(Top) /\ 0 \in Nat /\ 1 \in Nat /\ 2 \in Nat
  BY DEF At, ObjectOp
<1>2. {".", "[", "]"} \subseteq FixedWords
  BY DEF FixedWords
<1>3. <<".">> \in Seq(W) /\ <<"[">> \in Seq(W) /\ <<"]">> \in Seq(W) /\ Name(Ins.arg) \in Seq(W)
  BY <1>2, FixedIn, NameIn
<1>4. CASE Reduce(0, Atom(Name(Ins.arg)))
  BY <1>1, <1>3, <1>4, AtomIn, ReduceIn
<1>5. CASE Reduce(1, Atom(Arg(1).text \o <<".">> \o Name(Ins.arg)))
  <2>1. Sound(W, 1) => Arg(1).text \o <<".">> \o Name(Ins.arg) \in Seq(W)
    BY <1>1, <1>3, ArgIn, ConcatProperties
  <2>2. Sound(W, 1) => Atom(Arg(1).text \o <<".">> \o Name(Ins.arg)) \in Value(W)
    BY <2>1, AtomIn
  <2>. QED  BY <1>1, <1>5, <2>2, ReduceIn
<1>6. CASE Reduce(2, Atom(Arg(2).text \o <<"[">> \o Arg(1).text \o <<"]">>))
  <2> DEFINE t == Arg(2).text \o <<"[">> \o Arg(1).text \o <<"]">>
  <2>1. ASSUME Sound(W, 2) PROVE t \in Seq(W)
    <3>1. Arg(1).text \in Seq(W) /\ Arg(2).text \in Seq(W)
      BY <1>1, <2>1, ArgIn
    <3>. QED  BY <1>3, <3>1, ConcatProperties
  <2> HIDE DEF t
  <2>2. Sound(W, 2) => Atom(t) \in Value(W)
    BY <2>1, AtomIn
  <2>. QED  BY <1>1, <1>6, <2>2, ReduceIn DEF t
<1>. QED  BY <1>4, <1>5, <1>6 DEF ObjectOp

LEMMA TextsJoinable ==
    ASSUME NEW W, WordSet(W) PROVE Joinable(Seq(W))
<1>1. <<",">> \in Seq(W)
  BY FixedIn DEF FixedWords
<1>2. ASSUME NEW t \in Seq(W), NEW u \in Seq(W) PROVE t \o <<",">> \o u \in Seq(W)
  BY <1>1, ConcatProperties
<1>3. <<>> \in Seq(W)
  OBVIOUS
<1> DEFINE T == Seq(W)
<1>4. <<>> \in T /\ \A t, u \in T : t \o <<",">> \o u \in T
  BY <1>2, <1>3
<1> HIDE DEF T
<1>5. Joinable(T)
  BY <1>4 DEF Joinable
<1>. QED  BY <1>5 DEF T

LEMMA CallIn ==
    ASSUME NEW W, WordSet(W), FrameIn(W, Top), Call
    PROVE  Speaks(W)
<1> DEFINE argc == CString[OffsetOf(Ins.arg)].len
<1> DEFINE args == [n \in 1 .. argc |-> Arg(argc - n + 1).text]
<1> DEFINE t == Arg(argc + 1).text \o <<"(">> \o Joined(args) \o <<")">>
<1>1. ~ Finished(Top) /\ argc \in Nat /\ argc + 1 \in Nat
  BY SpellingAssumption DEF Call, At, IsCString
<1>2. ASSUME Sound(W, argc + 1) PROVE t \in Seq(W)
  <2> HIDE DEF argc
  <2>1. \A k \in 1 .. argc + 1 : Arg(k).text \in Seq(W)
    BY <1>1, <1>2, ArgIn
  <2>2. \A n \in 1 .. argc : argc - n + 1 \in 1 .. argc + 1
    BY <1>1
  <2>3. args \in [1 .. argc -> Seq(W)]
    BY <2>1, <2>2
  <2>4. args \in Seq(Seq(W))
    <3> DEFINE T == Seq(W)
    <3>1. args \in [1 .. argc -> T]
      BY <2>3
    <3> HIDE DEF T, args
    <3>2. args \in Seq(T)
      BY <1>1, <3>1, SeqDef
    <3>. QED  BY <3>2 DEF T
  <2> HIDE DEF args
  <2>5. Joined(args) \in Seq(W)
    BY <2>4, TextsJoinable, JoinedIn
  <2>6. <<"(">> \in Seq(W) /\ <<")">> \in Seq(W)
    BY FixedIn DEF FixedWords
  <2>7. Arg(argc + 1).text \in Seq(W)
    BY <1>1, <2>1
  <2>. QED  BY <2>5, <2>6, <2>7, ConcatProperties
<1>3. Reduce(argc + 1, Atom(t))
  BY DEF Call
<1> HIDE DEF argc, args, t
<1>4. Sound(W, argc + 1) => Atom(t) \in Value(W)
  BY <1>2, AtomIn
<1>. QED  BY <1>1, <1>3, <1>4, ReduceIn

(* Sets of strings.                                                        *)
LEMMA QuantifiedIn ==
    ASSUME NEW W, WordSet(W), NEW t \in Seq(W) PROVE Quantified(t) \in Seq(W)
  BY FixedIn DEF Quantified, FixedWords

LEMMA SetTextIn ==
    ASSUME NEW W, WordSet(W), NEW members \in Seq(Seq(W)) PROVE SetText(members) \in Seq(W)
<1>1. {"(", ")", "them"} \subseteq FixedWords
  BY DEF FixedWords
<1>2. <<"(">> \in Seq(W) /\ <<")">> \in Seq(W) /\ <<"them">> \in Seq(W)
  BY <1>1, FixedIn
<1>3. Joined(members) \in Seq(W)
  BY TextsJoinable, JoinedIn
<1>4. <<"(">> \o Joined(members) \o <<")">> \in Seq(W)
  BY <1>2, <1>3, ConcatProperties
<1>. QED  BY <1>2, <1>4 DEF SetText

(* The place of the sentinel, below the operands of `at' and `in'.         *)
LEMMA SentinelPlace ==
    ASSUME Len(Top.stack) \in Nat, Sentinels # {}
    PROVE  /\ Min(Sentinels) \in Sentinels
           /\ OfExtra(Ins.op) \in Nat /\ Min(Sentinels) \in Nat
           /\ OfExtra(Ins.op) < Min(Sentinels)
           /\ Ins.op = "OF_FOUND_AT" => OfExtra(Ins.op) = 1
           /\ Ins.op = "OF_FOUND_IN" => OfExtra(Ins.op) = 2
<1>1. /\ OfExtra(Ins.op) \in Nat
      /\ Ins.op = "OF_FOUND_AT" => OfExtra(Ins.op) = 1
      /\ Ins.op = "OF_FOUND_IN" => OfExtra(Ins.op) = 2
  BY DEF OfExtra
<1>2. Sentinels \subseteq Nat
  BY <1>1 DEF Sentinels
<1>3. Min(Sentinels) \in Sentinels
  BY <1>2, MinOfPlaces
<1>. QED  BY <1>1, <1>2, <1>3 DEF Sentinels

LEMMA MembersIn ==
    ASSUME NEW W, WordSet(W), FrameIn(W, Top), Len(Top.stack) \in Nat, Sentinels # {},
           Sound(W, Min(Sentinels) + 1)
    PROVE  SetMembers \in Seq(Seq(W))
<1> DEFINE m == Min(Sentinels)
<1> DEFINE n == m - OfExtra(Ins.op) - 1
<1>1. m \in Nat /\ OfExtra(Ins.op) \in Nat /\ OfExtra(Ins.op) < m
  BY SentinelPlace
<1>2. n \in Nat
  BY <1>1
<1>3. \A k \in 1 .. m + 1 : Arg(k).text \in Seq(W)
  <2>1. m + 1 \in Nat
    BY <1>1
  <2>. QED  BY <2>1, ArgIn
<1> DEFINE T == Seq(W)
<1> DEFINE members == [k \in 1 .. n |-> Arg(m - k).text]
<1>4. members \in [1 .. n -> T]
  <2>1. \A k \in 1 .. n : m - k \in 1 .. m + 1
    <3> HIDE DEF m
    <3>. QED  BY <1>1
  <2> HIDE DEF m, n
  <2>. QED  BY <1>3, <2>1
<1>5. SetMembers = members
  BY DEF SetMembers
<1> HIDE DEF T, members, n
<1>6. members \in Seq(T)
  BY <1>2, <1>4, SeqDef
<1>. QED  BY <1>5, <1>6 DEF T

LEMMA OfTextIn ==
    ASSUME NEW W, WordSet(W), FrameIn(W, Top), Len(Top.stack) \in Nat, Sentinels # {},
           Sound(W, Min(Sentinels) + 1), NEW q \in Seq(W), NEW members \in Seq(Seq(W))
    PROVE  OfText(q, members) \in Seq(W)
<1>1. {"%", "of", "at", "in"} \subseteq FixedWords
  BY DEF FixedWords
<1>2. /\ <<"%">> \in Seq(W) /\ <<"of">> \in Seq(W) /\ <<"at">> \in Seq(W)
      /\ <<"in">> \in Seq(W) /\ <<>> \in Seq(W)
  BY <1>1, FixedIn
<1>3. Quantified(q) \in Seq(W) /\ SetText(members) \in Seq(W)
  BY QuantifiedIn, SetTextIn
<1>4. /\ Min(Sentinels) \in Nat /\ Min(Sentinels) + 1 \in Nat
      /\ Ins.op = "OF_FOUND_AT" => 1 < Min(Sentinels)
      /\ Ins.op = "OF_FOUND_IN" => 2 < Min(Sentinels)
  BY SentinelPlace
<1>5. \A k \in 1 .. Min(Sentinels) + 1 : Arg(k).text \in Seq(W)
  BY <1>4, ArgIn
<1> DEFINE percent == IF Ins.op = "OF_PERCENT" THEN <<"%">> ELSE <<>>
<1> DEFINE tail == CASE Ins.op = "OF_FOUND_AT" -> <<"at">> \o Paren(Arg(1), Prec.cmp)
                     [] Ins.op = "OF_FOUND_IN" -> <<"in">> \o Interval(Arg(2), Arg(1))
                     [] OTHER -> <<>>
<1>6. percent \in Seq(W)
  BY <1>2
<1>7. tail \in Seq(W)
  <2>1. CASE Ins.op = "OF_FOUND_AT"
    <3>1. Arg(1).text \in Seq(W)
      BY <1>4, <1>5, <2>1
    <3>2. Paren(Arg(1), Prec.cmp) \in Seq(W)
      BY <3>1, ParenIn
    <3>3. <<"at">> \o Paren(Arg(1), Prec.cmp) \in Seq(W)
      BY <1>2, <3>2, ConcatProperties
    <3>. QED  BY <2>1, <3>3
  <2>2. CASE Ins.op = "OF_FOUND_IN"
    <3>1. Arg(1).text \in Seq(W) /\ Arg(2).text \in Seq(W)
      BY <1>4, <1>5, <2>2
    <3>2. Interval(Arg(2), Arg(1)) \in Seq(W)
      BY <3>1, IntervalIn
    <3>3. <<"in">> \o Interval(Arg(2), Arg(1)) \in Seq(W)
      BY <1>2, <3>2, ConcatProperties
    <3>. QED  BY <2>2, <3>3
  <2>3. CASE Ins.op \notin {"OF_FOUND_AT", "OF_FOUND_IN"}
    BY <1>2, <2>3
  <2>. QED  BY <2>1, <2>2, <2>3
<1>8. OfText(q, members) = Quantified(q) \o percent \o <<"of">> \o SetText(members) \o tail
  BY DEF OfText
<1> HIDE DEF percent, tail
<1>. QED  BY <1>2, <1>3, <1>6, <1>7, <1>8, ConcatProperties

LEMMA OfIn ==
    ASSUME NEW W, WordSet(W), FrameIn(W, Top), Len(Top.stack) \in Nat, Of \/ OfAnonymous
    PROVE  Speaks(W)
<1> DEFINE n == Min(Sentinels) + 1
<1>1. n \in Nat /\ n \in 1 .. n
  <2>1. Min(Sentinels) \in Nat
    BY SentinelPlace DEF Of, OfAnonymous
  <2>. QED  BY <2>1
<1>2. CASE Of
  <2> DEFINE t == OfText(Arg(n).text, SetMembers)
  <2>1. ASSUME Sound(W, n) PROVE Expr(t, "cmp") \in Value(W)
    <3>1. Arg(n).text \in Seq(W)
      <4> HIDE DEF n
      <4>. QED  BY <1>1, <2>1, ArgIn
    <3>2. SetMembers \in Seq(Seq(W))
      BY <1>2, <2>1, MembersIn DEF Of
    <3>3. t \in Seq(W)
      BY <1>2, <2>1, <3>1, <3>2, OfTextIn DEF Of
    <3> HIDE DEF t
    <3>. QED  BY <3>3, ExprIn DEF Kinds
  <2>2. ~ Finished(Top) /\ Reduce(n, Expr(t, "cmp"))
    BY <1>2 DEF Of, At
  <2> HIDE DEF n, t
  <2>. QED  BY <1>1, <2>1, <2>2, ReduceIn
<1>3. CASE OfAnonymous
  <2>1. Fail([Popped(n) EXCEPT !.complete = FALSE], "anonymous strings")
    BY <1>3 DEF OfAnonymous
  <2> HIDE DEF n
  <2>. QED  BY <1>1, <2>1, FailTopIn
<1>. QED  BY <1>2, <1>3

LEMMA WalkIn ==
    ASSUME NEW W, WordSet(W), FrameIn(W, Top), Len(Top.stack) \in Nat, Walk
    PROVE  Speaks(W)
  BY PushesIn, SlotsIn, StringOpIn, OperatorsIn, ObjectOpIn, CallIn, OfIn DEF Walk
-----------------------------------------------------------------------------
(* What a recovery gives at its end.                                       *)
LEMMA ValuesLeft ==
    ASSUME NEW W, WordSet(W), NEW f, FrameIn(W, f), f.complete \/ Marked(W)
    PROVE  /\ Left(f) \in Seq(Value(W)) /\ Len(Left(f)) \in Nat
           /\ \A n \in 1 .. Len(Left(f)) : Left(f)[n].text \in Seq(W)
           /\ Values(f) \in Seq(Seq(W))
           /\ Recovered(f) => Result(f) \in Seq(W)
<1> DEFINE V == Value(W)
<1> DEFINE T == Seq(W)
<1> DEFINE left == Left(f)
<1>1. \A e \in V : e.text \in T
  BY DEF Value
<1>2. left \in Seq(V)
  BY LeftIn DEF FrameIn
<1>3. /\ Recovered(f) => Len(left) = 1 /\ Result(f) = left[1].text
      /\ Values(f) = [n \in 1 .. Len(left) |-> left[n].text]
  BY DEF Recovered, Result, Values
<1> HIDE DEF V, T, left
<1>4. Len(left) \in Nat /\ \A n \in 1 .. Len(left) : left[n].text \in T
  BY <1>1, <1>2
<1>5. [n \in 1 .. Len(left) |-> left[n].text] \in [1 .. Len(left) -> T]
  BY <1>4
<1>6. Values(f) \in Seq(T)
  BY <1>3, <1>4, <1>5, SeqDef
<1>7. Recovered(f) => Result(f) \in T
  BY <1>3, <1>4
<1>. QED  BY <1>2, <1>4, <1>6, <1>7 DEF V, T, left

LEMMA MembersOf ==
    ASSUME NEW W, NEW values \in Seq(Seq(W)) PROVE Members(values) \in Seq(Seq(W))
<1> DEFINE T == Seq(W)
<1> HIDE DEF T
<1>1. values \in Seq(T) /\ Len(values) \in Nat
  BY DEF T
<1>2. \A n \in 1 .. Len(values) - 1 : values[n] \in T
  BY <1>1
<1>3. Front(values) \in Seq(T)
  BY <1>1, <1>2, SubSeqProperties DEF Front
<1>. QED  BY <1>1, <1>3 DEF Members, T

LEMMA LoopVarIn ==
    ASSUME NEW W, WordSet(W), NEW loop, loop.slot \in Slot, NEW bindings
    PROVE  LoopVar(loop, bindings) \in Seq(W)
<1> DEFINE pool == IF loop.kind \in IntLoop THEN VarNames ELSE ObjVarNames
<1> DEFINE free == {n \in 1 .. Len(pool) : <<pool[n]>> \notin {bindings[s] : s \in Slot}}
<1>1. <<"$">> \in Seq(W)
  BY FixedIn DEF FixedWords
<1>2. <<"v" \o ToString(loop.slot)>> \in Seq(W)
  BY SpellingAssumption, WordsIn
<1>3. Len(pool) \in Nat /\ \A n \in 1 .. Len(pool) : pool[n] \in FixedWords
  <2>1. Len(VarNames) = 5 /\ Len(ObjVarNames) = 4
    BY DEF VarNames, ObjVarNames
  <2>2. ASSUME NEW names \in {VarNames, ObjVarNames}
        PROVE  Len(names) \in Nat /\ \A n \in 1 .. Len(names) : names[n] \in FixedWords
    <3>1. /\ \A n \in 1 .. 5 : VarNames[n] \in FixedWords
          /\ \A n \in 1 .. 4 : ObjVarNames[n] \in FixedWords
      BY DEF FixedWords
    <3>2. CASE names = VarNames
      <4>1. Len(names) = 5 /\ \A n \in 1 .. 5 : names[n] \in FixedWords
        BY <2>1, <3>1, <3>2
      <4>. QED  BY <4>1
    <3>3. CASE names = ObjVarNames
      BY <2>1, <3>1, <3>3
    <3>. QED  BY <3>2, <3>3
  <2>3. pool \in {VarNames, ObjVarNames}
    OBVIOUS
  <2> HIDE DEF pool
  <2>. QED  BY <2>2, <2>3
<1>4. \/ LoopVar(loop, bindings) = <<"$">>
      \/ LoopVar(loop, bindings) = <<"v" \o ToString(loop.slot)>>
      \/ free # {} /\ LoopVar(loop, bindings) = <<pool[Min(free)]>>
  BY DEF LoopVar
<1> HIDE DEF pool
<1>5. free # {} => Min(free) \in 1 .. Len(pool)
  <2>1. free \subseteq Nat
    BY <1>3
  <2>2. free \subseteq 1 .. Len(pool)
    OBVIOUS
  <2> HIDE DEF free
  <2>. QED  BY <2>1, <2>2, MinOfPlaces
<1> HIDE DEF free
<1>6. free # {} => <<pool[Min(free)]>> \in Seq(W)
  BY <1>3, <1>5, FixedIn
<1>. QED  BY <1>1, <1>2, <1>4, <1>6

(* What _find_loops gives of a loop lies within the code.                  *)
LEMMA ShapeWithin ==
    ASSUME NEW c \in Seq(Spelt), NEW s \in 1 .. Len(c), IsLoop(c, s)
    PROVE  /\ Shape(c, s).iterable \in Seq(Spelt) /\ Shape(c, s).body \in Seq(Spelt)
           /\ Shape(c, s).slot \in Slot /\ Shape(c, s).end \in 1 .. Len(c)
<1>1. Len(c) \in Nat /\ s \in Nat
  OBVIOUS
<1>2. Header(c, s) \in 1 .. s - 3
  <2>1. HeadersBefore(c, s) # {} /\ HeadersBefore(c, s) \subseteq 0 .. Len(c)
    BY <1>1 DEF IsLoop, HeadersBefore
  <2>2. Header(c, s) \in HeadersBefore(c, s)
    BY <1>1, <2>1, MaxOfPlaces DEF Header
  <2>. QED  BY <2>2 DEF HeadersBefore
<1>3. BodyFirst(c, s) \in {s + 3, s + 4}
  BY DEF BodyFirst
<1>4. Min(BodyEnds(c, s)) \in BodyFirst(c, s) .. Len(c)
  <2>1. BodyEnds(c, s) # {} /\ BodyEnds(c, s) \subseteq Nat
    BY <1>1, <1>3 DEF IsLoop, BodyEnds
  <2>2. Min(BodyEnds(c, s)) \in BodyEnds(c, s)
    BY <2>1, MinOfPlaces
  <2>. QED  BY <2>2 DEF BodyEnds
<1> DEFINE m == Min(BodyEnds(c, s))
<1>5. Min(LoopEnds(c, s)) \in m .. Len(c)
  <2>1. LoopEnds(c, s) # {} /\ LoopEnds(c, s) \subseteq m .. Len(c)
    BY DEF IsLoop, LoopEnds
  <2>2. m \in Nat
    BY <1>1, <1>3, <1>4
  <2> HIDE DEF m
  <2>3. LoopEnds(c, s) \subseteq Nat
    BY <2>1, <2>2
  <2>. QED  BY <2>1, <2>3, MinOfPlaces
<1>6. Shape(c, s).iterable \in Seq(Spelt)
  <2>1. Header(c, s) + 3 \in Nat \ {0} /\ s - 1 \in Int /\ s - 1 <= Len(c)
    BY <1>1, <1>2
  <2>2. SubSeq(c, Header(c, s) + 3, s - 1) \in Seq(Spelt)
    BY <2>1, SliceSpelt
  <2>. QED  BY <2>2 DEF Shape
<1>7. Shape(c, s).body \in Seq(Spelt)
  <2>1. BodyFirst(c, s) \in Nat \ {0} /\ m - 1 \in Int /\ m - 1 <= Len(c)
    BY <1>1, <1>3, <1>4
  <2>2. SubSeq(c, BodyFirst(c, s), m - 1) \in Seq(Spelt)
    <3> HIDE DEF m
    <3>. QED  BY <2>1, SliceSpelt
  <2>. QED  BY <2>2 DEF Shape
<1>8. Shape(c, s).slot \in Slot
  <2> DEFINE ops == <<"ITER_NEXT", "POP_M">>
  <2>1. Len(ops) = 2 /\ ops[2] = "POP_M"
    OBVIOUS
  <2>2. Occurs(c, ops, s + 1)
    BY DEF IsLoop
  <2> HIDE DEF ops
  <2>3. s + 1 + 2 - 1 <= Len(c) /\ c[s + 1 + 2 - 1].op = "POP_M"
    BY <2>1, <2>2 DEF Occurs
  <2>4. s + 2 \in 1 .. Len(c) /\ c[s + 2].op = "POP_M"
    BY <1>1, <2>3
  <2>5. c[s + 2] \in Spelt
    BY <2>4
  <2>6. c[s + 2].arg \in Slot
    BY <2>4, <2>5 DEF Spelt
  <2>. QED  BY <2>6 DEF Shape
<1>9. Shape(c, s).end \in 1 .. Len(c)
  <2>1. Min(LoopEnds(c, s)) \in 1 .. Len(c)
    <3>1. m \in Nat \ {0}
      BY <1>1, <1>3, <1>4
    <3> HIDE DEF m
    <3>. QED  BY <1>1, <1>5, <3>1
  <2>. QED  BY <2>1 DEF Shape
<1>. QED  BY <1>6, <1>7, <1>8, <1>9

LEMMA LoopsWithin ==
    ASSUME NEW c \in Seq(Spelt), NEW h \in DOMAIN FindLoops(c)
    PROVE  /\ FindLoops(c)[h].iterable \in Seq(Spelt) /\ FindLoops(c)[h].body \in Seq(Spelt)
           /\ FindLoops(c)[h].slot \in Slot /\ FindLoops(c)[h].end \in 1 .. Len(c)
<1> DEFINE starts == {s \in 1 .. Len(c) : IsLoop(c, s)}
<1> DEFINE here == {s \in starts : Header(c, s) = h}
<1>1. h \in {Header(c, s) : s \in starts} /\ FindLoops(c)[h] = Shape(c, Max(here))
  BY DEF FindLoops
<1>2. here # {} /\ here \subseteq 0 .. Len(c) /\ Len(c) \in Nat
  BY <1>1
<1>3. Max(here) \in here
  <2> HIDE DEF here
  <2>. QED  BY <1>2, MaxOfPlaces
<1>4. PICK s \in 1 .. Len(c) : IsLoop(c, s) /\ FindLoops(c)[h] = Shape(c, s)
  BY <1>1, <1>3
<1>. QED  BY <1>4, ShapeWithin
-----------------------------------------------------------------------------
(* The recoveries under way, all of them.                                  *)
Recoveries(fs) == IsSequence(fs) /\ \A n \in 1 .. Len(fs) : FrameIn(STRING, fs[n])

LEMMA AllStrings == WordSet(STRING) /\ Marked(STRING)
  BY SpellingAssumption DEF WordSet, Marked, Word

LEMMA Replaced ==
    ASSUME NEW fs, Recoveries(fs), Len(fs) \in Nat \ {0}, NEW f, FrameIn(STRING, f)
    PROVE  Recoveries([fs EXCEPT ![Len(fs)] = f])
<1> DEFINE gs == [fs EXCEPT ![Len(fs)] = f]
<1>1. PICK S : fs \in Seq(S)
  BY DEF IsSequence, Recoveries
<1> DEFINE T == S \cup {f}
<1>2. fs \in Seq(T) /\ f \in T /\ Len(fs) \in 1 .. Len(fs)
  BY <1>1, SeqMonotonic
<1>3. /\ gs \in Seq(T) /\ Len(gs) = Len(fs)
      /\ \A j \in 1 .. Len(fs) : gs[j] = IF j = Len(fs) THEN f ELSE fs[j]
  <2> HIDE DEF T
  <2>. QED  BY <1>2, ExceptSeq
<1> HIDE DEF gs, T
<1>. QED  BY <1>3 DEF Recoveries, IsSequence, gs

LEMMA Pushed ==
    ASSUME NEW fs, Recoveries(fs), Len(fs) \in Nat, NEW f, FrameIn(STRING, f)
    PROVE  Recoveries(Append(fs, f))
<1>1. PICK S : fs \in Seq(S)
  BY DEF IsSequence, Recoveries
<1> DEFINE T == S \cup {f}
<1>2. fs \in Seq(T) /\ f \in T
  BY <1>1, SeqMonotonic
<1> HIDE DEF T
<1>3. /\ Append(fs, f) \in Seq(T) /\ Len(Append(fs, f)) = Len(fs) + 1
      /\ \A i \in 1 .. Len(fs) : Append(fs, f)[i] = fs[i]
      /\ Append(fs, f)[Len(fs) + 1] = f
  BY <1>2, AppendFacts
<1>4. \A n \in 1 .. Len(fs) + 1 : n \in 1 .. Len(fs) \/ n = Len(fs) + 1
  OBVIOUS
<1>. QED  BY <1>3, <1>4 DEF Recoveries, IsSequence

LEMMA FrameStarts ==
    ASSUME NEW W, NEW role \in {"rule", "iterable", "body"}, NEW code \in Seq(Spelt),
           NEW multi \in BOOLEAN, NEW bindings \in [Slot -> Seq(W)]
    PROVE  FrameIn(W, Frame(role, code, multi, bindings))
<1> DEFINE f == Frame(role, code, multi, bindings)
<1>1. Fields \subseteq DOMAIN f
  BY DEF Frame, Fields
<1>2. /\ f.role = role /\ f.code = code /\ f.pos = 1 /\ f.stack = <<>> /\ f.complete = TRUE
      /\ f.failed = FALSE /\ f.multi = multi /\ f.bindings = bindings /\ f.quantifier = <<>>
      /\ f.iterable = <<>>
  BY DEF Frame
<1>3. 1 \in 1 .. Len(code) + 1
  OBVIOUS
<1>4. <<>> \in Seq(W) /\ <<>> \in Seq(Value(W))
  OBVIOUS
<1> HIDE DEF f
<1>5. FrameIn(W, f)
  BY <1>1, <1>2, <1>3, <1>4 DEF FrameIn
<1>. QED  BY <1>5 DEF f

(* The loop at which a recovery stands, of the rule's recovery always.     *)
LEMMA LoopHere ==
    ASSUME NEW f, FrameIn(STRING, f), IsRuleFrame(f), f.pos \in DOMAIN f.loops
    PROVE  /\ f.loops[f.pos].iterable \in Seq(Spelt) /\ f.loops[f.pos].body \in Seq(Spelt)
           /\ f.loops[f.pos].slot \in Slot /\ f.loops[f.pos].end \in 1 .. Len(f.code)
  BY LoopsWithin DEF FrameIn, IsRuleFrame

Typed == Nested /\ Recoveries(frames)

LEMMA CallerTyped ==
    ASSUME Typed, Top.role # "rule"
    PROVE  /\ FrameIn(STRING, Caller) /\ FrameIn(STRING, Top)
           /\ CallerLoop.body \in Seq(Spelt) /\ CallerLoop.slot \in Slot
           /\ CallerLoop.end \in 1 .. Len(Caller.code)
           /\ Recoveries(Front(frames)) /\ Len(Front(frames)) = 1
           /\ Len(frames) - 1 = Len(Front(frames)) /\ Front(frames)[1] = Caller
<1>1. /\ Len(frames) = 2 /\ Caller = frames[1] /\ Front(frames)[1] = Caller
      /\ Len(Front(frames)) = 1 /\ Len(frames) - 1 = Len(Front(frames))
      /\ IsSequence(Front(frames))
  BY SliceOnRule DEF Typed
<1>2. FrameIn(STRING, Caller) /\ FrameIn(STRING, Top)
  BY <1>1 DEF Typed, Recoveries, Top
<1>3. IsRuleFrame(Caller) /\ Caller.pos \in DOMAIN Caller.loops
  BY <1>1 DEF Typed, Nested, Stack
<1>4. Recoveries(Front(frames))
  BY <1>1, <1>2 DEF Recoveries
<1>. QED  BY <1>1, <1>2, <1>3, <1>4, LoopHere DEF CallerLoop

LEMMA EnterLoopTyped ==
    ASSUME Typed, EnterLoop PROVE Recoveries(frames')
<1> DEFINE loop == Top.loops[Top.pos]
<1> DEFINE multi == loop.kind \in SetLoop \cup {"ITER_START_INT_RANGE"}
<1> DEFINE q == Quantified(Arg(1).text)
<1> DEFINE asked == [Popped(1) EXCEPT !.quantifier = q]
<1> DEFINE inner == Frame("iterable", loop.iterable, multi, Top.bindings)
<1>1. Top.pos \in DOMAIN Top.loops
  BY DEF EnterLoop, AtLoop
<1>2. Len(frames) = 1 /\ Top = frames[1] /\ IsRuleFrame(Top)
  BY <1>1 DEF Typed, Nested, Stack, IsSliceFrame, Top
<1>3. FrameIn(STRING, Top)
  BY <1>2 DEF Typed, Recoveries
<1>4. q \in Seq(STRING)
  <2>1. 1 \in Nat /\ Sound(STRING, 1)
    BY AllStrings DEF Sound
  <2>. QED  BY <1>3, <2>1, AllStrings, ArgIn, QuantifiedIn
<1>5. FrameIn(STRING, asked)
  <2>1. FrameIn(STRING, Popped(1))
    BY <1>3, AllStrings, PoppedIn
  <2> HIDE DEF q
  <2>. QED  BY <1>4, <2>1 DEF FrameIn, Fields
<1>6. FrameIn(STRING, inner)
  <2>1. loop.iterable \in Seq(Spelt)
    BY <1>1, <1>2, <1>3, LoopHere
  <2>2. Top.bindings \in [Slot -> Seq(STRING)]
    BY <1>3 DEF FrameIn
  <2>3. multi \in BOOLEAN
    OBVIOUS
  <2> HIDE DEF loop, multi
  <2>. QED  BY <2>1, <2>2, <2>3, FrameStarts
<1> DEFINE fs == [frames EXCEPT ![Len(frames)] = asked]
<1>7. frames' = Append(fs, inner)
  BY DEF EnterLoop
<1> HIDE DEF asked, inner
<1>8. Recoveries(fs)
  <2>1. Len(frames) \in Nat \ {0} /\ Recoveries(frames)
    BY <1>2 DEF Typed
  <2>. QED  BY <1>5, <2>1, Replaced
<1>9. Len(fs) = 1
  BY <1>2, ExceptSeq DEF Typed, Nested, IsSequence
<1> HIDE DEF fs
<1>. QED  BY <1>6, <1>7, <1>8, <1>9, Pushed

LEMMA OpenBodyTyped ==
    ASSUME Typed, Top.role # "rule", NEW it \in Seq(STRING), OpenBody(it)
    PROVE  Recoveries(frames')
<1> DEFINE g == [Caller EXCEPT !.iterable = it]
<1> DEFINE fs == [Front(frames) EXCEPT ![Len(Front(frames))] = g]
<1> DEFINE name == LoopVar(CallerLoop, Caller.bindings)
<1> DEFINE bound == [Caller.bindings EXCEPT ![CallerLoop.slot] = name]
<1> DEFINE inner == Frame("body", CallerLoop.body, FALSE, bound)
<1>1. /\ FrameIn(STRING, Caller) /\ CallerLoop.body \in Seq(Spelt) /\ CallerLoop.slot \in Slot
      /\ Recoveries(Front(frames)) /\ Len(Front(frames)) = 1
      /\ Len(frames) - 1 = Len(Front(frames)) /\ Front(frames)[1] = Caller
  BY CallerTyped
<1>2. FrameIn(STRING, g)
  BY <1>1 DEF FrameIn, Fields
<1>3. name \in Seq(STRING)
  BY <1>1, AllStrings, LoopVarIn
<1>4. bound \in [Slot -> Seq(STRING)]
  <2> HIDE DEF name
  <2>. QED  BY <1>1, <1>3 DEF FrameIn
<1>5. FrameIn(STRING, inner)
  <2> HIDE DEF bound
  <2>. QED  BY <1>1, <1>4, FrameStarts
<1>6. frames' = Append(fs, inner)
  BY <1>1 DEF OpenBody
<1> HIDE DEF g, inner
<1>7. Recoveries(fs) /\ Len(fs) = 1
  <2>1. Recoveries(fs)
    <3>1. Len(Front(frames)) \in Nat \ {0} /\ Recoveries(Front(frames))
      BY <1>1
    <3>. QED  BY <1>2, <3>1, Replaced
  <2>2. Len(fs) = 1
    BY <1>1, ExceptSeq DEF Recoveries, IsSequence
  <2>. QED  BY <2>1, <2>2
<1> HIDE DEF fs
<1>. QED  BY <1>5, <1>6, <1>7, Pushed

LEMMA FailCallerTyped ==
    ASSUME Typed, Top.role # "rule", NEW why, FailCaller(why)
    PROVE  Recoveries(frames')
<1> DEFINE g == [Caller EXCEPT !.failed = TRUE]
<1>1. /\ FrameIn(STRING, Caller) /\ Recoveries(Front(frames)) /\ Len(Front(frames)) = 1
      /\ Len(frames) - 1 = Len(Front(frames)) /\ Front(frames)[1] = Caller
  BY CallerTyped
<1>2. FrameIn(STRING, g)
  BY <1>1 DEF FrameIn, Fields
<1>3. frames' = [Front(frames) EXCEPT ![Len(Front(frames))] = g]
  BY <1>1 DEF FailCaller
<1> HIDE DEF g
<1>4. Len(Front(frames)) \in Nat \ {0} /\ Recoveries(Front(frames))
  BY <1>1
<1>. QED  BY <1>2, <1>3, <1>4, Replaced

LEMMA LoopTextIn ==
    ASSUME Typed, Top.role # "rule", Recovered(Top) PROVE LoopText \in Seq(STRING)
<1>1. /\ FrameIn(STRING, Caller) /\ FrameIn(STRING, Top) /\ CallerLoop.slot \in Slot
  BY CallerTyped
<1>2. /\ Caller.quantifier \in Seq(STRING) /\ Caller.iterable \in Seq(STRING)
      /\ Top.bindings[CallerLoop.slot] \in Seq(STRING)
  BY <1>1 DEF FrameIn
<1>3. Result(Top) \in Seq(STRING)
  BY <1>1, AllStrings, ValuesLeft
<1>4. {"for", "of", "in", ":", "(", ")"} \subseteq FixedWords
  BY DEF FixedWords
<1>5. "for" \in STRING /\ "of" \in STRING /\ "in" \in STRING /\ ":" \in STRING
      /\ "(" \in STRING /\ ")" \in STRING
  BY <1>4, AllStrings, FixedIn
<1> DEFINE bound == IF OverStrings THEN <<>> ELSE Top.bindings[CallerLoop.slot]
<1> DEFINE word == IF OverStrings THEN "of" ELSE "in"
<1>6. bound \in Seq(STRING) /\ word \in STRING
  <2>1. CASE OverStrings
    BY <1>5, <2>1
  <2>2. CASE ~ OverStrings
    BY <1>2, <1>5, <2>2
  <2>. QED  BY <2>1, <2>2
<1>7. LoopText = <<"for">> \o Caller.quantifier \o bound \o <<word>> \o Caller.iterable
                   \o <<":", "(">> \o Result(Top) \o <<")">>
  BY DEF LoopText
<1> HIDE DEF bound, word
<1>8. /\ <<"for">> \in Seq(STRING) /\ <<word>> \in Seq(STRING) /\ <<":", "(">> \in Seq(STRING)
      /\ <<")">> \in Seq(STRING)
  BY <1>5, <1>6
<1>. QED  BY <1>2, <1>3, <1>6, <1>7, <1>8, ConcatProperties

LEMMA BodyRecoveredTyped ==
    ASSUME Typed, BodyRecovered PROVE Recoveries(frames')
<1> DEFINE e == Expr(LoopText, "cmp")
<1> DEFINE h == Pushing(Caller, e)
<1> DEFINE g == [h EXCEPT !.pos = CallerLoop.end + 1]
<1> DEFINE fs == Front(Front(frames))
<1>1. Top.role # "rule" /\ Recovered(Top)
  BY DEF BodyRecovered, BodyDone
<1>2. FrameIn(STRING, Caller) /\ CallerLoop.end \in 1 .. Len(Caller.code)
  BY <1>1, CallerTyped
<1>3. e \in Value(STRING)
  BY <1>1, LoopTextIn, AllStrings, ExprIn DEF Kinds
<1> HIDE DEF e
<1>4. FrameIn(STRING, h) /\ h.code = Caller.code
  BY <1>2, <1>3, PushingIn
<1> HIDE DEF h
<1>5. FrameIn(STRING, g)
  <2>1. CallerLoop.end + 1 \in 1 .. Len(h.code) + 1
    BY <1>2, <1>4 DEF FrameIn
  <2>. QED  BY <1>4, <2>1 DEF FrameIn, Fields
<1>6. IsSequence(fs) /\ Len(fs) = 0
  BY <1>1, SliceOnRule, StackPop DEF Typed, Nested
<1>7. frames' = Append(fs, g)
  BY DEF BodyRecovered, e, h
<1> HIDE DEF fs, g
<1>8. Recoveries(fs) /\ Len(fs) \in Nat
  BY <1>6 DEF Recoveries
<1>. QED  BY <1>5, <1>7, <1>8, Pushed

LEMMA LoopTyped == Typed /\ Loop => Recoveries(frames')
<1> SUFFICES ASSUME Typed, Loop PROVE Recoveries(frames')
  OBVIOUS
<1>1. ASSUME IterableDone
      PROVE  /\ Top.role # "rule" /\ FrameIn(STRING, Top)
             /\ Left(Top) \in Seq(Value(STRING)) /\ Values(Top) \in Seq(Seq(STRING))
             /\ \A n \in 1 .. Len(Left(Top)) : Left(Top)[n].text \in Seq(STRING)
             /\ Recovered(Top) => Result(Top) \in Seq(STRING)
  <2>1. Top.role # "rule"
    BY <1>1 DEF IterableDone
  <2>2. FrameIn(STRING, Top)
    BY <2>1, CallerTyped
  <2>. QED  BY <2>1, <2>2, AllStrings, ValuesLeft
<1>2. CASE EnterLoop
  BY <1>2, EnterLoopTyped
<1>3. CASE SetIterated
  <2>1. IterableDone /\ OpenBody(SetText(Members(Values(Top))))
    BY <1>3 DEF SetIterated
  <2>2. SetText(Members(Values(Top))) \in Seq(STRING)
    BY <1>1, <2>1, AllStrings, MembersOf, SetTextIn
  <2>. QED  BY <1>1, <2>1, <2>2, OpenBodyTyped
<1>4. CASE SetAnonymous
  BY <1>1, <1>4, FailCallerTyped DEF SetAnonymous
<1>5. CASE RangeIterated
  <2>1. IterableDone /\ Len(Left(Top)) = 2 /\ OpenBody(Interval(Left(Top)[1], Left(Top)[2]))
    BY <1>5 DEF RangeIterated
  <2>2. Left(Top)[1].text \in Seq(STRING) /\ Left(Top)[2].text \in Seq(STRING)
    BY <1>1, <2>1
  <2>3. Interval(Left(Top)[1], Left(Top)[2]) \in Seq(STRING)
    BY <2>2, AllStrings, IntervalIn
  <2>. QED  BY <1>1, <2>1, <2>3, OpenBodyTyped
<1>6. CASE ValueIterated
  BY <1>1, <1>6, OpenBodyTyped DEF ValueIterated
<1>7. CASE IterableLost
  BY <1>1, <1>7, FailCallerTyped DEF IterableLost
<1>8. CASE BodyRecovered
  BY <1>8, BodyRecoveredTyped
<1>9. CASE BodyLost
  BY <1>9, FailCallerTyped DEF BodyLost, BodyDone
<1>. QED  BY <1>2, <1>3, <1>4, <1>5, <1>6, <1>7, <1>8, <1>9 DEF Loop

(* The top recovery is of the type of all, and its stack is a sequence.    *)
LEMMA TopTyped ==
    ASSUME Typed PROVE FrameIn(STRING, Top) /\ Len(Top.stack) \in Nat
<1>1. FrameIn(STRING, Top)
  BY DEF Typed, Recoveries, Nested, Stack, Top
<1>2. Top.stack \in Seq(Value(STRING))
  BY <1>1, AllStrings DEF FrameIn
<1>. QED  BY <1>1, <1>2

LEMMA TypedSteps == Typed /\ [Next]_vars => Typed'
<1> SUFFICES ASSUME Typed, [Next]_vars PROVE Typed'
  OBVIOUS
<1>1. Nested'
  BY NextNested DEF Typed
<1>2. CASE Walk
  <2>1. PICK f : Continue(f) /\ FrameIn(STRING, f)
    BY <1>2, TopTyped, AllStrings, WalkIn DEF Speaks
  <2>2. Len(frames) \in Nat \ {0}
    BY DEF Typed, Nested, Stack
  <2>3. Recoveries([frames EXCEPT ![Len(frames)] = f])
    BY <2>1, <2>2, Replaced DEF Typed
  <2>. QED  BY <1>1, <2>1, <2>3 DEF Typed, Continue
<1>3. CASE Loop
  <2>1. Recoveries(frames')
    BY <1>3, LoopTyped
  <2>. QED  BY <1>1, <2>1 DEF Typed
<1>4. CASE Emit \/ Over \/ UNCHANGED vars
  <2>1. frames' = frames
    BY <1>4 DEF Emit, EmitCondition, EmitPlaceholder, Over, vars
  <2>. QED  BY <1>1, <2>1 DEF Typed
<1>. QED  BY <1>2, <1>3, <1>4 DEF Next

LEMMA TypedStarts == Init => Typed
<1> SUFFICES ASSUME Init PROVE Typed
  OBVIOUS
<1> DEFINE f == Frame("rule", rule.code, FALSE, [s \in Slot |-> Unbound])
<1>1. frames = <<f>> /\ rule.code \in Seq(Spelt)
  BY RulesSpelt DEF Init
<1>2. [s \in Slot |-> Unbound] \in [Slot -> Seq(STRING)]
  BY DEF Unbound
<1>3. FrameIn(STRING, f)
  BY <1>1, <1>2, FrameStarts
<1> HIDE DEF f
<1>4. IsSequence(frames) /\ Len(frames) = 1 /\ frames[1] = f
  <2>1. <<f>> \in Seq({f}) /\ Len(<<f>>) = 1 /\ <<f>>[1] = f
    OBVIOUS
  <2>. QED  BY <1>1, <2>1 DEF IsSequence
<1>. QED  BY <1>3, <1>4, InitNested DEF Typed, Recoveries
-----------------------------------------------------------------------------
(* The notes are of the kinds that the properties name.                    *)
LEMMA WalkNotes == Walk => notes' \subseteq notes \cup Note
<1> SUFFICES ASSUME Walk PROVE notes' \subseteq notes \cup Note
  OBVIOUS
<1>1. ASSUME NEW v PROVE RegexNotes(v) \subseteq Note
  BY DEF RegexNotes, Note
<1>2. CASE Skip \/ JumpPopping \/ Push
  BY <1>1, <1>2 DEF Skip, JumpPopping, Push
<1>3. CASE PushShort \/ PushUndefined \/ PushRule \/ PushWord \/ PushSlot \/ StringOp
  BY <1>3 DEF PushShort, PushUndefined, PushRule, PushWord, PushSlot, StringOp, Reduce
<1>4. CASE Of \/ Prefixed \/ BinaryOp \/ ObjectOp \/ Call \/ ReadInteger
  BY <1>4 DEF Of, Prefixed, BinaryOp, ObjectOp, Call, ReadInteger, Reduce
<1>5. CASE PushUnbound \/ OfNoSet \/ OfAnonymous \/ CallUnreadable \/ Unhandled
  BY <1>5 DEF PushUnbound, OfNoSet, OfAnonymous, CallUnreadable, Unhandled, Fail, Note
<1>. QED  BY <1>2, <1>3, <1>4, <1>5 DEF Walk

LEMMA LoopNotes == Loop => notes' \subseteq notes \cup Note
<1> SUFFICES ASSUME Loop PROVE notes' \subseteq notes \cup Note
  OBVIOUS
<1>1. ASSUME NEW v PROVE MemberNotes(v) \subseteq Note /\ CountNotes(v) \subseteq Note
  BY DEF MemberNotes, CountNotes, Note
<1>2. {"loop anonymous strings", "iterable lost", "body lost"} \subseteq Note
  BY DEF Note
<1>3. CASE EnterLoop \/ SetIterated \/ RangeIterated \/ ValueIterated \/ BodyRecovered
  BY <1>1, <1>3 DEF EnterLoop, SetIterated, RangeIterated, ValueIterated, BodyRecovered
<1>4. CASE SetAnonymous
  BY <1>1, <1>2, <1>4 DEF SetAnonymous, FailCaller
<1>5. CASE IterableLost
  BY <1>1, <1>2, <1>5 DEF IterableLost, FailCaller
<1>6. CASE BodyLost
  BY <1>1, <1>2, <1>6 DEF BodyLost, FailCaller
<1>. QED  BY <1>3, <1>4, <1>5, <1>6 DEF Loop

(* What a step of the walk or of a loop leaves alone.                      *)
LEMMA OutsideStays ==
    Walk \/ Loop => UNCHANGED <<rule, verdict, condition, warnings>>
<1> SUFFICES ASSUME Walk \/ Loop PROVE UNCHANGED <<rule, verdict, condition, warnings>>
  OBVIOUS
<1>1. CASE Walk
  BY <1>1 DEF Walk, Skip, JumpPopping, Push, PushShort, PushUndefined, PushRule, PushWord,
     PushSlot, StringOp, Of, Prefixed, BinaryOp, ObjectOp, Call, ReadInteger, Reduce,
     PushUnbound, OfNoSet, OfAnonymous, CallUnreadable, Unhandled, Fail, Continue
<1>2. CASE Loop
  BY <1>2 DEF Loop, EnterLoop, SetIterated, RangeIterated, ValueIterated, OpenBody,
     BodyRecovered, SetAnonymous, IterableLost, BodyLost, FailCaller
<1>. QED  BY <1>1, <1>2

Reported ==
    /\ rule \in Rules /\ notes \subseteq Note
    /\ verdict \in {"running", "condition", "placeholder"} /\ condition \in Text
    /\ warnings \subseteq Note \cup {"condition not reconstructed"}

LEMMA PlaceholderIn == ASSUME NEW W, WordSet(W) PROVE Placeholder \in Seq(W)
<1>1. {"false", "and", "any", "of", "them"} \subseteq FixedWords
  BY DEF FixedWords
<1>2. "false" \in W /\ "and" \in W /\ "any" \in W /\ "of" \in W /\ "them" \in W
  BY <1>1, FixedIn
<1>3. <<"false">> \in Seq(W) /\ <<"false", "and", "any", "of", "them">> \in Seq(W)
  BY <1>2
<1>. QED  BY <1>3 DEF Placeholder

LEMMA ReportedSteps == Typed /\ Reported /\ [Next]_vars => Reported'
<1> SUFFICES ASSUME Typed, Reported, [Next]_vars PROVE Reported'
  OBVIOUS
<1>1. CASE Walk \/ Loop
  <2>1. notes' \subseteq Note
    BY <1>1, WalkNotes, LoopNotes DEF Reported
  <2>. QED  BY <1>1, <2>1, OutsideStays DEF Reported
<1>2. CASE EmitCondition
  <2>1. Result(Top) \in Text
    BY <1>2, TopTyped, AllStrings, ValuesLeft DEF EmitCondition, Text
  <2>. QED  BY <1>2, <2>1 DEF EmitCondition, Reported
<1>3. CASE EmitPlaceholder
  <2>1. Placeholder \in Text
    BY AllStrings, PlaceholderIn DEF Text
  <2>2. CountNotes(Top) \subseteq Note
    BY DEF CountNotes, Note
  <2>. QED  BY <1>3, <2>1, <2>2 DEF EmitPlaceholder, Reported
<1>4. CASE Over \/ UNCHANGED vars
  BY <1>4 DEF Over, vars, Reported
<1>. QED  BY <1>1, <1>2, <1>3, <1>4 DEF Next, Emit

LEMMA ReportedStarts == Init => Reported
  BY DEF Init, Reported, Text

LEMMA FrameShape == ASSUME NEW f, FrameIn(STRING, f) PROVE FrameOK(f)
<1>1. Seq(Spelt) \subseteq Seq(Instr)
  <2>1. Spelt \subseteq Instr
    BY DEF Spelt
  <2>. QED  BY <2>1, SeqMonotonic
<1>2. Value(STRING) \subseteq [text : Text, prec : 1 .. 7, raw : Int]
  BY DEF Value, Raws, Text
<1> DEFINE V == [text : Text, prec : 1 .. 7, raw : Int]
<1>3. f.stack \in Seq(Value(STRING))
  BY AllStrings DEF FrameIn
<1>4. f.stack \in Seq(V)
  <2> HIDE DEF V
  <2>. QED  BY <1>2, <1>3, SeqMonotonic DEF V
<1>. QED  BY <1>1, <1>4 DEF FrameIn, FrameOK, Text

(* The state of the recovery keeps its shape: no code, compiled or not,    *)
(* makes ConditionRecovery.run stand beyond the end of its instructions by *)
(* more than one, pop into anything but a text, or bind a slot to what is  *)
(* not one.                                                                *)
THEOREM TypeOKHolds == Spec => []TypeOK
<1>1. ASSUME Typed, Reported PROVE TypeOK
  <2>1. rule.code \in Seq(Instr) /\ rule.strings \in Seq(Text)
    BY <1>1, ConditionAssumption DEF Reported
  <2>2. Len(frames) >= 1 /\ \A n \in 1 .. Len(frames) : FrameOK(frames[n])
    <3>1. Len(frames) >= 1
      BY <1>1 DEF Typed, Nested, Stack
    <3>. QED  BY <1>1, <3>1, FrameShape DEF Typed, Recoveries
  <2>. QED  BY <1>1, <2>1, <2>2 DEF Reported, TypeOK
<1>. QED  BY <1>1, TypedStarts, TypedSteps, ReportedStarts, ReportedSteps, PTL DEF Spec
-----------------------------------------------------------------------------
(* Without a loop there is one recovery, of the rule's code, and it is     *)
(* complete only as long as it has not popped what it did not have.        *)
Wordy ==
    /\ Len(frames) = 1 /\ frames[1].code = rule.code /\ FrameIn(Word, frames[1])
    /\ verdict = "condition" => condition \in Seq(Word)

LoopFree == HasLoop(rule.code) \/ Wordy

LEMMA OnlyWords == WordSet(Word)
  BY DEF WordSet, Word

LEMMA NoLoopHere ==
    ASSUME Typed, Wordy, ~ HasLoop(rule.code)
    PROVE  Top = frames[1] /\ ~ AtLoop /\ Top.role = "rule" /\ FrameIn(Word, Top)
<1>1. Top = frames[1] /\ IsRuleFrame(Top) /\ FrameIn(Word, Top)
  BY DEF Typed, Nested, Stack, Wordy, Top
<1>2. HoldsNoLoop(rule.code)
  BY DEF HasLoop, HoldsNoLoop, IsLoop
<1>3. DOMAIN Top.loops = {}
  BY <1>1, <1>2, NoLoopFound DEF IsRuleFrame, Wordy
<1>. QED  BY <1>1, <1>3 DEF AtLoop, IsRuleFrame

LEMMA LoopFreeSteps == Typed /\ LoopFree /\ [Next]_vars => LoopFree'
<1> SUFFICES ASSUME Typed, LoopFree, [Next]_vars PROVE LoopFree'
  OBVIOUS
<1>1. rule' = rule
  BY OutsideStays DEF Next, Emit, EmitCondition, EmitPlaceholder, Over, vars
<1>2. CASE HasLoop(rule.code)
  BY <1>1, <1>2 DEF LoopFree, HasLoop
<1>3. CASE ~ HasLoop(rule.code)
  <2>1. Wordy
    BY <1>3 DEF LoopFree
  <2>2. Top = frames[1] /\ ~ AtLoop /\ Top.role = "rule" /\ FrameIn(Word, Top)
    BY <1>3, <2>1, NoLoopHere
  <2>3. CASE Walk
    <3>1. PICK f : Continue(f) /\ FrameIn(Word, f) /\ f.code = Top.code
      BY <2>2, <2>3, TopTyped, OnlyWords, WalkIn DEF Speaks
    <3>2. Len(frames') = 1 /\ frames'[1] = f
      <4>1. 1 \in 1 .. Len(frames) /\ Len(frames) = 1
        BY <2>1 DEF Wordy
      <4>2. PICK S : frames \in Seq(S)
        BY DEF Typed, Recoveries, IsSequence
      <4>3. frames \in Seq(S \cup {f})
        BY <4>2, SeqMonotonic
      <4>4. frames' = [frames EXCEPT ![1] = f]
        BY <3>1, <4>1 DEF Continue
      <4>. QED  BY <4>1, <4>3, <4>4, ExceptSeq
    <3>3. Wordy'
      BY <1>1, <2>1, <2>2, <2>3, <3>1, <3>2, OutsideStays DEF Wordy
    <3>. QED  BY <3>3 DEF LoopFree
  <2>4. CASE Loop
    BY <2>2, <2>4 DEF Loop, EnterLoop, SetIterated, SetAnonymous, RangeIterated, ValueIterated,
       IterableLost, IterableDone, BodyRecovered, BodyLost, BodyDone
  <2>5. CASE EmitCondition
    <3>1. Result(Top) \in Seq(Word)
      BY <2>2, <2>5, OnlyWords, ValuesLeft DEF EmitCondition, Recovered
    <3>. QED  BY <1>1, <2>1, <2>5, <3>1 DEF EmitCondition, Wordy, LoopFree
  <2>6. CASE EmitPlaceholder \/ Over \/ UNCHANGED vars
    BY <1>1, <2>1, <2>6 DEF EmitPlaceholder, Over, vars, Wordy, LoopFree
  <2>. QED  BY <2>3, <2>4, <2>5, <2>6 DEF Next, Emit
<1>. QED  BY <1>2, <1>3

LEMMA LoopFreeStarts == Init => LoopFree
<1> SUFFICES ASSUME Init PROVE LoopFree
  OBVIOUS
<1> DEFINE f == Frame("rule", rule.code, FALSE, [s \in Slot |-> Unbound])
<1>1. frames = <<f>> /\ rule.code \in Seq(Spelt)
  BY RulesSpelt DEF Init
<1>2. [s \in Slot |-> Unbound] \in [Slot -> Seq(Word)]
  BY DEF Unbound
<1>3. FrameIn(Word, f) /\ f.code = rule.code
  <2>1. FrameIn(Word, f)
    BY <1>1, <1>2, FrameStarts
  <2>2. f.code = rule.code
    BY DEF Frame
  <2>. QED  BY <2>1, <2>2
<1> HIDE DEF f
<1>4. Len(frames) = 1 /\ frames[1] = f
  BY <1>1
<1>. QED  BY <1>3, <1>4 DEF Init, LoopFree, Wordy

(* In code without a loop, `complete' is enough: whatever it pops too      *)
(* much, and however the tables of the file are, the marker that pop()     *)
(* gives for an empty stack is in no condition that run returns.           *)
THEOREM UnderflowNeverEmittedHolds == Spec => []UnderflowNeverEmitted
<1>1. ASSUME LoopFree PROVE UnderflowNeverEmitted
  <2>1. ASSUME verdict = "condition", ~ HasLoop(rule.code), NEW n \in 1 .. Len(condition)
        PROVE  condition[n] # "<underflow>"
    <3>1. condition \in Seq(Word)
      BY <1>1, <2>1 DEF LoopFree, Wordy
    <3>2. condition[n] \in Word
      BY <2>1, <3>1
    <3>. QED  BY <3>2 DEF Word
  <2>. QED  BY <2>1 DEF UnderflowNeverEmitted
<1>. QED  BY <1>1, TypedStarts, TypedSteps, LoopFreeStarts, LoopFreeSteps, PTL DEF Spec
=============================================================================
