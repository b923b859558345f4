--------------------------- MODULE ConditionProofs ---------------------------
(***************************************************************************)
(* What holds of the condition recovery for every code, compiled or not,   *)
(* and every content of the pool and of the RE section: the recovery of a  *)
(* loop's iterable or body never meets a loop.                             *)
(***************************************************************************)
EXTENDS Condition, CommonLemmas, SequenceTheorems, TLAPS

(* What occurs in a slice of a code occurs in the code.                    *)
LEMMA OccursInSlice ==
    ASSUME NEW c \in Seq(Instr), NEW a \in Nat \ {0}, NEW b \in Int, b <= Len(c),
           NEW ops, Len(ops) \in Nat \ {0}, NEW j \in Nat \ {0},
           NEW d, d = SubSeq(c, a, b), Occurs(d, ops, j)
    PROVE  Occurs(c, ops, a + j - 1) /\ a + j - 1 + Len(ops) - 1 <= b
<1>1. \A i \in a .. b : c[i] \in Instr
  OBVIOUS
<1>2. Len(d) = (IF a <= b THEN b - a + 1 ELSE 0) /\ \A i \in 1 .. b - a + 1 : d[i] = c[a + i - 1]
  BY <1>1, SubSeqProperties
<1>3. \A n \in 1 .. Len(ops) : j + n - 1 <= Len(d) /\ d[j + n - 1].op = ops[n]
  BY DEF Occurs
<1>4. j + Len(ops) - 1 <= Len(d)
  BY <1>2, <1>3
<1>5. ASSUME NEW n \in 1 .. Len(ops)
      PROVE  a + j - 1 + n - 1 <= Len(c) /\ c[a + j - 1 + n - 1].op = ops[n]
  <2>1. j + n - 1 \in 1 .. b - a + 1
    BY <1>2, <1>3
  <2>2. d[j + n - 1] = c[a + (j + n - 1) - 1]
    BY <2>1, <1>2
  <2>3. a + (j + n - 1) - 1 = a + j - 1 + n - 1
    OBVIOUS
  <2>. QED  BY <1>3, <2>1, <2>2, <2>3
<1>. QED  BY <1>2, <1>4, <1>5 DEF Occurs
-----------------------------------------------------------------------------
HoldsNoLoop(c) == \A t \in 1 .. Len(c) : ~ IsLoop(c, t)

(* No header of a loop lies within the iterable: it would be nearer to the *)
(* loop than the one that _find_loops took.                                *)
LEMMA IterableHoldsNoLoop ==
    ASSUME NEW c \in Seq(Instr), NEW s \in 1 .. Len(c), IsLoop(c, s)
    PROVE  HoldsNoLoop(SubSeq(c, Header(c, s) + 3, s - 1))
<1> DEFINE h == Header(c, s)
<1> DEFINE a == h + 3
<1> DEFINE b == s - 1
<1> DEFINE d == SubSeq(c, a, b)
<1> DEFINE ops == <<"CLEAR_M", "CLEAR_M", "POP_M">>
<1>1. HeadersBefore(c, s) # {} /\ HeadersBefore(c, s) \subseteq 0 .. Len(c)
  BY DEF IsLoop, HeadersBefore
<1>2. h \in HeadersBefore(c, s) /\ \A j \in HeadersBefore(c, s) : h >= j
  BY <1>1, MaxOfPlaces DEF Header
<1>3. h \in 1 .. s - 3
  BY <1>2 DEF HeadersBefore
<1>4. ASSUME NEW t \in 1 .. Len(d), NEW j \in HeadersBefore(d, t) PROVE FALSE
  <2>1. j \in Nat \ {0} /\ Occurs(d, ops, j)
    BY DEF HeadersBefore
  <2>2. Len(ops) = 3 /\ Len(ops) \in Nat \ {0}
    OBVIOUS
  <2>3. a \in Nat \ {0} /\ b \in Int /\ b <= Len(c)
    BY <1>3
  <2>4. Occurs(c, ops, a + j - 1) /\ a + j - 1 + Len(ops) - 1 <= b
    <3>1. d = SubSeq(c, a, b)
      OBVIOUS
    <3> HIDE DEF ops, a, b, d
    <3>. QED  BY <2>1, <2>2, <2>3, <3>1, OccursInSlice
  <2>5. a + j - 1 \in HeadersBefore(c, s)
    BY <1>3, <2>1, <2>2, <2>4 DEF HeadersBefore
  <2>. QED  BY <1>2, <1>3, <2>1, <2>5
<1>. QED  BY <1>4 DEF HoldsNoLoop, IsLoop

(* Nor an epilogue within the body: it would come before the one at which  *)
(* _find_loops ends the body.                                              *)
LEMMA BodyHoldsNoLoop ==
    ASSUME NEW c \in Seq(Instr), NEW s \in 1 .. Len(c), IsLoop(c, s)
    PROVE  HoldsNoLoop(SubSeq(c, BodyFirst(c, s), Min(BodyEnds(c, s)) - 1))
<1> DEFINE a == BodyFirst(c, s)
<1> DEFINE m == Min(BodyEnds(c, s))
<1> DEFINE b == m - 1
<1> DEFINE d == SubSeq(c, a, b)
<1> DEFINE ops == <<"INCR_M", "PUSH_M", "PUSH_M", "ITER_CONDITION">>
<1>1. a \in Nat \ {0} /\ a \in {s + 3, s + 4}
  BY DEF BodyFirst
<1>2. m \in BodyEnds(c, s) /\ \A j \in BodyEnds(c, s) : m <= j
  <2>1. BodyEnds(c, s) # {} /\ BodyEnds(c, s) \subseteq Nat
    BY <1>1 DEF IsLoop, BodyEnds
  <2>. QED  BY <2>1, MinOfPlaces
<1>3. m \in a .. Len(c) /\ b \in Int /\ b <= Len(c)
  BY <1>1, <1>2 DEF BodyEnds
<1>4. ASSUME NEW t \in 1 .. Len(d), NEW j \in BodyEnds(d, t) PROVE FALSE
  <2>1. j \in Nat \ {0} /\ Occurs(d, ops, j)
    BY <1>1, <1>3 DEF BodyEnds, BodyFirst
  <2>2. Len(ops) = 4 /\ Len(ops) \in Nat \ {0}
    OBVIOUS
  <2>4. Occurs(c, ops, a + j - 1) /\ a + j - 1 + Len(ops) - 1 <= b
    <3>1. d = SubSeq(c, a, b)
      OBVIOUS
    <3> HIDE DEF ops, a, b, d
    <3>. QED  BY <1>1, <1>3, <2>1, <2>2, <3>1, OccursInSlice
  <2>5. a + j - 1 \in a .. Len(c)
    <3> HIDE DEF ops, a, m, d
    <3>. QED  BY <1>1, <1>3, <2>1, <2>2, <2>4
  <2>6. a + j - 1 \in BodyEnds(c, s)
    BY <2>4, <2>5 DEF BodyEnds
  <2>7. m <= a + j - 1 /\ a + j - 1 + 3 <= m - 1
    BY <1>2, <2>2, <2>4, <2>6
  <2>. QED
    <3> HIDE DEF a, m
    <3>. QED  BY <1>1, <1>3, <2>1, <2>7
<1>. QED  BY <1>4 DEF HoldsNoLoop, IsLoop

LEMMA NoLoopFound ==
    ASSUME NEW d, HoldsNoLoop(d) PROVE DOMAIN FindLoops(d) = {}
<1> DEFINE starts == {s \in 1 .. Len(d) : IsLoop(d, s)}
<1>1. starts = {}
  BY DEF HoldsNoLoop
<1>2. {Header(d, s) : s \in starts} = {}
  BY <1>1
<1>. QED  BY <1>2 DEF FindLoops

(* What _find_loops finds is a loop, with the slices of that loop.         *)
LEMMA FoundLoops ==
    ASSUME NEW c \in Seq(Instr), NEW h \in DOMAIN FindLoops(c)
    PROVE  /\ DOMAIN FindLoops(FindLoops(c)[h].iterable) = {}
           /\ DOMAIN FindLoops(FindLoops(c)[h].body) = {}
<1> DEFINE starts == {s \in 1 .. Len(c) : IsLoop(c, s)}
<1> DEFINE here == {s \in starts : Header(c, s) = h}
<1>1. h \in {Header(c, s) : s \in starts} /\ FindLoops(c)[h] = Shape(c, Max(here))
  BY DEF FindLoops
<1>2. here # {} /\ here \subseteq 0 .. Len(c) /\ Len(c) \in Nat
  BY <1>1
<1>3. Max(here) \in here
  <2> HIDE DEF here
  <2>. QED  BY <1>2, MaxOfPlaces
<1>4. PICK s \in 1 .. Len(c) : IsLoop(c, s) /\ FindLoops(c)[h] = Shape(c, s)
  BY <1>1, <1>3
<1>5. /\ Shape(c, s).iterable = SubSeq(c, Header(c, s) + 3, s - 1)
      /\ Shape(c, s).body = SubSeq(c, BodyFirst(c, s), Min(BodyEnds(c, s)) - 1)
  BY DEF Shape
<1>6. /\ FindLoops(c)[h].iterable = SubSeq(c, Header(c, s) + 3, s - 1)
      /\ FindLoops(c)[h].body = SubSeq(c, BodyFirst(c, s), Min(BodyEnds(c, s)) - 1)
  BY <1>4, <1>5
<1>. QED  BY <1>4, <1>6, IterableHoldsNoLoop, BodyHoldsNoLoop, NoLoopFound
-----------------------------------------------------------------------------
(* The call stack: the recovery of the rule and, on it, at most one more,  *)
(* of a slice that holds no loop.                                          *)
Parts == {"role", "code", "loops", "pos"}

IsRuleFrame(f) ==
    /\ Parts \subseteq DOMAIN f
    /\ f.role = "rule" /\ f.code \in Seq(Instr) /\ f.loops = FindLoops(f.code)

IsSliceFrame(f) == Parts \subseteq DOMAIN f /\ f.role # "rule" /\ DOMAIN f.loops = {}

IsSequence(fs) == \E S : fs \in Seq(S)

Stack(fs) ==
    /\ Len(fs) \in {1, 2}
    /\ IsRuleFrame(fs[1])
    /\ Len(fs) = 2 => IsSliceFrame(fs[2]) /\ fs[1].pos \in DOMAIN fs[1].loops

(* What a step of the walk keeps of its frame.                             *)
Same(f, g) ==
    /\ Parts \subseteq DOMAIN f
    /\ f.role = g.role /\ f.code = g.code /\ f.loops = g.loops

LEMMA SameKind ==
    ASSUME NEW f, NEW g, Same(f, g)
    PROVE  /\ IsRuleFrame(g) => IsRuleFrame(f)
           /\ IsSliceFrame(g) => IsSliceFrame(f)
  BY DEF Same, IsRuleFrame, IsSliceFrame

LEMMA NewFrame ==
    ASSUME NEW role, NEW code, NEW multi, NEW bindings
    PROVE  /\ Parts \subseteq DOMAIN Frame(role, code, multi, bindings)
           /\ Frame(role, code, multi, bindings).role = role
           /\ Frame(role, code, multi, bindings).code = code
           /\ Frame(role, code, multi, bindings).loops = FindLoops(code)
  BY DEF Parts, Frame

LEMMA NewSlice ==
    ASSUME NEW role, role # "rule", NEW code, DOMAIN FindLoops(code) = {}, NEW multi, NEW bindings
    PROVE  IsSliceFrame(Frame(role, code, multi, bindings))
  BY NewFrame DEF IsSliceFrame

LEMMA StackStep ==
    ASSUME NEW fs, IsSequence(fs), Stack(fs), NEW f, Same(f, fs[Len(fs)])
    PROVE  IsSequence([fs EXCEPT ![Len(fs)] = f]) /\ Stack([fs EXCEPT ![Len(fs)] = f])
<1> DEFINE gs == [fs EXCEPT ![Len(fs)] = f]
<1>1. PICK S : fs \in Seq(S)
  BY DEF IsSequence
<1> DEFINE T == S \cup {f}
<1>2. fs \in Seq(T) /\ f \in T /\ Len(fs) \in 1 .. Len(fs)
  BY <1>1, SeqMonotonic DEF Stack
<1>3. /\ gs \in Seq(T) /\ Len(gs) = Len(fs)
      /\ \A j \in 1 .. Len(fs) : gs[j] = IF j = Len(fs) THEN f ELSE fs[j]
  <2> HIDE DEF T
  <2>. QED  BY <1>2, ExceptSeq
<1> HIDE DEF gs, T
<1>4. CASE Len(fs) = 1
  <2>1. gs[1] = f
    BY <1>3, <1>4
  <2>. QED  BY <1>3, <1>4, <2>1, SameKind DEF Stack, IsSequence, gs
<1>5. CASE Len(fs) = 2
  <2>1. gs[1] = fs[1] /\ gs[2] = f
    BY <1>3, <1>5
  <2>. QED  BY <1>3, <1>5, <2>1, SameKind DEF Stack, IsSequence, gs
<1>. QED  BY <1>4, <1>5 DEF Stack

LEMMA AppendFacts ==
    ASSUME NEW T, NEW s \in Seq(T), NEW e \in T
    PROVE  /\ Append(s, e) \in Seq(T)
           /\ Len(Append(s, e)) = Len(s) + 1
           /\ \A i \in 1 .. Len(s) : Append(s, e)[i] = s[i]
           /\ Append(s, e)[Len(s) + 1] = e
  OBVIOUS

(* A frame for a slice without loops on the rule's.                        *)
LEMMA StackPush ==
    ASSUME NEW fs, IsSequence(fs), Len(fs) = 1, Stack(fs),
           fs[1].pos \in DOMAIN fs[1].loops, NEW f, IsSliceFrame(f)
    PROVE  IsSequence(Append(fs, f)) /\ Stack(Append(fs, f))
<1>1. PICK S : fs \in Seq(S)
  BY DEF IsSequence
<1> DEFINE T == S \cup {f}
<1>2. fs \in Seq(T) /\ f \in T
  BY <1>1, SeqMonotonic
<1> HIDE DEF T
<1>3. /\ Append(fs, f) \in Seq(T) /\ Len(Append(fs, f)) = Len(fs) + 1
      /\ \A i \in 1 .. Len(fs) : Append(fs, f)[i] = fs[i]
      /\ Append(fs, f)[Len(fs) + 1] = f
  BY <1>2, AppendFacts
<1>4. Len(Append(fs, f)) = 2 /\ Append(fs, f)[1] = fs[1] /\ Append(fs, f)[2] = f
  BY <1>3
<1>. QED  BY <1>3, <1>4 DEF Stack, IsSequence

(* The rule's frame alone, after the other is done.                        *)
LEMMA StackPop ==
    ASSUME NEW fs, IsSequence(fs), Stack(fs), Len(fs) = 2
    PROVE  /\ IsSequence(Front(fs)) /\ Len(Front(fs)) = 1 /\ Front(fs)[1] = fs[1]
           /\ Stack(Front(fs))
           /\ IsSequence(Front(Front(fs))) /\ Len(Front(Front(fs))) = 0
<1>1. PICK S : fs \in Seq(S)
  BY DEF IsSequence
<1>2. Front(fs) \in Seq(S) /\ Len(Front(fs)) = 1 /\ Front(fs)[1] = fs[1]
  <2>1. \A i \in 1 .. 1 : fs[i] \in S
    BY <1>1
  <2>. QED  BY <2>1, SubSeqProperties DEF Front
<1>3. Stack(Front(fs))
  BY <1>2 DEF Stack
<1>4. Front(Front(fs)) \in Seq(S) /\ Len(Front(Front(fs))) = 0
  <2> DEFINE g == Front(fs)
  <2> HIDE DEF g
  <2>1. \A i \in 1 .. 0 : g[i] \in S
    OBVIOUS
  <2>2. Front(g) = SubSeq(g, 1, 0)
    BY <1>2 DEF Front, g
  <2>3. 0 \in Int /\ 1 \in Int
    OBVIOUS
  <2>4. SubSeq(g, 1, 0) \in Seq(S) /\ Len(SubSeq(g, 1, 0)) = 0
    BY <2>1, <2>3, SubSeqProperties
  <2>. QED  BY <2>2, <2>4 DEF g
<1>. QED  BY <1>2, <1>3, <1>4 DEF IsSequence
-----------------------------------------------------------------------------
(* A step of the walk works on the top frame and keeps its code.           *)
LEMMA SameFrames ==
    ASSUME NEW f, NEW g, Same(f, g), NEW e
    PROVE  /\ Same(Goes(f), g) /\ Same(Pushing(f, e), g)
           /\ Same([f EXCEPT !.failed = e], g) /\ Same([f EXCEPT !.complete = e], g)
           /\ Same([f EXCEPT !.quantifier = e], g)
  BY DEF Same, Goes, Pushing, Parts

LEMMA SamePopped ==
    ASSUME IsSequence(frames), Stack(frames), NEW n
    PROVE  /\ Same(Top, Top) /\ Same(Popped(n), Top)
           /\ Popped(n).pos = Top.pos /\ Parts \subseteq DOMAIN Popped(n)
<1>1. Same(Top, Top)
  BY DEF Stack, IsRuleFrame, IsSliceFrame, Same, Top
<1>. QED  BY <1>1 DEF Same, Popped, Parts

LEMMA ReduceKeeps ==
    ASSUME IsSequence(frames), Stack(frames), NEW n, NEW e, Reduce(n, e)
    PROVE  \E f : Same(f, Top) /\ Continue(f)
  BY SamePopped, SameFrames DEF Reduce

LEMMA FailKeeps ==
    ASSUME IsSequence(frames), Stack(frames), NEW f, Same(f, Top), NEW why, Fail(f, why)
    PROVE  \E g : Same(g, Top) /\ Continue(g)
  BY SameFrames DEF Fail

LEMMA WalkKeeps ==
    ASSUME IsSequence(frames), Stack(frames), Walk
    PROVE  \E f : Same(f, Top) /\ Continue(f)
<1> USE SamePopped, SameFrames, ReduceKeeps, FailKeeps
<1>1. CASE Skip
  BY <1>1 DEF Skip
<1>2. CASE JumpPopping
  BY <1>2 DEF JumpPopping
<1>3. CASE Push
  BY <1>3 DEF Push
<1>4. CASE PushShort
  BY <1>4 DEF PushShort
<1>5. CASE PushUndefined
  BY <1>5 DEF PushUndefined
<1>6. CASE PushRule
  BY <1>6 DEF PushRule
<1>7. CASE PushWord
  BY <1>7 DEF PushWord
<1>8. CASE PushSlot
  BY <1>8 DEF PushSlot
<1>9. CASE PushUnbound
  BY <1>9 DEF PushUnbound
<1>10. CASE StringOp
  BY <1>10 DEF StringOp
<1>11. CASE Of
  BY <1>11 DEF Of
<1>12. CASE OfNoSet
  BY <1>12 DEF OfNoSet
<1>13. CASE OfAnonymous
  BY <1>13 DEF OfAnonymous
<1>14. CASE Prefixed
  BY <1>14 DEF Prefixed
<1>15. CASE BinaryOp
  BY <1>15 DEF BinaryOp
<1>16. CASE ObjectOp
  BY <1>16 DEF ObjectOp
<1>17. CASE Call
  BY <1>17 DEF Call
<1>18. CASE CallUnreadable
  BY <1>18 DEF CallUnreadable
<1>19. CASE ReadInteger
  BY <1>19 DEF ReadInteger
<1>20. CASE Unhandled
  BY <1>20 DEF Unhandled
<1>. QED
  BY <1>1, <1>2, <1>3, <1>4, <1>5, <1>6, <1>7, <1>8, <1>9, <1>10, <1>11, <1>12, <1>13,
     <1>14, <1>15, <1>16, <1>17, <1>18, <1>19, <1>20 DEF Walk
-----------------------------------------------------------------------------
(* The two ways out of a slice: with its caller alone, or with another     *)
(* slice of the same loop.                                                 *)
Nested == IsSequence(frames) /\ Stack(frames)

LEMMA SliceOnRule ==
    ASSUME Nested, Top.role # "rule"
    PROVE  /\ Len(frames) = 2 /\ Caller = frames[1] /\ Front(frames)[1] = Caller
           /\ Len(Front(frames)) = 1 /\ Len(frames) - 1 = Len(Front(frames))
           /\ IsSequence(Front(frames)) /\ Stack(Front(frames))
<1>1. Len(frames) = 2
  BY DEF Nested, Stack, IsRuleFrame, Top
<1>2. Len(frames) - 1 = 1
  BY <1>1
<1>. QED  BY <1>1, <1>2, StackPop DEF Nested, Caller

(* The slices of the loop at which the rule's recovery stands.             *)
LEMMA LoopOfRule ==
    ASSUME NEW f, IsRuleFrame(f), f.pos \in DOMAIN f.loops
    PROVE  /\ DOMAIN FindLoops(f.loops[f.pos].iterable) = {}
           /\ DOMAIN FindLoops(f.loops[f.pos].body) = {}
  BY FoundLoops DEF IsRuleFrame

LEMMA EnterLoopNested == Nested /\ EnterLoop => Nested'
<1> SUFFICES ASSUME Nested, EnterLoop PROVE Nested'
  OBVIOUS
<1> DEFINE loop == Top.loops[Top.pos]
<1> DEFINE asked == [Popped(1) EXCEPT !.quantifier = Quantified(Arg(1).text)]
<1>1. Top.pos \in DOMAIN Top.loops
  BY DEF EnterLoop, AtLoop
<1>2. Len(frames) = 1 /\ Top = frames[1] /\ IsRuleFrame(Top)
  BY <1>1 DEF Nested, Stack, IsSliceFrame, Top
<1>3. Same(asked, Top) /\ asked.pos = Top.pos
  BY SamePopped, SameFrames DEF Nested, Parts
<1> DEFINE fs == [frames EXCEPT ![Len(frames)] = asked]
<1>4. IsSequence(fs) /\ Stack(fs)
  <2> HIDE DEF asked
  <2>. QED  BY <1>3, StackStep DEF Nested, Top
<1>5. Len(fs) = 1 /\ fs[1] = asked
  <2> HIDE DEF asked
  <2>. QED  BY <1>2, ExceptSeq DEF Nested, IsSequence
<1>6. PICK multi : frames' = Append(fs, Frame("iterable", loop.iterable, multi, Top.bindings))
  BY DEF EnterLoop
<1>7. IsSliceFrame(Frame("iterable", loop.iterable, multi, Top.bindings))
  BY <1>1, <1>2, LoopOfRule, NewFrame DEF IsSliceFrame
<1>8. fs[1].pos \in DOMAIN fs[1].loops
  BY <1>1, <1>3, <1>5 DEF Same
<1> HIDE DEF fs, loop
<1>. QED  BY <1>4, <1>5, <1>6, <1>7, <1>8, StackPush DEF Nested

LEMMA OpenBodyNested ==
    ASSUME Nested, Top.role # "rule", NEW it, OpenBody(it)
    PROVE  Nested'
<1> DEFINE g == [Caller EXCEPT !.iterable = it]
<1> DEFINE fs == [Front(frames) EXCEPT ![Len(Front(frames))] = g]
<1>1. /\ Len(frames) = 2 /\ Caller = frames[1] /\ Front(frames)[1] = Caller
      /\ Len(Front(frames)) = 1 /\ Len(frames) - 1 = Len(Front(frames))
      /\ IsSequence(Front(frames)) /\ Stack(Front(frames))
  BY SliceOnRule
<1>2. IsRuleFrame(Caller) /\ Caller.pos \in DOMAIN Caller.loops
  BY <1>1 DEF Nested, Stack
<1>3. Same(g, Caller) /\ g.pos = Caller.pos
  BY <1>2 DEF IsRuleFrame, Same, Parts
<1>4. IsSequence(fs) /\ Stack(fs)
  <2> HIDE DEF g
  <2>. QED  BY <1>1, <1>3, StackStep
<1>5. Len(fs) = 1 /\ fs[1] = g
  <2> HIDE DEF g
  <2>. QED  BY <1>1, ExceptSeq DEF IsSequence
<1>6. PICK bound : frames' = Append(fs, Frame("body", CallerLoop.body, FALSE, bound))
  BY <1>1 DEF OpenBody
<1>7. IsSliceFrame(Frame("body", CallerLoop.body, FALSE, bound))
  <2>1. DOMAIN FindLoops(CallerLoop.body) = {}
    BY <1>2, LoopOfRule DEF CallerLoop
  <2>2. "body" # "rule"
    OBVIOUS
  <2>. QED  BY <2>1, <2>2, NewSlice
<1>8. fs[1].pos \in DOMAIN fs[1].loops
  BY <1>2, <1>3, <1>5 DEF Same
<1> HIDE DEF fs
<1>. QED  BY <1>4, <1>5, <1>6, <1>7, <1>8, StackPush DEF Nested
LEMMA FailCallerNested ==
    ASSUME Nested, Top.role # "rule", NEW why, FailCaller(why)
    PROVE  Nested'
<1> DEFINE g == [Caller EXCEPT !.failed = TRUE]
<1> DEFINE fs == [Front(frames) EXCEPT ![Len(Front(frames))] = g]
<1>1. /\ Len(frames) = 2 /\ Caller = frames[1] /\ Front(frames)[1] = Caller
      /\ Len(Front(frames)) = 1 /\ Len(frames) - 1 = Len(Front(frames))
      /\ IsSequence(Front(frames)) /\ Stack(Front(frames))
  BY SliceOnRule
<1>2. IsRuleFrame(Caller)
  BY <1>1 DEF Nested, Stack
<1>3. Same(g, Caller)
  BY <1>2 DEF IsRuleFrame, Same, Parts
<1>4. IsSequence(fs) /\ Stack(fs)
  <2> HIDE DEF g
  <2>. QED  BY <1>1, <1>3, StackStep
<1>5. frames' = fs
  BY <1>1 DEF FailCaller
<1> HIDE DEF fs
<1>. QED  BY <1>4, <1>5 DEF Nested

LEMMA BodyRecoveredNested == Nested /\ BodyRecovered => Nested'
<1> SUFFICES ASSUME Nested, BodyRecovered PROVE Nested'
  OBVIOUS
<1> DEFINE e == Expr(LoopText, "cmp")
<1> DEFINE g == [Pushing(Caller, e) EXCEPT !.pos = CallerLoop.end + 1]
<1> DEFINE fs == Front(Front(frames))
<1>1. Top.role # "rule"
  BY DEF BodyRecovered, BodyDone
<1>2. Len(frames) = 2 /\ Caller = frames[1]
  BY <1>1, SliceOnRule
<1>3. IsRuleFrame(Caller)
  BY <1>2 DEF Nested, Stack
<1>4. Same(g, Caller)
  <2>1. Same(Caller, Caller)
    BY <1>3 DEF IsRuleFrame, Same
  <2>2. Same(Pushing(Caller, e), Caller)
    BY <2>1, SameFrames
  <2>. QED  BY <2>2 DEF Same, Parts
<1>5. IsSequence(fs) /\ Len(fs) = 0
  BY <1>2, StackPop DEF Nested
<1>6. PICK S : fs \in Seq(S)
  BY <1>5 DEF IsSequence
<1> DEFINE T == S \cup {g}
<1>7. fs \in Seq(T) /\ g \in T
  BY <1>6, SeqMonotonic
<1> HIDE DEF T, fs
<1>8. /\ Append(fs, g) \in Seq(T)
      /\ Len(Append(fs, g)) = Len(fs) + 1
      /\ Append(fs, g)[Len(fs) + 1] = g
  <2> HIDE DEF g
  <2>. QED  BY <1>7, AppendFacts
<1>9. Len(Append(fs, g)) = 1 /\ Append(fs, g)[1] = g
  BY <1>5, <1>8
<1>10. frames' = Append(fs, g)
  BY DEF BodyRecovered, fs
<1>11. IsRuleFrame(g)
  BY <1>3, <1>4, SameKind
<1> HIDE DEF g
<1>. QED  BY <1>8, <1>9, <1>10, <1>11 DEF Nested, Stack, IsSequence

LEMMA LoopNested == Nested /\ Loop => Nested'
<1> SUFFICES ASSUME Nested, Loop PROVE Nested'
  OBVIOUS
<1>1. CASE EnterLoop
  BY <1>1, EnterLoopNested
<1>2. CASE SetIterated
  BY <1>2, OpenBodyNested DEF SetIterated, IterableDone
<1>3. CASE SetAnonymous
  BY <1>3, FailCallerNested DEF SetAnonymous, IterableDone
<1>4. CASE RangeIterated
  BY <1>4, OpenBodyNested DEF RangeIterated, IterableDone
<1>5. CASE ValueIterated
  BY <1>5, OpenBodyNested DEF ValueIterated, IterableDone
<1>6. CASE IterableLost
  BY <1>6, FailCallerNested DEF IterableLost, IterableDone
<1>7. CASE BodyRecovered
  BY <1>7, BodyRecoveredNested
<1>8. CASE BodyLost
  BY <1>8, FailCallerNested DEF BodyLost, BodyDone
<1>. QED  BY <1>1, <1>2, <1>3, <1>4, <1>5, <1>6, <1>7, <1>8 DEF Loop

LEMMA InitNested == Init => Nested
<1> SUFFICES ASSUME Init PROVE Nested
  OBVIOUS
<1> DEFINE f == Frame("rule", rule.code, FALSE, [s \in Slot |-> Unbound])
<1>1. frames = <<f>>
  BY DEF Init
<1>2. rule.code \in Seq(Instr)
  BY ConditionAssumption DEF Init
<1>3. IsRuleFrame(f)
  <2>1. Parts \subseteq DOMAIN f
    BY NewFrame
  <2>2. f.role = "rule" /\ f.code = rule.code /\ f.loops = FindLoops(rule.code)
    BY DEF Frame
  <2> HIDE DEF f
  <2>. QED  BY <1>2, <2>1, <2>2 DEF IsRuleFrame
<1> HIDE DEF f
<1>4. <<f>> \in Seq({f}) /\ Len(<<f>>) = 1 /\ <<f>>[1] = f
  OBVIOUS
<1>5. IsSequence(frames)
  BY <1>1, <1>4 DEF IsSequence
<1>6. Len(frames) = 1 /\ frames[1] = f
  BY <1>1, <1>4
<1>. QED  BY <1>3, <1>5, <1>6 DEF Nested, Stack

LEMMA NextNested == Nested /\ [Next]_vars => Nested'
<1> SUFFICES ASSUME Nested, [Next]_vars PROVE Nested'
  OBVIOUS
<1>1. CASE Walk
  <2>1. PICK f : Same(f, Top) /\ Continue(f)
    BY <1>1, WalkKeeps DEF Nested
  <2>2. frames' = [frames EXCEPT ![Len(frames)] = f]
    BY <2>1 DEF Continue
  <2>. QED  BY <2>1, <2>2, StackStep DEF Nested, Top
<1>2. CASE Loop
  BY <1>2, LoopNested
<1>3. CASE Emit
  BY <1>3 DEF Emit, EmitCondition, EmitPlaceholder, Nested
<1>4. CASE Over \/ UNCHANGED vars
  BY <1>4 DEF Over, vars, Nested
<1>. QED  BY <1>1, <1>2, <1>3, <1>4 DEF Next

(* A loop within a loop is never recovered: whatever the code, the call    *)
(* stack of ConditionRecovery holds at most one nested recovery, and that  *)
(* of a slice without a loop.                                              *)
THEOREM LoopsNeverNestHolds == Spec => []LoopsNeverNest
<1>1. ASSUME Nested PROVE LoopsNeverNest
  <2>1. Len(frames) \in {1, 2}
    BY <1>1 DEF Nested, Stack
  <2>2. CASE Len(frames) = 1
    BY <2>2 DEF LoopsNeverNest
  <2>3. CASE Len(frames) = 2
    BY <2>3 DEF LoopsNeverNest
  <2>. QED  BY <2>1, <2>2, <2>3
<1>. QED  BY <1>1, InitNested, NextNested, PTL DEF Spec
=============================================================================
